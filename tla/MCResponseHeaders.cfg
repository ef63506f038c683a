SPECIFICATION CallSpec
CONSTANTS
  Ops <- ConformingOps
  Responses <- MCConformingResponses
  OptionsOf <- MCOptionsOf
  MetadataKeys <- MCMetadataKeys
  NoValue = NoValue
INVARIANTS
  ConformingResponseParses
  ResultCarriesSentHeaders
  RequiredHeadersPresent
  RoutedToOwnOperation
CHECK_DEADLOCK FALSE
