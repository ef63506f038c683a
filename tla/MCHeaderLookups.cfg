SPECIFICATION CallSpec
CONSTANTS
  Ops <- LookupOps
  Responses <- MCLookupResponses
  OptionsOf <- MCOptionsOf
  MetadataKeys <- MCMetadataKeys
  NoValue = NoValue
INVARIANT
  ConformingResponseParses
CHECK_DEADLOCK FALSE
