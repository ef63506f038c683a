SPECIFICATION CallSpec
CONSTANTS
  Ops <- AllOps
  Responses <- MCAllResponses
  OptionsOf <- MCOptionsOf
  MetadataKeys <- MCMetadataKeys
  NoValue = NoValue
INVARIANT
  RequestCarriesOptions
CHECK_DEADLOCK FALSE
