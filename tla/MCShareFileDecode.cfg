CONSTANTS
  Schemas <- ShareFileSchemas
  Inputs <- DecodeInputs
  Numerals <- DecodeNumerals
  DecodeError = DecodeError

SPECIFICATION Spec

INVARIANTS
  TypeOK
  DepthTracksNesting
  OutcomeMatchesDocument

PROPERTY
  DecodingTerminates

\* Decoding stops once ParseResponse has its result or the exception.
CHECK_DEADLOCK FALSE
