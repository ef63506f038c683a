SPECIFICATION Spec
CONSTANTS
  Schemas <- ShareFileSchemas
  Inputs <- FieldInputs
  Numerals <- MCNumerals
  DecodeError = DecodeError
INVARIANT OutcomeMatchesDocument
\* Decoding stops once ParseResponse has its result or the exception.
CHECK_DEADLOCK FALSE
