SPECIFICATION Spec
CONSTANTS
  Inputs <- MCInputs
  EndOfInput = EndOfInput
  ReservedWords <- MCReservedWords
INVARIANT
  OctalOnlyWithoutPoint
CHECK_DEADLOCK FALSE
