SPECIFICATION Spec
CONSTANTS
  Inputs <- MCInputs
  EndOfInput = EndOfInput
  ReservedWords <- MCReservedWords
INVARIANT
  MultilineStringsAreClosed
CHECK_DEADLOCK FALSE
