SPECIFICATION Spec
CONSTANTS
  Inputs <- MCSlashes
  EndOfInput = EndOfInput
  ReservedWords <- MCReservedWords
INVARIANT
  FailuresAreLexerErrors
CHECK_DEADLOCK FALSE
