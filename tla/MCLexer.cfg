SPECIFICATION Spec
CONSTANTS
  Inputs <- MCInputs
  EndOfInput = EndOfInput
  ReservedWords <- MCReservedWords
INVARIANTS
  TypeOK
  LocationsCorrect
  TokensInOrder
  FlagIsWhiteSpace
  NoWMeansTouching
  GapsAreBlank
  NumberIsItsText
  UnderscoresSeparateDigits
  StringIsItsText
PROPERTY
  RunEnds
CHECK_DEADLOCK FALSE
