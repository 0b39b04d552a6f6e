SPECIFICATION Spec
CONSTANTS
  Deques = {d1, d2}
  Values = {v1, v2}
  FirstChunk = 1
  MaxIndex = 3
  MaxLength = 3
  Error = Error
SYMMETRY Symmetry
INVARIANTS
  TypeOK
  ItemsInChunks
  NothingLeftBehind
PROPERTY
  ImplementsSequences
