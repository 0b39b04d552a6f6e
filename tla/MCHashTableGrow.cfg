SPECIFICATION Spec
CONSTANTS
  a = a
  b = b
  c = c
  Keys <- MCKeys
  Values = {v1, v2}
  Hash <- MCHashLow
  InitialSize = 4
  MaxSize = 8
  NoKey = NoKey
  NoValue = NoValue
PROPERTY
  GrowKeepsValues
