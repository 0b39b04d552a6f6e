SPECIFICATION Spec
CONSTANTS
  a = a
  b = b
  c = c
  Keys <- MCKeys
  Values = {v1}
  Hash <- MCHash
  InitialSize = 4
  MaxSize = 8
  NoKey = NoKey
  NoValue = NoValue
PROPERTIES
  NoKeyLost
  CallsReturn
