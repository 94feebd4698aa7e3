SPECIFICATION Spec
CONSTANTS
  Keys = {0, 2, 8, 16}
  Values = {1}
  Hash <- MCHash
  Kinds <- MCSparse
  WordBits = 64
  LoadFactor = 80
  Requests = {8}
  MaxBuckets = 8
  MaxSize = 4
  None = None
INVARIANT FirstOneInRange
