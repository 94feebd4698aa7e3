SPECIFICATION FlagsSpec
CONSTANTS
  Readers = {t1, t2}
  Words = {w1, w2}
  Values = {d, a}
  Default = d
  Bad = Bad
  None = None
  Uses <- AlignedUses
  MaxCalls = 3
  MaxWrites = 3
CHECK_DEADLOCK FALSE
PROPERTY ValidatorsReturn
