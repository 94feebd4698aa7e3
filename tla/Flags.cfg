SPECIFICATION FlagsSpec
CONSTANTS
  Readers = {t1, t2}
  Words = {w1, w2}
  Values = {d, a}
  Default = d
  Bad = Bad
  None = None
  Uses <- FlagUses
  MaxCalls = 3
  MaxWrites = 3
CHECK_DEADLOCK FALSE
INVARIANTS ReadsWhole StoresApart CounterMeansUnchanged CallbackSeesLast
PROPERTY CallsReturn
