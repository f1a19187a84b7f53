SPECIFICATION Spec
CONSTANTS
  Cases <- MCCases
  ShortLen = 4
  InstLatency = 70
  DataLatency = 500
  Word = 8
INVARIANTS TypeOK ArmsCut ClaimsPinned ClassTellsRepetition StraightLineBound CounterExact SearchExact
CHECK_DEADLOCK FALSE
