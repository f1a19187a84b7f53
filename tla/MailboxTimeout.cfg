SPECIFICATION Spec
CONSTANTS
  Inputs <- MCInputs
  Cycles <- MCCycles
  Word = 8
INVARIANT TimeoutMeansNoDone
CHECK_DEADLOCK FALSE
