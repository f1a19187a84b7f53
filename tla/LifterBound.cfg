SPECIFICATION Spec
CONSTANTS
  Cases <- MCBranch
  ShortLen = 0
  InstLatency = 1
  DataLatency = 1
  Word = 8
INVARIANT WcetIsUpperBound
CHECK_DEADLOCK FALSE
