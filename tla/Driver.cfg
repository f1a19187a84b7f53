SPECIFICATION FairSpec
CONSTANTS
  Tactics = {t1}
  NoState = NoState
  Budgets = {0, 1, 3}
  DefaultBudget = 2
  Grace = 4
  MaxCalls = 3
  MaxPath = 2
INVARIANTS TypeOK InSync Contract
PROPERTY CallsReturn
CHECK_DEADLOCK FALSE
