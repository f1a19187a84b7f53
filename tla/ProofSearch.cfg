SPECIFICATION FairSpec
CONSTANTS
  State <- MCState
  Root = "start"
  Finished = {"qed"}
  Goals <- MCGoals
  NoGoals = ""
  Tactic <- MCTactic
  Failed = "failed"
  Engines <- MCEngines
  Ladder <- MCLadder
  Scripts <- MCScripts
  Burst = 2
  RepairTactics <- MCRepair
  MaxProposals = 2
  MaxDepth = 3
  MaxRuns = 13
  MaxIterations = 2
  EscalateAfter = 1
  CanEscalate = TRUE
  RepairEnabled = TRUE
  MaxFaults = 2
INVARIANTS TypeOK Sound RunsBounded GoalsExploredOnce ExhaustiveWhenBudgetLeft PathsExplainStates
PROPERTY Terminates
CHECK_DEADLOCK FALSE
