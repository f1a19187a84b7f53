SPECIFICATION Spec
CONSTANTS
  State <- MCState
  Root = "start"
  Finished = {"qed"}
  Goals <- MCGoals
  NoGoals = ""
  Tactic <- MCTactic
  Failed = "failed"
  Engines <- MCEngines
  Ladder <- MCLadder
  Scripts <- MCScripts
  Burst = 2
  RepairTactics <- MCRepair
  MaxProposals = 2
  MaxDepth = 3
  MaxRuns = 11
  MaxIterations = 3
  EscalateAfter = 1
  CanEscalate = TRUE
  RepairEnabled = TRUE
  MaxFaults = 0
INVARIANT PathReplaysToState
CHECK_DEADLOCK FALSE
