SPECIFICATION Spec
CONSTANTS
  Invariants <- MCInvariants
  None = "none"
  Timed <- MCTimed
  MentionSecret <- MCMentionSecret
  Elaborates <- MCElaborates
  Provable <- MCProvable
  HasSecret = TRUE
  MaxIterations = 2
  EscalateAfter = 1
  CanEscalate = TRUE
  FullAttempts = 3
  FullRuns = 2
  CeilingAttempts = 1
  CeilingRuns = 1
INVARIANTS TypeOK ReportTellsOutcome CorpusMatchesReport CeilingPolicy
CHECK_DEADLOCK FALSE
