SPECIFICATION FairSpec
CONSTANTS
  Invariants <- MCInvariants
  None = "none"
  Timed <- MCTimed
  MentionSecret <- MCMentionSecret
  Elaborates <- MCElaborates
  Provable <- MCProvable
  HasSecret = TRUE
  AttemptLimits = {1, 3}
  RunLimits = {2}
  MaxIterations = 2
  EscalateAfter = 1
  CanEscalate = TRUE
INVARIANTS TypeOK Verified CallsAccounted FeedbackFresh
PROPERTY Implements
CHECK_DEADLOCK FALSE
