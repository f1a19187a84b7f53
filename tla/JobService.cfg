SPECIFICATION FairSpec
CONSTANTS
  Jobs = {j1, j2}
  NoJob = NoJob
  Watched = {j1}
  Streams = {s1}
  Polls = {p1}
  MaxWorkers = 1
  MaxStages = 2
INVARIANTS TypeOK OpensOwnTheorem SnapshotConsistent StreamComplete
PROPERTY EveryoneServed
CHECK_DEADLOCK FALSE
