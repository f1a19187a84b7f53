SPECIFICATION Spec
CONSTANTS
  lemma = lemma
  proof = proof
  Runs = {r1, r2, r3}
  Indexers = {index}
  Indexed <- MCIndexed
  Serial = TRUE
  SaveFaults = 2
INVARIANTS TypeOK SoundUntilFault CorpusGrows
PROPERTY IndexRepairs
CHECK_DEADLOCK FALSE
