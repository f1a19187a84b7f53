SPECIFICATION Spec
CONSTANTS
  lemma = lemma
  proof = proof
  Runs = {r1, r2, r3}
  Indexers = {}
  Indexed <- MCIndexed
  Serial = FALSE
  SaveFaults = 0
INVARIANT AddedIsRetrievable
CHECK_DEADLOCK FALSE
