-------------------------- MODULE CorpusStoreProofs --------------------------
(***************************************************************************)
(* Proofs about CorpusStore, for any runs, indexers, index and number of   *)
(* saves that fail: with runs in turn the corpus is sound until a save     *)
(* fails half-way, keeps every proof until it is indexed anew, and is      *)
(* repaired by a reindex whatever has happened to it.                      *)
(***************************************************************************)
EXTENDS CorpusStore, SequenceTheorems, TLAPS

\* The index is a sequence of records.
LEMMA IndexedType == Indexed \in Seq(Records)
<1>1. Indexed \in Seq(ToSet(Indexed))
  BY CorpusConstants
<1>2. /\ Len(Indexed) \in Nat /\ DOMAIN Indexed = 1..Len(Indexed)
      /\ Indexed \in [1..Len(Indexed) -> ToSet(Indexed)]
  BY <1>1
<1>3. \A i \in 1..Len(Indexed) : Indexed[i] \in Records
  BY <1>2 DEF Records, ToSet
<1>4. Indexed \in [1..Len(Indexed) -> Records]
  BY <1>2, <1>3
<1>5. QED BY <1>2, <1>4

LEMMA FileType ==
  ASSUME NEW g \in Seq(Records), NEW t \in BOOLEAN
  PROVE  File(TRUE, g, t) \in Files
BY DEF File, Files

\* The first rows of a file are a file.
LEMMA PrefixType ==
  ASSUME NEW rows \in Seq(Records), NEW n \in 0..Len(rows), NEW t \in BOOLEAN
  PROVE  File(TRUE, SubSeq(rows, 1, n), t) \in Files
<1>1. \A i \in 1..n : rows[i] \in Records
  OBVIOUS
<1>2. SubSeq(rows, 1, n) \in Seq(Records)
  BY <1>1, SubSeqProperties
<1>3. QED BY <1>2, FileType

\* What a save that has not ended may have left.
LEMMA PartlyType ==
  ASSUME NEW rows \in Seq(Records), NEW f \in Partly(rows)
  PROVE  f \in Files
<1>0. CASE f \in {File(TRUE, SubSeq(rows, 1, n), FALSE) : n \in 0..Len(rows)}
  <2>1. PICK n \in 0..Len(rows) : f = File(TRUE, SubSeq(rows, 1, n), FALSE)
    BY <1>0
  <2>2. QED BY <2>1, PrefixType
<1>1. CASE f \in {File(TRUE, SubSeq(rows, 1, n), TRUE) : n \in 0..(Len(rows) - 1)}
  <2>1. PICK n \in 0..(Len(rows) - 1) : f = File(TRUE, SubSeq(rows, 1, n), TRUE)
    BY <1>1
  <2>2. n \in 0..Len(rows)
    OBVIOUS
  <2>3. QED BY <2>1, <2>2, PrefixType
<1>2. QED BY <1>0, <1>1 DEF Partly

LEMMA WholeType ==
  ASSUME NEW rows \in Seq(Records)
  PROVE  Whole(rows) \in Files /\ File(TRUE, <<>>, TRUE) \in Files /\ Absent \in Files
BY DEF Whole, Absent, File, Files

\* The fields of a file.
LEMMA FileFields ==
  /\ ~Absent.there /\ Absent.rows = <<>> /\ ~Absent.torn
  /\ \A rows : Whole(rows).there /\ Whole(rows).rows = rows /\ ~Whole(rows).torn
BY DEF Absent, Whole, File

Saving == {"saving", "writing", "saved recs", "writing vecs"}
Writing == {"writing", "saved recs", "writing vecs"}
Store == [recs : Seq(Records), vecs : Seq(Records)]

\* An indexer holds nothing but the index, and never loads or proves.
Kinds ==
  /\ \A p \in Processes : pc[p] = "idle" => mem[p].recs = <<>> /\ mem[p].vecs = <<>>
  /\ \A i \in Indexers :
       \/ pc[i] \in {"idle", "stored", "lost"}
       \/ pc[i] \in Saving /\ mem[i].recs = Indexed /\ mem[i].vecs = Indexed

LEMMA StepType ==
  ASSUME TypeOK, Kinds, NEW p \in Processes, Step(p)
  PROVE  /\ TypeOK'
         /\ \A q \in Processes \ {p} : pc'[q] = pc[q] /\ mem'[q] = mem[q]
<1>1. /\ recs \in Files /\ vecs \in Files /\ pc \in [Processes -> Pcs]
      /\ mem \in [Processes -> Store] /\ faults \in 0..SaveFaults
  BY DEF TypeOK, Store
<1>2. mem[p].recs \in Seq(Records) /\ mem[p].vecs \in Seq(Records)
  BY <1>1 DEF Store
<1>3. recs.rows \in Seq(Records) /\ vecs.rows \in Seq(Records)
  BY <1>1 DEF Files
<1>4. CASE LoadRecords(p) \/ LoadVectors(p)
  <2>1. /\ UNCHANGED <<recs, vecs, faults>>
        /\ \E x \in Pcs : pc' = [pc EXCEPT ![p] = x]
        /\ \/ mem' = mem
           \/ mem' = [mem EXCEPT ![p].recs = recs.rows]
           \/ mem' = [mem EXCEPT ![p].vecs = vecs.rows]
    BY <1>4 DEF LoadRecords, LoadVectors, Pcs, Resting
  <2>2. mem' \in [Processes -> Store] /\ \A q \in Processes \ {p} : mem'[q] = mem[q]
    BY <1>1, <1>3, <2>1 DEF Store
  <2>3. QED BY <1>1, <2>1, <2>2 DEF TypeOK, Store
<1>5. CASE Retrieve(p) \/ EndWithout(p)
  BY <1>1, <1>5 DEF Retrieve, EndWithout, TypeOK, Pcs, Resting
<1>6. CASE Add(p)
  <2>1. p \in Runs
    BY <1>6 DEF Processes, Kinds, Add, Saving
  <2>2. /\ UNCHANGED <<recs, vecs, faults>> /\ pc' = [pc EXCEPT ![p] = "saving"]
        /\ mem' = [mem EXCEPT ![p] = Added(mem[p], p)]
    BY <1>6 DEF Add
  <2>3. Added(mem[p], p) \in Store
    BY <1>2, <2>1 DEF Added, Store, Records
  <2>4. QED BY <1>1, <2>2, <2>3 DEF TypeOK, Store, Pcs
<1>7. CASE BuildIndex(p)
  <2>1. /\ UNCHANGED <<recs, vecs, faults>> /\ pc' = [pc EXCEPT ![p] = "saving"]
        /\ mem' = [mem EXCEPT ![p] = [recs |-> Indexed, vecs |-> Indexed]]
    BY <1>7 DEF BuildIndex
  <2>2. QED BY <1>1, <2>1, IndexedType DEF TypeOK, Store, Pcs
<1>8. CASE OpenRecords(p)
  BY <1>1, <1>2, <1>8, PartlyType DEF OpenRecords, TypeOK, Pcs
<1>9. CASE CloseRecords(p)
  BY <1>1, <1>2, <1>9, WholeType DEF CloseRecords, Written, TypeOK, Pcs
<1>10. CASE OpenVectors(p) \/ CloseVectors(p)
  BY <1>1, <1>2, <1>10, WholeType DEF OpenVectors, CloseVectors, TypeOK, Pcs, Resting
<1>11. CASE FailSave(p)
  <2>1. SaveFaults \in Nat
    BY CorpusConstants
  <2>2. /\ UNCHANGED <<recs, vecs, mem>> /\ faults' = faults + 1 /\ faults < SaveFaults
        /\ pc' = [pc EXCEPT ![p] = "lost"]
    BY <1>11 DEF FailSave, MayFault
  <2>3. faults' \in 0..SaveFaults
    BY <1>1, <2>1, <2>2
  <2>4. QED BY <1>1, <2>2, <2>3 DEF TypeOK, Store, Pcs, Resting
<1>12. QED
  BY <1>4, <1>5, <1>6, <1>7, <1>8, <1>9, <1>10, <1>11 DEF Step

LEMMA StepKinds ==
  ASSUME TypeOK, Kinds, NEW p \in Processes, Step(p)
  PROVE  Kinds'
<1>1. pc \in [Processes -> Pcs] /\ mem \in [Processes -> Store]
  BY DEF TypeOK, Store
<1>2. pc'[p] # "idle"
  BY <1>1 DEF Step, LoadRecords, LoadVectors, Retrieve, EndWithout, Add, BuildIndex, OpenRecords,
     CloseRecords, OpenVectors, CloseVectors, FailSave
<1>3. ASSUME p \in Indexers
      PROVE  \/ pc'[p] \in {"idle", "stored", "lost"}
             \/ pc'[p] \in Saving /\ mem'[p].recs = Indexed /\ mem'[p].vecs = Indexed
  <2>1. p \notin Runs
    BY <1>3, CorpusConstants
  <2>2. CASE BuildIndex(p)
    BY <1>1, <2>2 DEF BuildIndex, Saving
  <2>3. CASE ~BuildIndex(p)
    <3>1. \/ pc[p] \in {"idle", "stored", "lost"}
          \/ pc[p] \in Saving /\ mem[p].recs = Indexed /\ mem[p].vecs = Indexed
      BY <1>3 DEF Kinds
    <3>2. \/ OpenRecords(p) \/ CloseRecords(p) \/ OpenVectors(p) \/ CloseVectors(p) \/ FailSave(p)
      BY <2>1, <2>3, <3>1 DEF Step, Saving, LoadRecords, LoadVectors, Retrieve, EndWithout, Add
    <3>3. mem' = mem /\ pc[p] \in Saving /\ pc'[p] \in Saving \cup {"stored", "lost"}
      BY <1>1, <3>2 DEF Saving, OpenRecords, CloseRecords, OpenVectors, CloseVectors, FailSave
    <3>4. QED BY <3>1, <3>3 DEF Saving
  <2>4. QED BY <2>2, <2>3
<1>4. \A q \in Processes \ {p} : pc'[q] = pc[q] /\ mem'[q] = mem[q]
  BY StepType
<1>5. Indexers \subseteq Processes
  BY DEF Processes
<1>6. QED BY <1>2, <1>3, <1>4, <1>5 DEF Kinds

LEMMA InitType == Init => TypeOK /\ Kinds
<1> SUFFICES ASSUME Init PROVE TypeOK /\ Kinds
  OBVIOUS
<1>1. Whole(Indexed) \in Files /\ Absent \in Files
  BY IndexedType, WholeType
<1>2. 0 \in 0..SaveFaults
  BY CorpusConstants
<1>3. Empty \in Store /\ Empty.recs = <<>> /\ Empty.vecs = <<>>
  BY DEF Empty, Store
<1>4. QED BY <1>1, <1>2, <1>3 DEF Init, TypeOK, Kinds, Pcs, Resting, Store, Processes

LEMMA TypeStep == TypeOK /\ Kinds /\ [Next]_vars => (TypeOK /\ Kinds)'
<1> SUFFICES ASSUME TypeOK, Kinds, [Next]_vars PROVE (TypeOK /\ Kinds)'
  OBVIOUS
<1>1. CASE Next
  BY <1>1, StepType, StepKinds DEF Next
<1>2. CASE UNCHANGED vars
  BY <1>2 DEF vars, TypeOK, Kinds
<1>3. QED BY <1>1, <1>2

\* Files and stores only ever hold records, whatever is interleaved and fails.
THEOREM TypeCorrect == Spec => []TypeOK
<1>1. Spec => [](TypeOK /\ Kinds)
  BY InitType, TypeStep, PTL DEF Spec
<1>2. QED BY <1>1, PTL

-----------------------------------------------------------------------------
(* Runs in turn.                                                           *)

Alone == \A p, q \in Under : p = q

\* The records are closed before the vectors are opened.
RecordsClosed ==
  \A p \in Processes : pc[p] \in {"saved recs", "writing vecs"} => recs = Whole(mem[p].recs)

Calm == \A p \in Processes : pc[p] \notin Writing

\* Texts and vectors fit, on disk and in the store of whoever is under way.
Fits ==
  /\ Calm => recs = vecs /\ ~recs.torn /\ (recs.there \/ recs.rows = <<>>)
  /\ \A p \in Processes :
       /\ pc[p] = "loading" => mem[p].recs = recs.rows
       /\ pc[p] = "proving" \/ pc[p] \in Saving => mem[p].recs = mem[p].vecs
  /\ \A r \in Runs : pc[r] # "failed"

Rows(rows) == {rows[k] : k \in DOMAIN rows}
Stored == {r \in Runs : pc[r] = "stored"}

\* Every proof that was stored is on disk and in the store of whoever is under way.
Kept ==
  /\ Calm => Stored \subseteq Rows(recs.rows)
  /\ \A r \in Runs :
       /\ pc[r] \in {"loading", "proving"} => Stored \subseteq Rows(mem[r].recs)
       /\ pc[r] \in Saving => Stored \cup {r} \subseteq Rows(mem[r].recs)

Unindexed == \A i \in Indexers : pc[i] = "idle"

InTurn ==
  /\ Alone /\ RecordsClosed
  /\ faults = 0 => Fits
  /\ faults = 0 /\ Unindexed => Kept

\* Whoever takes a step is the only one under way, before and after it.
LEMMA OthersRest ==
  ASSUME Serial, TypeOK, Kinds, Alone, NEW p \in Processes, Step(p)
  PROVE  /\ \A q \in Processes \ {p} : pc[q] \in Resting /\ pc'[q] = pc[q] /\ mem'[q] = mem[q]
         /\ Alone'
         /\ Calm <=> pc[p] \notin Writing
         /\ Calm' <=> pc'[p] \notin Writing
<1>1. \A q \in Processes \ {p} : pc'[q] = pc[q] /\ mem'[q] = mem[q]
  BY StepType
<1>2. \A q \in Processes \ {p} : pc[q] \in Resting
  <2>1. CASE pc[p] = "idle"
    <3>1. MayStart
      BY <2>1 DEF Step, LoadRecords, LoadVectors, Retrieve, EndWithout, Add, BuildIndex,
         OpenRecords, CloseRecords, OpenVectors, CloseVectors, FailSave
    <3>2. QED BY <3>1 DEF MayStart, Under
  <2>2. CASE pc[p] # "idle"
    <3>1. p \in Under
      BY <2>2 DEF Step, LoadRecords, LoadVectors, Retrieve, EndWithout, Add, BuildIndex,
         OpenRecords, CloseRecords, OpenVectors, CloseVectors, FailSave, Under, Resting
    <3>2. QED BY <3>1 DEF Alone, Under
  <2>3. QED BY <2>1, <2>2
<1>3. Under' \subseteq {p}
  BY <1>1, <1>2 DEF Under
<1>4. QED BY <1>1, <1>2, <1>3 DEF Alone, Calm, Writing, Resting

\* How the files and the store of p change, and where p goes on.
LEMMA StepCases ==
  ASSUME TypeOK, NEW p \in Processes, Step(p)
  PROVE  /\ pc[p] \in {"idle", "loading", "proving"} \cup Saving
         /\ pc[p] = "idle" =>
              /\ UNCHANGED <<recs, vecs, faults>>
              /\ \/ p \in Runs /\ ~Found /\ pc'[p] = "proving" /\ mem'[p] = mem[p]
                 \/ p \in Runs /\ Found /\ ~recs.torn /\ pc'[p] = "loading" /\ mem'[p].recs = recs.rows
                 \/ p \in Runs /\ Found /\ recs.torn /\ pc'[p] = "failed"
                 \/ p \in Indexers /\ pc'[p] = "saving" /\ mem'[p].recs = Indexed /\ mem'[p].vecs = Indexed
         /\ pc[p] = "loading" =>
              /\ UNCHANGED <<recs, vecs, faults>>
              /\ \/ vecs.torn /\ pc'[p] = "failed"
                 \/ pc'[p] = "proving" /\ mem'[p].recs = mem[p].recs /\ mem'[p].vecs = vecs.rows
                 \/ pc'[p] = "dead"
         /\ pc[p] = "proving" =>
              /\ UNCHANGED <<recs, vecs, faults>>
              /\ \/ pc'[p] = "failed" /\ mem[p].recs # mem[p].vecs
                 \/ pc'[p] = "dead"
                 \/ /\ pc'[p] = "saving"
                    /\ mem'[p].recs = Append(mem[p].recs, p) /\ mem'[p].vecs = Append(mem[p].vecs, p)
         /\ pc[p] \in Saving =>
              \/ pc'[p] = "lost" /\ faults' = faults + 1 /\ UNCHANGED <<recs, vecs>>
              \/ /\ faults' = faults /\ mem'[p] = mem[p]
                 /\ \/ pc[p] = "saving" /\ pc'[p] = "writing"
                    \/ pc[p] = "writing" /\ pc'[p] = "saved recs" /\ recs' = Whole(mem[p].recs)
                    \/ pc[p] = "saved recs" /\ pc'[p] = "writing vecs" /\ recs' = recs
                    \/ /\ pc[p] = "writing vecs" /\ pc'[p] = "stored" /\ recs' = recs
                       /\ vecs' = Whole(mem[p].vecs)
<1>1. pc \in [Processes -> Pcs] /\ mem \in [Processes -> Store]
  BY DEF TypeOK, Store
<1>2. CASE LoadRecords(p)
  BY <1>1, <1>2 DEF LoadRecords, Store, Saving
<1>3. CASE LoadVectors(p)
  BY <1>1, <1>3 DEF LoadVectors, Store, Saving
<1>4. CASE Retrieve(p) \/ EndWithout(p)
  <2>1. Len(mem[p].vecs) > Len(mem[p].recs) => mem[p].recs # mem[p].vecs
    BY <1>1 DEF Store
  <2>2. QED BY <1>1, <1>4, <2>1 DEF Retrieve, EndWithout, Saving
<1>5. CASE Add(p)
  BY <1>1, <1>5 DEF Add, Added, Saving
<1>6. CASE BuildIndex(p)
  BY <1>1, <1>6 DEF BuildIndex, Saving
<1>7. CASE OpenRecords(p) \/ CloseRecords(p) \/ OpenVectors(p) \/ CloseVectors(p) \/ FailSave(p)
  BY <1>1, <1>7 DEF OpenRecords, CloseRecords, OpenVectors, CloseVectors, FailSave, Written, Saving
<1>8. QED BY <1>2, <1>3, <1>4, <1>5, <1>6, <1>7 DEF Step

\* A proof that is added is among the rows, with all that were there.
LEMMA RowsAppended ==
  ASSUME NEW S, NEW rows \in Seq(S), NEW x \in S
  PROVE  Rows(Append(rows, x)) = Rows(rows) \cup {x}
<1>1. /\ Append(rows, x) \in Seq(S) /\ Len(rows) \in Nat
      /\ DOMAIN rows = 1..Len(rows) /\ DOMAIN Append(rows, x) = 1..(Len(rows) + 1)
      /\ Append(rows, x)[Len(rows) + 1] = x
      /\ \A k \in 1..Len(rows) : Append(rows, x)[k] = rows[k]
  OBVIOUS
<1>2. Rows(Append(rows, x)) \subseteq Rows(rows) \cup {x}
  <2> SUFFICES ASSUME NEW k \in 1..(Len(rows) + 1) PROVE Append(rows, x)[k] \in Rows(rows) \cup {x}
    BY <1>1 DEF Rows
  <2>1. CASE k = Len(rows) + 1
    BY <1>1, <2>1
  <2>2. CASE k # Len(rows) + 1
    <3>1. k \in 1..Len(rows)
      BY <1>1, <2>2
    <3>2. QED BY <1>1, <3>1 DEF Rows
  <2>3. QED BY <2>1, <2>2
<1>3. Rows(rows) \subseteq Rows(Append(rows, x))
  <2> SUFFICES ASSUME NEW k \in 1..Len(rows) PROVE rows[k] \in Rows(Append(rows, x))
    BY <1>1 DEF Rows
  <2>1. k \in 1..(Len(rows) + 1) /\ Append(rows, x)[k] = rows[k]
    BY <1>1
  <2>2. QED BY <1>1, <2>1 DEF Rows
<1>4. x \in Rows(Append(rows, x))
  <2>1. Len(rows) + 1 \in 1..(Len(rows) + 1)
    BY <1>1
  <2>2. QED BY <1>1, <2>1 DEF Rows
<1>5. QED BY <1>2, <1>3, <1>4

LEMMA RecordsClosedStep ==
  ASSUME Serial, TypeOK, Kinds, Alone, RecordsClosed, NEW p \in Processes, Step(p)
  PROVE  RecordsClosed'
<1>1. \A q \in Processes \ {p} : pc'[q] \in Resting
  BY OthersRest
<1>2. pc'[p] \in {"saved recs", "writing vecs"} => recs' = Whole(mem'[p].recs)
  BY StepCases DEF RecordsClosed
<1>3. QED BY <1>1, <1>2 DEF RecordsClosed, Resting

LEMMA FitsStep ==
  ASSUME Serial, TypeOK, Kinds, Alone, RecordsClosed, faults = 0, Fits,
         NEW p \in Processes, Step(p), faults' = 0
  PROVE  Fits'
<1>1. /\ \A q \in Processes \ {p} : pc[q] \in Resting /\ pc'[q] = pc[q]
      /\ Calm <=> pc[p] \notin Writing
      /\ Calm' <=> pc'[p] \notin Writing
  BY OthersRest
<1>0. faults' # faults + 1
  OBVIOUS
<1>2. /\ Calm' => recs' = vecs' /\ ~recs'.torn /\ (recs'.there \/ recs'.rows = <<>>)
      /\ pc'[p] = "loading" => mem'[p].recs = recs'.rows
      /\ pc'[p] = "proving" \/ pc'[p] \in Saving => mem'[p].recs = mem'[p].vecs
      /\ pc'[p] = "failed" => p \notin Runs
  <2>1. /\ Calm => recs = vecs /\ ~recs.torn /\ (recs.there \/ recs.rows = <<>>)
        /\ pc[p] = "loading" => mem[p].recs = recs.rows
        /\ pc[p] = "proving" \/ pc[p] \in Saving => mem[p].recs = mem[p].vecs
        /\ pc[p] = "failed" => p \notin Runs
    BY DEF Fits
  <2>2. /\ pc[p] \in {"saved recs", "writing vecs"} => recs = Whole(mem[p].recs)
        /\ pc[p] = "idle" => mem[p].recs = <<>> /\ mem[p].vecs = <<>>
    BY DEF RecordsClosed, Kinds
  <2>3. \A rows : ~Whole(rows).torn /\ Whole(rows).there
    BY FileFields
  <2>4. CASE pc[p] = "idle"
    BY <1>0, <1>1, <2>1, <2>2, <2>3, <2>4, StepCases DEF Writing, Saving, Found
  <2>5. CASE pc[p] = "loading"
    BY <1>0, <1>1, <2>1, <2>2, <2>3, <2>5, StepCases DEF Writing, Saving, Found
  <2>6. CASE pc[p] = "proving"
    <3>1. Calm /\ Calm' /\ recs' = recs /\ vecs' = vecs
      BY <1>0, <1>1, <2>6, StepCases DEF Writing
    <3>2. \/ pc'[p] = "failed" /\ mem[p].recs # mem[p].vecs
          \/ pc'[p] = "dead"
          \/ pc'[p] = "saving" /\ mem'[p].recs = Append(mem[p].recs, p)
                              /\ mem'[p].vecs = Append(mem[p].vecs, p)
      BY <2>6, StepCases
    <3>3. mem[p].recs = mem[p].vecs
      BY <2>1, <2>6
    <3>4. QED BY <2>1, <3>1, <3>2, <3>3 DEF Saving
  <2>7. CASE pc[p] = "saving"
    BY <1>0, <1>1, <2>1, <2>2, <2>3, <2>7, StepCases DEF Writing, Saving, Found
  <2>8. CASE pc[p] = "writing"
    BY <1>0, <1>1, <2>1, <2>2, <2>3, <2>8, StepCases DEF Writing, Saving, Found
  <2>9. CASE pc[p] = "saved recs"
    BY <1>0, <1>1, <2>1, <2>2, <2>3, <2>9, StepCases DEF Writing, Saving, Found
  <2>10. CASE pc[p] = "writing vecs"
    <3>1. pc'[p] = "stored" /\ recs' = recs /\ vecs' = Whole(mem[p].vecs)
      BY <1>0, <2>10, StepCases DEF Saving
    <3>2. recs' = Whole(mem[p].recs) /\ vecs' = recs'
      BY <2>1, <2>2, <2>10, <3>1 DEF Saving
    <3>3. ~recs'.torn /\ recs'.there
      BY <2>3, <3>2
    <3>4. QED BY <3>1, <3>2, <3>3 DEF Saving
  <2>11. QED BY <2>4, <2>5, <2>6, <2>7, <2>8, <2>9, <2>10, StepCases DEF Saving
<1>3. QED BY <1>1, <1>2 DEF Fits, Resting, Saving, Processes

LEMMA KeptStep ==
  ASSUME Serial, TypeOK, Kinds, Alone, RecordsClosed, faults = 0, Fits, Unindexed, Kept,
         NEW p \in Processes, Step(p), faults' = 0, Unindexed'
  PROVE  Kept'
<1>1. /\ \A q \in Processes \ {p} : pc[q] \in Resting /\ pc'[q] = pc[q]
      /\ Calm <=> pc[p] \notin Writing
      /\ Calm' <=> pc'[p] \notin Writing
  BY OthersRest
<1>0. faults' # faults + 1
  OBVIOUS
<1>2. p \in Runs /\ pc'[p] # "idle"
  <2>1. pc'[p] # "idle"
    BY StepCases
  <2>2. QED BY <2>1 DEF Processes, Unindexed
<1>3. Stored' = IF pc'[p] = "stored" THEN Stored \cup {p} ELSE Stored \ {p}
  BY <1>1, <1>2 DEF Stored, Processes
<1>4. /\ Calm => Stored \subseteq Rows(recs.rows)
      /\ pc[p] \in {"loading", "proving"} => Stored \subseteq Rows(mem[p].recs)
      /\ pc[p] \in Saving => Stored \cup {p} \subseteq Rows(mem[p].recs)
      /\ pc[p] \in {"saved recs", "writing vecs"} => recs = Whole(mem[p].recs)
      /\ pc[p] = "idle" => mem[p].recs = <<>>
      /\ Calm => recs = vecs /\ ~recs.torn /\ (recs.there \/ recs.rows = <<>>)
  BY <1>2 DEF Kept, RecordsClosed, Kinds, Fits
<1>5. /\ Rows(Append(mem[p].recs, p)) = Rows(mem[p].recs) \cup {p}
      /\ \A rows : Whole(rows).rows = rows
  <2>1. mem[p].recs \in Seq(Records) /\ p \in Records
    BY <1>2 DEF TypeOK, Records
  <2>2. QED BY <2>1, RowsAppended, FileFields
<1>6. p \notin Indexers
  BY <1>2, CorpusConstants
<1>7. /\ Calm' => Stored' \subseteq Rows(recs'.rows)
      /\ pc'[p] \in {"loading", "proving"} => Stored' \subseteq Rows(mem'[p].recs)
      /\ pc'[p] \in Saving => Stored' \cup {p} \subseteq Rows(mem'[p].recs)
  <2>1. CASE pc[p] = "idle"
    <3>1. Calm /\ recs' = recs /\ Stored' \subseteq Stored
      BY <1>0, <1>1, <1>3, <2>1, StepCases DEF Writing, Saving
    <3>2. \/ ~Found /\ pc'[p] = "proving" /\ mem'[p] = mem[p]
          \/ Found /\ pc'[p] = "loading" /\ mem'[p].recs = recs.rows
          \/ pc'[p] = "failed"
      BY <1>6, <2>1, StepCases
    <3>3. Stored \subseteq Rows(recs.rows) /\ (Found \/ recs.rows = mem[p].recs)
      BY <1>4, <2>1, <3>1 DEF Found
    <3>4. QED BY <3>1, <3>2, <3>3 DEF Saving
  <2>2. CASE pc[p] = "loading"
    BY <1>0, <1>1, <1>3, <1>4, <1>5, <1>6, <2>2, StepCases DEF Writing, Saving, Found
  <2>3. CASE pc[p] = "proving"
    BY <1>0, <1>1, <1>3, <1>4, <1>5, <1>6, <2>3, StepCases DEF Writing, Saving, Found
  <2>4. CASE pc[p] = "saving"
    BY <1>0, <1>1, <1>3, <1>4, <1>5, <1>6, <2>4, StepCases DEF Writing, Saving, Found
  <2>5. CASE pc[p] = "writing"
    BY <1>0, <1>1, <1>3, <1>4, <1>5, <1>6, <2>5, StepCases DEF Writing, Saving, Found
  <2>6. CASE pc[p] = "saved recs"
    BY <1>0, <1>1, <1>3, <1>4, <1>5, <1>6, <2>6, StepCases DEF Writing, Saving, Found
  <2>7. CASE pc[p] = "writing vecs"
    <3>1. pc'[p] = "stored" /\ recs' = recs
      BY <1>0, <2>7, StepCases DEF Saving
    <3>2. recs'.rows = mem[p].recs
      BY <1>4, <1>5, <2>7, <3>1
    <3>3. Stored' \subseteq Rows(recs'.rows)
      BY <1>3, <1>4, <2>7, <3>1, <3>2 DEF Saving
    <3>4. QED BY <3>1, <3>3 DEF Saving
  <2>8. QED BY <2>1, <2>2, <2>3, <2>4, <2>5, <2>6, <2>7, StepCases DEF Saving
<1>8. QED BY <1>1, <1>7 DEF Kept, Resting, Saving, Processes

LEMMA InTurnCorrect ==
  ASSUME Serial
  PROVE  Spec => [](TypeOK /\ Kinds /\ InTurn)
<1>1. Init => TypeOK /\ Kinds /\ InTurn
  <2> SUFFICES ASSUME Init PROVE InTurn
    BY InitType
  <2>1. \A p \in Processes : pc[p] = "idle"
    BY DEF Init
  <2>2. recs = vecs /\ ~recs.torn /\ (recs.there \/ recs.rows = <<>>)
    BY FileFields DEF Init
  <2>3. QED BY <2>1, <2>2 DEF InTurn, Alone, Under, Resting, RecordsClosed, Fits, Kept, Stored, Saving,
         Processes
<1>2. TypeOK /\ Kinds /\ InTurn /\ [Next]_vars => (TypeOK /\ Kinds /\ InTurn)'
  <2> SUFFICES ASSUME TypeOK, Kinds, InTurn, [Next]_vars PROVE InTurn'
    BY TypeStep
  <2>1. CASE Next
    <3>1. PICK p \in Processes : Step(p)
      BY <2>1 DEF Next
    <3>2. Alone' /\ RecordsClosed'
      BY <3>1, OthersRest, RecordsClosedStep DEF InTurn
    <3>3. faults' = 0 => faults = 0
      <4>1. faults \in Nat
        BY DEF TypeOK
      <4>2. faults' = faults \/ faults' = faults + 1
        BY <3>1, StepCases
      <4>3. QED BY <4>1, <4>2
    <3>4. Unindexed' => Unindexed
      <4>1. \A q \in Processes \ {p} : pc'[q] = pc[q]
        BY <3>1, OthersRest DEF InTurn
      <4>2. pc'[p] # "idle"
        BY <3>1, StepCases
      <4>3. QED BY <4>1, <4>2 DEF Unindexed, Processes
    <3>5. QED BY <3>1, <3>2, <3>3, <3>4, FitsStep, KeptStep DEF InTurn
  <2>2. CASE UNCHANGED vars
    BY <2>2 DEF vars, InTurn, Alone, Under, RecordsClosed, Fits, Calm, Kept, Stored, Unindexed
  <2>3. QED BY <2>1, <2>2
<1>3. QED BY <1>1, <1>2, PTL DEF Spec

\* With runs in turn texts and vectors stay paired and no run fails over the
\* corpus until a save fails half-way (store.py:62, orchestrator.py:228).
THEOREM SoundCorrect ==
  ASSUME Serial
  PROVE  Spec => []SoundUntilFault
<1>1. TypeOK /\ InTurn => SoundUntilFault
  <2> SUFFICES ASSUME InTurn, faults = 0 PROVE Paired /\ \A r \in Runs : pc[r] # "failed"
    BY DEF SoundUntilFault
  <2>1. Fits
    BY DEF InTurn
  <2>2. Under = {} => Calm
    BY DEF Under, Calm, Writing, Resting
  <2>3. QED BY <2>1, <2>2 DEF Fits, Paired
<1>2. QED BY <1>1, InTurnCorrect, PTL

\* A proof that was reported stored can be retrieved by every later run, for
\* any number of runs (orchestrator.py:242).
THEOREM GrowsCorrect == Spec => []CorpusGrows
<1>1. ASSUME Serial PROVE Spec => []CorpusGrows
  <2>1. TypeOK /\ InTurn => CorpusGrows
    <3> SUFFICES ASSUME InTurn, faults = 0, Unindexed, Under = {}
                 PROVE  Stored \subseteq Retrievable
      BY DEF CorpusGrows, AddedIsRetrievable, Unindexed, Stored
    <3>1. Fits /\ Kept /\ Calm
      BY DEF InTurn, Under, Calm, Writing, Resting
    <3>2. QED BY <3>1 DEF Fits, Kept, Retrievable, Rows
  <2>2. QED BY <1>1, <2>1, InTurnCorrect, PTL
<1>2. ASSUME ~Serial PROVE Spec => []CorpusGrows
  <2>1. CorpusGrows
    BY <1>2 DEF CorpusGrows
  <2>2. QED BY <2>1, PTL
<1>3. QED BY <1>1, <1>2

\* Whatever crashes have left, an index that is built alone repairs both files
\* (index.py:108).
THEOREM RepairCorrect ==
  ASSUME Serial
  PROVE  Spec => IndexRepairs
<1>1. TypeOK /\ Kinds /\ InTurn /\ [Next]_vars =>
        [\A i \in Indexers : pc'[i] = "stored" /\ pc[i] # "stored" =>
           recs' = Whole(Indexed) /\ vecs' = Whole(Indexed)]_vars
  <2> SUFFICES ASSUME TypeOK, Kinds, InTurn, Next,
                      NEW i \in Indexers, pc'[i] = "stored", pc[i] # "stored"
               PROVE  recs' = Whole(Indexed) /\ vecs' = Whole(Indexed)
    OBVIOUS
  <2>1. PICK p \in Processes : Step(p)
    BY DEF Next
  <2>2. i = p
    BY <2>1, StepType DEF Processes
  <2>3. pc[p] = "writing vecs" /\ vecs' = Whole(mem[p].vecs) /\ recs' = recs
    BY <2>1, <2>2, StepCases
  <2>4. recs = Whole(mem[p].recs) /\ mem[p].recs = Indexed /\ mem[p].vecs = Indexed
    BY <2>2, <2>3 DEF InTurn, RecordsClosed, Kinds
  <2>5. QED BY <2>3, <2>4
<1>2. QED BY <1>1, InTurnCorrect, PTL DEF Spec, IndexRepairs
=============================================================================
