----------------------------- MODULE CorpusStore -----------------------------
(***************************************************************************)
(* The solved-proof corpus on disk (rag/store.py): records.jsonl and       *)
(* vecs.npy, read whole when a run builds its Retriever and rewritten      *)
(* whole, one file after the other and without a lock, by the run's        *)
(* _store_solved and by `cloq index`.  Runs and indexers are processes, or *)
(* jobs of one, over one store_dir.                                        *)
(*                                                                         *)
(* A record is known by the run that solved it or its place in the index;  *)
(* the vector of a record stands as the record itself, so the two files    *)
(* fit when they hold the same sequence.  When two writers have a file     *)
(* open at once the later close decides what it holds: a mixture of both   *)
(* would only be worse.                                                    *)
(***************************************************************************)
EXTENDS Integers, Sequences, SequencesExt

CONSTANTS
  Runs,        \* runs of the prover
  Indexers,    \* runs of `cloq index`
  Indexed,     \* the records an index is built of
  Serial,      \* the environment starts a run only when no other is under way
  SaveFaults   \* bound: how many saves crash or fail half-way

ASSUME CorpusConstants ==
  /\ Indexed \in Seq(ToSet(Indexed))
  /\ Runs \cap Indexers = {} /\ Runs \cap ToSet(Indexed) = {}
  /\ Serial \in BOOLEAN /\ SaveFaults \in Nat

VARIABLES
  recs, vecs,  \* the two files
  pc,
  mem,         \* VectorStore._records and _vecs of a run
  faults

vars == <<recs, vecs, pc, mem, faults>>

Processes == Runs \cup Indexers
Records == Runs \cup ToSet(Indexed)

\* A torn file is there and cannot be parsed.
File(there, rows, torn) == [there |-> there, rows |-> rows, torn |-> torn]
Absent == File(FALSE, <<>>, FALSE)
Whole(rows) == File(TRUE, rows, FALSE)
Empty == [recs |-> <<>>, vecs |-> <<>>]

Resting == {"idle", "stored", "lost", "failed", "dead"}
Pcs == Resting \cup {"loading", "proving", "saving", "writing", "saved recs", "writing vecs"}
Under == {p \in Processes : pc[p] \notin Resting}

\* The volume is new, or holds an index.
Init ==
  /\ \/ recs = Absent /\ vecs = Absent
     \/ recs = Whole(Indexed) /\ vecs = Whole(Indexed)
  /\ pc = [p \in Processes |-> "idle"]
  /\ mem = [p \in Processes |-> Empty]
  /\ faults = 0

-----------------------------------------------------------------------------
(* VectorStore.load: the records, then the vectors.                        *)

MayStart == Serial => Under = {}

FoundNever == FALSE                  \* slip: every store starts empty
Found == recs.there /\ vecs.there

\* Both files have to be there; a record that cannot be parsed raises.
LoadRecords(r) ==
  /\ r \in Runs /\ pc[r] = "idle" /\ MayStart
  /\ \/ /\ ~Found
        /\ pc' = [pc EXCEPT ![r] = "proving"] /\ UNCHANGED mem
     \/ /\ Found /\ ~recs.torn
        /\ mem' = [mem EXCEPT ![r].recs = recs.rows]
        /\ pc' = [pc EXCEPT ![r] = "loading"]
     \/ /\ Found /\ recs.torn
        /\ pc' = [pc EXCEPT ![r] = "failed"] /\ UNCHANGED mem
  /\ UNCHANGED <<recs, vecs, faults>>

LoadVectors(r) ==
  /\ pc[r] = "loading"
  /\ IF vecs.torn
       THEN pc' = [pc EXCEPT ![r] = "failed"] /\ UNCHANGED mem
       ELSE /\ mem' = [mem EXCEPT ![r].vecs = vecs.rows]
            /\ pc' = [pc EXCEPT ![r] = "proving"]
  /\ UNCHANGED <<recs, vecs, faults>>

\* query walks the rows of the matrix: a row without a record raises IndexError out
\* of prove(), unless k better ones come first; with no record it returns at once.
Retrieve(r) ==
  /\ pc[r] = "proving"
  /\ mem[r].recs # <<>> /\ Len(mem[r].vecs) > Len(mem[r].recs)
  /\ pc' = [pc EXCEPT ![r] = "failed"]
  /\ UNCHANGED <<recs, vecs, mem, faults>>

\* The run finds no proof, or its process dies, before anything is written.
EndWithout(r) ==
  /\ pc[r] \in {"loading", "proving"}
  /\ pc' = [pc EXCEPT ![r] = "dead"]
  /\ UNCHANGED <<recs, vecs, mem, faults>>

-----------------------------------------------------------------------------
(* add and save.                                                           *)

AddedNested(m, r) == [recs |-> Append(m.recs, <<r>>), vecs |-> Append(m.vecs, r)]  \* slip: add([rec], vec)
AddedInFront(m, r) == [recs |-> Append(m.recs, r), vecs |-> <<r>> \o m.vecs]  \* slip: vstack([v, vecs])
Added(m, r) == [recs |-> Append(m.recs, r), vecs |-> Append(m.vecs, r)]

\* A proof is found: _store_solved adds its record.
Add(r) ==
  /\ pc[r] = "proving"
  /\ mem' = [mem EXCEPT ![r] = Added(mem[r], r)]
  /\ pc' = [pc EXCEPT ![r] = "saving"]
  /\ UNCHANGED <<recs, vecs, faults>>

\* build_index starts from an empty store and never loads the old one.
BuildIndex(i) ==
  /\ i \in Indexers /\ pc[i] = "idle" /\ MayStart
  /\ mem' = [mem EXCEPT ![i] = [recs |-> Indexed, vecs |-> Indexed]]
  /\ pc' = [pc EXCEPT ![i] = "saving"]
  /\ UNCHANGED <<recs, vecs, faults>>

\* Opening for writing truncates; some first part of the data, the whole of it at
\* most, reaches the disk before the close.
Partly(rows) ==
  {File(TRUE, SubSeq(rows, 1, n), FALSE) : n \in 0..Len(rows)}
    \cup {File(TRUE, SubSeq(rows, 1, n), TRUE) : n \in 0..(Len(rows) - 1)}

OpenRecords(p) ==
  /\ pc[p] = "saving"
  /\ recs' \in Partly(mem[p].recs)
  /\ pc' = [pc EXCEPT ![p] = "writing"]
  /\ UNCHANGED <<vecs, mem, faults>>

WrittenAfter(rows) == File(TRUE, recs.rows \o rows, recs.torn)   \* slip: open(..., "a")
Written(rows) == Whole(rows)

CloseRecords(p) ==
  /\ pc[p] = "writing"
  /\ recs' = Written(mem[p].recs)
  /\ pc' = [pc EXCEPT ![p] = "saved recs"]
  /\ UNCHANGED <<vecs, mem, faults>>

\* An array that is not complete cannot be loaded.
OpenVectors(p) ==
  /\ pc[p] = "saved recs"
  /\ vecs' = File(TRUE, <<>>, TRUE)
  /\ pc' = [pc EXCEPT ![p] = "writing vecs"]
  /\ UNCHANGED <<recs, mem, faults>>

CloseVectors(p) ==
  /\ pc[p] = "writing vecs"
  /\ vecs' = Whole(mem[p].vecs)
  /\ pc' = [pc EXCEPT ![p] = "stored"]
  /\ UNCHANGED <<recs, mem, faults>>

MayFault == faults < SaveFaults

\* A write fails, which _store_solved swallows ("lost"), or the process dies.
FailSave(p) ==
  /\ pc[p] \in {"saving", "writing", "saved recs", "writing vecs"}
  /\ MayFault
  /\ pc' = [pc EXCEPT ![p] = "lost"]
  /\ faults' = faults + 1
  /\ UNCHANGED <<recs, vecs, mem>>

Step(p) ==
  \/ LoadRecords(p) \/ LoadVectors(p) \/ Retrieve(p) \/ EndWithout(p) \/ Add(p)
  \/ BuildIndex(p)
  \/ OpenRecords(p) \/ CloseRecords(p) \/ OpenVectors(p) \/ CloseVectors(p) \/ FailSave(p)

Next == \E p \in Processes : Step(p)

Spec == Init /\ [][Next]_vars

-----------------------------------------------------------------------------
(* Properties.                                                             *)

\* Files, stores and processes stay within their ranges.
Files == [there : BOOLEAN, rows : Seq(Records), torn : BOOLEAN]
TypeOK ==
  /\ recs \in Files /\ vecs \in Files
  /\ pc \in [Processes -> Pcs]
  /\ mem \in [Processes -> [recs : Seq(Records), vecs : Seq(Records)]]
  /\ faults \in 0..SaveFaults

\* The text retrieved for a vector is the text that was embedded: on disk when
\* nobody writes, and in every store that was loaded, the rows fit one to one.
Paired ==
  /\ Under = {} => ~recs.torn /\ ~vecs.torn /\ recs.rows = vecs.rows
  /\ \A p \in Processes : pc[p] = "proving" => mem[p].recs = mem[p].vecs

\* What a run can retrieve of the corpus when nobody writes.
Retrievable == {recs.rows[i] : i \in {j \in DOMAIN recs.rows :
                  j \in DOMAIN vecs.rows /\ vecs.rows[j] = recs.rows[j]}}

\* As long as no save has failed half-way, indexing or not, the corpus is sound and
\* fails no run.
SoundUntilFault == faults = 0 => Paired /\ \A r \in Runs : pc[r] # "failed"

\* `cloq index` repairs whatever a crash left on disk.
IndexRepairs ==
  [][\A i \in Indexers : pc'[i] = "stored" /\ pc[i] # "stored" =>
       recs' = Whole(Indexed) /\ vecs' = Whole(Indexed)]_vars

\* README: a proof is "surfaced as `stored: added to corpus`, so the next run can
\* retrieve it": what any run reported stored is there for every run that starts later.
AddedIsRetrievable ==
  Under = {} => {r \in Runs : pc[r] = "stored"} \subseteq Retrievable

\* What is needed for that: runs in turn, no save that fails half-way and no reindex.
\* Runs that end without a proof, or die before they write, do not matter.
CorpusGrows ==
  Serial /\ faults = 0 /\ (\A i \in Indexers : pc[i] = "idle") => AddedIsRetrievable
=============================================================================
