-------------------------- MODULE GenerateAndCheck --------------------------
(***************************************************************************)
(* What the agent promises, without saying how: candidates that pass the   *)
(* gates are opened on the proof engine one after the other, only an open  *)
(* candidate whose theorem holds can be accepted, at most the accepted     *)
(* candidate is kept in the corpus, and a verdict comes and is final.      *)
(***************************************************************************)
CONSTANTS Candidate, NoCandidate, Admissible, Provable

VARIABLES opened, verdict, kept

vars == <<opened, verdict, kept>>

Init == opened = NoCandidate /\ verdict = "pending" /\ kept = {}

Open ==
  /\ verdict = "pending"
  /\ opened' \in Candidate \cap Admissible
  /\ UNCHANGED <<verdict, kept>>

Close ==
  /\ verdict = "pending"
  /\ opened' = NoCandidate
  /\ UNCHANGED <<verdict, kept>>

Accept ==
  /\ verdict = "pending" /\ opened \in Provable
  /\ verdict' = "proved"
  /\ kept' \in {kept, kept \cup {opened}}
  /\ UNCHANGED opened

Refuse ==
  /\ verdict = "pending"
  /\ verdict' = "failed"
  /\ opened' \in {opened, NoCandidate}
  /\ UNCHANGED kept

Next == Open \/ Close \/ Accept \/ Refuse

Spec == Init /\ [][Next]_vars /\ WF_vars(Accept \/ Refuse)
=============================================================================
