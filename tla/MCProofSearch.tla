--------------------------- MODULE MCProofSearch ---------------------------
(***************************************************************************)
(* Small petanque behaviours for ProofSearch.  The goal is a fan-out `fan` *)
(* behind a two-tactic prelude; `twin` shows the same goals as `fan`,      *)
(* `shelved` has no open goal without being finished, `spare` is a dead    *)
(* end, and an engine of MCEngines chooses for each edge where it leads or *)
(* that it fails.                                                          *)
(***************************************************************************)
EXTENDS ProofSearch

MCState == {"start", "fan", "twin", "leaf", "spare", "shelved", "qed"}
MCGoals == [s \in MCState |->
  CASE s = "start" -> "g0"
    [] s \in {"fan", "twin"} -> "g1"
    [] s = "leaf" -> "g2"
    [] s = "spare" -> "g3"
    [] OTHER -> ""]
MCTactic == {"hammer", "auto", "prove_invs", "destruct_inv", "split", "lia"}
MCLadder == <<"hammer", "auto">>
MCScripts == <<<<"prove_invs", "destruct_inv">>, <<"prove_invs", "split">>>>
MCRepair == {"split", "lia"}

Edges(e) == [st \in MCState \X MCTactic |-> IF st \in DOMAIN e THEN e[st] ELSE "failed"]

\* The engines: one per choice of the edges that decide the search's course.
MCEngines ==
  { Edges(
      <<"start", "prove_invs">> :> prelude
      @@ <<"fan", "destruct_inv">> :> destruct
      @@ <<"start", "split">> :> "twin"
      @@ <<"start", "lia">> :> "shelved"
      @@ <<"fan", "split">> :> "leaf"
      @@ <<"twin", "split">> :> "leaf"
      @@ <<"twin", "lia">> :> "fan"
      @@ <<"twin", "hammer">> :> "spare"
      @@ <<"fan", "lia">> :> "spare"
      @@ <<"leaf", "split">> :> "start"
      @@ <<"leaf", "lia">> :> close
      @@ <<"leaf", "hammer">> :> hammer) :
    prelude \in {"fan", "failed"}, destruct \in {"leaf", "qed", "failed"},
    close \in {"qed", "twin", "failed"}, hammer \in {"qed", "failed"} }
=============================================================================
