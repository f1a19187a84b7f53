---------------------------- MODULE Orchestrator ----------------------------
(***************************************************************************)
(* One call of Orchestrator.prove (agent/orchestrator.py): the premise     *)
(* gate, the invariant attempts with their feedback, the spec lint, the    *)
(* generated theorem on disk, the gold script or the proof search, the     *)
(* FPGA oracle and the corpus write-back.                                  *)
(*                                                                         *)
(* The search itself is one step here, with the outcomes ProofSearch shows *)
(* it to have: a proof only of a theorem that has one (Sound), at most     *)
(* MaxIterations model calls (TypeOK), escalation after EscalateAfter of   *)
(* them.  What the model writes and Rocq decides is external: which        *)
(* invariants mention the cycle count (Timed) and the secret               *)
(* (MentionSecret), which type-check (Elaborates), which theorems are true *)
(* (Provable).                                                             *)
(***************************************************************************)
EXTENDS Integers, FiniteSets

CONSTANTS
  Invariants, None,
  Timed, MentionSecret,
  Elaborates, Provable,
  HasSecret,      \* a secret_param is given: a constant-time target
  AttemptLimits,  \* the values of agent.invariant_attempts
  RunLimits,      \* the values of agent.search_max_runs
  MaxIterations,  \* agent.max_iterations
  EscalateAfter,  \* agent.escalate_after
  CanEscalate     \* llm.can_escalate

ASSUME OrchestratorConstants ==
  /\ None \notin Invariants
  /\ Timed \subseteq Invariants /\ MentionSecret \subseteq Invariants
  /\ Elaborates \subseteq Invariants /\ Provable \subseteq Invariants
  /\ HasSecret \in BOOLEAN
  /\ AttemptLimits \subseteq Nat \ {0} /\ RunLimits \subseteq Nat
  /\ MaxIterations \in Nat /\ EscalateAfter \in Nat
  /\ CanEscalate \in BOOLEAN

\* The arguments of prove(): a gold invariant and its script, an FPGA oracle, the
\* attempts and the engine calls of a search configured (which ProofSearch spends),
\* and what the input premises are in truth.
Call == [gold : Invariants \cup {None}, script : BOOLEAN, oracle : BOOLEAN,
         attempts : AttemptLimits, runs : RunLimits,
         premises : {"none", "satisfiable", "unsatisfiable"}]

\* spec_lint: substring tests on the source of the invariant.
LintOk == IF HasSecret THEN Timed \cap MentionSecret ELSE Timed

VARIABLES
  call,        \* the arguments, fixed
  pc,
  attempt,     \* the loop variable
  inv,         \* invariant_src
  gen,         \* what <Name>_gen.v holds
  opened,      \* the theorem the driver's session is positioned at
  lastError,   \* last_error: the attempt whose failure it describes, 0 for None
  llmCalls, escalated,
  result,      \* ProofResult
  corpus       \* the solved records of the target in the corpus

VARIABLES
  synths, repairs   \* history: model calls issued for synthesis and repair

ledger == <<synths, repairs>>
vars == <<call, pc, attempt, inv, gen, opened, lastError, llmCalls, escalated,
          result, corpus, synths, repairs>>

Pcs == {"premises", "candidate", "lint", "open", "prove", "oracle", "store", "done", "raised"}
Pending == [status |-> "pending", inv |-> None, residual |-> FALSE, stored |-> FALSE]
Results == [status : {"pending", "proved", "failed", "rejected", "vetoed"},
            inv : Invariants \cup {None}, residual : BOOLEAN, stored : BOOLEAN]

Init ==
  /\ call \in {c \in Call : c.script => c.gold # None}
  /\ pc = "premises" /\ attempt = 0
  /\ inv = None /\ gen = None /\ opened = None
  /\ lastError = 0 /\ llmCalls = 0 /\ escalated = FALSE
  /\ result = Pending /\ corpus = {}
  /\ synths = 0 /\ repairs = 0

-----------------------------------------------------------------------------
Return(status, i, res) ==
  /\ pc' = "done"
  /\ result' = [status |-> status, inv |-> i, residual |-> res, stored |-> FALSE]

\* `continue`: the next attempt, or the end of the loop, whose ProofResult
\* names no residual goal.
NextAttemptOneMore ==                \* slip: an attempt too many
  IF attempt <= call.attempts
    THEN pc' = "candidate" /\ attempt' = attempt + 1 /\ UNCHANGED result
    ELSE Return("failed", None, FALSE) /\ UNCHANGED attempt
NextAttempt ==
  IF attempt < call.attempts
    THEN pc' = "candidate" /\ attempt' = attempt + 1 /\ UNCHANGED result
    ELSE Return("failed", None, FALSE) /\ UNCHANGED attempt

\* check_premises_satisfiable accepts a target without input premises unasked,
\* never accepts unsatisfiable ones and may refuse satisfiable ones (it only
\* tries the witness 0).
CheckPremises ==
  /\ pc = "premises"
  /\ \/ /\ call.premises # "unsatisfiable"
        /\ pc' = "candidate" /\ attempt' = 1
        /\ UNCHANGED result
     \/ /\ call.premises # "none"
        /\ Return("rejected", None, FALSE) /\ UNCHANGED attempt
     \/ /\ call.premises # "none"
        /\ pc' = "raised" /\ UNCHANGED <<attempt, result>>
  /\ UNCHANGED <<call, inv, gen, opened, lastError, llmCalls, escalated, corpus, ledger>>

UseGold ==
  /\ pc = "candidate" /\ attempt = 1 /\ call.gold # None
  /\ inv' = call.gold
  /\ pc' = "lint"
  /\ UNCHANGED <<call, attempt, gen, opened, lastError, llmCalls, escalated, result, corpus, ledger>>

\* Retrieve, synthesize; every attempt after the first escalates.
Synthesize ==
  /\ pc = "candidate" /\ ~(attempt = 1 /\ call.gold # None)
  /\ \/ /\ inv' \in Invariants
        /\ llmCalls' = llmCalls + 1 /\ synths' = synths + 1
        /\ escalated' = (escalated \/ (attempt > 1 /\ CanEscalate))
        /\ pc' = "lint"
     \/ /\ pc' = "raised"
        /\ UNCHANGED <<inv, llmCalls, synths, escalated>>
  /\ UNCHANGED <<call, attempt, gen, opened, lastError, result, corpus, repairs>>

PassesAlways(i) == TRUE              \* slip: the lint's verdict is ignored
Passes(i) == i \in LintOk

SpecLint ==
  /\ pc = "lint"
  /\ \/ /\ Passes(inv)
        /\ pc' = "open"
        /\ UNCHANGED <<attempt, lastError, result>>
     \/ /\ ~Passes(inv) /\ call.gold # None
        /\ Return("rejected", inv, FALSE)
        /\ UNCHANGED <<attempt, lastError>>
     \/ /\ ~Passes(inv) /\ call.gold = None
        /\ lastError' = attempt
        /\ NextAttempt
  /\ UNCHANGED <<call, inv, gen, opened, llmCalls, escalated, corpus, ledger>>

KeepError(n) == UNCHANGED lastError  \* slip: `continue` without last_error
SetError(n) == lastError' = n

\* What the session is positioned at once `start` succeeded on the file.
PositionedBefore(i) == opened' = gen \* slip: start before the write
Positioned(i) == opened' = i

\* render + write the theorem, then driver.start on the file.  Each may raise:
\* before the file is written, half-way or after.
OpenTheorem ==
  /\ pc = "open"
  /\ \/ /\ inv \in Elaborates
        /\ gen' = inv /\ Positioned(inv)
        /\ pc' = "prove"
        /\ UNCHANGED <<attempt, lastError, result>>
     \/ /\ gen' = inv /\ opened' = None   \* it does not type-check, or start failed
        /\ SetError(attempt)
        /\ NextAttempt
     \/ /\ pc' = "raised" /\ gen' \in {gen, None, inv}
        /\ UNCHANGED <<attempt, opened, lastError, result>>
  /\ UNCHANGED <<call, inv, llmCalls, escalated, corpus, ledger>>

\* gold_proof on the first attempt: run_script decides, either way.
GoldScript ==
  /\ pc = "prove" /\ call.script /\ attempt = 1
  /\ \/ /\ opened \in Provable
        /\ pc' = "store"
        /\ UNCHANGED result
     \/ Return("failed", inv, FALSE)
     \/ pc' = "raised" /\ UNCHANGED result
  /\ UNCHANGED <<call, attempt, inv, gen, opened, lastError, llmCalls, escalated, corpus, ledger>>

\* llm_calls = res.llm_calls, where the search started from llm_calls.
CarriedTwice(calls) == llmCalls' = llmCalls + llmCalls + calls  \* slip: +=
Carried(calls) == llmCalls' = llmCalls + calls

\* escalated = res.escalated
Escalated(calls) == escalated' = (escalated \/ (CanEscalate /\ calls > EscalateAfter))

\* _discharge, by its contract; when it raises, its ProofResult is lost.
Discharge ==
  /\ pc = "prove" /\ ~(call.script /\ attempt = 1)
  /\ \E calls \in 0..MaxIterations :
       /\ repairs' = repairs + calls
       /\ \/ /\ opened \in Provable
             /\ pc' = IF call.oracle THEN "oracle" ELSE "store"
             /\ Carried(calls) /\ Escalated(calls)
             /\ UNCHANGED <<attempt, lastError, result>>
          \/ /\ SetError(attempt)
             /\ Carried(calls) /\ Escalated(calls)
             /\ NextAttempt
          \/ /\ pc' = "raised"
             /\ UNCHANGED <<attempt, lastError, llmCalls, escalated, result>>
  /\ UNCHANGED <<call, inv, gen, opened, corpus, synths>>

\* A disagreement takes the proof back; no report counts as agreement.
AskOracle ==
  /\ pc = "oracle"
  /\ \/ pc' = "store" /\ UNCHANGED result
     \/ Return("vetoed", inv, FALSE)
     \/ pc' = "raised" /\ UNCHANGED result
  /\ UNCHANGED <<call, attempt, inv, gen, opened, lastError, llmCalls, escalated, corpus, ledger>>

\* A save that fails may have written the record before: records.jsonl comes first.
KeptUnsure(stored) == {corpus, corpus \cup {inv}}   \* slip: True whatever the save did
Kept(stored) == IF stored THEN {corpus \cup {inv}} ELSE {corpus, corpus \cup {inv}}

\* _store_solved is best effort: a failed write does not fail the proof.
StoreSolved ==
  /\ pc = "store"
  /\ \E stored \in BOOLEAN :
       /\ result' = [status |-> "proved", inv |-> inv, residual |-> FALSE, stored |-> stored]
       /\ corpus' \in Kept(stored)
  /\ pc' = "done"
  /\ UNCHANGED <<call, attempt, inv, gen, opened, lastError, llmCalls, escalated, ledger>>

Next ==
  \/ CheckPremises \/ UseGold \/ Synthesize \/ SpecLint \/ OpenTheorem
  \/ GoldScript \/ Discharge \/ AskOracle \/ StoreSolved

Spec == Init /\ [][Next]_vars

\* One sequential call whose engine and model requests all return or raise.
FairSpec == Spec /\ WF_vars(Next)

-----------------------------------------------------------------------------
(* Properties.                                                             *)

\* Every variable stays within its range.
TypeOK ==
  /\ call \in Call /\ pc \in Pcs
  /\ attempt \in 0..call.attempts
  /\ inv \in Invariants \cup {None} /\ gen \in Invariants \cup {None}
  /\ opened \in Invariants \cup {None}
  /\ lastError \in 0..call.attempts
  /\ llmCalls \in Nat /\ escalated \in BOOLEAN
  /\ result \in Results
  /\ corpus \subseteq Invariants
  /\ synths \in Nat /\ repairs \in Nat

\* A reported proof is one of the theorem generated from the invariant it
\* names, which passed both anti-vacuity gates: whatever attempts failed before,
\* a proof is never credited to another attempt's file or to vacuous premises.
Verified ==
  result.status = "proved" =>
    /\ call.premises # "unsatisfiable"
    /\ result.inv = gen /\ result.inv = opened
    /\ result.inv \in LintOk \cap Elaborates \cap Provable

\* Every failed attempt hands its total of model calls on.  The spend of a call is
\* bounded all the same, each attempt costing at most one synthesis and
\* MaxIterations repairs; and the count in the ProofResult is exactly the model
\* calls that answered: none is lost, and none is counted twice.
LlmBudget == llmCalls <= attempt * (1 + MaxIterations)
LedgerBalances == pc = "done" => llmCalls = synths + repairs
CallsAccounted == LlmBudget /\ LedgerBalances

\* The feedback put in a retry's prompt is the failure of the attempt just
\* before it, on every path that comes back to the top of the loop.
FeedbackFresh == pc = "candidate" => lastError = attempt - 1

\* prove() implements the generate-and-check promise, and returns: a lint
\* rejection, a veto and an exception are refusals, a retry reopens.
Abstract == INSTANCE GenerateAndCheck WITH
  Candidate <- Invariants, NoCandidate <- None,
  Admissible <- LintOk \cap Elaborates,
  verdict <- IF pc \notin {"done", "raised"} THEN "pending"
             ELSE IF result.status = "proved" THEN "proved" ELSE "failed",
  kept <- corpus

Implements == Abstract!Spec
=============================================================================
