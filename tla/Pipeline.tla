------------------------------ MODULE Pipeline ------------------------------
(***************************************************************************)
(* One run of the prove-c pipeline (pipeline.py): intake, lift, classify   *)
(* and its gate, scaffolding, the model preflight, the prove() call of     *)
(* Orchestrator, and the mapping of its outcome onto the stages of the     *)
(* report (report.py).                                                     *)
(*                                                                         *)
(* The variables of Orchestrator are those of the one call the pipeline    *)
(* may make; `call` is fixed when the run is let through.  A target is     *)
(* known by the invariant the lifter derives for it: none for a ceiling    *)
(* class.  A subprocess that times out raises out of the pipeline.         *)
(***************************************************************************)
EXTENDS Integers, FiniteSets, Sequences, SequencesExt

CONSTANTS
  Invariants, None, Timed, MentionSecret, Elaborates, Provable,
  HasSecret, MaxIterations, EscalateAfter, CanEscalate,
  FullAttempts, FullRuns,        \* agent.invariant_attempts, search_max_runs
  CeilingAttempts, CeilingRuns   \* agent.ceiling_invariant_attempts, ceiling_search_max_runs

ASSUME PipelineConstants ==
  /\ None \notin Invariants
  /\ Timed \subseteq Invariants /\ MentionSecret \subseteq Invariants
  /\ Elaborates \subseteq Invariants /\ Provable \subseteq Invariants
  /\ HasSecret \in BOOLEAN /\ CanEscalate \in BOOLEAN
  /\ MaxIterations \in Nat /\ EscalateAfter \in Nat
  /\ FullAttempts \in Nat \ {0} /\ CeilingAttempts \in Nat \ {0}
  /\ FullRuns \in Nat /\ CeilingRuns \in Nat

AttemptLimits == {FullAttempts, CeilingAttempts}
RunLimits == {FullRuns, CeilingRuns}

VARIABLES call, pc, attempt, inv, gen, opened, lastError, llmCalls, escalated,
          result, corpus, synths, repairs   \* of Orchestrator
VARIABLES
  at,         \* where the pipeline stands
  force,      \* force_synthesis
  host,       \* what is uploaded, whether it is there, and the tools installed
  stages,     \* rep.stages
  report      \* the fields of rep set from the outcome

VARIABLE checked   \* history: the preflight found the model reachable

proving == <<call, pc, attempt, inv, gen, opened, lastError, llmCalls, escalated,
             result, corpus, synths, repairs>>
vars == <<proving, at, force, host, stages, report, checked>>

\* The call of prove(): with an in-memory ledger of its own and no FPGA oracle.
O == INSTANCE Orchestrator

\* StageRecord, by name and status.
Stage(name, status) == [name |-> name, status |-> status]
Stages == [name : {"intake", "lift", "classify", "spec-lint", "invariant", "repair", "stored"},
           status : {"ok", "failed", "skipped", "limitation"}]

Tools == {"gcc", "objdump", "lifter", "coqc"}
Hosts == [kind : {"c", "binary"}, file : BOOLEAN, tools : SUBSET Tools]
Has(tool) == tool \in host.tools

\* A ceiling class: no invariant can be derived.
ExpectedFail == call.gold = None

\* Straight-line and counter-loop targets come with invariant and script.
Init ==
  /\ at = "intake" /\ force \in BOOLEAN /\ host \in Hosts
  /\ stages = <<>> /\ checked = FALSE
  /\ report = [proved |-> FALSE, error |-> FALSE, stored |-> FALSE]
  /\ O!Init
  /\ call.script = (call.gold # None) /\ ~call.oracle
  /\ call.attempts = FullAttempts /\ call.runs = FullRuns /\ call.premises = "none"

-----------------------------------------------------------------------------
Record(recs) == stages' = stages \o recs

\* rep.stage(name, FAILED); rep.error = ...; return rep
Fail(name) ==
  /\ at' = "ended"
  /\ Record(<<Stage(name, "failed")>>)
  /\ report' = [report EXCEPT !.error = TRUE]

Raise == at' = "raised" /\ UNCHANGED <<stages, report>>

Go(next, recs) == at' = next /\ Record(recs) /\ UNCHANGED report

\* What becomes of a subprocess: a result, a diagnostic, or a timeout that no
\* caller catches.
Subprocess(name, next, recs) == Go(next, recs) \/ Fail(name) \/ Raise

\* compile_c, up to the object file: what is not there is told.
CompileC ==
  /\ at = "intake" /\ host.kind = "c"
  /\ IF host.file /\ Has("gcc") THEN Subprocess("intake", "disassemble", <<>>) ELSE Fail("intake")
  /\ UNCHANGED <<proving, force, host, checked>>

\* load_machine_code, up to the disassembly.
LoadMachineCode ==
  /\ at = "intake" /\ host.kind = "binary"
  /\ IF host.file /\ Has("objdump") THEN Go("disassemble", <<>>) ELSE Fail("intake")
  /\ UNCHANGED <<proving, force, host, checked>>

\* disassemble and the look at its listing.  compile_c has not asked for objdump
\* and does not catch its absence.
Disassemble ==
  /\ at = "disassemble"
  /\ IF Has("objdump") THEN Subprocess("intake", "lift", <<Stage("intake", "ok")>>) ELSE Raise
  /\ UNCHANGED <<proving, force, host, checked>>

Intake == CompileC \/ LoadMachineCode \/ Disassemble

\* lift(), which catches a missing lifter and its failure.
Lift ==
  /\ at = "lift"
  /\ IF Has("lifter") THEN Subprocess("lift", "classify", <<Stage("lift", "ok")>>) ELSE Fail("lift")
  /\ UNCHANGED <<proving, force, host, checked>>

Gated == ExpectedFail /\ ~force

ClampedHalf == [call EXCEPT !.attempts = CeilingAttempts]   \* slip: search_max_runs is left
Clamped == [call EXCEPT !.attempts = CeilingAttempts, !.runs = CeilingRuns]

\* The classify record, the ceiling gate and the clamp.
ClassifyInScope ==
  /\ at = "classify" /\ ~ExpectedFail
  /\ Go("scaffold", <<Stage("classify", "ok")>>)
  /\ UNCHANGED <<proving, force, host, checked>>

GateCeiling ==
  /\ at = "classify" /\ ExpectedFail /\ Gated
  /\ at' = "ended"
  /\ Record(<<Stage("classify", "limitation"), Stage("invariant", "limitation"),
              Stage("repair", "skipped"), Stage("stored", "skipped")>>)
  /\ report' = [report EXCEPT !.error = TRUE]
  /\ UNCHANGED <<proving, force, host, checked>>

ForceCeiling ==
  /\ at = "classify" /\ ExpectedFail /\ ~Gated
  /\ Go("scaffold", <<Stage("classify", "limitation")>>)
  /\ call' = Clamped
  /\ UNCHANGED <<pc, attempt, inv, gen, opened, lastError, llmCalls, escalated,
                 result, corpus, synths, repairs, force, host, checked>>

\* compile_scaffold; a failure is recorded as a second lift stage.
Scaffold ==
  /\ at = "scaffold"
  /\ IF Has("coqc") THEN Subprocess("lift", "preflight", <<>>) ELSE Fail("lift")
  /\ UNCHANGED <<proving, force, host, checked>>

Unreachable == Fail("invariant")

\* needs_model: the health check, skipped for a derived invariant; then the proof
\* library is read, which raises when its file is missing.
Preflight ==
  /\ at = "preflight"
  /\ \/ ~ExpectedFail /\ Go("prove", <<>>) /\ UNCHANGED checked
     \/ ExpectedFail /\ Go("prove", <<>>) /\ checked' = TRUE
     \/ ExpectedFail /\ Unreachable /\ UNCHANGED checked
     \/ Raise /\ checked' = ExpectedFail
  /\ UNCHANGED <<proving, force, host>>

Prove ==
  /\ at = "prove"
  /\ O!Next
  /\ UNCHANGED <<at, force, host, stages, report, checked>>

\* The corpus cannot be loaded, the proof server is not there, prove() raised, or it
\* returned and closing the connection raised: the ProofResult is lost then.
ProverUnreachable ==
  /\ at = "prove" /\ pc \in {"premises", "raised", "done"}
  /\ Fail("invariant")
  /\ UNCHANGED <<proving, force, host, checked>>

-----------------------------------------------------------------------------
(* The mapping of the ProofResult.                                         *)

FailStatusTag == IF ExpectedFail THEN "xfail" ELSE "failed"   \* slip: the printed tag
FailStatus == IF ExpectedFail THEN "limitation" ELSE "failed"

\* closed via repair, or by the deterministic layer.
RepairStatus == IF llmCalls > 0 THEN "ok" ELSE "skipped"

StoredStatus == IF result.stored THEN "ok" ELSE "failed"

MapRejected ==
  /\ at = "prove" /\ pc = "done" /\ result.status = "rejected"
  /\ Fail("spec-lint")
  /\ UNCHANGED <<proving, force, host, checked>>

MapProved ==
  /\ at = "prove" /\ pc = "done" /\ result.status = "proved"
  /\ at' = "ended"
  /\ Record(<<Stage("spec-lint", "ok"), Stage("invariant", "ok"),
              Stage("repair", RepairStatus), Stage("stored", StoredStatus)>>)
  /\ report' = [proved |-> TRUE, error |-> FALSE, stored |-> result.stored]
  /\ UNCHANGED <<proving, force, host, checked>>

StalledUnnoted == <<Stage("repair", "skipped"), Stage("stored", "skipped")>>  \* slip: no verdict
\* Where the search stalled: `residual_goal is not None`, or within the budget.
Stalled ==
  IF result.residual
    THEN <<Stage("invariant", "ok"), Stage("repair", FailStatus), Stage("stored", "skipped")>>
    ELSE <<Stage("invariant", FailStatus), Stage("repair", "skipped"), Stage("stored", "skipped")>>

MapFailed ==
  /\ at = "prove" /\ pc = "done" /\ result.status \in {"failed", "vetoed"}
  /\ at' = "ended"
  /\ Record(<<Stage("spec-lint", "ok")>> \o Stalled)
  /\ report' = [report EXCEPT !.error = TRUE]
  /\ UNCHANGED <<proving, force, host, checked>>

Next ==
  \/ Intake \/ Lift \/ ClassifyInScope \/ GateCeiling \/ ForceCeiling \/ Scaffold
  \/ Preflight \/ Prove \/ ProverUnreachable \/ MapRejected \/ MapProved \/ MapFailed

Spec == Init /\ [][Next]_vars

-----------------------------------------------------------------------------
(* Properties.                                                             *)

\* Every variable stays within its range; the call's are those of Orchestrator.
TypeOK ==
  /\ at \in {"intake", "disassemble", "lift", "classify", "scaffold", "preflight", "prove", "ended", "raised"}
  /\ force \in BOOLEAN /\ host \in Hosts /\ checked \in BOOLEAN
  /\ stages \in Seq(Stages)
  /\ report \in [proved : BOOLEAN, error : BOOLEAN, stored : BOOLEAN]
  /\ O!TypeOK

\* The stages that stopped, by their place in the report; the first of them is
\* failed_stage.
Stopping == {n \in DOMAIN stages : stages[n].status \in {"failed", "limitation"}}
FailedStage(n) == n \in Stopping /\ \A m \in Stopping : n <= m

\* The headline calls a failure expected when the first stage that stopped did so
\* at a known limitation.
ExpectedFailure ==
  ~report.proved /\ \E n \in Stopping : FailedStage(n) /\ stages[n].status = "limitation"

\* The stage records tell the outcome: a report that ended unproved has an error
\* and names a stage that stopped it, and unless it was forced is headlined as
\* expected only for a ceiling class, where nothing later failed; one that is
\* proved has none, its only blemishes being the ceiling it was forced through and
\* a lost write-back, and comes from a host that has all the tools.
ReportTellsOutcome ==
  at = "ended" =>
    /\ report.error = ~report.proved
    /\ IF report.proved
         THEN /\ \A n \in Stopping :
                   stages[n] \in {Stage("classify", "limitation"), Stage("stored", "failed")}
              /\ Tools \ (IF host.kind = "binary" THEN {"gcc"} ELSE {}) \subseteq host.tools
         ELSE \E n \in Stopping : stages[n].name # "classify"
    /\ ExpectedFailure /\ ~force =>
         ExpectedFail /\ \A n \in Stopping : stages[n].status = "limitation"

\* "No proof enters the corpus without passing the prover": what a finished run leaves
\* in the corpus is a proof of the theorem it generated; a proof reported as added is
\* there, and the last stage says whether it was; and a run that left one says proved,
\* unless what failed in the end was the connection to the prover.
CorpusMatchesReport ==
  at = "ended" =>
    /\ corpus # {} => corpus = {gen} /\ gen \in Provable
    /\ report.stored => report.proved /\ corpus = {gen}
    /\ report.proved => Last(stages) = Stage("stored", IF report.stored THEN "ok" ELSE "failed")
    /\ corpus # {} => report.proved \/ Last(stages) = Stage("invariant", "failed")

\* The policy for a ceiling class: it is not attempted unless forced, neither the
\* prover nor the model being started; and a forced attempt is clamped: it spends no
\* more than the ceiling's attempts, each of them with the ceiling's engine calls.
NotAttempted == ~force => pc = "premises" /\ ~checked /\ llmCalls = 0
Clamp ==
  /\ llmCalls <= CeilingAttempts * (1 + MaxIterations)
  /\ pc # "premises" => call.runs = CeilingRuns
CeilingPolicy == ExpectedFail => NotAttempted /\ Clamp
=============================================================================
