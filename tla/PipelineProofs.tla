--------------------------- MODULE PipelineProofs ---------------------------
(***************************************************************************)
(* Proofs about Pipeline, for every target, gate and budget.               *)
(***************************************************************************)
EXTENDS Pipeline, TLAPS

\* What is proved of one call of prove(), about the call the pipeline makes.
P == INSTANCE OrchestratorProofs

\* A gated target has not been let through, and nothing was started for it.
Held ==
  ExpectedFail /\ ~force =>
    /\ at \in {"intake", "disassemble", "lift", "classify", "ended", "raised"}
    /\ pc = "premises" /\ ~checked /\ llmCalls = 0

\* prove() never changes its own arguments.
LEMMA CallFixed ==
  ASSUME O!Next
  PROVE  call' = call
  BY DEF O!Next, O!CheckPremises, O!UseGold, O!Synthesize, O!SpecLint, O!OpenTheorem,
         O!GoldScript, O!Discharge, O!AskOracle, O!StoreSolved

\* No step starts anything for a gated target.
LEMMA HeldStep ==
  ASSUME Held, [Next]_vars
  PROVE  Held'
  <1>1. CASE Intake
    BY <1>1 DEF Intake, CompileC, LoadMachineCode, Disassemble, Subprocess,
             Go, Fail, Raise, Held, ExpectedFail, proving
  <1>2. CASE Lift
    BY <1>2 DEF Lift, Subprocess, Go, Fail, Raise, Held, ExpectedFail, proving
  <1>3. CASE ClassifyInScope
    BY <1>3 DEF ClassifyInScope, Held, ExpectedFail, proving
  <1>4. CASE GateCeiling
    BY <1>4 DEF GateCeiling, Held, ExpectedFail, proving
  <1>5. CASE ForceCeiling
    <2>1. force' = force /\ force
      BY <1>5 DEF ForceCeiling, Gated
    <2>2. QED
      BY <2>1 DEF Held
  <1>6. CASE Scaffold
    BY <1>6 DEF Scaffold, Held, ExpectedFail, proving
  <1>7. CASE Preflight
    BY <1>7 DEF Preflight, Held, ExpectedFail, proving
  <1>8. CASE Prove
    BY <1>8, CallFixed DEF Prove, Held, ExpectedFail
  <1>9. CASE ProverUnreachable
    BY <1>9 DEF ProverUnreachable, Held, ExpectedFail, proving
  <1>10. CASE MapRejected \/ MapProved \/ MapFailed
    BY <1>10 DEF MapRejected, MapProved, MapFailed, Held, ExpectedFail, proving
  <1>11. CASE UNCHANGED vars
    BY <1>11 DEF vars, proving, Held, ExpectedFail
  <1>12. QED
    BY <1>1, <1>2, <1>3, <1>4, <1>5, <1>6, <1>7, <1>8, <1>9, <1>10, <1>11 DEF Next

\* The gate holds: for a ceiling class that is not forced neither the prover nor
\* the model is started, whatever the stages before it do.
LEMMA NotAttemptedCorrect == Spec => [](ExpectedFail => NotAttempted)
  <1>1. Init => Held
    BY DEF Init, O!Init, Held
  <1>2. Held => (ExpectedFail => NotAttempted)
    BY DEF Held, NotAttempted
  <1>3. QED
    BY <1>1, <1>2, HeldStep, PTL DEF Spec

-----------------------------------------------------------------------------
(* The invariant of Orchestrator carries over to the pipeline's call.      *)

\* What is assumed of the pipeline's constants is what Orchestrator assumes.
LEMMA Constants == P!OrchestratorConstants
  BY PipelineConstants DEF P!OrchestratorConstants, AttemptLimits, RunLimits

\* The two instances of Orchestrator are one.
LEMMA SameInit == O!Init => P!Init
  BY DEF O!Init, P!Init, O!Call, P!Call, O!Pending, P!Pending

LEMMA SameNext == O!Next => P!Next
  BY DEF P!Next, P!CheckPremises, P!UseGold, P!Synthesize, P!SpecLint, P!OpenTheorem,
         P!GoldScript, P!Discharge, P!AskOracle, P!StoreSolved, P!Return, P!NextAttempt,
         P!ledger, P!Passes, P!LintOk, P!SetError, P!Positioned, P!Carried, P!Escalated, P!Kept,
         O!Next, O!CheckPremises, O!UseGold, O!Synthesize, O!SpecLint, O!OpenTheorem,
         O!GoldScript, O!Discharge, O!AskOracle, O!StoreSolved, O!Return, O!NextAttempt,
         O!ledger, O!Passes, O!LintOk, O!SetError, O!Positioned, O!Carried, O!Escalated, O!Kept

LEMMA SameTypeOK == P!TypeOK => O!TypeOK
  BY DEF P!TypeOK, O!TypeOK, P!Call, O!Call, P!Pcs, O!Pcs, P!Results, O!Results

\* Before the prove stage the call has not begun.
Untouched ==
  at \in {"intake", "disassemble", "lift", "classify", "scaffold", "preflight"} =>
    pc = "premises" /\ attempt = 0 /\ lastError = 0 /\ llmCalls = 0

\* A ceiling class gets to the prove stage only with the clamped budget.
Clamping ==
  ExpectedFail =>
    \/ call.attempts = CeilingAttempts /\ call.runs = CeilingRuns
    \/ pc = "premises" /\ llmCalls = 0 /\ at \notin {"scaffold", "preflight", "prove"}

\* The write to the corpus is the last step of a proof, and the flag it sets is right
\* when it says that the record is there.
Kept ==
  /\ corpus # {} => pc = "done" /\ result.status = "proved" /\ corpus = {result.inv}
  /\ result.stored => result.status = "proved" /\ corpus = {result.inv}

Call == P!IInv /\ P!Quota
PInv == Call /\ Untouched /\ Clamping /\ Kept

\* The clamped arguments are arguments.
LEMMA ClampedCall ==
  ASSUME call \in P!Call
  PROVE  /\ Clamped \in P!Call
         /\ Clamped.attempts = CeilingAttempts /\ Clamped.runs = CeilingRuns
         /\ Clamped.gold = call.gold /\ Clamped.premises = call.premises
  BY DEF P!Call, Clamped, AttemptLimits, RunLimits

\* Clamping a call that has not begun keeps what is known of it.
LEMMA ClampStep ==
  ASSUME PInv, ForceCeiling
  PROVE  Call'
  <1>1. pc = "premises" /\ attempt = 0 /\ lastError = 0 /\ call' = Clamped
    BY DEF PInv, Untouched, ForceCeiling
  <1>2. UNCHANGED <<pc, attempt, inv, gen, opened, lastError, llmCalls, escalated,
                    result, corpus, synths, repairs>>
    BY DEF ForceCeiling
  <1>3. call' \in P!Call /\ call'.premises = call.premises /\ call'.attempts = CeilingAttempts
    BY <1>1, ClampedCall DEF PInv, Call, P!IInv, P!TypeOK
  <1>4. P!TypeOK'
    <2>1. 0 \in 0..call'.attempts
      BY <1>3, PipelineConstants
    <2>2. QED
      BY <1>1, <1>2, <1>3, <2>1 DEF PInv, Call, P!IInv, P!TypeOK
  <1>5. P!Established' /\ P!Verified'
    BY <1>1, <1>2, <1>3 DEF PInv, Call, P!IInv, P!Established, P!Verified, P!LintOk
  <1>6. P!Quota'
    BY <1>1, <1>2 DEF PInv, Call, P!Quota, P!Spent
  <1>7. QED
    BY <1>4, <1>5, <1>6 DEF Call, P!IInv

\* A step of prove() is one of Orchestrator.
LEMMA CallStep ==
  ASSUME Call, O!Next
  PROVE  Call'
  <1>1. [P!Next]_P!vars
    BY SameNext
  <1>2. QED
    BY <1>1, Constants, P!Inductive, P!QuotaInductive DEF Call

\* A step of the pipeline itself leaves the call alone.
LEMMA CallKept ==
  ASSUME Call, UNCHANGED proving
  PROVE  Call'
  <1>1. [P!Next]_P!vars
    BY DEF proving, P!vars
  <1>2. QED
    BY <1>1, Constants, P!Inductive, P!QuotaInductive DEF Call

\* The write itself, to a corpus that holds nothing yet.
LEMMA StoredOnce ==
  ASSUME Kept, O!StoreSolved
  PROVE  Kept'
  <1>1. corpus = {}
    BY DEF Kept, O!StoreSolved
  <1>2. PICK stored \in BOOLEAN :
          /\ result' = [status |-> "proved", inv |-> inv, residual |-> FALSE, stored |-> stored]
          /\ corpus' \in O!Kept(stored)
    BY DEF O!StoreSolved
  <1>3. corpus' \in {{}, {inv}} /\ (stored => corpus' = {inv})
    BY <1>1, <1>2 DEF O!Kept
  <1>4. result'.status = "proved" /\ result'.inv = inv /\ result'.stored = stored /\ pc' = "done"
    BY <1>2 DEF O!StoreSolved
  <1>5. QED
    BY <1>3, <1>4 DEF Kept

\* A call that has not returned has stored nothing, and what it returns otherwise
\* says so.
LEMMA NothingStored ==
  ASSUME P!Established, pc # "done", O!Next, ~O!StoreSolved
  PROVE  ~result'.stored
  <1>1. ~result.stored
    BY DEF P!Established, P!Pending
  <1>2. ASSUME NEW st, NEW i, NEW re, O!Return(st, i, re)
        PROVE  ~result'.stored
    BY <1>2 DEF O!Return
  <1>3. ASSUME O!NextAttempt PROVE ~result'.stored
    BY <1>1, <1>2, <1>3 DEF O!NextAttempt
  <1>4. QED
    BY <1>1, <1>2, <1>3 DEF O!Next, O!CheckPremises, O!UseGold, O!Synthesize, O!SpecLint,
                  O!OpenTheorem, O!GoldScript, O!Discharge, O!AskOracle

\* Only StoreSolved writes to the corpus.
LEMMA KeptStep ==
  ASSUME Call, Kept, O!Next
  PROVE  Kept'
  <1>1. CASE O!StoreSolved
    BY <1>1, StoredOnce
  <1>2. CASE ~O!StoreSolved
    <2>1. corpus' = corpus
      BY <1>2 DEF O!Next, O!CheckPremises, O!UseGold, O!Synthesize, O!SpecLint,
                  O!OpenTheorem, O!GoldScript, O!Discharge, O!AskOracle
    <2>2. pc \notin {"done", "raised"}
      BY <1>2 DEF O!Next, O!CheckPremises, O!UseGold, O!Synthesize, O!SpecLint,
                  O!OpenTheorem, O!GoldScript, O!Discharge, O!AskOracle
    <2>3. ~result'.stored
      BY <1>2, <2>2, NothingStored DEF Call, P!IInv
    <2>4. QED
      BY <2>1, <2>2, <2>3 DEF Kept
  <1>3. QED
    BY <1>1, <1>2

\* The invariant holds of a run that starts.
LEMMA PInitially == Init => PInv
  <1> SUFFICES ASSUME Init PROVE PInv
    OBVIOUS
  <1>1. P!IInv /\ P!Quota
    BY SameInit, Constants, P!Initially, P!QuotaInitially DEF Init
  <1>2. Untouched /\ Clamping /\ Kept
    BY DEF Init, O!Init, O!Pending, Untouched, Clamping, Kept
  <1>3. QED
    BY <1>1, <1>2 DEF PInv, Call

\* Every step of the pipeline keeps its invariant.
LEMMA PStep ==
  ASSUME PInv, [Next]_vars
  PROVE  PInv'
  <1>1. CASE Prove
    <2>1. call' = call /\ at' = at /\ at = "prove" /\ O!Next
      BY <1>1, CallFixed DEF Prove
    <2>2. Untouched' /\ Clamping'
      BY <2>1 DEF PInv, Untouched, Clamping, ExpectedFail
    <2>3. Call' /\ Kept'
      BY <2>1, CallStep, KeptStep DEF PInv
    <2>4. QED
      BY <2>2, <2>3 DEF PInv
  <1>2. CASE ForceCeiling
    <2>1. Call'
      BY <1>2, ClampStep
    <2>2. call'.attempts = CeilingAttempts /\ call'.runs = CeilingRuns
      BY <1>2, ClampedCall DEF ForceCeiling, PInv, Call, P!IInv, P!TypeOK
    <2>3. Untouched' /\ Clamping' /\ Kept'
      BY <1>2, <2>2 DEF ForceCeiling, PInv, Untouched, Clamping, Kept
    <2>4. QED
      BY <2>1, <2>3 DEF PInv
  <1>3. ASSUME UNCHANGED proving,
               at' \in {"disassemble", "lift", "classify", "preflight"}
                 => at \in {"intake", "disassemble", "lift", "scaffold"},
               at' = "intake" => at = "intake",
               at' = "scaffold" => at = "scaffold" \/ (at = "classify" /\ ~ExpectedFail),
               at' = "preflight" => at \in {"scaffold", "preflight"},
               at' = "prove" => at \in {"preflight", "prove"}
        PROVE  PInv'
    <2>1. Call'
      BY <1>3, CallKept DEF PInv
    <2>2. Untouched'
      BY <1>3 DEF PInv, Untouched, proving
    <2>3. Clamping'
      BY <1>3 DEF PInv, Clamping, ExpectedFail, proving
    <2>4. Kept'
      BY <1>3 DEF PInv, Kept, proving
    <2>5. QED
      BY <2>1, <2>2, <2>3, <2>4 DEF PInv
  <1>4. CASE Intake \/ Lift \/ Scaffold
    BY <1>3, <1>4 DEF Intake, CompileC, LoadMachineCode, Disassemble, Subprocess,
             Lift, Scaffold, Go, Fail, Raise
  <1>5. CASE ClassifyInScope
    BY <1>3, <1>5 DEF ClassifyInScope, Go
  <1>6. CASE Preflight
    BY <1>3, <1>6 DEF Preflight, Go, Fail, Raise, Unreachable
  <1>7. CASE GateCeiling \/ ProverUnreachable \/ MapRejected \/ MapProved \/ MapFailed
    BY <1>3, <1>7 DEF GateCeiling, ProverUnreachable, MapRejected, MapProved, MapFailed, Fail
  <1>8. CASE UNCHANGED vars
    <2>1. UNCHANGED proving /\ at' = at
      BY <1>8 DEF vars
    <2>2. Call'
      BY <2>1, CallKept DEF PInv
    <2>3. Untouched' /\ Clamping' /\ Kept'
      BY <2>1 DEF PInv, Untouched, Clamping, ExpectedFail, Kept, proving
    <2>4. QED
      BY <2>2, <2>3 DEF PInv
  <1>9. QED
    BY <1>1, <1>2, <1>4, <1>5, <1>6, <1>7, <1>8 DEF Next

\* Fewer attempts cost less.
LEMMA Monotone == ASSUME NEW a \in Nat, NEW b \in Nat, NEW k \in Nat, a <= b PROVE a * k <= b * k
  <1>1. PICK d \in Nat : b = a + d
    <2>1. b - a \in Nat /\ b = a + (b - a)
      OBVIOUS
    <2>2. QED
      BY <2>1
  <1>2. b * k = a * k + d * k /\ a * k \in Nat /\ d * k \in Nat
    BY <1>1
  <1>3. QED
    BY <1>2

\* A forced ceiling class spends at most the clamped number of attempts, on engine
\* calls that are clamped.
LEMMA ClampCorrect == Spec => [](ExpectedFail => Clamp)
  <1>1. PInv => (ExpectedFail => Clamp)
    <2> SUFFICES ASSUME PInv, ExpectedFail
                 PROVE  llmCalls <= CeilingAttempts * (1 + MaxIterations)
      BY DEF Clamp, PInv, Clamping
    <2>1. CeilingAttempts \in Nat /\ (1 + MaxIterations) \in Nat /\ llmCalls \in Nat
          /\ attempt \in 0..call.attempts
      BY PipelineConstants DEF PInv, Call, P!IInv, P!TypeOK
    <2>2. CASE llmCalls = 0
      <3>1. 0 * (1 + MaxIterations) <= CeilingAttempts * (1 + MaxIterations)
        BY <2>1, Monotone
      <3>2. QED
        BY <2>1, <2>2, <3>1
    <2>3. CASE call.attempts = CeilingAttempts
      <3>1. llmCalls <= attempt * (1 + MaxIterations)
        BY Constants, P!QuotaMeansBudget DEF PInv, Call, P!LlmBudget
      <3>2. attempt * (1 + MaxIterations) <= CeilingAttempts * (1 + MaxIterations)
        BY <2>1, <2>3, Monotone
      <3>3. QED
        <4> DEFINE x == attempt * (1 + MaxIterations)
                   y == CeilingAttempts * (1 + MaxIterations)
        <4>1. x \in Int /\ y \in Int /\ llmCalls <= x /\ x <= y
          BY <2>1, <2>3, <3>1, <3>2
        <4> HIDE DEF x, y
        <4>2. llmCalls <= y
          BY <2>1, <4>1
        <4>3. QED
          BY <4>2 DEF y
    <2>4. QED
      BY <2>2, <2>3 DEF PInv, Clamping
  <1>2. QED
    BY <1>1, PInitially, PStep, PTL DEF Spec

\* The policy for a ceiling class holds in all of a run, whatever the stages
\* before the gate do and however the model is called after it.
THEOREM CeilingPolicyCorrect == Spec => []CeilingPolicy
  <1>1. (ExpectedFail => NotAttempted) /\ (ExpectedFail => Clamp) => CeilingPolicy
    BY DEF CeilingPolicy
  <1>2. QED
    BY <1>1, NotAttemptedCorrect, ClampCorrect, PTL

-----------------------------------------------------------------------------
(* The report.                                                             *)

NoOutcome == [proved |-> FALSE, error |-> FALSE, stored |-> FALSE]
Open == at \notin {"ended", "raised"} => report = NoOutcome

Ats == {"intake", "disassemble", "lift", "classify", "scaffold", "preflight", "prove", "ended", "raised"}
Reports == [proved : BOOLEAN, error : BOOLEAN, stored : BOOLEAN]
OwnType ==
  /\ at \in Ats /\ force \in BOOLEAN /\ host \in Hosts /\ checked \in BOOLEAN
  /\ stages \in Seq(Stages) /\ report \in Reports

\* A run starts well typed.
LEMMA OwnTypeInit == Init => OwnType
  <1>1. <<>> \in Seq(Stages)
    OBVIOUS
  <1>2. Init => report \in Reports
    BY DEF Init, Reports
  <1>3. QED
    BY <1>1, <1>2 DEF Init, OwnType, Ats

\* Records appended to the stages are stages.
LEMMA RecordType ==
  ASSUME stages \in Seq(Stages), NEW recs \in Seq(Stages), Record(recs)
  PROVE  stages' \in Seq(Stages)
  BY DEF Record

\* A stage failed, or gone on from with at most one record, is well typed.
LEMMA FailType ==
  ASSUME OwnType, NEW n \in {"intake", "lift", "invariant", "spec-lint"}, Fail(n)
  PROVE  at' \in Ats /\ stages' \in Seq(Stages) /\ report' \in Reports
  <1>1. <<Stage(n, "failed")>> \in Seq(Stages)
    BY DEF Stage, Stages
  <1>2. QED
    BY <1>1, RecordType DEF Fail, OwnType, Ats, Reports

LEMMA GoType ==
  ASSUME OwnType, NEW a \in Ats, NEW recs \in Seq(Stages), Go(a, recs)
  PROVE  at' \in Ats /\ stages' \in Seq(Stages) /\ report' \in Reports
  BY RecordType DEF Go, OwnType

LEMMA RaiseType ==
  ASSUME OwnType, Raise
  PROVE  at' \in Ats /\ stages' \in Seq(Stages) /\ report' \in Reports
  BY DEF Raise, OwnType, Ats

\* Every step keeps the pipeline's own variables well typed.
LEMMA OwnTypeStep ==
  ASSUME PInv, OwnType, [Next]_vars
  PROVE  OwnType'
  <1>1. CASE Intake
    <2>1. /\ <<Stage("intake", "ok")>> \in Seq(Stages) /\ <<>> \in Seq(Stages)
          /\ "lift" \in Ats /\ "disassemble" \in Ats
      BY DEF Stage, Stages, Ats
    <2>2. QED
      BY <1>1, <2>1, FailType, GoType, RaiseType
         DEF Intake, CompileC, LoadMachineCode, Disassemble, Subprocess, OwnType
  <1>2. CASE Lift
    <2>1. <<Stage("lift", "ok")>> \in Seq(Stages) /\ "classify" \in Ats
      BY DEF Stage, Stages, Ats
    <2>2. QED
      BY <1>2, <2>1, FailType, GoType, RaiseType DEF Lift, Subprocess, OwnType
  <1>3. CASE ClassifyInScope \/ ForceCeiling
    <2>1. /\ <<Stage("classify", "ok")>> \in Seq(Stages)
          /\ <<Stage("classify", "limitation")>> \in Seq(Stages) /\ "scaffold" \in Ats
      BY DEF Stage, Stages, Ats
    <2>2. QED
      BY <1>3, <2>1, GoType DEF ClassifyInScope, ForceCeiling, OwnType
  <1>4. CASE GateCeiling
    <2>1. <<Stage("classify", "limitation"), Stage("invariant", "limitation"),
            Stage("repair", "skipped"), Stage("stored", "skipped")>> \in Seq(Stages)
      BY DEF Stage, Stages
    <2>2. QED
      BY <1>4, <2>1, RecordType DEF GateCeiling, OwnType, Ats, Reports
  <1>5. CASE Scaffold
    <2>1. <<>> \in Seq(Stages) /\ "preflight" \in Ats
      BY DEF Ats
    <2>2. QED
      BY <1>5, <2>1, FailType, GoType, RaiseType DEF Scaffold, Subprocess, OwnType
  <1>6. CASE Preflight
    <2>1. <<>> \in Seq(Stages) /\ "prove" \in Ats
      BY DEF Ats
    <2>2. at' \in Ats /\ stages' \in Seq(Stages) /\ report' \in Reports
      BY <1>6, <2>1, FailType, GoType, RaiseType DEF Preflight, Unreachable
    <2>3. checked' \in BOOLEAN /\ force' \in BOOLEAN
      BY <1>6, Zenon DEF Preflight, OwnType, ExpectedFail
    <2>4. host' \in Hosts
      BY <1>6 DEF Preflight, OwnType
    <2>5. QED
      BY <2>2, <2>3, <2>4 DEF OwnType
  <1>7. CASE Prove
    BY <1>7 DEF Prove, OwnType
  <1>8. CASE ProverUnreachable \/ MapRejected
    BY <1>8, FailType DEF ProverUnreachable, MapRejected, OwnType
  <1>9. CASE MapProved
    <2>1. <<Stage("spec-lint", "ok"), Stage("invariant", "ok"),
            Stage("repair", RepairStatus), Stage("stored", StoredStatus)>> \in Seq(Stages)
      BY DEF Stage, Stages, RepairStatus, StoredStatus
    <2>2. at' \in Ats /\ stages' \in Seq(Stages)
      BY <1>9, <2>1, RecordType DEF MapProved, OwnType, Ats
    <2>3. report' \in Reports
      BY <1>9 DEF MapProved, Reports, PInv, Call, P!IInv, P!TypeOK, P!Results
    <2>4. QED
      BY <1>9, <2>2, <2>3 DEF MapProved, OwnType
  <1>10. CASE MapFailed
    <2>1. <<Stage("spec-lint", "ok")>> \o Stalled \in Seq(Stages)
      <3>1. FailStatus \in {"limitation", "failed"}
        BY DEF FailStatus
      <3>2. <<Stage("spec-lint", "ok")>> \in Seq(Stages)
        BY DEF Stage, Stages
      <3>3. <<Stage("invariant", "ok"), Stage("repair", FailStatus), Stage("stored", "skipped")>>
              \in Seq(Stages)
        BY <3>1 DEF Stage, Stages
      <3>4. <<Stage("invariant", FailStatus), Stage("repair", "skipped"), Stage("stored", "skipped")>>
              \in Seq(Stages)
        BY <3>1 DEF Stage, Stages
      <3>5. Stalled \in Seq(Stages)
        BY <3>3, <3>4 DEF Stalled
      <3>6. QED
        BY <3>2, <3>5
    <2>2. QED
      BY <1>10, <2>1, RecordType DEF MapFailed, OwnType, Ats, Reports
  <1>11. CASE UNCHANGED vars
    BY <1>11 DEF vars, OwnType
  <1>12. QED
    BY <1>1, <1>2, <1>3, <1>4, <1>5, <1>6, <1>7, <1>8, <1>9, <1>10, <1>11 DEF Next

\* Every reachable state of a pipeline run is well typed.
THEOREM TypeCorrect == Spec => []TypeOK
  <1>1. Init => OwnType
    BY OwnTypeInit
  <1>2. PInv /\ OwnType => TypeOK
    BY SameTypeOK DEF PInv, Call, P!IInv, OwnType, Ats, Reports, TypeOK
  <1>3. PInv /\ OwnType /\ [Next]_vars => OwnType'
    BY OwnTypeStep
  <1>4. QED
    BY <1>1, <1>2, <1>3, PInitially, PStep, PTL DEF Spec

\* The last of the records appended is the last stage.
LEMMA LastRecord ==
  ASSUME stages \in Seq(Stages), NEW a, NEW b, NEW c, NEW d, Record(<<a, b, c, d>>)
  PROVE  Last(stages') = d
  <1>1. Len(stages') = Len(stages) + 4 /\ Len(stages) \in Nat
    BY DEF Record
  <1>2. stages'[Len(stages) + 4] = d
    BY <1>1 DEF Record
  <1>3. QED
    BY <1>1, <1>2 DEF Last

\* So is the one of a stage that failed.
LEMMA LastFailed ==
  ASSUME stages \in Seq(Stages), NEW n, Fail(n)
  PROVE  Last(stages') = Stage(n, "failed")
  <1>1. Len(stages') = Len(stages) + 1 /\ Len(stages) \in Nat
    BY DEF Fail, Record
  <1>2. stages'[Len(stages) + 1] = Stage(n, "failed")
    BY <1>1 DEF Fail, Record
  <1>3. QED
    BY <1>1, <1>2 DEF Last

\* What is in the corpus is the proof of the theorem generated last.
LEMMA KeptIsProved ==
  ASSUME PInv
  PROVE  corpus # {} => corpus = {gen} /\ gen \in Provable
  <1>1. corpus # {} => result.status = "proved" /\ corpus = {result.inv}
    BY DEF PInv, Kept
  <1>2. result.status = "proved" => result.inv = gen /\ result.inv \in Provable
    BY DEF PInv, Call, P!IInv, P!Verified
  <1>3. QED
    BY <1>1, <1>2

\* Only a proof ends with a record in the corpus; its report says so, unless the
\* connection was lost after it.
LEMMA ReportStep ==
  ASSUME PInv, OwnType, Open, CorpusMatchesReport, [Next]_vars
  PROVE  Open' /\ CorpusMatchesReport'
  <1>1. CASE MapProved
    <2>1. corpus' = corpus /\ gen' = gen
      BY <1>1 DEF MapProved, proving
    <2>2. corpus # {} => corpus = {gen} /\ gen \in Provable
      BY KeptIsProved
    <2>3. result.stored => corpus # {}
      BY DEF PInv, Kept
    <2>4. Last(stages') = Stage("stored", StoredStatus)
      BY <1>1, LastRecord DEF MapProved, OwnType
    <2>5. report' = [proved |-> TRUE, error |-> FALSE, stored |-> result.stored] /\ at' = "ended"
      BY <1>1 DEF MapProved
    <2>6. report'.proved /\ report'.stored = result.stored
      BY <2>5
    <2>7. Last(stages') = Stage("stored", IF report'.stored THEN "ok" ELSE "failed")
      BY <2>4, <2>6 DEF StoredStatus
    <2>8. QED
      BY <2>1, <2>2, <2>3, <2>5, <2>6, <2>7 DEF Open, CorpusMatchesReport
  <1>2. ASSUME corpus = {}, corpus' = {}, at' = "ended",
               report'.proved = FALSE, report'.stored = FALSE
        PROVE  Open' /\ CorpusMatchesReport'
    BY <1>2 DEF Open, CorpusMatchesReport
  <1>3. ASSUME at' # "ended", report' = report, at \notin {"ended", "raised"}
        PROVE  Open' /\ CorpusMatchesReport'
    BY <1>3 DEF Open, CorpusMatchesReport
  <1>4. at \in {"intake", "disassemble", "lift", "classify", "scaffold", "preflight"} => corpus = {}
    BY DEF PInv, Untouched, Kept
  <1>5. ASSUME NEW n, Fail(n), corpus = {}, UNCHANGED proving, at \notin {"ended", "raised"}
        PROVE  Open' /\ CorpusMatchesReport'
    <2>1. report = NoOutcome /\ report' = [report EXCEPT !.error = TRUE]
      BY <1>5 DEF Fail, Open
    <2>2. report'.proved = FALSE /\ report'.stored = FALSE
      BY <2>1 DEF NoOutcome
    <2>3. corpus' = {} /\ at' = "ended"
      BY <1>5 DEF Fail, proving
    <2>4. QED
      BY <1>2, <1>5, <2>2, <2>3
  <1>6. CASE Intake \/ Lift \/ Scaffold \/ Preflight
    BY <1>3, <1>4, <1>5, <1>6 DEF Intake, CompileC, LoadMachineCode, Disassemble, Subprocess, Lift,
                  Scaffold, Preflight, Unreachable, Go, Raise
  <1>7. CASE ClassifyInScope \/ ForceCeiling
    BY <1>3, <1>7 DEF ClassifyInScope, ForceCeiling, Go
  <1>8. CASE GateCeiling \/ MapFailed
    <2>1. report = NoOutcome /\ report' = [report EXCEPT !.error = TRUE]
      BY <1>8 DEF GateCeiling, MapFailed, Open
    <2>2. report'.proved = FALSE /\ report'.stored = FALSE
      BY <2>1 DEF NoOutcome
    <2>3. corpus = {} /\ corpus' = {} /\ at' = "ended"
      BY <1>4, <1>8 DEF GateCeiling, MapFailed, proving, PInv, Kept
    <2>4. QED
      BY <1>2, <2>2, <2>3
  <1>9. CASE Prove
    BY <1>3, <1>9 DEF Prove
  <1>10. CASE MapRejected
    BY <1>5, <1>10 DEF MapRejected, PInv, Kept
  <1>11. CASE ProverUnreachable
    <2>1. report = NoOutcome /\ report' = [report EXCEPT !.error = TRUE] /\ at' = "ended"
      BY <1>11 DEF ProverUnreachable, Fail, Open
    <2>2. report'.proved = FALSE /\ report'.stored = FALSE
      BY <2>1 DEF NoOutcome
    <2>3. corpus' = corpus /\ gen' = gen
      BY <1>11 DEF ProverUnreachable, proving
    <2>4. Last(stages') = Stage("invariant", "failed")
      BY <1>11, LastFailed DEF ProverUnreachable, OwnType
    <2>5. QED
      BY <2>1, <2>2, <2>3, <2>4, KeptIsProved DEF Open, CorpusMatchesReport
  <1>12. CASE UNCHANGED vars
    BY <1>12 DEF vars, proving, Open, CorpusMatchesReport
  <1>13. QED
    BY <1>1, <1>6, <1>7, <1>8, <1>9, <1>10, <1>11, <1>12 DEF Next

\* What a finished run leaves in the corpus is a proof of the theorem it generated;
\* the report and its last stage say whether it was kept, and only a connection lost
\* after the proof leaves one that is not reported.
THEOREM CorpusMatchesReportCorrect == Spec => []CorpusMatchesReport
  <1>1. Init => OwnType /\ Open /\ CorpusMatchesReport
    BY OwnTypeInit DEF Init, Open, NoOutcome, CorpusMatchesReport
  <1>2. PInv /\ OwnType /\ Open /\ CorpusMatchesReport /\ [Next]_vars
          => Open' /\ CorpusMatchesReport'
    BY ReportStep
  <1>3. PInv /\ OwnType /\ [Next]_vars => OwnType'
    BY OwnTypeStep
  <1>4. QED
    BY <1>1, <1>2, <1>3, PInitially, PStep, PTL DEF Spec

-----------------------------------------------------------------------------
(* The stages a run has passed are those its report lists.                 *)

ClassifyRecord == Stage("classify", IF ExpectedFail THEN "limitation" ELSE "ok")

\* Where a run stands tells what it has recorded, and what its host has.
Recorded ==
  /\ at \in {"intake", "disassemble"} => stages = <<>>
  /\ at = "lift" => stages = <<Stage("intake", "ok")>>
  /\ at = "classify" => stages = <<Stage("intake", "ok"), Stage("lift", "ok")>>
  /\ at \in {"scaffold", "preflight", "prove"} =>
       /\ stages = <<Stage("intake", "ok"), Stage("lift", "ok"), ClassifyRecord>>
       /\ ExpectedFail => force

Equipped ==
  /\ at = "disassemble" => host.kind = "binary" \/ Has("gcc")
  /\ at \in {"lift", "classify", "scaffold", "preflight", "prove"} =>
       Has("objdump") /\ (host.kind = "binary" \/ Has("gcc"))
  /\ at \in {"classify", "scaffold", "preflight", "prove"} => Has("lifter")
  /\ at \in {"preflight", "prove"} => Has("coqc")

\* A host's kind is one of two.
LEMMA Kinds == ASSUME OwnType PROVE host.kind \in {"c", "binary"} /\ host.tools \subseteq Tools
  BY DEF OwnType, Hosts

\* An outcome not yet set gets its error.
LEMMA ErrorSet ==
  ASSUME report = NoOutcome, report' = [report EXCEPT !.error = TRUE]
  PROVE  report' = [proved |-> FALSE, error |-> TRUE, stored |-> FALSE]
  BY DEF NoOutcome

\* A report that failed at a stage after others that were passed tells so.
LEMMA FailTells ==
  ASSUME NEW n \in {"intake", "lift", "invariant", "spec-lint"}, Fail(n), Open, Recorded, OwnType,
         at \notin {"ended", "raised"}, UNCHANGED <<force, call>>
  PROVE  ReportTellsOutcome'
  <1>1. report' = [proved |-> FALSE, error |-> TRUE, stored |-> FALSE]
    BY ErrorSet DEF Fail, Open
  <1>2. stages' = stages \o <<Stage(n, "failed")>>
    BY DEF Fail, Record
  <1> DEFINE k == Len(stages) + 1
  <1>3. Len(stages) \in Nat /\ DOMAIN stages' = 1..k /\ stages'[k] = Stage(n, "failed")
        /\ \A i \in 1..Len(stages) : stages'[i] = stages[i]
    BY <1>2 DEF OwnType
  <1>4. k \in Stopping' /\ stages'[k].name # "classify" /\ stages'[k].status = "failed"
    BY <1>3 DEF Stopping, Stage
  <1>5. ASSUME ExpectedFailure', ~force'
        PROVE  FALSE
    <2>1. PICK i \in Stopping' : FailedStage(i)' /\ stages'[i].status = "limitation"
      BY <1>5 DEF ExpectedFailure
    <2>2. i \in 1..Len(stages) /\ stages[i].status = "limitation"
      BY <1>3, <1>4, <2>1 DEF Stopping
    <2>3. (~force /\ (ExpectedFail => force)) \/ at \in {"intake", "disassemble", "lift", "classify"}
      BY <1>5 DEF Recorded, OwnType, Ats
    <2>4. \/ stages = <<>>
          \/ stages = <<Stage("intake", "ok")>>
          \/ stages = <<Stage("intake", "ok"), Stage("lift", "ok")>>
          \/ (~ExpectedFail /\ stages = <<Stage("intake", "ok"), Stage("lift", "ok"), ClassifyRecord>>)
      BY <2>3, <1>5 DEF Recorded, OwnType, Ats
    <2>5. QED
      BY <2>2, <2>4 DEF Stage, ClassifyRecord
  <1>6. QED
    BY <1>1, <1>4, <1>5 DEF ReportTellsOutcome

\* What a concatenation is, by its length and its places.
LEMMA Joined ==
  ASSUME NEW S, NEW s \in Seq(S), NEW t \in Seq(S), NEW u \in Seq(S), Len(u) = Len(s) + Len(t),
         \A i \in 1..Len(s) : u[i] = s[i], \A i \in 1..Len(t) : u[Len(s) + i] = t[i]
  PROVE  s \o t = u
  <1> DEFINE v == s \o t   n == Len(s) + Len(t)
  <1>1. Len(s) \in Nat /\ Len(t) \in Nat
    OBVIOUS
  <1>2. v \in Seq(S) /\ Len(v) = n
    OBVIOUS
  <1>3. \A i \in 1..n : v[i] = IF i <= Len(s) THEN s[i] ELSE t[i - Len(s)]
    OBVIOUS
  <1>4. ASSUME NEW i \in 1..n PROVE v[i] = u[i]
    <2>1. CASE i <= Len(s)
      <3>1. i \in 1..Len(s)
        BY <1>1, <2>1
      <3>2. v[i] = s[i]
        BY <1>3, <2>1
      <3>3. QED
        BY <3>1, <3>2
    <2>2. CASE ~(i <= Len(s))
      <3>1. i - Len(s) \in 1..Len(t) /\ Len(s) + (i - Len(s)) = i
        BY <1>1, <2>2
      <3>2. v[i] = t[i - Len(s)]
        BY <1>3, <2>2
      <3>3. u[Len(s) + (i - Len(s))] = t[i - Len(s)]
        BY <3>1
      <3>4. QED
        BY <3>1, <3>2, <3>3
    <2>3. QED
      BY <2>1, <2>2
  <1>5. ASSUME NEW w \in Seq(S), Len(w) = n PROVE w = [i \in 1..n |-> w[i]]
    <2> HIDE DEF v, n
    <2>1. QED
      BY <1>5
  <1>6. v = [i \in 1..n |-> v[i]] /\ u = [i \in 1..n |-> u[i]]
    BY <1>2, <1>5
  <1> HIDE DEF v, n
  <1>7. [i \in 1..n |-> v[i]] = [i \in 1..n |-> u[i]]
    BY <1>4
  <1>8. v = u
    BY <1>6, <1>7
  <1>9. QED
    BY <1>8 DEF v

\* The concatenations the report is built with, by the lengths of their parts.
LEMMA OneOne ==
  ASSUME NEW p, NEW a
  PROVE  <<p>> \o <<a>> = <<p, a>>
  <1> DEFINE S == {p, a}   s == <<p>>   t == <<a>>   u == <<p, a>>
  <1>1. s \in Seq(S) /\ t \in Seq(S) /\ u \in Seq(S) /\ Len(u) = Len(s) + Len(t)
    OBVIOUS
  <1>2. \A i \in 1..Len(s) : u[i] = s[i]
    OBVIOUS
  <1>3. \A i \in 1..Len(t) : u[Len(s) + i] = t[i]
    <2>1. Len(s) = 1 /\ Len(t) = 1 /\ u[2] = a /\ t[1] = a
      OBVIOUS
    <2> HIDE DEF s, t, u
    <2>2. QED
      BY <2>1
  <1> HIDE DEF S, s, t, u
  <1>4. s \o t = u
    BY <1>1, <1>2, <1>3, Joined
  <1>5. QED
    BY <1>4, Zenon DEF s, t, u

LEMMA TwoOne ==
  ASSUME NEW p, NEW q, NEW a
  PROVE  <<p, q>> \o <<a>> = <<p, q, a>>
  <1> DEFINE S == {p, q, a}   s == <<p, q>>   t == <<a>>   u == <<p, q, a>>
  <1>1. /\ s \in Seq(S) /\ t \in Seq(S) /\ u \in Seq(S) /\ Len(u) = Len(s) + Len(t)
        /\ \A i \in 1..Len(s) : u[i] = s[i]
        /\ \A i \in 1..Len(t) : u[Len(s) + i] = t[i]
    OBVIOUS
  <1> HIDE DEF S, s, t, u
  <1>2. s \o t = u
    BY <1>1, Joined
  <1>3. QED
    BY <1>2, Zenon DEF s, t, u

LEMMA TwoFour ==
  ASSUME NEW p, NEW q, NEW a, NEW b, NEW c, NEW d
  PROVE  <<p, q>> \o <<a, b, c, d>> = <<p, q, a, b, c, d>>
  <1> DEFINE S == {p, q, a, b, c, d}   s == <<p, q>>   t == <<a, b, c, d>>   u == <<p, q, a, b, c, d>>
  <1>1. /\ s \in Seq(S) /\ t \in Seq(S) /\ u \in Seq(S) /\ Len(u) = Len(s) + Len(t)
        /\ \A i \in 1..Len(s) : u[i] = s[i]
        /\ \A i \in 1..Len(t) : u[Len(s) + i] = t[i]
    OBVIOUS
  <1> HIDE DEF S, s, t, u
  <1>2. s \o t = u
    BY <1>1, Joined
  <1>3. QED
    BY <1>2, Zenon DEF s, t, u

LEMMA ThreeFour ==
  ASSUME NEW p, NEW q, NEW r, NEW a, NEW b, NEW c, NEW d
  PROVE  <<p, q, r>> \o <<a, b, c, d>> = <<p, q, r, a, b, c, d>>
  <1> DEFINE S == {p, q, r, a, b, c, d}   s == <<p, q, r>>   t == <<a, b, c, d>>   u == <<p, q, r, a, b, c, d>>
  <1>1. /\ s \in Seq(S) /\ t \in Seq(S) /\ u \in Seq(S) /\ Len(u) = Len(s) + Len(t)
        /\ \A i \in 1..Len(s) : u[i] = s[i]
        /\ \A i \in 1..Len(t) : u[Len(s) + i] = t[i]
    OBVIOUS
  <1> HIDE DEF S, s, t, u
  <1>2. s \o t = u
    BY <1>1, Joined
  <1>3. QED
    BY <1>2, Zenon DEF s, t, u

LEMMA OneThree ==
  ASSUME NEW a, NEW b, NEW c, NEW d
  PROVE  <<a>> \o <<b, c, d>> = <<a, b, c, d>>
  <1> DEFINE S == {a, b, c, d}   s == <<a>>   t == <<b, c, d>>   u == <<a, b, c, d>>
  <1>1. /\ s \in Seq(S) /\ t \in Seq(S) /\ u \in Seq(S) /\ Len(u) = Len(s) + Len(t)
        /\ \A i \in 1..Len(s) : u[i] = s[i]
        /\ \A i \in 1..Len(t) : u[Len(s) + i] = t[i]
    OBVIOUS
  <1> HIDE DEF S, s, t, u
  <1>2. s \o t = u
    BY <1>1, Joined
  <1>3. QED
    BY <1>2, Zenon DEF s, t, u

\* What four records make of the stages before the gate and after it.
LEMMA RecordedFour ==
  ASSUME Recorded, NEW a, NEW b, NEW c, NEW d, stages' = stages \o <<a, b, c, d>>
  PROVE  /\ at = "classify" => stages' = <<Stage("intake", "ok"), Stage("lift", "ok"), a, b, c, d>>
         /\ at = "prove" => stages' = <<Stage("intake", "ok"), Stage("lift", "ok"), ClassifyRecord, a, b, c, d>>
  <1>1. ASSUME at = "classify"
        PROVE  stages' = <<Stage("intake", "ok"), Stage("lift", "ok"), a, b, c, d>>
    <2>1. stages = <<Stage("intake", "ok"), Stage("lift", "ok")>>
      BY <1>1 DEF Recorded
    <2>2. <<Stage("intake", "ok"), Stage("lift", "ok")>> \o <<a, b, c, d>>
            = <<Stage("intake", "ok"), Stage("lift", "ok"), a, b, c, d>>
      BY TwoFour
    <2>3. QED
      BY <2>1, <2>2, Zenon
  <1>2. ASSUME at = "prove"
        PROVE  stages' = <<Stage("intake", "ok"), Stage("lift", "ok"), ClassifyRecord, a, b, c, d>>
    <2>1. stages = <<Stage("intake", "ok"), Stage("lift", "ok"), ClassifyRecord>>
      BY <1>2 DEF Recorded
    <2>2. <<Stage("intake", "ok"), Stage("lift", "ok"), ClassifyRecord>> \o <<a, b, c, d>>
            = <<Stage("intake", "ok"), Stage("lift", "ok"), ClassifyRecord, a, b, c, d>>
      BY ThreeFour
    <2>3. QED
      BY <2>1, <2>2, Zenon
  <1>3. QED
    BY <1>1, <1>2

\* A proof's report.
LEMMA ProvedTells ==
  ASSUME Recorded, Equipped, OwnType, MapProved
  PROVE  ReportTellsOutcome'
  <1>1. stages' = <<Stage("intake", "ok"), Stage("lift", "ok"), ClassifyRecord, Stage("spec-lint", "ok"),
                    Stage("invariant", "ok"), Stage("repair", RepairStatus), Stage("stored", StoredStatus)>>
    BY RecordedFour, Zenon DEF MapProved, Record
  <1>2. report' = [proved |-> TRUE, error |-> FALSE, stored |-> result.stored] /\ UNCHANGED host
    BY DEF MapProved
  <1>3. \A n \in Stopping' : stages'[n] \in {Stage("classify", "limitation"), Stage("stored", "failed")}
    <2> SUFFICES ASSUME NEW n \in Stopping'
                 PROVE  stages'[n] \in {Stage("classify", "limitation"), Stage("stored", "failed")}
      OBVIOUS
    <2>1. n \in 1..7 /\ stages'[n].status \in {"failed", "limitation"}
      BY <1>1 DEF Stopping
    <2>2. n = 3 \/ n = 7
      BY <1>1, <2>1 DEF Stage, RepairStatus
    <2>3. QED
      BY <1>1, <2>1, <2>2 DEF Stage, ClassifyRecord, StoredStatus
  <1>4. Tools \ (IF host.kind = "binary" THEN {"gcc"} ELSE {}) \subseteq host.tools
    BY Kinds DEF MapProved, Equipped, Has, Tools
  <1>5. QED
    BY <1>2, <1>3, <1>4 DEF ReportTellsOutcome, ExpectedFailure

\* The report of a search that ran out, or of a proof the oracle vetoed.
LEMMA FailedTells ==
  ASSUME Recorded, OwnType, Open, MapFailed
  PROVE  ReportTellsOutcome'
  <1>1. PICK i \in {"ok", "failed", "limitation"}, r \in {"skipped", "failed", "limitation"} :
          /\ Stalled = <<Stage("invariant", i), Stage("repair", r), Stage("stored", "skipped")>>
          /\ i = FailStatus \/ (i = "ok" /\ r = FailStatus)
          /\ i = FailStatus => r = "skipped"
    BY DEF Stalled, FailStatus
  <1>2. stages' = <<Stage("intake", "ok"), Stage("lift", "ok"), ClassifyRecord, Stage("spec-lint", "ok"),
                    Stage("invariant", i), Stage("repair", r), Stage("stored", "skipped")>>
    <2>1. <<Stage("spec-lint", "ok")>> \o Stalled
            = <<Stage("spec-lint", "ok"), Stage("invariant", i), Stage("repair", r), Stage("stored", "skipped")>>
      BY <1>1, OneThree, Zenon
    <2>2. QED
      BY <2>1, RecordedFour, Zenon DEF MapFailed, Record
  <1>3. report' = [proved |-> FALSE, error |-> TRUE, stored |-> FALSE]
    BY ErrorSet DEF MapFailed, Open
  <1>4. \E n \in Stopping' : stages'[n].name # "classify"
    <2>1. CASE i = FailStatus
      <3>1. 5 \in Stopping'
        BY <1>2, <2>1 DEF Stopping, Stage, FailStatus
      <3>2. QED
        BY <1>2, <3>1 DEF Stage
    <2>2. CASE r = FailStatus
      <3>1. 6 \in Stopping'
        BY <1>2, <2>2 DEF Stopping, Stage, FailStatus
      <3>2. QED
        BY <1>2, <3>1 DEF Stage
    <2>3. QED
      BY <1>1, <2>1, <2>2
  <1>5. ASSUME ExpectedFailure', ~force'
        PROVE  FALSE
    <2>1. ~ExpectedFail
      BY <1>5 DEF MapFailed, Recorded
    <2>2. \A n \in Stopping' : stages'[n].status = "failed"
      <3> SUFFICES ASSUME NEW n \in Stopping' PROVE stages'[n].status = "failed"
        OBVIOUS
      <3>1. n \in 1..7 /\ stages'[n].status \in {"failed", "limitation"}
        BY <1>2 DEF Stopping
      <3>2. QED
        BY <1>1, <1>2, <2>1, <3>1 DEF Stage, ClassifyRecord, FailStatus
    <2>3. QED
      BY <1>5, <2>2 DEF ExpectedFailure
  <1>6. QED
    BY <1>3, <1>4, <1>5 DEF ReportTellsOutcome

\* The report of a ceiling class that is not attempted.
LEMMA GatedTells ==
  ASSUME Recorded, OwnType, Open, GateCeiling
  PROVE  ReportTellsOutcome'
  <1>1. stages' = <<Stage("intake", "ok"), Stage("lift", "ok"), Stage("classify", "limitation"),
                    Stage("invariant", "limitation"), Stage("repair", "skipped"), Stage("stored", "skipped")>>
    BY RecordedFour, Zenon DEF GateCeiling, Record
  <1>2. report' = [proved |-> FALSE, error |-> TRUE, stored |-> FALSE]
    BY ErrorSet DEF GateCeiling, Open
  <1>3. 4 \in Stopping' /\ stages'[4].name # "classify"
    BY <1>1 DEF Stopping, Stage
  <1>4. ExpectedFail'
    BY DEF GateCeiling, proving, ExpectedFail
  <1>5. \A n \in Stopping' : stages'[n].status = "limitation"
    <2> SUFFICES ASSUME NEW n \in Stopping' PROVE stages'[n].status = "limitation"
      OBVIOUS
    <2>1. n \in 1..6 /\ stages'[n].status \in {"failed", "limitation"}
      BY <1>1 DEF Stopping
    <2>2. QED
      BY <1>1, <2>1 DEF Stage
  <1>6. QED
    BY <1>2, <1>3, <1>4, <1>5 DEF ReportTellsOutcome

\* Every step keeps account of the stages and the tools, and a last one tells them.
LEMMA RecordedStep ==
  ASSUME Recorded, Equipped, ReportTellsOutcome, OwnType, Open, [Next]_vars
  PROVE  Recorded' /\ Equipped' /\ ReportTellsOutcome'
  <1>1. ASSUME NEW n \in {"intake", "lift", "invariant", "spec-lint"}, Fail(n),
               at \notin {"ended", "raised"}, UNCHANGED <<force, call>>
        PROVE  Recorded' /\ Equipped' /\ ReportTellsOutcome'
    <2>1. ReportTellsOutcome'
      BY <1>1, FailTells
    <2>2. QED
      BY <1>1, <2>1 DEF Fail, Recorded, Equipped
  <1>2. ASSUME Raise PROVE Recorded' /\ Equipped' /\ ReportTellsOutcome'
    BY <1>2 DEF Raise, Recorded, Equipped, ReportTellsOutcome
  <1>3. CASE Intake
    <2>1. ASSUME Go("disassemble", <<>>), at = "intake", UNCHANGED <<host, proving>>,
                 host.kind = "c" => Has("gcc")
          PROVE  Recorded' /\ Equipped' /\ ReportTellsOutcome'
      BY <2>1, Kinds DEF Go, Record, Recorded, Equipped, Has, ReportTellsOutcome
    <2>2. ASSUME Go("lift", <<Stage("intake", "ok")>>), at = "disassemble", Has("objdump"),
                 UNCHANGED <<host, proving>>
          PROVE  Recorded' /\ Equipped' /\ ReportTellsOutcome'
      BY <2>2 DEF Go, Record, Recorded, Equipped, Has, ReportTellsOutcome
    <2>3. QED
      BY <1>1, <1>2, <1>3, <2>1, <2>2
         DEF Intake, CompileC, LoadMachineCode, Disassemble, Subprocess, proving
  <1>4. CASE Lift
    <2>1. ASSUME Go("classify", <<Stage("lift", "ok")>>), at = "lift", Has("lifter"), UNCHANGED host
          PROVE  Recorded' /\ Equipped' /\ ReportTellsOutcome'
      BY <2>1, OneOne DEF Go, Record, Recorded, Equipped, Has, ReportTellsOutcome
    <2>2. QED
      BY <1>1, <1>2, <1>4, <2>1 DEF Lift, Subprocess, proving
  <1>5. CASE ClassifyInScope \/ ForceCeiling
    <2>1. at = "classify" /\ at' = "scaffold" /\ UNCHANGED host /\ ExpectedFail' = ExpectedFail
          /\ stages' = stages \o <<ClassifyRecord>> /\ (ExpectedFail => force) /\ force' = force
      <3>1. CASE ClassifyInScope
        BY <3>1 DEF ClassifyInScope, Go, Record, ClassifyRecord, ExpectedFail, proving
      <3>2. CASE ForceCeiling
        <4>1. call'.gold = call.gold
          BY <3>2 DEF ForceCeiling, Clamped
        <4>2. QED
          BY <3>2, <4>1 DEF ForceCeiling, Go, Record, ClassifyRecord, ExpectedFail, Gated, OwnType
      <3>3. QED
        BY <1>5, <3>1, <3>2
    <2>2. stages' = <<Stage("intake", "ok"), Stage("lift", "ok"), ClassifyRecord>>
      BY <2>1, TwoOne DEF Recorded
    <2>3. ClassifyRecord' = ClassifyRecord
      BY <2>1 DEF ClassifyRecord
    <2>4. QED
      BY <2>1, <2>2, <2>3 DEF Recorded, Equipped, Has, ReportTellsOutcome
  <1>6. CASE Scaffold
    <2>1. ASSUME Go("preflight", <<>>), at = "scaffold", Has("coqc"), UNCHANGED <<host, proving, force>>
          PROVE  Recorded' /\ Equipped' /\ ReportTellsOutcome'
      BY <2>1 DEF Go, Record, Recorded, Equipped, Has, ReportTellsOutcome, ClassifyRecord, ExpectedFail, proving
    <2>2. QED
      BY <1>1, <1>2, <1>6, <2>1 DEF Scaffold, Subprocess, proving
  <1>7. CASE Preflight
    <2>1. ASSUME Go("prove", <<>>), at = "preflight", UNCHANGED <<host, proving, force>>
          PROVE  Recorded' /\ Equipped' /\ ReportTellsOutcome'
      BY <2>1 DEF Go, Record, Recorded, Equipped, Has, ReportTellsOutcome, ClassifyRecord, ExpectedFail, proving
    <2>2. QED
      BY <1>1, <1>2, <1>7, <2>1 DEF Preflight, Unreachable, proving
  <1>8. CASE Prove
    <2>1. call' = call /\ UNCHANGED <<at, force, host, stages, report>> /\ at = "prove"
      BY <1>8, CallFixed DEF Prove
    <2>2. QED
      BY <2>1 DEF Recorded, Equipped, Has, ReportTellsOutcome, ClassifyRecord, ExpectedFail
  <1>9. CASE ProverUnreachable \/ MapRejected
    BY <1>1, <1>9 DEF ProverUnreachable, MapRejected, proving
  <1>10. CASE GateCeiling \/ MapProved \/ MapFailed
    <2>1. ReportTellsOutcome'
      BY <1>10, GatedTells, ProvedTells, FailedTells
    <2>2. at' = "ended"
      BY <1>10 DEF GateCeiling, MapProved, MapFailed
    <2>3. QED
      BY <2>1, <2>2 DEF Recorded, Equipped
  <1>11. CASE UNCHANGED vars
    BY <1>11 DEF vars, proving, Recorded, Equipped, Has, ReportTellsOutcome, ClassifyRecord,
                 ExpectedFail, ExpectedFailure, Stopping, FailedStage
  <1>12. QED
    BY <1>3, <1>4, <1>5, <1>6, <1>7, <1>8, <1>9, <1>10, <1>11 DEF Next

\* The stage records of a finished run tell its outcome: which stage stopped it,
\* whether the failure was expected, and that a proof had all its tools.
THEOREM ReportTellsOutcomeCorrect == Spec => []ReportTellsOutcome
  <1>1. Init => Recorded /\ Equipped /\ ReportTellsOutcome /\ Open
    BY DEF Init, Recorded, Equipped, ReportTellsOutcome, Open, NoOutcome
  <1>2. PInv /\ OwnType /\ Open /\ CorpusMatchesReport /\ [Next]_vars => Open' /\ CorpusMatchesReport'
    BY ReportStep
  <1>3. Recorded /\ Equipped /\ ReportTellsOutcome /\ OwnType /\ Open /\ [Next]_vars
          => Recorded' /\ Equipped' /\ ReportTellsOutcome'
    BY RecordedStep
  <1>4. Init => OwnType /\ CorpusMatchesReport
    BY OwnTypeInit DEF Init, CorpusMatchesReport
  <1>5. PInv /\ OwnType /\ [Next]_vars => OwnType'
    BY OwnTypeStep
  <1>6. QED
    BY <1>1, <1>2, <1>3, <1>4, <1>5, PInitially, PStep, PTL DEF Spec
=============================================================================
