------------------------- MODULE OrchestratorProofs -------------------------
(***************************************************************************)
(* Proofs about Orchestrator, for every set of invariants, every verdict   *)
(* of the gates and the engine, and every budget.                          *)
(***************************************************************************)
EXTENDS Orchestrator, TLAPS

\* The quotas of the attempts, as a product the provers need not expand twice.
K == 1 + MaxIterations

\* What the gates and the engine have established by the time control is at pc.
Established ==
  /\ pc \notin {"premises", "done", "raised"} => call.premises # "unsatisfiable" /\ attempt \in Nat \ {0}
  /\ pc \in {"lint", "open", "prove", "oracle", "store"} => inv \in Invariants
  /\ pc \in {"open", "prove", "oracle", "store"} => inv \in LintOk
  /\ pc \in {"prove", "oracle", "store"} => opened = inv /\ gen = inv /\ inv \in Elaborates
  /\ pc \in {"oracle", "store"} => inv \in Provable
  /\ pc # "done" => result = Pending
  /\ pc = "premises" => attempt = 0

\* How much of the current attempt's quota can be spent at pc.
Spent ==
  CASE pc = "candidate" -> (attempt - 1) * K
    [] pc \in {"lint", "open", "prove"} -> (attempt - 1) * K + 1
    [] OTHER -> attempt * K

Quota == llmCalls <= Spent

\* The ledger, as long as no exception lost a search's total.
Ledger == pc # "raised" => llmCalls = synths + repairs

IInv == TypeOK /\ Established /\ Verified

-----------------------------------------------------------------------------
\* A call allows at least one attempt.
LEMMA AttemptsPositive ==
  ASSUME call \in Call
  PROVE  call.attempts \in Nat \ {0}
  <1>1. call.attempts \in AttemptLimits
    BY DEF Call
  <1>2. QED
    BY <1>1, OrchestratorConstants

\* The quota of one more attempt.
LEMMA OneMoreAttempt ==
  ASSUME NEW n \in Nat
  PROVE  /\ (n + 1) * K = n * K + K
         /\ ((n + 1) - 1) * K = n * K
         /\ n # 0 => n * K = (n - 1) * K + K /\ (n - 1) * K \in Nat
         /\ n * K \in Nat
  <1>1. K \in Nat
    BY OrchestratorConstants DEF K
  <1>2. (n + 1) * K = n * K + K /\ n * K \in Nat
    BY <1>1
  <1>3. (n + 1) - 1 = n
    OBVIOUS
  <1>4. ASSUME n # 0 PROVE n * K = (n - 1) * K + K /\ (n - 1) * K \in Nat
    <2>1. n - 1 \in Nat /\ n = (n - 1) + 1
      BY <1>4
    <2> DEFINE m == n - 1
    <2>2. (m + 1) * K = m * K + K /\ m * K \in Nat
      BY <1>1, <2>1
    <2>3. QED
      BY <2>1, <2>2
  <1>5. QED
    BY <1>2, <1>3, <1>4

\* A returned ProofResult is one.
LEMMA ReturnType ==
  ASSUME NEW status \in {"proved", "failed", "rejected", "vetoed"},
         NEW i \in Invariants \cup {None}, NEW res \in BOOLEAN,
         Return(status, i, res)
  PROVE  pc' \in Pcs /\ result' \in Results
  <1>1. result' = [status |-> status, inv |-> i, residual |-> res, stored |-> FALSE]
    BY DEF Return
  <1>2. [status |-> status, inv |-> i, residual |-> res, stored |-> FALSE] \in Results
    BY Zenon DEF Results
  <1>3. QED
    BY <1>1, <1>2 DEF Return, Pcs

\* The end of an attempt keeps the bookkeeping in its ranges.
LEMMA NextAttemptType ==
  ASSUME TypeOK, NextAttempt
  PROVE  pc' \in Pcs /\ attempt' \in 0..call.attempts /\ result' \in Results
  <1>1. CASE attempt < call.attempts
    <2>1. pc' = "candidate" /\ attempt' = attempt + 1 /\ result' = result
      BY <1>1 DEF NextAttempt
    <2>2. attempt \in Nat /\ call.attempts \in Nat /\ attempt + 1 \in 0..call.attempts
      BY <1>1, AttemptsPositive DEF TypeOK
    <2>3. QED
      BY <2>1, <2>2 DEF TypeOK, Pcs
  <1>2. CASE ~(attempt < call.attempts)
    <2>1. Return("failed", None, FALSE) /\ attempt' = attempt
      BY <1>2 DEF NextAttempt
    <2>2. QED
      BY <2>1, ReturnType DEF TypeOK
  <1>3. QED
    BY <1>1, <1>2

\* Every step keeps every variable in its range.
LEMMA TypeStep ==
  ASSUME TypeOK, Established, [Next]_vars
  PROVE  TypeOK'
  <1> USE OrchestratorConstants DEF TypeOK, ledger
  <1>1. CASE CheckPremises
    <2>1. pc' \in Pcs /\ result' \in Results
      BY <1>1, ReturnType DEF CheckPremises, Pcs
    <2>2. attempt' = 1 \/ attempt' = attempt
      BY <1>1 DEF CheckPremises
    <2>3. attempt' \in 0..call.attempts
      BY <2>2, AttemptsPositive
    <2>4. QED
      BY <1>1, <2>1, <2>3 DEF CheckPremises
  <1>2. CASE UseGold
    BY <1>2 DEF UseGold, Call, Pcs
  <1>3. CASE Synthesize
    <2>1. escalated' \in BOOLEAN
      <3>1. CASE escalated' = (escalated \/ (attempt > 1 /\ CanEscalate))
        BY <3>1, Zenon
      <3>2. CASE UNCHANGED escalated
        BY <3>2
      <3>3. QED
        BY <1>3, <3>1, <3>2 DEF Synthesize
    <2>2. pc' \in Pcs /\ inv' \in Invariants \cup {None} /\ llmCalls' \in Nat /\ synths' \in Nat
      BY <1>3 DEF Synthesize, Pcs
    <2>3. QED
      BY <1>3, <2>1, <2>2 DEF Synthesize
  <1>4. CASE SpecLint
    <2>1. pc' \in Pcs /\ attempt' \in 0..call.attempts /\ result' \in Results
      BY <1>4, NextAttemptType, ReturnType DEF SpecLint, Pcs
    <2>2. lastError' \in 0..call.attempts
      BY <1>4 DEF SpecLint
    <2>3. QED
      BY <1>4, <2>1, <2>2 DEF SpecLint
  <1>5. CASE OpenTheorem
    <2>1. pc' \in Pcs /\ attempt' \in 0..call.attempts /\ result' \in Results
      BY <1>5, NextAttemptType DEF OpenTheorem, Pcs
    <2>2. /\ lastError' \in 0..call.attempts /\ opened' \in Invariants \cup {None}
          /\ gen' \in Invariants \cup {None}
      BY <1>5 DEF OpenTheorem, Positioned, SetError
    <2>3. QED
      BY <1>5, <2>1, <2>2 DEF OpenTheorem
  <1>6. CASE GoldScript
    <2>1. pc' \in Pcs /\ result' \in Results
      BY <1>6, ReturnType DEF GoldScript, Pcs
    <2>2. QED
      BY <1>6, <2>1 DEF GoldScript
  <1>7. CASE Discharge
    <2>1. pc' \in Pcs /\ attempt' \in 0..call.attempts /\ result' \in Results
      BY <1>7, NextAttemptType DEF Discharge, Pcs
    <2>2. lastError' \in 0..call.attempts
      BY <1>7 DEF Discharge, SetError
    <2>3. escalated' \in BOOLEAN
      <3>1. ASSUME NEW calls, Escalated(calls) PROVE escalated' \in BOOLEAN
        BY <3>1, Zenon DEF Escalated
      <3>2. QED
        BY <1>7, <3>1 DEF Discharge
    <2>4. llmCalls' \in Nat /\ repairs' \in Nat
      BY <1>7 DEF Discharge, Carried
    <2>5. QED
      BY <1>7, <2>1, <2>2, <2>3, <2>4 DEF Discharge
  <1>8. CASE AskOracle
    <2>1. pc' \in Pcs /\ result' \in Results
      BY <1>8, ReturnType DEF AskOracle, Pcs
    <2>2. QED
      BY <1>8, <2>1 DEF AskOracle
  <1>9. CASE StoreSolved
    <2>1. PICK stored \in BOOLEAN :
            /\ result' = [status |-> "proved", inv |-> inv, residual |-> FALSE, stored |-> stored]
            /\ corpus' \in Kept(stored)
      BY <1>9 DEF StoreSolved
    <2>2. inv \in Invariants
      BY <1>9 DEF StoreSolved, Established
    <2>3. [status |-> "proved", inv |-> inv, residual |-> FALSE, stored |-> stored] \in Results
      BY <2>2, Zenon DEF Results
    <2>4. corpus' \subseteq Invariants
      BY <2>1, <2>2 DEF Kept
    <2>5. pc' \in Pcs
      BY <1>9 DEF StoreSolved, Pcs
    <2>6. QED
      BY <1>9, <2>1, <2>3, <2>4, <2>5 DEF StoreSolved
  <1>10. CASE UNCHANGED vars
    BY <1>10 DEF vars
  <1>11. QED
    BY <1>1, <1>2, <1>3, <1>4, <1>5, <1>6, <1>7, <1>8, <1>9, <1>10 DEF Next

-----------------------------------------------------------------------------
\* What the gates established stays established until the call returns.
LEMMA EstablishedStep ==
  ASSUME TypeOK, Established, [Next]_vars
  PROVE  Established'
  <1> USE OrchestratorConstants DEF ledger, Established
  <1>0. attempt \in Nat /\ call.attempts \in Nat \ {0}
    BY AttemptsPositive DEF TypeOK
  <1>1. CASE CheckPremises
    BY <1>1 DEF CheckPremises, Return
  <1>2. CASE UseGold
    BY <1>2 DEF UseGold, TypeOK, Call
  <1>3. CASE Synthesize
    BY <1>3 DEF Synthesize
  <1>4. CASE SpecLint
    BY <1>0, <1>4 DEF SpecLint, Passes, NextAttempt, Return
  <1>5. CASE OpenTheorem
    BY <1>0, <1>5 DEF OpenTheorem, Positioned, NextAttempt, Return
  <1>6. CASE GoldScript
    BY <1>6 DEF GoldScript, Return
  <1>7. CASE Discharge
    BY <1>0, <1>7 DEF Discharge, NextAttempt, Return
  <1>8. CASE AskOracle
    BY <1>8 DEF AskOracle, Return
  <1>9. CASE StoreSolved
    BY <1>9 DEF StoreSolved
  <1>10. CASE UNCHANGED vars
    BY <1>10 DEF vars
  <1>11. QED
    BY <1>1, <1>2, <1>3, <1>4, <1>5, <1>6, <1>7, <1>8, <1>9, <1>10 DEF Next

\* Only StoreSolved reports a proof.
LEMMA VerifiedStep ==
  ASSUME TypeOK, Established, Verified, [Next]_vars
  PROVE  Verified'
  <1> USE DEF Verified
  <1>1. CASE StoreSolved
    BY <1>1 DEF StoreSolved, Established
  <1>2. ASSUME NextAttempt PROVE result'.status # "proved" \/ (pc = "done" /\ result' = result)
                                 \/ result' = result
    BY <1>2 DEF NextAttempt, Return
  <1>3. CASE CheckPremises \/ UseGold \/ Synthesize \/ SpecLint \/ OpenTheorem
             \/ GoldScript \/ Discharge \/ AskOracle
    <2>1. pc # "done"
      BY <1>3 DEF CheckPremises, UseGold, Synthesize, SpecLint, OpenTheorem, GoldScript,
                  Discharge, AskOracle
    <2>2. result.status = "pending"
      BY <2>1 DEF Established, Pending
    <2>3. result'.status # "proved"
      BY <1>2, <1>3, <2>2 DEF CheckPremises, UseGold, Synthesize, SpecLint, OpenTheorem,
                              GoldScript, Discharge, AskOracle, Return
    <2>4. QED
      BY <2>3
  <1>4. CASE UNCHANGED vars
    BY <1>4 DEF vars
  <1>5. QED
    BY <1>1, <1>3, <1>4 DEF Next

\* The three together are inductive.
LEMMA Inductive == IInv /\ [Next]_vars => IInv'
  BY TypeStep, EstablishedStep, VerifiedStep DEF IInv

LEMMA Initially == Init => IInv
  <1> SUFFICES ASSUME Init PROVE IInv
    OBVIOUS
  <1> USE OrchestratorConstants DEF Init
  <1>1. result \in Results
    BY Zenon DEF Pending, Results
  <1>2. TypeOK
    <2>1. call \in Call
      OBVIOUS
    <2>2. escalated \in BOOLEAN
      BY Zenon
    <2>3. attempt \in 0..call.attempts /\ lastError \in 0..call.attempts
      BY <2>1, AttemptsPositive
    <2>4. QED
      BY <1>1, <2>1, <2>2, <2>3 DEF TypeOK, Pcs
  <1>3. Established /\ Verified
    BY DEF Established, Verified, Pending
  <1>4. QED
    BY <1>2, <1>3 DEF IInv

\* Every variable of a call of prove() stays within its range.
THEOREM TypeCorrect == Spec => []TypeOK
  <1>1. Spec => []IInv
    BY Initially, Inductive, PTL DEF Spec
  <1>2. QED
    BY <1>1, PTL DEF IInv

\* A reported proof is that of the theorem generated from the invariant it
\* names, past both anti-vacuity gates.
THEOREM VerifiedCorrect == Spec => []Verified
  <1>1. Spec => []IInv
    BY Initially, Inductive, PTL DEF Spec
  <1>2. QED
    BY <1>1, PTL DEF IInv

-----------------------------------------------------------------------------
\* The end of an attempt moves on to the next attempt's quota.
LEMMA NextAttemptQuota ==
  ASSUME TypeOK, attempt # 0, NextAttempt, llmCalls' <= attempt * K
  PROVE  Quota'
  <1>1. attempt \in Nat /\ llmCalls' <= attempt * K
    BY OrchestratorConstants DEF TypeOK
  <1>2. CASE pc' = "candidate" /\ attempt' = attempt + 1
    BY <1>1, <1>2, OneMoreAttempt DEF Quota, Spent
  <1>3. CASE pc' = "done" /\ attempt' = attempt
    BY <1>1, <1>3 DEF Quota, Spent
  <1>4. QED
    BY <1>2, <1>3 DEF NextAttempt, Return

\* No step spends more than the quota of its attempt.
LEMMA QuotaStep ==
  ASSUME TypeOK, Established, Quota, [Next]_vars
  PROVE  Quota'
  <1> DEFINE Before == (attempt - 1) * K
             All == attempt * K
  <1>1. attempt \in Nat /\ llmCalls \in Nat /\ K \in Nat \ {0} /\ K = 1 + MaxIterations
    BY OrchestratorConstants DEF TypeOK, K
  <1>2. All \in Nat /\ (attempt # 0 => All = Before + K /\ Before \in Nat)
    BY <1>1, OneMoreAttempt
  <1> HIDE DEF Before, All
  <1>3. Spent = CASE pc = "candidate" -> Before
                  [] pc \in {"lint", "open", "prove"} -> Before + 1
                  [] OTHER -> All
    BY DEF Spent, Before, All
  <1>4. ASSUME attempt' = attempt
        PROVE  Spent' = CASE pc' = "candidate" -> Before
                          [] pc' \in {"lint", "open", "prove"} -> Before + 1
                          [] OTHER -> All
    BY <1>4 DEF Spent, Before, All
  <1>5. ASSUME NEW n, n <= All, llmCalls' = n, attempt # 0, NextAttempt
        PROVE  Quota'
    BY <1>5, NextAttemptQuota DEF All
  <1>6. CASE CheckPremises
    <2>1. llmCalls' = llmCalls /\ llmCalls <= All
      BY <1>3, <1>6 DEF CheckPremises, ledger, Quota
    <2>2. CASE attempt' = attempt /\ pc' \in {"done", "raised"}
      BY <1>4, <2>1, <2>2 DEF Quota
    <2>3. CASE pc' = "candidate" /\ attempt' = 1
      <3>1. All = 0 * K /\ 0 * K = ((0 + 1) - 1) * K
        BY <1>6, OneMoreAttempt DEF CheckPremises, Established, All
      <3>2. QED
        BY <2>1, <2>3, <3>1 DEF Quota, Spent
    <2>4. QED
      BY <1>6, <2>2, <2>3 DEF CheckPremises, Return
  <1>7. CASE UseGold
    BY <1>1, <1>2, <1>3, <1>4, <1>7 DEF UseGold, Quota, Established
  <1>8. CASE Synthesize
    BY <1>1, <1>2, <1>3, <1>4, <1>8 DEF Synthesize, Quota, Established
  <1>9. CASE SpecLint
    <2>1. llmCalls' = llmCalls /\ llmCalls <= Before + 1 /\ attempt # 0
      BY <1>3, <1>9 DEF SpecLint, ledger, Quota, Established
    <2>2. llmCalls <= All
      BY <1>1, <1>2, <2>1
    <2>3. CASE NextAttempt
      BY <1>5, <2>1, <2>2, <2>3
    <2>4. CASE attempt' = attempt /\ pc' \in {"open", "done"}
      BY <1>1, <1>4, <2>1, <2>2, <2>4 DEF Quota
    <2>5. QED
      BY <1>9, <2>3, <2>4 DEF SpecLint, Return
  <1>10. CASE OpenTheorem
    <2>1. llmCalls' = llmCalls /\ llmCalls <= Before + 1 /\ attempt # 0
      BY <1>3, <1>10 DEF OpenTheorem, ledger, Quota, Established
    <2>2. llmCalls <= All
      BY <1>1, <1>2, <2>1
    <2>3. CASE NextAttempt
      BY <1>5, <2>1, <2>2, <2>3
    <2>4. CASE attempt' = attempt /\ pc' = "prove"
      BY <1>4, <2>1, <2>4 DEF Quota
    <2>5. CASE attempt' = attempt /\ pc' = "raised"
      BY <1>4, <2>1, <2>2, <2>5 DEF Quota
    <2>6. QED
      BY <1>10, <2>3, <2>4, <2>5 DEF OpenTheorem
  <1>11. CASE Discharge
    <2>1. llmCalls <= Before + 1 /\ attempt # 0
      BY <1>3, <1>11 DEF Discharge, Quota, Established
    <2>2. PICK calls \in 0..MaxIterations :
            \/ Carried(calls) /\ pc' \in {"oracle", "store"} /\ attempt' = attempt
            \/ Carried(calls) /\ NextAttempt
            \/ llmCalls' = llmCalls /\ pc' = "raised" /\ attempt' = attempt
      BY <1>11 DEF Discharge
    <2>3. calls \in Nat /\ calls <= MaxIterations /\ MaxIterations \in Nat
      BY OrchestratorConstants
    <2>4. llmCalls <= All /\ llmCalls + calls <= All
      BY <1>1, <1>2, <2>1, <2>3
    <2>5. CASE Carried(calls) /\ pc' \in {"oracle", "store"} /\ attempt' = attempt
      BY <1>4, <2>4, <2>5 DEF Carried, Quota
    <2>6. CASE Carried(calls) /\ NextAttempt
      BY <1>5, <2>1, <2>4, <2>6 DEF Carried
    <2>7. CASE llmCalls' = llmCalls /\ pc' = "raised" /\ attempt' = attempt
      BY <1>4, <2>4, <2>7 DEF Quota
    <2>8. QED
      BY <2>2, <2>5, <2>6, <2>7
  <1>12. CASE GoldScript \/ AskOracle \/ StoreSolved
    <2>1. llmCalls' = llmCalls /\ attempt' = attempt /\ attempt # 0
          /\ pc' \in {"store", "done", "raised"}
      BY <1>12 DEF GoldScript, AskOracle, StoreSolved, Return, ledger, Established
    <2>2. llmCalls <= All
      BY <1>1, <1>2, <1>3, <1>12, <2>1 DEF GoldScript, AskOracle, StoreSolved, Quota
    <2>3. QED
      BY <1>4, <2>1, <2>2 DEF Quota
  <1>13. CASE UNCHANGED vars
    BY <1>13 DEF vars, Quota, Spent
  <1>14. QED
    BY <1>6, <1>7, <1>8, <1>9, <1>10, <1>11, <1>12, <1>13 DEF Next

\* Nothing is spent at first.
LEMMA QuotaInitially == Init => Quota
  <1>1. 0 * K \in Nat
    BY OneMoreAttempt
  <1>2. Init => llmCalls = 0 /\ Spent = 0 * K
    BY DEF Init, Spent
  <1>3. QED
    BY <1>1, <1>2 DEF Quota

LEMMA QuotaInductive == IInv /\ Quota /\ [Next]_vars => Quota'
  BY QuotaStep DEF IInv

\* The quota of each attempt amounts to the budget.
LEMMA QuotaMeansBudget == IInv /\ Quota => LlmBudget
  <1> SUFFICES ASSUME IInv, Quota PROVE LlmBudget
    OBVIOUS
  <1>1. attempt \in Nat /\ llmCalls \in Nat /\ K \in Nat \ {0} /\ attempt * K \in Nat
    BY OrchestratorConstants, OneMoreAttempt DEF IInv, TypeOK, K
  <1>2. CASE pc \in {"candidate", "lint", "open", "prove"}
    <2>1. attempt # 0
      BY <1>2 DEF IInv, Established
    <2>2. attempt * K = (attempt - 1) * K + K /\ (attempt - 1) * K \in Nat
      BY <1>1, <2>1, OneMoreAttempt
    <2>3. QED
      <3> DEFINE b == (attempt - 1) * K
      <3>1. llmCalls <= b + 1 /\ attempt * K = b + K /\ b \in Nat
        <4>1. llmCalls <= b \/ llmCalls <= b + 1
          BY <1>2 DEF IInv, Quota, Spent
        <4>2. QED
          BY <1>1, <2>2, <4>1
      <3> HIDE DEF b
      <3>2. llmCalls <= attempt * K
        BY <1>1, <3>1
      <3>3. QED
        BY <3>2 DEF LlmBudget, K
  <1>3. CASE pc \notin {"candidate", "lint", "open", "prove"}
    BY <1>3 DEF Quota, Spent, LlmBudget, K
  <1>4. QED
    BY <1>2, <1>3

\* The model calls of a run of prove() stay within what its attempts may spend.
LEMMA LlmBudgetCorrect == Spec => []LlmBudget
  <1>1. Init => IInv /\ Quota
    BY Initially, QuotaInitially
  <1>2. IInv /\ Quota /\ [Next]_vars => (IInv /\ Quota)'
    BY Inductive, QuotaInductive
  <1>3. QED
    BY <1>1, <1>2, QuotaMeansBudget, PTL DEF Spec

-----------------------------------------------------------------------------
\* A call or a repair leaves the ledger balanced.
LEMMA LedgerStep ==
  ASSUME TypeOK, Established, Ledger, [Next]_vars
  PROVE  Ledger'
  <1> USE DEF Ledger
  <1>1. llmCalls \in Nat /\ synths \in Nat /\ repairs \in Nat
    BY DEF TypeOK
  <1>2. CASE Synthesize
    BY <1>1, <1>2 DEF Synthesize
  <1>3. CASE Discharge
    <2>1. PICK calls \in 0..MaxIterations :
            repairs' = repairs + calls /\ (Carried(calls) \/ pc' = "raised")
      BY <1>3 DEF Discharge
    <2>2. synths' = synths /\ pc # "raised" /\ calls \in Nat
      BY <1>3, OrchestratorConstants DEF Discharge
    <2>3. QED
      BY <1>1, <2>1, <2>2 DEF Carried
  <1>4. CASE CheckPremises \/ UseGold \/ SpecLint \/ OpenTheorem
             \/ GoldScript \/ AskOracle \/ StoreSolved
    BY <1>4 DEF CheckPremises, UseGold, SpecLint, OpenTheorem, GoldScript, AskOracle,
                StoreSolved, ledger
  <1>5. CASE UNCHANGED vars
    BY <1>5 DEF vars
  <1>6. QED
    BY <1>2, <1>3, <1>4, <1>5 DEF Next

\* The llm_calls of a returned ProofResult are the model calls that answered.
LEMMA LedgerBalancesCorrect == Spec => []LedgerBalances
  <1>1. Init => IInv /\ Ledger
    BY Initially DEF Init, Ledger
  <1>2. IInv /\ Ledger /\ [Next]_vars => (IInv /\ Ledger)'
    BY Inductive, LedgerStep DEF IInv
  <1>3. IInv /\ Ledger => LedgerBalances
    BY DEF Ledger, LedgerBalances
  <1>4. QED
    BY <1>1, <1>2, <1>3, PTL DEF Spec

\* Both: the reported count is right, and within what the attempts may spend.
THEOREM CallsAccountedCorrect == Spec => []CallsAccounted
  <1>1. LlmBudget /\ LedgerBalances => CallsAccounted
    BY DEF CallsAccounted
  <1>2. QED
    BY <1>1, LlmBudgetCorrect, LedgerBalancesCorrect, PTL

-----------------------------------------------------------------------------
(* The feedback of a retry.                                                *)

\* Nothing failed before the first attempt, the attempt before any other did last.
Fresh == (pc = "premises" => lastError = 0) /\ FeedbackFresh

\* The end of a failed attempt records it before the next one begins.
LEMMA NextAttemptFresh ==
  ASSUME TypeOK, NextAttempt, lastError' = attempt
  PROVE  Fresh'
  <1>1. attempt \in Nat
    BY AttemptsPositive DEF TypeOK
  <1>2. CASE attempt < call.attempts
    <2>1. pc' = "candidate" /\ attempt' = attempt + 1
      BY <1>2 DEF NextAttempt
    <2>2. QED
      BY <1>1, <2>1 DEF Fresh, FeedbackFresh
  <1>3. CASE ~(attempt < call.attempts)
    <2>1. pc' = "done"
      BY <1>3 DEF NextAttempt, Return
    <2>2. QED
      BY <2>1 DEF Fresh, FeedbackFresh
  <1>4. QED
    BY <1>2, <1>3

\* Every path back to the top of the loop keeps the feedback current.
LEMMA FreshStep ==
  ASSUME TypeOK, Fresh, [Next]_vars
  PROVE  Fresh'
  <1>1. CASE CheckPremises
    BY <1>1 DEF CheckPremises, Return, Fresh, FeedbackFresh
  <1>2. CASE UseGold \/ Synthesize \/ GoldScript \/ AskOracle \/ StoreSolved
    <2>1. pc' \notin {"premises", "candidate"}
      BY <1>2 DEF UseGold, Synthesize, GoldScript, AskOracle, StoreSolved, Return
    <2>2. QED
      BY <2>1 DEF Fresh, FeedbackFresh
  <1>3. CASE SpecLint
    <2>1. pc' \in {"open", "done"} \/ (lastError' = attempt /\ NextAttempt)
      BY <1>3 DEF SpecLint, Return
    <2>2. QED
      BY <2>1, NextAttemptFresh DEF Fresh, FeedbackFresh
  <1>4. CASE OpenTheorem
    <2>1. pc' \in {"prove", "raised"} \/ (lastError' = attempt /\ NextAttempt)
      BY <1>4 DEF OpenTheorem, SetError
    <2>2. QED
      BY <2>1, NextAttemptFresh DEF Fresh, FeedbackFresh
  <1>5. CASE Discharge
    <2>1. pc' \in {"oracle", "store", "raised"} \/ (lastError' = attempt /\ NextAttempt)
      BY <1>5 DEF Discharge, SetError
    <2>2. QED
      BY <2>1, NextAttemptFresh DEF Fresh, FeedbackFresh
  <1>6. CASE UNCHANGED vars
    BY <1>6 DEF vars, Fresh, FeedbackFresh
  <1>7. QED
    BY <1>1, <1>2, <1>3, <1>4, <1>5, <1>6 DEF Next

\* The feedback put in a retry's prompt is the failure of the attempt just
\* before it, on every path back to the top of the loop.
THEOREM FeedbackFreshCorrect == Spec => []FeedbackFresh
  <1>1. Init => Fresh
    BY DEF Init, Fresh, FeedbackFresh
  <1>2. TypeOK /\ Fresh /\ [Next]_vars => Fresh'
    BY FreshStep
  <1>3. Fresh => FeedbackFresh
    BY DEF Fresh
  <1>4. QED
    BY <1>1, <1>2, <1>3, TypeCorrect, PTL DEF Spec

-----------------------------------------------------------------------------
(* The safety half of Implements.                                          *)

\* Every step of prove() is a step of the abstract specification or a stutter.
LEMMA StepImplements ==
  ASSUME TypeOK, Established, [Next]_vars
  PROVE  [Abstract!Next]_(Abstract!vars)
  <1> USE DEF Abstract!vars, ledger
  <1>1. pc # "done" => result.status = "pending"
    BY DEF Established, Pending
  <1>2. CASE CheckPremises \/ UseGold \/ Synthesize \/ SpecLint
    <2>1. UNCHANGED <<opened, corpus>>
      BY <1>2 DEF CheckPremises, UseGold, Synthesize, SpecLint
    <2>2. pc \notin {"done", "raised"}
      BY <1>2 DEF CheckPremises, UseGold, Synthesize, SpecLint
    <2>3. pc' \in {"done", "raised"} => result'.status # "proved"
      BY <1>1, <1>2 DEF CheckPremises, UseGold, Synthesize, SpecLint, NextAttempt, Return
    <2>4. QED
      BY <2>1, <2>2, <2>3 DEF Abstract!Next, Abstract!Refuse
  <1>3. CASE OpenTheorem
    <2>1. UNCHANGED corpus /\ pc \notin {"done", "raised"}
      BY <1>3 DEF OpenTheorem
    <2>2. CASE opened' \in Invariants \cap (LintOk \cap Elaborates) /\ pc' = "prove"
      BY <2>1, <2>2 DEF Abstract!Next, Abstract!Open
    <2>3. CASE opened' = None /\ NextAttempt
      <3>1. pc' \in {"done", "raised"} => result'.status # "proved"
        BY <2>3 DEF NextAttempt, Return
      <3>2. QED
        BY <2>1, <2>3, <3>1 DEF Abstract!Next, Abstract!Close, Abstract!Refuse
    <2>4. CASE opened' = opened /\ pc' = "raised" /\ result' = result
      BY <1>1, <2>1, <2>4 DEF Abstract!Next, Abstract!Refuse
    <2>5. QED
      BY <1>3, <2>2, <2>3, <2>4 DEF OpenTheorem, Positioned, Established
  <1>4. CASE GoldScript \/ Discharge \/ AskOracle
    <2>1. UNCHANGED <<opened, corpus>>
      BY <1>4 DEF GoldScript, Discharge, AskOracle
    <2>2. pc \notin {"done", "raised"}
      BY <1>4 DEF GoldScript, Discharge, AskOracle
    <2>3. pc' \in {"done", "raised"} => result'.status # "proved"
      BY <1>1, <1>4 DEF GoldScript, Discharge, AskOracle, NextAttempt, Return
    <2>4. QED
      BY <2>1, <2>2, <2>3 DEF Abstract!Next, Abstract!Refuse
  <1>5. CASE StoreSolved
    BY <1>5 DEF StoreSolved, Kept, Established, Abstract!Next, Abstract!Accept
  <1>6. CASE UNCHANGED vars
    BY <1>6 DEF vars
  <1>7. QED
    BY <1>2, <1>3, <1>4, <1>5, <1>6 DEF Next

\* prove() is safe as generate-and-check is: only an admissible, open candidate
\* whose theorem holds is accepted, only it is kept, and a verdict is final.
THEOREM ImplementsSafety == Spec => Abstract!Init /\ [][Abstract!Next]_(Abstract!vars)
  <1>1. Init => Abstract!Init
    BY DEF Init, Abstract!Init
  <1>2. IInv /\ [Next]_vars => [Abstract!Next]_(Abstract!vars)
    BY StepImplements DEF IInv
  <1>3. QED
    BY <1>1, <1>2, Initially, Inductive, PTL DEF Spec
=============================================================================
