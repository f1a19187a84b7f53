------------------------- MODULE ProofSearchProofs -------------------------
(***************************************************************************)
(* Proofs about ProofSearch, for every engine, ladder, script library and  *)
(* budget.                                                                 *)
(***************************************************************************)
EXTENDS ProofSearch, WellFoundedInduction, TLAPS

\* Taking the top off the stack leaves a stack of nodes.
LEMMA PopType ==
  ASSUME NEW S, NEW s \in Seq(S), s # <<>>
  PROVE  Last(s) \in S /\ Rest(s) \in Seq(S)
  BY DEF Last, Rest, Front

\* Pushing the children in reverse leaves a stack of nodes.
LEMMA PushType ==
  ASSUME NEW S, NEW s \in Seq(S), NEW t \in Seq(S)
  PROVE  Pushed(s, t) \in Seq(S)
<1>1. Reverse(t) \in Seq(S)
  BY DEF Reverse
<1>2. QED BY <1>1 DEF Pushed

\* What the model proposes is a sequence of repair tactics.
LEMMA ProposalType ==
  ASSUME NEW past, NEW q \in Proposals(past)
  PROVE  q \in Seq(RepairTactics)
<1>1. PICK n \in 0..MaxProposals : q \in [1..n -> RepairTactics \ past]
  BY DEF Proposals, BoundedSeq, SeqOf
<1>2. n \in Nat
  BY SearchConstants
<1>3. QED BY <1>1, <1>2

-----------------------------------------------------------------------------
\* The members of the constant sets, one by one.
LEMMA Constants ==
  /\ MaxFaults \in Nat /\ MaxIterations \in Nat /\ MaxDepth \in Nat
  /\ MaxRuns \in Nat \ {0} /\ Burst \in Nat \ {0}
  /\ Root \in State /\ Finished \subseteq State
  /\ \A s \in State : Goals[s] \in Hash
  /\ \A n \in 1..Len(Ladder) : Ladder[n] \in Tactic
  /\ \A n \in 1..Len(Scripts) :
       /\ Scripts[n] \in Seq(Tactic) /\ Len(Scripts[n]) \in Nat /\ Len(Scripts[n]) <= Burst
       /\ \A m \in 1..Len(Scripts[n]) : Scripts[n][m] \in Tactic
BY SearchConstants, SMTT(30)

\* Returning a proof leaves a result with a path for a script.
LEMMA SucceedType ==
  ASSUME NEW p \in Seq(Tactic), Succeed(p)
  PROVE  pc' \in Pcs /\ pc' = "done" /\ result' \in [proved : BOOLEAN, script : Seq(Tactic)]
BY DEF Succeed, Pcs

\* One counted engine call stays within the types.
LEMMA RunType ==
  ASSUME TypeOK, NEW s \in State, NEW t \in Tactic,
         NEW out \in State \cup {Failed}, Run(s, t, out)
  PROVE  faults' \in 0..MaxFaults /\ runs' \in Nat /\ reached' \subseteq State
<1>1. /\ faults \in 0..MaxFaults /\ MaxFaults \in Nat
      /\ runs \in Nat /\ reached \subseteq State
  BY SearchConstants DEF TypeOK
<1>2. faults' = faults \/ (faults < MaxFaults /\ faults' = faults + 1)
  BY DEF Run, Fault
<1>3. runs' = runs + 1 /\ reached' = reached \cup ({out} \ {Failed})
  BY DEF Run
<1>4. faults' \in 0..MaxFaults
  BY <1>1, <1>2
<1>5. reached' \subseteq State
  BY <1>1, <1>3
<1>6. QED
  BY <1>1, <1>3, <1>4, <1>5

\* A path extended by a tactic or a script is a path, and the node of a child
\* is a node.
LEMMA ChildType ==
  ASSUME TypeOK, NEW s \in State, NEW p \in Seq(Tactic)
  PROVE  /\ node.path \in Seq(Tactic) /\ node.path \o p \in Seq(Tactic)
         /\ Child(s, p) \in Node
BY DEF TypeOK, Node, Child

LEMMA TypeInit ==
  ASSUME Init
  PROVE  TypeOK
<1>1. RootNode \in Node /\ NoResult \in [proved : BOOLEAN, script : Seq(Tactic)]
  BY Constants DEF RootNode, Node, NoResult
<1>2. failures \in [Hash -> SUBSET RepairTactics]
  BY DEF Init
<1>3. engine \in Engines /\ pc \in Pcs /\ (pc \in {"quick", "ladder"} => rung > 0)
  BY DEF Init, Pcs
<1>4. /\ frontier \in Seq(Node) /\ children \in Seq(Node) /\ queue \in Seq(RepairTactics)
      /\ deepest \in Seq(Tactic)
  BY DEF Init
<1>5. residual \in Hash /\ visited \subseteq Hash /\ popped \subseteq Hash /\ reached \subseteq State
  BY Constants DEF Init
<1>6. faults \in 0..MaxFaults /\ repairCalls \in 0..MaxIterations
  BY Constants DEF Init
<1>7. node \in Node /\ cur \in State /\ at \in State
  BY <1>1, Constants DEF Init
<1>8. rung \in Nat /\ sno \in Nat \ {0} /\ runs \in Nat
  BY DEF Init
<1>9. result \in [proved : BOOLEAN, script : Seq(Tactic)]
  BY <1>1 DEF Init
<1>10. escalated \in BOOLEAN
  BY DEF Init
<1>11. QED BY <1>2, <1>3, <1>4, <1>5, <1>6, <1>7, <1>8, <1>9, <1>10 DEF TypeOK

LEMMA TypeStep ==
  ASSUME TypeOK, [Next]_vars
  PROVE  TypeOK'
<1> USE DEF TypeOK, Pcs, players, history
<1>1. CASE LadderRung
  <2>1. Ladder[rung] \in Tactic
    BY <1>1, Constants DEF LadderRung
  <2>2. Append(node.path, Ladder[rung]) \in Seq(Tactic)
    BY <2>1 DEF Node
  <2>3. PICK out \in State \cup {Failed} : Run(cur, Ladder[rung], out)
    BY <1>1 DEF LadderRung
  <2>4. faults' \in 0..MaxFaults /\ runs' \in Nat /\ reached' \subseteq State
    BY <2>1, <2>3, RunType
  <2>5. /\ pc' \in Pcs /\ rung' \in Nat /\ (pc' \in {"quick", "ladder"} => rung' > 0)
        /\ result' \in [proved : BOOLEAN, script : Seq(Tactic)]
    <3>1. CASE Succeed(Append(node.path, Ladder[rung])) /\ UNCHANGED rung
      BY <2>2, <3>1, SucceedType
    <3>2. CASE rung' = rung + 1 /\ UNCHANGED <<pc, result>>
      BY <3>2
    <3>3. QED BY <1>1, <3>1, <3>2 DEF LadderRung
  <2>6. QED BY <1>1, <2>4, <2>5 DEF LadderRung
<1>2. CASE QuickMissed
  <2>1. RootNode \in Node /\ Goals[Root] \in Hash
    BY Constants DEF RootNode, Node
  <2>2. QED BY <1>2, <2>1 DEF QuickMissed
<1>3. CASE Pop
  <2>1. Last(frontier) \in Node /\ Rest(frontier) \in Seq(Node)
    BY <1>3, PopType DEF Pop
  <2>2. Last(frontier).state \in State /\ Last(frontier).path \in Seq(Tactic)
    BY <2>1 DEF Node
  <2>3. \A s \in State : Goals[s] \in Hash
    BY SearchConstants
  <2>4. ASSUME NEW s \in State, Examine(Last(frontier), s)
        PROVE  /\ pc' \in Pcs /\ rung' \in Nat /\ (pc' \in {"quick", "ladder"} => rung' > 0)
               /\ deepest' \in Seq(Tactic) /\ residual' \in Hash
               /\ result' \in [proved : BOOLEAN, script : Seq(Tactic)]
    <3>1. CASE s \in Finished
      BY <2>2, <2>4, <3>1, SucceedType, SearchConstants DEF Examine
    <3>2. CASE s \notin Finished
      BY <1>3, <2>2, <2>3, <2>4, <3>2 DEF Examine, Deepen, Pop
    <3>3. QED BY <3>1, <3>2
  <2>5. faults' \in 0..MaxFaults /\ cur' \in State /\ reached' \subseteq State
    <3>1. faults' \in 0..MaxFaults
      BY <1>3, Constants DEF Pop, Fault
    <3>2. cur' \in State /\ reached' \subseteq State
      BY <1>3, <2>2 DEF Pop
    <3>3. QED BY <3>1, <3>2
  <2>6. /\ pc' \in Pcs /\ rung' \in Nat /\ (pc' \in {"quick", "ladder"} => rung' > 0)
        /\ deepest' \in Seq(Tactic) /\ residual' \in Hash
        /\ result' \in [proved : BOOLEAN, script : Seq(Tactic)]
    BY <1>3, <2>2, <2>4 DEF Pop
  <2>7. node' \in Node /\ frontier' \in Seq(Node) /\ children' \in Seq(Node) /\ popped' \subseteq Hash
    BY <1>3, <2>1, <2>2, <2>3 DEF Pop
  <2>8. QED BY <1>3, <2>5, <2>6, <2>7 DEF Pop
<1>4. CASE GiveUp
  BY <1>4 DEF GiveUp
<1>5. CASE LadderMissed
  BY <1>5 DEF LadderMissed
<1>6. CASE ScriptStart
  BY <1>6, Constants DEF ScriptStart, Fault
<1>7. ASSUME NEW s \in State, KeepResidual(s), sno \in 1..Len(Scripts)
      PROVE  rung' \in Nat /\ sno' \in Nat \ {0} /\ children' \in Seq(Node) /\ visited' \subseteq Hash
  <2>1. Scripts[sno] \in Seq(Tactic)
    BY <1>7, Constants
  <2>2. Child(s, Scripts[sno]) \in Node
    BY <2>1, ChildType
  <2>3. Goals[s] \in Hash
    BY Constants
  <2>4. \/ UNCHANGED <<children, visited>>
        \/ /\ children' = Append(children, Child(s, Scripts[sno]))
           /\ visited' = visited \cup {Goals[s]}
    BY <1>7 DEF KeepResidual, Visit
  <2>5. children' \in Seq(Node)
    <3>1. Append(children, Child(s, Scripts[sno])) \in Seq(Node)
      BY <2>2
    <3>2. QED BY <2>4, <3>1
  <2>6. visited' \subseteq Hash
    BY <2>3, <2>4
  <2>7. QED BY <1>7, <2>5, <2>6 DEF KeepResidual, Visit
<1>8. CASE ScriptTactic
  <2>1. sno \in 1..Len(Scripts) /\ Scripts[sno] \in Seq(Tactic) /\ Scripts[sno][rung] \in Tactic
    BY <1>8, Constants DEF ScriptTactic
  <2>2. node.path \o Scripts[sno] \in Seq(Tactic)
    BY <2>1, ChildType
  <2>3. PICK out \in State \cup {Failed} : 
          /\ Run(at, Scripts[sno][rung], out)
          /\ \/ out = Failed /\ KeepResidual(at) /\ UNCHANGED <<pc, at, result>>
             \/ out \in Finished /\ Succeed(node.path \o Scripts[sno])
                /\ UNCHANGED <<rung, sno, at, children, visited>>
             \/ out \in State \ Finished /\ rung' = rung + 1 /\ at' = out
                /\ UNCHANGED <<pc, sno, children, visited, result>>
    BY <1>8 DEF ScriptTactic
  <2>4. faults' \in 0..MaxFaults /\ runs' \in Nat /\ reached' \subseteq State
    BY <2>1, <2>3, RunType
  <2>5. rung' \in Nat /\ sno' \in Nat \ {0} /\ children' \in Seq(Node) /\ visited' \subseteq Hash
    BY <1>7, <2>1, <2>3
  <2>6. pc' \in Pcs /\ at' \in State /\ result' \in [proved : BOOLEAN, script : Seq(Tactic)]
    BY <2>2, <2>3, SucceedType
  <2>7. QED BY <1>8, <2>4, <2>5, <2>6, SMTT(30) DEF ScriptTactic
<1>9. CASE ScriptEnd
  <2>1. rung' \in Nat /\ sno' \in Nat \ {0} /\ children' \in Seq(Node) /\ visited' \subseteq Hash
    BY <1>7, <1>9 DEF ScriptEnd
  <2>2. QED BY <1>9, <2>1 DEF ScriptEnd
<1>10. CASE ScriptsDone
  BY <1>10 DEF ScriptsDone
<1>11. CASE Propose
  <2>1. ASSUME queue' \in Proposals(failures[Goals[cur]])
        PROVE  queue' \in Seq(RepairTactics)
    BY <2>1, ProposalType
  <2>2. repairCalls' \in 0..MaxIterations
    BY <1>11, SearchConstants, SMTT(30) DEF Propose, MayRepair
  <2>3. faults' \in 0..MaxFaults
    BY <1>11, SearchConstants, SMTT(30) DEF Propose, Fault
  <2>4. escalated' \in BOOLEAN
    BY <1>11 DEF Propose
  <2>5. QED BY <1>11, <2>1, <2>2, <2>3, <2>4 DEF Propose
<1>12. CASE NoRepair
  BY <1>12, PushType DEF NoRepair
<1>13. CASE TryCandidate
  <2>1. Head(queue) \in RepairTactics /\ Tail(queue) \in Seq(RepairTactics)
    BY <1>13 DEF TryCandidate
  <2>2. Head(queue) \in Tactic /\ <<Head(queue)>> \in Seq(Tactic)
        /\ Append(node.path, Head(queue)) \in Seq(Tactic)
    BY <2>1, SearchConstants, SMTT(30) DEF Node
  <2>3. PICK out \in State \cup {Failed} : Run(cur, Head(queue), out)
    BY <1>13 DEF TryCandidate
  <2>4. faults' \in 0..MaxFaults /\ runs' \in Nat /\ reached' \subseteq State
    BY <2>2, <2>3, RunType
  <2>5. \A s \in State : Child(s, <<Head(queue)>>) \in Node /\ Goals[s] \in Hash
    BY <2>2, ChildType, Constants
  <2>6. failures' \in [Hash -> SUBSET RepairTactics]
    <3>1. failures' \in {failures, [failures EXCEPT ![Goals[cur]] = @ \cup {Head(queue)}]}
      BY <1>13 DEF TryCandidate
    <3>2. QED BY <2>1, <3>1, SMTT(30)
  <2>7. children' \in Seq(Node) /\ visited' \subseteq Hash
    <3>1. \/ UNCHANGED <<children, visited>>
          \/ \E s \in State : /\ children' = Append(children, Child(s, <<Head(queue)>>))
                              /\ visited' = visited \cup {Goals[s]}
      BY <1>13 DEF TryCandidate, Visit
    <3>2. \A s \in State : Append(children, Child(s, <<Head(queue)>>)) \in Seq(Node)
      BY <2>5
    <3>3. QED BY <2>5, <3>1, <3>2
  <2>8. pc' \in Pcs /\ result' \in [proved : BOOLEAN, script : Seq(Tactic)]
        /\ pc' \notin {"quick", "ladder"}
    <3>1. UNCHANGED <<pc, result>> \/ Succeed(Append(node.path, Head(queue)))
      BY <1>13 DEF TryCandidate
    <3>2. QED BY <1>13, <2>2, <3>1, SucceedType DEF TryCandidate
  <2>9. UNCHANGED <<engine, rung, sno, node, cur, at, frontier, repairCalls, escalated,
                    deepest, residual, popped>>
    BY <1>13, <2>1 DEF TryCandidate
  <2>10. /\ engine' \in Engines /\ rung' \in Nat /\ sno' \in Nat \ {0}
         /\ node' \in Node /\ cur' \in State /\ at' \in State /\ frontier' \in Seq(Node)
         /\ repairCalls' \in 0..MaxIterations /\ deepest' \in Seq(Tactic)
         /\ residual' \in Hash /\ popped' \subseteq Hash /\ queue' \in Seq(RepairTactics)
    BY <1>13, <2>1, <2>9 DEF TryCandidate
  <2>11. escalated' \in BOOLEAN
    BY <2>9
  <2>12. pc' \in {"quick", "ladder"} => rung' > 0
    BY <2>8
  <2>13. QED BY <2>4, <2>6, <2>7, <2>8, <2>10, <2>11, <2>12
<1>14. CASE TriedAll
  BY <1>14, PushType DEF TriedAll
<1>15. CASE UNCHANGED vars
  BY <1>15 DEF vars
<1>16. QED
  BY <1>1, <1>2, <1>3, <1>4, <1>5, <1>6, <1>8, <1>9, <1>10, <1>11, <1>12, <1>13,
     <1>14, <1>15 DEF Next

\* The search keeps every variable within its range.
THEOREM TypeCorrect == Spec => []TypeOK
<1>1. Init => TypeOK
  BY TypeInit, SearchConstants
<1>2. TypeOK /\ [Next]_vars => TypeOK'
  BY TypeStep, SearchConstants
<1>3. QED BY <1>1, <1>2, PTL DEF Spec
-----------------------------------------------------------------------------
(* The run budget.                                                         *)

\* Why the overshoot is bounded: a ladder or a script is begun under the
\* budget only, so while one is played the runs made before it are below
\* MaxRuns, and `rung - 1` more were made since.
RunsInv ==
  /\ pc = "quick" => runs = rung - 1
  /\ pc = "ladder" => runs <= MaxRuns - 1 + (rung - 1)
  /\ pc = "script" /\ rung > 0 => runs <= MaxRuns - 1 + (rung - 1)
  /\ runs <= MaxRuns - 1 + Burst

LEMMA RunsStep ==
  ASSUME TypeOK, RunsInv, [Next]_vars
  PROVE  RunsInv'
<1> USE DEF RunsInv
<1>0. /\ MaxRuns \in Nat /\ MaxRuns > 0 /\ Burst \in Nat /\ Burst > 0
      /\ runs \in Nat /\ rung \in Nat /\ (pc \in {"quick", "ladder"} => rung > 0)
  BY Constants DEF TypeOK
<1>1. CASE LadderRung
  <2>1. rung <= Burst /\ runs' = runs + 1
    BY <1>0, <1>1, SearchConstants DEF LadderRung, Run
  <2>2. (rung' = rung + 1 /\ pc' = pc) \/ pc' = "done"
    BY <1>0, <1>1 DEF LadderRung, Succeed
  <2>3. QED BY <1>0, <1>1, <2>1, <2>2 DEF LadderRung
<1>2. CASE QuickMissed
  BY <1>0, <1>2 DEF QuickMissed
<1>3. CASE Pop
  <2>1. runs' = runs /\ runs < MaxRuns
    BY <1>0, <1>3 DEF Pop, Over
  <2>2. pc' \in {"pop", "done"} \/ (pc' = "ladder" /\ rung' = 1)
    BY <1>0, <1>3 DEF Pop, Examine, Succeed
  <2>3. runs' <= MaxRuns - 1
    BY <1>0, <2>1
  <2>4. CASE pc' \in {"pop", "done"}
    BY <1>0, <2>1, <2>3, <2>4
  <2>5. CASE pc' = "ladder" /\ rung' = 1
    BY <1>0, <2>1, <2>3, <2>5
  <2>6. QED BY <1>0, <2>2, <2>4, <2>5
<1>4. CASE LadderMissed
  BY <1>0, <1>4 DEF LadderMissed
<1>5. CASE ScriptStart
  BY <1>0, <1>5 DEF ScriptStart, Over
<1>6. CASE ScriptTactic
  <2>1. rung <= Burst /\ runs' = runs + 1
    <3>1. sno \in 1..Len(Scripts) /\ rung \in 1..Len(Scripts[sno])
      BY <1>6 DEF ScriptTactic, TypeOK
    <3>2. runs' = runs + 1
      BY <1>6 DEF ScriptTactic, Run
    <3>3. QED BY <1>0, <3>1, <3>2, Constants, SMTT(30)
  <2>2. pc' = "done" \/ (pc' = "script" /\ rung' \in {0, rung + 1})
    BY <1>0, <1>6 DEF ScriptTactic, Succeed, KeepResidual
  <2>3. QED BY <1>0, <1>6, <2>1, <2>2 DEF ScriptTactic
<1>7. CASE ScriptEnd
  BY <1>0, <1>7 DEF ScriptEnd, KeepResidual
<1>8. CASE TryCandidate
  <2>1. runs' = runs + 1 /\ runs < MaxRuns
    BY <1>0, <1>8 DEF TryCandidate, Run, Over
  <2>2. QED BY <1>0, <1>8, <2>1 DEF TryCandidate, Succeed
<1>9. CASE GiveUp \/ ScriptsDone \/ Propose \/ NoRepair \/ TriedAll
  BY <1>0, <1>9 DEF GiveUp, ScriptsDone, Propose, NoRepair, TriedAll
<1>10. CASE UNCHANGED vars
  BY <1>0, <1>10 DEF vars
<1>11. QED
  BY <1>0, <1>1, <1>2, <1>3, <1>4, <1>5, <1>6, <1>7, <1>8, <1>9, <1>10 DEF Next

\* Whatever is proposed and however the search unfolds, the counted engine runs
\* overshoot search_max_runs by less than one ladder or one script.
THEOREM RunsBoundedCorrect == Spec => []RunsBounded
<1>1. Init => RunsInv
  BY Constants DEF Init, RunsInv
<1>2. TypeOK /\ RunsInv /\ [Next]_vars => RunsInv'
  BY RunsStep
<1>3. RunsInv => RunsBounded
  BY DEF RunsInv, RunsBounded
<1>4. QED BY <1>1, <1>2, <1>3, TypeCorrect, PTL DEF Spec

-----------------------------------------------------------------------------
(* Soundness.                                                              *)

\* Every state the search holds was returned by the engine.
HeldReached ==
  /\ {Root, cur, at} \subseteq reached
  /\ \A n \in DOMAIN frontier : frontier[n].state \in reached
  /\ \A n \in DOMAIN children : children[n].state \in reached

SoundInv == HeldReached /\ Sound

LEMMA SoundStep ==
  ASSUME TypeOK, SoundInv, [Next]_vars
  PROVE  SoundInv'
<1> USE DEF SoundInv, HeldReached, Sound, history, players
<1>1. reached \subseteq reached'
  BY DEF Next, vars, LadderRung, QuickMissed, Pop, GiveUp, LadderMissed, ScriptStart,
     ScriptTactic, ScriptEnd, ScriptsDone, Propose, NoRepair, TryCandidate, TriedAll, Run
<1>2. ASSUME NEW s \in reached, KeepResidual(s), TypeOK
      PROVE  \A n \in DOMAIN children' : children'[n].state \in reached'
  <2>1. Child(s, Scripts[sno]).state = s
    BY DEF Child
  <2>2. children' = children \/ children' = Append(children, Child(s, Scripts[sno]))
    BY <1>2 DEF KeepResidual, Visit
  <2>3. children \in Seq(Node)
    BY DEF TypeOK
  <2>4. QED BY <1>1, <1>2, <2>1, <2>2, <2>3
<1>3. ASSUME frontier' = Pushed(frontier, children), UNCHANGED <<children, reached>>
      PROVE  \A n \in DOMAIN frontier' : frontier'[n].state \in reached'
  BY <1>3, SMTT(30) DEF Pushed, Reverse, TypeOK
<1>4. CASE LadderRung
  BY <1>1, <1>4, SearchConstants DEF LadderRung, Succeed, Run, LadderCloses
<1>5. CASE Pop
  <2>1. Last(frontier).state \in reached
    BY <1>5 DEF Pop, Last, TypeOK
  <2>2. \A n \in DOMAIN frontier' : frontier'[n].state \in reached
    BY <1>5 DEF Pop, Rest, Front, TypeOK
  <2>3. cur' \in reached' /\ UNCHANGED at /\ children' = <<>>
    BY <1>1, <1>5, <2>1 DEF Pop
  <2>4. result'.proved => result.proved \/ cur' \in Finished
    BY <1>5 DEF Pop, Examine, Succeed
  <2>5. QED BY <1>1, <2>2, <2>3, <2>4
<1>6. CASE ScriptTactic
  <2>1. PICK out \in State \cup {Failed} : 
          /\ Run(at, Scripts[sno][rung], out)
          /\ \/ out = Failed /\ KeepResidual(at) /\ UNCHANGED <<pc, at, result>>
             \/ out \in Finished /\ Succeed(node.path \o Scripts[sno])
                /\ UNCHANGED <<rung, sno, at, children, visited>>
             \/ out \in State \ Finished /\ rung' = rung + 1 /\ at' = out
                /\ UNCHANGED <<pc, sno, children, visited, result>>
    BY <1>6 DEF ScriptTactic
  <2>2. out # Failed => out \in reached'
    BY <2>1 DEF Run
  <2>3. UNCHANGED <<cur, frontier>>
    BY <1>6 DEF ScriptTactic
  <2>4. at' \in reached' /\ (result'.proved => reached' \cap Finished # {})
    BY <1>1, <2>1, <2>2, SearchConstants DEF Succeed
  <2>5. \A n \in DOMAIN children' : children'[n].state \in reached'
    BY <1>1, <1>2, <2>1
  <2>6. QED BY <1>1, <2>3, <2>4, <2>5
<1>7. CASE ScriptEnd
  BY <1>2, <1>7 DEF ScriptEnd
<1>8. CASE TryCandidate
  <2>1. PICK out \in State \cup {Failed} :
          /\ Run(cur, Head(queue), out)
          /\ \/ UNCHANGED <<children, result>>
             \/ out \in Finished /\ Succeed(Append(node.path, Head(queue)))
                /\ UNCHANGED children
             \/ out \in State /\ children' = Append(children, Child(out, <<Head(queue)>>))
                /\ UNCHANGED result
    BY <1>8 DEF TryCandidate
  <2>2. out # Failed => out \in reached'
    BY <2>1 DEF Run
  <2>3. \A n \in DOMAIN children' : children'[n].state \in reached'
    <3>1. Child(out, <<Head(queue)>>).state = out
      BY DEF Child
    <3>2. \/ children' = children
          \/ out \in State /\ children' = Append(children, Child(out, <<Head(queue)>>))
      BY <2>1
    <3>3. children \in Seq(Node)
      BY DEF TypeOK
    <3>4. CASE children' = children
      BY <1>1, <3>4
    <3>5. CASE out \in State /\ children' = Append(children, Child(out, <<Head(queue)>>))
      <4>1. out \in reached'
        BY <2>2, <3>5, SearchConstants
      <4>2. QED BY <1>1, <3>1, <3>3, <3>5, <4>1
    <3>6. QED BY <3>2, <3>4, <3>5
  <2>4. result'.proved => reached' \cap Finished # {}
    BY <1>1, <2>1, <2>2, SearchConstants DEF Succeed
  <2>5. QED BY <1>1, <1>8, <2>3, <2>4 DEF TryCandidate
<1>9. CASE NoRepair \/ TriedAll
  BY <1>3, <1>9 DEF NoRepair, TriedAll
<1>10. CASE QuickMissed
  BY <1>10 DEF QuickMissed, RootNode
<1>11. CASE GiveUp \/ LadderMissed \/ ScriptStart \/ ScriptsDone \/ Propose
  BY <1>11 DEF GiveUp, LadderMissed, ScriptStart, ScriptsDone, Propose
<1>12. CASE UNCHANGED vars
  BY <1>12 DEF vars
<1>13. QED
  BY <1>4, <1>5, <1>6, <1>7, <1>8, <1>9, <1>10, <1>11, <1>12 DEF Next

\* A proof is only ever claimed after the engine itself returned a finished
\* state.
THEOREM SoundCorrect == Spec => []Sound
<1>1. Init => SoundInv
  BY DEF Init, SoundInv, HeldReached, Sound, NoResult
<1>2. TypeOK /\ SoundInv /\ [Next]_vars => SoundInv'
  BY SoundStep
<1>3. SoundInv => Sound
  BY DEF SoundInv
<1>4. QED BY <1>1, <1>2, <1>3, TypeCorrect, PTL DEF Spec

-----------------------------------------------------------------------------
(* What the stack holds.                                                   *)

GoalsOf(s) == {Goals[s[n].state] : n \in DOMAIN s}
Distinct(s) == \A m, n \in DOMAIN s : m # n => Goals[s[m].state] # Goals[s[n].state]

\* The top node's goals are no longer on a stack it was alone on with them.
LEMMA PopGoals ==
  ASSUME NEW s \in Seq(Node), s # <<>>
  PROVE  /\ GoalsOf(s) = GoalsOf(Rest(s)) \cup {Goals[Last(s).state]}
         /\ Distinct(s) => Distinct(Rest(s)) /\ Goals[Last(s).state] \notin GoalsOf(Rest(s))
<1>1. /\ Len(s) \in Nat \ {0} /\ DOMAIN s = 1..Len(s) /\ DOMAIN Rest(s) = 1..(Len(s) - 1)
      /\ \A n \in 1..(Len(s) - 1) : Rest(s)[n] = s[n]
      /\ Last(s) = s[Len(s)]
  BY DEF Rest, Front, Last
<1>2. GoalsOf(Rest(s)) = {Goals[s[n].state] : n \in 1..(Len(s) - 1)}
  BY <1>1 DEF GoalsOf
<1>3. 1..Len(s) = (1..(Len(s) - 1)) \cup {Len(s)} /\ Len(s) \notin 1..(Len(s) - 1)
  BY <1>1
<1>4. GoalsOf(s) = GoalsOf(Rest(s)) \cup {Goals[Last(s).state]}
  BY <1>1, <1>2, <1>3 DEF GoalsOf
<1>5. ASSUME Distinct(s)
      PROVE  Distinct(Rest(s)) /\ Goals[Last(s).state] \notin GoalsOf(Rest(s))
  <2>1. Distinct(Rest(s))
    BY <1>1, <1>3, <1>5 DEF Distinct
  <2>2. Goals[Last(s).state] \notin GoalsOf(Rest(s))
    BY <1>1, <1>2, <1>3, <1>5, SMTT(30) DEF Distinct
  <2>3. QED BY <2>1, <2>2
<1>6. QED BY <1>4, <1>5

\* Pushing children whose goals are new keeps the goals on the stack distinct.
LEMMA PushGoals ==
  ASSUME NEW s \in Seq(Node), NEW t \in Seq(Node)
  PROVE  /\ GoalsOf(Pushed(s, t)) = GoalsOf(s) \cup GoalsOf(t)
         /\ Distinct(s) /\ Distinct(t) /\ GoalsOf(s) \cap GoalsOf(t) = {} => Distinct(Pushed(s, t))
<1> DEFINE u == Pushed(s, t)
           k == Len(s)
           l == Len(t)
<1>1. /\ k \in Nat /\ l \in Nat /\ DOMAIN s = 1..k /\ DOMAIN t = 1..l /\ DOMAIN u = 1..(k + l)
      /\ \A n \in 1..k : u[n] = s[n]
      /\ \A n \in (k + 1)..(k + l) : u[n] = t[l - (n - k) + 1]
  BY DEF Pushed, Reverse
<1>2. \A n \in (k + 1)..(k + l) : l - (n - k) + 1 \in 1..l
  BY <1>1
<1>3. \A n \in 1..l : k + l - n + 1 \in (k + 1)..(k + l) /\ l - ((k + l - n + 1) - k) + 1 = n
  BY <1>1
<1>4. 1..(k + l) = (1..k) \cup ((k + 1)..(k + l))
  BY <1>1
<1> HIDE DEF u, k, l
<1>5. GoalsOf(u) = GoalsOf(s) \cup GoalsOf(t)
  <2>1. ASSUME NEW n \in 1..(k + l) PROVE Goals[u[n].state] \in GoalsOf(s) \cup GoalsOf(t)
    <3>1. CASE n \in 1..k
      BY <1>1, <3>1 DEF GoalsOf
    <3>2. CASE n \in (k + 1)..(k + l)
      <4>1. u[n] = t[l - (n - k) + 1] /\ l - (n - k) + 1 \in DOMAIN t
        BY <1>1, <1>2, <3>2
      <4>2. QED BY <4>1 DEF GoalsOf
    <3>3. QED BY <1>4, <3>1, <3>2
  <2>2. GoalsOf(s) \subseteq GoalsOf(u)
    BY <1>1, <1>4 DEF GoalsOf
  <2>3. ASSUME NEW n \in 1..l PROVE Goals[t[n].state] \in GoalsOf(u)
    <3>1. u[k + l - n + 1] = t[n] /\ k + l - n + 1 \in DOMAIN u
      BY <1>1, <1>3, <1>4
    <3>2. QED BY <3>1 DEF GoalsOf
  <2>4. GoalsOf(u) = {Goals[u[n].state] : n \in 1..(k + l)}
    BY <1>1 DEF GoalsOf
  <2>5. GoalsOf(t) = {Goals[t[n].state] : n \in 1..l}
    BY <1>1 DEF GoalsOf
  <2>6. GoalsOf(u) \subseteq GoalsOf(s) \cup GoalsOf(t)
    BY <2>1, <2>4
  <2>7. GoalsOf(t) \subseteq GoalsOf(u)
    BY <2>3, <2>5
  <2>8. QED BY <2>2, <2>6, <2>7
<1>6. ASSUME Distinct(s), Distinct(t), GoalsOf(s) \cap GoalsOf(t) = {}
      PROVE  Distinct(u)
  <2> SUFFICES ASSUME NEW m \in 1..(k + l), NEW n \in 1..(k + l), m # n
               PROVE  Goals[u[m].state] # Goals[u[n].state]
    BY <1>1 DEF Distinct
  <2>1. CASE m \in 1..k /\ n \in 1..k
    BY <1>1, <1>6, <2>1 DEF Distinct
  <2>2. CASE m \in (k + 1)..(k + l) /\ n \in (k + 1)..(k + l)
    <3> DEFINE a == l - (m - k) + 1
               b == l - (n - k) + 1
    <3>1. a # b
      BY <1>1, <2>2
    <3>2. a \in DOMAIN t /\ b \in DOMAIN t /\ u[m] = t[a] /\ u[n] = t[b]
      BY <1>1, <1>2, <2>2
    <3> HIDE DEF a, b
    <3>3. QED BY <1>6, <3>1, <3>2 DEF Distinct
  <2>3. ASSUME NEW a \in 1..k, NEW b \in (k + 1)..(k + l)
        PROVE  Goals[u[a].state] # Goals[u[b].state]
    <3>1. Goals[u[a].state] \in GoalsOf(s)
      BY <1>1 DEF GoalsOf
    <3>2. Goals[u[b].state] \in GoalsOf(t)
      BY <1>1, <1>2 DEF GoalsOf
    <3>3. QED BY <1>6, <3>1, <3>2
  <2>4. QED BY <1>4, <2>1, <2>2, <2>3
<1>7. QED BY <1>5, <1>6 DEF u

\* One more child with new goals.
LEMMA AppendGoals ==
  ASSUME NEW s \in Seq(Node), NEW n \in Node
  PROVE  /\ GoalsOf(Append(s, n)) = GoalsOf(s) \cup {Goals[n.state]}
         /\ Distinct(s) /\ Goals[n.state] \notin GoalsOf(s) => Distinct(Append(s, n))
<1>1. /\ Len(s) \in Nat /\ DOMAIN s = 1..Len(s) /\ DOMAIN Append(s, n) = 1..(Len(s) + 1)
      /\ \A m \in 1..Len(s) : Append(s, n)[m] = s[m]
      /\ Append(s, n)[Len(s) + 1] = n
  OBVIOUS
<1>2. 1..(Len(s) + 1) = (1..Len(s)) \cup {Len(s) + 1} /\ Len(s) + 1 \notin 1..Len(s)
  BY <1>1
<1>3. GoalsOf(Append(s, n)) = GoalsOf(s) \cup {Goals[n.state]}
  BY <1>1, <1>2 DEF GoalsOf
<1>4. ASSUME Distinct(s), Goals[n.state] \notin GoalsOf(s)
      PROVE  Distinct(Append(s, n))
  BY <1>1, <1>2, <1>4 DEF GoalsOf, Distinct
<1>5. QED BY <1>3, <1>4

-----------------------------------------------------------------------------
(* Every goal stack is examined at most once, and at least once.           *)

\* The nodes the search has still to take: the stack and, while a node is being
\* expanded, its children.
Expanding == pc \in {"script", "propose", "try"}
Waiting == GoalsOf(frontier) \cup (IF Expanding THEN GoalsOf(children) ELSE {})

\* What `visited` is for: a goal stack in it was taken off the stack or waits,
\* once; nothing else was taken or waits.
OnceInv ==
  /\ Distinct(frontier) /\ GoalsOf(frontier) \cap popped = {}
  /\ GoalsOf(frontier) \cup popped \subseteq visited
  /\ Expanding => /\ Distinct(children) /\ GoalsOf(children) \subseteq visited
                  /\ GoalsOf(children) \cap (popped \cup GoalsOf(frontier)) = {}
  /\ pc = "ladder" => children = <<>>
  /\ pc = "quick" => popped = {} /\ frontier = <<>>
  /\ pc \notin {"done", "raised"} => visited \subseteq popped \cup Waiting
  /\ ExhaustiveWhenBudgetLeft

\* An empty list has no goals.
LEMMA NoGoalsYet == GoalsOf(<<>>) = {} /\ Distinct(<<>>)
  BY DEF GoalsOf, Distinct

\* A new child waits from now on, an old goal adds none.
LEMMA ChildOnce ==
  ASSUME TypeOK, OnceInv, Expanding, Expanding', NEW s \in State, NEW n \in Node,
         n.state = s, UNCHANGED <<frontier, popped>>,
         \/ /\ Goals[s] \notin visited
            /\ children' = Append(children, n) /\ visited' = visited \cup {Goals[s]}
         \/ UNCHANGED <<children, visited>>
  PROVE  OnceInv'
<1> USE DEF Expanding
<1>1. GoalsOf(frontier) \cup popped \cup GoalsOf(children) \subseteq visited
  BY DEF OnceInv
<1>2. frontier' = frontier /\ popped' = popped
  OBVIOUS
<1>3. visited \subseteq popped \cup GoalsOf(frontier) \cup GoalsOf(children)
  BY DEF OnceInv, Waiting
<1>4. /\ Distinct(children') /\ GoalsOf(children') \subseteq visited'
      /\ GoalsOf(children') \cap (popped \cup GoalsOf(frontier)) = {}
      /\ visited \subseteq visited'
      /\ visited' \subseteq popped \cup GoalsOf(frontier) \cup GoalsOf(children')
  <2>1. CASE UNCHANGED <<children, visited>>
    BY <1>3, <2>1 DEF OnceInv
  <2>2. CASE /\ Goals[s] \notin visited
             /\ children' = Append(children, n) /\ visited' = visited \cup {Goals[s]}
    <3>1. children \in Seq(Node) /\ Distinct(children)
      BY DEF TypeOK, OnceInv
    <3>2. Goals[n.state] \notin GoalsOf(children)
      BY <1>1, <2>2
    <3>3. GoalsOf(children') = GoalsOf(children) \cup {Goals[s]} /\ Distinct(children')
      BY <2>2, <3>1, <3>2, AppendGoals
    <3>4. GoalsOf(children) \cap (popped \cup GoalsOf(frontier)) = {}
      BY DEF OnceInv
    <3>5. QED BY <1>1, <1>3, <2>2, <3>3, <3>4
  <2>3. QED BY <2>1, <2>2
<1>5. pc' \notin {"ladder", "quick", "done"}
  OBVIOUS
<1>6. Waiting' = GoalsOf(frontier) \cup GoalsOf(children')
  BY <1>2 DEF Waiting
<1>7. QED
  BY <1>2, <1>4, <1>5, <1>6 DEF OnceInv, ExhaustiveWhenBudgetLeft

\* A claimed proof ends the search.
LEMMA SucceedEnds ==
  ASSUME NEW p, Succeed(p)
  PROVE  pc' = "done" /\ result'.proved
  BY DEF Succeed

\* A step that neither takes a node nor adds one.
LEMMA NoneMoved ==
  ASSUME OnceInv, UNCHANGED <<frontier, children, visited, popped>>,
         \/ pc' = "raised"
         \/ pc' = "done" /\ result'.proved
         \/ Expanding /\ Expanding'
         \/ pc' = pc /\ pc # "done"
  PROVE  OnceInv'
<1>1. CASE pc' \in {"raised", "done"}
  BY <1>1 DEF OnceInv, Expanding, ExhaustiveWhenBudgetLeft
<1>2. CASE Expanding /\ Expanding'
  <2>1. pc \notin {"done", "raised"} /\ pc' \notin {"ladder", "quick", "done"}
    BY <1>2 DEF Expanding
  <2>2. Waiting' = Waiting
    BY <1>2 DEF Waiting
  <2>3. QED BY <1>2, <2>1, <2>2 DEF OnceInv, ExhaustiveWhenBudgetLeft
<1>3. CASE pc' = pc /\ pc # "done"
  <2>1. Expanding' = Expanding /\ Waiting' = Waiting
    BY <1>3 DEF Expanding, Waiting
  <2>2. QED BY <1>3, <2>1 DEF OnceInv, ExhaustiveWhenBudgetLeft
<1>4. QED BY <1>1, <1>2, <1>3

\* The children become part of the stack.
LEMMA PushedOnce ==
  ASSUME TypeOK, OnceInv, Expanding, pc' = "pop", frontier' = Pushed(frontier, children),
         UNCHANGED <<visited, popped>>
  PROVE  OnceInv'
<1>1. frontier \in Seq(Node) /\ children \in Seq(Node)
  BY DEF TypeOK
<1>2. /\ Distinct(frontier) /\ Distinct(children)
      /\ GoalsOf(frontier) \cap popped = {} /\ GoalsOf(children) \cap popped = {}
      /\ GoalsOf(frontier) \cap GoalsOf(children) = {}
      /\ GoalsOf(frontier) \cup GoalsOf(children) \cup popped \subseteq visited
      /\ visited \subseteq popped \cup GoalsOf(frontier) \cup GoalsOf(children)
  BY DEF OnceInv, Expanding, Waiting
<1>3. GoalsOf(frontier') = GoalsOf(frontier) \cup GoalsOf(children) /\ Distinct(frontier')
  BY <1>1, <1>2, PushGoals
<1>4. ~Expanding' /\ pc' \notin {"ladder", "quick", "done"}
  BY DEF Expanding
<1>5. Waiting' = GoalsOf(frontier')
  BY <1>4 DEF Waiting
<1>6. QED
  BY <1>2, <1>3, <1>4, <1>5 DEF OnceInv, ExhaustiveWhenBudgetLeft

\* The top of the stack is taken: it is examined now, and never again.
LEMMA PoppedOnce ==
  ASSUME TypeOK, OnceInv, Pop
  PROVE  OnceInv'
<1>1. frontier \in Seq(Node) /\ frontier # <<>> /\ pc = "pop"
  BY DEF TypeOK, Pop
<1> DEFINE g == Goals[Last(frontier).state]
<1>2. /\ GoalsOf(frontier) = GoalsOf(Rest(frontier)) \cup {g}
      /\ Distinct(Rest(frontier)) /\ g \notin GoalsOf(Rest(frontier))
  BY <1>1, PopGoals DEF OnceInv
<1>3. /\ frontier' = Rest(frontier) /\ popped' = popped \cup {g}
      /\ children' = <<>> /\ visited' = visited
  BY DEF Pop
<1>4. pc' \in {"pop", "ladder"} \/ (pc' = "done" /\ result'.proved)
  <2>1. ASSUME NEW s, Examine(Last(frontier), s)
        PROVE  pc' \in {"pop", "ladder"} \/ (pc' = "done" /\ result'.proved)
    BY <1>1, <2>1, SucceedEnds DEF Examine
  <2>2. pc' = pc \/ \E s \in State \cup {Last(frontier).state} : Examine(Last(frontier), s)
    BY DEF Pop
  <2>3. QED BY <1>1, <2>1, <2>2
<1>5. GoalsOf(frontier) \cap popped = {} /\ GoalsOf(frontier) \cup popped \subseteq visited
  BY DEF OnceInv
<1>6. visited \subseteq popped \cup GoalsOf(frontier)
  BY <1>1 DEF OnceInv, Waiting, Expanding
<1>7. ~Expanding' /\ pc' # "quick"
  BY <1>4 DEF Expanding
<1>8. Waiting' = GoalsOf(frontier')
  BY <1>7 DEF Waiting
<1> HIDE DEF g
<1>9. GoalsOf(frontier') \cap popped' = {} /\ GoalsOf(frontier') \cup popped' \subseteq visited'
      /\ visited' \subseteq popped' \cup GoalsOf(frontier')
  BY <1>2, <1>3, <1>5, <1>6
<1>10. ExhaustiveWhenBudgetLeft'
  BY <1>4 DEF ExhaustiveWhenBudgetLeft
<1>11. QED
  BY <1>2, <1>3, <1>7, <1>8, <1>9, <1>10 DEF OnceInv

LEMMA OnceStep ==
  ASSUME TypeOK, OnceInv, [Next]_vars
  PROVE  OnceInv'
<1> USE DEF history, players
<1>1. CASE LadderRung
  <2>1. pc' = pc \/ (pc' = "done" /\ result'.proved)
    BY <1>1 DEF LadderRung, Succeed
  <2>2. UNCHANGED <<frontier, children, visited, popped>> /\ pc # "done"
    BY <1>1 DEF LadderRung
  <2>3. QED BY <2>1, <2>2, NoneMoved
<1>2. CASE QuickMissed
  <2>1. /\ pc = "quick" /\ pc' = "pop" /\ frontier' = <<RootNode>> /\ popped' = {}
        /\ visited' = {Goals[Root]}
    BY <1>2 DEF QuickMissed, OnceInv
  <2>2. GoalsOf(frontier') = {Goals[Root]} /\ Distinct(frontier')
    BY <2>1 DEF GoalsOf, Distinct, RootNode
  <2>3. ~Expanding' /\ Waiting' = GoalsOf(frontier')
    BY <2>1 DEF Expanding, Waiting
  <2>4. QED BY <2>1, <2>2, <2>3 DEF OnceInv, ExhaustiveWhenBudgetLeft
<1>3. CASE Pop
  BY <1>3, PoppedOnce
<1>4. CASE GiveUp
  <2>1. /\ pc = "pop" /\ (frontier = <<>> \/ Over) /\ pc' = "done"
        /\ UNCHANGED <<frontier, children, visited, popped, runs>>
    BY <1>4 DEF GiveUp
  <2>2. visited \subseteq popped \cup GoalsOf(frontier)
    BY <2>1 DEF OnceInv, Waiting, Expanding
  <2>3. frontier = <<>> => visited \subseteq popped
    BY <2>2, NoGoalsYet
  <2>4. Over' = Over
    BY <2>1 DEF Over
  <2>5. ExhaustiveWhenBudgetLeft'
    BY <2>1, <2>3, <2>4 DEF ExhaustiveWhenBudgetLeft
  <2>6. QED BY <2>1, <2>5 DEF OnceInv, Expanding
<1>5. CASE LadderMissed
  <2>1. /\ pc = "ladder" /\ pc' \in {"pop", "script", "propose"}
        /\ UNCHANGED <<frontier, children, visited, popped>>
    BY <1>5 DEF LadderMissed
  <2>2. children' = <<>>
    BY <2>1 DEF OnceInv
  <2>3. GoalsOf(children') = {} /\ Distinct(children')
    BY <2>2, NoGoalsYet
  <2>4. Waiting' = GoalsOf(frontier) /\ Waiting = GoalsOf(frontier)
    BY <2>1, <2>3 DEF Waiting, Expanding
  <2>5. QED BY <2>1, <2>3, <2>4 DEF OnceInv, ExhaustiveWhenBudgetLeft
<1>6. CASE ScriptStart \/ ScriptsDone \/ Propose
  <2>1. /\ UNCHANGED <<frontier, children, visited, popped>> /\ Expanding
        /\ pc' \in {"script", "propose", "try", "raised"}
    BY <1>6 DEF ScriptStart, ScriptsDone, Propose, Expanding
  <2>2. QED BY <2>1, NoneMoved DEF Expanding
<1>7. ASSUME NEW s \in State, KeepResidual(s), pc = "script", pc' = pc,
             sno \in 1..Len(Scripts), UNCHANGED <<frontier, popped>>
      PROVE  OnceInv'
  <2>1. Scripts[sno] \in Seq(Tactic)
    BY <1>7, Constants
  <2>2. Child(s, Scripts[sno]) \in Node /\ Child(s, Scripts[sno]).state = s
    BY <2>1, ChildType DEF Child
  <2>3. \/ /\ Goals[s] \notin visited
           /\ children' = Append(children, Child(s, Scripts[sno]))
           /\ visited' = visited \cup {Goals[s]}
        \/ UNCHANGED <<children, visited>>
    BY <1>7 DEF KeepResidual, Visit
  <2>4. Expanding /\ Expanding'
    BY <1>7 DEF Expanding
  <2>5. QED BY <1>7, <2>2, <2>3, <2>4, ChildOnce
<1>8. CASE ScriptTactic
  <2>1. /\ pc = "script" /\ sno \in 1..Len(Scripts) /\ UNCHANGED <<frontier, popped>>
        /\ at \in State
    BY <1>8 DEF ScriptTactic, TypeOK
  <2>2. \/ KeepResidual(at) /\ pc' = pc
        \/ UNCHANGED <<children, visited>> /\ Succeed(node.path \o Scripts[sno])
        \/ UNCHANGED <<children, visited>> /\ pc' = pc
    BY <1>8 DEF ScriptTactic
  <2>3. CASE UNCHANGED <<children, visited>> /\ Succeed(node.path \o Scripts[sno])
    BY <2>1, <2>3, SucceedEnds, NoneMoved
  <2>4. CASE UNCHANGED <<children, visited>> /\ pc' = pc
    BY <2>1, <2>4, NoneMoved
  <2>5. QED BY <1>7, <2>1, <2>2, <2>3, <2>4
<1>9. CASE ScriptEnd
  <2>1. at \in State /\ sno \in 1..Len(Scripts)
    BY <1>9 DEF ScriptEnd, TypeOK
  <2>2. QED BY <1>7, <1>9, <2>1 DEF ScriptEnd
<1>10. CASE NoRepair \/ TriedAll
  <2>1. /\ Expanding /\ pc' = "pop" /\ frontier' = Pushed(frontier, children)
        /\ UNCHANGED <<visited, popped>>
    BY <1>10 DEF NoRepair, TriedAll, Expanding
  <2>2. QED BY <2>1, PushedOnce
<1>11. CASE TryCandidate
  <2>1. Head(queue) \in Tactic /\ <<Head(queue)>> \in Seq(Tactic)
    BY <1>11, SearchConstants, SMTT(30) DEF TryCandidate, TypeOK
  <2>2. pc = "try" /\ Expanding /\ UNCHANGED <<frontier, popped>>
    BY <1>11 DEF TryCandidate, Expanding
  <2>3. \/ UNCHANGED <<children, visited>> /\ pc' = pc
        \/ UNCHANGED <<children, visited>> /\ pc' = "done" /\ result'.proved
        \/ \E s \in State :
             /\ Goals[s] \notin visited
             /\ children' = Append(children, Child(s, <<Head(queue)>>))
             /\ visited' = visited \cup {Goals[s]}
             /\ pc' = pc
    BY <1>11 DEF TryCandidate, Succeed, Visit
  <2>4. ASSUME NEW s \in State, Goals[s] \notin visited,
               children' = Append(children, Child(s, <<Head(queue)>>)),
               visited' = visited \cup {Goals[s]}, pc' = pc
        PROVE  OnceInv'
    <3>1. Child(s, <<Head(queue)>>) \in Node /\ Child(s, <<Head(queue)>>).state = s
      BY <2>1, ChildType DEF Child
    <3>2. QED BY <2>2, <2>4, <3>1, ChildOnce DEF Expanding
  <2>5. QED BY <2>2, <2>3, <2>4, NoneMoved
<1>12. CASE UNCHANGED vars
  <2>1. Expanding' = Expanding /\ Waiting' = Waiting /\ Over' = Over
    BY <1>12 DEF vars, Expanding, Waiting, Over
  <2>2. QED BY <1>12, <2>1 DEF vars, OnceInv, ExhaustiveWhenBudgetLeft
<1>13. QED
  BY <1>1, <1>2, <1>3, <1>4, <1>5, <1>6, <1>8, <1>9, <1>10, <1>11, <1>12 DEF Next

LEMMA OnceCorrect == Spec => []OnceInv
<1>1. Init => OnceInv
  <2>1. ASSUME Init PROVE OnceInv
    BY <2>1, NoGoalsYet DEF Init, OnceInv, Expanding, ExhaustiveWhenBudgetLeft
  <2>2. QED BY <2>1
<1>2. TypeOK /\ OnceInv /\ [Next]_vars => OnceInv'
  BY OnceStep
<1>3. QED BY <1>1, <1>2, TypeCorrect, PTL DEF Spec

\* The pruning by goal hash works: no goal stack is on the stack twice, and none
\* comes back after it was taken, so that the search cannot go in a circle.
THEOREM GoalsExploredOnceCorrect == Spec => []GoalsExploredOnce
<1>1. OnceInv => GoalsExploredOnce
  BY DEF OnceInv, Distinct, GoalsOf, GoalsExploredOnce
<1>2. QED BY <1>1, OnceCorrect, PTL

\* And it never costs a goal: a search that gives up with budget left has taken
\* every goal stack that a script or a candidate ever led to.
THEOREM ExhaustiveCorrect == Spec => []ExhaustiveWhenBudgetLeft
<1>1. OnceInv => ExhaustiveWhenBudgetLeft
  BY DEF OnceInv
<1>2. QED BY <1>1, OnceCorrect, PTL

-----------------------------------------------------------------------------
(* Recursive functions on 0..k.                                            *)

\* A set of numbers that holds 0 and the successor of each of its members.
LEMMA Induction ==
  ASSUME NEW S \in SUBSET Nat, 0 \in S, \A n \in S : n + 1 \in S
  PROVE  S = Nat
<1>1. SUFFICES ASSUME NEW z \in Nat \ S PROVE FALSE
  OBVIOUS
<1>2. PICK m \in Nat \ S : \A k \in Nat \ S : <<k, m>> \notin OpToRel(<, Nat)
  BY NatLessThanWellFounded, WFMin
<1>3. \A k \in Nat \ S : ~(k < m)
  BY <1>2 DEF OpToRel
<1>4. m - 1 \in Nat /\ m - 1 < m
  OBVIOUS
<1>5. m - 1 \in S
  BY <1>3, <1>4
<1>6. (m - 1) + 1 \in S
  BY <1>5
<1>7. QED BY <1>4, <1>6

\* f is built from base by one step after another.
IsRecursion(f, base, k, step) == f[0] = base /\ \A n \in 1..k : f[n] = step[n][f[n - 1]]
\* There is such a function for every k steps.
LEMMA Recursion ==
  ASSUME NEW A, NEW base \in A, NEW k \in Nat, NEW step \in [1..k -> [A -> A]]
  PROVE  \E f \in [0..k -> A] : IsRecursion(f, base, k, step)
<1> DEFINE Good(m, f) == f[0] = base /\ \A n \in 1..k : n <= m => f[n] = step[n][f[n - 1]]
           S == {m \in Nat : \E f \in [0..k -> A] : Good(m, f)}
<1>1. 0 \in S
  <2>1. Good(0, [n \in 0..k |-> base])
    OBVIOUS
  <2>2. QED BY <2>1
<1>2. ASSUME NEW m \in S PROVE m + 1 \in S
  <2>1. PICK f \in [0..k -> A] : Good(m, f)
    OBVIOUS
  <2> DEFINE g == [n \in 0..k |-> IF n = m + 1 THEN step[n][f[n - 1]] ELSE f[n]]
  <2>2. m \in Nat
    OBVIOUS
  <2>3. g \in [0..k -> A]
    <3> SUFFICES ASSUME NEW n \in 0..k PROVE g[n] \in A
      OBVIOUS
    <3>1. CASE n = m + 1
      <4>1. n - 1 \in 0..k /\ n \in 1..k
        BY <2>2, <3>1
      <4>2. f[n - 1] \in A /\ step[n] \in [A -> A]
        BY <4>1
      <4>3. QED BY <3>1, <4>2
    <3>2. QED BY <3>1
  <2>4. Good(m + 1, g)
    <3>1. g[0] = base
      BY <2>1, <2>2
    <3>2. ASSUME NEW n \in 1..k, n <= m + 1 PROVE g[n] = step[n][g[n - 1]]
      <4>1. g[n - 1] = f[n - 1]
        BY <2>2, <3>2
      <4>2. CASE n = m + 1
        BY <4>1, <4>2
      <4>3. CASE n # m + 1
        BY <2>1, <2>2, <3>2, <4>1, <4>3
      <4>4. QED BY <4>2, <4>3
    <3>3. QED BY <3>1, <3>2
  <2>5. m + 1 \in Nat
    BY <2>2
  <2> HIDE DEF g, Good
  <2>6. QED BY <2>3, <2>4, <2>5
<1>3. k \in S
  <2> HIDE DEF S
  <2>1. S \in SUBSET Nat
    BY DEF S
  <2>2. QED BY <1>1, <1>2, <2>1, Induction
<1>4. QED BY <1>3 DEF IsRecursion

\* And no other: two functions that agree at 0 and from each place to the next.
Ranges(f, k) == f = [n \in 0..k |-> f[n]]
InStep(f, g, k) == f[0] = g[0] /\ \A n \in 1..k : f[n - 1] = g[n - 1] => f[n] = g[n]
LEMMA Unique ==
  ASSUME NEW k \in Nat, NEW f, NEW g, Ranges(f, k), Ranges(g, k), InStep(f, g, k)
  PROVE  f = g
<1> USE DEF Ranges, InStep
<1> DEFINE S == {m \in Nat : m <= k => f[m] = g[m]}
<1>1. 0 \in S
  OBVIOUS
<1>2. ASSUME NEW m \in S PROVE m + 1 \in S
  <2>1. m \in Nat /\ (m + 1 <= k => f[m] = g[m])
    OBVIOUS
  <2>2. ASSUME m + 1 <= k PROVE f[m + 1] = g[m + 1]
    <3>1. m + 1 \in 1..k /\ (m + 1) - 1 = m
      BY <2>1, <2>2
    <3>2. QED BY <2>1, <2>2, <3>1
  <2>3. QED BY <2>1, <2>2
<1>3. S = Nat
  <2> HIDE DEF S
  <2>1. S \in SUBSET Nat
    BY DEF S
  <2>2. QED BY <1>1, <1>2, <2>1, Induction
<1>4. \A m \in 0..k : f[m] = g[m]
  BY <1>3, SMTT(30)
<1>5. QED BY <1>4

-----------------------------------------------------------------------------
(* What a path leads to, of any engine e.                                  *)

Behaviours == [State \X Tactic -> State \cup {Failed}]
Onward(e, S, t) == S \cup ({e[<<s, t>>] : s \in S} \ {Failed})
Traces(e, path) ==
  LET after[n \in 0..Len(path)] ==
        IF n = 0 THEN {Root}
        ELSE after[n - 1] \cup ({e[<<s, path[n]>>] : s \in after[n - 1]} \ {Failed})
  IN after
Leads(e, path, s) == s \in Traces(e, path)[Len(path)]

LEMMA ExplainsIsLeads ==
  ASSUME NEW p, NEW s
  PROVE  Explains(p, s) <=> Leads(engine, p, s)
BY Zenon DEF Explains, Leads, Subpaths, Traces

\* The recursion of Traces unfolded.
LEMMA TracesUnfold ==
  ASSUME NEW e \in Behaviours, NEW path \in Seq(Tactic)
  PROVE  /\ Traces(e, path) \in [0..Len(path) -> SUBSET State]
         /\ Traces(e, path)[0] = {Root}
         /\ \A n \in 1..Len(path) : Traces(e, path)[n] = Onward(e, Traces(e, path)[n - 1], path[n])
<1> DEFINE k == Len(path)   B == SUBSET State   base == {Root}
           step == [n \in 1..k |-> [T \in B |-> Onward(e, T, path[n])]]
           R(g) == g = [n \in 0..Len(path) |-> IF n = 0 THEN base ELSE Onward(e, g[n - 1], path[n])]
<1>0. k \in Nat /\ base \in B
  BY SearchConstants
<1>1. ASSUME NEW n \in 1..k, NEW T \in B PROVE Onward(e, T, path[n]) \in B
  <2>1. \A s \in T : e[<<s, path[n]>>] \in State \cup {Failed}
    <3>1. path[n] \in Tactic
      OBVIOUS
    <3>2. QED BY <3>1 DEF Behaviours
  <2>2. QED BY <2>1 DEF Onward
<1>2. step \in [1..k -> [B -> B]]
  <2> HIDE DEF B, k
  <2>1. QED BY <1>1
<1>3. PICK f \in [0..k -> B] : f[0] = base /\ \A n \in 1..k : f[n] = step[n][f[n - 1]]
  <2> HIDE DEF step, k, B, base
  <2>1. \E f \in [0..k -> B] : IsRecursion(f, base, k, step)
    BY <1>0, <1>2, Recursion
  <2>2. QED BY <2>1 DEF IsRecursion
<1>4. ASSUME NEW n \in 1..k PROVE f[n] = Onward(e, f[n - 1], path[n])
  <2>1. n - 1 \in 0..k
    BY <1>0
  <2>2. f[n - 1] \in B
    BY <2>1
  <2> HIDE DEF B, k
  <2>3. QED BY <1>3, <2>2
<1>5. R(f)
  <2> HIDE DEF B, base
  <2>1. \A n \in 0..k : f[n] = IF n = 0 THEN base ELSE Onward(e, f[n - 1], path[n])
    BY <1>0, <1>3, <1>4
  <2>2. f = [n \in 0..k |-> f[n]]
    OBVIOUS
  <2>3. QED BY <2>1, <2>2
<1>6. ASSUME NEW g, R(g) PROVE g = f
  <2> HIDE DEF B
  <2>1. g = [n \in 0..k |-> g[n]] /\ f = [n \in 0..k |-> f[n]] /\ g[0] = f[0]
    BY <1>0, <1>3, <1>6
  <2>2. \A n \in 1..k : g[n - 1] = f[n - 1] => g[n] = f[n]
    <3> HIDE DEF base
    <3>1. \A n \in 1..k : g[n] = Onward(e, g[n - 1], path[n])
      BY <1>0, <1>6
    <3>2. QED BY <3>1, <1>4
  <2>3. Ranges(g, k) /\ Ranges(f, k) /\ InStep(g, f, k)
    BY <2>1, <2>2 DEF Ranges, InStep
  <2> HIDE DEF k, R, base
  <2>4. QED BY <1>0, <2>3, Unique
<1>7. Traces(e, path) = CHOOSE g : R(g)
  BY Zenon DEF Traces, Onward
<1>8. (CHOOSE g : R(g)) = f
  <2> HIDE DEF R
  <2>1. QED BY <1>5, <1>6
<1>9. Traces(e, path) = f
  BY <1>7, <1>8
<1>10. QED BY <1>3, <1>4, <1>9

\* What comes after a place of a path does not matter before it.
LEMMA TracesAgree ==
  ASSUME NEW e \in Behaviours, NEW p \in Seq(Tactic), NEW q \in Seq(Tactic), NEW k \in Nat,
         k <= Len(p), k <= Len(q), \A n \in 1..k : p[n] = q[n]
  PROVE  Traces(e, p)[k] = Traces(e, q)[k]
<1> DEFINE S == {m \in Nat : m <= k => Traces(e, p)[m] = Traces(e, q)[m]}
<1>1. 0 \in S
  BY TracesUnfold
<1>2. ASSUME NEW m \in S PROVE m + 1 \in S
  <2>1. m \in Nat /\ (m + 1 <= k => Traces(e, p)[m] = Traces(e, q)[m])
    OBVIOUS
  <2>2. ASSUME m + 1 <= k PROVE Traces(e, p)[m + 1] = Traces(e, q)[m + 1]
    <3>1. m + 1 \in 1..Len(p) /\ m + 1 \in 1..Len(q) /\ (m + 1) - 1 = m /\ p[m + 1] = q[m + 1]
      BY <2>1, <2>2
    <3>2. /\ Traces(e, p)[m + 1] = Onward(e, Traces(e, p)[m], p[m + 1])
          /\ Traces(e, q)[m + 1] = Onward(e, Traces(e, q)[m], q[m + 1])
      BY <3>1, TracesUnfold
    <3>3. QED BY <2>1, <2>2, <3>1, <3>2
  <2>3. QED BY <2>1, <2>2
<1>3. S = Nat
  <2> HIDE DEF S
  <2>1. S \in SUBSET Nat
    BY DEF S
  <2>2. QED BY <1>1, <1>2, <2>1, Induction
<1>4. QED BY <1>3

\* What a part of a path leads to, the whole leads to.
LEMMA TracesGrow ==
  ASSUME NEW e \in Behaviours, NEW p \in Seq(Tactic), NEW i \in 0..Len(p)
  PROVE  Traces(e, p)[i] \subseteq Traces(e, p)[Len(p)]
<1> DEFINE S == {m \in Nat : i + m <= Len(p) => Traces(e, p)[i] \subseteq Traces(e, p)[i + m]}
<1>1. 0 \in S
  OBVIOUS
<1>2. ASSUME NEW m \in S PROVE m + 1 \in S
  <2>1. m \in Nat /\ (i + (m + 1) <= Len(p) => Traces(e, p)[i] \subseteq Traces(e, p)[i + m])
    OBVIOUS
  <2>2. ASSUME i + (m + 1) <= Len(p) PROVE Traces(e, p)[i] \subseteq Traces(e, p)[i + (m + 1)]
    <3>1. i + (m + 1) \in 1..Len(p) /\ (i + (m + 1)) - 1 = i + m
      BY <2>1, <2>2
    <3>2. Traces(e, p)[i + (m + 1)] = Onward(e, Traces(e, p)[i + m], p[i + (m + 1)])
      BY <3>1, TracesUnfold
    <3>3. QED BY <2>1, <2>2, <3>2 DEF Onward
  <2>3. QED BY <2>1, <2>2
<1>3. S = Nat
  <2> HIDE DEF S
  <2>1. S \in SUBSET Nat
    BY DEF S
  <2>2. QED BY <1>1, <1>2, <2>1, Induction
<1>4. Len(p) - i \in Nat /\ i + (Len(p) - i) = Len(p)
  OBVIOUS
<1>5. Len(p) - i \in S
  BY <1>3, <1>4
<1>6. QED BY <1>4, <1>5

\* One tactic leads on.
LEMMA Further ==
  ASSUME NEW e \in Behaviours, NEW p \in Seq(Tactic), NEW i \in 1..Len(p),
         NEW s \in Traces(e, p)[i - 1], e[<<s, p[i]>>] \in State
  PROVE  e[<<s, p[i]>>] \in Traces(e, p)[i]
<1>1. Failed \notin State
  BY SearchConstants
<1>2. Traces(e, p)[i] = Onward(e, Traces(e, p)[i - 1], p[i])
  BY TracesUnfold
<1>3. QED BY <1>1, <1>2 DEF Onward

\* A path continued still leads where it led.
LEMMA Longer ==
  ASSUME NEW e \in Behaviours, NEW p \in Seq(Tactic), NEW q \in Seq(Tactic), NEW s, Leads(e, p, s)
  PROVE  /\ p \o q \in Seq(Tactic) /\ Len(p \o q) = Len(p) + Len(q)
         /\ s \in Traces(e, p \o q)[Len(p)]
         /\ Leads(e, p \o q, s)
<1> DEFINE r == p \o q
<1>1. /\ r \in Seq(Tactic) /\ Len(r) = Len(p) + Len(q) /\ Len(p) \in Nat /\ Len(q) \in Nat
      /\ \A n \in 1..Len(p) : r[n] = p[n]
  OBVIOUS
<1> HIDE DEF r
<1>2. Len(p) <= Len(r) /\ Len(p) \in 0..Len(r)
  BY <1>1
<1>3. Traces(e, p)[Len(p)] = Traces(e, r)[Len(p)]
  BY <1>1, <1>2, TracesAgree
<1>4. s \in Traces(e, r)[Len(p)]
  BY <1>3 DEF Leads
<1>5. s \in Traces(e, r)[Len(r)]
  BY <1>1, <1>2, <1>4, TracesGrow
<1>6. QED BY <1>1, <1>4, <1>5 DEF Leads, r

\* And one tactic more leads where it leads from there.
LEMMA OneMore ==
  ASSUME NEW e \in Behaviours, NEW p \in Seq(Tactic), NEW t \in Tactic, NEW s, Leads(e, p, s),
         e[<<s, t>>] \in State
  PROVE  Leads(e, Append(p, t), e[<<s, t>>]) /\ Leads(e, p \o <<t>>, e[<<s, t>>])
<1> DEFINE q == <<t>>   r == p \o q
<1>1. q \in Seq(Tactic) /\ Len(q) = 1 /\ r[Len(p) + 1] = t /\ Append(p, t) = r
  OBVIOUS
<1> HIDE DEF q
<1>2. r \in Seq(Tactic) /\ Len(r) = Len(p) + Len(q) /\ s \in Traces(e, r)[Len(p)]
  BY <1>1, Longer
<1> HIDE DEF r
<1>3. Len(p) \in Nat /\ Len(r) \in 1..Len(r) /\ Len(r) - 1 = Len(p) /\ r[Len(r)] = t
  BY <1>1, <1>2
<1>4. e[<<s, t>>] \in Traces(e, r)[Len(r)]
  BY <1>2, <1>3, Further
<1>5. QED BY <1>1, <1>4 DEF Leads, q, r

\* A replay that does not fail ends in a state the path explains.
LEMMA ReplayLeads ==
  ASSUME engine \in Behaviours, NEW path \in Seq(Tactic), Replayed(path) \in State
  PROVE  Leads(engine, path, Replayed(path))
<1> DEFINE k == Len(path)   B == State \cup {Failed}   base == Root
           On(s, t) == IF s = Failed THEN Failed ELSE engine[<<s, t>>]
           step == [n \in 1..k |-> [s \in B |-> On(s, path[n])]]
           R(g) == g = [n \in 0..Len(path) |-> IF n = 0 THEN base ELSE On(g[n - 1], path[n])]
<1>0. k \in Nat /\ base \in B
  BY SearchConstants
<1>1. ASSUME NEW n \in 1..k, NEW s \in B PROVE On(s, path[n]) \in B
  <2>1. path[n] \in Tactic
    OBVIOUS
  <2>2. QED BY <2>1 DEF Behaviours
<1>2. step \in [1..k -> [B -> B]]
  <2> HIDE DEF B, k, On
  <2>1. QED BY <1>1
<1>3. PICK f \in [0..k -> B] : f[0] = base /\ \A n \in 1..k : f[n] = step[n][f[n - 1]]
  <2> HIDE DEF step, k, B, base
  <2>1. \E f \in [0..k -> B] : IsRecursion(f, base, k, step)
    BY <1>0, <1>2, Recursion
  <2>2. QED BY <2>1 DEF IsRecursion
<1>4. ASSUME NEW n \in 1..k PROVE f[n] = On(f[n - 1], path[n])
  <2>1. n - 1 \in 0..k
    BY <1>0
  <2>2. f[n - 1] \in B
    BY <2>1
  <2> HIDE DEF B, k, On
  <2>3. QED BY <1>3, <2>2
<1>5. R(f)
  <2> HIDE DEF B, base, On
  <2>1. \A n \in 0..k : f[n] = IF n = 0 THEN base ELSE On(f[n - 1], path[n])
    BY <1>0, <1>3, <1>4
  <2>2. f = [n \in 0..k |-> f[n]]
    OBVIOUS
  <2>3. QED BY <2>1, <2>2
<1>6. ASSUME NEW g, R(g) PROVE g = f
  <2> HIDE DEF B, On
  <2>1. g = [n \in 0..k |-> g[n]] /\ f = [n \in 0..k |-> f[n]] /\ g[0] = f[0]
    BY <1>0, <1>3, <1>6
  <2>2. \A n \in 1..k : g[n - 1] = f[n - 1] => g[n] = f[n]
    <3> HIDE DEF base
    <3>1. \A n \in 1..k : g[n] = On(g[n - 1], path[n])
      BY <1>0, <1>6
    <3>2. QED BY <3>1, <1>4
  <2>3. Ranges(g, k) /\ Ranges(f, k) /\ InStep(g, f, k)
    BY <2>1, <2>2 DEF Ranges, InStep
  <2> HIDE DEF k, R, base
  <2>4. QED BY <1>0, <2>3, Unique
<1>7. Replayed(path) = (CHOOSE g : R(g))[Len(path)]
  BY Zenon DEF Replayed
<1>8. (CHOOSE g : R(g)) = f
  <2> HIDE DEF R
  <2>1. QED BY <1>5, <1>6
<1>9. Replayed(path) = f[k]
  BY <1>7, <1>8
<1> DEFINE S == {m \in Nat : m <= k /\ f[m] # Failed => f[m] \in Traces(engine, path)[m]}
<1>10. 0 \in S
  BY <1>3, TracesUnfold
<1>11. ASSUME NEW m \in S PROVE m + 1 \in S
  <2>1. m \in Nat /\ (m <= k /\ f[m] # Failed => f[m] \in Traces(engine, path)[m])
    OBVIOUS
  <2>2. ASSUME m + 1 <= k, f[m + 1] # Failed PROVE f[m + 1] \in Traces(engine, path)[m + 1]
    <3>1. m + 1 \in 1..k /\ (m + 1) - 1 = m /\ m \in 0..k
      BY <1>0, <2>1, <2>2
    <3>2. f[m + 1] = On(f[m], path[m + 1])
      BY <1>4, <3>1
    <3>3. f[m] # Failed /\ f[m + 1] = engine[<<f[m], path[m + 1]>>]
      BY <2>2, <3>2
    <3>4. f[m] \in Traces(engine, path)[m] /\ f[m + 1] \in B
      BY <2>1, <2>2, <3>1, <3>3
    <3>5. engine[<<f[m], path[m + 1]>>] \in State
      BY <2>2, <3>3, <3>4
    <3>6. engine[<<f[m], path[m + 1]>>] \in Traces(engine, path)[m + 1]
      BY <3>1, <3>4, <3>5, Further
    <3>7. QED BY <3>3, <3>6
  <2>3. QED BY <2>1, <2>2
<1>12. S = Nat
  <2> HIDE DEF S
  <2>1. S \in SUBSET Nat
    BY DEF S
  <2>2. QED BY <1>10, <1>11, <2>1, Induction
<1>13. k \in S /\ Failed \notin State
  BY <1>0, <1>12, SearchConstants
<1>14. QED BY <1>0, <1>9, <1>13 DEF Leads

-----------------------------------------------------------------------------
(* Every path the search holds explains the state it is held with.         *)

Held(nodes) == \A n \in DOMAIN nodes : Leads(engine, nodes[n].path, nodes[n].state)

\* Where a script stands: how much of the current one explains `at`.
Played ==
  pc = "script" /\ rung # 0 =>
    /\ sno \in 1..Len(Scripts) /\ rung \in 1..(Len(Scripts[sno]) + 1)
    /\ at \in Traces(engine, node.path \o Scripts[sno])[Len(node.path) + rung - 1]

PathsInv ==
  /\ Held(frontier) /\ Held(children)
  /\ pc \in {"quick", "ladder", "script", "propose", "try"} => Leads(engine, node.path, cur)
  /\ \E s \in State : Goals[s] = residual /\ Leads(engine, deepest, s)
  /\ result.proved => \E s \in Finished : Leads(engine, result.script, s)
  /\ Played

\* The lists the search makes of those it has hold what they held.
LEMMA HeldLists ==
  ASSUME NEW s \in Seq(Node), NEW t \in Seq(Node), Held(s), Held(t)
  PROVE  /\ Held(Pushed(s, t))
         /\ s # <<>> => Held(Rest(s)) /\ Leads(engine, Last(s).path, Last(s).state)
         /\ \A n \in Node : Leads(engine, n.path, n.state) => Held(Append(s, n))
<1>1. Held(Pushed(s, t))
  <2>1. /\ Len(s) \in Nat /\ Len(t) \in Nat /\ DOMAIN s = 1..Len(s) /\ DOMAIN t = 1..Len(t)
        /\ DOMAIN Pushed(s, t) = 1..(Len(s) + Len(t))
        /\ \A n \in 1..Len(s) : Pushed(s, t)[n] = s[n]
        /\ \A n \in (Len(s) + 1)..(Len(s) + Len(t)) : Pushed(s, t)[n] = t[Len(t) - (n - Len(s)) + 1]
    BY DEF Pushed, Reverse
  <2> SUFFICES ASSUME NEW n \in 1..(Len(s) + Len(t))
               PROVE  Leads(engine, Pushed(s, t)[n].path, Pushed(s, t)[n].state)
    BY <2>1 DEF Held
  <2>2. CASE n <= Len(s)
    BY <2>1, <2>2 DEF Held
  <2>3. CASE n > Len(s)
    <3>1. Len(t) - (n - Len(s)) + 1 \in DOMAIN t /\ n \in (Len(s) + 1)..(Len(s) + Len(t))
      BY <2>1, <2>3
    <3>2. QED BY <2>1, <3>1 DEF Held
  <2>4. QED BY <2>1, <2>2, <2>3
<1>2. ASSUME s # <<>>
      PROVE  Held(Rest(s)) /\ Leads(engine, Last(s).path, Last(s).state)
  <2>1. /\ Len(s) \in Nat \ {0} /\ DOMAIN s = 1..Len(s) /\ DOMAIN Rest(s) = 1..(Len(s) - 1)
        /\ \A n \in 1..(Len(s) - 1) : Rest(s)[n] = s[n]
        /\ Last(s) = s[Len(s)]
    BY <1>2 DEF Rest, Front, Last
  <2>2. Len(s) \in DOMAIN s /\ \A n \in 1..(Len(s) - 1) : n \in DOMAIN s
    BY <2>1
  <2>3. QED BY <2>1, <2>2 DEF Held
<1>3. ASSUME NEW n \in Node, Leads(engine, n.path, n.state)
      PROVE  Held(Append(s, n))
  <2>1. /\ Len(s) \in Nat /\ DOMAIN s = 1..Len(s) /\ DOMAIN Append(s, n) = 1..(Len(s) + 1)
        /\ \A m \in 1..Len(s) : Append(s, n)[m] = s[m]
        /\ Append(s, n)[Len(s) + 1] = n
    OBVIOUS
  <2>2. \A m \in 1..(Len(s) + 1) : m \in 1..Len(s) \/ m = Len(s) + 1
    BY <2>1
  <2>3. QED BY <1>3, <2>1, <2>2 DEF Held
<1>4. QED BY <1>1, <1>2, <1>3

\* A step that leaves the engine, the stack and the node alone.
LEMMA PathsKept ==
  ASSUME PathsInv, UNCHANGED <<engine, frontier, children, node, cur, deepest, residual>>,
         pc' \in {"quick", "ladder", "script", "propose", "try"}
           => pc \in {"quick", "ladder", "script", "propose", "try"},
         result' = result \/ \E s \in Finished : Leads(engine, result'.script, s),
         Played'
  PROVE  PathsInv'
BY DEF PathsInv, Held

\* A step that adds a child the engine led to.
LEMMA ChildKept ==
  ASSUME TypeOK, PathsInv, NEW s \in State, NEW p \in Seq(Tactic), Leads(engine, node.path \o p, s),
         children' = Append(children, Child(s, p)),
         UNCHANGED <<engine, pc, frontier, node, cur, deepest, residual, result>>, Played'
  PROVE  PathsInv'
<1>1. Child(s, p) \in Node /\ Leads(engine, Child(s, p).path, Child(s, p).state)
  <2>1. Child(s, p) \in Node
    BY ChildType
  <2>2. Child(s, p).path = node.path \o p /\ Child(s, p).state = s
    BY DEF Child
  <2>3. QED BY <2>1, <2>2
<1>2. children \in Seq(Node) /\ Held(children)
  BY DEF TypeOK, PathsInv
<1>3. Held(Append(children, Child(s, p)))
  BY <1>1, <1>2, HeldLists
<1>4. Held(children)'
  BY <1>3 DEF Held
<1>5. QED BY <1>4 DEF PathsInv, Held

\* Examining a node in a state its path explains.
LEMMA ExamineKept ==
  ASSUME TypeOK, PathsInv, NEW n \in Node, NEW s \in State, Leads(engine, n.path, s), Examine(n, s),
         pc = "pop", node' = n, cur' = s, UNCHANGED engine, Held(frontier)', children' = <<>>
  PROVE  PathsInv'
<1>1. Held(children)'
  BY DEF Held
<1>2. CASE s \in Finished /\ Succeed(n.path) /\ UNCHANGED <<rung, deepest, residual>>
  BY <1>1, <1>2 DEF PathsInv, Succeed, Played
<1>3. CASE UNCHANGED <<pc, rung, deepest, residual, result>>
  BY <1>1, <1>3 DEF PathsInv, Played
<1>4. CASE pc' = "ladder" /\ Deepen(n, s) /\ UNCHANGED result
  <2>1. \E t \in State : Goals[t] = residual' /\ Leads(engine, deepest', t)
    BY <1>4 DEF Deepen, PathsInv
  <2>2. QED BY <1>1, <1>4, <2>1 DEF PathsInv, Played
<1>5. QED BY <1>2, <1>3, <1>4 DEF Examine

\* The stalled script's residual is explained by the script as a whole.
LEMMA ResidualKept ==
  ASSUME TypeOK, PathsInv, pc = "script", rung # 0, KeepResidual(at),
         UNCHANGED <<engine, pc, frontier, node, cur, deepest, residual, result>>
  PROVE  PathsInv'
<1>1. Played' /\ engine \in Behaviours /\ at \in State
  BY SearchConstants DEF Played, KeepResidual, TypeOK, Behaviours
<1> DEFINE p == Scripts[sno]   q == node.path \o p
<1>2. /\ sno \in 1..Len(Scripts) /\ rung \in 1..(Len(p) + 1)
      /\ at \in Traces(engine, q)[Len(node.path) + rung - 1]
  BY DEF PathsInv, Played
<1>3. p \in Seq(Tactic) /\ node.path \in Seq(Tactic)
  BY <1>2, Constants DEF TypeOK, Node
<1>4. q \in Seq(Tactic) /\ Len(node.path) + rung - 1 \in 0..Len(q)
  <2>1. q \in Seq(Tactic) /\ Len(q) = Len(node.path) + Len(p)
        /\ Len(p) \in Nat /\ Len(node.path) \in Nat
    BY <1>3
  <2> HIDE DEF q, p
  <2>2. rung \in Nat /\ 1 <= rung /\ rung <= Len(p) + 1
    BY <1>2, <2>1
  <2>3. QED BY <2>1, <2>2
<1>5. Leads(engine, q, at)
  BY <1>1, <1>2, <1>4, TracesGrow DEF Leads
<1> HIDE DEF p
<1>6. \/ UNCHANGED children
      \/ children' = Append(children, Child(at, p))
  BY DEF KeepResidual, p
<1>7. QED BY <1>1, <1>3, <1>5, <1>6, ChildKept, PathsKept

\* The next state of a script is explained by one tactic more.
LEMMA ScriptLeads ==
  ASSUME TypeOK, PathsInv, pc = "script", sno <= Len(Scripts), rung \in 1..Len(Scripts[sno]),
         NEW out \in State, Run(at, Scripts[sno][rung], out)
  PROVE  LET q == node.path \o Scripts[sno] IN
         /\ out \in Traces(engine, q)[Len(node.path) + rung]
         /\ Leads(engine, q, out)
<1> DEFINE p == Scripts[sno]   q == node.path \o p   k == Len(node.path) + rung
<1>1. /\ sno \in 1..Len(Scripts) /\ at \in Traces(engine, q)[Len(node.path) + rung - 1]
  BY DEF PathsInv, Played
<1>2. p \in Seq(Tactic) /\ node.path \in Seq(Tactic) /\ engine \in Behaviours
  BY <1>1, Constants, SearchConstants DEF TypeOK, Node, Behaviours
<1>3. q \in Seq(Tactic) /\ k \in 1..Len(q) /\ k \in 0..Len(q) /\ q[k] = p[rung]
      /\ k - 1 = Len(node.path) + rung - 1
  <2>1. q \in Seq(Tactic) /\ Len(q) = Len(node.path) + Len(p)
        /\ Len(p) \in Nat /\ Len(node.path) \in Nat
        /\ \A n \in 1..Len(p) : q[Len(node.path) + n] = p[n]
    <3> DEFINE h == node.path
    <3>1. h \in Seq(Tactic) /\ q = h \o p
      BY <1>2
    <3> HIDE DEF p, h
    <3>2. QED BY <1>2, <3>1 DEF h
  <2> HIDE DEF q, p
  <2>2. rung \in 1..Len(p) /\ rung \in Nat /\ 1 <= rung /\ rung <= Len(p)
    BY <2>1 DEF p
  <2>3. QED BY <2>1, <2>2, SMTT(30)
<1>4. out = engine[<<at, p[rung]>>]
  BY SearchConstants DEF Run
<1> HIDE DEF q, k, p
<1>5. at \in Traces(engine, q)[k - 1] /\ engine[<<at, q[k]>>] \in State
  BY <1>1, <1>3, <1>4
<1>6. out \in Traces(engine, q)[k]
  BY <1>2, <1>3, <1>4, <1>5, Further
<1>7. Leads(engine, q, out)
  BY <1>2, <1>3, <1>6, TracesGrow DEF Leads
<1>8. QED BY <1>6, <1>7 DEF q, k, p

LEMMA PathsStep ==
  ASSUME TypeOK, PathsInv, [Next]_vars
  PROVE  PathsInv'
<1> USE DEF players, history
<1>1. engine \in Behaviours /\ Failed \notin State /\ Finished \subseteq State
  BY SearchConstants DEF TypeOK, Behaviours
<1>2. node.path \in Seq(Tactic) /\ children \in Seq(Node) /\ frontier \in Seq(Node)
  BY DEF TypeOK, Node
<1>3. ASSUME NEW t \in Tactic, NEW out \in State, Run(cur, t, out),
             pc \in {"quick", "ladder", "script", "propose", "try"}
      PROVE  Leads(engine, Append(node.path, t), out) /\ Leads(engine, node.path \o <<t>>, out)
  <2>1. out = engine[<<cur, t>>] /\ Leads(engine, node.path, cur)
    BY <1>1, <1>3 DEF Run, PathsInv
  <2>2. QED BY <1>1, <1>2, <2>1, OneMore
<1>4. CASE LadderRung
  <2>1. Ladder[rung] \in Tactic /\ Played'
    BY <1>4, Constants DEF LadderRung, TypeOK, Played, Succeed
  <2>2. PICK out \in State \cup {Failed} :
          /\ Run(cur, Ladder[rung], out)
          /\ \/ out \in Finished /\ Succeed(Append(node.path, Ladder[rung]))
             \/ UNCHANGED <<pc, result>>
    BY <1>4 DEF LadderRung, LadderCloses
  <2>3. UNCHANGED <<engine, frontier, children, node, cur, deepest, residual>> /\ pc \in {"quick", "ladder"}
    BY <1>4 DEF LadderRung
  <2>4. CASE out \in Finished /\ Succeed(Append(node.path, Ladder[rung]))
    <3>1. Leads(engine, result'.script, out) /\ pc' = "done"
      BY <1>1, <1>3, <2>1, <2>2, <2>3, <2>4 DEF Succeed
    <3>2. QED BY <2>1, <2>3, <2>4, <3>1, PathsKept
  <2>5. CASE UNCHANGED <<pc, result>>
    BY <2>1, <2>3, <2>5, PathsKept
  <2>6. QED BY <2>2, <2>4, <2>5
<1>5. CASE QuickMissed
  <2>1. Leads(engine, RootNode.path, RootNode.state)
    <3>1. <<>> \in Seq(Tactic) /\ Len(<<>>) = 0
      OBVIOUS
    <3>2. Traces(engine, <<>>)[0] = {Root}
      BY <1>1, <3>1, TracesUnfold
    <3>3. QED BY <3>1, <3>2 DEF Leads, RootNode
  <2>2. Held(frontier)'
    BY <1>5, <2>1 DEF QuickMissed, Held
  <2>3. QED BY <1>5, <2>2 DEF QuickMissed, PathsInv, Held, Played
<1>6. CASE Pop
  <2>1. frontier # <<>> /\ pc = "pop" /\ node' = Last(frontier) /\ frontier' = Rest(frontier)
        /\ children' = <<>> /\ engine' = engine /\ Held(frontier)
    BY <1>6 DEF Pop, PathsInv
  <2>2. Held(Rest(frontier)) /\ Leads(engine, node'.path, Last(frontier).state)
    BY <1>2, <2>1, HeldLists
  <2>3. Held(frontier)' /\ Held(children)'
    BY <2>1, <2>2 DEF Held
  <2>4. node' \in Node
    BY <1>2, <2>1, PopType
  <2>5. CASE cur' = Last(frontier).state /\ Examine(Last(frontier), Last(frontier).state)
    <3>1. Last(frontier).state \in State
      BY <2>1, <2>4 DEF Node
    <3>2. QED BY <2>1, <2>2, <2>3, <2>4, <2>5, <3>1, ExamineKept
  <2>6. ASSUME NEW s \in State, s = Replayed(Last(frontier).path), cur' = s, Examine(Last(frontier), s)
        PROVE  PathsInv'
    <3>1. Last(frontier).path \in Seq(Tactic)
      BY <2>1, <2>4 DEF Node
    <3>2. Leads(engine, Last(frontier).path, s)
      BY <1>1, <2>6, <3>1, ReplayLeads
    <3>3. QED BY <2>1, <2>3, <2>4, <2>6, <3>2, ExamineKept
  <2>7. CASE UNCHANGED <<pc, rung, cur, deepest, residual, result>>
    BY <2>1, <2>3, <2>7 DEF PathsInv, Played
  <2>8. QED BY <1>6, <2>5, <2>6, <2>7 DEF Pop
<1>7. CASE GiveUp
  BY <1>7 DEF GiveUp, PathsInv, Held, Played
<1>8. CASE LadderMissed
  <2>1. Played' /\ pc = "ladder"
    BY <1>8 DEF LadderMissed, Played
  <2>2. UNCHANGED <<engine, frontier, children, node, cur, deepest, residual, result>>
    BY <1>8 DEF LadderMissed
  <2>3. QED BY <2>1, <2>2, PathsKept
<1>9. CASE ScriptStart
  <2>1. UNCHANGED <<engine, frontier, children, node, cur, deepest, residual, result>> /\ pc = "script"
    BY <1>9 DEF ScriptStart
  <2>2. Played'
    <3>1. CASE pc' = "raised"
      BY <3>1 DEF Played
    <3>2. CASE rung' = 1 /\ pc' = pc
      <4>1. sno \in 1..Len(Scripts) /\ sno' = sno /\ at' = cur
        BY <1>9 DEF ScriptStart, TypeOK
      <4>2. Scripts[sno] \in Seq(Tactic) /\ Len(Scripts[sno]) \in Nat /\ Leads(engine, node.path, cur)
        BY <2>1, <4>1, Constants DEF PathsInv
      <4>3. cur \in Traces(engine, node.path \o Scripts[sno])[Len(node.path)]
        BY <1>1, <1>2, <4>2, Longer
      <4>4. Len(node.path) + 1 - 1 = Len(node.path) /\ 1 \in 1..(Len(Scripts[sno]) + 1)
        BY <1>2, <4>2
      <4>5. QED BY <2>1, <3>2, <4>1, <4>3, <4>4 DEF Played
    <3>3. QED BY <1>9, <3>1, <3>2 DEF ScriptStart
  <2>3. QED BY <2>1, <2>2, PathsKept
<1>10. CASE ScriptTactic
  <2>1. pc = "script" /\ sno <= Len(Scripts) /\ rung \in 1..Len(Scripts[sno])
        /\ UNCHANGED <<engine, frontier, node, cur, deepest, residual>>
    BY <1>10 DEF ScriptTactic
  <2>2. PICK out \in State \cup {Failed} :
          /\ Run(at, Scripts[sno][rung], out)
          /\ \/ out = Failed /\ KeepResidual(at) /\ UNCHANGED <<pc, at, result>>
             \/ out \in Finished /\ Succeed(node.path \o Scripts[sno])
                /\ UNCHANGED <<rung, sno, at, children, visited>>
             \/ out \in State \ Finished /\ rung' = rung + 1 /\ at' = out
                /\ UNCHANGED <<pc, sno, children, visited, result>>
    BY <1>10 DEF ScriptTactic
  <2>3. CASE out = Failed /\ KeepResidual(at) /\ UNCHANGED <<pc, at, result>>
    BY <2>1, <2>3, ResidualKept
  <2>4. CASE out \in Finished /\ Succeed(node.path \o Scripts[sno]) /\ UNCHANGED children
    <3>1. Leads(engine, node.path \o Scripts[sno], out)
      BY <1>1, <2>1, <2>2, <2>4, ScriptLeads
    <3>2. pc' = "done" /\ Leads(engine, result'.script, out)
      BY <2>4, <3>1 DEF Succeed
    <3>3. Played'
      BY <3>2 DEF Played
    <3>4. QED BY <2>1, <2>4, <3>2, <3>3, PathsKept
  <2>5. CASE out \in State \ Finished /\ rung' = rung + 1 /\ at' = out
             /\ UNCHANGED <<pc, sno, children, visited, result>>
    <3>1. out \in Traces(engine, node.path \o Scripts[sno])[Len(node.path) + rung]
      BY <2>1, <2>2, <2>5, ScriptLeads
    <3>2. Len(node.path) + (rung + 1) - 1 = Len(node.path) + rung /\ rung + 1 \in 1..(Len(Scripts[sno]) + 1)
          /\ sno \in 1..Len(Scripts)
      BY <1>2, <2>1 DEF TypeOK
    <3>3. Played'
      BY <2>1, <2>5, <3>1, <3>2 DEF Played
    <3>4. QED BY <2>1, <2>5, <3>3, PathsKept
  <2>6. QED BY <2>2, <2>3, <2>4, <2>5
<1>11. CASE ScriptEnd
  <2>1. rung # 0
    <3>1. sno \in 1..Len(Scripts) /\ rung > Len(Scripts[sno]) /\ Len(Scripts[sno]) \in Nat
      BY <1>11, Constants DEF ScriptEnd, TypeOK
    <3>2. QED BY <3>1
  <2>2. QED BY <1>11, <2>1, ResidualKept DEF ScriptEnd
<1>12. CASE ScriptsDone \/ Propose
  <2>1. UNCHANGED <<engine, frontier, children, node, cur, deepest, residual, result>>
        /\ pc \in {"script", "propose"} /\ pc' # "script"
    BY <1>12 DEF ScriptsDone, Propose
  <2>2. Played'
    BY <2>1 DEF Played
  <2>3. QED BY <2>1, <2>2, PathsKept
<1>13. CASE NoRepair \/ TriedAll
  <2>1. pc' = "pop" /\ frontier' = Pushed(frontier, children)
        /\ UNCHANGED <<engine, children, node, cur, deepest, residual, result>>
    BY <1>13 DEF NoRepair, TriedAll
  <2>2. Held(frontier)'
    BY <1>2, <2>1, HeldLists DEF PathsInv, Held
  <2>3. QED BY <2>1, <2>2 DEF PathsInv, Held, Played
<1>14. CASE TryCandidate
  <2>1. Head(queue) \in Tactic /\ <<Head(queue)>> \in Seq(Tactic)
    BY <1>14, SearchConstants, SMTT(30) DEF TryCandidate, TypeOK
  <2>2. PICK out \in State \cup {Failed} :
          /\ Run(cur, Head(queue), out)
          /\ \/ UNCHANGED <<pc, children, result>>
             \/ out \in Finished /\ Succeed(Append(node.path, Head(queue))) /\ UNCHANGED children
             \/ out \in State /\ children' = Append(children, Child(out, <<Head(queue)>>))
                /\ UNCHANGED <<pc, result>>
    BY <1>14 DEF TryCandidate
  <2>3. UNCHANGED <<engine, frontier, node, cur, deepest, residual>> /\ pc = "try"
    BY <1>14 DEF TryCandidate
  <2>4. pc' # "script" /\ Played'
    BY <2>2, <2>3 DEF Succeed, Played
  <2>5. CASE UNCHANGED <<pc, children, result>>
    BY <2>3, <2>4, <2>5, PathsKept
  <2>6. CASE out \in Finished /\ Succeed(Append(node.path, Head(queue))) /\ UNCHANGED children
    <3>1. Leads(engine, result'.script, out) /\ pc' = "done"
      BY <1>1, <1>3, <2>1, <2>2, <2>3, <2>6 DEF Succeed
    <3>2. QED BY <2>3, <2>4, <2>6, <3>1, PathsKept
  <2>7. CASE out \in State /\ children' = Append(children, Child(out, <<Head(queue)>>))
             /\ UNCHANGED <<pc, result>>
    <3>1. Leads(engine, node.path \o <<Head(queue)>>, out)
      BY <1>3, <2>1, <2>2, <2>3, <2>7
    <3>2. QED BY <2>1, <2>3, <2>4, <2>7, <3>1, ChildKept
  <2>8. QED BY <2>2, <2>5, <2>6, <2>7
<1>15. CASE UNCHANGED vars
  BY <1>15 DEF vars, PathsInv, Held, Played
<1>16. QED
  BY <1>4, <1>5, <1>6, <1>7, <1>8, <1>9, <1>10, <1>11, <1>12, <1>13, <1>14, <1>15 DEF Next

\* Whatever a path is kept with was produced by tactics of the path, in its order:
\* the nodes on the stack, the residual goal of a failure, the proof of a success.
THEOREM PathsExplainStatesCorrect == Spec => []PathsExplainStates
<1>1. TypeOK /\ Init => PathsInv
  <2> SUFFICES ASSUME TypeOK, Init PROVE PathsInv
    OBVIOUS
  <2>1. engine \in Behaviours /\ Root \in State
    BY SearchConstants DEF TypeOK, Behaviours
  <2>2. Leads(engine, <<>>, Root)
    <3>1. <<>> \in Seq(Tactic) /\ Len(<<>>) = 0
      OBVIOUS
    <3>2. Traces(engine, <<>>)[0] = {Root}
      BY <2>1, <3>1, TracesUnfold
    <3>3. QED BY <3>1, <3>2 DEF Leads
  <2>3. QED BY <2>1, <2>2 DEF Init, PathsInv, Held, Played, RootNode, NoResult
<1>2. TypeOK /\ PathsInv /\ [Next]_vars => PathsInv'
  BY PathsStep
<1>3. PathsInv => PathsExplainStates
  <2> SUFFICES ASSUME PathsInv PROVE PathsExplainStates
    OBVIOUS
  <2>1. \A n \in ToSet(frontier) \cup ToSet(children) : Leads(engine, n.path, n.state)
    BY DEF PathsInv, Held, ToSet
  <2>2. QED BY <2>1, ExplainsIsLeads DEF PathsInv, PathsExplainStates
<1>4. QED BY <1>1, <1>2, <1>3, TypeCorrect, PTL DEF Spec
=============================================================================
