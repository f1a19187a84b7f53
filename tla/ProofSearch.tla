---------------------------- MODULE ProofSearch ----------------------------
(***************************************************************************)
(* The depth-first proof search of agent/orchestrator.py (`_discharge`)    *)
(* together with the two tactic players it uses, `try_ladder` and          *)
(* `run_script` of proof/hammer.py, and the contract of                    *)
(* proof/petanque_driver.py they rely on.                                  *)
(*                                                                         *)
(* Petanque is external: it is the function `engine`, which sends a proof  *)
(* state and a tactic to the next state or to Failed (a Rocq error).  A    *)
(* call may also time out, which the driver reports exactly like an error, *)
(* and a stored handle may be rejected as stale.  The language model is    *)
(* external too: it proposes any short list of tactics.  Every engine call *)
(* is a step of its own, so that a fault can hit any of them.              *)
(***************************************************************************)
EXTENDS Integers, FiniteSets, Sequences, SequencesExt

CONSTANTS
  State,          \* petanque states
  Root,           \* the state `driver.start` returned
  Finished,       \* the states with proof_finished
  Goals,          \* [State -> hashes]: the hash of a state's open goal stack
  NoGoals,        \* the hash of the empty goal stack
  Tactic,
  Failed,         \* the outcome of a run that errs or times out
  Engines,        \* the petanque behaviours considered
  Ladder,         \* hammer.LADDER
  Scripts,        \* STRUCTURED_SCRIPTS, loop_proof() and the proof library
  Burst,          \* no ladder and no script is longer
  RepairTactics,  \* what the model may propose
  MaxProposals,   \* candidates in one proposal (5 in tactic_repair._parse)
  MaxDepth,       \* cfg.search_max_depth
  MaxRuns,        \* cfg.search_max_runs
  MaxIterations,  \* cfg.max_iterations, the cap on propose() calls
  EscalateAfter,  \* cfg.escalate_after
  CanEscalate,    \* llm.can_escalate
  RepairEnabled,  \* cfg.llm_repair_enabled
  MaxFaults       \* bound: timeouts, stale handles and raised exceptions

Hash == {Goals[s] : s \in State} \cup {NoGoals}

ASSUME SearchConstants ==
  /\ Root \in State \ Finished /\ Failed \notin State
  /\ Finished \subseteq State
  /\ Goals \in [State -> Hash]
  /\ \A s \in Finished : Goals[s] = NoGoals
  /\ Engines \subseteq [State \X Tactic -> State \cup {Failed}]
  /\ Ladder \in Seq(Tactic) /\ Scripts \in Seq(Seq(Tactic))
  /\ RepairTactics \subseteq Tactic
  /\ Burst \in Nat \ {0} /\ Len(Ladder) <= Burst
  /\ \A sno \in 1..Len(Scripts) : Len(Scripts[sno]) <= Burst
  /\ MaxRuns \in Nat \ {0}
  /\ {MaxProposals, MaxDepth, MaxIterations, EscalateAfter, MaxFaults} \subseteq Nat
  /\ {CanEscalate, RepairEnabled} \subseteq BOOLEAN

Node == [state : State, path : Seq(Tactic), depth : Nat]
RootNode == [state |-> Root, path |-> <<>>, depth |-> 0]

VARIABLES
  engine,       \* the petanque behaviour of this run, fixed
  faults,       \* faults injected so far
  pc,           \* where _discharge stands
  rung, sno,    \* the next rung or script tactic, the script being played
  node,         \* the node being expanded
  cur,          \* its refreshed state
  at,           \* the state a script has reached
  frontier,     \* the LIFO stack of nodes
  children,     \* the children found so far, best first
  queue,        \* proposed tactics still to try
  visited,      \* goal hashes ever pushed
  failures,     \* goal hash -> tactics that failed on it
  runs,         \* _RunCounter.runs
  repairCalls,  \* propose() calls
  escalated,
  deepest, residual,   \* the longest path expanded and its goals
  result        \* [proved, script] once the search returned

VARIABLES
  reached,      \* history: the states the engine has returned
  popped        \* history: the goal hashes whose node was taken off the stack

players == <<rung, sno, at>>
history == <<reached, popped>>
vars == <<engine, faults, pc, rung, sno, node, cur, at, frontier, children, queue,
          visited, failures, runs, repairCalls, escalated, deepest, residual,
          result, reached, popped>>

Pcs == {"quick", "pop", "ladder", "script", "propose", "try", "done", "raised"}
NoResult == [proved |-> FALSE, script |-> <<>>]

Init ==
  /\ engine \in Engines
  /\ faults = 0
  /\ pc = "quick"
  /\ rung = 1 /\ sno = 1
  /\ node = RootNode /\ cur = Root /\ at = Root
  /\ frontier = <<>> /\ children = <<>> /\ queue = <<>>
  /\ visited = {} /\ failures = [h \in Hash |-> {}]
  /\ runs = 0 /\ repairCalls = 0 /\ escalated = FALSE
  /\ deepest = <<>> /\ residual = Goals[Root]
  /\ result = NoResult
  /\ reached = {Root} /\ popped = {}

-----------------------------------------------------------------------------
(* The engine, through PetanqueDriver and _RunCounter.                     *)

OverLate == runs > MaxRuns           \* slip: one run too many
Over == runs >= MaxRuns

Fault == faults < MaxFaults /\ faults' = faults + 1

\* cd.run(s, t): counted before the call; an error or a timeout is Failed.
Run(s, t, out) ==
  /\ runs' = runs + 1
  /\ \/ out = engine[<<s, t>>] /\ UNCHANGED faults
     \/ out = Failed /\ Fault
  /\ reached' = reached \cup ({out} \ {Failed})

\* Where a path leads from the root when no tactic of it times out.
Replayed(path) ==
  LET replay[n \in 0..Len(path)] ==
        IF n = 0 THEN Root
        ELSE IF replay[n - 1] = Failed THEN Failed ELSE engine[<<replay[n - 1], path[n]>>]
  IN replay[Len(path)]

Succeed(path) ==
  /\ pc' = "done"
  /\ result' = [proved |-> TRUE, script |-> path]

-----------------------------------------------------------------------------
(* try_ladder, on the raw start state ("quick") and at every node.         *)

LadderClosesOk(out) == out # Failed   \* slip: res.ok taken for res.finished
LadderCloses(out) == out \in Finished

LadderRung ==
  /\ pc \in {"quick", "ladder"}
  /\ rung <= Len(Ladder)
  /\ \E out \in State \cup {Failed} :
       /\ Run(cur, Ladder[rung], out)
       /\ \/ /\ LadderCloses(out)
             /\ Succeed(Append(node.path, Ladder[rung]))
             /\ UNCHANGED rung
          \/ /\ ~LadderCloses(out)
             /\ rung' = rung + 1
             /\ UNCHANGED <<pc, result>>
  /\ UNCHANGED <<engine, sno, node, cur, at, frontier, children, queue, visited,
                 failures, repairCalls, escalated, deepest, residual, popped>>

QuickMissed ==
  /\ pc = "quick" /\ rung > Len(Ladder)
  /\ pc' = "pop"
  /\ frontier' = <<RootNode>>
  /\ visited' = {Goals[Root]}
  /\ UNCHANGED <<engine, faults, players, node, cur, children, queue, failures,
                 runs, repairCalls, escalated, deepest, residual, result, history>>

-----------------------------------------------------------------------------
(* The loop head: take the top node and refresh its goals.                 *)

\* frontier.pop()
Peeked(stack) == stack               \* slip: frontier[-1]
Rest(stack) == Front(stack)

Deeper(path) == Len(path) > Len(deepest)

\* `if len(node.path) > len(deepest): deepest, residual = node.path, cur.goals`
Deepen(n, s) ==
  IF Deeper(n.path) THEN deepest' = n.path /\ residual' = Goals[s]
                    ELSE UNCHANGED <<deepest, residual>>

\* `if cur.finished ... if not cur.goals ... if len(node.path) > len(deepest)`
Examine(n, s) ==
  \/ /\ s \in Finished
     /\ Succeed(n.path)
     /\ UNCHANGED <<rung, deepest, residual>>
  \/ /\ s \notin Finished /\ Goals[s] = NoGoals
     /\ UNCHANGED <<pc, rung, deepest, residual, result>>
  \/ /\ Goals[s] # NoGoals
     /\ pc' = "ladder" /\ rung' = 1
     /\ Deepen(n, s)
     /\ UNCHANGED result

\* A stale handle is replayed from the root, outside the run counter; a replay
\* that fails drops the node.
Pop ==
  /\ pc = "pop" /\ frontier # <<>> /\ ~Over
  /\ node' = Last(frontier)
  /\ frontier' = Rest(frontier)
  /\ children' = <<>>
  /\ popped' = popped \cup {Goals[Last(frontier).state]}
  /\ \/ /\ cur' = Last(frontier).state
        /\ Examine(Last(frontier), Last(frontier).state)
        /\ UNCHANGED <<faults, reached>>
     \/ \E s \in State :
          /\ Fault
          /\ s = Replayed(Last(frontier).path)
          /\ cur' = s /\ reached' = reached \cup {s}
          /\ Examine(Last(frontier), s)
     \/ /\ Fault
        /\ UNCHANGED <<pc, rung, cur, deepest, residual, result, reached>>
  /\ UNCHANGED <<engine, sno, at, queue, visited, failures, runs, repairCalls, escalated>>

GiveUp ==
  /\ pc = "pop" /\ (frontier = <<>> \/ Over)
  /\ pc' = "done"
  /\ result' = [proved |-> FALSE, script |-> deepest]
  /\ UNCHANGED <<engine, faults, players, node, cur, frontier, children, queue,
                 visited, failures, runs, repairCalls, escalated, deepest, residual, history>>

\* The ladder missed: stop at the depth or run budget, else expand.
LadderMissed ==
  /\ pc = "ladder" /\ rung > Len(Ladder)
  /\ pc' = IF node.depth >= MaxDepth \/ Over THEN "pop"
           ELSE IF node.depth = 0 THEN "script" ELSE "propose"
  /\ rung' = 0 /\ sno' = 1 /\ at' = cur
  /\ UNCHANGED <<engine, faults, node, cur, frontier, children, queue, visited,
                 failures, runs, repairCalls, escalated, deepest, residual, result, history>>

ChildRestarted(s, tactics) ==        \* slip: the parent's path is lost
  [state |-> s, path |-> tactics, depth |-> node.depth + 1]
Child(s, tactics) ==
  [state |-> s, path |-> node.path \o tactics, depth |-> node.depth + 1]

\* visited.add(h)
NotVisited(h) == UNCHANGED visited   \* slip: the goal is not marked
Visit(h) == visited' = visited \cup {h}

-----------------------------------------------------------------------------
(* The root scripts.                                                       *)

\* `for script in root_scripts: if cd.over: break`, then the first line of
\* run_script, whose _result() is not guarded against an exception.
ScriptStart ==
  /\ pc = "script" /\ sno <= Len(Scripts) /\ rung = 0 /\ ~Over
  /\ at' = cur
  /\ \/ rung' = 1 /\ UNCHANGED <<faults, pc>>
     \/ Fault /\ pc' = "raised" /\ UNCHANGED rung
  /\ UNCHANGED <<engine, sno, node, cur, frontier, children, queue, visited, failures,
                 runs, repairCalls, escalated, deepest, residual, result, history>>

\* The script stalled in state s: its residual becomes a child when new.
KeepResidual(s) ==
  /\ rung' = 0 /\ sno' = sno + 1
  /\ IF Goals[s] # NoGoals /\ Goals[s] \notin visited
       THEN /\ children' = Append(children, Child(s, Scripts[sno]))
            /\ Visit(Goals[s])
       ELSE UNCHANGED <<children, visited>>

ScriptTactic ==
  /\ pc = "script" /\ sno <= Len(Scripts) /\ rung \in 1..Len(Scripts[sno])
  /\ \E out \in State \cup {Failed} :
       /\ Run(at, Scripts[sno][rung], out)
       /\ \/ /\ out = Failed
             /\ KeepResidual(at)
             /\ UNCHANGED <<pc, at, result>>
          \/ /\ out \in Finished
             /\ Succeed(node.path \o Scripts[sno])
             /\ UNCHANGED <<rung, sno, at, children, visited>>
          \/ /\ out \in State \ Finished
             /\ rung' = rung + 1 /\ at' = out
             /\ UNCHANGED <<pc, sno, children, visited, result>>
  /\ UNCHANGED <<engine, node, cur, frontier, queue, failures, repairCalls,
                 escalated, deepest, residual, popped>>

ScriptEnd ==
  /\ pc = "script" /\ sno <= Len(Scripts) /\ rung > Len(Scripts[sno])
  /\ KeepResidual(at)
  /\ UNCHANGED <<engine, faults, pc, node, cur, at, frontier, queue, failures, runs,
                 repairCalls, escalated, deepest, residual, result, history>>

ScriptsDone ==
  /\ pc = "script" /\ rung = 0 /\ (sno > Len(Scripts) \/ Over)
  /\ pc' = "propose"
  /\ UNCHANGED <<engine, faults, players, node, cur, frontier, children, queue, visited,
                 failures, runs, repairCalls, escalated, deepest, residual, result, history>>

-----------------------------------------------------------------------------
(* Model repair of the first goal.                                         *)

\* `for child in reversed(children): frontier.append(child)`
PushedAlone(stack, kids) == Reverse(kids)   \* slip: the stack is replaced
Pushed(stack, kids) == stack \o Reverse(kids)

MayRepairOnceMore ==                 \* slip: <= for <
  children = <<>> /\ RepairEnabled /\ repairCalls <= MaxIterations /\ ~Over
MayRepair ==
  children = <<>> /\ RepairEnabled /\ repairCalls < MaxIterations /\ ~Over

\* tactic_repair.propose: a few ranked tactics, none of those known to fail on
\* this goal; the list may be empty and may repeat a tactic.
Proposals(past) == BoundedSeq(RepairTactics \ past, MaxProposals)

Propose ==
  /\ pc = "propose" /\ MayRepair
  /\ \/ /\ queue' \in Proposals(failures[Goals[cur]])
        /\ repairCalls' = repairCalls + 1
        /\ escalated' = (escalated \/ (repairCalls >= EscalateAfter /\ CanEscalate))
        /\ pc' = "try"
        /\ UNCHANGED faults
     \/ /\ Fault /\ pc' = "raised"   \* the endpoint is unreachable
        /\ UNCHANGED <<queue, repairCalls, escalated>>
  /\ UNCHANGED <<engine, players, node, cur, frontier, children, visited, failures,
                 runs, deepest, residual, result, history>>

NoRepair ==
  /\ pc = "propose" /\ ~MayRepair
  /\ pc' = "pop"
  /\ frontier' = Pushed(frontier, children)
  /\ UNCHANGED <<engine, faults, players, node, cur, children, queue, visited, failures,
                 runs, repairCalls, escalated, deepest, residual, result, history>>

TryCandidate ==
  /\ pc = "try" /\ queue # <<>> /\ ~Over
  /\ queue' = Tail(queue)
  /\ \E out \in State \cup {Failed} :
       /\ Run(cur, Head(queue), out)
       /\ \/ /\ out = Failed
             /\ failures' = [failures EXCEPT ![Goals[cur]] = @ \cup {Head(queue)}]
             /\ UNCHANGED <<pc, children, visited, result>>
          \/ /\ out \in Finished
             /\ Succeed(Append(node.path, Head(queue)))
             /\ UNCHANGED <<children, visited, failures>>
          \/ /\ out \in State \ Finished /\ Goals[out] \in visited
             /\ UNCHANGED <<pc, children, visited, failures, result>>
          \/ /\ out \in State \ Finished /\ Goals[out] \notin visited
             /\ children' = Append(children, Child(out, <<Head(queue)>>))
             /\ Visit(Goals[out])
             /\ UNCHANGED <<pc, failures, result>>
  /\ UNCHANGED <<engine, players, node, cur, frontier, repairCalls, escalated,
                 deepest, residual, popped>>

TriedAll ==
  /\ pc = "try" /\ (queue = <<>> \/ Over)
  /\ pc' = "pop"
  /\ frontier' = Pushed(frontier, children)
  /\ UNCHANGED <<engine, faults, players, node, cur, children, queue, visited, failures,
                 runs, repairCalls, escalated, deepest, residual, result, history>>

-----------------------------------------------------------------------------
Next ==
  \/ LadderRung \/ QuickMissed \/ Pop \/ GiveUp \/ LadderMissed
  \/ ScriptStart \/ ScriptTactic \/ ScriptEnd \/ ScriptsDone
  \/ Propose \/ NoRepair \/ TryCandidate \/ TriedAll

Spec == Init /\ [][Next]_vars

\* The search is one sequential Python call: it never pauses of its own accord.
FairSpec == Spec /\ WF_vars(Next)

-----------------------------------------------------------------------------
(* Properties.                                                             *)

\* Every variable stays within its range.
TypeOK ==
  /\ engine \in Engines
  /\ faults \in 0..MaxFaults
  /\ pc \in Pcs
  /\ rung \in Nat /\ sno \in Nat \ {0}
  /\ pc \in {"quick", "ladder"} => rung > 0
  /\ node \in Node /\ cur \in State /\ at \in State
  /\ frontier \in Seq(Node) /\ children \in Seq(Node)
  /\ queue \in Seq(RepairTactics)
  /\ visited \subseteq Hash
  /\ failures \in [Hash -> SUBSET RepairTactics]
  /\ runs \in Nat /\ repairCalls \in 0..MaxIterations
  /\ escalated \in BOOLEAN
  /\ deepest \in Seq(Tactic) /\ residual \in Hash
  /\ result \in [proved : BOOLEAN, script : Seq(Tactic)]
  /\ reached \subseteq State /\ popped \subseteq Hash

\* The search never claims a proof the engine did not finish: when it returns
\* proved = True, petanque has returned a state with proof_finished, whatever
\* mixture of rungs, scripts, repairs, timeouts and replays led there.
Sound == result.proved => reached \cap Finished # {}

\* search_max_runs caps the counted runs although neither try_ladder nor
\* run_script looks at `over` once begun: the overshoot is less than one ladder
\* or one script, however the search interleaves them.
RunsBounded == runs <= MaxRuns - 1 + Burst

\* The `visited` pruning: no two nodes on the stack have the same open goals
\* and no goal stack comes back after it was taken off, so that the search
\* cannot go around in a circle (unless a stale handle was replayed, cur and
\* node.state have the same goals).
GoalsExploredOnce ==
  /\ \A m, n \in DOMAIN frontier :
       m # n => Goals[frontier[m].state] # Goals[frontier[n].state]
  /\ \A n \in DOMAIN frontier : Goals[frontier[n].state] \notin popped

\* A search that gives up with budget left is exhaustive: every goal stack a
\* script or a candidate ever produced was taken off the stack and examined.
ExhaustiveWhenBudgetLeft ==
  pc = "done" /\ ~result.proved /\ ~Over => visited \subseteq popped

\* Where the first n tactics of a path lead when any of them may be left out.
Subpaths(path) ==
  LET after[n \in 0..Len(path)] ==
        IF n = 0 THEN {Root}
        ELSE after[n - 1] \cup ({engine[<<s, path[n]>>] : s \in after[n - 1]} \ {Failed})
  IN after

Explains(path, s) == s \in Subpaths(path)[Len(path)]

\* The tactic path kept with a state names, in order, every tactic that
\* produced it (it may name more: a stalled script is recorded whole), the
\* script of a claimed proof contains a proof, and the residual goal handed back
\* for refinement belongs to the path returned with it.
PathsExplainStates ==
  /\ \A n \in ToSet(frontier) \cup ToSet(children) : Explains(n.path, n.state)
  /\ \E s \in State : Goals[s] = residual /\ Explains(deepest, s)
  /\ result.proved => \E s \in Finished : Explains(result.script, s)

\* Whatever the model proposes and wherever faults strike, the search returns.
Terminates == <>(pc \in {"done", "raised"})

\* `_SearchNode`: a node is "a petanque state plus the tactic path that produced
\* it", kept so that a stale handle can be reconstructed by replaying the path.
PathReplaysToState ==
  \A n \in ToSet(frontier) : Replayed(n.path) = n.state
=============================================================================
