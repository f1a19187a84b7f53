------------------------------- MODULE Driver -------------------------------
(***************************************************************************)
(* The petanque driver (proof/petanque_driver.py): one connection to the   *)
(* proof server, the search that calls it, and the daemon threads it       *)
(* guards tactics with.                                                    *)
(*                                                                         *)
(* start and goals wait for their answer on the caller's thread.  A tactic *)
(* with a budget is sent by a thread of its own, with the server's own     *)
(* timeout, and the caller joins that thread for the budget and a grace;   *)
(* a thread still alive then is abandoned, and goes on reading the         *)
(* connection.  The server answers requests in order, one at a time, or    *)
(* hangs on one.  What a reader makes of an answer to another request is   *)
(* the client library's affair: it may refuse it or take it for its own.   *)
(*                                                                         *)
(* A proof state is the sequence of tactics that leads to it.  Time is     *)
(* counted in half seconds, the finest budget the bounds tell apart.       *)
(***************************************************************************)
EXTENDS Integers, Sequences, FiniteSets

CONSTANTS
  Tactics, NoState,
  Budgets,         \* timeout_s of a call: half seconds, 0 for None and below
  DefaultBudget,   \* agent.tactic_timeout_s, in half seconds
  Grace,           \* _TIMEOUT_GRACE_S, in half seconds
  MaxCalls,        \* bound: calls of the search on the driver
  MaxPath          \* bound: the tactics of a replayed path

ASSUME DriverConstants ==
  /\ Budgets \subseteq Nat /\ DefaultBudget \in Nat /\ Grace \in Nat /\ Grace > 2
  /\ MaxCalls \in Nat /\ MaxPath \in Nat
  /\ NoState \notin Seq(Tactics)

VARIABLES
  at,        \* where the caller's thread is
  call,      \* the search's call: [op, parent, aim], aim the state it asks for
  step,      \* the tactic being run: [id, parent, aim, budget], or start or goals
  todo,      \* replay_from_root: the tactics still to run
  box,       \* what the thread of the tactic left, or "nothing"
  waited,    \* how long the caller has been in join
  result,    \* the StepResult of the last call
  readers,   \* daemon threads in recv, by their request
  wire,      \* requests the server has not answered
  answers,   \* answers nobody has read
  busy,      \* how long the server has been at the first request of wire
  stuck,     \* the server hangs on it
  overran,   \* the server has been at a tactic for longer than it was allowed
  sent, calls
caller == <<at, call, step, todo, box, waited, result>>
server == <<busy, stuck, overran>>
vars == <<caller, readers, wire, answers, server, sent, calls>>

\* round(budget) of a budget in half seconds: to the even second between two.
Rounded(b) == IF b % 4 = 1 THEN (b - 1) \div 2 ELSE (b + 1) \div 2

\* native_timeout, the server's own: at least a second.
NativeTimeout(b) == 2 * (IF Rounded(b) < 1 THEN 1 ELSE Rounded(b))

GuardTight(b) == b     \* slip: no grace
Guard(b) == b + Grace

Paths == UNION {[1..n -> Tactics] : n \in 0..MaxPath}
Ats == {"idle", "next", "start", "run", "join", "goals"}
Nothing == [says |-> "nothing"]
Idle == [op |-> "none", parent |-> NoState, aim |-> NoState]
NoStep == [id |-> 0, parent |-> NoState, aim |-> NoState, budget |-> 0]
Failed(state) == [ok |-> FALSE, finished |-> FALSE, state |-> state]

Init ==
  /\ at = "idle" /\ call = Idle /\ step = NoStep /\ todo = <<>> /\ box = Nothing
  /\ waited = 0 /\ result = Failed(NoState)
  /\ readers = {} /\ wire = <<>> /\ answers = <<>>
  /\ busy = 0 /\ stuck = FALSE /\ overran = FALSE
  /\ sent = 0 /\ calls = 0

-----------------------------------------------------------------------------
(* The requests of the driver.                                             *)

Request(kind, state, limit) ==
  /\ wire' = Append(wire, [id |-> sent + 1, kind |-> kind, state |-> state, limit |-> limit])
  /\ sent' = sent + 1

\* self._client.start, on the caller's thread.
SendStart ==
  /\ Request("start", <<>>, 0)
  /\ at' = "start"
  /\ step' = [id |-> sent + 1, parent |-> NoState, aim |-> <<>>, budget |-> 0]
  /\ UNCHANGED readers

\* _run_tactic: without a budget on the caller's thread, else on one of its own.
SendTactic(parent, tactic, budget) ==
  LET aim == Append(parent, tactic) IN
  /\ Request("run", aim, IF budget = 0 THEN 0 ELSE NativeTimeout(budget))
  /\ step' = [id |-> sent + 1, parent |-> parent, aim |-> aim, budget |-> budget]
  /\ IF budget = 0 THEN at' = "run" /\ UNCHANGED readers
                   ELSE at' = "join" /\ readers' = readers \cup {sent + 1}

\* _goals, on the caller's thread, whatever the budget of the tactic was.
SendGoals(parent, aim) ==
  /\ Request("goals", aim, 0)
  /\ at' = "goals"
  /\ step' = [id |-> sent + 1, parent |-> parent, aim |-> aim, budget |-> 0]

-----------------------------------------------------------------------------
(* The calls of the search.                                                *)

Called(op, parent, aim) ==
  /\ at = "idle" /\ calls < MaxCalls
  /\ calls' = calls + 1
  /\ call' = [op |-> op, parent |-> parent, aim |-> aim]
  /\ UNCHANGED <<box, waited, result, answers, server>>

Start == Called("start", NoState, <<>>) /\ SendStart /\ todo' = <<>>

\* The search goes on from the state it was given last, the parent's after a failure.
Run(tactic, budget) ==
  /\ result.state # NoState /\ Len(result.state) < MaxPath
  /\ Called("run", result.state, Append(result.state, tactic))
  /\ SendTactic(result.state, tactic, budget) /\ todo' = <<>>

\* _result on a stored state, before a node is examined.
Refresh ==
  /\ result.state # NoState
  /\ Called("refresh", NoState, result.state)
  /\ SendGoals(NoState, result.state) /\ todo' = <<>> /\ UNCHANGED readers

ReplayFromRoot(path) ==
  /\ Called("replay", NoState, path) /\ SendStart /\ todo' = path

\* A call on the driver returns r: to replay_from_root while tactics are left.
Return(r) ==
  /\ IF r.ok /\ todo # <<>> THEN at' = "next" ELSE at' = "idle"
  /\ result' = r /\ step' = NoStep
  /\ UNCHANGED <<call, todo, readers, wire, sent>>

ReplayFromStart == <<>>     \* slip: every tactic from the start
ReplayFrom == result.state

\* for tac in path: cur = self.run(cur.state, tac)
NextTactic ==
  /\ at = "next"
  /\ SendTactic(ReplayFrom, Head(todo), DefaultBudget) /\ todo' = Tail(todo)
  /\ UNCHANGED <<call, box, waited, result, answers, server, calls>>

-----------------------------------------------------------------------------
(* Answers.                                                                *)

\* What the reader for request id makes of an answer.
Taken(id, a) ==
  IF a.id = id THEN {a} ELSE {a, [a EXCEPT !.says = "error"]}

\* start, run and _result after their answer a: an exception keeps the parent,
\* a proof that is not finished needs its goals.
Answered(a) ==
  IF a.says = "error" THEN Return(Failed(step.parent))
  ELSE IF at = "goals" THEN Return([ok |-> TRUE, finished |-> FALSE, state |-> step.aim])
  ELSE IF a.says = "finished" THEN Return([ok |-> TRUE, finished |-> TRUE, state |-> a.state])
  ELSE SendGoals(step.parent, a.state) /\ UNCHANGED <<call, todo, result, readers>>

\* The caller's thread reads what it waits for.
Receive ==
  /\ at \in {"start", "run", "goals"} /\ answers # <<>>
  /\ answers' = Tail(answers)
  /\ \E a \in Taken(step.id, Head(answers)) : Answered(a)
  /\ UNCHANGED <<box, waited, server, calls>>

\* A daemon thread reads: into its box, which is the caller's while it joins.
WorkerReceives(id) ==
  /\ id \in readers /\ answers # <<>>
  /\ answers' = Tail(answers) /\ readers' = readers \ {id}
  /\ IF at = "join" /\ id = step.id THEN box' \in Taken(id, Head(answers)) ELSE UNCHANGED box
  /\ UNCHANGED <<at, call, step, todo, waited, result, wire, server, sent, calls>>

\* join returns because the thread has ended.
Joined ==
  /\ at = "join" /\ box # Nothing
  /\ Answered(box) /\ box' = Nothing /\ waited' = 0
  /\ UNCHANGED <<answers, server, calls>>

ExpiredNever(b) == FALSE           \* slip: join without a timeout
Expired(b) == waited >= Guard(b)

\* join returns, the thread is alive: TimeoutError, and the parent's state.
Abandon ==
  /\ at = "join" /\ box = Nothing /\ Expired(step.budget)
  /\ Return(Failed(step.parent)) /\ waited' = 0
  /\ UNCHANGED <<box, answers, server, calls>>

-----------------------------------------------------------------------------
(* The server and the time.                                                *)

\* A tactic it aborts is an error like any other.
Answer ==
  /\ wire # <<>> /\ ~stuck
  /\ \E says \in {"error", "open"} \cup (IF Head(wire).kind = "run" THEN {"finished"} ELSE {}) :
       answers' = Append(answers, [id |-> Head(wire).id, says |-> says, state |-> Head(wire).state])
  /\ wire' = Tail(wire) /\ busy' = 0
  /\ UNCHANGED <<caller, readers, stuck, overran, sent, calls>>

\* A tactic that never ends and is not aborted.
Hang ==
  /\ wire # <<>> /\ Head(wire).kind = "run" /\ ~stuck
  /\ stuck' = TRUE
  /\ UNCHANGED <<caller, readers, wire, answers, busy, overran, sent, calls>>

\* Half a second, in which an answer that has arrived is read.
Tick ==
  /\ at = "join" /\ box = Nothing /\ waited < Guard(step.budget)
  /\ answers = <<>>
  /\ waited' = waited + 1
  /\ IF wire = <<>> \/ overran THEN UNCHANGED <<busy, overran>>
     ELSE /\ overran' = (Head(wire).limit # 0 /\ busy >= Head(wire).limit)
          /\ busy' = IF overran' THEN 0 ELSE busy + 1
  /\ UNCHANGED <<at, call, step, todo, box, result, readers, wire, answers, stuck,
                 sent, calls>>

CloseLeaky == UNCHANGED readers     \* slip: its threads read the next connection
Close == readers' = {}

\* __exit__ and __enter__: the next proof has a connection of its own, the
\* threads left on the old one end; the server may still be where it was.
Reconnect ==
  /\ at = "idle" /\ sent > 0
  /\ Close /\ wire' = <<>> /\ answers' = <<>>
  /\ busy' = 0 /\ stuck' \in {stuck, FALSE} /\ overran' = stuck'
  /\ result' = Failed(NoState) /\ call' = Idle /\ todo' = <<>> /\ sent' = 0
  /\ UNCHANGED <<at, step, box, waited, calls>>

Calls ==
  \/ Start \/ Refresh
  \/ \E t \in Tactics, b \in Budgets : Run(t, b)
  \/ \E p \in Paths : ReplayFromRoot(p)

DriverStep == NextTactic \/ Receive \/ Joined \/ Abandon
Next ==
  \/ Calls \/ DriverStep \/ (\E id \in readers : WorkerReceives(id))
  \/ Answer \/ Hang \/ Tick \/ Reconnect
Spec == Init /\ [][Next]_vars

\* The threads of the driver run, time passes, and a server that does not hang answers.
FairSpec ==
  /\ Spec
  /\ WF_vars(DriverStep) /\ WF_vars(\E id \in readers : WorkerReceives(id))
  /\ WF_vars(Answer) /\ WF_vars(Tick)

-----------------------------------------------------------------------------
(* Properties.                                                             *)

States == Seq(Tactics) \cup {NoState}
Says == {"error", "open", "finished"}

\* Every variable stays within its range, and threads left behind read earlier requests.
TypeOK ==
  /\ at \in Ats /\ todo \in Seq(Tactics) /\ waited \in Nat /\ busy \in Nat
  /\ call \in [op : {"none", "start", "run", "refresh", "replay"}, parent : States, aim : States]
  /\ step \in [id : Nat, parent : States, aim : States, budget : Nat]
  /\ box \in {Nothing} \cup [id : Nat, says : Says, state : Seq(Tactics)]
  /\ result \in [ok : BOOLEAN, finished : BOOLEAN, state : States]
  /\ wire \in Seq([id : Nat, kind : {"start", "run", "goals"}, state : Seq(Tactics), limit : Nat])
  /\ answers \in Seq([id : Nat, says : Says, state : Seq(Tactics)])
  /\ readers \subseteq 1..sent
  /\ stuck \in BOOLEAN /\ overran \in BOOLEAN /\ sent \in Nat /\ calls \in 0..MaxCalls

(***************************************************************************)
(* The guard only fires on a server that has not kept its own timeout      *)
(* (petanque_driver.py:58): with one that has, for whatever budget, no     *)
(* thread is left behind, and between calls nothing is on the connection.  *)
(***************************************************************************)
InSync ==
  at = "idle" /\ ~overran => wire = <<>> /\ answers = <<>> /\ readers = {}

(***************************************************************************)
(* What the search builds on (petanque_driver.py:91, 141): a call that     *)
(* succeeds returns the very state it asked for, a replay that of its      *)
(* path, a tactic that fails for whatever reason the state it was run on.  *)
(***************************************************************************)
Contract ==
  at = "idle" /\ ~overran =>
    /\ result.ok => result.state = call.aim
    /\ ~result.ok /\ call.op = "run" => result.state = call.parent

(***************************************************************************)
(* A tactic with a budget comes back even from a server that hangs, and    *)
(* every call does from one that does not, however late its answers are.   *)
(***************************************************************************)
CallsReturn ==
  /\ at = "join" ~> at # "join"
  /\ at # "idle" ~> at = "idle" \/ stuck
=============================================================================
