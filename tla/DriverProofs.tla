---------------------------- MODULE DriverProofs ----------------------------
(***************************************************************************)
(* Proofs about Driver, for any tactics, budgets, grace and number of      *)
(* calls: with a server that keeps its own timeout one request at a time   *)
(* is under way, the guard never fires, and every call returns the state   *)
(* it was asked for.                                                       *)
(***************************************************************************)
EXTENDS Driver, SequenceTheorems, TLAPS

Script == Seq(Tactics)
Message == [id : Nat, kind : {"start", "run", "goals"}, state : Script, limit : Nat]
Reply == [id : Nat, says : Says, state : Script]
StepType == [id : Nat, parent : States, aim : States, budget : Nat]
CallType == [op : {"none", "start", "run", "refresh", "replay"}, parent : States, aim : States]
ResultType == [ok : BOOLEAN, finished : BOOLEAN, state : States]
Waiting == {"start", "run", "goals"}

\* The server's own timeout ends before the guard, for every budget.
LEMMA Timeouts ==
  ASSUME NEW b \in Nat
  PROVE  NativeTimeout(b) \in Nat \ {0} /\ (b # 0 => NativeTimeout(b) < Guard(b))
<1>1. Rounded(b) \in Nat /\ 2 * Rounded(b) <= b + 1
  BY DEF Rounded
<1> DEFINE r == IF Rounded(b) < 1 THEN 1 ELSE Rounded(b)
<1>2. r \in Nat \ {0} /\ (b # 0 => 2 * r <= b + 1)
  BY <1>1
<1> HIDE DEF r
<1>3. NativeTimeout(b) = 2 * r
  BY DEF NativeTimeout, r
<1>4. Guard(b) = b + Grace /\ Grace \in Nat /\ Grace > 2
  BY DriverConstants DEF Guard
<1>5. QED BY <1>2, <1>3, <1>4

LEMMA StatesType == NoState \in States /\ NoState \notin Script /\ Script \subseteq States
  BY DriverConstants DEF States, Script

\* What is known of a state of the driver whatever the server does.
Typed ==
  /\ TypeOK
  /\ at = "next" => result.ok /\ result.state \in Script /\ todo # <<>>
  /\ at \in Waiting \cup {"join"} => step.aim \in Script
  /\ at = "join" => step.budget # 0
  /\ box # Nothing => at = "join"
  /\ at # "join" => waited = 0
  /\ wire = <<>> => busy = 0

LEMMA Types ==
  ASSUME TypeOK
  PROVE  /\ at \in Ats /\ todo \in Script /\ waited \in Nat /\ busy \in Nat
         /\ call \in CallType /\ step \in StepType /\ box \in {Nothing} \cup Reply
         /\ result \in ResultType /\ wire \in Seq(Message) /\ answers \in Seq(Reply)
         /\ readers \subseteq 1..sent /\ stuck \in BOOLEAN /\ overran \in BOOLEAN
         /\ sent \in Nat /\ calls \in 0..MaxCalls
BY DEF TypeOK, Script, CallType, StepType, Reply, ResultType, Message

-----------------------------------------------------------------------------
(* A request goes out.                                                     *)

\* What every action that sends a request does.
Sends(l) ==
  /\ \E kind \in {"start", "run", "goals"} :
       wire' = Append(wire, [id |-> sent + 1, kind |-> kind, state |-> step'.aim, limit |-> l])
  /\ l \in Nat /\ sent' = sent + 1
  /\ step' \in StepType /\ step'.id = sent + 1 /\ step'.aim \in Script
  /\ \/ at' \in Waiting /\ readers' = readers
     \/ at' = "join" /\ readers' = readers \cup {sent + 1}
        /\ step'.budget # 0 /\ l = NativeTimeout(step'.budget)

LEMMA TacticSends ==
  ASSUME TypeOK, NEW parent \in Script, NEW t \in Tactics, NEW b \in Nat, SendTactic(parent, t, b)
  PROVE  \E l : Sends(l) /\ step'.parent = parent /\ step'.aim = Append(parent, t)
<1> DEFINE aim == Append(parent, t)
           l == IF b = 0 THEN 0 ELSE NativeTimeout(b)
<1>1. aim \in Script
  BY DEF Script
<1>2. parent \in States /\ aim \in States
  BY <1>1, StatesType
<1>3. sent \in Nat
  BY Types
<1>4. l \in Nat
  BY Timeouts
<1>5. /\ wire' = Append(wire, [id |-> sent + 1, kind |-> "run", state |-> aim, limit |-> l])
      /\ sent' = sent + 1
      /\ step' = [id |-> sent + 1, parent |-> parent, aim |-> aim, budget |-> b]
      /\ IF b = 0 THEN at' = "run" /\ UNCHANGED readers
                  ELSE at' = "join" /\ readers' = readers \cup {sent + 1}
  BY DEF SendTactic, Request
<1> HIDE DEF aim
<1>6. step' \in StepType /\ step'.id = sent + 1 /\ step'.aim = aim /\ step'.parent = parent /\ step'.budget = b
  BY <1>2, <1>3, <1>5 DEF StepType
<1>7. Sends(l)
  BY <1>1, <1>4, <1>5, <1>6 DEF Sends, Waiting
<1>8. QED BY <1>6, <1>7 DEF aim

LEMMA StartSends ==
  ASSUME TypeOK, SendStart
  PROVE  \E l : Sends(l) /\ at' = "start" /\ step'.aim = <<>>
<1>1. sent \in Nat /\ NoState \in States /\ <<>> \in Script /\ <<>> \in States
  BY Types, StatesType, EmptySeq DEF Script
<1>2. /\ wire' = Append(wire, [id |-> sent + 1, kind |-> "start", state |-> <<>>, limit |-> 0])
      /\ sent' = sent + 1 /\ at' = "start" /\ readers' = readers
      /\ step' = [id |-> sent + 1, parent |-> NoState, aim |-> <<>>, budget |-> 0]
  BY DEF SendStart, Request
<1>3. step' \in StepType /\ step'.id = sent + 1 /\ step'.aim = <<>>
  BY <1>1, <1>2 DEF StepType
<1>4. Sends(0)
  BY <1>1, <1>2, <1>3 DEF Sends, Waiting
<1>5. QED BY <1>2, <1>3, <1>4

LEMMA GoalsSends ==
  ASSUME TypeOK, NEW parent \in States, NEW aim \in Script, SendGoals(parent, aim), readers' = readers
  PROVE  \E l : Sends(l) /\ at' = "goals" /\ step'.parent = parent /\ step'.aim = aim
<1>1. sent \in Nat /\ aim \in States
  BY Types, StatesType
<1>2. /\ wire' = Append(wire, [id |-> sent + 1, kind |-> "goals", state |-> aim, limit |-> 0])
      /\ sent' = sent + 1 /\ at' = "goals"
      /\ step' = [id |-> sent + 1, parent |-> parent, aim |-> aim, budget |-> 0]
  BY DEF SendGoals, Request
<1>3. step' \in StepType /\ step'.id = sent + 1 /\ step'.aim = aim /\ step'.parent = parent
  BY <1>1, <1>2 DEF StepType
<1>4. Sends(0)
  BY <1>1, <1>2, <1>3 DEF Sends, Waiting
<1>5. QED BY <1>2, <1>3, <1>4

\* The types that a request leaves.
LEMMA SendsType ==
  ASSUME TypeOK, NEW l, Sends(l)
  PROVE  /\ wire' \in Seq(Message) /\ wire' # <<>> /\ sent' \in Nat /\ at' \in Ats
         /\ step' \in StepType /\ readers' \subseteq 1..sent'
<1>1. wire \in Seq(Message) /\ sent \in Nat /\ readers \subseteq 1..sent
  BY Types
<1>2. PICK kind \in {"start", "run", "goals"} :
        wire' = Append(wire, [id |-> sent + 1, kind |-> kind, state |-> step'.aim, limit |-> l])
  BY DEF Sends
<1> DEFINE w == [id |-> sent + 1, kind |-> kind, state |-> step'.aim, limit |-> l]
<1>3. w \in Message
  BY <1>1 DEF Sends, Message
<1> HIDE DEF w
<1>4. wire' \in Seq(Message) /\ wire' # <<>>
  BY <1>1, <1>2, <1>3 DEF w
<1>5. sent' = sent + 1 /\ (readers' = readers \/ readers' = readers \cup {sent + 1})
  BY DEF Sends
<1>6. sent' \in Nat /\ readers' \subseteq 1..sent'
  <2> DEFINE n == sent + 1
  <2>1. n \in Nat /\ n \in 1..n /\ 1..sent \subseteq 1..n
    BY <1>1
  <2>2. readers' \subseteq readers \cup {n} /\ sent' = n
    BY <1>5
  <2> HIDE DEF n
  <2>3. QED BY <1>1, <2>1, <2>2
<1>7. QED BY <1>4, <1>6 DEF Sends, Ats, Waiting

-----------------------------------------------------------------------------
(* The calls of the search.                                                *)

\* What every call on the driver, and every tactic of a replay, does.
Asks ==
  /\ at \in {"idle", "next"}
  /\ \E l : Sends(l)
  /\ call' \in CallType /\ calls' \in 0..MaxCalls /\ todo' \in Script
  /\ UNCHANGED <<box, waited, result, answers, server>>
  /\ \/ /\ at = "idle"
        /\ step'.aim \o todo' = call'.aim
        /\ call'.op # "replay" => todo' = <<>>
        /\ call'.op = "run" => step'.parent = call'.parent
     \/ at = "next" /\ call' = call /\ step'.aim \o todo' = result.state \o todo

LEMMA Calling ==
  ASSUME TypeOK, NEW op \in {"start", "run", "refresh", "replay"},
         NEW parent \in States, NEW aim \in States, Called(op, parent, aim)
  PROVE  /\ at = "idle" /\ call' = [op |-> op, parent |-> parent, aim |-> aim] /\ call' \in CallType
         /\ calls' \in 0..MaxCalls /\ UNCHANGED <<box, waited, result, answers, server>>
<1>1. calls \in 0..MaxCalls /\ MaxCalls \in Nat
  BY Types, DriverConstants
<1>2. calls < MaxCalls /\ calls' = calls + 1
  BY DEF Called
<1>3. calls' \in 0..MaxCalls
  BY <1>1, <1>2
<1>4. QED BY <1>3 DEF Called, CallType

LEMMA EmptyEnds ==
  /\ <<>> \in Script
  /\ \A s \in Script : s \o <<>> = s /\ <<>> \o s = s
BY EmptySeq, ConcatEmptySeq DEF Script

LEMMA StartAsks == ASSUME TypeOK, Start PROVE Asks
<1>1. /\ Called("start", NoState, <<>>) /\ SendStart /\ todo' = <<>>
  BY DEF Start
<1>2. NoState \in States /\ <<>> \in States
  BY StatesType, EmptyEnds
<1>3. /\ at = "idle" /\ call' = [op |-> "start", parent |-> NoState, aim |-> <<>>] /\ call' \in CallType
      /\ calls' \in 0..MaxCalls /\ UNCHANGED <<box, waited, result, answers, server>>
  BY <1>1, <1>2, Calling
<1>4. PICK l : Sends(l) /\ step'.aim = <<>>
  BY <1>1, StartSends
<1>5. step'.aim \o todo' = call'.aim
  BY <1>1, <1>3, <1>4, EmptyEnds
<1>6. QED BY <1>1, <1>3, <1>4, <1>5, EmptyEnds DEF Asks

LEMMA RunAsks ==
  ASSUME TypeOK, NEW t \in Tactics, NEW b \in Budgets, Run(t, b)
  PROVE  Asks
<1> DEFINE s == result.state
<1>1. /\ s # NoState /\ Called("run", s, Append(s, t)) /\ SendTactic(s, t, b) /\ todo' = <<>>
  BY DEF Run
<1>2. s \in States
  BY Types DEF ResultType
<1> HIDE DEF s
<1>3. s \in Script /\ Append(s, t) \in Script
  BY <1>1, <1>2 DEF States, Script
<1>4. s \in States /\ Append(s, t) \in States
  BY <1>3, StatesType
<1>5. /\ at = "idle" /\ call' = [op |-> "run", parent |-> s, aim |-> Append(s, t)] /\ call' \in CallType
      /\ calls' \in 0..MaxCalls /\ UNCHANGED <<box, waited, result, answers, server>>
  BY <1>1, <1>4, Calling
<1>6. b \in Nat
  BY DriverConstants
<1>7. PICK l : Sends(l) /\ step'.parent = s /\ step'.aim = Append(s, t)
  BY <1>1, <1>3, <1>6, TacticSends
<1>8. step'.aim \o todo' = call'.aim
  BY <1>1, <1>3, <1>5, <1>7, EmptyEnds
<1>9. QED BY <1>1, <1>5, <1>7, <1>8, EmptyEnds DEF Asks

LEMMA RefreshAsks == ASSUME TypeOK, Refresh PROVE Asks
<1> DEFINE s == result.state
<1>1. /\ s # NoState /\ Called("refresh", NoState, s) /\ SendGoals(NoState, s) /\ todo' = <<>>
      /\ readers' = readers
  BY DEF Refresh
<1>2. s \in States
  BY Types DEF ResultType
<1> HIDE DEF s
<1>3. s \in Script /\ NoState \in States
  BY <1>1, <1>2, StatesType DEF States, Script
<1>4. /\ at = "idle" /\ call' = [op |-> "refresh", parent |-> NoState, aim |-> s] /\ call' \in CallType
      /\ calls' \in 0..MaxCalls /\ UNCHANGED <<box, waited, result, answers, server>>
  BY <1>1, <1>2, <1>3, Calling
<1>5. PICK l : Sends(l) /\ step'.aim = s
  BY <1>1, <1>3, GoalsSends
<1>6. step'.aim \o todo' = call'.aim
  BY <1>1, <1>3, <1>4, <1>5, EmptyEnds
<1>7. QED BY <1>1, <1>4, <1>5, <1>6, EmptyEnds DEF Asks

LEMMA ReplayAsks == ASSUME TypeOK, NEW path \in Paths, ReplayFromRoot(path) PROVE Asks
<1>1. Called("replay", NoState, path) /\ SendStart /\ todo' = path
  BY DEF ReplayFromRoot
<1>2. path \in Script
  BY DriverConstants DEF Paths, Script
<1>3. path \in States /\ NoState \in States
  BY <1>2, StatesType
<1>4. /\ at = "idle" /\ call' = [op |-> "replay", parent |-> NoState, aim |-> path] /\ call' \in CallType
      /\ calls' \in 0..MaxCalls /\ UNCHANGED <<box, waited, result, answers, server>>
  BY <1>1, <1>3, Calling
<1>5. PICK l : Sends(l) /\ step'.aim = <<>>
  BY <1>1, StartSends
<1>6. step'.aim \o todo' = call'.aim
  BY <1>1, <1>2, <1>4, <1>5, EmptyEnds
<1>7. QED BY <1>1, <1>2, <1>4, <1>5, <1>6 DEF Asks

LEMMA NextAsks == ASSUME Typed, NextTactic PROVE Asks
<1>1. /\ at = "next" /\ SendTactic(result.state, Head(todo), DefaultBudget) /\ todo' = Tail(todo)
      /\ UNCHANGED <<call, box, waited, result, answers, server, calls>>
  BY DEF NextTactic, ReplayFrom
<1>2. result.state \in Script /\ todo # <<>> /\ todo \in Script
  BY <1>1, Types DEF Typed
<1>3. Head(todo) \in Tactics /\ Tail(todo) \in Script /\ DefaultBudget \in Nat
  BY <1>2, DriverConstants DEF Script
<1>4. PICK l : Sends(l) /\ step'.aim = Append(result.state, Head(todo))
  BY <1>1, <1>2, <1>3, TacticSends DEF Typed
<1>5. \A s, q \in Seq(Tactics) : q # <<>> => Append(s, Head(q)) \o Tail(q) = s \o q
  OBVIOUS
<1>6. step'.aim \o todo' = result.state \o todo
  BY <1>1, <1>2, <1>4, <1>5 DEF Script
<1>7. call \in CallType /\ calls \in 0..MaxCalls
  BY Types DEF Typed
<1>8. QED BY <1>1, <1>3, <1>4, <1>6, <1>7 DEF Asks

-----------------------------------------------------------------------------
(* An answer arrives.                                                      *)

LEMMA FailedType ==
  ASSUME NEW s \in States
  PROVE  Failed(s) \in ResultType /\ ~Failed(s).ok /\ Failed(s).state = s
BY DEF Failed, ResultType

LEMMA NoStepType == NoStep \in StepType
BY StatesType DEF NoStep, StepType

\* A call that returns, to the search or to the replay of a path.
Returns ==
  /\ result' \in ResultType /\ step' = NoStep
  /\ \/ at' = "idle" /\ (result'.ok => todo = <<>>)
     \/ at' = "next" /\ result'.ok /\ todo # <<>>
  /\ result'.ok => result'.state \in Script
  /\ UNCHANGED <<call, todo, readers, wire, sent>>

LEMMA ReturnIs ==
  ASSUME NEW r \in ResultType, r.ok => r.state \in Script, Return(r)
  PROVE  Returns /\ result' = r
BY DEF Return, Returns

\* What follows an answer: the call fails, returns the state of the step or of
\* the answer, or goes on to ask for the goals of that.
LEMMA AnsweredIs ==
  ASSUME TypeOK, step.aim \in Script, NEW a \in Reply, Answered(a)
  PROVE  \/ Returns /\ ~result'.ok /\ result'.state = step.parent
         \/ Returns /\ result'.ok /\ result'.state \in {step.aim, a.state}
         \/ /\ \E l : Sends(l) /\ at' = "goals" /\ step'.parent = step.parent /\ step'.aim = a.state
            /\ UNCHANGED <<call, todo, result, readers>>
<1>1. step.parent \in States /\ a.state \in Script /\ step.aim \in States /\ a.state \in States
  BY Types, StatesType DEF StepType, Reply
<1>2. CASE a.says = "error"
  <2>1. Return(Failed(step.parent))
    BY <1>2 DEF Answered
  <2>2. QED BY <1>1, <2>1, FailedType, ReturnIs
<1>3. CASE a.says # "error" /\ at = "goals"
  <2> DEFINE r == [ok |-> TRUE, finished |-> FALSE, state |-> step.aim]
  <2>1. Return(r)
    BY <1>3 DEF Answered
  <2>2. r \in ResultType /\ r.ok /\ r.state = step.aim
    BY <1>1 DEF ResultType
  <2> HIDE DEF r
  <2>3. QED BY <1>1, <2>1, <2>2, ReturnIs
<1>4. CASE a.says # "error" /\ at # "goals" /\ a.says = "finished"
  <2> DEFINE r == [ok |-> TRUE, finished |-> TRUE, state |-> a.state]
  <2>1. Return(r)
    BY <1>4 DEF Answered
  <2>2. r \in ResultType /\ r.ok /\ r.state = a.state
    BY <1>1 DEF ResultType
  <2> HIDE DEF r
  <2>3. QED BY <1>1, <2>1, <2>2, ReturnIs
<1>5. CASE a.says # "error" /\ at # "goals" /\ a.says # "finished"
  <2>1. SendGoals(step.parent, a.state) /\ UNCHANGED <<call, todo, result, readers>>
    BY <1>5 DEF Answered
  <2>2. QED BY <1>1, <2>1, GoalsSends
<1>6. QED BY <1>2, <1>3, <1>4, <1>5

\* What a reader makes of an answer is an answer, and the same one if it is its own.
LEMMA TakenType ==
  ASSUME NEW id, NEW a \in Reply, NEW b \in Taken(id, a)
  PROVE  b \in Reply /\ (a.id = id => b = a)
<1>1. b = a \/ b = [a EXCEPT !.says = "error"]
  BY DEF Taken
<1>2. [a EXCEPT !.says = "error"] \in Reply
  BY DEF Reply, Says
<1>3. a.id = id => b = a
  BY DEF Taken
<1>4. QED BY <1>1, <1>2, <1>3

\* An answer that the driver takes up, and whether it came from the box.
Hears(a, boxed) ==
  /\ a \in Reply
  /\ \/ Returns /\ ~result'.ok /\ result'.state = step.parent
     \/ Returns /\ result'.ok /\ result'.state \in {step.aim, a.state}
     \/ /\ \E l : Sends(l) /\ at' = "goals" /\ step'.parent = step.parent /\ step'.aim = a.state
        /\ UNCHANGED <<call, todo, result, readers>>
  /\ UNCHANGED <<server, calls>>
  /\ IF boxed THEN at = "join" /\ box = a /\ box' = Nothing /\ waited' = 0 /\ UNCHANGED answers
     ELSE /\ at \in Waiting /\ answers # <<>> /\ answers' = Tail(answers)
          /\ (Head(answers).id = step.id => a = Head(answers)) /\ UNCHANGED <<box, waited>>

LEMMA ReceiveHears == ASSUME Typed, Receive PROVE \E a : Hears(a, FALSE)
<1>1. /\ at \in Waiting /\ answers # <<>> /\ answers' = Tail(answers)
      /\ UNCHANGED <<box, waited, server, calls>>
  BY DEF Receive, Waiting
<1>2. PICK a \in Taken(step.id, Head(answers)) : Answered(a)
  BY DEF Receive
<1>3. Head(answers) \in Reply
  BY <1>1, Types DEF Typed
<1>4. a \in Reply /\ (Head(answers).id = step.id => a = Head(answers))
  BY <1>3, TakenType
<1>5. TypeOK /\ step.aim \in Script
  BY <1>1 DEF Typed
<1>6. \/ Returns /\ ~result'.ok /\ result'.state = step.parent
      \/ Returns /\ result'.ok /\ result'.state \in {step.aim, a.state}
      \/ /\ \E l : Sends(l) /\ at' = "goals" /\ step'.parent = step.parent /\ step'.aim = a.state
         /\ UNCHANGED <<call, todo, result, readers>>
  BY <1>2, <1>4, <1>5, AnsweredIs
<1>7. QED BY <1>1, <1>4, <1>6 DEF Hears

LEMMA JoinedHears == ASSUME Typed, Joined PROVE \E a : Hears(a, TRUE)
<1>1. /\ at = "join" /\ box # Nothing /\ Answered(box) /\ box' = Nothing /\ waited' = 0
      /\ UNCHANGED <<answers, server, calls>>
  BY DEF Joined
<1>2. box \in Reply /\ TypeOK /\ step.aim \in Script
  BY <1>1, Types DEF Typed
<1>3. \/ Returns /\ ~result'.ok /\ result'.state = step.parent
      \/ Returns /\ result'.ok /\ result'.state \in {step.aim, box.state}
      \/ /\ \E l : Sends(l) /\ at' = "goals" /\ step'.parent = step.parent /\ step'.aim = box.state
         /\ UNCHANGED <<call, todo, result, readers>>
  BY <1>1, <1>2, AnsweredIs
<1>4. Hears(box, TRUE)
  BY <1>1, <1>2, <1>3 DEF Hears
<1>5. QED BY <1>4

LEMMA AbandonReturns ==
  ASSUME Typed, Abandon
  PROVE  /\ at = "join" /\ box = Nothing /\ waited >= Guard(step.budget) /\ Returns /\ waited' = 0
         /\ ~result'.ok /\ result'.state = step.parent
         /\ UNCHANGED <<box, answers, server, calls>>
<1>1. step.parent \in States
  BY Types DEF Typed, StepType
<1>2. Return(Failed(step.parent))
  BY DEF Abandon
<1>3. QED BY <1>1, <1>2, FailedType, ReturnIs DEF Abandon, Expired

-----------------------------------------------------------------------------
(* Types.                                                                  *)

LEMMA TypesNext ==
  ASSUME at' \in Ats, todo' \in Script, waited' \in Nat, busy' \in Nat,
         call' \in CallType, step' \in StepType, box' \in {Nothing} \cup Reply,
         result' \in ResultType, wire' \in Seq(Message), answers' \in Seq(Reply),
         readers' \subseteq 1..sent', stuck' \in BOOLEAN, overran' \in BOOLEAN,
         sent' \in Nat, calls' \in 0..MaxCalls
  PROVE  TypeOK'
BY DEF TypeOK, Script, CallType, StepType, Reply, ResultType, Message

LEMMA AsksTyped == ASSUME Typed, Asks PROVE Typed'
<1>1. PICK l : Sends(l)
  BY DEF Asks
<1>2. /\ wire' \in Seq(Message) /\ wire' # <<>> /\ sent' \in Nat /\ at' \in Ats
      /\ step' \in StepType /\ readers' \subseteq 1..sent'
  BY <1>1, SendsType DEF Typed
<1>3. TypeOK'
  BY <1>2, Types, TypesNext DEF Typed, Asks, server
<1>4. at' \in Waiting \cup {"join"} /\ step'.aim \in Script /\ (at' = "join" => step'.budget # 0)
  BY <1>1 DEF Sends, Waiting
<1>5. box' = Nothing /\ waited' = 0
  BY DEF Asks, Typed
<1>6. QED BY <1>2, <1>3, <1>4, <1>5 DEF Typed, Waiting

\* A call that returns leaves the types of what it changes.
LEMMA ReturnsTyped ==
  ASSUME Typed, Returns, box' = Nothing, waited' = 0, UNCHANGED <<server, calls>>,
         answers' \in Seq(Reply)
  PROVE  Typed'
<1>1. /\ result' \in ResultType /\ step' = NoStep /\ at' \in {"idle", "next"}
      /\ at' = "next" => result'.ok /\ todo # <<>>
      /\ result'.ok => result'.state \in Script
      /\ UNCHANGED <<call, todo, readers, wire, sent>>
  BY DEF Returns
<1>2. TypeOK'
  BY <1>1, NoStepType, Types, TypesNext DEF Typed, Ats, server
<1>3. QED BY <1>1, <1>2 DEF Typed, Waiting, server

LEMMA HearsTyped == ASSUME Typed, NEW a, NEW boxed \in {TRUE, FALSE}, Hears(a, boxed) PROVE Typed'
<1>1. answers' \in Seq(Reply)
  <2>1. answers \in Seq(Reply)
    BY Types DEF Typed
  <2>2. \/ answers' = answers
        \/ answers # <<>> /\ answers' = Tail(answers)
    BY DEF Hears
  <2>3. QED BY <2>1, <2>2
<1>2. box' = Nothing /\ waited' = 0 /\ UNCHANGED <<server, calls>>
  BY DEF Hears, Typed, Waiting
<1>3. CASE Returns
  BY <1>1, <1>2, <1>3, ReturnsTyped
<1>4. CASE /\ \E l : Sends(l) /\ at' = "goals" /\ step'.parent = step.parent /\ step'.aim = a.state
           /\ UNCHANGED <<call, todo, result, readers>>
  <2>1. PICK l : Sends(l) /\ at' = "goals" /\ step'.aim = a.state
    BY <1>4
  <2>2. /\ wire' \in Seq(Message) /\ wire' # <<>> /\ sent' \in Nat /\ at' \in Ats
        /\ step' \in StepType /\ readers' \subseteq 1..sent'
    BY <2>1, SendsType DEF Typed
  <2>3. TypeOK'
    BY <1>1, <1>2, <1>4, <2>2, Types, TypesNext DEF Typed, server
  <2>4. step'.aim \in Script
    BY <2>1 DEF Sends
  <2>5. QED BY <1>2, <2>1, <2>2, <2>3, <2>4 DEF Typed
<1>5. QED BY <1>3, <1>4 DEF Hears

LEMMA WorkerTyped == ASSUME Typed, NEW id \in readers, WorkerReceives(id) PROVE Typed'
<1>1. /\ answers # <<>> /\ answers' = Tail(answers) /\ readers' = readers \ {id}
      /\ \/ at = "join" /\ id = step.id /\ box' \in Taken(id, Head(answers))
         \/ ~(at = "join" /\ id = step.id) /\ box' = box
      /\ UNCHANGED <<at, call, step, todo, waited, result, wire, server, sent, calls>>
  BY DEF WorkerReceives
<1>2. Head(answers) \in Reply /\ answers' \in Seq(Reply)
  BY <1>1, Types DEF Typed
<1>3. box' \in {Nothing} \cup Reply /\ (box' # Nothing => at = "join")
  BY <1>1, <1>2, TakenType, Types DEF Typed
<1>4. TypeOK'
  BY <1>1, <1>2, <1>3, Types, TypesNext DEF Typed, server
<1>5. QED BY <1>1, <1>3, <1>4 DEF Typed, server

LEMMA AnswerTyped == ASSUME Typed, Answer PROVE Typed'
<1>1. /\ wire # <<>> /\ wire' = Tail(wire) /\ busy' = 0
      /\ UNCHANGED <<caller, readers, stuck, overran, sent, calls>>
      /\ \E says \in Says :
           answers' = Append(answers, [id |-> Head(wire).id, says |-> says, state |-> Head(wire).state])
  BY DEF Answer, Says
<1>2. Head(wire) \in Message /\ wire' \in Seq(Message) /\ answers \in Seq(Reply)
  BY <1>1, Types DEF Typed
<1>3. PICK says \in Says :
        answers' = Append(answers, [id |-> Head(wire).id, says |-> says, state |-> Head(wire).state])
  BY <1>1
<1> DEFINE a == [id |-> Head(wire).id, says |-> says, state |-> Head(wire).state]
<1>4. a \in Reply
  BY <1>2 DEF Reply, Message
<1> HIDE DEF a
<1>5. answers' \in Seq(Reply)
  BY <1>2, <1>3, <1>4 DEF a
<1>6. TypeOK'
  BY <1>1, <1>2, <1>5, Types, TypesNext DEF Typed, caller
<1>7. QED BY <1>1, <1>6 DEF Typed, caller

LEMMA TickIs ==
  ASSUME Typed, Tick
  PROVE  /\ at = "join" /\ box = Nothing /\ waited' = waited + 1 /\ answers = <<>>
         /\ \/ (wire = <<>> \/ overran) /\ UNCHANGED <<busy, overran>>
            \/ wire # <<>> /\ Head(wire).limit # 0 /\ busy >= Head(wire).limit /\ overran' = TRUE /\ busy' = 0
            \/ /\ wire # <<>> /\ ~overran /\ ~(Head(wire).limit # 0 /\ busy >= Head(wire).limit)
               /\ overran' = FALSE /\ busy' = busy + 1
         /\ UNCHANGED <<at, call, step, todo, box, result, readers, wire, answers, stuck, sent, calls>>
BY DEF Tick

LEMMA ServerTyped == ASSUME Typed, Hang \/ Tick PROVE Typed'
<1>1. CASE Hang
  <2>1. TypeOK'
    BY <1>1, Types, TypesNext DEF Hang, Typed, caller
  <2>2. QED BY <1>1, <2>1 DEF Hang, Typed, caller
<1>2. CASE Tick
  <2>1. waited \in Nat /\ busy \in Nat /\ overran \in BOOLEAN
    BY Types DEF Typed
  <2>2. waited' \in Nat
    BY <1>2, <2>1, TickIs
  <2>3. busy' = busy \/ busy' = 0 \/ busy' = busy + 1
    BY <1>2, TickIs, Zenon
  <2>4. overran' = overran \/ overran' = TRUE \/ overran' = FALSE
    BY <1>2, TickIs, Zenon
  <2>5. TypeOK'
    <3>1. busy' \in Nat
      BY <2>1, <2>3
    <3>2. overran' \in BOOLEAN
      BY <2>1, <2>4, Zenon
    <3>3. QED BY <1>2, <2>2, <3>1, <3>2, TickIs, Types, TypesNext DEF Typed
  <2>6. QED BY <1>2, <2>5, TickIs DEF Typed
<1>3. QED BY <1>1, <1>2

\* A new connection leaves nothing of the old one.
LEMMA ReconnectIs ==
  ASSUME Typed, Reconnect
  PROVE  /\ at = "idle" /\ readers' = {} /\ wire' = <<>> /\ answers' = <<>> /\ busy' = 0
         /\ stuck' \in BOOLEAN /\ overran' = stuck' /\ result' = Failed(NoState)
         /\ call' = Idle /\ todo' = <<>> /\ sent' = 0 /\ UNCHANGED <<at, step, box, waited, calls>>
BY Types DEF Typed, Reconnect, Close

LEMMA ReconnectTyped == ASSUME Typed, Reconnect PROVE Typed'
<1>1. Idle \in CallType /\ Failed(NoState) \in ResultType /\ <<>> \in Script
  BY StatesType, FailedType, EmptyEnds DEF Idle, CallType
<1>2. <<>> \in Seq(Message) /\ <<>> \in Seq(Reply)
  BY EmptySeq
<1>3. TypeOK'
  BY <1>1, <1>2, ReconnectIs, Types, TypesNext DEF Typed
<1>4. QED BY <1>3, ReconnectIs DEF Typed, Waiting

\* The steps of the driver, by what they do.
LEMMA NextIs ==
  ASSUME Typed, Next
  PROVE  \/ Asks \/ (\E a : Hears(a, TRUE) \/ Hears(a, FALSE)) \/ Abandon
         \/ (\E id \in readers : WorkerReceives(id)) \/ Answer \/ Hang \/ Tick \/ Reconnect
<1>1. TypeOK
  BY DEF Typed
<1>2. CASE Calls
  BY <1>1, <1>2, StartAsks, RefreshAsks, RunAsks, ReplayAsks DEF Calls
<1>3. CASE DriverStep
  BY <1>3, NextAsks, ReceiveHears, JoinedHears DEF DriverStep
<1>4. QED BY <1>2, <1>3 DEF Next

LEMMA TypedStep == Typed /\ [Next]_vars => Typed'
<1> SUFFICES ASSUME Typed, [Next]_vars PROVE Typed'
  OBVIOUS
<1>1. CASE Next
  <2>1. CASE Abandon
    <3>1. answers' = answers /\ answers \in Seq(Reply)
      BY <2>1, AbandonReturns, Types DEF Typed
    <3>2. Returns /\ box' = Nothing /\ waited' = 0 /\ UNCHANGED <<server, calls>>
      BY <2>1, AbandonReturns
    <3>3. QED BY <3>1, <3>2, ReturnsTyped
  <2>2. QED
    BY <1>1, <2>1, NextIs, AsksTyped, HearsTyped, WorkerTyped, AnswerTyped, ServerTyped, ReconnectTyped
<1>2. CASE UNCHANGED vars
  BY <1>2 DEF vars, caller, server, Typed, TypeOK
<1>3. QED BY <1>1, <1>2

LEMMA InitTyped == Init => Typed
<1> SUFFICES ASSUME Init PROVE Typed
  OBVIOUS
<1>1. Idle \in CallType /\ Failed(NoState) \in ResultType /\ <<>> \in Script /\ NoStep \in StepType
  BY StatesType, FailedType, EmptyEnds, NoStepType DEF Idle, CallType
<1>2. <<>> \in Seq(Message) /\ <<>> \in Seq(Reply) /\ 0 \in 0..MaxCalls
  BY EmptySeq, DriverConstants
<1>3. TypeOK
  BY <1>1, <1>2 DEF Init, TypeOK, Ats, Script, CallType, StepType, Reply, ResultType, Message
<1>4. QED BY <1>3 DEF Init, Typed, Waiting

\* The driver's bookkeeping is well typed whatever the server does, hanging,
\* late or answering a request that was given up.
THEOREM TypeCorrect == Spec => []TypeOK
<1>1. Spec => []Typed
  BY InitTyped, TypedStep, PTL DEF Spec
<1>2. Typed => TypeOK
  BY DEF Typed
<1>3. QED BY <1>1, <1>2, PTL

-----------------------------------------------------------------------------
(* One request at a time.                                                  *)

Quiet == wire = <<>> /\ answers = <<>> /\ readers = {}

\* Whoever reads the answer to the tactic of the caller in join.
Reader == IF at = "join" THEN {step.id} ELSE {}

Asked ==
  /\ \E w \in Message :
       /\ wire = <<w>> /\ w.id = step.id /\ w.state = step.aim
       /\ at = "join" => w.limit = NativeTimeout(step.budget) /\ waited = busy
  /\ answers = <<>> /\ readers = Reader /\ box = Nothing

Told ==
  /\ \E a \in Reply : answers = <<a>> /\ a.id = step.id /\ a.state = step.aim
  /\ wire = <<>> /\ readers = Reader /\ box = Nothing

Boxed ==
  /\ at = "join" /\ box # Nothing /\ box.state = step.aim
  /\ Quiet

\* What the call that is under way will return when its step succeeds.
Promise ==
  /\ at = "next" => result.state \o todo = call.aim
  /\ at # "next" => step.aim \o todo = call.aim
  /\ call.op # "replay" => todo = <<>>
  /\ at # "next" /\ call.op = "run" => step.parent = call.parent

OneRequest ==
  /\ at \in {"idle", "next"} => Quiet
  /\ at \in Waiting \cup {"join"} => Asked \/ Told \/ Boxed
  /\ at = "join" => waited <= NativeTimeout(step.budget)

Synced ==
  ~overran =>
    /\ OneRequest
    /\ at # "idle" => Promise
    /\ at = "idle" => /\ result.ok => result.state = call.aim
                      /\ ~result.ok /\ call.op = "run" => result.state = call.parent

LEMMA NotNothing == ASSUME NEW a \in Reply PROVE a # Nothing
BY DEF Reply, Says, Nothing

\* The only request on the wire is one that was just sent.
LEMMA SendsAsked ==
  ASSUME Typed, wire = <<>>, answers' = <<>>, readers = {}, box' = Nothing, NEW l, Sends(l),
         waited' = 0, busy' = 0
  PROVE  Asked' /\ (at' = "join" => waited' <= NativeTimeout(step'.budget)) /\ at' \in Waiting \cup {"join"}
<1>1. PICK kind \in {"start", "run", "goals"} :
        wire' = Append(wire, [id |-> sent + 1, kind |-> kind, state |-> step'.aim, limit |-> l])
  BY DEF Sends
<1> DEFINE w == [id |-> sent + 1, kind |-> kind, state |-> step'.aim, limit |-> l]
<1>2. sent \in Nat
  BY Types DEF Typed
<1>3. w \in Message /\ w.id = step'.id /\ w.state = step'.aim /\ w.limit = l
  BY <1>2 DEF Sends, Message
<1> HIDE DEF w
<1>4. wire' = <<w>>
  BY <1>1 DEF w
<1>5. at' = "join" => l = NativeTimeout(step'.budget) /\ readers' = {step'.id}
  BY DEF Sends, Waiting
<1>6. at' # "join" => readers' = {}
  BY DEF Sends
<1>7. Asked'
  BY <1>3, <1>4, <1>5, <1>6 DEF Asked, Reader
<1>8. at' = "join" => waited' <= NativeTimeout(step'.budget)
  <2>1. step' \in StepType
    BY DEF Sends
  <2>2. step'.budget \in Nat
    BY <2>1 DEF StepType
  <2>3. QED BY <2>2, Timeouts
<1>9. QED BY <1>7, <1>8 DEF Sends

LEMMA AsksSynced == ASSUME Typed, Synced, Asks PROVE Synced'
<1> SUFFICES ASSUME ~overran PROVE Synced'
  BY DEF Asks, Synced, server
<1>1. at \in {"idle", "next"} /\ Quiet
  BY DEF Asks, Synced, OneRequest
<1>2. box' = Nothing /\ waited' = 0 /\ busy' = 0 /\ answers' = <<>>
  BY <1>1 DEF Asks, Typed, Quiet, server
<1>3. PICK l : Sends(l)
  BY DEF Asks
<1>4. /\ Asked' /\ (at' = "join" => waited' <= NativeTimeout(step'.budget))
      /\ at' \in Waiting \cup {"join"}
  BY <1>1, <1>2, <1>3, SendsAsked DEF Quiet
<1>5. OneRequest' /\ at' # "next" /\ at' # "idle"
  BY <1>4 DEF OneRequest, Waiting
<1>6. Promise'
  <2>1. CASE at = "idle"
    BY <1>5, <2>1 DEF Asks, Promise
  <2>2. CASE at = "next"
    <3>1. todo # <<>> /\ result.state \o todo = call.aim /\ call.op = "replay"
      BY <2>2 DEF Typed, Synced, Promise
    <3>2. call' = call /\ step'.aim \o todo' = result.state \o todo
      BY <2>2 DEF Asks
    <3>3. QED BY <1>5, <3>1, <3>2 DEF Promise
  <2>3. QED BY <1>1, <2>1, <2>2
<1>7. QED BY <1>5, <1>6 DEF Synced

\* An answer that is taken up is the only one, and answers the step.
LEMMA HearsOwn ==
  ASSUME Typed, OneRequest, NEW a, NEW boxed \in {TRUE, FALSE}, Hears(a, boxed)
  PROVE  /\ a.state = step.aim /\ wire = <<>> /\ answers' = <<>> /\ readers = {}
         /\ box' = Nothing /\ waited' = 0 /\ busy' = 0 /\ overran' = overran
         /\ at \in Waiting \cup {"join"}
<1>1. a \in Reply /\ UNCHANGED <<server, calls>>
  BY DEF Hears
<1>2. CASE boxed
  <2>1. at = "join" /\ box = a /\ box' = Nothing /\ waited' = 0 /\ answers' = answers
    BY <1>2 DEF Hears
  <2>2. Boxed
    BY <1>1, <2>1, NotNothing DEF OneRequest, Asked, Told
  <2>3. QED BY <1>1, <2>1, <2>2 DEF Boxed, Quiet, Typed, server
<1>3. CASE ~boxed
  <2>1. /\ at \in Waiting /\ answers # <<>> /\ answers' = Tail(answers)
        /\ (Head(answers).id = step.id => a = Head(answers)) /\ UNCHANGED <<box, waited>>
    BY <1>3 DEF Hears
  <2>2. Told /\ at # "join"
    BY <2>1 DEF OneRequest, Asked, Boxed, Waiting
  <2>3. PICK r \in Reply : answers = <<r>> /\ r.id = step.id /\ r.state = step.aim
    BY <2>2 DEF Told
  <2>4. a = r /\ answers' = <<>>
    BY <2>1, <2>3
  <2>5. QED BY <1>1, <2>1, <2>2, <2>3, <2>4 DEF Told, Reader, Typed, server
<1>4. QED BY <1>2, <1>3

LEMMA HearsSynced ==
  ASSUME Typed, Synced, NEW a, NEW boxed \in {TRUE, FALSE}, Hears(a, boxed)
  PROVE  Synced'
<1> SUFFICES ASSUME ~overran PROVE Synced'
  BY DEF Hears, Synced, server
<1>1. OneRequest /\ at # "idle" => Promise
  BY DEF Synced
<1>2. /\ a.state = step.aim /\ wire = <<>> /\ answers' = <<>> /\ readers = {}
      /\ box' = Nothing /\ waited' = 0 /\ busy' = 0 /\ at \in Waiting \cup {"join"}
  BY HearsOwn DEF Synced
<1>3. /\ step.aim \o todo = call.aim /\ (call.op # "replay" => todo = <<>>)
      /\ call.op = "run" => step.parent = call.parent
  BY <1>2 DEF Synced, Promise, Waiting
<1>4. CASE Returns
  <2>1. /\ \/ at' = "idle" /\ (result'.ok => todo = <<>>)
           \/ at' = "next"
        /\ UNCHANGED <<call, todo, readers, wire, sent>>
    BY <1>4 DEF Returns
  <2>2. /\ result'.ok => result'.state = step.aim
        /\ ~result'.ok => result'.state = step.parent
    <3>1. at' # "goals"
      BY <2>1
    <3>2. \/ ~result'.ok /\ result'.state = step.parent
          \/ result'.ok /\ result'.state \in {step.aim, a.state}
      BY <3>1 DEF Hears
    <3>3. QED BY <1>2, <3>2
  <2>3. OneRequest'
    BY <1>2, <2>1 DEF OneRequest, Quiet, Waiting
  <2>4. at' = "next" => result'.ok
    BY <1>4 DEF Returns
  <2>5. at' = "next" => Promise'
    BY <1>3, <2>1, <2>2, <2>4 DEF Promise
  <2>6. step.aim \in Script
    BY <1>2 DEF Typed
  <2>7. at' = "idle" /\ result'.ok => result'.state = call'.aim
    BY <1>3, <2>1, <2>2, <2>6, EmptyEnds
  <2>8. QED BY <1>3, <2>1, <2>2, <2>3, <2>5, <2>7 DEF Synced
<1>5. CASE /\ \E l : Sends(l) /\ at' = "goals" /\ step'.parent = step.parent /\ step'.aim = a.state
           /\ UNCHANGED <<call, todo, result, readers>>
  <2>1. PICK l : Sends(l) /\ at' = "goals" /\ step'.parent = step.parent /\ step'.aim = a.state
    BY <1>5
  <2>2. Asked'
    BY <1>2, <2>1, SendsAsked
  <2>3. OneRequest'
    BY <2>1, <2>2 DEF OneRequest, Waiting
  <2>4. Promise'
    BY <1>2, <1>3, <1>5, <2>1 DEF Promise
  <2>5. QED BY <2>1, <2>3, <2>4 DEF Synced
<1>6. QED BY <1>4, <1>5 DEF Hears

\* The guard does not fire on a server that has kept its own timeout.
LEMMA NeverAbandons == ASSUME Typed, Synced, ~overran PROVE ~Abandon
<1> SUFFICES ASSUME Abandon PROVE FALSE
  OBVIOUS
<1>1. at = "join" /\ waited >= Guard(step.budget)
  BY AbandonReturns
<1>2. step.budget \in Nat /\ step.budget # 0 /\ waited \in Nat /\ Guard(step.budget) \in Nat
  BY <1>1, Types, DriverConstants DEF Typed, StepType, Guard
<1>3. NativeTimeout(step.budget) \in Nat /\ NativeTimeout(step.budget) < Guard(step.budget)
  BY <1>2, Timeouts
<1>4. waited <= NativeTimeout(step.budget)
  BY <1>1 DEF Synced, OneRequest
<1>5. QED BY <1>1, <1>2, <1>3, <1>4

LEMMA WorkerSynced == ASSUME Typed, Synced, NEW id \in readers, WorkerReceives(id) PROVE Synced'
<1> SUFFICES ASSUME ~overran PROVE Synced'
  BY DEF WorkerReceives, Synced, server
<1>1. /\ answers # <<>> /\ answers' = Tail(answers) /\ readers' = readers \ {id}
      /\ at = "join" /\ id = step.id => box' \in Taken(id, Head(answers))
      /\ UNCHANGED <<at, call, step, todo, waited, result, wire, server, sent, calls>>
  BY DEF WorkerReceives
<1>2. at \in Waiting \cup {"join"}
  BY <1>1, Types DEF Synced, OneRequest, Quiet, Typed, Ats, Waiting
<1>3. Told
  BY <1>1, <1>2 DEF Synced, OneRequest, Asked, Boxed, Quiet
<1>4. at = "join" /\ id = step.id /\ readers' = {}
  BY <1>1, <1>3 DEF Told, Reader
<1>5. PICK a \in Reply : answers = <<a>> /\ a.id = step.id /\ a.state = step.aim
  BY <1>3 DEF Told
<1>6. box' = a /\ answers' = <<>>
  BY <1>1, <1>4, <1>5, TakenType
<1>7. Boxed'
  BY <1>1, <1>3, <1>4, <1>5, <1>6, NotNothing DEF Boxed, Quiet, Told
<1>8. OneRequest'
  BY <1>1, <1>4, <1>7 DEF Synced, OneRequest
<1>9. QED BY <1>1, <1>4, <1>8 DEF Synced, Promise

LEMMA AnswerSynced == ASSUME Typed, Synced, Answer PROVE Synced'
<1> SUFFICES ASSUME ~overran PROVE Synced'
  BY DEF Answer, Synced
<1>1. /\ wire # <<>> /\ wire' = Tail(wire)
      /\ UNCHANGED <<caller, readers, stuck, overran, sent, calls>>
  BY DEF Answer
<1>2. PICK says \in Says :
        answers' = Append(answers, [id |-> Head(wire).id, says |-> says, state |-> Head(wire).state])
  BY DEF Answer, Says
<1>3. at \in Waiting \cup {"join"}
  BY <1>1, Types DEF Synced, OneRequest, Quiet, Typed, Ats, Waiting
<1>4. Asked
  BY <1>1, <1>3 DEF Synced, OneRequest, Told, Boxed, Quiet
<1>5. PICK w \in Message : wire = <<w>> /\ w.id = step.id /\ w.state = step.aim
  BY <1>4 DEF Asked
<1> DEFINE a == [id |-> w.id, says |-> says, state |-> w.state]
<1>6. a \in Reply /\ a.id = step.id /\ a.state = step.aim
  BY <1>5 DEF Reply, Message
<1>7. wire' = <<>> /\ Head(wire) = w /\ answers = <<>>
  BY <1>1, <1>4, <1>5 DEF Asked
<1>8. answers' = Append(<<>>, a)
  BY <1>2, <1>7
<1> HIDE DEF a
<1>9. answers' = <<a>>
  BY <1>8
<1>10. Told'
  BY <1>1, <1>4, <1>6, <1>7, <1>9 DEF Told, Asked, Reader, caller
<1>11. OneRequest'
  BY <1>1, <1>3, <1>10 DEF Synced, OneRequest, caller, Waiting
<1>12. QED BY <1>1, <1>3, <1>11 DEF Synced, Promise, caller, Waiting

LEMMA TickSynced == ASSUME Typed, Synced, Tick PROVE Synced'
<1> SUFFICES ASSUME ~overran' PROVE Synced'
  BY DEF Synced
<1>1. /\ at = "join" /\ box = Nothing /\ waited' = waited + 1 /\ answers = <<>>
      /\ UNCHANGED <<at, call, step, todo, box, result, readers, wire, answers, stuck, sent, calls>>
  BY TickIs
<1>2. ~overran
  BY TickIs
<1>3. Asked
  BY <1>1, <1>2 DEF Synced, OneRequest, Told, Boxed
<1>4. PICK w \in Message :
        wire = <<w>> /\ w.id = step.id /\ w.state = step.aim
          /\ w.limit = NativeTimeout(step.budget) /\ waited = busy
  BY <1>1, <1>3 DEF Asked
<1>5. step.budget \in Nat /\ busy \in Nat
  BY Types DEF Typed, StepType
<1>6. NativeTimeout(step.budget) \in Nat \ {0}
  BY <1>5, Timeouts
<1>7. busy' = busy + 1 /\ ~(w.limit # 0 /\ busy >= w.limit)
  <2>1. wire # <<>> /\ Head(wire) = w
    BY <1>4
  <2>2. \/ Head(wire).limit # 0 /\ busy >= Head(wire).limit /\ overran' = TRUE /\ busy' = 0
        \/ ~(Head(wire).limit # 0 /\ busy >= Head(wire).limit) /\ busy' = busy + 1
    BY <1>2, <2>1, TickIs, Zenon
  <2>3. QED BY <2>1, <2>2
<1>8. waited' <= NativeTimeout(step.budget) /\ waited' = busy'
  BY <1>1, <1>4, <1>5, <1>6, <1>7
<1>9. Asked'
  BY <1>1, <1>3, <1>4, <1>8 DEF Asked, Reader
<1>10. OneRequest'
  BY <1>1, <1>8, <1>9 DEF OneRequest, Waiting
<1>11. QED BY <1>1, <1>2, <1>10 DEF Synced, Promise

LEMMA ReconnectSynced == ASSUME Typed, Synced, Reconnect PROVE Synced'
<1>1. OneRequest' /\ at' = "idle"
  BY ReconnectIs DEF OneRequest, Quiet, Waiting
<1>2. ~result'.ok /\ call'.op # "run"
  BY ReconnectIs, FailedType, StatesType DEF Idle
<1>3. QED BY <1>1, <1>2 DEF Synced

LEMMA SyncedStep == Typed /\ Synced /\ [Next]_vars => Synced'
<1> SUFFICES ASSUME Typed, Synced, [Next]_vars PROVE Synced'
  OBVIOUS
<1>1. CASE Next
  <2>1. CASE Abandon
    <3>1. overran' = overran
      BY <2>1, AbandonReturns DEF server
    <3>2. QED BY <2>1, <3>1, NeverAbandons DEF Synced
  <2>2. CASE Hang
    BY <2>2 DEF Hang, caller, Synced, OneRequest, Asked, Told, Boxed, Quiet, Reader, Promise
  <2>3. QED
    BY <1>1, <2>1, <2>2, NextIs, AsksSynced, HearsSynced, WorkerSynced, AnswerSynced, TickSynced,
       ReconnectSynced
<1>2. CASE UNCHANGED vars
  BY <1>2 DEF vars, caller, server, Synced, OneRequest, Asked, Told, Boxed, Quiet, Reader, Promise
<1>3. QED BY <1>1, <1>2

LEMMA SyncedCorrect == Spec => [](Typed /\ Synced)
<1>1. Init => Synced
  BY FailedType, StatesType DEF Init, Synced, OneRequest, Quiet, Waiting, Idle
<1>2. QED BY <1>1, InitTyped, TypedStep, SyncedStep, PTL DEF Spec

\* As long as the server ends each tactic in the time it was given, whatever the
\* budget, no thread is left behind and the connection is empty between calls
\* (petanque_driver.py:52, 109).
THEOREM InSyncCorrect == Spec => []InSync
<1>1. Synced => InSync
  BY DEF Synced, OneRequest, Quiet, InSync
<1>2. QED BY <1>1, SyncedCorrect, PTL

\* A call that succeeds returns the state it asked for, a tactic that fails the
\* state it was run on, and a replay that of its whole path
\* (petanque_driver.py:91, 141).
THEOREM ContractCorrect == Spec => []Contract
<1>1. Synced => Contract
  BY DEF Synced, Contract
<1>2. QED BY <1>1, SyncedCorrect, PTL

\* On such a server the guard never fires: no tactic is reported as timed out
\* that the server has not ended itself (petanque_driver.py:134).
GuardKeeps == [][Abandon => overran]_vars
THEOREM GuardNeverFires == Spec => GuardKeeps
<1>1. Typed /\ Synced /\ [Next]_vars => [Abandon => overran]_vars
  BY NeverAbandons
<1>2. QED BY <1>1, SyncedCorrect, PTL DEF Spec, GuardKeeps
=============================================================================
