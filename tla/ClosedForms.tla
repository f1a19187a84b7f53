----------------------------- MODULE ClosedForms -----------------------------
(***************************************************************************)
(* Cycle counts read off the graph (lift/cfg.py, lift/intake.py): the sum  *)
(* of a straight-line function, the counter loop's form, and those of the  *)
(* two layouts of a search.  A form that does not exist is the empty set,  *)
(* one that does is alone in its set.                                      *)
(***************************************************************************)
EXTENDS FlowGraph

CONSTANTS
  InstLatency,   \* report.py: T_inst_latency
  DataLatency    \* report.py: T_data_latency

ASSUME Latencies == InstLatency \in Nat /\ DataLatency \in Nat

Timed == {"addi", "add", "lw", "sw", "jal", "jalr"}

(***************************************************************************)
(* What an instruction takes on the processor: the tables of report.py, of *)
(* fixed costs and of the wait states that come on top.                    *)
(***************************************************************************)
Waits(op, taken) ==
  CASE op \in Loads \cup Stores -> "data"
    [] op \in {"jal", "jalr"} \/ (op \in Conditional /\ taken) -> "inst"
    [] OTHER -> "none"
Fixed(op, taken) ==
  CASE op \in {"addi", "add"} -> 2
    [] Waits(op, taken) = "data" -> 4
    [] Waits(op, taken) = "inst" -> 5
    [] op \in Conditional /\ ~taken -> 3
    [] OTHER -> 35
Latency(wait) ==
  CASE wait = "data" -> DataLatency [] wait = "inst" -> InstLatency [] OTHER -> 0
Cycles(op, taken) == Fixed(op, taken) + Latency(Waits(op, taken))

\* What the lifter charges: a mnemonic it has no constant for is left out.
Priced(ins) == ins.op \in Timed \cup Conditional
ChargeSwapped(ins, taken) == IF Priced(ins) THEN Cycles(ins.op, ~taken) ELSE 0  \* slip: tt for tf
Charge(ins, taken) == IF Priced(ins) THEN Cycles(ins.op, taken) ELSE 0

\* The terms of a sequence added up, one after another.
Total(terms) ==
  LET upto[n \in 0..Len(terms)] == IF n = 0 THEN 0 ELSE upto[n - 1] + terms[n]
  IN  upto[Len(terms)]

\* A set of addresses charged, the branches in `taken` as taken.
Cost(g, as, taken) ==
  Total([a \in Addresses(g) |-> IF a \in as THEN Charge(g.l[a], a \in taken) ELSE 0])
Into(g, loop) == {a \in Targeting(g.l) : g.l[a].to \in loop}

StraightlineCyclesFirst(g) == Cost(g, 1..(Min(ExitPoints(g)) - 1), {})  \* slip: to the first return
StraightlineCycles(g) == Cost(g, Addresses(g) \ ExitPoints(g), {})

\* The same sum as the report prints it: a number and how many waits of each kind;
\* of a sum without terms it prints nothing.
RangeSum(g) ==
  LET terms == {a \in Addresses(g) \ ExitPoints(g) : Priced(g.l[a])}
      Count(wait) == Total([a \in Addresses(g) |->
                              IF a \in terms /\ Waits(g.l[a].op, FALSE) = wait THEN 1 ELSE 0])
  IN  [fixed |-> Total([a \in Addresses(g) |-> IF a \in terms THEN Fixed(g.l[a].op, FALSE) ELSE 0]),
       inst |-> Count("inst"), data |-> Count("data")]
CycleRange(g) ==
  IF \E a \in Addresses(g) \ ExitPoints(g) : Priced(g.l[a]) THEN {RangeSum(g)} ELSE {}
InCycles(range) == range.fixed + range.inst * Latency("inst") + range.data * Latency("data")

Setup(g, h, loop) == Cost(g, 1..(h - 1), Into(g, loop))
Body(g, loop) == Cost(g, Insns(g, loop), Into(g, loop))

\* The additions of a constant to a register, in the loop.
Inductions(g, loop) == {a \in Insns(g, loop) : g.l[a].op = "addi" /\ g.l[a].r # "x"}

LoopExitTermFalls(g, h) ==   \* slip: the branch falls through
  LET last == g.l[Max(Insns(g, {h}))]
  IN  IF last.op \in Conditional THEN Charge(last, FALSE) ELSE 0
LoopExitTerm(g, h) ==
  LET last == g.l[Max(Insns(g, {h}))]
  IN  IF last.op \in Conditional THEN Charge(last, TRUE) ELSE 0

\* The last induction of the only loop counts the iterations.
CounterForm(g) ==
  LET Form(h, loop) ==
        {[header |-> h, reg |-> g.l[a].r, step |-> g.l[a].k, setup |-> Setup(g, h, loop),
          body |-> Body(g, loop), exit |-> LoopExitTerm(g, h)] :
           a \in {b \in Inductions(g, loop) :
                    b = Max(Inductions(g, loop)) /\ g.l[b].k # 0}}
  IN  IF Cardinality(LoopHeaders(g)) # 1 THEN {}
      ELSE UNION {Form(h, NaturalLoop(g, h)) : h \in LoopHeaders(g)}

\* Its cycles at the header, where the register has gone from n to i, and at
\* the exit: n is taken for the number of iterations.
CounterArm(f, n, i) == f.setup + (IF f.step < 0 THEN n - i ELSE i - n) * f.body
CounterPost(f, n) == f.setup + n * f.body + f.exit

\* The index of an array walk: beside a running pointer the register that
\* counts by one, else the pointer; for a recomputed address the first induction.
IndexReg(g, loop) ==
  LET inds == Inductions(g, loop)
      counters == {a \in inds : g.l[a].r # "p" /\ g.l[a].k = 1}
      ops == {g.l[a].op : a \in Insns(g, loop)}
      first(as, default) == {IF as # {} THEN g.l[Min(as)].r ELSE default}
  IN  IF ops \cap Loads = {} THEN {}
      ELSE IF \E a \in inds : g.l[a].r = "p" THEN first(counters, "p")
      ELSE IF "add" \in ops THEN first(inds, "i")
      ELSE {}

\* The branch of an exiting block that compares the index with its limit.
LoopBound(g, loop) ==
  LET exiting == {e[1] : e \in ExitEdges(g, loop)}
      bounding == {a \in Insns(g, exiting) \cap Conditionals(g) :
                     g.l[a].r \in IndexReg(g, loop)}
  IN  {a \in bounding : a = Min(bounding)}

\* Branches one of whose edges leaves the loop.
ExitBranches(g, loop) ==
  {a \in Insns(g, loop) \cap Conditionals(g) :
     \/ g.l[a].to \notin loop
     \/ \E s \in Succ(g, {g.block[a]}) \ {g.l[a].to} : s \notin loop}

\* The bound and the match of a loop that leaves by just these two.
SearchExits(g, loop, as) ==
  LET exits == ExitBranches(g, loop) \cap as
  IN  {x \in [bound : LoopBound(g, loop), match : exits \ LoopBound(g, loop)] :
         Cardinality(exits) = 2 /\ x.bound \in exits}

\* Down to the first return, no branch taken.
StraightlineFrom(g, a) ==
  LET rets == {r \in a..Len(g.l) : g.l[r].op = "jalr"}
  IN  Cost(g, a..(IF rets = {} THEN Len(g.l) ELSE Min(rets)), {})

\* The branches taken, with the one at a turned round.
Flip(taken, a) == (taken \ {a}) \cup ({a} \ taken)

\* The iteration up to the exit at a, which goes the way out.
PartialToStays(g, h, loop, a) ==   \* slip: the exit branch stays
  Cost(g, {b \in Insns(g, loop) : h <= b /\ b <= a}, Into(g, loop))
PartialTo(g, h, loop, a) ==
  Cost(g, {b \in Insns(g, loop) : h <= b /\ b <= a}, Flip(Into(g, loop), a))

Shutdown(g, loop) ==
  LET dsts == {e[2] : e \in ExitEdges(g, loop)}
  IN  IF Cardinality(dsts) = 1 THEN StraightlineFrom(g, Min(dsts)) ELSE 0

SearchForm(g, h) ==
  LET loop == NaturalLoop(g, h)
  IN  {[setup |-> Setup(g, h, loop), body |-> Body(g, loop), shutdown |-> Shutdown(g, loop),
        found |-> PartialTo(g, h, loop, x.match),
        notfound |-> PartialTo(g, h, loop, x.bound)] :
         x \in SearchExits(g, loop, h..Len(g.l))}

\* The key is found at the one index of idx, or nowhere when idx is empty.
TimeOfSearch(f, trip, idx) ==
  f.setup + (IF idx = {} THEN trip * f.body + f.notfound ELSE Min(idx) * f.body + f.found)
          + f.shutdown

\* The block through which the loop is entered, and whether it holds the test.
EntryBlock(g, h, loop) ==
  LET outside == Pred(g, loop) \ loop
      into == {e \in Edges(g) : e[1] = Min(outside) /\ e[2] \in loop}
  IN  IF outside = {} THEN h
      ELSE (CHOOSE e \in into : e \in g.jumps \/ into \cap g.jumps = {})[2]
BottomTest(g, h, loop) ==
  \E b \in LoopBound(g, loop) : EntryBlock(g, h, loop) # g.block[b]

ExitTarget(g, loop, a) == IF g.l[a].to \notin loop THEN g.l[a].to ELSE a + 1

BottomForm(g, h) ==
  LET loop == NaturalLoop(g, h)
      in == Into(g, loop)
      before == 1..(Min(loop) - 1)
      guards == {a \in before \cap Conditionals(g) : a \notin in}
      guard == Min(guards)
      body == Insns(g, {EntryBlock(g, h, loop)})
      Form(b, m) ==
        LET latch == Insns(g, {g.block[b]})
        IN  [pro |-> Cost(g, before, in),
             cont |-> Cost(g, body, in) + Cost(g, latch, in),
             exit |-> Cost(g, body, in) + Cost(g, latch, Flip(in, b)),
             found |-> Cost(g, {a \in body : a <= m}, Flip(in, m)),
             shutNotFound |-> StraightlineFrom(g, ExitTarget(g, loop, b)),
             shutFound |-> StraightlineFrom(g, ExitTarget(g, loop, m)),
             guard |-> Cost(g, 1..guard, in \cup {guard}) + StraightlineFrom(g, g.l[guard].to)]
  IN  IF ~BottomTest(g, h, loop) \/ guards = {} THEN {}
      ELSE {Form(x.bound, x.match) : x \in SearchExits(g, loop, Addresses(g))}

TimeOfBottom(f, trip, idx) ==
  IF idx # {} THEN f.pro + Min(idx) * f.cont + f.found + f.shutFound
  ELSE IF trip = 0 THEN f.guard
  ELSE f.pro + (trip - 1) * f.cont + f.exit + f.shutNotFound
=============================================================================
