------------------------------- MODULE Lifter -------------------------------
(***************************************************************************)
(* The lifter (lift/intake.py): from the listing of a compiled leaf        *)
(* function it recovers the control flow graph, the class of the function, *)
(* closed forms of its cycle count and, for the two easiest classes, the   *)
(* whole invariant; for a target with a pinned postcondition the model     *)
(* completes a skeleton of it.  The listing is then executed and its       *)
(* cycles are counted, so that what was derived can be held against what   *)
(* happens.                                                                *)
(***************************************************************************)
EXTENDS ClosedForms, InvariantArms, SequencesExt

CONSTANTS
  Cases,   \* what is lifted and run: [listing, args, fuel]
  Word     \* registers hold 0..Word-1

ASSUME LifterConstants ==
  /\ Word \in Nat \ {0}
  /\ \A c \in Cases :
       /\ Listed(c.listing)
       /\ c.args \in [start : 0..(Word - 1), limit : Nat, hit : Nat] /\ c.fuel \in Nat

(***************************************************************************)
(* Lifting a function and executing it.                                    *)
(***************************************************************************)
VARIABLES
  listing,   \* the function
  args,      \* the arguments it is run with: [start, limit, hit]
  run,       \* "compiled", "refused", "lifted", "running", "returned"
  lifted,    \* what lift() derived
  claim,     \* the arms of the invariant that is to be proved
  pc, reg,   \* the processor
  cyc,       \* cycles since the entry
  excess,    \* those of them the straight-line sum does not charge
  since,     \* addresses executed since the last arm
  seen,      \* addresses executed
  fuel       \* bound: instructions that may still be executed
vars == <<listing, args, run, lifted, claim, pc, reg, cyc, excess, since, seen, fuel>>

\* The scaffold ends somewhere even when the function does not.
Exits(g) == IF ExitPoints(g) = {} THEN {Max(Blocks(g))} ELSE ExitPoints(g)

\* The invariant of the classes that need no model; empty for the others.
Derived(g, class, counter) ==
  IF class = "straight-line" THEN StraightlineArms(g)
  ELSE IF counter # {} THEN CounterArms(g)
  ELSE {}

LiftResult(g) ==
  LET class == Classify(g)
      counter == IF class = "counter-loop" THEN CounterForm(g) ELSE {}
      Forms(F(_, _)) == UNION {F(g, h) : h \in LoopHeaders(g)}
  IN  [cfg |-> g, class |-> class, points |-> InvariantPoints(g), exits |-> Exits(g),
       bound |-> IF class = "straight-line" THEN {StraightlineCycles(g)} ELSE {},
       range |-> IF class = "straight-line" THEN CycleRange(g) ELSE {},
       counter |-> counter, derived |-> Derived(g, class, counter),
       search |-> Forms(SearchForm), bottom |-> Forms(BottomForm)]
NotLifted == [class |-> "none"]

Init ==
  /\ \E c \in Cases : listing = c.listing /\ args = c.args /\ fuel = c.fuel
  /\ run = "compiled" /\ lifted = NotLifted /\ claim = {}
  /\ pc = 1 /\ reg = [i |-> args.start, p |-> 0, v |-> FALSE]
  /\ cyc = 0 /\ excess = 0 /\ since = {} /\ seen = {}

\* lift()
Lift ==
  /\ run = "compiled" /\ run' = "lifted"
  /\ lifted' = LiftResult(BuildCfg(listing))
  /\ UNCHANGED <<listing, args, claim, pc, reg, cyc, excess, since, seen, fuel>>

\* The lifter script fails or prints no instruction: the class is all that is told.
LiftRefused ==
  /\ run = "compiled" /\ run' = "refused"
  /\ lifted' = [NotLifted EXCEPT !.class = Classify(BuildCfg(listing))]
  /\ UNCHANGED <<listing, args, claim, pc, reg, cyc, excess, since, seen, fuel>>

\* The derived invariant and its discharge need no model.
UseDerived ==
  /\ run = "lifted" /\ claim = {} /\ lifted.derived # {}
  /\ claim' = lifted.derived /\ run' = "running"
  /\ UNCHANGED <<listing, args, lifted, pc, reg, cyc, excess, since, seen, fuel>>

\* The model completes the skeleton.  A hole that is left open claims False,
\* which cannot be proved: another attempt follows.
CompleteSkeleton(text) ==
  /\ run = "lifted"
  /\ claim' = SpliceSkeleton(SkeletonPlan(lifted.cfg), text)
  /\ run' = IF \E arm \in claim' : arm[2] = "unfilled" THEN "lifted" ELSE "running"
  /\ UNCHANGED <<listing, args, lifted, pc, reg, cyc, excess, since, seen, fuel>>

\* What a model may write: all arms as asked, one of them left out, one more
\* anywhere, an exit arm altered, or altered first and then put right.
Texts(plan) ==
  LET asked == {<<a, "model">> : a \in plan.holes} \cup {<<a, "post">> : a \in plan.exits}
      Text(arms) == SetToSeq(arms)
  IN  {Text(asked)} \cup {Text(asked \ {arm}) : arm \in asked}
      \cup {Text(asked) \o <<<<a, "model">>>> : a \in DOMAIN listing}
      \cup {<<<<a, "model">>>> \o Text(asked) : a \in plan.exits}

\* The processor goes on at a after this instruction.
Goto(a, taken) ==
  LET ins == listing[pc]
      spent == Cycles(ins.op, taken)
  IN  /\ run = "running" /\ fuel > 0
      /\ pc' = a /\ fuel' = fuel - 1
      /\ cyc' = cyc + spent
      /\ excess' = excess + spent - Charge(ins, FALSE)
      /\ seen' = seen \cup {pc}
      /\ since' = IF pc \in ArmPoints(claim) THEN {pc} ELSE since \cup {pc}
      /\ UNCHANGED <<listing, args, lifted, claim>>

Wrap(n) == n % Word

Arithmetic ==
  LET ins == listing[pc]
  IN  /\ ins.op \notin Loads \cup Conditional \cup {"jal", "jalr"}
      /\ reg' = IF ins.op = "addi" /\ ins.r # "x" THEN [reg EXCEPT ![ins.r] = Wrap(@ + ins.k)]
                ELSE IF ins.op = "add" THEN [reg EXCEPT !.p = reg.i]
                ELSE reg
      /\ Goto(pc + 1, FALSE) /\ UNCHANGED run

Load ==
  /\ listing[pc].op \in Loads
  /\ reg' = [reg EXCEPT !.v = reg.p = args.hit]
  /\ Goto(pc + 1, FALSE) /\ UNCHANGED run

\* Whether the operands of the branch may be equal, and may differ.
Compares(r) ==
  CASE r = "data" -> BOOLEAN
    [] r = "v" -> {reg.v}
    [] r = "len" -> {args.limit = 0}
    [] r = "same" -> {TRUE}
    [] OTHER -> {reg[r] = args.limit}

Branch ==
  LET ins == listing[pc]
  IN  /\ ins.op \in Conditional
      /\ \E equal \in Compares(ins.r) :
           LET taken == equal = (ins.op = "beq")
           IN  Goto(IF taken THEN ins.to ELSE pc + 1, taken)
      /\ UNCHANGED <<reg, run>>

Jump ==
  /\ listing[pc].op = "jal"
  /\ Goto(listing[pc].to, TRUE) /\ UNCHANGED <<reg, run>>

Return ==
  /\ listing[pc].op = "jalr"
  /\ Goto(pc, TRUE) /\ run' = "returned" /\ UNCHANGED reg

Next ==
  \/ Lift \/ LiftRefused \/ UseDerived
  \/ run = "lifted" /\ \E text \in Texts(SkeletonPlan(lifted.cfg)) : CompleteSkeleton(text)
  \/ Arithmetic \/ Load \/ Branch \/ Jump \/ Return
Spec == Init /\ [][Next]_vars

-----------------------------------------------------------------------------
(* Properties.                                                             *)

\* Every variable stays within its range; what is claimed is claimed of first
\* addresses of blocks, and no path takes less than the sum charges for it.
TypeOK ==
  /\ run \in {"compiled", "refused", "lifted", "running", "returned"}
  /\ lifted.class \in {"none"} \cup {Severity[k] : k \in DOMAIN Severity}
  /\ pc \in DOMAIN listing /\ since \subseteq seen /\ seen \subseteq DOMAIN listing
  /\ run \in {"running", "returned"} => ArmPoints(claim) \subseteq Leaders(listing)
  /\ reg \in [i : 0..(Word - 1), p : 0..(Word - 1), v : BOOLEAN]
  /\ cyc \in Nat /\ excess \in Nat /\ fuel \in Nat

Running == run = "running"
AtExit == Running /\ pc \in lifted.exits
Loops == {NaturalLoop(lifted.cfg, h) : h \in LoopHeaders(lifted.cfg)}

(***************************************************************************)
(* The proof is by induction from arm to arm, so whatever runs for ever    *)
(* must pass one: whichever way the invariant was made, no address is met  *)
(* twice between two of its arms (cfg.py:691, intake.py:193 and 214, over  *)
(* the points of cfg.py:167).                                              *)
(***************************************************************************)
ArmsCut == Running /\ pc \notin ArmPoints(claim) => pc \notin since

(***************************************************************************)
(* "The model only ever supplies the bodies of the hole arms"              *)
(* (cfg.py:113): whatever it writes, the invariant has an arm at every     *)
(* point and nowhere else, every exit claims the postcondition and nothing *)
(* but that, and of a text that is rejected nothing at all is kept.        *)
(***************************************************************************)
ClaimsPinned ==
  claim # {} /\ claim # lifted.derived =>
    /\ ArmPoints(claim) = lifted.points
    /\ \A arm \in claim : arm[2] = "post" <=> arm[1] \in ExitPoints(lifted.cfg)
    /\ \/ \A arm \in claim : arm[2] # "unfilled"
       \/ \A arm \in claim : arm[2] # "model"

(***************************************************************************)
(* The class tells what is repeated (classify, intake.py:366): a function  *)
(* called straight-line executes nothing twice, so that a sum over its     *)
(* instructions can bound it, and a load or store that is executed again   *)
(* puts the function beyond the engine's reach.                            *)
(***************************************************************************)
ClassTellsRepetition ==
  Running /\ pc \in seen =>
    /\ lifted.class # "straight-line"
    /\ listing[pc].op \in Loads \cup Stores => lifted.class \in IsCeiling

(***************************************************************************)
(* The pinned straight-line sum (cfg.py:196) bounds every path up to what  *)
(* it leaves out, branches that are taken and instructions without a       *)
(* constant, and is exact for a path that skips nothing; so is the range   *)
(* that the report prints for it (report.py:57).                           *)
(***************************************************************************)
StraightLineBound ==
  AtExit => \A total \in lifted.bound :
    /\ cyc - excess <= total
    /\ seen = DOMAIN listing \ lifted.exits => cyc - excess = total
    /\ \A range \in lifted.range : InCycles(range) = total

(***************************************************************************)
(* The loops counter_loop_invariant was written for, like addloop: the     *)
(* header is the test of the counter and leaves for the exit by being      *)
(* taken, the one other branch goes back to it from the end of the loop,   *)
(* nothing up to there is without a constant, and the counter moves by one *)
(* in each iteration and nowhere else, without wrapping.                   *)
(***************************************************************************)
Counting(z) == {a \in 1..z : listing[a].op = "addi" /\ listing[a].r = "i"}
LoopEnd(h) ==
  {z \in Targeting(listing) :
     /\ h < z /\ listing[z].to = h /\ Targeting(listing) = {h, z}
     /\ listing[z].op = "jal" \/ (listing[z].op = "beq" /\ listing[z].r = "same")
     /\ \A a \in 1..z : Priced(listing[a]) /\ listing[a].op # "jalr"}
LikeAddloop(f) ==
  /\ listing[f.header].op = "beq" /\ listing[f.header].r = "i"
  /\ listing[f.header].to \in ExitPoints(lifted.cfg)
  /\ f.reg = "i" /\ args.limit < Word
  /\ \E z \in LoopEnd(f.header) : \E a \in f.header..z, k \in {-1, 1} :
       Counting(z) = {a} /\ listing[a].k = k /\ k * (args.limit - args.start) >= 0

(***************************************************************************)
(* For these the derived counter-loop invariant (intake.py:214) is exact   *)
(* at the header in every iteration, and the postcondition at the exit     *)
(* when the loop counts down to zero.                                      *)
(***************************************************************************)
CounterExact ==
  Running => \A f \in lifted.counter :
    LikeAddloop(f) =>
      /\ pc = f.header => cyc = CounterArm(f, args.start, reg.i)
      /\ AtExit /\ args.limit = 0 => cyc = CounterPost(f, args.start)

(***************************************************************************)
(* The searches the two forms were written for, find_in_array and what gcc *)
(* makes of it: nothing branches but the tests and the ways on, nothing is *)
(* without a constant.  A round consists of `search`, up to the test of    *)
(* the element, and of `next`, on the way back: it loads one element, by a *)
(* pointer that moves along or at an address made of the index, and counts *)
(* it.                                                                     *)
(***************************************************************************)
Adding(r) == {a \in DOMAIN listing : listing[a].op = "addi" /\ listing[a].r = r}
Walks(search, next) ==
  LET round == search \cup next
      derefs == {a \in round : listing[a].op \in Loads}
      indexing == {a \in round : listing[a].op = "add"}
  IN  /\ args.start = 0 /\ args.limit < Word
      /\ \A a \in DOMAIN listing : Priced(listing[a])
      /\ \A a \in Adding("i") \cup Adding("p") : listing[a].k = 1
      /\ \E i \in next : Adding("i") = {i}
      /\ \E d \in search :
           /\ derefs = {d}
           /\ \/ indexing = {} /\ \E p \in round : Adding("p") = {p} /\ (p \in next \/ d < p)
              \/ Adding("p") = {} /\ \E p \in search : indexing = {p} /\ p < d

\* while (i != limit && a[i] != key) i++: both tests leave for the same place.
TestedFirst(test, match, back) ==
  /\ Targeting(listing) = {test, match, back} /\ test < match /\ match < back
  /\ \A a \in 1..back : listing[a].op # "jalr"
  /\ listing[test].op = "beq" /\ listing[test].r = "i"
  /\ listing[match].op = "beq" /\ listing[match].r = "v"
  /\ back < listing[test].to /\ listing[match].to = listing[test].to
  /\ listing[back].op = "jal" /\ listing[back].to = test
  /\ Walks((test + 1)..match, (match + 1)..back)

\* The same, rotated: a guard for the empty array, an entry past the latch, the
\* test of the index in the latch, and a match that falls out of the loop.
Rotated(guard, entry, test, match) ==
  /\ Targeting(listing) = {guard, entry, test, match}
  /\ guard < entry /\ entry < test /\ test < match
  /\ \A a \in 1..match : listing[a].op # "jalr"
  /\ listing[guard].op = "beq" /\ listing[guard].r = "len" /\ match < listing[guard].to
  /\ listing[entry].op = "jal" /\ listing[entry].to = test + 1
  /\ listing[test].op = "beq" /\ listing[test].r = "i" /\ match < listing[test].to
  /\ listing[match].op = "bne" /\ listing[match].r = "v" /\ listing[match].to = entry + 1
  /\ Walks((test + 1)..match, (entry + 1)..test)

FoundIdx == {k \in {args.hit} : k < args.limit}

(***************************************************************************)
(* The closed form of a search whose bound is tested first (cfg.py:448) is *)
(* there and is what the search takes, wherever the key is and when it is  *)
(* not in the array; so is that of a search gcc has rotated (cfg.py:490),  *)
(* the empty array it guards against included.                             *)
(***************************************************************************)
SearchExact ==
  run = "returned" =>
    \A a, b, c \in Targeting(listing) :
      /\ TestedFirst(a, b, c) =>
           /\ lifted.search # {}
           /\ \A f \in lifted.search : cyc = TimeOfSearch(f, args.limit, FoundIdx)
      /\ \A d \in Targeting(listing) : Rotated(a, b, c, d) =>
           /\ lifted.bottom # {}
           /\ \A f \in lifted.bottom : cyc = TimeOfBottom(f, args.limit, FoundIdx)

(***************************************************************************)
(* lift() says of this sum that it is a sound upper bound, of any single   *)
(* path (intake.py:412).                                                   *)
(***************************************************************************)
WcetIsUpperBound == AtExit => \A total \in lifted.bound : cyc <= total
=============================================================================
