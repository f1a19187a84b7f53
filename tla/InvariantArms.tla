---------------------------- MODULE InvariantArms ----------------------------
(***************************************************************************)
(* The invariants the lifter and the model make of a graph: an invariant   *)
(* is a match with an arm for each of its addresses (lift/intake.py for    *)
(* those that are derived, lift/cfg.py and agent/invariant_synth.py for    *)
(* the skeleton that the model completes).                                 *)
(*                                                                         *)
(* An arm is an address with what is claimed there: that no cycle has      *)
(* passed ("zero"), the closed form of a loop ("loop"), the postcondition  *)
(* ("post"), what the model wrote ("model"), or False for a hole that      *)
(* nobody filled ("unfilled").                                             *)
(***************************************************************************)
EXTENDS FlowGraph

Arms(addresses, body) == addresses \X {body}
ArmPoints(arms) == {arm[1] : arm \in arms}

StraightlineArms(g) ==
  Arms({1} \ ExitPoints(g), "zero") \cup Arms(ExitPoints(g), "post")

CounterArms(g) ==
  Arms({1}, "zero") \cup Arms(LoopHeaders(g), "loop")
    \cup Arms(ExitPoints(g) \ LoopHeaders(g), "post")

-----------------------------------------------------------------------------
(***************************************************************************)
(* The skeleton: the exits are pinned, the other points are holes.         *)
(***************************************************************************)
SkeletonPlan(g) ==
  [holes |-> ({1} \cup LoopHeaders(g) \cup JoinPoints(g)) \ ExitPoints(g),
   exits |-> ExitPoints(g)]

\* fills is a function from some of the holes.
Fill(plan, fills) ==
  {<<a, fills[a]>> : a \in plan.holes \cap DOMAIN fills}
    \cup Arms(plan.holes \ DOMAIN fills, "unfilled") \cup Arms(plan.exits, "post")

\* The arms of a text, the last of several for one address.
ExtractArms(text) ==
  [a \in {text[n][1] : n \in DOMAIN text} |->
     text[Max({n \in DOMAIN text : text[n][1] = a})][2]]

\* The model has to cover every point and to leave the pinned arms alone.
Accepted(plan, arms) ==
  /\ plan.holes \cup plan.exits \subseteq DOMAIN arms
  /\ \A a \in plan.exits : arms[a] = "post"

SpliceTrusting(plan, text) ==   \* slip: an accepted text is used as it is
  LET arms == ExtractArms(text)
  IN  IF Accepted(plan, arms) THEN {<<a, arms[a]>> : a \in DOMAIN arms}
      ELSE Fill(plan, <<>>)

\* Of an accepted text only the holes are taken, of another one nothing.
SpliceSkeleton(plan, text) ==
  LET arms == ExtractArms(text)
  IN  Fill(plan, IF Accepted(plan, arms) THEN [a \in plan.holes |-> arms[a]] ELSE <<>>)
=============================================================================
