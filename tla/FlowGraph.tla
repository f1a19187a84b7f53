------------------------------ MODULE FlowGraph ------------------------------
(***************************************************************************)
(* The control flow graph of a listing (lift/cfg.py: build_cfg and what is *)
(* read off the graph), the addresses that get an invariant, and the class *)
(* of the function (lift/intake.py: classify).                             *)
(*                                                                         *)
(* A listing is a sequence of instructions; addresses are positions.  An   *)
(* instruction has a mnemonic op, the register r it is about, an immediate *)
(* k and a branch target.  The registers told apart are those the analysis *)
(* asks about: the index i, the pointer p, the loaded value v, the bound   *)
(* len; "x" is any other.  A branch compares i or p with the bound, v with *)
(* the key, len with zero, a register with itself ("same"), or data that   *)
(* could be anything ("data").                                             *)
(***************************************************************************)
EXTENDS Integers, Sequences, FiniteSets, FiniteSetsExt

Loads == {"lw"}
Stores == {"sw"}
Conditional == {"beq", "bne"}

(***************************************************************************)
(* The control flow graph: the listing, the block of each address, by its  *)
(* first address, and the edges, where a block may branch or fall through. *)
(***************************************************************************)
Branching(l) == {a \in DOMAIN l : l[a].op \in Conditional \cup {"jal", "jalr"}}
TargetingNoJump(l) == {a \in Branching(l) : l[a].op \in Conditional}  \* slip: jal as a return
Targeting(l) == {a \in Branching(l) : l[a].op # "jalr"}

\* A listing that does not run off its end and branches within itself.
Listed(l) ==
  /\ l # <<>>
  /\ l \in Seq([op : STRING, r : {"x", "i", "p", "v", "len", "same", "data"}, k : Int, to : Nat])
  /\ \A a \in DOMAIN l : l[a].op = "addi" => l[a].r \in {"x", "i", "p"}
  /\ \A a \in Targeting(l) : l[a].to \in DOMAIN l
  /\ l[Len(l)].op \in {"jal", "jalr"}

Leaders(l) ==
  {1} \cup (({l[a].to : a \in Targeting(l)} \cup {a + 1 : a \in Branching(l)}) \cap DOMAIN l)
      \cup {a \in DOMAIN l : l[a].op = "jalr"}

BuildCfg(l) ==
  LET leaders == Leaders(l)
      block == [a \in DOMAIN l |-> Max({b \in leaders : b <= a})]
      last == [b \in leaders |-> Max({a \in DOMAIN l : block[a] = b})]
  IN  [l |-> l, block |-> block,
       jumps |-> {<<b, l[last[b]].to>> : b \in {c \in leaders : last[c] \in Targeting(l)}},
       falls |-> {<<b, last[b] + 1>> : b \in {c \in leaders :
                    l[last[c]].op \notin {"jal", "jalr"} /\ last[c] < Len(l)}}]

Addresses(g) == DOMAIN g.l
Blocks(g) == {g.block[a] : a \in Addresses(g)}
Insns(g, blocks) == {a \in Addresses(g) : g.block[a] \in blocks}
Conditionals(g) == {a \in Addresses(g) : g.l[a].op \in Conditional}
Edges(g) == g.jumps \cup g.falls
Succ(g, bs) == {e[2] : e \in {d \in Edges(g) : d[1] \in bs}}
Pred(g, bs) == {e[1] : e \in {d \in Edges(g) : d[2] \in bs}}

BackEdges(g) == {e \in Edges(g) : e[2] <= e[1]}
LoopHeaders(g) == {e[2] : e \in BackEdges(g)}
ExitPoints(g) == {b \in Blocks(g) : Succ(g, {b}) = {}}
JoinPoints(g) ==
  {b \in Blocks(g) \ {1} : Cardinality({e \in g.jumps : e[2] = b})
                           + Cardinality({e \in g.falls : e[2] = b}) > 1}
InvariantPoints(g) == {1} \cup LoopHeaders(g) \cup JoinPoints(g) \cup ExitPoints(g)

\* The least set of blocks that holds the start and is closed under the edges.
Closed(edges, bs) == \A e \in edges : e[1] \in bs => e[2] \in bs
Reachable(g, start, edges) ==
  {b \in Blocks(g) : \A bs \in SUBSET Blocks(g) : start \in bs /\ Closed(edges, bs) => b \in bs}

\* What can be reached from the header and reach it.
NaturalLoopEnds(g, h) == {h} \cup {e[1] : e \in {d \in BackEdges(g) : d[2] = h}}  \* slip: the tails
NaturalLoop(g, h) ==
  Reachable(g, h, Edges(g)) \cap Reachable(g, h, {<<e[2], e[1]>> : e \in Edges(g)})
ExitEdges(g, loop) == {e \in Edges(g) : e[1] \in loop /\ e[2] \notin loop}

-----------------------------------------------------------------------------
(***************************************************************************)
(* The class of a function, from the easiest to the hardest.  The fifth is *)
(* never given: its test comes after one that holds whenever it does.      *)
(***************************************************************************)
Severity == <<"straight-line", "counter-loop", "array/pointer loop",
              "search early-exit", "memory-aliasing branch", "unsupported control flow">>
IsCeiling == {Severity[k] : k \in 3..6}

LoopClass(g, loop) ==
  IF Cardinality({e[2] : e \in ExitEdges(g, loop)}) > 1 THEN 4
  ELSE IF \E a \in Insns(g, loop) : g.l[a].op \in Loads \cup Stores THEN 3
  ELSE 2

Classify(g) ==
  LET hs == LoopHeaders(g)
  IN  Severity[IF hs = {} THEN 1
               ELSE Max({LoopClass(g, NaturalLoop(g, h)) : h \in hs}
                        \cup (IF Cardinality(hs) > 1 THEN {6} ELSE {}))]
=============================================================================
