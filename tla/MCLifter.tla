------------------------------ MODULE MCLifter ------------------------------
(***************************************************************************)
(* Lifter over every short function, and over the loops of the evaluation  *)
(* targets (addloop, find_in_array, se_find_eq) with variations: of the    *)
(* prologue, the body, the step, the way back and the tail.                *)
(***************************************************************************)
EXTENDS Lifter

CONSTANT ShortLen   \* instructions of a short function

Ins(op, r, k, to) == [op |-> op, r |-> r, k |-> k, to |-> to]
X == Ins("addi", "x", 1, 0)
Addi(r, k) == Ins("addi", r, k, 0)
Div == Ins("divu", "x", 0, 0)
Lw == Ins("lw", "p", 0, 0)
Sw == Ins("sw", "p", 0, 0)
Br(op, r, to) == Ins(op, r, 0, to)
Jal(to) == Ins("jal", "x", 0, to)
Ret == Ins("jalr", "x", 0, 0)

Args(start, limit, hit) == [start |-> start, limit |-> limit, hit |-> hit]
Case(l, a, n) == [listing |-> l, args |-> a, fuel |-> n]

\* Every function of n instructions that does not run off its end.
Short(n) ==
  LET Instructions == {X, Div, Lw, Sw, Ret} \cup {Br("beq", "data", t) : t \in 1..n}
                        \cup {Jal(t) : t \in 1..n}
  IN  {Append(s, e) : s \in [1..(n - 1) -> Instructions], e \in {Ret} \cup {Jal(t) : t \in 1..n}}

\* while (i != limit) i += k
CounterLoops ==
  LET Loop(pre, body, k, same, tail) ==
        LET h == Len(pre) + 1
            end == h + Len(body) + 3
        IN  pre \o <<Br("beq", "i", end)>> \o body
            \o <<Addi("i", k), IF same THEN Br("beq", "same", h) ELSE Jal(h)>> \o tail \o <<Ret>>
  IN  {Loop(pre, body, k, same, tail) :
         pre \in {<<>>, <<X>>, <<X, Lw>>}, body \in {<<>>, <<X>>, <<Addi("p", 1)>>},
         k \in {-2, -1, 1}, same \in BOOLEAN, tail \in {<<>>, <<X>>}}

\* for (i = 0; i != limit; i++) if (a[i] == key) break, indexed or by a pointer
TopSearches ==
  LET Loop(pre, body, pointer, tail) ==
        LET h == Len(pre) + 1
            access == IF pointer THEN <<Lw>> ELSE <<Ins("add", "p", 0, 0), Lw>>
            next == IF pointer THEN <<Addi("p", 1), Addi("i", 1)>> ELSE <<Addi("i", 1)>>
            end == h + Len(access) + Len(body) + Len(next) + 3
        IN  pre \o <<Br("beq", "i", end)>> \o access \o body \o <<Br("beq", "v", end)>>
            \o next \o <<Jal(h)>> \o tail \o <<Ret>>
  IN  {Loop(pre, body, pointer, tail) :
         pre \in {<<>>, <<X>>}, body \in {<<>>, <<X>>, <<Sw>>}, pointer \in BOOLEAN,
         tail \in {<<>>, <<X>>}}

\* The same, rotated: a guard, a jump over the latch, and the test in the latch.
BottomSearches ==
  LET Loop(pre, access, body, tail) ==
        LET latch == Len(pre) + 4
            in == latch + 2
            ret == in + Len(access) + Len(body) + 1 + Len(tail)
        IN  pre \o <<Br("beq", "len", ret), X, Jal(in),
                     Addi("i", 1), Br("beq", "i", ret + 1)>> \o access \o body
            \o <<Br("bne", "v", latch)>> \o tail \o <<Ret, Ret>>
  IN  {Loop(pre, access, body, tail) :
         pre \in {<<>>, <<X>>, <<X, X>>},
         access \in {<<Lw, Addi("p", 1)>>, <<Ins("add", "p", 0, 0), Lw>>},
         body \in {<<>>, <<X>>}, tail \in {<<>>, <<X>>}}

\* A jump back to a return that other paths share.
SharedReturns == {pre \o <<Br("beq", "data", Len(pre) + 4), Addi("i", 1), Ret, X, Jal(Len(pre) + 3)>> :
                    pre \in {<<>>, <<X>>}}

\* if (a != b) x++;
MCBranch == {Case(<<Br("beq", "data", 3), X, Ret>>, Args(0, 0, 0), 4)}

MCCases ==
  {Case(l, Args(0, 0, 0), n + 2) : <<l, n>> \in UNION {Short(n) \X {n} : n \in 2..ShortLen}}
  \cup {Case(l, Args(s, e, 0), 20) : l \in CounterLoops \cup SharedReturns, s \in 0..3, e \in 0..2}
  \cup {Case(l, Args(0, e, k), 40) : l \in TopSearches \cup BottomSearches, e \in 0..2, k \in 0..2}
=============================================================================
