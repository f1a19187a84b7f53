---------------------------- MODULE LifterProofs ----------------------------
(***************************************************************************)
(* Proofs about Lifter, for every set of listings: that the arms of the    *)
(* invariant cut every cycle, however it was made, that the model's text   *)
(* cannot reach past the holes, that the class tells what is executed      *)
(* again, and that the counts pinned for straight-line functions, for      *)
(* counter loops and for searches are what the execution takes.            *)
(***************************************************************************)
EXTENDS Lifter, FiniteSetTheorems, WellFoundedInduction, TLAPS

-----------------------------------------------------------------------------
(* Sets of numbers and listings.                                           *)

\* A set of numbers that is bounded has a greatest.
LEMMA MaxOf ==
  ASSUME NEW n \in Nat, NEW S \in SUBSET (0..n), S # {}
  PROVE  Max(S) \in S /\ \A y \in S : y <= Max(S)
<1> DEFINE T == {n - x : x \in S}
<1>0. PICK z \in S : TRUE
  OBVIOUS
<1>1. T \subseteq Nat /\ n - z \in T
  BY <1>0
<1>2. PICK m \in T : \A k \in T : <<k, m>> \notin OpToRel(<, Nat)
  BY <1>1, NatLessThanWellFounded, WFMin
<1>3. \A k \in T : ~(k < m)
  BY <1>1, <1>2 DEF OpToRel
<1>4. PICK x \in S : m = n - x
  OBVIOUS
<1>5. ASSUME NEW y \in S PROVE x >= y
  <2>1. n - y \in T
    OBVIOUS
  <2>2. ~(n - y < m)
    BY <1>3, <2>1
  <2>3. x \in Nat /\ y \in Nat
    OBVIOUS
  <2>4. QED BY <1>4, <2>2, <2>3
<1>6. Max(S) \in S /\ \A y \in S : Max(S) >= y
  BY <1>5 DEF Max
<1>7. QED BY <1>6

\* The parts of a listing.
LEMMA Listing ==
  ASSUME NEW l, Listed(l)
  PROVE  /\ Len(l) \in Nat \ {0} /\ DOMAIN l = 1..Len(l)
         /\ \A a \in DOMAIN l : l[a].k \in Int /\ (l[a].op = "addi" => l[a].r \in {"x", "i", "p"})
         /\ \A a \in Targeting(l) : a \in DOMAIN l /\ l[a].to \in 1..Len(l)
         /\ l[Len(l)].op \in {"jal", "jalr"}
<1> DEFINE R == [op : STRING, r : {"x", "i", "p", "v", "len", "same", "data"}, k : Int, to : Nat]
<1>1. l \in Seq(R) /\ l # <<>>
  BY DEF Listed
<1> HIDE DEF R
<1>2. Len(l) \in Nat \ {0} /\ DOMAIN l = 1..Len(l) /\ \A a \in DOMAIN l : l[a] \in R
  BY <1>1
<1>3. \A a \in DOMAIN l : l[a].k \in Int /\ (l[a].op = "addi" => l[a].r \in {"x", "i", "p"})
  BY <1>2 DEF Listed, R
<1>4. \A a \in Targeting(l) : a \in DOMAIN l /\ l[a].to \in 1..Len(l)
  <2>1. Targeting(l) \subseteq DOMAIN l
    BY DEF Targeting, Branching
  <2>2. \A a \in Targeting(l) : l[a].to \in DOMAIN l
    BY DEF Listed
  <2>3. QED BY <1>2, <2>1, <2>2
<1>5. QED BY <1>2, <1>3, <1>4 DEF Listed

LEMMA LeadersType ==
  ASSUME NEW l, Listed(l)
  PROVE  Leaders(l) \subseteq 1..Len(l) /\ 1 \in Leaders(l)
  BY Listing DEF Leaders

-----------------------------------------------------------------------------
(* Recursive functions on 0..k.                                            *)

\* A set of numbers that holds 0 and the successor of each of its members.
LEMMA Induction ==
  ASSUME NEW S \in SUBSET Nat, 0 \in S, \A n \in S : n + 1 \in S
  PROVE  S = Nat
<1>1. SUFFICES ASSUME NEW z \in Nat \ S PROVE FALSE
  OBVIOUS
<1>2. PICK m \in Nat \ S : \A k \in Nat \ S : <<k, m>> \notin OpToRel(<, Nat)
  BY NatLessThanWellFounded, WFMin
<1>3. \A k \in Nat \ S : ~(k < m)
  BY <1>2 DEF OpToRel
<1>4. m - 1 \in Nat /\ m - 1 < m
  OBVIOUS
<1>5. m - 1 \in S
  BY <1>3, <1>4
<1>6. (m - 1) + 1 \in S
  BY <1>5
<1>7. QED BY <1>4, <1>6

\* f is built from base by one step after another.
IsRecursion(f, base, k, step) == f[0] = base /\ \A n \in 1..k : f[n] = step[n][f[n - 1]]
\* There is such a function for every k steps.
LEMMA Recursion ==
  ASSUME NEW A, NEW base \in A, NEW k \in Nat, NEW step \in [1..k -> [A -> A]]
  PROVE  \E f \in [0..k -> A] : IsRecursion(f, base, k, step)
<1> DEFINE Good(m, f) == f[0] = base /\ \A n \in 1..k : n <= m => f[n] = step[n][f[n - 1]]
           S == {m \in Nat : \E f \in [0..k -> A] : Good(m, f)}
<1>1. 0 \in S
  <2>1. Good(0, [n \in 0..k |-> base])
    OBVIOUS
  <2>2. QED BY <2>1
<1>2. ASSUME NEW m \in S PROVE m + 1 \in S
  <2>1. PICK f \in [0..k -> A] : Good(m, f)
    OBVIOUS
  <2> DEFINE g == [n \in 0..k |-> IF n = m + 1 THEN step[n][f[n - 1]] ELSE f[n]]
  <2>2. m \in Nat
    OBVIOUS
  <2>3. g \in [0..k -> A]
    <3> SUFFICES ASSUME NEW n \in 0..k PROVE g[n] \in A
      OBVIOUS
    <3>1. CASE n = m + 1
      <4>1. n - 1 \in 0..k /\ n \in 1..k
        BY <2>2, <3>1
      <4>2. f[n - 1] \in A /\ step[n] \in [A -> A]
        BY <4>1
      <4>3. QED BY <3>1, <4>2
    <3>2. QED BY <3>1
  <2>4. Good(m + 1, g)
    <3>1. g[0] = base
      BY <2>1, <2>2
    <3>2. ASSUME NEW n \in 1..k, n <= m + 1 PROVE g[n] = step[n][g[n - 1]]
      <4>1. g[n - 1] = f[n - 1]
        BY <2>2, <3>2
      <4>2. CASE n = m + 1
        BY <4>1, <4>2
      <4>3. CASE n # m + 1
        BY <2>1, <2>2, <3>2, <4>1, <4>3
      <4>4. QED BY <4>2, <4>3
    <3>3. QED BY <3>1, <3>2
  <2>5. m + 1 \in Nat
    BY <2>2
  <2> HIDE DEF g, Good
  <2>6. QED BY <2>3, <2>4, <2>5
<1>3. k \in S
  <2> HIDE DEF S
  <2>1. S \in SUBSET Nat
    BY DEF S
  <2>2. QED BY <1>1, <1>2, <2>1, Induction
<1>4. QED BY <1>3 DEF IsRecursion

\* And no other: two functions that agree at 0 and from each place to the next.
Ranges(f, k) == f = [n \in 0..k |-> f[n]]
InStep(f, g, k) == f[0] = g[0] /\ \A n \in 1..k : f[n - 1] = g[n - 1] => f[n] = g[n]
LEMMA Unique ==
  ASSUME NEW k \in Nat, NEW f, NEW g, Ranges(f, k), Ranges(g, k), InStep(f, g, k)
  PROVE  f = g
<1> USE DEF Ranges, InStep
<1> DEFINE S == {m \in Nat : m <= k => f[m] = g[m]}
<1>1. 0 \in S
  OBVIOUS
<1>2. ASSUME NEW m \in S PROVE m + 1 \in S
  <2>1. m \in Nat /\ (m + 1 <= k => f[m] = g[m])
    OBVIOUS
  <2>2. ASSUME m + 1 <= k PROVE f[m + 1] = g[m + 1]
    <3>1. m + 1 \in 1..k /\ (m + 1) - 1 = m
      BY <2>1, <2>2
    <3>2. QED BY <2>1, <2>2, <3>1
  <2>3. QED BY <2>1, <2>2
<1>3. S = Nat
  <2> HIDE DEF S
  <2>1. S \in SUBSET Nat
    BY DEF S
  <2>2. QED BY <1>1, <1>2, <2>1, Induction
<1>4. \A m \in 0..k : f[m] = g[m]
  BY <1>3, SMTT(30)
<1>5. QED BY <1>4

-----------------------------------------------------------------------------
(* Sums.                                                                   *)

\* The terms up to each place added up.
Sums(terms) ==
  LET upto[n \in 0..Len(terms)] == IF n = 0 THEN 0 ELSE upto[n - 1] + terms[n]
  IN  upto

LEMMA TotalIsSums ==
  ASSUME NEW terms
  PROVE  Total(terms) = Sums(terms)[Len(terms)]
BY Zenon DEF Total, Sums

\* The recursion of Sums unfolded.
LEMMA SumsUnfold ==
  ASSUME NEW n \in Nat, NEW terms \in [1..n -> Nat]
  PROVE  /\ Sums(terms) \in [0..n -> Nat] /\ Sums(terms)[0] = 0
         /\ \A m \in 1..n : Sums(terms)[m] = Sums(terms)[m - 1] + terms[m]
         /\ Total(terms) = Sums(terms)[n]
<1> DEFINE base == 0
           step == [m \in 1..n |-> [t \in Nat |-> t + terms[m]]]
           R(g) == g = [m \in 0..Len(terms) |-> IF m = 0 THEN base ELSE g[m - 1] + terms[m]]
<1>0. Len(terms) = n
  OBVIOUS
<1>1. step \in [1..n -> [Nat -> Nat]]
  OBVIOUS
<1>2. PICK f \in [0..n -> Nat] : f[0] = base /\ \A m \in 1..n : f[m] = step[m][f[m - 1]]
  <2> HIDE DEF step
  <2>1. base \in Nat
    OBVIOUS
  <2> HIDE DEF base
  <2>2. \E f \in [0..n -> Nat] : IsRecursion(f, base, n, step)
    BY <1>1, <2>1, Recursion
  <2>3. QED BY <2>2 DEF IsRecursion
<1>3. ASSUME NEW m \in 1..n PROVE f[m] = f[m - 1] + terms[m]
  <2>1. f[m - 1] \in Nat
    OBVIOUS
  <2>2. QED BY <1>2, <2>1
<1>4. R(f)
  <2> HIDE DEF base
  <2>1. \A m \in 0..n : f[m] = IF m = 0 THEN base ELSE f[m - 1] + terms[m]
    BY <1>2, <1>3
  <2>2. f = [m \in 0..n |-> f[m]]
    OBVIOUS
  <2>3. QED BY <1>0, <2>1, <2>2
<1>5. ASSUME NEW g, R(g) PROVE g = f
  <2>1. g = [m \in 0..n |-> g[m]] /\ f = [m \in 0..n |-> f[m]] /\ g[0] = f[0]
    BY <1>0, <1>2, <1>5
  <2>2. \A m \in 1..n : g[m - 1] = f[m - 1] => g[m] = f[m]
    <3> HIDE DEF base
    <3>1. \A m \in 1..n : g[m] = g[m - 1] + terms[m]
      BY <1>0, <1>5
    <3>2. QED BY <3>1, <1>3
  <2>3. Ranges(g, n) /\ Ranges(f, n) /\ InStep(g, f, n)
    BY <2>1, <2>2 DEF Ranges, InStep
  <2> HIDE DEF R, base
  <2>4. QED BY <2>3, Unique
<1>6. Sums(terms) = CHOOSE g : R(g)
  BY Zenon DEF Sums
<1>7. (CHOOSE g : R(g)) = f
  <2> HIDE DEF R
  <2>1. QED BY <1>4, <1>5
<1>8. Sums(terms) = f
  BY <1>6, <1>7
<1>9. Total(terms) = Sums(terms)[n]
  BY <1>0, TotalIsSums
<1>10. QED BY <1>2, <1>3, <1>8, <1>9

LEMMA TotalType ==
  ASSUME NEW n \in Nat, NEW u \in [1..n -> Nat]
  PROVE  Total(u) \in Nat
BY SumsUnfold, SMTT(30)

\* The sum of two sums.
LEMMA TotalPlus ==
  ASSUME NEW n \in Nat, NEW u \in [1..n -> Nat], NEW v \in [1..n -> Nat], NEW t \in [1..n -> Nat],
         \A m \in 1..n : t[m] = u[m] + v[m]
  PROVE  Total(t) = Total(u) + Total(v)
<1>t. /\ Sums(t) \in [0..n -> Nat] /\ Sums(t)[0] = 0 /\ Total(t) = Sums(t)[n]
      /\ \A m \in 1..n : Sums(t)[m] = Sums(t)[m - 1] + t[m]
  BY SumsUnfold
<1>u. /\ Sums(u) \in [0..n -> Nat] /\ Sums(u)[0] = 0 /\ Total(u) = Sums(u)[n]
      /\ \A m \in 1..n : Sums(u)[m] = Sums(u)[m - 1] + u[m]
  BY SumsUnfold
<1>v. /\ Sums(v) \in [0..n -> Nat] /\ Sums(v)[0] = 0 /\ Total(v) = Sums(v)[n]
      /\ \A m \in 1..n : Sums(v)[m] = Sums(v)[m - 1] + v[m]
  BY SumsUnfold
<1> DEFINE S == {m \in Nat : m <= n => Sums(t)[m] = Sums(u)[m] + Sums(v)[m]}
<1>1. 0 \in S
  BY <1>t, <1>u, <1>v
<1>2. ASSUME NEW m \in S PROVE m + 1 \in S
  <2>1. m \in Nat /\ (m + 1 <= n => Sums(t)[m] = Sums(u)[m] + Sums(v)[m])
    OBVIOUS
  <2>2. ASSUME m + 1 <= n PROVE Sums(t)[m + 1] = Sums(u)[m + 1] + Sums(v)[m + 1]
    <3>1. m + 1 \in 1..n /\ (m + 1) - 1 = m /\ m \in 0..n
      BY <2>1, <2>2
    <3>2. QED BY <2>1, <2>2, <3>1, <1>t, <1>u, <1>v
  <2>3. QED BY <2>1, <2>2
<1>3. S = Nat
  <2> HIDE DEF S
  <2>1. S \in SUBSET Nat
    BY DEF S
  <2>2. QED BY <1>1, <1>2, <2>1, Induction
<1>4. n \in S
  BY <1>3
<1>5. QED BY <1>4, <1>t, <1>u, <1>v

\* The multiple of a sum.
LEMMA TotalTimes ==
  ASSUME NEW n \in Nat, NEW u \in [1..n -> Nat], NEW t \in [1..n -> Nat], NEW d \in Nat,
         \A m \in 1..n : t[m] = u[m] * d
  PROVE  Total(t) = Total(u) * d
<1>t. /\ Sums(t) \in [0..n -> Nat] /\ Sums(t)[0] = 0 /\ Total(t) = Sums(t)[n]
      /\ \A m \in 1..n : Sums(t)[m] = Sums(t)[m - 1] + t[m]
  BY SumsUnfold
<1>u. /\ Sums(u) \in [0..n -> Nat] /\ Sums(u)[0] = 0 /\ Total(u) = Sums(u)[n]
      /\ \A m \in 1..n : Sums(u)[m] = Sums(u)[m - 1] + u[m]
  BY SumsUnfold
<1> DEFINE S == {m \in Nat : m <= n => Sums(t)[m] = Sums(u)[m] * d}
<1>1. 0 \in S
  <2>1. 0 * d = 0
    OBVIOUS
  <2>2. QED BY <1>t, <1>u, <2>1
<1>2. ASSUME NEW m \in S PROVE m + 1 \in S
  <2>1. m \in Nat /\ (m + 1 <= n => Sums(t)[m] = Sums(u)[m] * d)
    OBVIOUS
  <2>2. ASSUME m + 1 <= n PROVE Sums(t)[m + 1] = Sums(u)[m + 1] * d
    <3>1. m + 1 \in 1..n /\ (m + 1) - 1 = m /\ m \in 0..n
      BY <2>1, <2>2
    <3> DEFINE x == Sums(u)[m]   y == u[m + 1]
    <3>2. /\ Sums(u)[m + 1] = x + y /\ Sums(t)[m + 1] = Sums(t)[m] + t[m + 1]
          /\ x \in Nat /\ y \in Nat
      BY <3>1, <1>t, <1>u
    <3>3. Sums(t)[m] = x * d /\ t[m + 1] = y * d
      <4>1. \A k \in 1..n : t[k] = u[k] * d
        OBVIOUS
      <4>2. QED BY <2>1, <2>2, <3>1, <4>1, Zenon
    <3> HIDE DEF x, y
    <3>4. (x + y) * d = x * d + y * d
      BY <3>2
    <3>5. QED BY <3>2, <3>3, <3>4, Zenon
  <2>3. QED BY <2>1, <2>2
<1>3. S = Nat
  <2> HIDE DEF S
  <2>1. S \in SUBSET Nat
    BY DEF S
  <2>2. QED BY <1>1, <1>2, <2>1, Induction
<1>4. n \in S
  BY <1>3
<1>5. QED BY <1>4, <1>t, <1>u

LEMMA TotalLess ==
  ASSUME NEW n \in Nat, NEW u \in [1..n -> Nat], NEW t \in [1..n -> Nat],
         \A m \in 1..n : u[m] <= t[m]
  PROVE  Total(u) <= Total(t)
<1> DEFINE v == [m \in 1..n |-> t[m] - u[m]]
<1>1. v \in [1..n -> Nat] /\ \A m \in 1..n : t[m] = u[m] + v[m]
  OBVIOUS
<1> HIDE DEF v
<1>2. Total(t) = Total(u) + Total(v)
  BY <1>1, TotalPlus
<1>3. Total(u) \in Nat /\ Total(v) \in Nat
  BY <1>1, TotalType
<1>4. QED BY <1>2, <1>3

\* All terms but one are zero.
LEMMA TotalOne ==
  ASSUME NEW n \in Nat, NEW u \in [1..n -> Nat], NEW a \in 1..n, \A m \in 1..n : m # a => u[m] = 0
  PROVE  Total(u) = u[a]
<1>0. /\ Sums(u) \in [0..n -> Nat] /\ Sums(u)[0] = 0 /\ Total(u) = Sums(u)[n]
       /\ \A m \in 1..n : Sums(u)[m] = Sums(u)[m - 1] + u[m]
  BY SumsUnfold
<1> DEFINE S == {m \in Nat : m <= n => Sums(u)[m] = IF m < a THEN 0 ELSE u[a]}
<1>1. 0 \in S
  BY <1>0
<1>2. ASSUME NEW m \in S PROVE m + 1 \in S
  <2>1. m \in Nat /\ (m + 1 <= n => Sums(u)[m] = IF m < a THEN 0 ELSE u[a])
    OBVIOUS
  <2>2. ASSUME m + 1 <= n PROVE Sums(u)[m + 1] = IF m + 1 < a THEN 0 ELSE u[a]
    <3>1. m + 1 \in 1..n /\ (m + 1) - 1 = m
      BY <2>1, <2>2
    <3>2. Sums(u)[m + 1] = Sums(u)[m] + u[m + 1]
      BY <3>1, <1>0
    <3>3. QED BY <2>1, <2>2, <3>1, <3>2
  <2>3. QED BY <2>1, <2>2
<1>3. S = Nat
  <2> HIDE DEF S
  <2>1. S \in SUBSET Nat
    BY DEF S
  <2>2. QED BY <1>1, <1>2, <2>1, Induction
<1>4. n \in S
  BY <1>3
<1>5. QED BY <1>4, <1>0

-----------------------------------------------------------------------------
(* The blocks of a graph.                                                  *)

Block(l) == [a \in DOMAIN l |-> Max({b \in Leaders(l) : b <= a})]
LastIn(l) == [b \in Leaders(l) |-> Max({a \in DOMAIN l : Block(l)[a] = b})]

LEMMA Graph ==
  ASSUME NEW l
  PROVE  /\ BuildCfg(l).l = l /\ BuildCfg(l).block = Block(l)
         /\ BuildCfg(l).jumps = {<<b, l[LastIn(l)[b]].to>> :
                                   b \in {c \in Leaders(l) : LastIn(l)[c] \in Targeting(l)}}
         /\ BuildCfg(l).falls = {<<b, LastIn(l)[b] + 1>> : b \in {c \in Leaders(l) :
                                   l[LastIn(l)[c]].op \notin {"jal", "jalr"} /\ LastIn(l)[c] < Len(l)}}
  BY DEF BuildCfg, LastIn, Block

\* The block of an address begins at the last leader up to it.
LEMMA BlockOf ==
  ASSUME NEW l, Listed(l), NEW a \in DOMAIN l
  PROVE  /\ Block(l)[a] \in Leaders(l) /\ Block(l)[a] <= a
         /\ \A b \in Leaders(l) : b <= a => b <= Block(l)[a]
<1> DEFINE S == {b \in Leaders(l) : b <= a}
<1>1. S \in SUBSET (0..Len(l)) /\ S # {} /\ Len(l) \in Nat
  BY LeadersType, Listing
<1>2. Max(S) \in S /\ \A y \in S : y <= Max(S)
  BY <1>1, MaxOf
<1>3. QED BY <1>2 DEF Block

\* The last address of a block is in it.
LEMMA LastOf ==
  ASSUME NEW l, Listed(l), NEW b \in Leaders(l)
  PROVE  /\ LastIn(l)[b] \in DOMAIN l /\ Block(l)[LastIn(l)[b]] = b
         /\ \A a \in DOMAIN l : Block(l)[a] = b => a <= LastIn(l)[b]
<1> DEFINE S == {a \in DOMAIN l : Block(l)[a] = b}
<1>1. b \in DOMAIN l /\ DOMAIN l = 1..Len(l) /\ Len(l) \in Nat
  BY LeadersType, Listing
<1>2. Block(l)[b] = b
  BY <1>1, BlockOf, LeadersType
<1>3. S \in SUBSET (0..Len(l)) /\ S # {}
  BY <1>1, <1>2
<1>4. Max(S) \in S /\ \A y \in S : y <= Max(S)
  BY <1>1, <1>3, MaxOf
<1>5. QED BY <1>4 DEF LastIn

\* A branch ends its block.
LEMMA BranchEnds ==
  ASSUME NEW l, Listed(l), NEW a \in Branching(l)
  PROVE  LastIn(l)[Block(l)[a]] = a
<1>1. a \in DOMAIN l /\ DOMAIN l = 1..Len(l) /\ Len(l) \in Nat
  BY Listing DEF Branching
<1> DEFINE b == Block(l)[a]
           z == LastIn(l)[b]
<1>2. b \in Leaders(l) /\ b <= a /\ b \in 1..Len(l)
  BY <1>1, BlockOf, LeadersType
<1>3. z \in 1..Len(l) /\ Block(l)[z] = b /\ a <= z
  BY <1>1, <1>2, LastOf
<1>4. z <= a
  <2> SUFFICES ASSUME z > a PROVE FALSE
    BY <1>1, <1>3
  <2>1. a + 1 \in Leaders(l) /\ a + 1 <= z
    BY <1>1, <1>3 DEF Leaders
  <2>2. a + 1 <= Block(l)[z]
    BY <1>1, <1>3, <2>1, BlockOf
  <2>3. QED BY <1>1, <1>2, <1>3, <2>2
<1>5. QED BY <1>1, <1>3, <1>4

\* A jump backwards goes to a loop header.
LEMMA BackwardJump ==
  ASSUME NEW l, Listed(l), NEW a \in Targeting(l), l[a].to <= a
  PROVE  l[a].to \in LoopHeaders(BuildCfg(l))
<1>1. /\ a \in Branching(l) /\ a \in DOMAIN l /\ DOMAIN l = 1..Len(l) /\ Len(l) \in Nat
      /\ l[a].to \in 1..Len(l)
  BY Listing DEF Targeting
<1>2. l[a].to \in Leaders(l)
  BY <1>1 DEF Leaders
<1>3. l[a].to <= Block(l)[a] /\ Block(l)[a] \in Leaders(l)
  BY <1>1, <1>2, BlockOf
<1>4. <<Block(l)[a], l[a].to>> \in BuildCfg(l).jumps
  BY <1>1, <1>3, BranchEnds, Graph
<1>5. QED BY <1>3, <1>4 DEF LoopHeaders, BackEdges, Edges

\* Edges lead to leaders.
LEMMA EdgesLead ==
  ASSUME NEW l, Listed(l), NEW e \in Edges(BuildCfg(l))
  PROVE  e[1] \in Leaders(l) /\ e[2] \in Leaders(l)
<1>1. CASE e \in BuildCfg(l).jumps
  <2>1. PICK b \in Leaders(l) : LastIn(l)[b] \in Targeting(l) /\ e = <<b, l[LastIn(l)[b]].to>>
    BY <1>1, Graph
  <2>2. e[2] \in Leaders(l)
    BY <2>1, Listing DEF Leaders
  <2>3. QED BY <2>1, <2>2
<1>2. CASE e \in BuildCfg(l).falls
  <2>1. PICK b \in Leaders(l) : LastIn(l)[b] < Len(l) /\ e = <<b, LastIn(l)[b] + 1>>
    BY <1>2, Graph
  <2> DEFINE z == LastIn(l)[b]
  <2>2. /\ z \in 1..Len(l) /\ z < Len(l) /\ Block(l)[z] = b /\ Len(l) \in Nat /\ DOMAIN l = 1..Len(l)
        /\ \A a \in DOMAIN l : Block(l)[a] = b => a <= z
    BY <2>1, LastOf, Listing
  <2>3. z + 1 \in DOMAIN l /\ Block(l)[z + 1] # b
    BY <2>2
  <2>4. Block(l)[z + 1] \in Leaders(l) /\ Block(l)[z + 1] <= z + 1 /\ b <= z
    BY <2>2, <2>3, BlockOf
  <2>5. Block(l)[z + 1] \in 1..Len(l) /\ b \in 1..Len(l)
    BY <2>1, <2>4, LeadersType
  <2>6. b <= Block(l)[z + 1]
    BY <2>1, <2>2, <2>3, <2>4, <2>5, BlockOf
  <2>7. Block(l)[z + 1] <= z => Block(l)[z + 1] <= b
    BY <2>2, <2>4, BlockOf
  <2>8. Block(l)[z + 1] = z + 1
    BY <2>2, <2>3, <2>4, <2>5, <2>6, <2>7
  <2>9. QED BY <2>1, <2>4, <2>8
<1>3. Edges(BuildCfg(l)) = BuildCfg(l).jumps \cup BuildCfg(l).falls
  BY DEF Edges
<1>4. QED BY <1>1, <1>2, <1>3

\* So do all that get an invariant.
LEMMA PointsLead ==
  ASSUME NEW l, Listed(l)
  PROVE  InvariantPoints(BuildCfg(l)) \subseteq Leaders(l)
<1>1. Blocks(BuildCfg(l)) \subseteq Leaders(l)
  BY Graph, BlockOf DEF Blocks, Addresses
<1>2. LoopHeaders(BuildCfg(l)) \subseteq Leaders(l)
  BY EdgesLead DEF LoopHeaders, BackEdges
<1>3. QED BY <1>1, <1>2, LeadersType DEF InvariantPoints, JoinPoints, ExitPoints

-----------------------------------------------------------------------------
(* The class and the arms.                                                 *)

\* The class is one of the six, and straight-line only without a back edge.
LEMMA ClassType ==
  ASSUME NEW g
  PROVE  /\ Classify(g) \in {Severity[k] : k \in DOMAIN Severity}
         /\ Classify(g) = "straight-line" => LoopHeaders(g) = {}
<1> DEFINE hs == LoopHeaders(g)
           S == {LoopClass(g, NaturalLoop(g, h)) : h \in hs}
                  \cup (IF Cardinality(hs) > 1 THEN {6} ELSE {})
<1>1. Classify(g) = Severity[IF hs = {} THEN 1 ELSE Max(S)]
  BY DEF Classify
<1>2. ASSUME hs # {} PROVE Max(S) \in 2..6
  <2>1. \A h \in hs : LoopClass(g, NaturalLoop(g, h)) \in 2..4
    BY DEF LoopClass
  <2>2. PICK h \in hs : TRUE
    BY <1>2
  <2>3. LoopClass(g, NaturalLoop(g, h)) \in S /\ S \subseteq 2..6
    BY <2>1, <2>2
  <2> HIDE DEF S
  <2>4. Max(S) \in S
    <3>1. S \in SUBSET (0..6) /\ S # {}
      BY <2>3
    <3>2. QED BY <3>1, MaxOf
  <2>5. QED BY <2>3, <2>4
<1> DEFINE n == IF hs = {} THEN 1 ELSE Max(S)
<1>3. n \in 1..6 /\ (hs # {} => n # 1)
  BY <1>2
<1> HIDE DEF S
<1>4. DOMAIN Severity = 1..6 /\ \A k \in 2..6 : Severity[k] # "straight-line"
  BY DEF Severity
<1> HIDE DEF n
<1>5. Classify(g) = Severity[n]
  BY <1>1 DEF n
<1>6. QED BY <1>3, <1>4, <1>5

\* What lift() returns.
LEMMA Lifted ==
  ASSUME NEW g
  PROVE  \E counter :
           /\ LiftResult(g).cfg = g /\ LiftResult(g).class = Classify(g)
           /\ LiftResult(g).points = InvariantPoints(g)
           /\ LiftResult(g).derived = Derived(g, Classify(g), counter)
BY DEF LiftResult

LEMMA ArmsOf ==
  ASSUME NEW A, NEW body
  PROVE  ArmPoints(Arms(A, body)) = A
<1>1. \A a \in A : <<a, body>> \in Arms(A, body) /\ <<a, body>>[1] = a
  BY DEF Arms
<1>2. \A arm \in Arms(A, body) : arm[1] \in A
  BY DEF Arms
<1>3. QED BY <1>1, <1>2 DEF ArmPoints

LEMMA ArmsOfThree ==
  ASSUME NEW S, NEW T, NEW U
  PROVE  ArmPoints(S \cup T \cup U) = ArmPoints(S) \cup ArmPoints(T) \cup ArmPoints(U)
BY DEF ArmPoints

\* A derived invariant has an arm at every loop header, and only at leaders.
LEMMA DerivedArms ==
  ASSUME NEW l, Listed(l), NEW counter,
         NEW c, c = Derived(BuildCfg(l), Classify(BuildCfg(l)), counter), c # {}
  PROVE  LoopHeaders(BuildCfg(l)) \subseteq ArmPoints(c) /\ ArmPoints(c) \subseteq Leaders(l)
<1> DEFINE g == BuildCfg(l)
<1> HIDE DEF g
<1>1. {1} \cup LoopHeaders(g) \cup ExitPoints(g) \subseteq Leaders(l)
  BY PointsLead DEF InvariantPoints, g
<1>2. ArmPoints(StraightlineArms(g)) = {1} \cup ExitPoints(g)
  <2>1. ArmPoints(StraightlineArms(g)) = ({1} \ ExitPoints(g)) \cup ExitPoints(g)
    BY ArmsOf, ArmsOfThree DEF StraightlineArms
  <2>2. QED BY <2>1
<1>3. ArmPoints(CounterArms(g)) = {1} \cup LoopHeaders(g) \cup ExitPoints(g)
  <2>1. ArmPoints(CounterArms(g)) = {1} \cup LoopHeaders(g) \cup (ExitPoints(g) \ LoopHeaders(g))
    BY ArmsOf, ArmsOfThree DEF CounterArms
  <2>2. QED BY <2>1
<1>4. CASE Classify(g) = "straight-line"
  <2>1. c = StraightlineArms(g) /\ LoopHeaders(g) = {}
    BY <1>4, ClassType DEF Derived, g
  <2>2. QED BY <1>1, <1>2, <2>1 DEF g
<1>5. CASE Classify(g) # "straight-line"
  <2>1. c = CounterArms(g)
    BY <1>5 DEF Derived, g
  <2>2. QED BY <1>1, <1>3, <2>1 DEF g
<1>6. QED BY <1>4, <1>5

\* A completed skeleton has an arm at every hole and every exit, and no other.
LEMMA FillArms ==
  ASSUME NEW plan, NEW fills
  PROVE  ArmPoints(Fill(plan, fills)) = plan.holes \cup plan.exits
<1> DEFINE S == {<<a, fills[a]>> : a \in plan.holes \cap DOMAIN fills}
<1>1. ArmPoints(S) = plan.holes \cap DOMAIN fills
  <2>1. \A a \in plan.holes \cap DOMAIN fills : <<a, fills[a]>> \in S /\ <<a, fills[a]>>[1] = a
    OBVIOUS
  <2>2. \A arm \in S : arm[1] \in plan.holes \cap DOMAIN fills
    OBVIOUS
  <2>3. QED BY <2>1, <2>2, ZenonT(60) DEF ArmPoints
<1>2. Fill(plan, fills) = S \cup Arms(plan.holes \ DOMAIN fills, "unfilled") \cup Arms(plan.exits, "post")
  BY DEF Fill
<1> HIDE DEF S
<1>3. ArmPoints(Fill(plan, fills)) =
        (plan.holes \cap DOMAIN fills) \cup (plan.holes \ DOMAIN fills) \cup plan.exits
  BY <1>1, <1>2, ArmsOf, ArmsOfThree
<1>4. QED BY <1>3

LEMMA FillBodies ==
  ASSUME NEW plan, NEW fills, NEW arm \in Fill(plan, fills)
  PROVE  \/ arm[1] \in plan.holes \cap DOMAIN fills /\ arm[2] = fills[arm[1]]
         \/ arm[1] \in plan.holes \ DOMAIN fills /\ arm[2] = "unfilled"
         \/ arm[1] \in plan.exits /\ arm[2] = "post"
<1>1. CASE arm \in {<<a, fills[a]>> : a \in plan.holes \cap DOMAIN fills}
  <2>1. PICK a \in plan.holes \cap DOMAIN fills : arm = <<a, fills[a]>>
    BY <1>1
  <2>2. QED BY <2>1
<1>2. CASE arm \in Arms(plan.holes \ DOMAIN fills, "unfilled")
  BY <1>2 DEF Arms
<1>3. CASE arm \in Arms(plan.exits, "post")
  BY <1>3 DEF Arms
<1>4. QED BY <1>1, <1>2, <1>3 DEF Fill

LEMMA SkeletonPoints ==
  ASSUME NEW g
  PROVE  /\ SkeletonPlan(g).holes \cup SkeletonPlan(g).exits = InvariantPoints(g)
         /\ SkeletonPlan(g).exits = ExitPoints(g)
         /\ SkeletonPlan(g).holes \cap ExitPoints(g) = {}
BY DEF SkeletonPlan, InvariantPoints

-----------------------------------------------------------------------------
(* What the model writes.                                                  *)

Asked(plan) == {<<a, "model">> : a \in plan.holes} \cup {<<a, "post">> : a \in plan.exits}

\* A body the model may have written where it was not asked for the postcondition.
Written(plan) ==
  {arm \in (plan.holes \cup plan.exits \cup DOMAIN listing) \X {"model", "post"} :
     arm[1] \notin plan.exits => arm[2] = "model"}

LEMMA SetToSeqType ==
  ASSUME NEW S, IsFiniteSet(S), NEW T, S \subseteq T
  PROVE  SetToSeq(S) \in Seq(T)
<1>1. Cardinality(S) \in Nat /\ ExistsBijection(1..Cardinality(S), S)
  BY FS_CardinalityType
<1>2. \E f \in [1..Cardinality(S) -> S] : IsInjective(f)
  BY <1>1 DEF ExistsBijection, Bijection, Injection
<1>3. SetToSeq(S) \in [1..Cardinality(S) -> S]
  BY <1>2 DEF SetToSeq
<1>4. QED BY <1>1, <1>3

LEMMA TextType ==
  ASSUME NEW n \in Nat, NEW plan, plan.holes \subseteq 1..n, plan.exits \subseteq 1..n,
         plan.holes \cap plan.exits = {}, NEW text \in Texts(plan)
  PROVE  text \in Seq(Written(plan))
<1> DEFINE W == Written(plan)
<1>1. Asked(plan) \subseteq W
  BY DEF Asked, Written
<1>2. \A a \in plan.exits \cup DOMAIN listing : <<<<a, "model">>>> \in Seq(W)
  <2>1. \A a \in plan.exits \cup DOMAIN listing : <<a, "model">> \in W
    BY DEF Written
  <2> HIDE DEF W
  <2>2. \A w \in W : <<w>> \in Seq(W)
    OBVIOUS
  <2>3. QED BY <2>1, <2>2
<1>3. IsFiniteSet(Asked(plan))
  <2>0. IsFiniteSet(1..n)
    BY FS_Interval
  <2>1. IsFiniteSet({"model"} \cup {"post"})
    BY FS_Singleton, FS_AddElement
  <2>2. IsFiniteSet((1..n) \X ({"model"} \cup {"post"}))
    BY <2>0, <2>1, FS_Product
  <2>3. Asked(plan) \in SUBSET ((1..n) \X ({"model"} \cup {"post"}))
    BY DEF Asked
  <2>4. QED BY <2>2, <2>3, FS_Subset
<1>4. \A S \in SUBSET Asked(plan) : SetToSeq(S) \in Seq(W)
  <2>1. \A S \in SUBSET Asked(plan) : IsFiniteSet(S) /\ S \subseteq W
    BY <1>1, <1>3, FS_Subset
  <2> HIDE DEF W
  <2>2. QED BY <2>1, SetToSeqType
<1>5. \/ \E S \in SUBSET Asked(plan) : text = SetToSeq(S)
      \/ \E a \in DOMAIN listing : text = SetToSeq(Asked(plan)) \o <<<<a, "model">>>>
      \/ \E a \in plan.exits : text = <<<<a, "model">>>> \o SetToSeq(Asked(plan))
  BY DEF Texts, Asked
<1>6. SetToSeq(Asked(plan)) \in Seq(W)
  BY <1>4
<1> HIDE DEF W
<1>7. \A q, r \in Seq(W) : q \o r \in Seq(W)
  OBVIOUS
<1>8. text \in Seq(W)
  BY <1>2, <1>4, <1>5, <1>6, <1>7
<1>9. QED BY <1>8 DEF W

\* Away from the exits every arm taken from a text is the model's.
LEMMA ExtractedType ==
  ASSUME NEW plan, NEW text \in Seq(Written(plan)), NEW a \in DOMAIN ExtractArms(text),
         a \notin plan.exits
  PROVE  ExtractArms(text)[a] = "model"
<1> DEFINE S == {k \in DOMAIN text : text[k][1] = a}
<1>1. Len(text) \in Nat /\ DOMAIN text = 1..Len(text) /\ \A k \in DOMAIN text : text[k] \in Written(plan)
  OBVIOUS
<1>2. S \in SUBSET (0..Len(text)) /\ S # {}
  BY <1>1 DEF ExtractArms
<1>3. Max(S) \in S
  BY <1>1, <1>2, MaxOf
<1>4. text[Max(S)][2] = "model"
  BY <1>1, <1>3 DEF Written
<1>5. QED BY <1>4 DEF ExtractArms

\* Whatever the model writes: the arms are the holes and the exits, the exits
\* claim the postcondition and nothing else does, and a text is used whole or not.
LEMMA SplicePins ==
  ASSUME NEW plan, plan.holes \cap plan.exits = {}, NEW text \in Seq(Written(plan)),
         NEW c, c = SpliceSkeleton(plan, text)
  PROVE  /\ ArmPoints(c) = plan.holes \cup plan.exits
         /\ \A arm \in c : arm[2] = "post" <=> arm[1] \in plan.exits
         /\ (\A arm \in c : arm[2] # "unfilled") \/ (\A arm \in c : arm[2] # "model")
<1> DEFINE arms == ExtractArms(text)
           fills == IF Accepted(plan, arms) THEN [a \in plan.holes |-> arms[a]] ELSE <<>>
<1>1. c = Fill(plan, fills)
  BY DEF SpliceSkeleton
<1>2. ArmPoints(c) = plan.holes \cup plan.exits
  BY <1>1, FillArms
<1>3. CASE Accepted(plan, arms)
  <2>1. \A a \in plan.holes : a \in DOMAIN arms /\ a \notin plan.exits
    BY <1>3 DEF Accepted
  <2>2. \A a \in plan.holes : arms[a] = "model"
    BY <2>1, ExtractedType
  <2> HIDE DEF arms
  <2>3. fills = [a \in plan.holes |-> arms[a]]
    BY <1>3
  <2>4. \A arm \in c : \/ arm[1] \in plan.holes /\ arm[2] = "model"
                       \/ arm[1] \in plan.exits /\ arm[2] = "post"
    <3>1. DOMAIN fills = plan.holes /\ \A a \in plan.holes : fills[a] = "model"
      BY <2>2, <2>3
    <3> HIDE DEF fills
    <3> SUFFICES ASSUME NEW arm \in Fill(plan, fills)
                 PROVE  \/ arm[1] \in plan.holes /\ arm[2] = "model"
                        \/ arm[1] \in plan.exits /\ arm[2] = "post"
      BY <1>1
    <3>2. QED BY <3>1, FillBodies
  <2>5. QED BY <1>2, <2>4
<1>4. CASE ~Accepted(plan, arms)
  <2> HIDE DEF arms
  <2>1. fills = <<>> /\ DOMAIN fills = {}
    BY <1>4
  <2> HIDE DEF fills
  <2>2. \A arm \in c : \/ arm[1] \in plan.holes /\ arm[2] = "unfilled"
                       \/ arm[1] \in plan.exits /\ arm[2] = "post"
    <3> SUFFICES ASSUME NEW arm \in Fill(plan, fills)
                 PROVE  \/ arm[1] \in plan.holes /\ arm[2] = "unfilled"
                        \/ arm[1] \in plan.exits /\ arm[2] = "post"
      BY <1>1
    <3>1. QED BY <2>1, FillBodies
  <2>3. QED BY <1>2, <2>2
<1>5. QED BY <1>3, <1>4

-----------------------------------------------------------------------------
(* The machine.                                                            *)

\* The program in hand is one of the cases, with its own graph once it is lifted.
Known ==
  /\ Listed(listing)
  /\ args \in [start : 0..(Word - 1), limit : Nat, hit : Nat]
  /\ run \in {"lifted", "running", "returned"} => lifted = LiftResult(BuildCfg(listing))

\* Nothing has been executed before the invariant is chosen.
Started ==
  /\ run \in {"compiled", "refused"} => claim = {}
  /\ run \in {"compiled", "refused", "lifted"} => pc = 1 /\ since = {} /\ seen = {}

HeadersHeld ==
  run \in {"running", "returned"} => LoopHeaders(BuildCfg(listing)) \subseteq ArmPoints(claim)

\* Between two arms execution goes forward; without a loop header it always does.
Forward ==
  Running =>
    /\ pc \notin ArmPoints(claim) => \A a \in since : a < pc
    /\ LoopHeaders(BuildCfg(listing)) = {} => \A a \in seen : a < pc

IInv == TypeOK /\ Known /\ Started /\ HeadersHeld /\ Forward /\ ClaimsPinned

\* What an instruction costs beyond what is charged for it is never negative.
LEMMA CostType ==
  ASSUME NEW ins, NEW taken \in BOOLEAN
  PROVE  /\ Cycles(ins.op, taken) \in Nat
         /\ Charge(ins, FALSE) \in Nat
         /\ Cycles(ins.op, taken) - Charge(ins, FALSE) \in Nat
<1> DEFINE x == Cycles(ins.op, taken)
           y == Cycles(ins.op, FALSE)
           z == Charge(ins, FALSE)
<1>1. InstLatency \in Nat /\ DataLatency \in Nat
  BY Latencies
<1>2. x \in Nat /\ y \in Nat
  BY <1>1 DEF Cycles, Fixed, Waits, Latency, Loads, Stores, Conditional
<1>3. x >= y
  <2>1. CASE ins.op \in Conditional
    BY <1>1, <2>1 DEF Cycles, Fixed, Waits, Latency, Loads, Stores, Conditional
  <2>2. CASE ins.op \notin Conditional
    <3>1. Waits(ins.op, taken) = Waits(ins.op, FALSE)
      BY <2>2 DEF Waits
    <3>2. Fixed(ins.op, taken) = Fixed(ins.op, FALSE)
      BY <2>2, <3>1 DEF Fixed
    <3>3. x = y
      BY <3>1, <3>2, Zenon DEF Cycles
    <3> HIDE DEF x, y
    <3>4. QED BY <1>2, <3>3
  <2>3. QED BY <2>1, <2>2
<1>4. z = y \/ z = 0
  BY Zenon DEF Charge
<1> HIDE DEF x, y, z
<1>5. x \in Nat /\ z \in Nat /\ x - z \in Nat
  BY <1>2, <1>3, <1>4
<1>6. QED BY <1>5, Zenon DEF x, z

\* The processor may go on at the next instruction or where a branch leads.
LEMMA NextAddress ==
  ASSUME Known, TypeOK
  PROVE  /\ listing[pc].op \notin {"jal", "jalr"} => pc + 1 \in DOMAIN listing
         /\ listing[pc].op \in Conditional \cup {"jal"} =>
              pc \in Targeting(listing) /\ listing[pc].to \in DOMAIN listing
<1>1. /\ Len(listing) \in Nat \ {0} /\ DOMAIN listing = 1..Len(listing)
      /\ listing[Len(listing)].op \in {"jal", "jalr"}
      /\ \A a \in Targeting(listing) : listing[a].to \in 1..Len(listing)
  BY Listing DEF Known
<1>2. pc \in 1..Len(listing)
  BY <1>1 DEF TypeOK
<1>3. listing[pc].op \notin {"jal", "jalr"} => pc + 1 \in DOMAIN listing
  BY <1>1, <1>2
<1>4. listing[pc].op \in Conditional \cup {"jal"} => pc \in Targeting(listing)
  BY <1>1, <1>2 DEF Targeting, Branching, Conditional
<1>5. QED BY <1>1, <1>3, <1>4

\* An instruction that goes on at a keeps the invariant.
LEMMA GotoKeeps ==
  ASSUME IInv, NEW a \in DOMAIN listing, NEW taken \in BOOLEAN, Goto(a, taken),
         \/ a = pc + 1
         \/ pc \in Targeting(listing) /\ a = listing[pc].to
         \/ run' = "returned",
         run' \in {"running", "returned"},
         reg' \in [i : 0..(Word - 1), p : 0..(Word - 1), v : BOOLEAN]
  PROVE  IInv'
<1>1. /\ run = "running" /\ pc' = a /\ fuel' = fuel - 1 /\ fuel > 0
      /\ seen' = seen \cup {pc}
      /\ since' = IF pc \in ArmPoints(claim) THEN {pc} ELSE since \cup {pc}
      /\ UNCHANGED <<listing, args, lifted, claim>>
      /\ cyc' = cyc + Cycles(listing[pc].op, taken)
      /\ excess' = excess + Cycles(listing[pc].op, taken) - Charge(listing[pc], FALSE)
  BY DEF Goto
<1>2. cyc' \in Nat /\ excess' \in Nat
  <2>1. cyc \in Nat /\ excess \in Nat
    BY DEF IInv, TypeOK
  <2> DEFINE x == Cycles(listing[pc].op, taken)
             z == Charge(listing[pc], FALSE)
  <2>2. x \in Nat /\ z \in Nat /\ x - z \in Nat
    BY CostType, Zenon
  <2>3. cyc' = cyc + x /\ excess' = excess + x - z
    BY <1>1, Zenon
  <2> HIDE DEF x, z
  <2>4. QED BY <2>1, <2>2, <2>3
<1>3. TypeOK'
  <2>1. TypeOK
    BY DEF IInv
  <2>2. fuel' \in Nat
    BY <1>1, <2>1 DEF TypeOK
  <2>3. pc' \in DOMAIN listing' /\ since' \subseteq seen' /\ seen' \subseteq DOMAIN listing'
    BY <1>1, <2>1 DEF TypeOK
  <2>4. ArmPoints(claim') \subseteq Leaders(listing')
    BY <1>1, <2>1 DEF TypeOK
  <2>5. lifted'.class \in {"none"} \cup {Severity[k] : k \in DOMAIN Severity}
    BY <1>1, <2>1 DEF TypeOK
  <2>6. QED BY <1>2, <2>2, <2>3, <2>4, <2>5 DEF TypeOK
<1>4. Known'
  BY <1>1 DEF IInv, Known
<1>5. Started' /\ HeadersHeld'
  BY <1>1 DEF IInv, Started, HeadersHeld
<1>6. ClaimsPinned'
  BY <1>1 DEF IInv, ClaimsPinned
<1>7. ASSUME run' = "running" PROVE Forward'
  <2>1. pc \in Nat /\ pc \in DOMAIN listing /\ a \in Nat /\ seen \subseteq Nat /\ since \subseteq Nat
    BY Listing DEF IInv, TypeOK, Known
  <2>2. CASE a > pc
    <3>1. \A b \in Nat : b < pc => b < a
      BY <2>1, <2>2
    <3>2. /\ pc \notin ArmPoints(claim) => \A b \in since : b < a
          /\ LoopHeaders(BuildCfg(listing)) = {} => \A b \in seen : b < a
      BY <1>1, <2>1, <3>1 DEF IInv, Forward, Running
    <3>3. /\ \A b \in since' : b < a
          /\ LoopHeaders(BuildCfg(listing)) = {} => \A b \in seen' : b < a
      BY <1>1, <2>2, <3>2
    <3>4. QED BY <1>1, <3>3 DEF Forward
  <2>3. CASE a <= pc
    <3>1. pc \in Targeting(listing) /\ a = listing[pc].to
      BY <1>7, <2>1, <2>3
    <3>2. a \in LoopHeaders(BuildCfg(listing))
      BY <2>3, <3>1, BackwardJump DEF IInv, Known
    <3>3. QED BY <1>1, <3>2 DEF IInv, HeadersHeld, Forward
  <2>4. QED BY <2>1, <2>2, <2>3
<1>8. run' # "running" => Forward'
  BY DEF Forward, Running
<1>9. QED BY <1>3, <1>4, <1>5, <1>6, <1>7, <1>8 DEF IInv

LEMMA InitIInv == Init => IInv
<1> SUFFICES ASSUME Init PROVE IInv
  OBVIOUS
<1>1. PICK c \in Cases : listing = c.listing /\ args = c.args /\ fuel = c.fuel
  BY DEF Init
<1>2. /\ Listed(listing) /\ fuel \in Nat
      /\ args \in [start : 0..(Word - 1), limit : Nat, hit : Nat]
  BY <1>1, LifterConstants
<1>3. 1 \in DOMAIN listing
  BY <1>2, Listing
<1>4. /\ run = "compiled" /\ lifted = [class |-> "none"] /\ claim = {} /\ pc = 1
      /\ reg = [i |-> args.start, p |-> 0, v |-> FALSE]
      /\ cyc = 0 /\ excess = 0 /\ since = {} /\ seen = {}
  BY DEF Init, NotLifted
<1>5. reg \in [i : 0..(Word - 1), p : 0..(Word - 1), v : BOOLEAN]
  BY <1>2, <1>4, LifterConstants
<1>6. TypeOK
  BY <1>2, <1>3, <1>4, <1>5 DEF TypeOK
<1>7. Known /\ Started
  BY <1>2, <1>4 DEF Known, Started
<1>8. HeadersHeld /\ Forward /\ ClaimsPinned
  BY <1>4 DEF HeadersHeld, Forward, Running, ClaimsPinned
<1>9. QED BY <1>6, <1>7, <1>8 DEF IInv

\* Lifting keeps the invariant: nothing is claimed and nothing is executed yet.
LEMMA LiftKeeps ==
  ASSUME IInv, Lift \/ LiftRefused
  PROVE  IInv'
<1> DEFINE g == BuildCfg(listing)
<1>1. /\ run = "compiled" /\ run' \in {"lifted", "refused"}
      /\ UNCHANGED <<listing, args, claim, pc, reg, cyc, excess, since, seen, fuel>>
      /\ lifted'.class = Classify(g)
      /\ run' = "lifted" => lifted' = LiftResult(g)
  <2>1. LiftResult(g).class = Classify(g)
    BY Lifted
  <2>2. CASE Lift
    BY <2>1, <2>2 DEF Lift
  <2>3. CASE LiftRefused
    BY <2>3 DEF LiftRefused, NotLifted
  <2>4. QED BY <2>2, <2>3
<1>2. Classify(g) \in {Severity[k] : k \in DOMAIN Severity}
  BY ClassType
<1> HIDE DEF g
<1>3. TypeOK'
  <2>1. TypeOK
    BY DEF IInv
  <2>2. lifted'.class \in {Severity[k] : k \in DOMAIN Severity}
    BY <1>1, <1>2
  <2>3. QED BY <1>1, <2>1, <2>2 DEF TypeOK
<1>4. claim' = {} /\ pc' = 1 /\ since' = {} /\ seen' = {}
  BY <1>1 DEF IInv, Started
<1>5. Known'
  BY <1>1 DEF IInv, Known, g
<1>6. Started' /\ HeadersHeld' /\ Forward' /\ ClaimsPinned'
  BY <1>1, <1>4 DEF Started, HeadersHeld, Forward, Running, ClaimsPinned
<1>7. QED BY <1>3, <1>5, <1>6 DEF IInv

\* An invariant that has an arm at each loop header, at leaders, and is pinned,
\* may be chosen: execution starts after it.
LEMMA ClaimKeeps ==
  ASSUME IInv, run = "lifted", run' \in {"lifted", "running"},
         UNCHANGED <<listing, args, lifted, pc, reg, cyc, excess, since, seen, fuel>>,
         LoopHeaders(BuildCfg(listing)) \subseteq ArmPoints(claim'),
         ArmPoints(claim') \subseteq Leaders(listing), ClaimsPinned'
  PROVE  IInv'
<1>1. pc' = 1 /\ since' = {} /\ seen' = {}
  BY DEF IInv, Started
<1>2. TypeOK'
  BY DEF IInv, TypeOK
<1>3. Known'
  BY DEF IInv, Known
<1>4. Started' /\ HeadersHeld' /\ Forward'
  BY <1>1 DEF Started, HeadersHeld, Forward
<1>5. QED BY <1>2, <1>3, <1>4 DEF IInv

LEMMA UseDerivedKeeps ==
  ASSUME IInv, UseDerived
  PROVE  IInv'
<1>1. /\ run = "lifted" /\ run' = "running" /\ lifted.derived # {} /\ claim' = lifted.derived
      /\ UNCHANGED <<listing, args, lifted, pc, reg, cyc, excess, since, seen, fuel>>
  BY DEF UseDerived
<1>2. Listed(listing) /\ lifted = LiftResult(BuildCfg(listing))
  BY <1>1 DEF IInv, Known
<1>3. /\ LoopHeaders(BuildCfg(listing)) \subseteq ArmPoints(claim')
      /\ ArmPoints(claim') \subseteq Leaders(listing)
  <2>1. PICK counter : lifted.derived = Derived(BuildCfg(listing), Classify(BuildCfg(listing)), counter)
    BY <1>2, Lifted
  <2>2. QED BY <1>1, <1>2, <2>1, DerivedArms
<1>4. ClaimsPinned'
  BY <1>1 DEF ClaimsPinned
<1>5. QED BY <1>1, <1>3, <1>4, ClaimKeeps

\* Whatever the model writes.
LEMMA CompleteKeeps ==
  ASSUME IInv, run = "lifted",
         NEW text \in Texts(SkeletonPlan(lifted.cfg)), CompleteSkeleton(text)
  PROVE  IInv'
<1> DEFINE g == BuildCfg(listing)
           plan == SkeletonPlan(g)
<1>1. /\ run' \in {"lifted", "running"}
      /\ UNCHANGED <<listing, args, lifted, pc, reg, cyc, excess, since, seen, fuel>>
      /\ claim' = SpliceSkeleton(SkeletonPlan(lifted.cfg), text)
  BY DEF CompleteSkeleton
<1>2. Listed(listing) /\ lifted = LiftResult(g)
  BY DEF IInv, Known
<1>3. lifted.cfg = g /\ lifted.points = InvariantPoints(g)
  BY <1>2, Lifted
<1>4. Len(listing) \in Nat /\ InvariantPoints(g) \subseteq Leaders(listing)
      /\ Leaders(listing) \subseteq 1..Len(listing)
  BY <1>2, Listing, PointsLead, LeadersType
<1> HIDE DEF g
<1>5. /\ plan.holes \cup plan.exits = InvariantPoints(g) /\ plan.exits = ExitPoints(g)
      /\ plan.holes \cap plan.exits = {}
  BY SkeletonPoints
<1>6. text \in Texts(plan)
  BY <1>3
<1> HIDE DEF plan
<1>7. text \in Seq(Written(plan))
  BY <1>4, <1>5, <1>6, TextType
<1>8. claim' = SpliceSkeleton(plan, text)
  BY <1>1, <1>3 DEF plan
<1>9. /\ ArmPoints(claim') = plan.holes \cup plan.exits
      /\ \A arm \in claim' : arm[2] = "post" <=> arm[1] \in plan.exits
      /\ (\A arm \in claim' : arm[2] # "unfilled") \/ (\A arm \in claim' : arm[2] # "model")
  BY <1>5, <1>7, <1>8, SplicePins
<1>10. LoopHeaders(g) \subseteq InvariantPoints(g)
  BY DEF InvariantPoints
<1>11. ClaimsPinned'
  BY <1>1, <1>3, <1>5, <1>9 DEF ClaimsPinned
<1>12. QED BY <1>1, <1>4, <1>5, <1>9, <1>10, <1>11, ClaimKeeps DEF g

LEMMA ArithmeticKeeps ==
  ASSUME IInv, Arithmetic
  PROVE  IInv'
<1>1. /\ listing[pc].op \notin {"jal", "jalr"} /\ Goto(pc + 1, FALSE) /\ run' = run
      /\ \/ /\ listing[pc].op = "addi" /\ listing[pc].r # "x"
            /\ reg' = [reg EXCEPT ![listing[pc].r] = Wrap(@ + listing[pc].k)]
         \/ reg' = [reg EXCEPT !.p = reg.i]
         \/ reg' = reg
  BY DEF Arithmetic
<1>2. /\ Known /\ TypeOK /\ Listed(listing) /\ pc \in DOMAIN listing
      /\ reg \in [i : 0..(Word - 1), p : 0..(Word - 1), v : BOOLEAN]
  BY DEF IInv, Known, TypeOK
<1>3. run' \in {"running", "returned"} /\ pc + 1 \in DOMAIN listing
  BY <1>1, <1>2, NextAddress DEF Goto
<1>4. reg' \in [i : 0..(Word - 1), p : 0..(Word - 1), v : BOOLEAN]
  <2>1. \A n \in Int : Wrap(n) \in 0..(Word - 1)
    BY LifterConstants DEF Wrap
  <2>2. CASE /\ listing[pc].op = "addi" /\ listing[pc].r # "x"
             /\ reg' = [reg EXCEPT ![listing[pc].r] = Wrap(@ + listing[pc].k)]
    <3>1. listing[pc].r \in {"i", "p"} /\ listing[pc].k \in Int
      BY <1>2, <2>2, Listing
    <3> DEFINE r == listing[pc].r
               v == Wrap(reg[listing[pc].r] + listing[pc].k)
    <3>2. v \in 0..(Word - 1)
      <4>1. reg[listing[pc].r] \in 0..(Word - 1)
        BY <1>2, <3>1
      <4>2. reg[listing[pc].r] + listing[pc].k \in Int
        BY <3>1, <4>1, LifterConstants
      <4>3. QED BY <2>1, <4>2
    <3>3. r \in {"i", "p"} /\ reg' = [reg EXCEPT ![r] = v]
      BY <2>2, <3>1
    <3> HIDE DEF r, v
    <3>4. QED BY <1>2, <3>2, <3>3
  <2>3. CASE reg' = [reg EXCEPT !.p = reg.i]
    BY <1>2, <2>3
  <2>4. CASE reg' = reg
    BY <1>2, <2>4
  <2>5. QED BY <1>1, <2>2, <2>3, <2>4
<1>5. QED
  <2> DEFINE a == pc + 1
  <2>1. a \in DOMAIN listing /\ Goto(a, FALSE) /\ a = pc + 1
    BY <1>1, <1>3
  <2> HIDE DEF a
  <2>2. QED BY <1>3, <1>4, <2>1, GotoKeeps

LEMMA LoadKeeps ==
  ASSUME IInv, Load
  PROVE  IInv'
<1>1. /\ listing[pc].op \notin {"jal", "jalr"} /\ Goto(pc + 1, FALSE) /\ run' = run
      /\ reg' = [reg EXCEPT !.v = (reg.p = args.hit)]
  BY DEF Load, Loads
<1>2. /\ Known /\ TypeOK /\ reg \in [i : 0..(Word - 1), p : 0..(Word - 1), v : BOOLEAN]
  BY DEF IInv, TypeOK
<1>3. run' \in {"running", "returned"} /\ pc + 1 \in DOMAIN listing
  BY <1>1, <1>2, NextAddress DEF Goto
<1>4. reg' \in [i : 0..(Word - 1), p : 0..(Word - 1), v : BOOLEAN]
  <2> DEFINE v == reg.p = args.hit
  <2>1. v \in BOOLEAN /\ reg' = [reg EXCEPT !.v = v]
    BY <1>1
  <2> HIDE DEF v
  <2>2. QED BY <1>2, <2>1
<1>5. QED
  <2> DEFINE a == pc + 1
  <2>1. a \in DOMAIN listing /\ Goto(a, FALSE) /\ a = pc + 1
    BY <1>1, <1>3
  <2> HIDE DEF a
  <2>2. QED BY <1>3, <1>4, <2>1, GotoKeeps

LEMMA BranchKeeps ==
  ASSUME IInv, Branch
  PROVE  IInv'
<1>1. PICK equal \in Compares(listing[pc].r) :
        /\ listing[pc].op \in Conditional /\ UNCHANGED <<reg, run>>
        /\ Goto(IF equal = (listing[pc].op = "beq") THEN listing[pc].to ELSE pc + 1,
                equal = (listing[pc].op = "beq"))
  BY Zenon DEF Branch
<1> DEFINE taken == equal = (listing[pc].op = "beq")
           a == IF taken THEN listing[pc].to ELSE pc + 1
<1>2. taken \in BOOLEAN
  OBVIOUS
<1>3. Goto(a, taken)
  BY <1>1, Zenon
<1> HIDE DEF taken
<1>4. /\ Known /\ TypeOK /\ reg \in [i : 0..(Word - 1), p : 0..(Word - 1), v : BOOLEAN]
  BY DEF IInv, TypeOK
<1>5. /\ a \in DOMAIN listing
      /\ \/ a = pc + 1
         \/ pc \in Targeting(listing) /\ a = listing[pc].to
  <2>1. /\ listing[pc].to \in DOMAIN listing /\ pc + 1 \in DOMAIN listing
        /\ pc \in Targeting(listing)
    BY <1>1, <1>4, NextAddress DEF Conditional
  <2>2. a = listing[pc].to \/ a = pc + 1
    OBVIOUS
  <2> HIDE DEF a
  <2>3. QED BY <2>1, <2>2
<1> HIDE DEF a
<1>6. run' \in {"running", "returned"}
  BY <1>1, <1>3 DEF Goto
<1>7. reg' \in [i : 0..(Word - 1), p : 0..(Word - 1), v : BOOLEAN]
  BY <1>1, <1>4
<1>8. QED BY <1>2, <1>3, <1>5, <1>6, <1>7, GotoKeeps

LEMMA JumpKeeps ==
  ASSUME IInv, Jump \/ Return
  PROVE  IInv'
<1> DEFINE a == pc'
<1>1. /\ Known /\ TypeOK /\ reg \in [i : 0..(Word - 1), p : 0..(Word - 1), v : BOOLEAN]
  BY DEF IInv, TypeOK
<1>2. Goto(a, TRUE) /\ run' \in {"running", "returned"} /\ reg' = reg
  BY DEF Jump, Return, Goto
<1>3. /\ a \in DOMAIN listing
      /\ \/ pc \in Targeting(listing) /\ a = listing[pc].to
         \/ run' = "returned"
  <2>1. CASE Jump
    <3>1. listing[pc].op = "jal" /\ a = listing[pc].to
      BY <2>1 DEF Jump, Goto
    <3>2. QED BY <1>1, <3>1, NextAddress
  <2>2. CASE Return
    <3>1. a = pc /\ run' = "returned"
      BY <2>2 DEF Return, Goto
    <3>2. QED BY <1>1, <3>1 DEF TypeOK
  <2>3. QED BY <2>1, <2>2
<1> HIDE DEF a
<1>4. QED BY <1>1, <1>2, <1>3, GotoKeeps

LEMMA IInvStep == IInv /\ [Next]_vars => IInv'
<1> SUFFICES ASSUME IInv, [Next]_vars PROVE IInv'
  OBVIOUS
<1>1. CASE UNCHANGED vars
  BY <1>1 DEF vars, IInv, TypeOK, Known, Started, HeadersHeld, Forward, Running, ClaimsPinned
<1>2. CASE Next
  BY <1>2, LiftKeeps, UseDerivedKeeps, CompleteKeeps, ArithmeticKeeps, LoadKeeps, BranchKeeps,
     JumpKeeps DEF Next
<1>3. QED BY <1>1, <1>2

LEMMA IInvCorrect == Spec => []IInv
BY InitIInv, IInvStep, PTL DEF Spec

-----------------------------------------------------------------------------
(* What a step does.                                                       *)

\* The function is being lifted and nothing is executed, or one instruction is:
\* it goes on behind itself, where a branch leads, or returns.
LEMMA Steps ==
  ASSUME IInv, [Next]_vars
  PROVE  \/ /\ UNCHANGED <<listing, args, pc, reg, cyc, excess, since, seen>>
            /\ run' = "returned" <=> run = "returned"
         \/ \E taken \in BOOLEAN :
              /\ Goto(pc', taken)
              /\ \/ pc' = pc + 1 /\ listing[pc].op \notin {"jal", "jalr"} /\ run' = "running"
                 \/ pc \in Targeting(listing) /\ pc' = listing[pc].to /\ run' = "running"
                 \/ listing[pc].op = "jalr" /\ pc' = pc /\ run' = "returned"
<1>0. Known /\ TypeOK
  BY DEF IInv
<1>1. CASE UNCHANGED vars
  BY <1>1 DEF vars
<1>2. CASE Lift \/ LiftRefused \/ UseDerived
  BY <1>2 DEF Lift, LiftRefused, UseDerived
<1>3. CASE run = "lifted" /\ \E text \in Texts(SkeletonPlan(lifted.cfg)) : CompleteSkeleton(text)
  BY <1>3 DEF CompleteSkeleton
<1>4. CASE Arithmetic \/ Load
  <2>1. /\ listing[pc].op \notin {"jal", "jalr"} /\ Goto(pc + 1, FALSE) /\ run' = run
    BY <1>4 DEF Arithmetic, Load, Loads
  <2>2. pc' = pc + 1 /\ run = "running"
    BY <2>1 DEF Goto
  <2>3. QED BY <2>1, <2>2
<1>5. CASE Branch
  <2>1. PICK equal \in Compares(listing[pc].r) :
          /\ listing[pc].op \in Conditional /\ UNCHANGED <<reg, run>>
          /\ Goto(IF equal = (listing[pc].op = "beq") THEN listing[pc].to ELSE pc + 1,
                  equal = (listing[pc].op = "beq"))
    BY <1>5, Zenon DEF Branch
  <2> DEFINE taken == equal = (listing[pc].op = "beq")
  <2>2. taken \in BOOLEAN
    OBVIOUS
  <2>3. Goto(IF taken THEN listing[pc].to ELSE pc + 1, taken) /\ run = "running"
    BY <2>1, Zenon DEF Goto
  <2> HIDE DEF taken
  <2>4. pc' = IF taken THEN listing[pc].to ELSE pc + 1
    BY <2>3 DEF Goto
  <2>5. Goto(pc', taken)
    BY <2>3, <2>4
  <2>6. pc \in Targeting(listing) /\ listing[pc].op \notin {"jal", "jalr"}
    BY <1>0, <2>1, NextAddress DEF Conditional
  <2>7. QED BY <2>1, <2>2, <2>3, <2>4, <2>5, <2>6
<1>6. CASE Jump
  <2>1. listing[pc].op = "jal" /\ Goto(listing[pc].to, TRUE) /\ run' = run
    BY <1>6 DEF Jump
  <2>2. pc' = listing[pc].to /\ run = "running" /\ pc \in Targeting(listing)
    BY <1>0, <2>1, NextAddress DEF Goto
  <2>3. QED BY <2>1, <2>2
<1>7. CASE Return
  <2>1. listing[pc].op = "jalr" /\ Goto(pc, TRUE) /\ run' = "returned"
    BY <1>7 DEF Return
  <2>2. pc' = pc
    BY <2>1 DEF Goto
  <2>3. QED BY <2>1, <2>2
<1>8. QED BY <1>1, <1>2, <1>3, <1>4, <1>5, <1>6, <1>7 DEF Next

-----------------------------------------------------------------------------
(* What a straight-line function costs.                                    *)

Terms(l, as, taken) == [a \in 1..Len(l) |-> IF a \in as THEN Charge(l[a], a \in taken) ELSE 0]

LEMMA ChargeType ==
  ASSUME NEW ins, NEW taken \in BOOLEAN
  PROVE  Charge(ins, taken) \in Nat
<1>1. Cycles(ins.op, taken) \in Nat
  BY CostType
<1>2. QED BY <1>1, Zenon DEF Charge

LEMMA CostIs ==
  ASSUME NEW l, Listed(l), NEW as, NEW taken
  PROVE  /\ Cost(BuildCfg(l), as, taken) = Total(Terms(l, as, taken))
         /\ Terms(l, as, taken) \in [1..Len(l) -> Nat]
         /\ \A a \in 1..Len(l) :
              Terms(l, as, taken)[a] = IF a \in as THEN Charge(l[a], a \in taken) ELSE 0
<1>1. Addresses(BuildCfg(l)) = 1..Len(l) /\ BuildCfg(l).l = l
  BY Listing, Graph DEF Addresses
<1> DEFINE C(a) == Charge(l[a], a \in taken)
<1>2. \A a \in 1..Len(l) : C(a) \in Nat
  <2>1. \A a : (a \in taken) \in BOOLEAN
    OBVIOUS
  <2>2. \A ins : \A b \in BOOLEAN : Charge(ins, b) \in Nat
    BY ChargeType
  <2>3. QED BY <2>1, <2>2, Zenon
<1>3. /\ Cost(BuildCfg(l), as, taken) = Total(Terms(l, as, taken))
      /\ Terms(l, as, taken) = [a \in 1..Len(l) |-> IF a \in as THEN C(a) ELSE 0]
  BY <1>1, Zenon DEF Cost, Terms
<1> DEFINE T == Terms(l, as, taken)
<1> HIDE DEF C, T
<1>4. T = [a \in 1..Len(l) |-> IF a \in as THEN C(a) ELSE 0]
  BY <1>3 DEF T
<1>5. T \in [1..Len(l) -> Nat] /\ \A a \in 1..Len(l) : T[a] = IF a \in as THEN C(a) ELSE 0
  BY <1>2, <1>4
<1>6. QED BY <1>3, <1>5 DEF T, C

\* What one more address adds.
LEMMA CostAdd ==
  ASSUME NEW l, Listed(l), NEW as, NEW taken, NEW a \in 1..Len(l), a \notin as
  PROVE  Cost(BuildCfg(l), as \cup {a}, taken) = Cost(BuildCfg(l), as, taken) + Charge(l[a], a \in taken)
<1> DEFINE n == Len(l)
           u == Terms(l, as, taken)   v == Terms(l, {a}, taken)   t == Terms(l, as \cup {a}, taken)
<1>1. n \in Nat
  BY Listing
<1>2. /\ u \in [1..n -> Nat] /\ v \in [1..n -> Nat] /\ t \in [1..n -> Nat]
      /\ Cost(BuildCfg(l), as, taken) = Total(u) /\ Cost(BuildCfg(l), as \cup {a}, taken) = Total(t)
  BY CostIs
<1>3. \A m \in 1..n : /\ u[m] = IF m \in as THEN Charge(l[m], m \in taken) ELSE 0
                      /\ v[m] = IF m = a THEN Charge(l[m], m \in taken) ELSE 0
                      /\ t[m] = IF m \in as \cup {a} THEN Charge(l[m], m \in taken) ELSE 0
  <2>1. \A bs : \A m \in 1..n : Terms(l, bs, taken)[m] = IF m \in bs THEN Charge(l[m], m \in taken) ELSE 0
    BY CostIs
  <2>2. QED BY <2>1, Zenon
<1> HIDE DEF u, v, t, n
<1>4. \A m \in 1..n : t[m] = u[m] + v[m]
  <2> SUFFICES ASSUME NEW m \in 1..n PROVE t[m] = u[m] + v[m]
    OBVIOUS
  <2>1. u[m] \in Nat /\ v[m] \in Nat
    BY <1>2
  <2>2. (m = a => u[m] = 0 /\ t[m] = v[m]) /\ (m # a => v[m] = 0 /\ t[m] = u[m])
    BY <1>3
  <2>3. QED BY <2>1, <2>2
<1>5. Total(t) = Total(u) + Total(v)
  BY <1>1, <1>2, <1>4, TotalPlus, ZenonT(60)
<1>6. Total(v) = v[a] /\ v[a] = Charge(l[a], a \in taken)
  <2>1. a \in 1..n /\ \A m \in 1..n : m # a => v[m] = 0
    BY <1>3 DEF n
  <2>2. v[a] = Charge(l[a], a \in taken)
    BY <1>3, <2>1
  <2>3. QED BY <1>1, <1>2, <2>1, <2>2, TotalOne
<1>7. QED BY <1>2, <1>5, <1>6

LEMMA CostEmpty ==
  ASSUME NEW l, Listed(l), NEW taken
  PROVE  Cost(BuildCfg(l), {}, taken) = 0
<1> DEFINE u == Terms(l, {}, taken)   n == Len(l)
<1>1. n \in Nat /\ 1 \in 1..n
  BY Listing
<1>2. u \in [1..n -> Nat] /\ Cost(BuildCfg(l), {}, taken) = Total(u) /\ \A m \in 1..n : u[m] = 0
  BY CostIs
<1> HIDE DEF u, n
<1>3. Total(u) = u[1]
  BY <1>1, <1>2, TotalOne
<1>4. QED BY <1>1, <1>2, <1>3

\* More addresses do not cost less.
LEMMA CostLess ==
  ASSUME NEW l, Listed(l), NEW as, NEW bs, as \subseteq bs, NEW taken
  PROVE  /\ Cost(BuildCfg(l), as, taken) <= Cost(BuildCfg(l), bs, taken)
         /\ Cost(BuildCfg(l), bs, taken) \in Nat
<1> DEFINE u == Terms(l, as, taken)   t == Terms(l, bs, taken)   n == Len(l)
<1>1. n \in Nat
  BY Listing
<1>2. /\ u \in [1..n -> Nat] /\ t \in [1..n -> Nat]
      /\ Cost(BuildCfg(l), as, taken) = Total(u) /\ Cost(BuildCfg(l), bs, taken) = Total(t)
  BY CostIs
<1>3. \A m \in 1..n : u[m] = t[m] \/ u[m] = 0
  <2>1. \A cs : \A m \in 1..n : Terms(l, cs, taken)[m] = IF m \in cs THEN Charge(l[m], m \in taken) ELSE 0
    BY CostIs
  <2>2. QED BY <2>1, Zenon
<1> HIDE DEF u, t, n
<1>4. \A m \in 1..n : u[m] <= t[m]
  BY <1>2, <1>3
<1>5. Total(u) <= Total(t) /\ Total(t) \in Nat
  BY <1>1, <1>2, <1>4, TotalLess, TotalType
<1>6. QED BY <1>2, <1>5

\* The range of the report adds up to the sum.
LEMMA RangeAdds ==
  ASSUME NEW l, Listed(l)
  PROVE  StraightlineCycles(BuildCfg(l)) = InCycles(RangeSum(BuildCfg(l)))
<1> DEFINE g == BuildCfg(l)
           n == Len(l)
           terms == {a \in Addresses(g) \ ExitPoints(g) : Priced(g.l[a])}
           as == Addresses(g) \ ExitPoints(g)
           Mark(wait) == [a \in Addresses(g) |->
                            IF a \in terms /\ Waits(g.l[a].op, FALSE) = wait THEN 1 ELSE 0]
           f == [a \in Addresses(g) |-> IF a \in terms THEN Fixed(g.l[a].op, FALSE) ELSE 0]
           i == Mark("inst")   d == Mark("data")
           il == [a \in 1..n |-> i[a] * Latency("inst")]
           dl == [a \in 1..n |-> d[a] * Latency("data")]
           x == [a \in 1..n |-> f[a] + il[a]]
           t == Terms(l, as, {})
           r == RangeSum(g)
<1>1. n \in Nat /\ Addresses(g) = 1..n /\ g.l = l
  BY Listing, Graph DEF Addresses
<1>2. r.fixed = Total(f) /\ r.inst = Total(i) /\ r.data = Total(d)
  BY Zenon DEF RangeSum
<1>3. t \in [1..n -> Nat] /\ StraightlineCycles(g) = Total(t)
  BY CostIs DEF StraightlineCycles
<1>4. Latency("inst") \in Nat /\ Latency("data") \in Nat /\ Latency("none") = 0
  BY Latencies DEF Latency
<1>5. i \in [1..n -> Nat] /\ d \in [1..n -> Nat]
  BY <1>1
<1>6. f \in [1..n -> Nat]
  <2>1. \A op : Fixed(op, FALSE) \in Nat
    BY DEF Fixed, Waits, Loads, Stores, Conditional
  <2>2. QED BY <1>1, <2>1
<1>7. ASSUME NEW m \in 1..n
      PROVE  /\ t[m] = f[m] + i[m] * Latency("inst") + d[m] * Latency("data")
             /\ i[m] * Latency("inst") \in Nat /\ d[m] * Latency("data") \in Nat
  <2> DEFINE w == Waits(l[m].op, FALSE)   c == Fixed(l[m].op, FALSE)
  <2>1. t[m] = IF m \in terms THEN c + Latency(w) ELSE 0
    <3>1. t[m] = IF m \in as THEN Charge(l[m], m \in {}) ELSE 0
      <4>1. \A k \in 1..n : Terms(l, as, {})[k] = IF k \in as THEN Charge(l[k], k \in {}) ELSE 0
        <5>1. ASSUME NEW bs
              PROVE  \A k \in 1..Len(l) : Terms(l, bs, {})[k] = IF k \in bs THEN Charge(l[k], k \in {}) ELSE 0
          BY CostIs
        <5>2. QED BY <5>1, Zenon
      <4>2. QED BY <4>1, Zenon
    <3>2. Charge(l[m], m \in {}) = IF Priced(l[m]) THEN c + Latency(w) ELSE 0
      <4>1. (m \in {}) = FALSE
        OBVIOUS
      <4>2. QED BY <4>1, Zenon DEF Charge, Cycles
    <3>3. m \in terms <=> m \in as /\ Priced(l[m])
      BY <1>1
    <3> HIDE DEF t, c, w, terms, as
    <3>4. QED BY <3>1, <3>2, <3>3
  <2>2. /\ f[m] = IF m \in terms THEN c ELSE 0
        /\ i[m] = IF m \in terms /\ w = "inst" THEN 1 ELSE 0
        /\ d[m] = IF m \in terms /\ w = "data" THEN 1 ELSE 0
    BY <1>1
  <2>3. w \in {"inst", "data", "none"}
    BY Zenon DEF Waits
  <2>4. f[m] \in Nat
    BY <1>6
  <2>5. \A k \in Nat : 0 * k = 0 /\ 1 * k = k
    OBVIOUS
  <2> HIDE DEF w, c, t, f, i, d, terms
  <2>6. QED BY <1>4, <2>1, <2>2, <2>3, <2>4, <2>5
<1> HIDE DEF f, i, d, t, r, g, n
<1>8. il \in [1..n -> Nat] /\ dl \in [1..n -> Nat]
  BY <1>7
<1>9. Total(il) = Total(i) * Latency("inst")
  <2>1. \A m \in 1..n : il[m] = i[m] * Latency("inst")
    BY Zenon
  <2> HIDE DEF il
  <2>2. QED BY <1>1, <1>4, <1>5, <1>8, <2>1, TotalTimes, ZenonT(60)
<1>10. Total(dl) = Total(d) * Latency("data")
  <2>1. \A m \in 1..n : dl[m] = d[m] * Latency("data")
    BY Zenon
  <2> HIDE DEF dl
  <2>2. QED BY <1>1, <1>4, <1>5, <1>8, <2>1, TotalTimes, ZenonT(60)
<1>11. \A m \in 1..n : t[m] = f[m] + il[m] + dl[m]
  BY <1>7
<1> HIDE DEF il, dl
<1>12. x \in [1..n -> Nat] /\ \A m \in 1..n : x[m] = f[m] + il[m]
  BY <1>6, <1>8
<1> HIDE DEF x
<1>13. Total(x) = Total(f) + Total(il)
  BY <1>1, <1>6, <1>8, <1>12, TotalPlus
<1>14. Total(t) = Total(x) + Total(dl)
  <2>1. \A m \in 1..n : t[m] = x[m] + dl[m]
    BY <1>11, <1>12
  <2>2. QED BY <1>1, <1>3, <1>8, <1>12, <2>1, TotalPlus
<1>15. InCycles(r) = Total(f) + Total(i) * Latency("inst") + Total(d) * Latency("data")
  BY <1>2, Zenon DEF InCycles
<1>16. StraightlineCycles(g) = InCycles(r)
  BY <1>3, <1>9, <1>10, <1>13, <1>14, <1>15, Zenon
<1>17. QED BY <1>16 DEF r, g

\* An exit is a return.
LEMMA ExitsReturn ==
  ASSUME NEW l, Listed(l), NEW b \in ExitPoints(BuildCfg(l))
  PROVE  b \in DOMAIN l /\ l[b].op = "jalr"
<1> DEFINE g == BuildCfg(l)
           z == LastIn(l)[b]
<1>1. b \in Leaders(l) /\ Succ(g, {b}) = {}
  BY PointsLead DEF ExitPoints, InvariantPoints
<1>2. /\ Len(l) \in Nat \ {0} /\ DOMAIN l = 1..Len(l) /\ l[Len(l)].op \in {"jal", "jalr"}
      /\ z \in DOMAIN l /\ Block(l)[z] = b
  BY <1>1, Listing, LastOf
<1>3. z \notin Targeting(l)
  <2> SUFFICES ASSUME z \in Targeting(l) PROVE FALSE
    OBVIOUS
  <2>1. <<b, l[z].to>> \in g.jumps
    BY <1>1, Graph
  <2>2. QED BY <1>1, <2>1 DEF Succ, Edges
<1>4. l[z].op \in {"jal", "jalr"} \/ z = Len(l)
  <2> SUFFICES ASSUME l[z].op \notin {"jal", "jalr"}, z < Len(l) PROVE FALSE
    BY <1>2
  <2> DEFINE e == <<b, z + 1>>
  <2>1. e \in g.falls /\ e[1] = b
    BY <1>1, Graph
  <2> HIDE DEF e
  <2>2. QED BY <1>1, <2>1 DEF Succ, Edges
<1>5. l[z].op = "jalr"
  BY <1>2, <1>3, <1>4 DEF Targeting, Branching
<1>6. z \in Leaders(l) /\ z \in 1..Len(l)
  BY <1>2, <1>5 DEF Leaders
<1>7. z <= b /\ b <= z /\ b \in 1..Len(l)
  BY <1>1, <1>2, <1>6, BlockOf, LeadersType
<1>8. QED BY <1>2, <1>5, <1>6, <1>7

\* A function that never jumps back returns.
LEMMA StraightReturns ==
  ASSUME NEW l, Listed(l), LoopHeaders(BuildCfg(l)) = {}
  PROVE  ExitPoints(BuildCfg(l)) # {}
<1> DEFINE g == BuildCfg(l)
           z == Len(l)
           b == Block(l)[z]
<1>1. z \in DOMAIN l /\ DOMAIN l = 1..z /\ z \in Nat /\ l[z].op \in {"jal", "jalr"}
  BY Listing
<1>2. l[z].op = "jalr"
  <2> SUFFICES ASSUME l[z].op = "jal" PROVE FALSE
    BY <1>1
  <2>1. z \in Targeting(l) /\ l[z].to <= z
    BY <1>1, Listing DEF Targeting, Branching
  <2>2. QED BY <2>1, BackwardJump
<1>3. z \in Branching(l) /\ z \notin Targeting(l)
  BY <1>1, <1>2 DEF Branching, Targeting
<1>4. LastIn(l)[b] = z
  BY <1>3, BranchEnds
<1>5. ASSUME NEW e \in Edges(g), e[1] = b PROVE FALSE
  <2>1. CASE e \in g.jumps
    BY <1>3, <1>4, <1>5, <2>1, Graph
  <2>2. CASE e \in g.falls
    BY <1>2, <1>4, <1>5, <2>2, Graph
  <2>3. QED BY <2>1, <2>2 DEF Edges
<1>6. b \in Blocks(g)
  BY <1>1, Graph DEF Blocks, Addresses
<1>7. Succ(g, {b}) = {}
  BY <1>5 DEF Succ
<1>8. QED BY <1>6, <1>7 DEF ExitPoints

\* While it runs none of what was executed has returned, and without a loop
\* what was executed has been paid once.
Paid ==
  run # "returned" =>
    /\ \A a \in seen : listing[a].op # "jalr"
    /\ LoopHeaders(BuildCfg(listing)) = {} =>
         cyc - excess = Cost(BuildCfg(listing), seen, {})

LEMMA PaidInit == Init => Paid
<1> SUFFICES ASSUME Init PROVE Paid
  OBVIOUS
<1>1. Listed(listing) /\ seen = {} /\ cyc = 0 /\ excess = 0
  BY InitIInv DEF IInv, Known, Init
<1>2. Cost(BuildCfg(listing), {}, {}) = 0
  BY <1>1, CostEmpty
<1>3. QED BY <1>1, <1>2 DEF Paid

LEMMA PaidStep ==
  ASSUME IInv, Paid, [Next]_vars
  PROVE  Paid'
<1>1. CASE UNCHANGED <<listing, args, pc, reg, cyc, excess, since, seen>>
           /\ (run' = "returned" <=> run = "returned")
  BY <1>1 DEF Paid
<1>2. ASSUME NEW taken \in BOOLEAN, Goto(pc', taken), run' # "returned",
             \/ pc' = pc + 1 /\ listing[pc].op \notin {"jal", "jalr"}
             \/ pc \in Targeting(listing)
      PROVE  Paid'
  <2>1. listing[pc].op # "jalr"
    BY <1>2 DEF Targeting
  <2>2. run = "running" /\ seen' = seen \cup {pc} /\ listing' = listing
    BY <1>2 DEF Goto
  <2> DEFINE x == Cycles(listing[pc].op, taken)
             z == Charge(listing[pc], FALSE)
             before == Cost(BuildCfg(listing), seen, {})
  <2>3. cyc' = cyc + x /\ excess' = excess + x - z
    BY <1>2, Zenon DEF Goto
  <2>4. /\ x \in Nat /\ z \in Nat /\ cyc \in Nat /\ excess \in Nat
        /\ Listed(listing) /\ pc \in 1..Len(listing) /\ seen \subseteq 1..Len(listing)
    <3>1. x \in Nat /\ z \in Nat
      BY CostType, Zenon
    <3>2. Listed(listing) /\ DOMAIN listing = 1..Len(listing)
      BY Listing DEF IInv, Known
    <3>3. QED BY <3>1, <3>2 DEF IInv, TypeOK
  <2>5. ASSUME LoopHeaders(BuildCfg(listing)) = {}
        PROVE  Cost(BuildCfg(listing), seen \cup {pc}, {}) = before + z
    <3>1. pc \notin seen
      BY <2>2, <2>4, <2>5 DEF IInv, Forward, Running
    <3>2. Charge(listing[pc], pc \in {}) = z
      <4>1. (pc \in {}) = FALSE
        OBVIOUS
      <4>2. QED BY <4>1, Zenon
    <3>3. Cost(BuildCfg(listing), seen \cup {pc}, {}) = before + Charge(listing[pc], pc \in {})
      BY <2>4, <3>1, CostAdd
    <3>4. QED BY <3>2, <3>3, Zenon
  <2>6. \A a \in seen' : listing'[a].op # "jalr"
    BY <2>1, <2>2 DEF Paid
  <2>7. ASSUME LoopHeaders(BuildCfg(listing)) = {}
        PROVE  cyc' - excess' = Cost(BuildCfg(listing), seen', {})
    <3>1. cyc - excess = before
      BY <2>2, <2>7 DEF Paid
    <3>2. Cost(BuildCfg(listing), seen', {}) = before + z
      BY <2>2, <2>5, <2>7
    <3> HIDE DEF x, z, before
    <3>3. QED BY <2>3, <2>4, <3>1, <3>2
  <2>8. QED BY <2>2, <2>6, <2>7 DEF Paid
<1>3. CASE run' = "returned"
  BY <1>3 DEF Paid
<1>4. QED BY <1>1, <1>2, <1>3, Steps

LEMMA PaidCorrect == Spec => [](IInv /\ Paid)
<1>1. IInv /\ Paid /\ [Next]_vars => Paid'
  BY PaidStep
<1>2. QED BY <1>1, PaidInit, InitIInv, IInvStep, PTL DEF Spec

-----------------------------------------------------------------------------
(* What is executed again is in a loop.                                    *)

\* What the graph leads to.
Onwards(l, b) == Reachable(BuildCfg(l), b, Edges(BuildCfg(l)))

LEMMA BlocksAreLeaders ==
  ASSUME NEW l, Listed(l)
  PROVE  /\ Blocks(BuildCfg(l)) = Leaders(l)
         /\ \A a \in DOMAIN l : Block(l)[a] \in Leaders(l)
         /\ \A b \in Leaders(l) : b \in DOMAIN l /\ Block(l)[b] = b
<1>1. \A a \in DOMAIN l : Block(l)[a] \in Leaders(l)
  BY BlockOf
<1>2. ASSUME NEW b \in Leaders(l) PROVE b \in DOMAIN l /\ Block(l)[b] = b
  <2>1. b \in DOMAIN l /\ b \in Nat /\ Leaders(l) \subseteq Nat
    BY LeadersType, Listing
  <2>2. Block(l)[b] \in Leaders(l) /\ Block(l)[b] <= b /\ b <= Block(l)[b]
    BY <2>1, BlockOf
  <2>3. QED BY <2>1, <2>2
<1>3. Blocks(BuildCfg(l)) = {Block(l)[a] : a \in DOMAIN l}
  BY Graph DEF Blocks, Addresses
<1>4. QED BY <1>1, <1>2, <1>3

\* Reaching is reflexive and transitive, and an edge reaches.
LEMMA Reaching ==
  ASSUME NEW l, Listed(l)
  PROVE  /\ \A b \in Leaders(l) : b \in Onwards(l, b) /\ Onwards(l, b) \subseteq Leaders(l)
         /\ \A b \in Leaders(l) : \A c \in Onwards(l, b) : \A d \in Onwards(l, c) : d \in Onwards(l, b)
         /\ \A e \in Edges(BuildCfg(l)) : e[2] \in Onwards(l, e[1])
<1>1. \A b : Onwards(l, b) =
         {c \in Leaders(l) : \A bs \in SUBSET Leaders(l) :
            b \in bs /\ Closed(Edges(BuildCfg(l)), bs) => c \in bs}
  BY BlocksAreLeaders DEF Onwards, Reachable
<1>2. \A e \in Edges(BuildCfg(l)) : e[1] \in Leaders(l) /\ e[2] \in Leaders(l)
  BY EdgesLead
<1>3. \A e \in Edges(BuildCfg(l)) : e[2] \in Onwards(l, e[1])
  BY <1>1, <1>2 DEF Closed
<1>4. QED BY <1>1, <1>3

\* A block that the header reaches and that reaches the header is in its loop.
LEMMA LoopHolds ==
  ASSUME NEW l, Listed(l), NEW h \in Leaders(l), NEW b \in Onwards(l, h), h \in Onwards(l, b)
  PROVE  b \in NaturalLoop(BuildCfg(l), h)
<1> DEFINE E == Edges(BuildCfg(l))
           R == {<<e[2], e[1]>> : e \in E}
<1>1. b \in Leaders(l) /\ Blocks(BuildCfg(l)) = Leaders(l)
  BY Reaching, BlocksAreLeaders
<1>2. ASSUME NEW bs \in SUBSET Leaders(l), h \in bs, Closed(R, bs), b \notin bs PROVE FALSE
  <2>1. Closed(E, Leaders(l) \ bs)
    <3> SUFFICES ASSUME NEW e \in E, e[1] \in Leaders(l) \ bs PROVE e[2] \in Leaders(l) \ bs
      BY DEF Closed
    <3>1. e[2] \in Leaders(l)
      BY EdgesLead
    <3> DEFINE r == <<e[2], e[1]>>
    <3>2. r \in R /\ r[1] = e[2] /\ r[2] = e[1]
      OBVIOUS
    <3> HIDE DEF r
    <3>3. e[2] \in bs => e[1] \in bs
      BY <1>2, <3>2 DEF Closed
    <3>4. QED BY <3>1, <3>3
  <2>2. \A cs \in SUBSET Leaders(l) : b \in cs /\ Closed(E, cs) => h \in cs
    BY <1>1 DEF Onwards, Reachable
  <2>3. QED BY <1>1, <1>2, <2>1, <2>2
<1>3. b \in Reachable(BuildCfg(l), h, R)
  BY <1>1, <1>2 DEF Reachable
<1>4. QED BY <1>3 DEF NaturalLoop, Onwards

\* Going on at the next address stays in the block or follows an edge.
LEMMA NextBlock ==
  ASSUME NEW l, Listed(l), NEW a \in DOMAIN l, NEW c \in DOMAIN l,
         \/ c = a + 1 /\ l[a].op \notin {"jal", "jalr"}
         \/ a \in Targeting(l) /\ c = l[a].to
  PROVE  Block(l)[c] \in Onwards(l, Block(l)[a])
<1> DEFINE b == Block(l)[a]
           z == LastIn(l)[b]
           g == BuildCfg(l)
<1>0. /\ DOMAIN l = 1..Len(l) /\ Len(l) \in Nat /\ b \in Leaders(l) /\ b <= a
      /\ Leaders(l) \subseteq 1..Len(l)
      /\ z \in DOMAIN l /\ Block(l)[z] = b /\ a <= z
  BY Listing, BlocksAreLeaders, LastOf, LeadersType, BlockOf
<1>1. CASE a \in Targeting(l) /\ c = l[a].to
  <2>1. a \in Branching(l)
    BY <1>1 DEF Targeting
  <2>2. z = a
    BY <2>1, BranchEnds
  <2>3. <<b, c>> \in g.jumps
    BY <1>0, <1>1, <2>2, Graph
  <2>4. c \in Leaders(l)
    BY <1>1 DEF Leaders
  <2> DEFINE e == <<b, c>>
  <2>5. e \in Edges(g) /\ e[1] = b /\ e[2] = c
    BY <2>3 DEF Edges
  <2> HIDE DEF e
  <2>6. c \in Onwards(l, b)
    BY <2>5, Reaching
  <2>7. QED BY <2>4, <2>6, BlocksAreLeaders
<1>2. CASE c = a + 1 /\ l[a].op \notin {"jal", "jalr"} /\ c \notin Leaders(l)
  <2> DEFINE d == Block(l)[c]
  <2>1. d \in Leaders(l) /\ d <= c /\ \A x \in Leaders(l) : x <= c => x <= d
    BY BlockOf
  <2>2. d # c /\ d \in 1..Len(l)
    BY <1>0, <1>2, <2>1
  <2>3. d <= a /\ b <= d
    BY <1>0, <1>2, <2>1, <2>2
  <2>4. d <= b
    BY <2>1, <2>3, BlockOf
  <2>5. d = b
    BY <1>0, <2>2, <2>3, <2>4
  <2>6. QED BY <1>0, <2>5, Reaching
<1>3. CASE c = a + 1 /\ l[a].op \notin {"jal", "jalr"} /\ c \in Leaders(l)
  <2>1. z = a
    <3> SUFFICES ASSUME z > a PROVE FALSE
      BY <1>0
    <3>1. c <= z
      BY <1>0, <1>3
    <3>2. c <= b
      BY <1>0, <1>3, <3>1, BlockOf
    <3>3. QED BY <1>0, <1>3, <3>2
  <2>2. z < Len(l)
    BY <1>0, <1>3, <2>1
  <2>3. <<b, c>> \in g.falls
    BY <1>0, <1>3, <2>1, <2>2, Graph
  <2> DEFINE e == <<b, c>>
  <2>4. e \in Edges(g) /\ e[1] = b /\ e[2] = c
    BY <2>3 DEF Edges
  <2> HIDE DEF e
  <2>5. c \in Onwards(l, b)
    BY <2>4, Reaching
  <2>6. QED BY <1>3, <2>5, BlocksAreLeaders
<1>4. QED BY <1>1, <1>2, <1>3

\* A load or store in the loop of a header puts the function beyond the two
\* easiest classes.
LEMMA AccessInLoop ==
  ASSUME NEW l, Listed(l), NEW h \in LoopHeaders(BuildCfg(l)), NEW a \in DOMAIN l,
         Block(l)[a] \in NaturalLoop(BuildCfg(l), h), l[a].op \in Loads \cup Stores
  PROVE  Classify(BuildCfg(l)) \in IsCeiling
<1> DEFINE g == BuildCfg(l)
           hs == LoopHeaders(g)
           S == {LoopClass(g, NaturalLoop(g, k)) : k \in hs}
                  \cup (IF Cardinality(hs) > 1 THEN {6} ELSE {})
           x == LoopClass(g, NaturalLoop(g, h))
<1>1. Classify(g) = Severity[Max(S)]
  BY DEF Classify
<1>2. a \in Insns(g, NaturalLoop(g, h)) /\ g.l[a].op \in Loads \cup Stores
  BY Graph DEF Insns, Addresses
<1>3. x \in S /\ x \in {3, 4}
  BY <1>2 DEF LoopClass
<1>4. S \in SUBSET (0..6)
  <2>1. \A k \in hs : LoopClass(g, NaturalLoop(g, k)) \in 0..6
    BY DEF LoopClass
  <2>2. QED BY <2>1
<1> HIDE DEF S, x
<1>5. Max(S) \in S /\ x <= Max(S)
  BY <1>3, <1>4, MaxOf
<1> DEFINE n == Max(S)
<1>6. Classify(g) = Severity[n] /\ n \in 0..6 /\ x <= n
  BY <1>1, <1>4, <1>5
<1> HIDE DEF n
<1>7. n \in 3..6
  BY <1>3, <1>6
<1>8. QED BY <1>6, <1>7 DEF IsCeiling

\* Every address that was executed leads to the one where execution is; it is
\* before it, or a loop header is on the way.
Returning(l, a, c) ==
  \E h \in LoopHeaders(BuildCfg(l)) :
    h \in Onwards(l, Block(l)[a]) /\ Block(l)[c] \in Onwards(l, h)
Repeats ==
  Running => \A a \in seen :
    /\ Block(listing)[pc] \in Onwards(listing, Block(listing)[a])
    /\ a < pc \/ Returning(listing, a, pc)

LEMMA RepeatsStep ==
  ASSUME IInv, Repeats, [Next]_vars
  PROVE  Repeats'
<1> USE DEF Running
<1>0. /\ Listed(listing) /\ pc \in DOMAIN listing /\ seen \subseteq DOMAIN listing
      /\ DOMAIN listing = 1..Len(listing) /\ Len(listing) \in Nat
  BY Listing DEF IInv, Known, TypeOK
<1>1. CASE run # "running" /\ UNCHANGED <<listing, args, pc, reg, cyc, excess, since, seen>>
           /\ (run' = "returned" <=> run = "returned")
  <2>1. run = "returned" \/ seen = {}
    BY <1>1 DEF IInv, TypeOK, Started
  <2>2. run' # "running" \/ seen' = {}
    BY <1>1, <2>1
  <2>3. QED BY <2>2 DEF Repeats
<1>2. CASE run = "running" /\ UNCHANGED <<listing, args, pc, reg, cyc, excess, since, seen>>
  BY <1>2 DEF Repeats
<1>3. ASSUME NEW taken \in BOOLEAN, Goto(pc', taken), run' = "running",
             \/ pc' = pc + 1 /\ listing[pc].op \notin {"jal", "jalr"}
             \/ pc \in Targeting(listing) /\ pc' = listing[pc].to
      PROVE  Repeats'
  <2> DEFINE L == listing
             B(a) == Block(L)[a]
             c == pc'
  <2>1. run = "running" /\ seen' = seen \cup {pc} /\ listing' = listing
    BY <1>3 DEF Goto
  <2>2. c \in DOMAIN L
    <3>1. IInv'
      BY IInvStep
    <3>2. QED BY <2>1, <3>1 DEF IInv, TypeOK
  <2>3. B(c) \in Onwards(L, B(pc)) /\ B(pc) \in Leaders(L) /\ B(c) \in Leaders(L)
    BY <1>0, <1>3, <2>2, NextBlock, BlocksAreLeaders
  <2>4. \A a \in seen : B(pc) \in Onwards(L, B(a)) /\ (a < pc \/ Returning(L, a, pc))
    BY <2>1 DEF Repeats
  <2>5. \A a \in DOMAIN L : B(a) \in Leaders(L) /\ B(a) \in Onwards(L, B(a))
    BY <1>0, BlocksAreLeaders, Reaching
  <2>6. \A a \in seen \cup {pc} : B(pc) \in Onwards(L, B(a)) /\ a \in DOMAIN L
    BY <1>0, <2>4, <2>5
  <2>7. \A a \in seen \cup {pc} : B(c) \in Onwards(L, B(a))
    BY <1>0, <2>3, <2>5, <2>6, Reaching
  <2>8. ASSUME NEW a \in seen \cup {pc} PROVE a < c \/ Returning(L, a, c)
    <3>1. CASE c <= pc
      <4>1. pc \in Targeting(L) /\ c = L[pc].to
        BY <1>0, <1>3, <3>1
      <4>2. c \in LoopHeaders(BuildCfg(L))
        BY <1>0, <3>1, <4>1, BackwardJump
      <4>3. c \in Leaders(L)
        BY <2>2, <4>1 DEF Leaders
      <4>4. B(c) = c
        BY <1>0, <4>3, BlocksAreLeaders
      <4> HIDE DEF c
      <4>5. QED BY <2>5, <2>2, <2>7, <4>2, <4>4 DEF Returning
    <3>2. CASE pc < c /\ a <= pc
      BY <1>0, <2>2, <2>6, <3>2
    <3>3. CASE pc < c /\ ~(a <= pc)
      <4>1. a \in seen /\ ~(a < pc)
        BY <1>0, <2>6, <3>3
      <4>2. PICK h \in LoopHeaders(BuildCfg(L)) : h \in Onwards(L, B(a)) /\ B(pc) \in Onwards(L, h)
        BY <2>4, <4>1 DEF Returning
      <4>3. h \in Leaders(L)
        BY <1>0, EdgesLead DEF LoopHeaders, BackEdges
      <4>4. B(c) \in Onwards(L, h)
        BY <1>0, <2>3, <4>2, <4>3, Reaching
      <4>5. QED BY <4>2, <4>4 DEF Returning
    <3>4. QED BY <1>0, <2>2, <3>1, <3>2, <3>3
  <2>9. QED BY <2>1, <2>7, <2>8 DEF Repeats
<1>4. CASE run' = "returned"
  BY <1>4 DEF Repeats
<1>5. QED BY <1>1, <1>2, <1>3, <1>4, Steps

LEMMA RepeatsCorrect == Spec => [](IInv /\ Repeats)
<1>1. Init => Repeats
  BY DEF Init, Repeats, Running
<1>2. IInv /\ Repeats /\ [Next]_vars => Repeats'
  BY RepeatsStep
<1>3. QED BY <1>1, <1>2, InitIInv, IInvStep, PTL DEF Spec

-----------------------------------------------------------------------------
(* The counter loop.                                                       *)

\* A listing whose only branches are the test at h and the way back at z.
Looping(l, h, z) ==
  /\ Listed(l) /\ h \in 1..Len(l) /\ z \in 1..Len(l) /\ h < z
  /\ Targeting(l) = {h, z} /\ l[h].op = "beq" /\ l[z].to = h
  /\ \A a \in 1..z : l[a].op # "jalr"
  /\ l[h].to \in ExitPoints(BuildCfg(l))

\* Its blocks up to z are three: before the test, the test, the body.
LEMMA LoopingBlocks ==
  ASSUME NEW l, NEW h, NEW z, Looping(l, h, z)
  PROVE  /\ l[h].to \in DOMAIN l /\ z < l[h].to /\ l[l[h].to].op = "jalr"
         /\ Block(l)[h] = h /\ LastIn(l)[h] = h
         /\ h + 1 \in Leaders(l) /\ LastIn(l)[h + 1] = z
         /\ \A a \in DOMAIN l : /\ Block(l)[a] = h <=> a = h
                                /\ Block(l)[a] = h + 1 <=> a \in (h + 1)..z
         /\ \A b \in Leaders(l) : b <= h + 1 \/ z < b
<1>1. /\ Listed(l) /\ Len(l) \in Nat /\ DOMAIN l = 1..Len(l) /\ h \in 1..Len(l) /\ z \in 1..Len(l)
      /\ h < z /\ Targeting(l) = {h, z} /\ l[z].to = h
      /\ \A a \in 1..z : l[a].op # "jalr"
  BY Listing DEF Looping
<1>2. l[h].to \in DOMAIN l /\ l[l[h].to].op = "jalr"
  BY <1>1, ExitsReturn DEF Looping
<1>3. z < l[h].to
  BY <1>1, <1>2
<1>4. \A a \in Branching(l) : a \in {h, z} \/ z < a
  <2>1. \A a \in Branching(l) : a \in 1..Len(l) /\ (a \in Targeting(l) \/ l[a].op = "jalr")
    BY <1>1 DEF Branching, Targeting
  <2>2. QED BY <1>1, <2>1
<1>5. h \in Leaders(l) /\ h + 1 \in Leaders(l) /\ z + 1 \in Leaders(l)
  <2>1. h \in Branching(l) /\ z \in Branching(l)
    BY <1>1 DEF Targeting
  <2>2. h + 1 \in DOMAIN l /\ z + 1 \in DOMAIN l
    BY <1>1, <1>2, <1>3
  <2>3. h \in {l[a].to : a \in Targeting(l)} /\ h \in DOMAIN l
    BY <1>1
  <2>4. QED BY <2>1, <2>2, <2>3 DEF Leaders
<1>6. \A b \in Leaders(l) : b \in 1..Len(l) /\ (b <= h + 1 \/ z < b)
  <2> SUFFICES ASSUME NEW b \in Leaders(l) PROVE b \in 1..Len(l) /\ (b <= h + 1 \/ z < b)
    OBVIOUS
  <2>1. b \in 1..Len(l)
    BY <1>1, LeadersType
  <2>2. CASE b = 1
    BY <1>1, <2>2
  <2>3. CASE b \in {l[a].to : a \in Targeting(l)}
    BY <1>1, <1>2, <1>3, <2>3
  <2>4. CASE b \in {a + 1 : a \in Branching(l)}
    <3>1. PICK a \in Branching(l) : b = a + 1
      BY <2>4
    <3>2. a \in 1..Len(l)
      BY <1>1 DEF Branching
    <3>3. QED BY <1>1, <1>4, <2>1, <3>1, <3>2
  <2>5. CASE b \in {a \in DOMAIN l : l[a].op = "jalr"}
    BY <1>1, <2>1, <2>5
  <2>6. QED BY <2>1, <2>2, <2>3, <2>4, <2>5 DEF Leaders
<1>7. ASSUME NEW a \in DOMAIN l
      PROVE  /\ Block(l)[a] = h <=> a = h
             /\ Block(l)[a] = h + 1 <=> a \in (h + 1)..z
  <2> DEFINE b == Block(l)[a]
  <2>1. b \in Leaders(l) /\ b <= a /\ \A c \in Leaders(l) : c <= a => c <= b
    BY <1>1, BlockOf
  <2>2. b \in 1..Len(l) /\ (b <= h + 1 \/ z < b) /\ a \in 1..Len(l)
    BY <1>1, <1>6, <2>1
  <2>3. (h <= a => h <= b) /\ (h + 1 <= a => h + 1 <= b) /\ (z + 1 <= a => z + 1 <= b)
    BY <1>5, <2>1
  <2> HIDE DEF b
  <2>4. (b = h <=> a = h) /\ (b = h + 1 <=> a \in (h + 1)..z)
    BY <1>1, <2>1, <2>2, <2>3
  <2>5. QED BY <2>4 DEF b
<1>8. LastIn(l)[h] = h
  <2>1. LastIn(l)[h] \in DOMAIN l /\ Block(l)[LastIn(l)[h]] = h
    BY <1>1, <1>5, LastOf
  <2>2. QED BY <1>7, <2>1
<1>9. LastIn(l)[h + 1] = z
  <2>1. /\ LastIn(l)[h + 1] \in DOMAIN l /\ Block(l)[LastIn(l)[h + 1]] = h + 1
        /\ \A a \in DOMAIN l : Block(l)[a] = h + 1 => a <= LastIn(l)[h + 1]
    BY <1>1, <1>5, LastOf
  <2>2. Block(l)[z] = h + 1
    BY <1>1, <1>7
  <2>3. LastIn(l)[h + 1] \in (h + 1)..z /\ z <= LastIn(l)[h + 1]
    BY <1>1, <1>7, <2>1, <2>2
  <2>4. QED BY <1>1, <2>3
<1>10. QED BY <1>1, <1>2, <1>3, <1>5, <1>6, <1>7, <1>8, <1>9

\* Its loop is what lies from h to z, entered again at z alone.
LEMMA LoopingLoop ==
  ASSUME NEW l, NEW h, NEW z, Looping(l, h, z)
  PROVE  /\ Insns(BuildCfg(l), NaturalLoop(BuildCfg(l), h)) = h..z
         /\ Into(BuildCfg(l), NaturalLoop(BuildCfg(l), h)) = {z}
         /\ Max(Insns(BuildCfg(l), {h})) = h
<1> DEFINE g == BuildCfg(l)
           E == Edges(g)
           R == {<<e[2], e[1]>> : e \in E}
           N == NaturalLoop(g, h)
           x == l[h].to
<1>1. /\ Listed(l) /\ Len(l) \in Nat /\ DOMAIN l = 1..Len(l) /\ h \in 1..Len(l) /\ z \in 1..Len(l)
      /\ h < z /\ Targeting(l) = {h, z} /\ l[z].to = h /\ l[h].op = "beq"
      /\ Leaders(l) \subseteq 1..Len(l)
  BY Listing, LeadersType DEF Looping
<1>2. /\ x \in DOMAIN l /\ z < x /\ Block(l)[h] = h /\ LastIn(l)[h] = h
      /\ h + 1 \in Leaders(l) /\ LastIn(l)[h + 1] = z
      /\ \A a \in DOMAIN l : /\ Block(l)[a] = h <=> a = h
                             /\ Block(l)[a] = h + 1 <=> a \in (h + 1)..z
      /\ \A b \in Leaders(l) : b <= h + 1 \/ z < b
  BY LoopingBlocks
<1>3. h \in Leaders(l) /\ Blocks(g) = Leaders(l)
  BY <1>1, <1>2, BlocksAreLeaders
<1>4. ASSUME NEW e \in E
      PROVE  /\ e[1] \in Leaders(l) /\ e[2] \in Leaders(l)
             /\ e[1] = h => e[2] = h + 1 \/ z < e[2]
             /\ e[1] = h + 1 => e[2] = h \/ z < e[2]
             /\ z < e[1] => z < e[2]
  <2>1. e[1] \in Leaders(l) /\ e[2] \in Leaders(l)
    BY <1>1, EdgesLead
  <2> DEFINE b == e[1]   last == LastIn(l)[b]
  <2>2. last \in DOMAIN l /\ Block(l)[last] = b /\ b <= last
    BY <1>1, <2>1, LastOf, BlockOf
  <2>3. \/ last \in Targeting(l) /\ e[2] = l[last].to
        \/ last < Len(l) /\ e[2] = last + 1
    BY Graph DEF Edges
  <2> HIDE DEF b, last, x
  <2>4. b = h => last = h /\ (e[2] = h + 1 \/ e[2] = x)
    BY <1>1, <1>2, <2>3 DEF b, last, x
  <2>5. b = h + 1 => last = z /\ (e[2] = h \/ e[2] = z + 1)
    BY <1>1, <1>2, <2>3 DEF b, last
  <2>6. z < b => z < e[2]
    BY <1>1, <2>1, <2>2, <2>3 DEF b
  <2>7. QED BY <1>1, <1>2, <2>1, <2>4, <2>5, <2>6 DEF b
<1>5. N \subseteq {h, h + 1}
  <2> DEFINE S == {b \in Leaders(l) : b = h \/ b = h + 1 \/ z < b}
             T == {b \in Leaders(l) : b <= z}
  <2>1. S \in SUBSET Blocks(g) /\ h \in S /\ Closed(E, S)
    BY <1>3, <1>4 DEF Closed
  <2>2. T \in SUBSET Blocks(g) /\ h \in T
    BY <1>1, <1>3
  <2>3. Closed(R, T)
    <3> SUFFICES ASSUME NEW r \in R, r[1] \in T PROVE r[2] \in T
      BY DEF Closed
    <3>1. PICK e \in E : r = <<e[2], e[1]>>
      OBVIOUS
    <3>2. r[1] = e[2] /\ r[2] = e[1]
      BY <3>1
    <3>3. e[1] \in Leaders(l) /\ e[1] \in 1..Len(l) /\ e[2] \in 1..Len(l) /\ (z < e[1] => z < e[2])
      BY <1>1, <1>4
    <3>4. QED BY <1>1, <3>2, <3>3
  <2>4. N \subseteq S /\ N \subseteq T
    BY <2>1, <2>2, <2>3 DEF NaturalLoop, Reachable
  <2>5. QED BY <1>1, <2>4
<1>6. h \in N /\ h + 1 \in N
  <2>1. <<h, h + 1>> \in g.falls
    <3>1. l[LastIn(l)[h]].op \notin {"jal", "jalr"} /\ LastIn(l)[h] < Len(l)
      BY <1>1, <1>2
    <3>2. QED BY <1>2, <1>3, <3>1, Graph
  <2>2. <<h + 1, h>> \in g.jumps
    <3>1. LastIn(l)[h + 1] \in Targeting(l) /\ l[LastIn(l)[h + 1]].to = h
      BY <1>1, <1>2
    <3>2. QED BY <1>2, <3>1, Graph
  <2> DEFINE d == <<h, h + 1>>   u == <<h + 1, h>>
  <2>3. d \in E /\ u \in E /\ d[1] = h /\ d[2] = h + 1 /\ u[1] = h + 1 /\ u[2] = h
    BY <2>1, <2>2 DEF Edges
  <2> HIDE DEF d, u
  <2>4. h + 1 \in Onwards(l, h) /\ h \in Onwards(l, h + 1) /\ h \in Onwards(l, h)
    BY <1>1, <1>3, <2>3, Reaching
  <2>5. QED BY <1>1, <1>3, <2>4, LoopHolds
<1>7. N = {h, h + 1}
  BY <1>5, <1>6
<1> HIDE DEF N
<1>8. g.l = l /\ g.block = Block(l) /\ Addresses(g) = 1..Len(l)
  BY <1>1, Graph DEF Addresses
<1>9. Insns(g, N) = h..z
  <2>1. \A a \in 1..Len(l) : Block(l)[a] \in N <=> a \in h..z
    BY <1>1, <1>2, <1>7
  <2>2. QED BY <1>1, <1>8, <2>1 DEF Insns
<1>10. Into(g, N) = {z}
  BY <1>1, <1>2, <1>7, <1>8 DEF Into
<1>11. Insns(g, {h}) = {h}
  BY <1>1, <1>2, <1>8 DEF Insns
<1>12. Max({h}) = h
  <2>1. {h} \in SUBSET (0..h) /\ h \in Nat
    BY <1>1
  <2>2. Max({h}) \in {h}
    BY <2>1, MaxOf
  <2>3. QED BY <2>2
<1>13. QED BY <1>9, <1>10, <1>11, <1>12 DEF N

\* An instruction without a branch in it goes on; a branch compares.
LEMMA Executes ==
  ASSUME IInv, [Next]_vars, Running, run' = "running", vars' # vars
  PROVE  /\ UNCHANGED <<listing, args>>
         /\ \/ /\ listing[pc].op \notin Conditional \cup {"jal", "jalr"}
               /\ pc' = pc + 1 /\ cyc' = cyc + Cycles(listing[pc].op, FALSE)
               /\ reg'.i = IF listing[pc].op = "addi" /\ listing[pc].r = "i"
                           THEN Wrap(reg.i + listing[pc].k) ELSE reg.i
            \/ /\ listing[pc].op \in Conditional /\ reg' = reg
               /\ \E equal \in Compares(listing[pc].r) :
                    \/ /\ equal = (listing[pc].op = "beq")
                       /\ pc' = listing[pc].to /\ cyc' = cyc + Cycles(listing[pc].op, TRUE)
                    \/ /\ equal # (listing[pc].op = "beq")
                       /\ pc' = pc + 1 /\ cyc' = cyc + Cycles(listing[pc].op, FALSE)
            \/ /\ listing[pc].op = "jal" /\ reg' = reg
               /\ pc' = listing[pc].to /\ cyc' = cyc + Cycles(listing[pc].op, TRUE)
<1> USE DEF Running
<1>0. reg \in [i : 0..(Word - 1), p : 0..(Word - 1), v : BOOLEAN] /\ Listed(listing) /\ pc \in DOMAIN listing
  BY DEF IInv, TypeOK, Known
<1>1. CASE Arithmetic
  <2>1. /\ listing[pc].op \notin Loads \cup Conditional \cup {"jal", "jalr"} /\ Goto(pc + 1, FALSE)
        /\ reg' = IF listing[pc].op = "addi" /\ listing[pc].r # "x"
                  THEN [reg EXCEPT ![listing[pc].r] = Wrap(@ + listing[pc].k)]
                  ELSE IF listing[pc].op = "add" THEN [reg EXCEPT !.p = reg.i]
                  ELSE reg
    BY <1>1 DEF Arithmetic
  <2>2. reg'.i = IF listing[pc].op = "addi" /\ listing[pc].r = "i"
                 THEN Wrap(reg.i + listing[pc].k) ELSE reg.i
    <3>1. CASE listing[pc].op = "addi" /\ listing[pc].r # "x"
      <4>1. listing[pc].r \in {"i", "p"}
        BY <1>0, <3>1, Listing
      <4>2. reg' = [reg EXCEPT ![listing[pc].r] = Wrap(reg[listing[pc].r] + listing[pc].k)]
        BY <2>1, <3>1
      <4>3. CASE listing[pc].r = "i"
        BY <1>0, <3>1, <4>2, <4>3
      <4>4. CASE listing[pc].r = "p"
        BY <1>0, <3>1, <4>2, <4>4
      <4>5. QED BY <4>1, <4>3, <4>4
    <3>2. CASE ~(listing[pc].op = "addi" /\ listing[pc].r # "x")
      BY <1>0, <2>1, <3>2
    <3>3. QED BY <3>1, <3>2
  <2>3. QED BY <2>1, <2>2 DEF Goto
<1>2. CASE Load
  <2>1. /\ listing[pc].op = "lw" /\ Goto(pc + 1, FALSE) /\ reg' = [reg EXCEPT !.v = (reg.p = args.hit)]
    BY <1>2 DEF Load, Loads
  <2>2. reg'.i = reg.i
    BY <1>0, <2>1
  <2>3. QED BY <2>1, <2>2 DEF Goto, Conditional
<1>3. CASE Branch
  <2>1. PICK equal \in Compares(listing[pc].r) :
          /\ listing[pc].op \in Conditional /\ UNCHANGED <<reg, run>>
          /\ Goto(IF equal = (listing[pc].op = "beq") THEN listing[pc].to ELSE pc + 1,
                  equal = (listing[pc].op = "beq"))
    BY <1>3, Zenon DEF Branch
  <2> DEFINE taken == equal = (listing[pc].op = "beq")
  <2>2. /\ UNCHANGED <<listing, args>> /\ pc' = IF taken THEN listing[pc].to ELSE pc + 1
        /\ cyc' = cyc + Cycles(listing[pc].op, taken)
    BY <2>1, Zenon DEF Goto
  <2>3. CASE taken
    <3>1. taken = TRUE
      BY <2>3
    <3>2. pc' = listing[pc].to /\ cyc' = cyc + Cycles(listing[pc].op, TRUE)
      BY <2>2, <3>1, Zenon
    <3>3. QED BY <2>1, <2>2, <2>3, <3>2, Zenon
  <2>4. CASE ~taken
    <3>1. taken = FALSE
      BY <2>4
    <3>2. pc' = pc + 1 /\ cyc' = cyc + Cycles(listing[pc].op, FALSE)
      BY <2>2, <3>1, Zenon
    <3>3. QED BY <2>1, <2>2, <2>4, <3>2, Zenon
  <2>5. QED BY <2>3, <2>4
<1>4. CASE Jump
  BY <1>4 DEF Jump, Goto
<1>5. ~Return
  BY DEF Return
<1>6. ~(Lift \/ LiftRefused \/ UseDerived) /\ run # "lifted"
  BY DEF Lift, LiftRefused, UseDerived
<1>7. QED BY <1>1, <1>2, <1>3, <1>4, <1>5, <1>6 DEF Next

\* The counter after so many iterations, and how many there are in all.
Along(start, k, m) == IF k = 1 THEN start + m ELSE start - m
Iterations(k) == IF k = 1 THEN args.limit - args.start ELSE args.start - args.limit

\* What the derived invariant is about: h is the test, z the way back, a counts.
CounterLoop(h, z, a, k) ==
  /\ Looping(listing, h, z) /\ listing[h].r = "i"
  /\ listing[z].op = "jal" \/ (listing[z].op = "beq" /\ listing[z].r = "same")
  /\ \A b \in 1..z : Priced(listing[b])
  /\ args.limit < Word
  /\ a \in h..z /\ Counting(z) = {a} /\ listing[a].k = k /\ Iterations(k) >= 0

Charged(l, x, y, z) == Cost(BuildCfg(l), x..y, {z})
InPrologue(h, z) ==
  pc \in 1..(h - 1) /\ cyc = Charged(listing, 1, pc - 1, z) /\ reg.i = args.start
InLoop(h, z, a, k, m) ==
  /\ pc \in h..z /\ m <= Iterations(k) /\ (pc # h => m < Iterations(k))
  /\ cyc = Charged(listing, 1, h - 1, z) + m * Charged(listing, h, z, z) + Charged(listing, h, pc - 1, z)
  /\ reg.i = Along(args.start, k, IF a < pc THEN m + 1 ELSE m)
AtEnd(h, z, k, m) ==
  /\ pc = listing[h].to /\ reg.i = args.limit /\ reg.i = Along(args.start, k, m)
  /\ cyc = Charged(listing, 1, h - 1, z) + m * Charged(listing, h, z, z) + Charge(listing[h], TRUE)

\* Execution is before the loop, in its iteration m, or behind it.
Tracked(h, z, a, k) ==
  \/ InPrologue(h, z)
  \/ \E m \in Nat : InLoop(h, z, a, k, m)
  \/ \E m \in Nat : AtEnd(h, z, k, m)
Counted ==
  run # "returned" =>
    \A h, z, a \in DOMAIN listing : \A k \in {-1, 1} :
      CounterLoop(h, z, a, k) => Tracked(h, z, a, k)

\* Charging one more address, not taken or taken.
LEMMA ChargeOne ==
  ASSUME NEW l, Listed(l), NEW y \in 1..Len(l), NEW bs, NEW T, y \notin bs
  PROVE  /\ y \notin T => Cost(BuildCfg(l), bs \cup {y}, T) = Cost(BuildCfg(l), bs, T) + Charge(l[y], FALSE)
         /\ y \in T => Cost(BuildCfg(l), bs \cup {y}, T) = Cost(BuildCfg(l), bs, T) + Charge(l[y], TRUE)
<1>1. Cost(BuildCfg(l), bs \cup {y}, T) = Cost(BuildCfg(l), bs, T) + Charge(l[y], y \in T)
  BY CostAdd
<1>2. CASE y \notin T
  <2>1. (y \in T) = FALSE
    BY <1>2
  <2>2. QED BY <1>1, <1>2, <2>1, Zenon
<1>3. CASE y \in T
  <2>1. (y \in T) = TRUE
    BY <1>3
  <2>2. QED BY <1>1, <1>3, <2>1, Zenon
<1>4. QED BY <1>2, <1>3

\* Charging one more address at the end.
LEMMA ChargedNext ==
  ASSUME NEW l, Listed(l), NEW x \in Nat \ {0}, NEW y \in 1..Len(l), x <= y, NEW z
  PROVE  /\ y # z => Charged(l, x, y, z) = Charged(l, x, y - 1, z) + Charge(l[y], FALSE)
         /\ y = z => Charged(l, x, y, z) = Charged(l, x, y - 1, z) + Charge(l[y], TRUE)
<1> DEFINE as == x..(y - 1)   only == {z}
<1>1. x..y = as \cup {y} /\ (y = z <=> y \in only)
  OBVIOUS
<1>2. y \notin as
  OBVIOUS
<1>3. /\ Charged(l, x, y, z) = Cost(BuildCfg(l), as \cup {y}, only)
      /\ Charged(l, x, y - 1, z) = Cost(BuildCfg(l), as, only)
  BY <1>1, Zenon DEF Charged
<1> HIDE DEF as, only
<1>4. /\ y \notin only => Cost(BuildCfg(l), as \cup {y}, only) = Cost(BuildCfg(l), as, only) + Charge(l[y], FALSE)
      /\ y \in only => Cost(BuildCfg(l), as \cup {y}, only) = Cost(BuildCfg(l), as, only) + Charge(l[y], TRUE)
  BY <1>2, ChargeOne, Zenon
<1>5. QED BY <1>1, <1>3, <1>4, Zenon

LEMMA ChargedType ==
  ASSUME NEW l, Listed(l), NEW x \in Nat \ {0}, NEW y \in Int, NEW z
  PROVE  Charged(l, x, y, z) \in Nat /\ Charged(l, x, x - 1, z) = 0
<1>1. x..(x - 1) = {}
  OBVIOUS
<1>2. Charged(l, x, x - 1, z) = 0
  BY <1>1, CostEmpty, Zenon DEF Charged
<1>3. \A bs : Cost(BuildCfg(l), bs, {z}) \in Nat
  BY CostLess
<1>4. QED BY <1>2, <1>3, Zenon DEF Charged

LEMMA CountedInit == Init => Counted
<1> SUFFICES ASSUME Init, NEW h \in DOMAIN listing, NEW z \in DOMAIN listing, NEW a \in DOMAIN listing,
                    NEW k \in {-1, 1}, CounterLoop(h, z, a, k)
             PROVE  InPrologue(h, z) \/ \E m \in Nat : InLoop(h, z, a, k, m)
  BY DEF Counted, Tracked
<1>1. /\ Listed(listing) /\ DOMAIN listing = 1..Len(listing) /\ Len(listing) \in Nat
      /\ args \in [start : 0..(Word - 1), limit : Nat, hit : Nat]
  BY InitIInv, Listing DEF IInv, Known
<1>2. /\ pc = 1 /\ cyc = 0 /\ reg = [i |-> args.start, p |-> 0, v |-> FALSE]
  BY DEF Init
<1>3. h \in 1..Len(listing) /\ z \in 1..Len(listing) /\ h < z /\ a \in h..z /\ Iterations(k) >= 0
  BY DEF CounterLoop, Looping
<1>4. Charged(listing, 1, 0, z) = 0
  <2>1. 1..0 = {}
    OBVIOUS
  <2>2. QED BY <1>1, <2>1, CostEmpty DEF Charged
<1>5. CASE h # 1
  BY <1>1, <1>2, <1>3, <1>4, <1>5 DEF InPrologue
<1>6. CASE h = 1
  <2>1. Charged(listing, h, z, z) \in Nat
    BY <1>1, CostLess DEF Charged
  <2>2. 0 * Charged(listing, h, z, z) = 0
    BY <2>1
  <2>3. Along(args.start, k, 0) = args.start /\ ~(a < pc)
    BY <1>1, <1>2, <1>3, <1>6, LifterConstants DEF Along
  <2> DEFINE b == Charged(listing, h, z, z)
  <2>4. cyc = Charged(listing, 1, h - 1, z) + 0 * b + Charged(listing, h, pc - 1, z)
    <3> HIDE DEF b
    <3>1. h - 1 = 0 /\ pc - 1 = 0 /\ 0 * b = 0
      BY <1>2, <1>6, <2>2 DEF b
    <3>2. QED BY <1>2, <1>4, <1>6, <3>1
  <2>5. InLoop(h, z, a, k, 0)
    <3>1. pc \in h..z /\ 0 <= Iterations(k) /\ pc = h
      <4>1. args.start \in Int /\ args.limit \in Int
        BY <1>1, LifterConstants
      <4>2. Iterations(k) \in Int
        BY <4>1 DEF Iterations
      <4>3. QED BY <1>1, <1>2, <1>3, <1>6, <4>2
    <3>2. reg.i = Along(args.start, k, IF a < pc THEN 0 + 1 ELSE 0)
      BY <1>2, <2>3, Zenon
    <3>3. QED BY <2>4, <3>1, <3>2, Zenon DEF InLoop
  <2>6. QED BY <2>5
<1>7. QED BY <1>5, <1>6

\* Counting by one reaches the limit without wrapping.
LEMMA Onto ==
  ASSUME NEW k \in {-1, 1}, NEW m \in Nat,
         args.start \in 0..(Word - 1), args.limit \in 0..(Word - 1)
  PROVE  /\ Iterations(k) \in Int
         /\ Along(args.start, k, 0) = args.start
         /\ Along(args.start, k, m) # args.limit => m # Iterations(k)
         /\ m < Iterations(k) => Wrap(Along(args.start, k, m) + k) = Along(args.start, k, m + 1)
<1>1. Word \in Nat \ {0}
  BY LifterConstants
<1>2. \A n \in 0..(Word - 1) : Wrap(n) = n
  BY <1>1 DEF Wrap
<1>3. ASSUME m < Iterations(k)
      PROVE  /\ Along(args.start, k, m) + k \in 0..(Word - 1)
             /\ Along(args.start, k, m) + k = Along(args.start, k, m + 1)
  BY <1>1, <1>3 DEF Along, Iterations
<1>4. QED BY <1>1, <1>2, <1>3 DEF Along, Iterations

LEMMA OneMore ==
  ASSUME NEW m \in Nat, NEW b \in Nat
  PROVE  m * b \in Nat /\ (m + 1) * b = m * b + b /\ 0 * b = 0
OBVIOUS

\* Up to the way back only the test and it branch, only one instruction counts,
\* and what an instruction takes is what is charged for it.
LEMMA CounterLoopHas ==
  ASSUME IInv, NEW h \in DOMAIN listing, NEW z \in DOMAIN listing, NEW a \in DOMAIN listing,
         NEW k \in {-1, 1}, CounterLoop(h, z, a, k)
  PROVE  /\ Listed(listing) /\ h \in Nat \ {0} /\ z \in Nat /\ a \in Nat /\ h < a /\ a < z
         /\ h \in 1..Len(listing) /\ z \in 1..Len(listing)
         /\ listing[h].op = "beq" /\ listing[z].to = h
         /\ listing[h].to \in DOMAIN listing /\ z < listing[h].to /\ listing[listing[h].to].op = "jalr"
         /\ \A b \in 1..z : /\ b \in 1..Len(listing)
                            /\ b # h /\ b # z => listing[b].op \notin Conditional \cup {"jal", "jalr"}
                            /\ (listing[b].op = "addi" /\ listing[b].r = "i") <=> b = a
                            /\ \A taken \in BOOLEAN : Charge(listing[b], taken) = Cycles(listing[b].op, taken)
         /\ args.start \in 0..(Word - 1) /\ args.limit \in 0..(Word - 1)
         /\ Iterations(k) >= 0
<1>1. /\ Listed(listing) /\ DOMAIN listing = 1..Len(listing) /\ Len(listing) \in Nat
      /\ args \in [start : 0..(Word - 1), limit : Nat, hit : Nat]
  BY Listing DEF IInv, Known
<1>2. /\ Looping(listing, h, z) /\ Targeting(listing) = {h, z} /\ h < z
      /\ listing[h].op = "beq" /\ listing[z].to = h /\ a \in h..z /\ Counting(z) = {a}
      /\ listing[z].op \in {"jal", "beq"} /\ args.limit < Word /\ Iterations(k) >= 0
      /\ \A b \in 1..z : listing[b].op # "jalr" /\ Priced(listing[b])
  BY DEF CounterLoop, Looping
<1>3. h \in Nat \ {0} /\ z \in Nat /\ a \in Nat /\ h \in 1..Len(listing) /\ z \in 1..Len(listing)
  BY <1>1
<1>4. \A b \in 1..z : (listing[b].op = "addi" /\ listing[b].r = "i") <=> b = a
  <2>1. \A b \in 1..z : (listing[b].op = "addi" /\ listing[b].r = "i") <=> b \in Counting(z)
    BY DEF Counting
  <2>2. QED BY <1>2, <2>1
<1>5. h < a /\ a < z
  <2>1. a \in 1..z
    BY <1>2, <1>3
  <2>2. listing[a].op = "addi"
    BY <1>4, <2>1
  <2>3. a # h /\ a # z
    BY <1>2, <2>2
  <2>4. QED BY <1>2, <1>3, <2>3
<1>6. \A b \in 1..z : b \in 1..Len(listing)
  BY <1>1, <1>3
<1>7. ASSUME NEW b \in 1..z, b # h, b # z
      PROVE  listing[b].op \notin Conditional \cup {"jal", "jalr"}
  <2>1. b \in DOMAIN listing /\ b \notin Targeting(listing) /\ listing[b].op # "jalr"
    BY <1>1, <1>2, <1>6, <1>7
  <2>2. QED BY <2>1 DEF Targeting, Branching
<1>8. \A b \in 1..z : \A taken \in BOOLEAN : Charge(listing[b], taken) = Cycles(listing[b].op, taken)
  BY <1>2, Zenon DEF Charge
<1>9. /\ listing[h].to \in DOMAIN listing /\ z < listing[h].to /\ listing[listing[h].to].op = "jalr"
  BY <1>2, LoopingBlocks
<1>10. args.start \in 0..(Word - 1) /\ args.limit \in 0..(Word - 1)
  BY <1>1, <1>2, LifterConstants
<1>11. QED BY <1>1, <1>2, <1>3, <1>4, <1>5, <1>6, <1>7, <1>8, <1>9, <1>10

\* What a step up to the way back does.
LEMMA CounterLoopStep ==
  ASSUME IInv, NEW h \in DOMAIN listing, NEW z \in DOMAIN listing, NEW a \in DOMAIN listing,
         NEW k \in {-1, 1}, CounterLoop(h, z, a, k),
         [Next]_vars, Running, run' = "running", vars' # vars
  PROVE  /\ UNCHANGED <<listing, args>> /\ pc # listing[h].to
         /\ pc \in 1..z /\ pc # h /\ pc # z =>
              /\ pc' = pc + 1 /\ cyc' = cyc + Charge(listing[pc], FALSE)
              /\ reg'.i = IF pc = a THEN Wrap(reg.i + k) ELSE reg.i
         /\ pc = h =>
              /\ reg'.i = reg.i
              /\ \/ reg.i = args.limit /\ pc' = listing[h].to /\ cyc' = cyc + Charge(listing[h], TRUE)
                 \/ reg.i # args.limit /\ pc' = h + 1 /\ cyc' = cyc + Charge(listing[h], FALSE)
         /\ pc = z => reg'.i = reg.i /\ pc' = h /\ cyc' = cyc + Charge(listing[z], TRUE)
<1>1. /\ h \in Nat \ {0} /\ z \in Nat /\ h < z
      /\ listing[h].op = "beq" /\ listing[h].r = "i" /\ listing[z].to = h
      /\ listing[z].op = "jal" \/ (listing[z].op = "beq" /\ listing[z].r = "same")
      /\ listing[listing[h].to].op = "jalr" /\ listing[a].k = k
  BY CounterLoopHas DEF CounterLoop
<1>2. \A b \in 1..z :
        /\ b # h /\ b # z => listing[b].op \notin Conditional \cup {"jal", "jalr"}
        /\ (listing[b].op = "addi" /\ listing[b].r = "i") <=> b = a
        /\ Charge(listing[b], TRUE) = Cycles(listing[b].op, TRUE)
        /\ Charge(listing[b], FALSE) = Cycles(listing[b].op, FALSE)
  <2>1. \A b \in 1..z :
          /\ b # h /\ b # z => listing[b].op \notin Conditional \cup {"jal", "jalr"}
          /\ (listing[b].op = "addi" /\ listing[b].r = "i") <=> b = a
          /\ \A taken \in BOOLEAN : Charge(listing[b], taken) = Cycles(listing[b].op, taken)
    BY CounterLoopHas
  <2>2. TRUE \in BOOLEAN /\ FALSE \in BOOLEAN
    OBVIOUS
  <2>3. QED BY <2>1, <2>2, Zenon
<1>3. h \in 1..z /\ z \in 1..z
  BY <1>1
<1>4. UNCHANGED <<listing, args>> /\ pc # listing[h].to
  BY <1>1, Executes DEF Conditional
<1>5. ASSUME pc \in 1..z, pc # h, pc # z
      PROVE  /\ pc' = pc + 1 /\ cyc' = cyc + Charge(listing[pc], FALSE)
             /\ reg'.i = IF pc = a THEN Wrap(reg.i + k) ELSE reg.i
  <2>1. listing[pc].op \notin Conditional \cup {"jal", "jalr"}
    BY <1>2, <1>5
  <2>2. /\ pc' = pc + 1 /\ cyc' = cyc + Cycles(listing[pc].op, FALSE)
        /\ reg'.i = IF listing[pc].op = "addi" /\ listing[pc].r = "i"
                    THEN Wrap(reg.i + listing[pc].k) ELSE reg.i
    BY <2>1, Executes
  <2>3. Charge(listing[pc], FALSE) = Cycles(listing[pc].op, FALSE)
    BY <1>2, <1>5
  <2>4. (listing[pc].op = "addi" /\ listing[pc].r = "i") <=> pc = a
    BY <1>2, <1>5
  <2>5. QED BY <1>1, <2>2, <2>3, <2>4
<1>6. ASSUME NEW b \in {h, z}, pc = b
      PROVE  /\ reg' = reg
             /\ \/ /\ listing[b].op = "beq"
                   /\ \E equal \in Compares(listing[b].r) :
                        \/ equal = TRUE /\ pc' = listing[b].to /\ cyc' = cyc + Charge(listing[b], TRUE)
                        \/ equal = FALSE /\ pc' = b + 1 /\ cyc' = cyc + Charge(listing[b], FALSE)
                \/ /\ listing[b].op = "jal"
                   /\ pc' = listing[b].to /\ cyc' = cyc + Charge(listing[b], TRUE)
  <2>1. /\ Charge(listing[b], TRUE) = Cycles(listing[b].op, TRUE)
        /\ Charge(listing[b], FALSE) = Cycles(listing[b].op, FALSE)
    BY <1>2, <1>3
  <2>2. CASE listing[b].op = "jal"
    <3>1. reg' = reg /\ pc' = listing[b].to /\ cyc' = cyc + Cycles(listing[b].op, TRUE)
      BY <1>6, <2>2, Executes DEF Conditional
    <3>2. QED BY <2>1, <2>2, <3>1
  <2>3. CASE listing[b].op = "beq"
    <3>1. /\ reg' = reg
          /\ \E equal \in Compares(listing[b].r) :
               \/ /\ equal = (listing[b].op = "beq")
                  /\ pc' = listing[b].to /\ cyc' = cyc + Cycles(listing[b].op, TRUE)
               \/ /\ equal # (listing[b].op = "beq")
                  /\ pc' = b + 1 /\ cyc' = cyc + Cycles(listing[b].op, FALSE)
      BY <1>6, <2>3, Executes, Zenon DEF Conditional
    <3>2. Compares(listing[b].r) \subseteq BOOLEAN
      <4>1. listing[b].r = "i" \/ listing[b].r = "same"
        BY <1>1, <1>6, <2>3
      <4>2. Compares("i") = {reg.i = args.limit} /\ Compares("same") = {TRUE}
        BY Zenon DEF Compares
      <4>3. {reg.i = args.limit} \subseteq BOOLEAN /\ {TRUE} \subseteq BOOLEAN
        BY Zenon
      <4>4. QED BY <4>1, <4>2, <4>3, Zenon
    <3>3. (listing[b].op = "beq") = TRUE
      BY <2>3
    <3>4. QED BY <2>1, <2>3, <3>1, <3>2, <3>3, Zenon
  <2>4. QED BY <1>1, <2>2, <2>3
<1>7. ASSUME pc = h
      PROVE  /\ reg'.i = reg.i
             /\ \/ reg.i = args.limit /\ pc' = listing[h].to /\ cyc' = cyc + Charge(listing[h], TRUE)
                \/ reg.i # args.limit /\ pc' = h + 1 /\ cyc' = cyc + Charge(listing[h], FALSE)
  <2>1. Compares(listing[h].r) = {reg.i = args.limit}
    BY <1>1, Zenon DEF Compares
  <2>2. /\ reg' = reg
        /\ \E equal \in {reg.i = args.limit} :
             \/ equal = TRUE /\ pc' = listing[h].to /\ cyc' = cyc + Charge(listing[h], TRUE)
             \/ equal = FALSE /\ pc' = h + 1 /\ cyc' = cyc + Charge(listing[h], FALSE)
    BY <1>1, <1>6, <1>7, <2>1, Zenon
  <2>3. CASE reg.i = args.limit
    BY <2>2, <2>3, Zenon
  <2>4. CASE reg.i # args.limit
    BY <2>2, <2>4, Zenon
  <2>5. QED BY <2>3, <2>4
<1>8. ASSUME pc = z
      PROVE  reg'.i = reg.i /\ pc' = h /\ cyc' = cyc + Charge(listing[z], TRUE)
  <2>1. CASE listing[z].op = "jal"
    BY <1>1, <1>6, <1>8, <2>1
  <2>2. CASE listing[z].op = "beq" /\ listing[z].r = "same"
    <3>1. Compares(listing[z].r) = {TRUE}
      BY <2>2, Zenon DEF Compares
    <3>2. QED BY <1>1, <1>6, <1>8, <2>2, <3>1, Zenon
  <2>3. QED BY <1>1, <2>1, <2>2
<1>9. QED BY <1>4, <1>5, <1>7, <1>8

\* What the invariant is about stays the same while the function runs.
LEMMA CounterLoopStays ==
  ASSUME UNCHANGED <<listing, args>>
  PROVE  /\ \A k : Iterations(k)' = Iterations(k)
         /\ \A h, z, a, k : CounterLoop(h, z, a, k)' <=> CounterLoop(h, z, a, k)
<1>1. listing' = listing /\ args' = args
  OBVIOUS
<1>2. ASSUME NEW k PROVE Iterations(k)' = Iterations(k)
  BY <1>1 DEF Iterations
<1>3. ASSUME NEW z PROVE Counting(z)' = Counting(z)
  BY <1>1 DEF Counting
<1>4. ASSUME NEW h, NEW z, NEW a, NEW k
      PROVE  CounterLoop(h, z, a, k)' <=> CounterLoop(h, z, a, k)
  BY <1>1, <1>2, <1>3, Zenon DEF CounterLoop
<1>5. QED BY <1>2, <1>4

LEMMA TrackedStep ==
  ASSUME IInv, NEW h \in DOMAIN listing, NEW z \in DOMAIN listing, NEW a \in DOMAIN listing,
         NEW k \in {-1, 1}, CounterLoop(h, z, a, k), Tracked(h, z, a, k),
         [Next]_vars, Running, run' = "running", vars' # vars
  PROVE  Tracked(h, z, a, k)'
<1> DEFINE l == listing   x == l[h].to
           Before(y) == Charged(l, 1, y, z)
           Within(y) == Charged(l, h, y, z)
           first == Before(h - 1)   body == Within(z)
           stays == Charge(l[h], FALSE)   leaves == Charge(l[h], TRUE)
           here == Charge(l[pc], FALSE)   back == Charge(l[z], TRUE)
<1>1. /\ Listed(l) /\ h \in Nat \ {0} /\ z \in Nat /\ a \in Nat /\ h < a /\ a < z
      /\ h \in 1..Len(l) /\ z \in 1..Len(l) /\ z < x
      /\ \A b \in 1..z : b \in 1..Len(l)
      /\ args.start \in 0..(Word - 1) /\ args.limit \in 0..(Word - 1) /\ Iterations(k) >= 0
  BY CounterLoopHas
<1>2. /\ UNCHANGED <<listing, args>> /\ pc # x
      /\ pc \in 1..z /\ pc # h /\ pc # z =>
           /\ pc' = pc + 1 /\ cyc' = cyc + here
           /\ reg'.i = IF pc = a THEN Wrap(reg.i + k) ELSE reg.i
      /\ pc = h =>
           /\ reg'.i = reg.i
           /\ \/ reg.i = args.limit /\ pc' = x /\ cyc' = cyc + leaves
              \/ reg.i # args.limit /\ pc' = h + 1 /\ cyc' = cyc + stays
      /\ pc = z => reg'.i = reg.i /\ pc' = h /\ cyc' = cyc + back
  BY CounterLoopStep
<1>3. /\ \A y \in 1..z : y # z => Before(y) = Before(y - 1) + Charge(l[y], FALSE)
      /\ \A y \in h..z : /\ y # z => Within(y) = Within(y - 1) + Charge(l[y], FALSE)
                         /\ y = z => Within(y) = Within(y - 1) + Charge(l[y], TRUE)
  <2>1. 1 \in Nat \ {0} /\ \A y \in 1..z : y \in 1..Len(l) /\ 1 <= y
    BY <1>1
  <2>2. \A y \in h..z : y \in 1..Len(l) /\ h <= y
    BY <1>1
  <2>3. QED BY <1>1, <2>1, <2>2, ChargedNext, ZenonT(60)
<1>4. /\ \A y \in Int : Before(y) \in Nat /\ Within(y) \in Nat
      /\ Within(h - 1) = 0
  <2>1. 1 \in Nat \ {0} /\ h \in Int
    BY <1>1
  <2>2. QED BY <1>1, <2>1, ChargedType
<1>5. /\ \A m \in Nat :
           /\ Along(args.start, k, m) # args.limit => m # Iterations(k)
           /\ m < Iterations(k) => Wrap(Along(args.start, k, m) + k) = Along(args.start, k, m + 1)
      /\ Along(args.start, k, 0) = args.start /\ Iterations(k) \in Int
  BY <1>1, Onto
<1>6. \A m \in Nat : m * body \in Nat /\ (m + 1) * body = m * body + body /\ 0 * body = 0
  <2>1. body \in Nat
    BY <1>1, <1>4
  <2> HIDE DEF body
  <2>2. QED BY <2>1, OneMore
<1>7. \/ InPrologue(h, z)
      \/ \E m \in Nat : InLoop(h, z, a, k, m)
      \/ \E m \in Nat : AtEnd(h, z, k, m)
  BY DEF Tracked
<1>8. pc \in Int /\ cyc \in Nat
  BY <1>1, Listing DEF IInv, TypeOK
<1>9. stays \in Nat /\ leaves \in Nat /\ here \in Nat /\ back \in Nat
  BY ChargeType, Zenon
<1> DEFINE Here(m) == m * body
           Next0 == pc' \in 1..(h - 1) /\ cyc' = Before(pc' - 1) /\ reg'.i = args.start
           Loop0(m) == /\ pc' \in h..z /\ m <= Iterations(k) /\ (pc' # h => m < Iterations(k))
                       /\ cyc' = first + Here(m) + Within(pc' - 1)
                       /\ reg'.i = Along(args.start, k, IF a < pc' THEN m + 1 ELSE m)
           End0(m) == /\ pc' = x /\ reg'.i = args.limit /\ reg'.i = Along(args.start, k, m)
                      /\ cyc' = first + Here(m) + leaves
<1>10. /\ Next0 => InPrologue(h, z)'
       /\ \A m \in Nat : Loop0(m) => InLoop(h, z, a, k, m)'
       /\ \A m \in Nat : End0(m) => AtEnd(h, z, k, m)'
  <2>1. listing' = listing /\ args' = args /\ Iterations(k)' = Iterations(k)
    BY <1>2, CounterLoopStays
  <2>2. Next0 => InPrologue(h, z)'
    BY <2>1, Zenon DEF InPrologue
  <2>3. ASSUME NEW m PROVE Loop0(m) => InLoop(h, z, a, k, m)'
    BY <2>1, Zenon DEF InLoop
  <2>4. ASSUME NEW m PROVE End0(m) => AtEnd(h, z, k, m)'
    BY <2>1, Zenon DEF AtEnd
  <2>5. QED BY <2>2, <2>3, <2>4
<1>11. ASSUME InPrologue(h, z) PROVE Next0 \/ Loop0(0)
  <2>1. pc \in 1..(h - 1) /\ cyc = Before(pc - 1) /\ reg.i = args.start
    BY <1>11 DEF InPrologue
  <2> HIDE DEF l, x, Before, Within, first, body, stays, leaves, here, back, Here
  <2>2. /\ pc' = pc + 1 /\ cyc' = cyc + here /\ reg'.i = reg.i
        /\ Before(pc) = Before(pc - 1) + here
    <3>1. pc \in 1..z /\ pc # h /\ pc # z /\ pc # a
      BY <1>1, <2>1
    <3>2. QED BY <1>2, <1>3, <3>1 DEF here
  <2>3. cyc' = Before(pc' - 1) /\ pc' \in 1..h
    BY <1>1, <1>8, <1>9, <2>1, <2>2
  <2>4. CASE pc' # h
    <3>1. pc' \in 1..(h - 1)
      BY <1>1, <2>3, <2>4
    <3>2. Next0
      BY <2>1, <2>2, <2>3, <3>1
    <3>3. QED BY <3>2
  <2>5. CASE pc' = h
    <3>1. cyc' = first + Here(0) + Within(pc' - 1)
      <4>1. 0 \in Nat
        OBVIOUS
      <4>2. Here(0) = 0 /\ Within(pc' - 1) = 0 /\ cyc' = first
        BY <1>4, <1>6, <2>3, <2>5, <4>1 DEF Here, first
      <4>3. first \in Nat
        BY <1>1, <1>4 DEF first
      <4>4. QED BY <4>2, <4>3
    <3>2. reg'.i = Along(args.start, k, IF a < pc' THEN 0 + 1 ELSE 0)
      BY <1>1, <1>5, <2>1, <2>2, <2>5
    <3>3. Loop0(0)
      <4>1. pc' \in h..z /\ 0 <= Iterations(k)
        BY <1>1, <1>5, <2>5
      <4>2. QED BY <2>5, <3>1, <3>2, <4>1
    <3>4. QED BY <3>3
  <2>6. QED BY <2>4, <2>5
<1>12. ASSUME NEW m \in Nat, InLoop(h, z, a, k, m)
       PROVE  Loop0(m) \/ End0(m) \/ Loop0(m + 1)
  <2> DEFINE sofar == first + Here(m)   part == Within(pc - 1)
  <2>1. /\ pc \in h..z /\ m <= Iterations(k) /\ (pc # h => m < Iterations(k))
        /\ reg.i = Along(args.start, k, IF a < pc THEN m + 1 ELSE m)
    BY <1>12 DEF InLoop
  <2>2. cyc = sofar + part
    BY <1>12 DEF InLoop
  <2>3. sofar \in Nat /\ body \in Nat /\ part \in Nat /\ first + Here(m + 1) = sofar + body
    <3>1. h - 1 \in Int /\ z \in Int /\ pc - 1 \in Int
      BY <1>1, <1>8
    <3>2. /\ first \in Nat /\ Here(m) \in Nat /\ body \in Nat /\ part \in Nat
          /\ Here(m + 1) = Here(m) + body
      BY <1>4, <1>6, <3>1, Zenon
    <3> HIDE DEF first, body, part, Here
    <3>3. QED BY <3>2
  <2>4. (pc # z => Within(pc) = part + here) /\ (pc = z => body = part + back)
    BY <1>3, <2>1
  <2>5. (pc = h => part = 0) /\ Within(h - 1) = 0
    BY <1>4, <2>1
  <2> HIDE DEF l, x, Before, Within, first, body, stays, leaves, here, back, Here, sofar, part
  <2>6. CASE pc = h
    <3>1. reg'.i = reg.i /\ reg.i = Along(args.start, k, m)
      BY <1>1, <1>2, <2>1, <2>6
    <3>2. CASE reg.i = args.limit /\ pc' = x /\ cyc' = cyc + leaves
      <4>1. cyc' = sofar + leaves
        BY <1>9, <2>2, <2>3, <2>5, <2>6, <3>2
      <4>2. End0(m)
        BY <3>1, <3>2, <4>1 DEF sofar
      <4>3. QED BY <4>2
    <3>3. CASE reg.i # args.limit /\ pc' = h + 1 /\ cyc' = cyc + stays
      <4>1. m # Iterations(k)
        BY <1>5, <3>1, <3>3, Zenon
      <4>2. m < Iterations(k)
        BY <1>5, <2>1, <4>1
      <4>3. stays = here /\ pc' - 1 = pc /\ pc' \in h..z /\ pc # z /\ ~(a < pc')
        BY <1>1, <1>8, <2>6, <3>3 DEF stays, here
      <4>4. Within(pc' - 1) = stays
        BY <1>9, <2>4, <2>5, <2>6, <4>3
      <4>5. cyc' = sofar + Within(pc' - 1)
        BY <1>9, <2>2, <2>3, <2>5, <2>6, <3>3, <4>4
      <4>6. Loop0(m)
        BY <2>1, <3>1, <4>2, <4>3, <4>5 DEF sofar
      <4>7. QED BY <4>6
    <3>4. QED BY <1>2, <2>6, <3>2, <3>3
  <2>7. CASE pc # h /\ pc # z
    <3>1. /\ pc' = pc + 1 /\ cyc' = cyc + here /\ m < Iterations(k)
          /\ reg'.i = IF pc = a THEN Wrap(reg.i + k) ELSE reg.i
      <4>1. pc \in 1..z
        BY <1>1, <2>1
      <4>2. QED BY <1>2, <2>1, <2>7, <4>1
    <3>2. pc' \in h..z /\ pc' # h /\ pc' - 1 = pc
      BY <1>1, <1>8, <2>1, <2>7, <3>1
    <3>3. cyc' = sofar + Within(pc' - 1)
      <4>1. Within(pc' - 1) = part + here
        BY <2>4, <2>7, <3>2
      <4>2. QED BY <1>9, <2>2, <2>3, <3>1, <4>1
    <3>4. reg'.i = Along(args.start, k, IF a < pc' THEN m + 1 ELSE m)
      <4>1. CASE pc = a
        <5>1. reg'.i = Wrap(Along(args.start, k, m) + k) /\ a < pc'
          BY <1>1, <2>1, <3>1, <3>2, <4>1
        <5>2. QED BY <1>5, <3>1, <5>1
      <4>2. CASE pc # a
        <5>1. reg'.i = reg.i /\ (a < pc' <=> a < pc)
          BY <1>1, <1>8, <3>1, <3>2, <4>2
        <5>2. QED BY <2>1, <5>1
      <4>3. QED BY <4>1, <4>2
    <3>5. Loop0(m)
      BY <2>1, <3>1, <3>2, <3>3, <3>4 DEF sofar
    <3>6. QED BY <3>5
  <2>8. CASE pc = z
    <3>1. /\ reg'.i = reg.i /\ pc' = h /\ cyc' = cyc + back
          /\ m < Iterations(k) /\ reg.i = Along(args.start, k, m + 1)
      BY <1>1, <1>2, <2>1, <2>8
    <3>2. pc' \in h..z /\ ~(a < pc') /\ Within(pc' - 1) = 0
      BY <1>1, <2>5, <3>1
    <3>3. cyc' = first + Here(m + 1) + Within(pc' - 1)
      <4>1. cyc' = sofar + body
        BY <1>9, <2>2, <2>3, <2>4, <2>8, <3>1
      <4>2. sofar + body \in Nat
        BY <2>3
      <4>3. QED BY <2>3, <3>2, <4>1, <4>2
    <3>4. m + 1 <= Iterations(k)
      BY <1>5, <3>1
    <3>5. Loop0(m + 1)
      BY <3>1, <3>2, <3>3, <3>4
    <3>6. QED BY <3>5
  <2>9. QED BY <2>6, <2>7, <2>8
<1>13. ASSUME NEW m \in Nat, AtEnd(h, z, k, m) PROVE FALSE
  BY <1>2, <1>13 DEF AtEnd
<1>14. 0 \in Nat /\ \A m \in Nat : m + 1 \in Nat
  OBVIOUS
<1>15. QED BY <1>7, <1>10, <1>11, <1>12, <1>13, <1>14 DEF Tracked

LEMMA CountedStep ==
  ASSUME IInv, Counted, [Next]_vars
  PROVE  Counted'
<1>1. UNCHANGED <<listing, args>>
  BY Steps DEF Goto
<1>2. CASE run' # "returned"
  <2> SUFFICES ASSUME NEW h \in DOMAIN listing', NEW z \in DOMAIN listing', NEW a \in DOMAIN listing',
                      NEW k \in {-1, 1}, CounterLoop(h, z, a, k)'
               PROVE  Tracked(h, z, a, k)'
    BY DEF Counted
  <2>1. /\ h \in DOMAIN listing /\ z \in DOMAIN listing /\ a \in DOMAIN listing
        /\ CounterLoop(h, z, a, k)
    BY <1>1, CounterLoopStays
  <2>2. \/ UNCHANGED <<pc, reg, cyc>> /\ run # "returned"
        \/ Running /\ run' = "running" /\ fuel' = fuel - 1
    BY <1>2, Steps DEF Goto, Running
  <2>3. run # "returned"
    BY <2>2 DEF Running
  <2>4. Tracked(h, z, a, k)
    BY <2>1, <2>3 DEF Counted
  <2>5. CASE UNCHANGED <<pc, reg, cyc>>
    <3>1. pc' = pc /\ reg' = reg /\ cyc' = cyc /\ listing' = listing /\ args' = args
      BY <1>1, <2>5
    <3>2. Iterations(k)' = Iterations(k)
      BY <1>1, CounterLoopStays
    <3>3. InPrologue(h, z) => InPrologue(h, z)'
      BY <3>1, Zenon DEF InPrologue
    <3>4. ASSUME NEW m PROVE InLoop(h, z, a, k, m) => InLoop(h, z, a, k, m)'
      BY <3>1, <3>2, Zenon DEF InLoop
    <3>5. ASSUME NEW m PROVE AtEnd(h, z, k, m) => AtEnd(h, z, k, m)'
      BY <3>1, Zenon DEF AtEnd
    <3>6. QED BY <2>4, <3>3, <3>4, <3>5, Zenon DEF Tracked
  <2>6. CASE Running /\ run' = "running" /\ fuel' = fuel - 1
    <3>1. fuel' # fuel
      BY <2>6 DEF IInv, TypeOK
    <3>2. vars' # vars
      BY <3>1 DEF vars
    <3>3. QED BY <2>1, <2>4, <2>6, <3>2, TrackedStep
  <2>7. QED BY <2>2, <2>5, <2>6
<1>3. CASE run' = "returned"
  BY <1>3 DEF Counted
<1>4. QED BY <1>2, <1>3

LEMMA CountedCorrect == Spec => [](IInv /\ Counted)
<1>1. IInv /\ Counted /\ [Next]_vars => Counted'
  BY CountedStep
<1>2. QED BY <1>1, CountedInit, InitIInv, IInvStep, PTL DEF Spec

\* The form derived for such a loop charges what is charged along it.
LEMMA DerivedForm ==
  ASSUME IInv, Running, NEW f \in lifted.counter, LikeAddloop(f)
  PROVE  \E z, a \in DOMAIN listing : \E k \in {-1, 1} :
           LET h == f.header IN
           /\ h \in DOMAIN listing /\ CounterLoop(h, z, a, k) /\ f.step = k
           /\ f.setup = Charged(listing, 1, h - 1, z) /\ f.body = Charged(listing, h, z, z)
           /\ f.exit = Charge(listing[h], TRUE)
<1> DEFINE g == BuildCfg(listing)   l == listing   h == f.header   loop == NaturalLoop(g, h)
<1>1. Listed(l) /\ DOMAIN l = 1..Len(l) /\ Len(l) \in Nat /\ lifted = LiftResult(g)
      /\ args \in [start : 0..(Word - 1), limit : Nat, hit : Nat]
  BY Listing DEF IInv, Known, Running
<1>2. f \in CounterForm(g) /\ lifted.cfg = g
  BY <1>1, Zenon DEF LiftResult
<1>3. PICK head \in LoopHeaders(g) :
        \E b \in Inductions(g, NaturalLoop(g, head)) :
          f = [header |-> head, reg |-> g.l[b].r, step |-> g.l[b].k,
               setup |-> Setup(g, head, NaturalLoop(g, head)), body |-> Body(g, NaturalLoop(g, head)),
               exit |-> LoopExitTerm(g, head)]
  BY <1>2 DEF CounterForm
<1>4. PICK b \in Inductions(g, NaturalLoop(g, head)) :
         f = [header |-> head, reg |-> g.l[b].r, step |-> g.l[b].k,
              setup |-> Setup(g, head, NaturalLoop(g, head)), body |-> Body(g, NaturalLoop(g, head)),
              exit |-> LoopExitTerm(g, head)]
  BY <1>3
<1>5. /\ h \in LoopHeaders(g) /\ b \in Inductions(g, loop) /\ g.l = l
      /\ f.reg = l[b].r /\ f.step = l[b].k /\ f.setup = Setup(g, h, loop) /\ f.body = Body(g, loop)
      /\ f.exit = LoopExitTerm(g, h)
  BY <1>4, Graph
<1>6. h \in DOMAIN l
  <2>1. h \in Leaders(l)
    BY <1>1, <1>5, EdgesLead DEF LoopHeaders, BackEdges
  <2>2. QED BY <1>1, <2>1, BlocksAreLeaders
<1>7. /\ l[h].op = "beq" /\ l[h].r = "i" /\ l[h].to \in ExitPoints(g)
      /\ f.reg = "i" /\ args.limit < Word
  BY <1>2 DEF LikeAddloop
<1>8. PICK z \in LoopEnd(h) : \E a \in h..z, k \in {-1, 1} :
         Counting(z) = {a} /\ l[a].k = k /\ k * (args.limit - args.start) >= 0
  BY DEF LikeAddloop
<1>9. PICK a \in h..z, k \in {-1, 1} :
        Counting(z) = {a} /\ l[a].k = k /\ k * (args.limit - args.start) >= 0
  BY <1>8
<1>10. /\ z \in Targeting(l) /\ h < z /\ l[z].to = h /\ Targeting(l) = {h, z}
       /\ l[z].op = "jal" \/ (l[z].op = "beq" /\ l[z].r = "same")
       /\ \A c \in 1..z : Priced(l[c]) /\ l[c].op # "jalr"
  BY DEF LoopEnd
<1>11. z \in DOMAIN l /\ a \in DOMAIN l
  <2>1. z \in DOMAIN l
    BY <1>1, <1>10, Listing
  <2>2. QED BY <1>1, <1>6, <2>1
<1>12. Looping(l, h, z)
  BY <1>1, <1>6, <1>7, <1>10, <1>11 DEF Looping
<1>13. Iterations(k) >= 0
  <2>1. args.limit - args.start \in Int
    BY <1>1, LifterConstants
  <2>2. k = 1 \/ k = -1
    OBVIOUS
  <2>3. QED BY <1>1, <1>9, <2>1, <2>2, LifterConstants DEF Iterations
<1>14. CounterLoop(h, z, a, k)
  BY <1>7, <1>9, <1>10, <1>12, <1>13 DEF CounterLoop
<1>15. Insns(g, loop) = h..z /\ Into(g, loop) = {z} /\ Max(Insns(g, {h})) = h
  BY <1>12, LoopingLoop
<1>16. f.step = k
  <2>1. b \in h..z /\ l[b].op = "addi" /\ l[b].r = "i"
    BY <1>5, <1>7, <1>15 DEF Inductions
  <2>2. b \in 1..z
    BY <1>1, <1>6, <2>1
  <2>3. b \in Counting(z)
    BY <2>1, <2>2 DEF Counting
  <2>4. QED BY <1>5, <1>9, <2>3
<1>17. f.setup = Charged(l, 1, h - 1, z) /\ f.body = Charged(l, h, z, z)
  BY <1>5, <1>15, Zenon DEF Setup, Body, Charged
<1>18. f.exit = Charge(l[h], TRUE)
  BY <1>5, <1>7, <1>15 DEF LoopExitTerm, Conditional
<1>19. QED BY <1>6, <1>11, <1>14, <1>16, <1>17, <1>18

-----------------------------------------------------------------------------
(* Blocks and loops read off the leaders.                                  *)

\* A block reaches from its leader to the next one.
LEMMA BlockSpan ==
  ASSUME NEW l, Listed(l), NEW x \in 1..Len(l), NEW y \in 1..Len(l), x \in Leaders(l), x <= y,
         \A b \in Leaders(l) : b <= x \/ y < b,
         y < Len(l) => y + 1 \in Leaders(l)
  PROVE  /\ \A a \in DOMAIN l : Block(l)[a] = x <=> a \in x..y
         /\ LastIn(l)[x] = y
<1>1. /\ DOMAIN l = 1..Len(l) /\ Len(l) \in Nat
      /\ \A b \in Leaders(l) : b \in 1..Len(l)
  BY Listing, LeadersType
<1>2. ASSUME NEW a \in DOMAIN l PROVE Block(l)[a] = x <=> a \in x..y
  <2> DEFINE b == Block(l)[a]
  <2>1. b \in Leaders(l) /\ b <= a /\ \A c \in Leaders(l) : c <= a => c <= b
    BY BlockOf
  <2>2. b \in 1..Len(l) /\ (b <= x \/ y < b) /\ a \in 1..Len(l) /\ (x <= a => x <= b)
    BY <1>1, <2>1
  <2>3. y < a => y < b
    <3>1. y < a => y + 1 \in Leaders(l) /\ y + 1 <= a
      BY <1>1
    <3>2. QED BY <1>1, <2>1, <2>2, <3>1
  <2> HIDE DEF b
  <2>4. b = x <=> a \in x..y
    <3>1. a \in Int /\ b \in Int /\ x \in Int /\ y \in Int /\ b <= a
      BY <1>1, <2>1, <2>2
    <3>2. QED BY <2>2, <2>3, <3>1
  <2>5. QED BY <2>4 DEF b
<1>3. LastIn(l)[x] = y
  <2>1. /\ LastIn(l)[x] \in DOMAIN l /\ Block(l)[LastIn(l)[x]] = x
        /\ \A a \in DOMAIN l : Block(l)[a] = x => a <= LastIn(l)[x]
    BY LastOf
  <2>2. y \in DOMAIN l /\ y \in x..y
    BY <1>1
  <2>3. Block(l)[y] = x
    BY <1>2, <2>2
  <2>4. LastIn(l)[x] \in x..y /\ y <= LastIn(l)[x]
    BY <1>2, <2>1, <2>2, <2>3
  <2>5. QED BY <1>1, <2>4
<1>4. QED BY <1>2, <1>3

\* Edges leave a block at its end, by a branch or by falling through.
LEMMA EdgeOf ==
  ASSUME NEW l, Listed(l), NEW b \in Leaders(l), NEW t
  PROVE  <<b, t>> \in Edges(BuildCfg(l)) <=>
           \/ LastIn(l)[b] \in Targeting(l) /\ t = l[LastIn(l)[b]].to
           \/ l[LastIn(l)[b]].op \notin {"jal", "jalr"} /\ LastIn(l)[b] < Len(l) /\ t = LastIn(l)[b] + 1
<1>1. <<b, t>> \in BuildCfg(l).jumps <=> LastIn(l)[b] \in Targeting(l) /\ t = l[LastIn(l)[b]].to
  BY Graph
<1>2. <<b, t>> \in BuildCfg(l).falls <=>
        l[LastIn(l)[b]].op \notin {"jal", "jalr"} /\ LastIn(l)[b] < Len(l) /\ t = LastIn(l)[b] + 1
  BY Graph
<1>3. QED BY <1>1, <1>2 DEF Edges

\* An edge is a pair of leaders.
LEMMA EdgesArePairs ==
  ASSUME NEW l, Listed(l), NEW e \in Edges(BuildCfg(l))
  PROVE  e = <<e[1], e[2]>> /\ e[1] \in Leaders(l) /\ e[2] \in Leaders(l)
<1>1. e = <<e[1], e[2]>>
  BY Graph DEF Edges
<1>2. QED BY <1>1, EdgesLead

\* The loop of a header: blocks that reach it and are reached from it, with
\* nothing behind them that leads back.
LEMMA LoopIs ==
  ASSUME NEW l, Listed(l), NEW h, NEW N \in SUBSET Leaders(l), h \in N,
         \A b \in N : b \in Onwards(l, h) /\ h \in Onwards(l, b),
         NEW A \in SUBSET Leaders(l), N \cap A = {},
         \A e \in Edges(BuildCfg(l)) : /\ e[1] \in N => e[2] \in N \cup A
                                       /\ e[1] \in A => e[2] \in A
  PROVE  NaturalLoop(BuildCfg(l), h) = N
<1> DEFINE E == Edges(BuildCfg(l))
           R == {<<e[2], e[1]>> : e \in E}
<1>1. Blocks(BuildCfg(l)) = Leaders(l)
  BY BlocksAreLeaders
<1>2. N \subseteq NaturalLoop(BuildCfg(l), h)
  BY LoopHolds
<1>3. Onwards(l, h) \subseteq N \cup A
  <2>1. N \cup A \in SUBSET Blocks(BuildCfg(l)) /\ Closed(E, N \cup A) /\ h \in N \cup A
    BY <1>1 DEF Closed
  <2>2. QED BY <2>1 DEF Onwards, Reachable
<1>4. Reachable(BuildCfg(l), h, R) \subseteq Leaders(l) \ A
  <2>1. Closed(R, Leaders(l) \ A)
    <3> SUFFICES ASSUME NEW r \in R, r[1] \in Leaders(l) \ A PROVE r[2] \in Leaders(l) \ A
      BY DEF Closed
    <3>1. PICK e \in E : r = <<e[2], e[1]>>
      OBVIOUS
    <3>2. r[1] = e[2] /\ r[2] = e[1] /\ e[1] \in Leaders(l)
      BY <3>1, EdgesLead
    <3>3. QED BY <3>2
  <2>2. Leaders(l) \ A \in SUBSET Blocks(BuildCfg(l)) /\ h \in Leaders(l) \ A
    BY <1>1
  <2>3. QED BY <2>1, <2>2 DEF Reachable
<1>5. QED BY <1>2, <1>3, <1>4 DEF NaturalLoop, Onwards

\* Leaders are the entry, where branches lead, what follows a branch, returns.
LEMMA LeaderIs ==
  ASSUME NEW l, Listed(l), NEW b
  PROVE  b \in Leaders(l) <=>
           /\ b \in 1..Len(l)
           /\ \/ b = 1 \/ l[b].op = "jalr"
              \/ \E a \in Targeting(l) : b = l[a].to
              \/ \E a \in Branching(l) : b = a + 1
<1>1. DOMAIN l = 1..Len(l) /\ Len(l) \in Nat \ {0}
  BY Listing
<1>2. QED BY <1>1 DEF Leaders

\* Up to an address before any return only the branches make leaders.
LEMMA EarlyLeaders ==
  ASSUME NEW l, Listed(l), NEW n \in 1..Len(l), \A a \in 1..n : l[a].op # "jalr",
         NEW b \in Leaders(l), b <= n
  PROVE  \/ b = 1
         \/ \E a \in Targeting(l) : b = l[a].to
         \/ \E a \in Targeting(l) : b = a + 1
<1>1. DOMAIN l = 1..Len(l) /\ Len(l) \in Nat \ {0} /\ b \in 1..Len(l) /\ l[b].op # "jalr"
  BY Listing, LeadersType
<1>2. ASSUME NEW a \in Branching(l), b = a + 1 PROVE a \in Targeting(l)
  <2>1. a \in 1..n
    BY <1>1, <1>2 DEF Branching
  <2>2. QED BY <2>1 DEF Targeting
<1>3. QED BY <1>1, <1>2, LeaderIs

\* Where a branch leads and what follows it are leaders.
LEMMA BranchLeads ==
  ASSUME NEW l, Listed(l), NEW a \in Targeting(l)
  PROVE  /\ a \in 1..Len(l) /\ l[a].to \in 1..Len(l) /\ l[a].to \in Leaders(l)
         /\ a < Len(l) => a + 1 \in Leaders(l)
<1>1. DOMAIN l = 1..Len(l) /\ Len(l) \in Nat \ {0} /\ a \in 1..Len(l) /\ l[a].to \in 1..Len(l)
  BY Listing
<1>2. a \in Branching(l)
  BY DEF Targeting
<1>3. a < Len(l) => a + 1 \in 1..Len(l)
  BY <1>1
<1>4. QED BY <1>1, <1>2, <1>3, LeaderIs

-----------------------------------------------------------------------------
(* The search whose bound is tested first.                                 *)

\* Its branches: the test at h, the match at m, the way back at z.
FirstShape(l, h, m, z) ==
  /\ Listed(l) /\ h \in 1..Len(l) /\ m \in 1..Len(l) /\ z \in 1..Len(l) /\ h < m /\ m < z
  /\ Targeting(l) = {h, m, z} /\ \A a \in 1..z : l[a].op # "jalr"
  /\ l[h].op = "beq" /\ l[m].op = "beq" /\ l[z].op = "jal"
  /\ l[z].to = h /\ l[m].to = l[h].to /\ z < l[h].to

\* What is before the loop, the test, the part up to the match, and the rest.
LEMMA FirstBlocks ==
  ASSUME NEW l, NEW h, NEW m, NEW z, FirstShape(l, h, m, z)
  PROVE  /\ h \in Leaders(l) /\ h + 1 \in Leaders(l) /\ m + 1 \in Leaders(l) /\ l[h].to \in Leaders(l)
         /\ \A b \in Leaders(l) : b \in 1..Len(l) /\ (b <= z => b \in {1, h, h + 1, m + 1})
         /\ \A a \in DOMAIN l : /\ Block(l)[a] = h <=> a \in h..h
                                /\ Block(l)[a] = h + 1 <=> a \in (h + 1)..m
                                /\ Block(l)[a] = m + 1 <=> a \in (m + 1)..z
         /\ LastIn(l)[h] = h /\ LastIn(l)[h + 1] = m /\ LastIn(l)[m + 1] = z
         /\ h # 1 => LastIn(l)[1] = h - 1
<1>1. /\ Listed(l) /\ Len(l) \in Nat /\ DOMAIN l = 1..Len(l) /\ h \in 1..Len(l) /\ m \in 1..Len(l)
      /\ z \in 1..Len(l) /\ h < m /\ m < z /\ Targeting(l) = {h, m, z}
      /\ \A a \in 1..z : l[a].op # "jalr"
      /\ l[z].to = h /\ l[m].to = l[h].to /\ z < l[h].to
  BY Listing DEF FirstShape
<1>2. /\ h \in Leaders(l) /\ h + 1 \in Leaders(l) /\ m + 1 \in Leaders(l) /\ z + 1 \in Leaders(l)
      /\ l[h].to \in 1..Len(l) /\ l[h].to \in Leaders(l)
  <2>1. h \in Targeting(l) /\ m \in Targeting(l) /\ z \in Targeting(l)
    BY <1>1
  <2>2. l[h].to \in 1..Len(l) /\ l[h].to \in Leaders(l) /\ h \in Leaders(l)
    BY <1>1, <2>1, BranchLeads
  <2>3. h < Len(l) /\ m < Len(l) /\ z < Len(l)
    BY <1>1, <2>2
  <2>4. QED BY <1>1, <2>1, <2>2, <2>3, BranchLeads
<1>3. \A b \in Leaders(l) : b \in 1..Len(l) /\ (b <= z => b \in {1, h, h + 1, m + 1})
  <2> SUFFICES ASSUME NEW b \in Leaders(l)
               PROVE  b \in 1..Len(l) /\ (b <= z => b \in {1, h, h + 1, m + 1})
    OBVIOUS
  <2>1. b \in 1..Len(l)
    BY <1>1, LeadersType
  <2>2. ASSUME b <= z PROVE b \in {1, h, h + 1, m + 1}
    <3>1. \/ b = 1
          \/ \E a \in Targeting(l) : b = l[a].to
          \/ \E a \in Targeting(l) : b = a + 1
      BY <1>1, <2>2, EarlyLeaders
    <3>2. QED BY <1>1, <1>2, <2>1, <2>2, <3>1
  <2>3. QED BY <2>1, <2>2
<1>4. /\ \A a \in DOMAIN l : Block(l)[a] = h <=> a \in h..h
      /\ LastIn(l)[h] = h
  <2>1. /\ \A b \in Leaders(l) : b <= h \/ h < b
        /\ h < Len(l) => h + 1 \in Leaders(l)
        /\ h <= h
    BY <1>1, <1>2, <1>3
  <2>2. QED BY <1>1, <1>2, <2>1, BlockSpan
<1>5. /\ \A a \in DOMAIN l : Block(l)[a] = h + 1 <=> a \in (h + 1)..m
      /\ LastIn(l)[h + 1] = m
  <2>1. /\ \A b \in Leaders(l) : b <= h + 1 \/ m < b
        /\ h + 1 \in 1..Len(l) /\ h + 1 <= m
    BY <1>1, <1>3
  <2>2. QED BY <1>1, <1>2, <2>1, BlockSpan
<1>6. /\ \A a \in DOMAIN l : Block(l)[a] = m + 1 <=> a \in (m + 1)..z
      /\ LastIn(l)[m + 1] = z
  <2>1. /\ \A b \in Leaders(l) : b <= m + 1 \/ z < b
        /\ m + 1 \in 1..Len(l) /\ m + 1 <= z
    BY <1>1, <1>3
  <2>2. QED BY <1>1, <1>2, <2>1, BlockSpan
<1>7. ASSUME h # 1 PROVE LastIn(l)[1] = h - 1
  <2>1. /\ \A b \in Leaders(l) : b <= 1 \/ h - 1 < b
        /\ 1 \in 1..Len(l) /\ h - 1 \in 1..Len(l) /\ 1 <= h - 1 /\ (h - 1) + 1 = h
    BY <1>1, <1>3, <1>7
  <2>2. QED BY <1>1, <1>2, <2>1, BlockSpan, LeadersType
<1>8. QED BY <1>2, <1>3, <1>4, <1>5, <1>6, <1>7

\* Its edges, and the only one of them that leads back.
LEMMA FirstEdges ==
  ASSUME NEW l, NEW h, NEW m, NEW z, FirstShape(l, h, m, z)
  PROVE  LET E == Edges(BuildCfg(l))   x == l[h].to IN
         /\ <<h, h + 1>> \in E /\ <<h, x>> \in E /\ <<h + 1, m + 1>> \in E /\ <<h + 1, x>> \in E
         /\ <<m + 1, h>> \in E
         /\ \A e \in E : /\ e[1] \in 1..Len(l) /\ e[2] \in 1..Len(l)
                         /\ e[1] < h => e[2] = h
                         /\ e[1] = h => e[2] \in {h + 1, x}
                         /\ e[1] = h + 1 => e[2] \in {m + 1, x}
                         /\ e[1] = m + 1 => e[2] = h
                         /\ z < e[1] => e[1] < e[2]
<1> DEFINE E == Edges(BuildCfg(l))   x == l[h].to   last(b) == LastIn(l)[b]
<1>1. /\ Listed(l) /\ Len(l) \in Nat /\ DOMAIN l = 1..Len(l) /\ h \in 1..Len(l) /\ m \in 1..Len(l)
      /\ z \in 1..Len(l) /\ h < m /\ m < z /\ Targeting(l) = {h, m, z}
      /\ l[h].op = "beq" /\ l[m].op = "beq" /\ l[z].op = "jal"
      /\ l[z].to = h /\ l[m].to = x /\ z < x
  BY Listing DEF FirstShape
<1>2. /\ h \in Leaders(l) /\ h + 1 \in Leaders(l) /\ m + 1 \in Leaders(l) /\ x \in Leaders(l)
      /\ \A b \in Leaders(l) : b \in 1..Len(l) /\ (b <= z => b \in {1, h, h + 1, m + 1})
      /\ last(h) = h /\ last(h + 1) = m /\ last(m + 1) = z
      /\ h # 1 => last(1) = h - 1
  BY FirstBlocks
<1>3. x \in 1..Len(l)
  BY <1>2
<1> HIDE DEF x, last
<1>4. ASSUME NEW b \in Leaders(l), NEW t
      PROVE  <<b, t>> \in E <=> \/ last(b) \in Targeting(l) /\ t = l[last(b)].to
                                \/ /\ l[last(b)].op \notin {"jal", "jalr"} /\ last(b) < Len(l)
                                   /\ t = last(b) + 1
  BY <1>1, EdgeOf DEF last
<1> HIDE DEF E
<1>5. /\ <<h, h + 1>> \in E /\ <<h, x>> \in E
      /\ \A t : <<h, t>> \in E => t \in {h + 1, x}
  <2>1. l[h].to = x
    BY DEF x
  <2>2. h \in Targeting(l) /\ h < Len(l) /\ l[h].op \notin {"jal", "jalr"}
    BY <1>1
  <2>3. QED BY <1>2, <1>4, <2>1, <2>2
<1>6. /\ <<h + 1, m + 1>> \in E /\ <<h + 1, x>> \in E
      /\ \A t : <<h + 1, t>> \in E => t \in {m + 1, x}
  <2>1. m \in Targeting(l) /\ m < Len(l) /\ l[m].op \notin {"jal", "jalr"}
    BY <1>1
  <2>2. QED BY <1>1, <1>2, <1>4, <2>1
<1>7. <<m + 1, h>> \in E /\ \A t : <<m + 1, t>> \in E => t = h
  <2>1. z \in Targeting(l) /\ l[z].op \in {"jal", "jalr"}
    BY <1>1
  <2>2. QED BY <1>1, <1>2, <1>4, <2>1
<1>8. ASSUME NEW b \in Leaders(l), b < h, NEW t, <<b, t>> \in E PROVE t = h
  <2>0. b \in 1..Len(l) /\ (b <= z => b \in {1, h, h + 1, m + 1})
    BY <1>2
  <2>1. b = 1 /\ h # 1 /\ last(b) = h - 1
    BY <1>1, <1>2, <1>8, <2>0
  <2>2. h - 1 \notin Targeting(l) /\ last(b) + 1 = h
    BY <1>1, <2>1
  <2>3. QED BY <1>4, <1>8, <2>1, <2>2
<1>9. ASSUME NEW b \in Leaders(l), z < b, NEW t, <<b, t>> \in E PROVE b < t
  <2>1. b <= last(b) /\ last(b) \in 1..Len(l)
    BY <1>1, LastOf, BlockOf DEF last
  <2>2. last(b) \notin Targeting(l)
    <3>1. b \in 1..Len(l)
      BY <1>2
    <3>2. z < last(b)
      BY <1>1, <1>9, <2>1, <3>1
    <3>3. QED BY <1>1, <3>2
  <2>3. t = last(b) + 1
    BY <1>4, <1>9, <2>2
  <2>4. QED BY <1>2, <2>1, <2>3
<1>10. \A e \in E : e = <<e[1], e[2]>> /\ e[1] \in Leaders(l) /\ e[2] \in Leaders(l)
  BY <1>1, EdgesArePairs DEF E
<1>11. ASSUME NEW e \in E
       PROVE  /\ e[1] \in 1..Len(l) /\ e[2] \in 1..Len(l)
              /\ e[1] < h => e[2] = h
              /\ e[1] = h => e[2] \in {h + 1, x}
              /\ e[1] = h + 1 => e[2] \in {m + 1, x}
              /\ e[1] = m + 1 => e[2] = h
              /\ z < e[1] => e[1] < e[2]
  <2> DEFINE b == e[1]   t == e[2]
  <2>1. <<b, t>> \in E /\ b \in Leaders(l) /\ t \in Leaders(l)
    BY <1>10
  <2> HIDE DEF b, t
  <2>2. /\ b \in 1..Len(l) /\ t \in 1..Len(l) /\ (b < h => t = h) /\ (b = h => t \in {h + 1, x})
        /\ (b = h + 1 => t \in {m + 1, x}) /\ (b = m + 1 => t = h) /\ (z < b => b < t)
    BY <1>2, <1>5, <1>6, <1>7, <1>8, <1>9, <2>1
  <2>3. QED BY <2>2 DEF b, t
<1>12. QED BY <1>5, <1>6, <1>7, <1>11 DEF E, x

\* The loop is what lies from the test to the way back, and it has two ways out
\* to one place.
FirstLooped(l, h, m, z) ==
  LET g == BuildCfg(l)
      loop == NaturalLoop(g, h)
  IN  /\ LoopHeaders(g) = {h} /\ loop = {h, h + 1, m + 1}
      /\ Insns(g, loop) = h..z /\ Into(g, loop) = {z}
      /\ ExitEdges(g, loop) = {<<h, l[h].to>>, <<h + 1, l[h].to>>}
      /\ Succ(g, {h}) = {h + 1, l[h].to} /\ Succ(g, {h + 1}) = {m + 1, l[h].to}
      /\ g.block[h] = h /\ g.block[m] = h + 1
LEMMA FirstLoop ==
  ASSUME NEW l, NEW h, NEW m, NEW z, FirstShape(l, h, m, z)
  PROVE  FirstLooped(l, h, m, z)
<1> DEFINE g == BuildCfg(l)   E == Edges(g)   x == l[h].to   N == {h, h + 1, m + 1}
           A == {b \in Leaders(l) : z < b}   loop == NaturalLoop(g, h)
<1>1. /\ Listed(l) /\ Len(l) \in Nat /\ DOMAIN l = 1..Len(l) /\ h \in 1..Len(l) /\ m \in 1..Len(l)
      /\ z \in 1..Len(l) /\ h < m /\ m < z /\ Targeting(l) = {h, m, z}
      /\ l[z].to = h /\ l[m].to = x /\ z < x
  BY Listing DEF FirstShape
<1>2. /\ h \in Leaders(l) /\ h + 1 \in Leaders(l) /\ m + 1 \in Leaders(l) /\ x \in Leaders(l)
      /\ \A b \in Leaders(l) : b \in 1..Len(l) /\ (b <= z => b \in {1, h, h + 1, m + 1})
      /\ \A a \in DOMAIN l : /\ Block(l)[a] = h <=> a \in h..h
                             /\ Block(l)[a] = h + 1 <=> a \in (h + 1)..m
                             /\ Block(l)[a] = m + 1 <=> a \in (m + 1)..z
  BY FirstBlocks
<1>3. /\ <<h, h + 1>> \in E /\ <<h, x>> \in E /\ <<h + 1, m + 1>> \in E /\ <<h + 1, x>> \in E
      /\ <<m + 1, h>> \in E
      /\ \A e \in E : /\ e[1] \in 1..Len(l) /\ e[2] \in 1..Len(l)
                      /\ e[1] < h => e[2] = h
                      /\ e[1] = h => e[2] \in {h + 1, x}
                      /\ e[1] = h + 1 => e[2] \in {m + 1, x}
                      /\ e[1] = m + 1 => e[2] = h
                      /\ z < e[1] => e[1] < e[2]
  BY FirstEdges
<1>4. \A e \in E : e = <<e[1], e[2]>> /\ e[1] \in Leaders(l) /\ e[2] \in Leaders(l)
  BY <1>1, EdgesArePairs
<1> HIDE DEF x, E
<1>5. LoopHeaders(g) = {h}
  <2>1. \A e \in E : e[2] <= e[1] => e[2] = h
    <3> SUFFICES ASSUME NEW e \in E, e[2] <= e[1] PROVE e[2] = h
      OBVIOUS
    <3> DEFINE b == e[1]   t == e[2]
    <3>1. /\ b \in 1..Len(l) /\ t \in 1..Len(l) /\ t <= b /\ (b < h => t = h) /\ (b = h => t \in {h + 1, x})
          /\ (b = h + 1 => t \in {m + 1, x}) /\ (b = m + 1 => t = h) /\ (z < b => b < t)
          /\ (b <= z => b \in {1, h, h + 1, m + 1})
      BY <1>2, <1>3, <1>4
    <3> HIDE DEF b, t
    <3>2. t = h
      BY <1>1, <3>1 DEF x
    <3>3. QED BY <3>2 DEF t
  <2> DEFINE d == <<m + 1, h>>
  <2>2. d \in E /\ d[1] = m + 1 /\ d[2] = h
    BY <1>3
  <2> HIDE DEF d
  <2>3. d[2] <= d[1]
    BY <1>1, <2>2
  <2>4. QED BY <2>1, <2>2, <2>3 DEF LoopHeaders, BackEdges, E
<1>6. loop = N
  <2>1. /\ \A b \in N : b \in Onwards(l, h) /\ h \in Onwards(l, b)
    <3> DEFINE d == <<h, h + 1>>   u == <<h + 1, m + 1>>   w == <<m + 1, h>>
    <3>1. d \in E /\ u \in E /\ w \in E /\ d[1] = h /\ d[2] = h + 1 /\ u[1] = h + 1 /\ u[2] = m + 1
          /\ w[1] = m + 1 /\ w[2] = h
      BY <1>3
    <3> HIDE DEF d, u, w
    <3>2. h + 1 \in Onwards(l, h) /\ m + 1 \in Onwards(l, h + 1) /\ h \in Onwards(l, m + 1) /\ h \in Onwards(l, h)
      BY <1>1, <1>2, <3>1, Reaching DEF E
    <3>3. m + 1 \in Onwards(l, h) /\ h \in Onwards(l, h + 1)
      BY <1>1, <1>2, <3>2, Reaching
    <3>4. QED BY <3>2, <3>3
  <2>2. \A e \in E : (e[1] \in N => e[2] \in N \cup A) /\ (e[1] \in A => e[2] \in A)
    <3> SUFFICES ASSUME NEW e \in E PROVE (e[1] \in N => e[2] \in N \cup A) /\ (e[1] \in A => e[2] \in A)
      OBVIOUS
    <3>1. x \in A
      BY <1>1, <1>2 DEF x
    <3>2. e[1] \in N => e[2] \in N \cup A
      BY <1>3, <3>1
    <3>3. e[1] \in A => e[2] \in A
      BY <1>1, <1>3, <1>4
    <3>4. QED BY <3>2, <3>3
  <2>3. N \cap A = {} /\ N \in SUBSET Leaders(l) /\ A \in SUBSET Leaders(l) /\ h \in N
    BY <1>1, <1>2
  <2> HIDE DEF N, A
  <2>4. QED BY <1>1, <2>1, <2>2, <2>3, LoopIs DEF E
<1> HIDE DEF loop
<1>7. g.l = l /\ g.block = Block(l) /\ Addresses(g) = 1..Len(l)
  BY <1>1, Graph DEF Addresses
<1>8. Insns(g, loop) = h..z
  <2>1. \A a \in 1..Len(l) : Block(l)[a] \in loop <=> a \in h..z
    BY <1>1, <1>2, <1>6
  <2>2. QED BY <1>1, <1>7, <2>1 DEF Insns
<1>9. x \notin N
  BY <1>1
<1>10. Into(g, loop) = {z}
  <2>1. l[h].to \notin loop /\ l[m].to \notin loop /\ l[z].to \in loop
    BY <1>1, <1>6, <1>9 DEF x
  <2>2. QED BY <1>1, <1>7, <2>1 DEF Into
<1>11. ExitEdges(g, loop) = {<<h, x>>, <<h + 1, x>>}
  <2>1. ASSUME NEW e \in E, e[1] \in N, e[2] \notin N PROVE e \in {<<h, x>>, <<h + 1, x>>}
    BY <1>3, <1>4, <2>1
  <2>2. QED BY <1>3, <1>6, <1>9, <2>1 DEF ExitEdges, E
<1>12. Succ(g, {h}) = {h + 1, x} /\ Succ(g, {h + 1}) = {m + 1, x}
  <2>1. \A t : /\ t \in Succ(g, {h}) <=> <<h, t>> \in E
               /\ t \in Succ(g, {h + 1}) <=> <<h + 1, t>> \in E
    BY <1>4 DEF Succ, E
  <2>2. \A t : (<<h, t>> \in E => t \in {h + 1, x}) /\ (<<h + 1, t>> \in E => t \in {m + 1, x})
    BY <1>3
  <2>3. QED BY <1>3, <2>1, <2>2
<1>13. g.block[h] = h /\ g.block[m] = h + 1
  BY <1>1, <1>2, <1>7
<1>14. QED BY <1>5, <1>6, <1>8, <1>10, <1>11, <1>12, <1>13 DEF FirstLooped, loop, x

-----------------------------------------------------------------------------
(* The walk over the array.                                                *)

\* i counts the round, d loads, and p moves the pointer or makes the address.
Walking(S, N, i, d, p, moving) ==
  /\ args.start = 0 /\ args.limit < Word
  /\ \A a \in DOMAIN listing : Priced(listing[a])
  /\ i \in N /\ Adding("i") = {i} /\ listing[i].k = 1
  /\ d \in S /\ {a \in S \cup N : listing[a].op \in Loads} = {d}
  /\ moving => /\ {a \in S \cup N : listing[a].op = "add"} = {} /\ Adding("p") = {p} /\ listing[p].k = 1
               /\ p \in S \cup N /\ (p \in N \/ d < p)
  /\ ~moving => /\ {a \in S \cup N : listing[a].op = "add"} = {p} /\ Adding("p") = {}
                /\ p \in S /\ p < d

\* A round that walks has its increment, its load and its pointer.
LEMMA WalksWith ==
  ASSUME NEW S, NEW N, Walks(S, N)
  PROVE  \E i \in N : \E d \in S : \E p \in S \cup N : \E moving \in BOOLEAN : Walking(S, N, i, d, p, moving)
<1>1. PICK i \in N : Adding("i") = {i}
  BY DEF Walks
<1>2. PICK d \in S :
        /\ {a \in S \cup N : listing[a].op \in Loads} = {d}
        /\ \/ /\ {a \in S \cup N : listing[a].op = "add"} = {}
              /\ \E p \in S \cup N : Adding("p") = {p} /\ (p \in N \/ d < p)
           \/ /\ Adding("p") = {}
              /\ \E p \in S : {a \in S \cup N : listing[a].op = "add"} = {p} /\ p < d
  BY DEF Walks
<1>3. /\ args.start = 0 /\ args.limit < Word /\ \A a \in DOMAIN listing : Priced(listing[a])
      /\ \A a \in Adding("i") \cup Adding("p") : listing[a].k = 1
  BY DEF Walks
<1>4. CASE /\ {a \in S \cup N : listing[a].op = "add"} = {}
           /\ \E p \in S \cup N : Adding("p") = {p} /\ (p \in N \/ d < p)
  <2>1. PICK p \in S \cup N : Adding("p") = {p} /\ (p \in N \/ d < p)
    BY <1>4
  <2>2. Walking(S, N, i, d, p, TRUE)
    BY <1>1, <1>2, <1>3, <1>4, <2>1 DEF Walking
  <2>3. QED BY <2>2
<1>5. CASE /\ Adding("p") = {}
           /\ \E p \in S : {a \in S \cup N : listing[a].op = "add"} = {p} /\ p < d
  <2>1. PICK p \in S : {a \in S \cup N : listing[a].op = "add"} = {p} /\ p < d
    BY <1>5
  <2>2. Walking(S, N, i, d, p, FALSE)
    BY <1>1, <1>2, <1>3, <1>5, <2>1 DEF Walking
  <2>3. QED BY <2>2
<1>6. QED BY <1>2, <1>4, <1>5

\* The least of one number.
LEMMA MinOne ==
  ASSUME NEW n \in Int
  PROVE  Min({n}) = n
<1>1. \A x : (x \in {n} /\ \A y \in {n} : x <= y) <=> x = n
  OBVIOUS
<1>2. QED BY <1>1 DEF Min

\* The register found to count the rounds is i.
LEMMA IndexIs ==
  ASSUME NEW S, NEW N, NEW i, NEW d, NEW p, NEW moving \in BOOLEAN, Walking(S, N, i, d, p, moving),
         Listed(listing), NEW loop,
         S \cup N \subseteq Insns(BuildCfg(listing), loop),
         \A a \in Insns(BuildCfg(listing), loop) : a \in S \cup N \/ listing[a].op = "beq"
  PROVE  IndexReg(BuildCfg(listing), loop) = {"i"}
<1> DEFINE g == BuildCfg(listing)   inds == Inductions(g, loop)
           counters == {a \in inds : g.l[a].r # "p" /\ g.l[a].k = 1}
           ops == {g.l[a].op : a \in Insns(g, loop)}
           first(on, default) == {IF on # {} THEN g.l[Min(on)].r ELSE default}
<1>1. g.l = listing /\ Insns(g, loop) \subseteq DOMAIN listing /\ DOMAIN listing = 1..Len(listing)
  BY Listing, Graph DEF Insns, Addresses
<1>2. /\ i \in N /\ Adding("i") = {i} /\ listing[i].k = 1 /\ d \in S /\ listing[d].op \in Loads
      /\ d \in Insns(g, loop) /\ i \in Insns(g, loop) /\ i \in 1..Len(listing)
  BY <1>1 DEF Walking
<1>3. listing[i].op = "addi" /\ listing[i].r = "i"
  BY <1>2 DEF Adding
<1>4. ASSUME NEW a \in inds PROVE a = i \/ (moving /\ a = p /\ listing[a].r = "p")
  <2>1. a \in DOMAIN listing /\ listing[a].op = "addi" /\ listing[a].r \in {"i", "p"}
    BY <1>1, Listing DEF Inductions
  <2>2. a \in Adding("i") \/ (a \in Adding("p") /\ listing[a].r = "p")
    BY <2>1 DEF Adding
  <2>3. QED BY <1>2, <2>2 DEF Walking
<1>5. i \in inds /\ counters = {i}
  <2>1. i \in inds
    BY <1>1, <1>2, <1>3 DEF Inductions
  <2>2. i \in counters
    BY <1>1, <1>2, <1>3, <2>1
  <2>3. \A a \in counters : a = i
    BY <1>1, <1>4
  <2>4. QED BY <2>1, <2>2, <2>3
<1>6. ops \cap Loads # {}
  BY <1>1, <1>2
<1>7. first(counters, "p") = {"i"}
  <2>1. i \in Int
    BY <1>2, Listing
  <2>2. Min({i}) = i
    BY <2>1, MinOne
  <2>3. g.l[Min(counters)].r = "i"
    BY <1>1, <1>3, <1>5, <2>2
  <2>4. QED BY <1>5, <2>3
<1>8. CASE moving
  <2>1. p \in inds /\ g.l[p].r = "p"
    <3>1. p \in Adding("p") /\ p \in Insns(g, loop)
      BY <1>8 DEF Walking
    <3>2. QED BY <1>1, <3>1 DEF Adding, Inductions
  <2> HIDE DEF inds, counters, ops
  <2>2. QED BY <1>6, <1>7, <2>1 DEF IndexReg, inds, counters, ops
<1>9. CASE ~moving
  <2>1. inds = {i}
    BY <1>4, <1>5, <1>9
  <2>2. ~ \E a \in inds : g.l[a].r = "p"
    BY <1>1, <1>3, <2>1
  <2>3. "add" \in ops
    <3>1. p \in Insns(g, loop) /\ listing[p].op = "add"
      BY <1>9 DEF Walking
    <3>2. QED BY <1>1, <3>1
  <2>4. first(inds, "i") = {"i"}
    BY <1>5, <1>7, <2>1
  <2> HIDE DEF inds, counters, ops
  <2>5. QED BY <1>6, <2>2, <2>3, <2>4 DEF IndexReg, inds, counters, ops
<1>10. QED BY <1>8, <1>9

-----------------------------------------------------------------------------
(* What the forms charge.                                                  *)

\* Only the branches among the addresses matter.
LEMMA CostSame ==
  ASSUME NEW l, Listed(l), NEW on, NEW T, NEW U, \A a \in on : a \in T <=> a \in U
  PROVE  Cost(BuildCfg(l), on, T) = Cost(BuildCfg(l), on, U)
<1> DEFINE C(a) == Charge(l[a], a \in T)   D(a) == Charge(l[a], a \in U)
<1>1. ASSUME NEW a \in on PROVE C(a) = D(a)
  <2>1. CASE a \in T
    <3>1. (a \in T) = TRUE
      BY <2>1
    <3>2. (a \in U) = TRUE
      BY <1>1, <2>1
    <3>3. QED BY <3>1, <3>2, Zenon
  <2>2. CASE a \notin T
    <3>1. (a \in T) = FALSE
      BY <2>2
    <3>2. a \notin U
      BY <1>1, <2>2
    <3>3. (a \in U) = FALSE
      BY <3>2
    <3>4. QED BY <3>1, <3>3, Zenon
  <2>3. QED BY <2>1, <2>2
<1>2. /\ Terms(l, on, T) = [a \in 1..Len(l) |-> IF a \in on THEN C(a) ELSE 0]
      /\ Terms(l, on, U) = [a \in 1..Len(l) |-> IF a \in on THEN D(a) ELSE 0]
  BY Zenon DEF Terms
<1> HIDE DEF C, D
<1>3. Terms(l, on, T) = Terms(l, on, U)
  BY <1>1, <1>2
<1>4. /\ Cost(BuildCfg(l), on, T) = Total(Terms(l, on, T))
      /\ Cost(BuildCfg(l), on, U) = Total(Terms(l, on, U))
  BY CostIs
<1>5. QED BY <1>3, <1>4, Zenon

\* What is charged from x to y.
Spent(l, x, y, T) == Cost(BuildCfg(l), x..y, T)
\* An instruction that is passed, and a branch that is taken.
Passed(l, y) == Charge(l[y], FALSE)
Taken(l, y) == Charge(l[y], TRUE)

\* One instruction more is charged once, as T says.
LEMMA SpentNext ==
  ASSUME NEW l, Listed(l), NEW x \in Nat \ {0}, NEW y \in 1..Len(l), x <= y, NEW T
  PROVE  /\ y \notin T => Spent(l, x, y, T) = Spent(l, x, y - 1, T) + Passed(l, y)
         /\ y \in T => Spent(l, x, y, T) = Spent(l, x, y - 1, T) + Taken(l, y)
<1> DEFINE on == x..(y - 1)
<1>1. x..y = on \cup {y} /\ y \notin on
  OBVIOUS
<1>2. /\ Spent(l, x, y, T) = Cost(BuildCfg(l), on \cup {y}, T)
      /\ Spent(l, x, y - 1, T) = Cost(BuildCfg(l), on, T)
  BY <1>1, Zenon DEF Spent
<1> HIDE DEF on
<1>3. y \notin on
  BY <1>1
<1>4. /\ y \notin T => Cost(BuildCfg(l), on \cup {y}, T) = Cost(BuildCfg(l), on, T) + Charge(l[y], FALSE)
      /\ y \in T => Cost(BuildCfg(l), on \cup {y}, T) = Cost(BuildCfg(l), on, T) + Charge(l[y], TRUE)
  BY <1>3, ChargeOne, Zenon
<1>5. QED BY <1>2, <1>4, Zenon DEF Passed, Taken

\* What is spent is a number, and nothing is spent on no instruction.
LEMMA SpentType ==
  ASSUME NEW l, Listed(l), NEW x \in Int, NEW y \in Int, NEW T
  PROVE  /\ Spent(l, x, y, T) \in Nat /\ Spent(l, x, x - 1, T) = 0
         /\ Passed(l, y) \in Nat /\ Taken(l, y) \in Nat
<1>1. x..(x - 1) = {}
  OBVIOUS
<1>2. Spent(l, x, x - 1, T) = 0
  BY <1>1, CostEmpty, Zenon DEF Spent
<1>3. \A bs : Cost(BuildCfg(l), bs, T) \in Nat
  BY CostLess
<1>4. Passed(l, y) \in Nat /\ Taken(l, y) \in Nat
  BY ChargeType, Zenon DEF Passed, Taken
<1>5. QED BY <1>2, <1>3, <1>4, Zenon DEF Spent

\* Up to the branch at y, which goes the other way.
Agree(l, x, y, T, U) ==
  /\ Listed(l) /\ x \in Nat \ {0} /\ y \in 1..Len(l) /\ x <= y
  /\ \A a \in x..(y - 1) : a \in T <=> a \in U
LEMMA SpentOther ==
  ASSUME NEW l, NEW T, NEW U, NEW x, NEW y, Agree(l, x, y, T, U)
  PROVE  /\ y \notin U => Spent(l, x, y, U) = Spent(l, x, y - 1, T) + Passed(l, y)
         /\ y \in U => Spent(l, x, y, U) = Spent(l, x, y - 1, T) + Taken(l, y)
<1>1. Spent(l, x, y - 1, T) = Spent(l, x, y - 1, U)
  BY CostSame DEF Spent, Agree
<1>2. /\ y \notin U => Spent(l, x, y, U) = Spent(l, x, y - 1, U) + Passed(l, y)
      /\ y \in U => Spent(l, x, y, U) = Spent(l, x, y - 1, U) + Taken(l, y)
  BY SpentNext DEF Agree
<1>3. QED BY <1>1, <1>2, Zenon

\* The bound and the match, when they are what leaves the loop.
TwoExits(g, loop, on, b, c) ==
  /\ b # c /\ LoopBound(g, loop) = {b} /\ ExitBranches(g, loop) = {b, c}
  /\ b \in on /\ c \in on
ExitPair(b, c) == [bound |-> b, match |-> c]
LEMMA ExitsAre ==
  ASSUME NEW g, NEW loop, NEW on, NEW b, NEW c, TwoExits(g, loop, on, b, c)
  PROVE  SearchExits(g, loop, on) = {ExitPair(b, c)}
<1> DEFINE exits == ExitBranches(g, loop) \cap on
           All == [bound : LoopBound(g, loop), match : exits \ LoopBound(g, loop)]
           e == [bound |-> b, match |-> c]
<1>1. b # c /\ LoopBound(g, loop) = {b} /\ ExitBranches(g, loop) = {b, c}
      /\ b \in on /\ c \in on
  BY DEF TwoExits
<1>2. exits = {b, c} /\ exits \ LoopBound(g, loop) = {c}
  BY <1>1
<1>3. Cardinality(exits) = 2
  <2>1. IsFiniteSet({b}) /\ Cardinality({b}) = 1
    BY FS_Singleton
  <2>2. Cardinality({b} \cup {c}) = 2
    BY <1>1, <2>1, FS_AddElement
  <2>3. exits = {b} \cup {c}
    BY <1>2
  <2>4. QED BY <2>2, <2>3
<1>4. All = {e}
  <2>1. \A x \in [bound : {b}, match : {c}] : x = e
    OBVIOUS
  <2>2. e \in [bound : {b}, match : {c}]
    OBVIOUS
  <2>3. All = [bound : {b}, match : {c}]
    BY <1>1, <1>2
  <2>4. QED BY <2>1, <2>2, <2>3
<1>5. SearchExits(g, loop, on) = {x \in All : Cardinality(exits) = 2 /\ x.bound \in exits}
  BY DEF SearchExits
<1> HIDE DEF exits, All
<1>6. QED BY <1>2, <1>3, <1>4, <1>5 DEF ExitPair

\* What is told of the loop when i is its index.
LEMMA FirstExits ==
  ASSUME NEW l, NEW h, NEW m, NEW z, FirstShape(l, h, m, z), l[h].r = "i", l[m].r = "v",
         IndexReg(BuildCfg(l), NaturalLoop(BuildCfg(l), h)) = {"i"}
  PROVE  SearchExits(BuildCfg(l), NaturalLoop(BuildCfg(l), h), h..Len(l)) = {ExitPair(h, m)}
<1> DEFINE g == BuildCfg(l)   x == l[h].to   loop == NaturalLoop(g, h)
<1>1. /\ Listed(l) /\ Len(l) \in Nat /\ DOMAIN l = 1..Len(l) /\ h \in 1..Len(l) /\ m \in 1..Len(l)
      /\ z \in 1..Len(l) /\ h < m /\ m < z /\ Targeting(l) = {h, m, z}
      /\ l[h].op = "beq" /\ l[m].op = "beq" /\ l[z].op = "jal"
      /\ l[m].to = x /\ z < x /\ x \in 1..Len(l)
  <2>1. Listed(l) /\ h \in Targeting(l)
    BY DEF FirstShape
  <2>2. QED BY <2>1, Listing DEF FirstShape
<1>2. /\ loop = {h, h + 1, m + 1} /\ Insns(g, loop) = h..z
      /\ ExitEdges(g, loop) = {<<h, x>>, <<h + 1, x>>}
      /\ g.l = l /\ g.block = Block(l) /\ Addresses(g) = 1..Len(l)
  <2>1. /\ loop = {h, h + 1, m + 1} /\ Insns(g, loop) = h..z
        /\ ExitEdges(g, loop) = {<<h, x>>, <<h + 1, x>>}
    <3>1. FirstLooped(l, h, m, z)
      BY FirstLoop
    <3>2. QED BY <3>1 DEF FirstLooped
  <2>2. g.l = l /\ g.block = Block(l) /\ Addresses(g) = 1..Len(l)
    BY <1>1, Graph DEF Addresses
  <2>3. QED BY <2>1, <2>2
<1>3. /\ \A a \in DOMAIN l : /\ Block(l)[a] = h <=> a \in h..h
                             /\ Block(l)[a] = h + 1 <=> a \in (h + 1)..m
  BY FirstBlocks
<1>4. Conditionals(g) = {h, m}
  <2>1. \A a \in 1..Len(l) : l[a].op \in Conditional => a \in Targeting(l)
    BY <1>1 DEF Targeting, Branching, Conditional
  <2>2. \A a \in 1..Len(l) : l[a].op \in Conditional <=> a \in {h, m}
    BY <1>1, <2>1 DEF Conditional
  <2>3. {h, m} \subseteq 1..Len(l)
    BY <1>1
  <2>4. QED BY <1>2, <2>2, <2>3 DEF Conditionals
<1>5. {e[1] : e \in ExitEdges(g, loop)} = {h, h + 1}
  <2> DEFINE u == <<h, x>>   v == <<h + 1, x>>
  <2>1. u[1] = h /\ v[1] = h + 1 /\ ExitEdges(g, loop) = {u, v}
    BY <1>2
  <2> HIDE DEF u, v
  <2>2. QED BY <2>1
<1>6. Insns(g, {h, h + 1}) = h..m
  <2>1. \A a \in 1..Len(l) : Block(l)[a] \in {h, h + 1} <=> a \in h..m
    BY <1>1, <1>3
  <2>2. QED BY <1>1, <1>2, <2>1 DEF Insns
<1> HIDE DEF loop, g, x
<1>7. LoopBound(g, loop) = {h}
  <2> DEFINE bounding == {a \in Insns(g, {h, h + 1}) \cap Conditionals(g) : g.l[a].r \in IndexReg(g, loop)}
  <2>1. bounding = {h}
    <3>1. Insns(g, {h, h + 1}) \cap Conditionals(g) = {h, m}
      BY <1>1, <1>4, <1>6
    <3>2. IndexReg(g, loop) = {"i"}
      BY DEF g, loop
    <3>3. QED BY <1>2, <3>1, <3>2
  <2>2. LoopBound(g, loop) = {a \in bounding : a = Min(bounding)}
    BY <1>5, Zenon DEF LoopBound
  <2> HIDE DEF bounding
  <2>3. Min({h}) = h
    BY <1>1, MinOne
  <2>4. QED BY <2>1, <2>2, <2>3
<1>8. ExitBranches(g, loop) = {h, m}
  <2>1. Insns(g, loop) \cap Conditionals(g) = {h, m}
    BY <1>1, <1>2, <1>4
  <2>2. l[h].to \notin loop /\ l[m].to \notin loop
    BY <1>1, <1>2 DEF x
  <2>3. QED BY <1>2, <2>1, <2>2 DEF ExitBranches
<1>9. h # m /\ h \in h..Len(l) /\ m \in h..Len(l)
  BY <1>1
<1>10. SearchExits(g, loop, h..Len(l)) = {ExitPair(h, m)}
  <2> DEFINE on == h..Len(l)
  <2>1. h \in on /\ m \in on
    BY <1>9
  <2> HIDE DEF on
  <2>2. SearchExits(g, loop, on) = {ExitPair(h, m)}
    <3>1. TwoExits(g, loop, on, h, m)
      BY <1>7, <1>8, <1>9, <2>1 DEF TwoExits
    <3>2. QED BY <3>1, ExitsAre
  <2>3. QED BY <2>2 DEF on
<1>11. QED BY <1>10 DEF g, loop

\* The form of such a search.
FirstForm(l, h, m, z) ==
  [setup |-> Spent(l, 1, h - 1, {z}), body |-> Spent(l, h, z, {z}),
   shutdown |-> StraightlineFrom(BuildCfg(l), l[h].to),
   found |-> Spent(l, h, m - 1, {z}) + Taken(l, m), notfound |-> Taken(l, h)]

\* The lifter finds that form, and only that one.
LEMMA FirstFormIs ==
  ASSUME NEW l, NEW h, NEW m, NEW z, FirstShape(l, h, m, z), l[h].r = "i", l[m].r = "v",
         IndexReg(BuildCfg(l), NaturalLoop(BuildCfg(l), h)) = {"i"}
  PROVE  LiftResult(BuildCfg(l)).search = {FirstForm(l, h, m, z)}
<1> DEFINE g == BuildCfg(l)   x == l[h].to   loop == NaturalLoop(g, h)
<1>1. /\ Listed(l) /\ Len(l) \in Nat /\ DOMAIN l = 1..Len(l) /\ h \in 1..Len(l) /\ m \in 1..Len(l)
      /\ z \in 1..Len(l) /\ h < m /\ m < z /\ x \in 1..Len(l)
  <2>1. Listed(l) /\ h \in Targeting(l)
    BY DEF FirstShape
  <2>2. QED BY <2>1, Listing DEF FirstShape
<1>2. /\ LoopHeaders(g) = {h} /\ Insns(g, loop) = h..z /\ Into(g, loop) = {z}
      /\ ExitEdges(g, loop) = {<<h, x>>, <<h + 1, x>>} /\ g.l = l
  <2>1. /\ LoopHeaders(g) = {h} /\ Insns(g, loop) = h..z /\ Into(g, loop) = {z}
        /\ ExitEdges(g, loop) = {<<h, x>>, <<h + 1, x>>}
    <3>1. FirstLooped(l, h, m, z)
      BY FirstLoop
    <3>2. QED BY <3>1 DEF FirstLooped
  <2>2. QED BY <2>1, Graph
<1>3. SearchExits(g, loop, h..Len(l)) = {ExitPair(h, m)}
  BY FirstExits
<1>4. Setup(g, h, loop) = Spent(l, 1, h - 1, {z}) /\ Body(g, loop) = Spent(l, h, z, {z})
  BY <1>2, Zenon DEF Setup, Body, Spent
<1> HIDE DEF loop, x
<1>5. Shutdown(g, loop) = StraightlineFrom(g, x)
  <2>1. {e[2] : e \in ExitEdges(g, loop)} = {x}
    BY <1>2
  <2>2. Cardinality({x}) = 1
    BY FS_Singleton
  <2>3. x \in Int
    BY <1>1
  <2>4. Min({x}) = x
    BY <2>3, MinOne
  <2>5. QED BY <2>1, <2>2, <2>4, Zenon DEF Shutdown
<1>6. /\ PartialTo(g, h, loop, m) = Spent(l, h, m, {z, m})
      /\ PartialTo(g, h, loop, h) = Spent(l, h, h, {z, h})
  <2>1. Flip({z}, m) = {z, m} /\ Flip({z}, h) = {z, h}
    BY <1>1 DEF Flip
  <2>2. {b \in h..z : h <= b /\ b <= m} = h..m /\ {b \in h..z : h <= b /\ b <= h} = h..h
    BY <1>1
  <2>3. QED BY <1>2, <2>1, <2>2, Zenon DEF PartialTo, Spent
<1>7. Spent(l, h, m, {z, m}) = Spent(l, h, m - 1, {z}) + Taken(l, m)
  <2> DEFINE T == {z}   U == {z, m}
  <2>1. Agree(l, h, m, T, U) /\ m \in U
    BY <1>1 DEF Agree
  <2> HIDE DEF T, U
  <2>2. Spent(l, h, m, U) = Spent(l, h, m - 1, T) + Taken(l, m)
    BY <2>1, SpentOther
  <2>3. QED BY <2>2 DEF T, U
<1>8. Spent(l, h, h, {z, h}) = Taken(l, h)
  <2> DEFINE U == {z, h}
  <2>1. h \in Nat \ {0} /\ h <= h /\ h \in U /\ h \in Int
    BY <1>1
  <2> HIDE DEF U
  <2>2. Spent(l, h, h, U) = Spent(l, h, h - 1, U) + Taken(l, h)
    BY <1>1, <2>1, SpentNext
  <2>3. Spent(l, h, h - 1, U) = 0 /\ Taken(l, h) \in Nat
    BY <1>1, <2>1, SpentType
  <2>4. Spent(l, h, h, U) = Taken(l, h)
    BY <2>2, <2>3
  <2>5. QED BY <2>4 DEF U
<1>9. SearchForm(g, h) = {FirstForm(l, h, m, z)}
  <2> DEFINE e == ExitPair(h, m)
  <2>1. Len(g.l) = Len(l) /\ e.bound = h /\ e.match = m
    BY <1>2 DEF ExitPair
  <2>2. SearchForm(g, h) =
          {[setup |-> Setup(g, h, loop), body |-> Body(g, loop), shutdown |-> Shutdown(g, loop),
            found |-> PartialTo(g, h, loop, q.match), notfound |-> PartialTo(g, h, loop, q.bound)] :
             q \in SearchExits(g, loop, h..Len(l))}
    BY <2>1, Zenon DEF SearchForm, loop
  <2> HIDE DEF e
  <2>3. SearchExits(g, loop, h..Len(l)) = {e}
    BY <1>3 DEF e, loop
  <2>4. SearchForm(g, h) =
          {[setup |-> Setup(g, h, loop), body |-> Body(g, loop), shutdown |-> Shutdown(g, loop),
            found |-> PartialTo(g, h, loop, m), notfound |-> PartialTo(g, h, loop, h)]}
    BY <2>1, <2>2, <2>3
  <2>5. QED BY <1>4, <1>5, <1>6, <1>7, <1>8, <2>4, Zenon DEF FirstForm, loop, x
<1>10. LiftResult(g).search = UNION {SearchForm(g, k) : k \in LoopHeaders(g)}
  BY Zenon DEF LiftResult
<1>11. QED BY <1>2, <1>9, <1>10

-----------------------------------------------------------------------------
(* What an instruction does to the registers, when all have a price.       *)

\* What an instruction that is no branch leaves in the registers.
Computed ==
  LET ins == listing[pc]
  IN  /\ reg'.i = IF ins.op = "addi" /\ ins.r = "i" THEN Wrap(reg.i + ins.k) ELSE reg.i
      /\ reg'.p = IF ins.op = "addi" /\ ins.r = "p" THEN Wrap(reg.p + ins.k)
                  ELSE IF ins.op = "add" THEN reg.i ELSE reg.p
      /\ IF ins.op \in Loads THEN reg'.v <=> reg.p = args.hit ELSE reg'.v = reg.v

\* Arithmetic and loads do that: all have a price, so all have a meaning.
LEMMA Computes ==
  ASSUME IInv, Arithmetic \/ Load
  PROVE  Computed
<1>1. /\ reg \in [i : 0..(Word - 1), p : 0..(Word - 1), v : BOOLEAN] /\ Listed(listing)
      /\ pc \in DOMAIN listing
  BY DEF IInv, TypeOK, Known
<1> DEFINE op == listing[pc].op   r == listing[pc].r   k == listing[pc].k
<1>2. CASE Arithmetic
  <2>1. /\ op \notin Loads
        /\ reg' = IF op = "addi" /\ r # "x" THEN [reg EXCEPT ![r] = Wrap(reg[r] + k)]
                  ELSE IF op = "add" THEN [reg EXCEPT !.p = reg.i]
                  ELSE reg
    BY <1>2 DEF Arithmetic
  <2>2. op = "addi" => r \in {"x", "i", "p"}
    BY <1>1, Listing
  <2> DEFINE w == Wrap(reg[r] + k)
  <2>3. CASE op = "addi" /\ r = "i"
    <3>1. reg' = [reg EXCEPT !.i = w]
      BY <2>1, <2>3
    <3>2. w = Wrap(reg.i + k)
      BY <2>3
    <3> HIDE DEF w
    <3>3. reg'.i = w /\ reg'.p = reg.p /\ reg'.v = reg.v
      BY <1>1, <3>1
    <3>4. QED BY <2>1, <2>3, <3>2, <3>3 DEF Computed
  <2>4. CASE op = "addi" /\ r = "p"
    <3>1. reg' = [reg EXCEPT !.p = w]
      BY <2>1, <2>4
    <3>2. w = Wrap(reg.p + k)
      BY <2>4
    <3> HIDE DEF w
    <3>3. reg'.p = w /\ reg'.i = reg.i /\ reg'.v = reg.v
      BY <1>1, <3>1
    <3>4. QED BY <2>1, <2>4, <3>2, <3>3 DEF Computed
  <2>5. CASE op = "addi" /\ r = "x"
    <3>1. reg' = reg
      BY <2>1, <2>5
    <3>2. QED BY <2>1, <2>5, <3>1 DEF Computed
  <2>6. CASE op = "add"
    <3>1. reg' = [reg EXCEPT !.p = reg.i]
      BY <2>1, <2>6
    <3>2. reg'.p = reg.i /\ reg'.i = reg.i /\ reg'.v = reg.v
      BY <1>1, <3>1
    <3>3. QED BY <2>1, <2>6, <3>2 DEF Computed
  <2>7. CASE op \notin {"addi", "add"}
    <3>1. reg' = reg
      BY <2>1, <2>7
    <3>2. QED BY <2>1, <2>7, <3>1 DEF Computed
  <2>8. QED BY <2>2, <2>3, <2>4, <2>5, <2>6, <2>7
<1>3. CASE Load
  <2>1. op = "lw" /\ reg' = [reg EXCEPT !.v = (reg.p = args.hit)]
    BY <1>3 DEF Load, Loads
  <2>2. reg'.i = reg.i /\ reg'.p = reg.p /\ (reg'.v <=> reg.p = args.hit)
    BY <1>1, <2>1
  <2>3. QED BY <2>1, <2>2 DEF Computed, Loads
<1>4. QED BY <1>2, <1>3

\* One step: nothing is executed, or the instruction at pc is passed or taken.
Idles == UNCHANGED <<pc, reg, cyc>> /\ (run' = "returned" <=> run = "returned")
Passes == run' = "running" /\ pc' = pc + 1 /\ cyc' = cyc + Passed(listing, pc)
Jumps == run' = "running" /\ pc' = listing[pc].to /\ cyc' = cyc + Taken(listing, pc)
Meets(r) == IF r = "i" THEN reg.i = args.limit ELSE IF r = "v" THEN reg.v ELSE args.limit = 0
Branches ==
  LET ins == listing[pc]
      known == ins.r \in {"i", "v", "len"}
  IN  /\ ins.op \in Conditional /\ reg' = reg
      /\ \/ Jumps /\ (known => (Meets(ins.r) <=> ins.op = "beq"))
         \/ Passes /\ (known => (Meets(ins.r) <=> ins.op # "beq"))
Executed ==
  \/ pc \notin Branching(listing) /\ Passes /\ Computed
  \/ Branches
  \/ listing[pc].op = "jal" /\ Jumps /\ reg' = reg
  \/ listing[pc].op = "jalr" /\ run' = "returned" /\ pc' = pc /\ cyc' = cyc + Passed(listing, pc)

\* A step idles or executes the instruction at pc.
LEMMA Instruction ==
  ASSUME IInv, [Next]_vars, \A a \in DOMAIN listing : Priced(listing[a])
  PROVE  /\ UNCHANGED <<listing, args>>
         /\ Idles \/ (Running /\ Executed)
<1> DEFINE ins == listing[pc]
<1>1. /\ reg \in [i : 0..(Word - 1), p : 0..(Word - 1), v : BOOLEAN] /\ pc \in DOMAIN listing
      /\ Priced(ins)
  BY DEF IInv, TypeOK
<1>2. /\ Passed(listing, pc) = Cycles(ins.op, FALSE) /\ Taken(listing, pc) = Cycles(ins.op, TRUE)
  BY <1>1, Zenon DEF Passed, Taken, Charge
<1>3. UNCHANGED <<listing, args>>
  BY Steps DEF Goto
<1>4. CASE UNCHANGED vars
  BY <1>4 DEF vars, Idles
<1>5. CASE Lift \/ LiftRefused \/ UseDerived
  BY <1>5 DEF Lift, LiftRefused, UseDerived, Idles
<1>6. CASE run = "lifted" /\ \E text \in Texts(SkeletonPlan(lifted.cfg)) : CompleteSkeleton(text)
  BY <1>6 DEF CompleteSkeleton, Idles
<1>7. CASE Arithmetic \/ Load
  <2>1. /\ ins.op \notin Conditional \cup {"jal", "jalr"} /\ Goto(pc + 1, FALSE) /\ run' = run
    BY <1>7 DEF Arithmetic, Load, Loads, Conditional
  <2>2. Running /\ run' = "running" /\ pc' = pc + 1 /\ cyc' = cyc + Cycles(ins.op, FALSE)
    BY <2>1, Zenon DEF Goto, Running
  <2>3. Passes
    BY <1>2, <2>2, Zenon DEF Passes
  <2>4. pc \notin Branching(listing) /\ Computed
    BY <1>7, <2>1, Computes DEF Branching
  <2>5. QED BY <1>3, <2>2, <2>3, <2>4 DEF Executed
<1>8. CASE Branch
  <2>1. PICK equal \in Compares(ins.r) :
          /\ ins.op \in Conditional /\ UNCHANGED <<reg, run>>
          /\ Goto(IF equal = (ins.op = "beq") THEN ins.to ELSE pc + 1, equal = (ins.op = "beq"))
    BY <1>8, Zenon DEF Branch
  <2> DEFINE taken == equal = (ins.op = "beq")   known == ins.r \in {"i", "v", "len"}
  <2>2. Goto(IF taken THEN ins.to ELSE pc + 1, taken) /\ run = "running" /\ run' = "running"
    BY <2>1, Zenon DEF Goto
  <2>3. known => equal = Meets(ins.r)
    <3>1. /\ Compares("i") = {reg.i = args.limit} /\ Compares("v") = {reg.v}
          /\ Compares("len") = {args.limit = 0}
      BY Zenon DEF Compares
    <3>2. ASSUME ins.r = "i" PROVE equal = Meets(ins.r)
      BY <2>1, <3>1, <3>2, Zenon DEF Meets
    <3>3. ASSUME ins.r = "v" PROVE equal = Meets(ins.r)
      <4>1. ins.r # "i"
        BY <3>3
      <4>2. QED BY <2>1, <3>1, <3>3, <4>1, Zenon DEF Meets
    <3>4. ASSUME ins.r = "len" PROVE equal = Meets(ins.r)
      <4>1. ins.r # "i" /\ ins.r # "v"
        BY <3>4
      <4>2. QED BY <2>1, <3>1, <3>4, <4>1, Zenon DEF Meets
    <3>5. QED BY <3>2, <3>3, <3>4
  <2>4. known => Meets(ins.r) \in BOOLEAN
    BY <1>1 DEF Meets
  <2>5. CASE taken
    <3>1. taken = TRUE
      BY <2>5
    <3>2. pc' = ins.to /\ cyc' = cyc + Cycles(ins.op, TRUE)
      BY <2>2, <3>1, Zenon DEF Goto
    <3>3. Jumps
      BY <1>2, <2>2, <3>2, Zenon DEF Jumps
    <3>4. known => (Meets(ins.r) <=> ins.op = "beq")
      BY <2>3, <2>4, <2>5, Zenon
    <3>5. QED BY <1>3, <2>1, <2>2, <3>3, <3>4 DEF Executed, Branches, Running
  <2>6. CASE ~taken
    <3>1. taken = FALSE
      BY <2>6
    <3>2. pc' = pc + 1 /\ cyc' = cyc + Cycles(ins.op, FALSE)
      BY <2>2, <3>1, Zenon DEF Goto
    <3>3. Passes
      BY <1>2, <2>2, <3>2, Zenon DEF Passes
    <3>4. known => (Meets(ins.r) <=> ins.op # "beq")
      BY <2>3, <2>4, <2>6, Zenon
    <3>5. QED BY <1>3, <2>1, <2>2, <3>3, <3>4 DEF Executed, Branches, Running
  <2>7. QED BY <2>5, <2>6
<1>9. CASE Jump
  <2>1. ins.op = "jal" /\ Goto(ins.to, TRUE) /\ reg' = reg /\ run' = run
    BY <1>9 DEF Jump
  <2>2. Running /\ Jumps
    BY <1>2, <2>1, Zenon DEF Goto, Running, Jumps
  <2>3. QED BY <1>3, <2>1, <2>2 DEF Executed
<1>10. CASE Return
  <2>1. ins.op = "jalr" /\ Goto(pc, TRUE) /\ run' = "returned"
    BY <1>10 DEF Return
  <2>2. Cycles("jalr", TRUE) = Cycles("jalr", FALSE)
    <3>1. Waits("jalr", TRUE) = "inst" /\ Waits("jalr", FALSE) = "inst"
      BY DEF Waits, Loads, Stores
    <3>2. Fixed("jalr", TRUE) = Fixed("jalr", FALSE)
      BY <3>1 DEF Fixed
    <3>3. QED BY <3>1, <3>2, Zenon DEF Cycles
  <2>3. Running /\ pc' = pc /\ cyc' = cyc + Passed(listing, pc)
    BY <1>2, <2>1, <2>2, Zenon DEF Goto, Running
  <2>4. QED BY <1>3, <2>1, <2>3 DEF Executed
<1>11. QED BY <1>4, <1>5, <1>6, <1>7, <1>8, <1>9, <1>10 DEF Next

-----------------------------------------------------------------------------
(* The registers in round n, of which the addresses in done are executed.  *)

\* i counts the rounds, p points where i does, and v holds the last comparison.
Walked(i, d, p, moving, n, done, g) ==
  /\ g.i = IF i \in done THEN n + 1 ELSE n
  /\ moving => g.p = IF p \in done THEN n + 1 ELSE n
  /\ ~moving /\ p \in done => g.p = n
  /\ d \in done => (g.v <=> n = args.hit)
\* So it is, however the round walks.
Held(S, N, n, done, g) ==
  \A i \in N, d \in S, p \in S \cup N : \A moving \in BOOLEAN :
    Walking(S, N, i, d, p, moving) => Walked(i, d, p, moving, n, done, g)

\* a is next: of S all that is before it has been executed, of N nothing before S.
InTurn(S, N, a, done) ==
  /\ a \in S \cup N /\ a \notin done
  /\ a \in S => done \cap N = {} /\ \A b \in S : b \in done <=> b < a

\* An address of the round is executed.
LEMMA WalkedNext ==
  ASSUME IInv, NEW S, NEW N, NEW i \in N, NEW d \in S, NEW p \in S \cup N, NEW moving \in BOOLEAN,
         NEW n \in Nat, NEW done,
         Walking(S, N, i, d, p, moving), Walked(i, d, p, moving, n, done, reg),
         InTurn(S, N, pc, done), n < args.limit, S \cup N \subseteq DOMAIN listing,
         Computed \/ (reg' = reg /\ pc \in Branching(listing))
  PROVE  Walked(i, d, p, moving, n, done \cup {pc}, reg')
<1> DEFINE l == listing   op == l[pc].op   r == l[pc].r
<1>1. /\ Listed(l) /\ Word \in Nat \ {0} /\ args.limit \in Nat /\ args.limit < Word /\ DOMAIN l = 1..Len(l)
      /\ Len(l) \in Nat /\ i \in 1..Len(l) /\ d \in 1..Len(l) /\ p \in 1..Len(l) /\ pc \in 1..Len(l)
  BY LifterConstants, Listing, SMTT(30) DEF IInv, Known, Walking, InTurn
<1>2. /\ pc \notin done /\ pc \in S \cup N
      /\ pc \in S => i \notin done /\ (p \in N => p \notin done) /\ \A b \in S : b \in done <=> b < pc
  BY DEF InTurn
<1>3. /\ op = "addi" /\ r = "i" <=> pc = i
      /\ l[i].k = 1
  BY <1>1 DEF Walking, Adding
<1>4. op \in Loads <=> pc = d
  BY <1>1, <1>2 DEF Walking
<1>5. moving => /\ op # "add" /\ (op = "addi" /\ r = "p" <=> pc = p) /\ l[p].k = 1
                /\ (p \in N \/ d < p)
  BY <1>1, <1>2 DEF Walking, Adding
<1>6. ~moving => /\ op = "add" <=> pc = p
                 /\ ~(op = "addi" /\ r = "p") /\ p \in S /\ p < d
  BY <1>1, <1>2 DEF Walking, Adding
<1>7. /\ reg.i = IF i \in done THEN n + 1 ELSE n
      /\ moving => reg.p = IF p \in done THEN n + 1 ELSE n
      /\ ~moving /\ p \in done => reg.p = n
      /\ d \in done => (reg.v <=> n = args.hit)
  BY DEF Walked
<1>8. Wrap(n + 1) = n + 1
  BY <1>1, SMTT(30) DEF Wrap
<1>9. CASE reg' = reg /\ pc \in Branching(listing)
  <2>1. op \in Conditional \cup {"jal", "jalr"}
    BY <1>9 DEF Branching
  <2>2. pc # i /\ pc # d /\ (moving => pc # p) /\ (~moving => pc # p)
    BY <1>3, <1>4, <1>5, <1>6, <2>1 DEF Conditional, Loads
  <2>3. QED BY <1>7, <1>9, <2>2 DEF Walked
<1>10. CASE Computed
  <2>1. /\ reg'.i = IF op = "addi" /\ r = "i" THEN Wrap(reg.i + l[pc].k) ELSE reg.i
        /\ reg'.p = IF op = "addi" /\ r = "p" THEN Wrap(reg.p + l[pc].k)
                    ELSE IF op = "add" THEN reg.i ELSE reg.p
        /\ op \in Loads => (reg'.v <=> reg.p = args.hit)
        /\ op \notin Loads => reg'.v = reg.v
    BY <1>10 DEF Computed
  <2> HIDE DEF l, op, r
  <2>2. reg'.i = IF i \in done \cup {pc} THEN n + 1 ELSE n
    <3>1. CASE pc = i
      BY <1>2, <1>3, <1>7, <1>8, <2>1, <3>1
    <3>2. CASE pc # i
      BY <1>3, <1>7, <2>1, <3>2
    <3>3. QED BY <3>1, <3>2
  <2>3. ASSUME moving PROVE reg'.p = IF p \in done \cup {pc} THEN n + 1 ELSE n
    <3>1. CASE pc = p
      BY <1>2, <1>5, <1>7, <1>8, <2>1, <2>3, <3>1
    <3>2. CASE pc # p
      BY <1>5, <1>7, <2>1, <2>3, <3>2
    <3>3. QED BY <3>1, <3>2
  <2>4. ASSUME ~moving, p \in done \cup {pc} PROVE reg'.p = n
    <3>1. CASE pc = p
      BY <1>2, <1>6, <1>7, <2>1, <2>4, <3>1
    <3>2. CASE pc # p
      BY <1>6, <1>7, <2>1, <2>4, <3>2
    <3>3. QED BY <3>1, <3>2
  <2>5. ASSUME d \in done \cup {pc} PROVE reg'.v <=> n = args.hit
    <3>1. CASE pc = d
      <4>1. reg'.v <=> reg.p = args.hit
        BY <1>4, <2>1, <3>1
      <4>2. reg.p = n
        <5>1. CASE moving
          <6>1. p \notin done
            BY <1>1, <1>2, <1>5, <3>1, <5>1
          <6>2. QED BY <1>7, <5>1, <6>1
        <5>2. CASE ~moving
          BY <1>2, <1>6, <1>7, <3>1, <5>2
        <5>3. QED BY <5>1, <5>2
      <4>3. QED BY <4>1, <4>2
    <3>2. CASE pc # d
      BY <1>4, <1>7, <2>1, <2>5, <3>2
    <3>3. QED BY <3>1, <3>2
  <2>6. QED BY <2>2, <2>3, <2>4, <2>5 DEF Walked
<1>11. QED BY <1>9, <1>10


\* The registers stay right over the instruction whose turn it is.
LEMMA HeldNext ==
  ASSUME IInv, NEW S, NEW N, NEW n \in Nat, NEW done, Held(S, N, n, done, reg),
         InTurn(S, N, pc, done), n < args.limit, S \cup N \subseteq DOMAIN listing,
         Computed \/ (reg' = reg /\ pc \in Branching(listing))
  PROVE  Held(S, N, n, done \cup {pc}, reg')
<1> SUFFICES ASSUME NEW i \in N, NEW d \in S, NEW p \in S \cup N, NEW moving \in BOOLEAN,
                    Walking(S, N, i, d, p, moving)
             PROVE  Walked(i, d, p, moving, n, done \cup {pc}, reg')
  BY DEF Held
<1>1. Walked(i, d, p, moving, n, done, reg)
  BY DEF Held
<1>2. QED BY <1>1, WalkedNext

\* A round is complete.
LEMMA HeldRound ==
  ASSUME NEW S, NEW N, NEW n \in Nat, NEW g, Held(S, N, n, S \cup N, g)
  PROVE  Held(S, N, n + 1, {}, g)
<1> SUFFICES ASSUME NEW i \in N, NEW d \in S, NEW p \in S \cup N, NEW moving \in BOOLEAN,
                    Walking(S, N, i, d, p, moving)
             PROVE  Walked(i, d, p, moving, n + 1, {}, g)
  BY DEF Held
<1>1. Walked(i, d, p, moving, n, S \cup N, g)
  BY DEF Held
<1>2. QED BY <1>1 DEF Walked

\* Before the first round.
LEMMA HeldBefore ==
  ASSUME IInv, NEW S, NEW N, Held(S, N, 0, {}, reg), pc \notin S \cup N,
         Computed \/ reg' = reg
  PROVE  Held(S, N, 0, {}, reg')
<1> SUFFICES ASSUME NEW i \in N, NEW d \in S, NEW p \in S \cup N, NEW moving \in BOOLEAN,
                    Walking(S, N, i, d, p, moving)
             PROVE  Walked(i, d, p, moving, 0, {}, reg')
  BY DEF Held
<1> DEFINE op == listing[pc].op   r == listing[pc].r
<1>1. reg.i = 0 /\ (moving => reg.p = 0)
  <2>1. Walked(i, d, p, moving, 0, {}, reg)
    BY DEF Held
  <2>2. QED BY <2>1 DEF Walked
<1>2. ~(op = "addi" /\ r = "i") /\ (moving => ~(op = "addi" /\ r = "p"))
  <2>1. pc \in DOMAIN listing /\ pc # i /\ pc # p
    BY DEF IInv, TypeOK
  <2>2. QED BY <2>1 DEF Walking, Adding
<1>3. reg'.i = 0 /\ (moving => reg'.p = 0)
  <2>1. CASE reg' = reg
    BY <1>1, <2>1
  <2>2. CASE Computed
    BY <1>1, <1>2, <2>2 DEF Computed
  <2>3. QED BY <2>1, <2>2
<1>4. QED BY <1>3 DEF Walked

\* Before the first round nothing is counted.
LEMMA HeldInit ==
  ASSUME Init, NEW S, NEW N
  PROVE  Held(S, N, 0, {}, reg)
<1> SUFFICES ASSUME NEW i \in N, NEW d \in S, NEW p \in S \cup N, NEW moving \in BOOLEAN,
                    Walking(S, N, i, d, p, moving)
             PROVE  Walked(i, d, p, moving, 0, {}, reg)
  BY DEF Held
<1>1. reg.i = 0 /\ reg.p = 0
  BY DEF Init, Walking
<1>2. QED BY <1>1 DEF Walked

\* What a complete search of a round tells: v says whether the key is there.
LEMMA HeldTests ==
  ASSUME NEW S, NEW N, Walks(S, N), NEW n \in Nat, NEW done, NEW g, Held(S, N, n, done, g)
  PROVE  /\ S \subseteq done => (g.v <=> n = args.hit)
         /\ done \cap N = {} => g.i = n
         /\ N \subseteq done => g.i = n + 1
<1>1. PICK i \in N, d \in S, p \in S \cup N, moving \in BOOLEAN : Walking(S, N, i, d, p, moving)
  BY WalksWith
<1>2. Walked(i, d, p, moving, n, done, g)
  BY <1>1 DEF Held
<1>3. QED BY <1>2 DEF Walked

-----------------------------------------------------------------------------
(* Behind the loop: straight on to the first return.                       *)

\* A set of numbers has a least.
LEMMA MinOf ==
  ASSUME NEW S \in SUBSET Nat, S # {}
  PROVE  Min(S) \in S /\ \A y \in S : Min(S) <= y
<1>1. PICK m \in S : \A k \in S : <<k, m>> \notin OpToRel(<, Nat)
  BY NatLessThanWellFounded, WFMin
<1>2. \A k \in S : ~(k < m)
  BY <1>1 DEF OpToRel
<1>3. \A k \in S : m <= k
  BY <1>2
<1>4. QED BY <1>3 DEF Min

\* The first return behind x, and what lies behind all branches.
FirstReturn(l, x) == Min({r \in x..Len(l) : l[r].op = "jalr"})
Behind(l, x) == Listed(l) /\ x \in 1..Len(l) /\ \A a \in Targeting(l) : a < x

\* There is one, and what the form adds for the way out ends with it.
LEMMA FirstReturnIs ==
  ASSUME NEW l, NEW x, Behind(l, x)
  PROVE  /\ FirstReturn(l, x) \in x..Len(l) /\ l[FirstReturn(l, x)].op = "jalr"
         /\ \A a \in x..Len(l) : l[a].op = "jalr" => FirstReturn(l, x) <= a
         /\ StraightlineFrom(BuildCfg(l), x) = Spent(l, x, FirstReturn(l, x), {})
<1> DEFINE rets == {r \in x..Len(l) : l[r].op = "jalr"}
<1>1. Len(l) \in Nat \ {0} /\ DOMAIN l = 1..Len(l) /\ l[Len(l)].op \in {"jal", "jalr"} /\ x \in 1..Len(l)
  BY Listing DEF Behind
<1>2. l[Len(l)].op # "jal"
  <2>1. ASSUME l[Len(l)].op = "jal" PROVE Len(l) \in Targeting(l)
    BY <1>1, <2>1 DEF Targeting, Branching
  <2>2. ~(Len(l) < x)
    BY <1>1
  <2>3. QED BY <2>1, <2>2 DEF Behind
<1>3. Len(l) \in rets /\ rets \in SUBSET Nat
  BY <1>1, <1>2
<1>4. Min(rets) \in rets /\ \A a \in rets : Min(rets) <= a
  BY <1>3, MinOf
<1>5. FirstReturn(l, x) = Min(rets)
  BY Zenon DEF FirstReturn
<1>6. StraightlineFrom(BuildCfg(l), x) = Cost(BuildCfg(l), x..Min(rets), {})
  <2>1. BuildCfg(l).l = l
    BY <1>1, Graph DEF Behind
  <2>2. rets # {}
    BY <1>3
  <2>3. QED BY <2>1, <2>2, Zenon DEF StraightlineFrom
<1> HIDE DEF rets
<1>7. StraightlineFrom(BuildCfg(l), x) = Spent(l, x, FirstReturn(l, x), {})
  BY <1>5, <1>6, Zenon DEF Spent
<1>8. QED BY <1>4, <1>5, <1>7 DEF rets

\* t cycles were taken up to x.
Leaving(l, x, t, r, a, c) ==
  /\ Behind(l, x) /\ t \in Nat
  /\ \/ r # "returned" /\ a \in x..FirstReturn(l, x) /\ c = t + Spent(l, x, a - 1, {})
     \/ r = "returned" /\ c = t + StraightlineFrom(BuildCfg(l), x)

\* The tail begins with what was spent before it.
LEMMA LeavingFirst ==
  ASSUME NEW l, NEW x, Behind(l, x), NEW t \in Nat, NEW r, r # "returned"
  PROVE  Leaving(l, x, t, r, x, t)
<1>1. x \in x..FirstReturn(l, x)
  BY FirstReturnIs DEF Behind
<1>2. Spent(l, x, x - 1, {}) = 0
  <2>1. x \in Int /\ Listed(l)
    BY DEF Behind
  <2>2. QED BY <2>1, SpentType
<1>3. t = t + Spent(l, x, x - 1, {})
  BY <1>2
<1>4. QED BY <1>1, <1>3 DEF Leaving

\* A step in the tail charges what it executes, up to the return.
LEMMA LeavingNext ==
  ASSUME IInv, [Next]_vars, \A a \in DOMAIN listing : Priced(listing[a]),
         NEW x, NEW t, Leaving(listing, x, t, run, pc, cyc)
  PROVE  Leaving(listing, x, t, run', pc', cyc')
<1> DEFINE l == listing
<1>1. /\ Behind(l, x) /\ Listed(l) /\ t \in Nat /\ x \in Nat \ {0} /\ x \in 1..Len(l)
      /\ Len(l) \in Nat /\ DOMAIN l = 1..Len(l)
  BY Listing DEF Leaving, Behind
<1>2. CASE Idles
  BY <1>2 DEF Idles, Leaving
<1>3. CASE Running /\ Executed
  <2>1. pc \in x..FirstReturn(l, x) /\ cyc = t + Spent(l, x, pc - 1, {}) /\ FirstReturn(l, x) \in x..Len(l)
    BY <1>1, <1>3, FirstReturnIs DEF Leaving, Running
  <2>2. pc \in 1..Len(l) /\ x <= pc /\ pc \in Int
    BY <1>1, <2>1
  <2>3. pc \notin Targeting(l)
    BY <1>1, <2>2 DEF Behind
  <2>4. l[pc].op \notin Conditional /\ l[pc].op # "jal"
    BY <1>1, <2>2, <2>3 DEF Targeting, Branching, Conditional
  <2> DEFINE none == {}
  <2>5. Spent(l, x, pc, none) = Spent(l, x, pc - 1, none) + Passed(l, pc)
    <3>1. pc \notin none
      OBVIOUS
    <3> HIDE DEF none
    <3>2. QED BY <1>1, <2>2, <3>1, SpentNext
  <2>6. Spent(l, x, pc - 1, none) \in Nat /\ Passed(l, pc) \in Nat
    <3> HIDE DEF none
    <3>1. x \in Int /\ pc - 1 \in Int
      BY <1>1, <2>2
    <3>2. QED BY <1>1, <2>2, <3>1, SpentType
  <2> HIDE DEF l
  <2>7. CASE pc \notin Branching(l) /\ Passes
    <3>1. pc # FirstReturn(l, x)
      <4>1. l[pc].op # "jalr"
        BY <1>1, <2>2, <2>7 DEF Branching
      <4>2. QED BY <1>1, <4>1, FirstReturnIs
    <3>2. pc' \in x..FirstReturn(l, x) /\ run' # "returned"
      BY <1>1, <2>1, <2>2, <2>7, <3>1 DEF Passes
    <3>3. cyc' = t + Spent(l, x, pc' - 1, {})
      <4>1. pc' - 1 = pc /\ cyc' = cyc + Passed(l, pc)
        BY <2>2, <2>7 DEF Passes, l
      <4>2. cyc' = t + Spent(l, x, pc, none)
        <5> HIDE DEF none
        <5>1. cyc = t + Spent(l, x, pc - 1, none)
          BY <2>1 DEF none
        <5>2. QED BY <1>1, <2>5, <2>6, <4>1, <5>1
      <4>3. QED BY <4>1, <4>2
    <3>4. QED BY <1>1, <3>2, <3>3 DEF Leaving, l
  <2>8. CASE l[pc].op = "jalr" /\ run' = "returned" /\ cyc' = cyc + Passed(l, pc)
    <3>1. pc = FirstReturn(l, x)
      BY <1>1, <2>1, <2>2, <2>8, FirstReturnIs
    <3>2. cyc' = t + Spent(l, x, pc, none)
      <4> HIDE DEF none
      <4>1. cyc = t + Spent(l, x, pc - 1, none)
        BY <2>1 DEF none
      <4>2. QED BY <1>1, <2>5, <2>6, <2>8, <4>1
    <3>3. cyc' = t + StraightlineFrom(BuildCfg(l), x)
      BY <1>1, <3>1, <3>2, FirstReturnIs
    <3>4. QED BY <1>1, <2>8, <3>3 DEF Leaving, l
  <2>9. QED BY <1>3, <2>4, <2>7, <2>8 DEF Executed, Branches, l
<1>4. QED BY <1>2, <1>3, Instruction


-----------------------------------------------------------------------------
(* The search whose bound is tested first, round by round.                 *)

\* On the way to the loop; in round n; and out of it, by the bound or by the match.
FirstBefore(h, m, z, a, g, c) ==
  a \in 1..(h - 1) /\ c = Spent(listing, 1, a - 1, {z}) /\ Held((h + 1)..m, (m + 1)..z, 0, {}, g)
FirstRound(h, m, z, n, a, g, c) ==
  LET f == FirstForm(listing, h, m, z)
  IN  /\ a \in h..z /\ n <= args.limit /\ n <= args.hit
      /\ (a # h => n < args.limit) /\ (m < a => n < args.hit)
      /\ c = f.setup + n * f.body + Spent(listing, h, a - 1, {z})
      /\ Held((h + 1)..m, (m + 1)..z, n, (h + 1)..(a - 1), g)
FirstLeft(h, m, z, r, a, c) ==
  LET f == FirstForm(listing, h, m, z)
  IN  \/ /\ args.limit <= args.hit
         /\ Leaving(listing, listing[h].to, f.setup + args.limit * f.body + f.notfound, r, a, c)
      \/ /\ args.hit < args.limit
         /\ Leaving(listing, listing[h].to, f.setup + args.hit * f.body + f.found, r, a, c)
FirstTracked(h, m, z, r, a, g, c) ==
  \/ r # "returned" /\ FirstBefore(h, m, z, a, g, c)
  \/ r # "returned" /\ \E n \in Nat : FirstRound(h, m, z, n, a, g, c)
  \/ FirstLeft(h, m, z, r, a, c)

\* What such a search is made of.
FirstFacts(h, m, z) ==
  LET l == listing   f == FirstForm(l, h, m, z)
  IN  /\ FirstShape(l, h, m, z) /\ Listed(l) /\ Walks((h + 1)..m, (m + 1)..z)
      /\ l[h].r = "i" /\ l[m].r = "v" /\ l[h].op = "beq" /\ l[m].op = "beq" /\ l[z].op = "jal"
      /\ \A a \in DOMAIN l : Priced(l[a])
      /\ Len(l) \in Nat /\ DOMAIN l = 1..Len(l) /\ args.limit \in Nat /\ args.hit \in Nat
      /\ h \in 1..Len(l) /\ m \in 1..Len(l) /\ z \in 1..Len(l) /\ h < m /\ m < z
      /\ h \in Branching(l) /\ m \in Branching(l) /\ z \in Branching(l)
      /\ \A a \in 1..z : a \notin {h, m, z} => a \notin Branching(l)
      /\ l[z].to = h /\ l[m].to = l[h].to /\ Behind(l, l[h].to)
      /\ f.setup = Spent(l, 1, h - 1, {z}) /\ f.body = Spent(l, h, z, {z}) /\ f.notfound = Taken(l, h)
      /\ f.found = Spent(l, h, m - 1, {z}) + Taken(l, m) /\ f.shutdown = StraightlineFrom(BuildCfg(l), l[h].to)
      /\ f.setup \in Nat /\ f.body \in Nat /\ f.notfound \in Nat /\ f.found \in Nat
LEMMA FirstHas ==
  ASSUME IInv, NEW h, NEW m, NEW z, TestedFirst(h, m, z)
  PROVE  FirstFacts(h, m, z)
<1> DEFINE l == listing   f == FirstForm(l, h, m, z)
<1>1. /\ Listed(l) /\ Len(l) \in Nat /\ DOMAIN l = 1..Len(l) /\ args.limit \in Nat /\ args.hit \in Nat
  BY LifterConstants, Listing DEF IInv, Known
<1>2. /\ Targeting(l) = {h, m, z} /\ h < m /\ m < z
      /\ \A a \in 1..z : l[a].op # "jalr"
      /\ l[h].op = "beq" /\ l[h].r = "i" /\ l[m].op = "beq" /\ l[m].r = "v"
      /\ z < l[h].to /\ l[m].to = l[h].to /\ l[z].op = "jal" /\ l[z].to = h
      /\ Walks((h + 1)..m, (m + 1)..z)
  BY DEF TestedFirst
<1>3. /\ h \in 1..Len(l) /\ m \in 1..Len(l) /\ z \in 1..Len(l) /\ l[h].to \in 1..Len(l)
      /\ h \in Branching(l) /\ m \in Branching(l) /\ z \in Branching(l)
  BY <1>1, <1>2, Listing DEF Targeting
<1>4. FirstShape(l, h, m, z) /\ \A a \in DOMAIN l : Priced(l[a])
  BY <1>1, <1>2, <1>3 DEF FirstShape, Walks
<1>5. \A a \in 1..z : a \notin {h, m, z} => a \notin Branching(l)
  <2>1. \A a \in Branching(l) : a \in Targeting(l) \/ l[a].op = "jalr"
    BY DEF Targeting
  <2>2. QED BY <1>2, <2>1
<1>6. Behind(l, l[h].to)
  BY <1>1, <1>2, <1>3 DEF Behind
<1>7. /\ f.setup = Spent(l, 1, h - 1, {z}) /\ f.body = Spent(l, h, z, {z}) /\ f.notfound = Taken(l, h)
      /\ f.found = Spent(l, h, m - 1, {z}) + Taken(l, m) /\ f.shutdown = StraightlineFrom(BuildCfg(l), l[h].to)
  BY DEF FirstForm
<1>8. f.setup \in Nat /\ f.body \in Nat /\ f.notfound \in Nat /\ f.found \in Nat
  <2> DEFINE T == {z}
  <2> HIDE DEF T
  <2>1. /\ Spent(l, 1, h - 1, T) \in Nat /\ Spent(l, h, z, T) \in Nat /\ Taken(l, h) \in Nat
        /\ Spent(l, h, m - 1, T) \in Nat /\ Taken(l, m) \in Nat
    <3>1. 1 \in Int /\ h \in Int /\ m \in Int /\ z \in Int /\ h - 1 \in Int /\ m - 1 \in Int
      BY <1>1, <1>3
    <3>2. QED BY <1>1, <3>1, SpentType
  <2>2. Spent(l, h, m - 1, T) + Taken(l, m) \in Nat
    BY <2>1
  <2>3. QED BY <1>7, <2>1, <2>2 DEF T
<1>9. QED BY <1>1, <1>2, <1>3, <1>4, <1>5, <1>6, <1>7, <1>8 DEF FirstFacts

\* The rounds begin.
LEMMA FirstBegins ==
  ASSUME IInv, NEW h, NEW m, NEW z, TestedFirst(h, m, z), NEW g,
         Held((h + 1)..m, (m + 1)..z, 0, {}, g)
  PROVE  FirstRound(h, m, z, 0, h, g, Spent(listing, 1, h - 1, {z}))
<1> DEFINE l == listing   f == FirstForm(l, h, m, z)   T == {z}
<1>1. /\ Listed(l) /\ h \in 1..Len(l) /\ Len(l) \in Nat /\ h < m /\ m < z /\ m \in 1..Len(l) /\ z \in 1..Len(l)
      /\ f.setup = Spent(l, 1, h - 1, {z}) /\ f.setup \in Nat /\ f.body \in Nat
      /\ args.limit \in Nat /\ args.hit \in Nat
  <2>1. FirstFacts(h, m, z)
    BY FirstHas
  <2>2. QED BY <2>1 DEF FirstFacts
<1>2. Spent(l, h, h - 1, {z}) = 0
  BY <1>1, SpentType
<1> HIDE DEF l, f
<1>3. Spent(l, 1, h - 1, {z}) = f.setup + 0 * f.body + Spent(l, h, h - 1, {z})
  <2>1. 0 * f.body = 0
    BY <1>1, OneMore
  <2>2. QED BY <1>1, <1>2, <2>1
<1>4. (h + 1)..(h - 1) = {} /\ h \in h..z /\ 0 <= args.limit /\ 0 <= args.hit /\ ~(m < h)
  BY <1>1
<1>5. QED BY <1>3, <1>4, Zenon DEF FirstRound, l, f


\* A step before the loop.
LEMMA FirstBeforeNext ==
  ASSUME IInv, NEW h, NEW m, NEW z, TestedFirst(h, m, z), Executed, FirstBefore(h, m, z, pc, reg, cyc)
  PROVE  FirstTracked(h, m, z, run', pc', reg', cyc')
<1> DEFINE l == listing   T == {z}
<1>1. /\ Listed(l) /\ h \in 1..Len(l) /\ Len(l) \in Nat /\ h < m /\ m < z /\ m \in 1..Len(l) /\ z \in 1..Len(l)
      /\ \A a \in 1..z : a \notin {h, m, z} => a \notin Branching(l)
  <2>1. FirstFacts(h, m, z)
    BY FirstHas
  <2>2. QED BY <2>1 DEF FirstFacts
<1>2. pc \in 1..(h - 1) /\ cyc = Spent(l, 1, pc - 1, T) /\ Held((h + 1)..m, (m + 1)..z, 0, {}, reg)
  BY DEF FirstBefore
<1>3. pc \in 1..z /\ pc \notin {h, m, z} /\ pc \in 1..Len(l) /\ pc \in Int /\ 1 <= pc /\ pc \notin T
  BY <1>1, <1>2
<1>4. pc \notin Branching(l)
  BY <1>1, <1>3
<1>5. Passes /\ Computed
  <2>1. l[pc].op \notin Conditional \cup {"jal", "jalr"}
    BY <1>3, <1>4 DEF Branching, IInv, TypeOK
  <2>2. QED BY <2>1 DEF Executed, Branches
<1>6. Held((h + 1)..m, (m + 1)..z, 0, {}, reg')
  <2> DEFINE S == (h + 1)..m   N == (m + 1)..z
  <2>1. pc \notin S \cup N
    BY <1>1, <1>2
  <2> HIDE DEF S, N
  <2>2. QED BY <1>2, <1>5, <2>1, HeldBefore DEF S, N
<1>7. run' # "returned" /\ pc' = pc + 1 /\ cyc' = Spent(l, 1, pc, T)
  <2> HIDE DEF T
  <2>1. Spent(l, 1, pc, T) = Spent(l, 1, pc - 1, T) + Passed(l, pc)
    <3>1. 1 \in Nat \ {0}
      OBVIOUS
    <3>2. QED BY <1>1, <1>3, <3>1, SpentNext
  <2>2. QED BY <1>2, <1>5, <2>1 DEF Passes
<1>8. CASE pc + 1 # h
  <2>1. pc' \in 1..(h - 1) /\ pc' - 1 = pc
    BY <1>1, <1>2, <1>7, <1>8
  <2>2. FirstBefore(h, m, z, pc', reg', cyc')
    BY <1>6, <1>7, <2>1 DEF FirstBefore
  <2>3. QED BY <1>7, <2>2 DEF FirstTracked
<1>9. CASE pc + 1 = h
  <2>1. pc' = h /\ pc = h - 1
    BY <1>1, <1>3, <1>7, <1>9
  <2>2. FirstRound(h, m, z, 0, h, reg', Spent(l, 1, h - 1, T))
    BY <1>6, FirstBegins
  <2>3. FirstRound(h, m, z, 0, pc', reg', cyc')
    BY <1>7, <2>1, <2>2
  <2>4. QED BY <1>7, <2>3 DEF FirstTracked
<1>10. QED BY <1>8, <1>9

\* The test of the bound.
LEMMA FirstTest ==
  ASSUME IInv, NEW h, NEW m, NEW z, TestedFirst(h, m, z), Executed, NEW n \in Nat,
         FirstRound(h, m, z, n, pc, reg, cyc), pc = h
  PROVE  FirstTracked(h, m, z, run', pc', reg', cyc')
<1> DEFINE l == listing   f == FirstForm(l, h, m, z)   S == (h + 1)..m   N == (m + 1)..z   T == {z}
           sofar == f.setup + n * f.body
<1>1. /\ Listed(l) /\ h \in 1..Len(l) /\ Len(l) \in Nat /\ h < m /\ m < z /\ m \in 1..Len(l) /\ z \in 1..Len(l)
      /\ args.limit \in Nat /\ args.hit \in Nat /\ h \in Branching(l) /\ l[h].op = "beq" /\ l[h].r = "i"
      /\ f.setup \in Nat /\ f.body \in Nat /\ f.notfound = Taken(l, h) /\ f.notfound \in Nat
      /\ Walks(S, N) /\ Behind(l, l[h].to)
  <2>1. FirstFacts(h, m, z)
    BY FirstHas
  <2>2. QED BY <2>1 DEF FirstFacts
<1>2. /\ n <= args.limit /\ n <= args.hit
      /\ cyc = f.setup + n * f.body + Spent(l, h, h - 1, {z})
      /\ Held(S, N, n, (h + 1)..(h - 1), reg)
  BY DEF FirstRound
<1>3. Spent(l, h, h - 1, {z}) = 0 /\ (h + 1)..(h - 1) = {}
  BY <1>1, SpentType
<1> HIDE DEF f
<1>4. sofar \in Nat /\ cyc = sofar
  <2> DEFINE k == n * f.body
  <2>1. k \in Nat
    BY <1>1, OneMore
  <2>2. cyc = f.setup + k + 0
    BY <1>2, <1>3
  <2> HIDE DEF k
  <2>3. f.setup + k \in Nat /\ cyc = f.setup + k
    BY <1>1, <2>1, <2>2, SMTT(30)
  <2>4. QED BY <2>3 DEF k
<1>5. reg.i = n
  <2>1. {} \cap N = {}
    OBVIOUS
  <2> HIDE DEF S, N
  <2>2. QED BY <1>1, <1>2, <1>3, <2>1, HeldTests
<1>6. Branches
  BY <1>1 DEF Executed
<1>7. /\ reg' = reg
      /\ \/ Jumps /\ n = args.limit
         \/ Passes /\ n # args.limit
  BY <1>1, <1>5, <1>6 DEF Branches, Meets
<1>8. CASE Jumps /\ n = args.limit
  <2> DEFINE t == f.setup + args.limit * f.body + f.notfound   x == l[h].to
  <2>0. t = sofar + f.notfound
    BY <1>8
  <2>1. pc' = x /\ run' # "returned" /\ cyc' = t /\ t \in Nat
    <3> HIDE DEF t, sofar
    <3>1. pc' = x /\ run' # "returned" /\ cyc' = cyc + f.notfound
      BY <1>1, <1>8 DEF Jumps
    <3>2. QED BY <1>1, <1>4, <2>0, <3>1
  <2> HIDE DEF t, x
  <2>2. Leaving(l, x, t, run', x, t)
    BY <1>1, <2>1, LeavingFirst DEF x
  <2>3. args.limit <= args.hit
    BY <1>2, <1>8
  <2>4. FirstLeft(h, m, z, run', pc', cyc')
    BY <2>1, <2>2, <2>3, Zenon DEF FirstLeft, t, x, f
  <2>5. QED BY <2>4 DEF FirstTracked
<1>9. CASE Passes /\ n # args.limit
  <2>1. run' # "returned" /\ pc' = h + 1 /\ cyc' = cyc + Passed(l, h)
    BY <1>9 DEF Passes
  <2>2. cyc' = sofar + Spent(l, h, h, {z})
    <3> HIDE DEF sofar
    <3>1. Spent(l, h, h, T) = Spent(l, h, h - 1, T) + Passed(l, h)
      <4>1. h \notin T /\ h \in Nat \ {0} /\ h <= h
        BY <1>1
      <4> HIDE DEF T
      <4>2. QED BY <1>1, <4>1, SpentNext
    <3>2. Passed(l, h) \in Nat
      BY <1>1, SpentType
    <3>3. QED BY <1>3, <1>4, <2>1, <3>1, <3>2
  <2>3. /\ pc' \in h..z /\ n < args.limit /\ ~(m < pc') /\ pc' - 1 = h
        /\ (h + 1)..(h - 1) = (h + 1)..(pc' - 1)
    BY <1>1, <1>2, <1>9, <2>1, SMTT(30)
  <2>4. FirstRound(h, m, z, n, pc', reg', cyc')
    BY <1>2, <1>7, <2>2, <2>3, Zenon DEF FirstRound, f, sofar
  <2>5. QED BY <2>1, <2>4 DEF FirstTracked
<1>10. QED BY <1>7, <1>8, <1>9

\* What the rest of a round has in common.
FirstStepped(h, m, z, n) ==
  LET f == FirstForm(listing, h, m, z)
      S == (h + 1)..m
      N == (m + 1)..z
  IN  /\ n < args.limit /\ n <= args.hit /\ (m < pc => n < args.hit)
      /\ f.setup + n * f.body \in Nat /\ pc \in (h + 1)..z
      /\ cyc = f.setup + n * f.body + Spent(listing, h, pc - 1, {z})
      /\ Held(S, N, n, (h + 1)..pc, reg')
      /\ pc # z => Spent(listing, h, pc, {z}) = Spent(listing, h, pc - 1, {z}) + Passed(listing, pc)
      /\ pc = z => Spent(listing, h, z, {z}) = Spent(listing, h, z - 1, {z}) + Taken(listing, z)
      /\ Spent(listing, h, pc - 1, {z}) \in Nat /\ Passed(listing, pc) \in Nat /\ Taken(listing, pc) \in Nat
LEMMA FirstSteps ==
  ASSUME IInv, NEW h, NEW m, NEW z, TestedFirst(h, m, z), NEW n \in Nat,
         FirstRound(h, m, z, n, pc, reg, cyc), pc # h,
         Computed \/ (reg' = reg /\ pc \in Branching(listing))
  PROVE  FirstStepped(h, m, z, n)
<1> DEFINE l == listing   f == FirstForm(l, h, m, z)   S == (h + 1)..m   N == (m + 1)..z   T == {z}
           done == (h + 1)..(pc - 1)
<1>1. /\ Listed(l) /\ h \in 1..Len(l) /\ Len(l) \in Nat /\ h < m /\ m < z /\ m \in 1..Len(l) /\ z \in 1..Len(l)
      /\ DOMAIN l = 1..Len(l) /\ args.limit \in Nat /\ args.hit \in Nat /\ f.setup \in Nat /\ f.body \in Nat
  <2>1. FirstFacts(h, m, z)
    BY FirstHas
  <2>2. QED BY <2>1 DEF FirstFacts
<1>2. /\ pc \in h..z /\ n < args.limit /\ n <= args.hit /\ (m < pc => n < args.hit)
      /\ cyc = f.setup + n * f.body + Spent(l, h, pc - 1, {z})
      /\ Held(S, N, n, done, reg)
  BY DEF FirstRound
<1>3. f.setup + n * f.body \in Nat
  <2> HIDE DEF f
  <2>1. n * f.body \in Nat
    BY <1>1, OneMore
  <2>2. QED BY <1>1, <2>1
<1>4. InTurn(S, N, pc, done) /\ S \cup N \subseteq DOMAIN l /\ done \cup {pc} = (h + 1)..pc
  <2>1. pc \in S \cup N /\ pc \notin done /\ S \cup N \subseteq DOMAIN l /\ done \cup {pc} = (h + 1)..pc
    <3>1. pc \in Int /\ h < pc /\ pc <= z /\ h \in Int /\ z \in Int /\ m \in Int
      BY <1>1, <1>2
    <3>2. pc \in S \cup N /\ pc \notin done /\ done \cup {pc} = (h + 1)..pc
      BY <3>1
    <3>3. S \cup N \subseteq 1..Len(l)
      BY <1>1
    <3>4. QED BY <1>1, <3>2, <3>3
  <2>2. ASSUME pc \in S PROVE done \cap N = {} /\ \A b \in S : b \in done <=> b < pc
    BY <1>1, <1>2, <2>2, SMTT(30)
  <2>3. QED BY <2>1, <2>2 DEF InTurn
<1>5. Held(S, N, n, (h + 1)..pc, reg')
  <2> HIDE DEF S, N, done
  <2>1. Held(S, N, n, done \cup {pc}, reg')
    BY <1>2, <1>4, HeldNext
  <2>2. QED BY <1>4, <2>1
<1>6. pc \in Int /\ pc \in 1..Len(l) /\ h \in Nat \ {0} /\ h <= pc /\ pc \in (h + 1)..z /\ pc - 1 \in Int /\ h \in Int
  BY <1>1, <1>2, SMTT(30)
<1>7. /\ pc # z => Spent(l, h, pc, {z}) = Spent(l, h, pc - 1, {z}) + Passed(l, pc)
      /\ pc = z => Spent(l, h, pc, {z}) = Spent(l, h, pc - 1, {z}) + Taken(l, pc)
      /\ Spent(l, h, pc - 1, {z}) \in Nat /\ Passed(l, pc) \in Nat /\ Taken(l, pc) \in Nat
  <2>1. pc = z <=> pc \in T
    OBVIOUS
  <2> HIDE DEF T
  <2>2. /\ pc \notin T => Spent(l, h, pc, T) = Spent(l, h, pc - 1, T) + Passed(l, pc)
        /\ pc \in T => Spent(l, h, pc, T) = Spent(l, h, pc - 1, T) + Taken(l, pc)
    BY <1>1, <1>6, SpentNext
  <2>3. Spent(l, h, pc - 1, T) \in Nat /\ Passed(l, pc) \in Nat /\ Taken(l, pc) \in Nat
    BY <1>1, <1>6, SpentType
  <2>4. QED BY <2>1, <2>2, <2>3 DEF T
<1>8. QED BY <1>2, <1>3, <1>5, <1>6, <1>7, Zenon DEF FirstStepped


\* An instruction of the round.
LEMMA FirstRoundNext ==
  ASSUME IInv, NEW h, NEW m, NEW z, TestedFirst(h, m, z), Executed, NEW n \in Nat,
         FirstRound(h, m, z, n, pc, reg, cyc), pc # h
  PROVE  FirstTracked(h, m, z, run', pc', reg', cyc')
<1> DEFINE l == listing   f == FirstForm(l, h, m, z)   S == (h + 1)..m   N == (m + 1)..z
           sofar == f.setup + n * f.body   W(y) == Spent(l, h, y, {z})
<1>1. /\ Listed(l) /\ h \in 1..Len(l) /\ Len(l) \in Nat /\ h < m /\ m < z /\ m \in 1..Len(l) /\ z \in 1..Len(l)
      /\ args.limit \in Nat /\ args.hit \in Nat
      /\ m \in Branching(l) /\ l[m].op = "beq" /\ l[m].r = "v" /\ z \in Branching(l) /\ l[z].op = "jal"
      /\ \A a \in 1..z : a \notin {h, m, z} => a \notin Branching(l)
      /\ l[z].to = h /\ l[m].to = l[h].to /\ Behind(l, l[h].to) /\ Walks(S, N)
      /\ f.setup \in Nat /\ f.body \in Nat /\ f.found \in Nat
      /\ f.body = W(z) /\ f.found = W(m - 1) + Taken(l, m)
  <2>1. FirstFacts(h, m, z)
    BY FirstHas
  <2>2. QED BY <2>1 DEF FirstFacts
<1>2. pc \in h..z
  BY DEF FirstRound
<1>3. Computed \/ (reg' = reg /\ pc \in Branching(l))
  <2>1. pc \in 1..z
    BY <1>1, <1>2
  <2>2. l[pc].op \in Conditional \cup {"jal", "jalr"} => pc \in Branching(l)
    BY DEF Branching, IInv, TypeOK
  <2>3. l[pc].op # "jalr"
    BY <2>1 DEF TestedFirst
  <2>4. QED BY <2>2, <2>3 DEF Executed, Branches
<1>4. FirstStepped(h, m, z, n)
  BY <1>3, FirstSteps
<1>5. /\ n < args.limit /\ n <= args.hit /\ (m < pc => n < args.hit) /\ sofar \in Nat /\ pc \in (h + 1)..z
      /\ cyc = sofar + W(pc - 1) /\ Held(S, N, n, (h + 1)..pc, reg')
      /\ pc # z => W(pc) = W(pc - 1) + Passed(l, pc)
      /\ pc = z => W(z) = W(z - 1) + Taken(l, z)
      /\ W(pc - 1) \in Nat /\ Passed(l, pc) \in Nat /\ Taken(l, pc) \in Nat
  BY <1>4 DEF FirstStepped
<1> HIDE DEF f, W, sofar
<1>6. ASSUME Passes, pc # z, m <= pc => n < args.hit PROVE FirstTracked(h, m, z, run', pc', reg', cyc')
  <2>1. pc' = pc + 1 /\ run' # "returned" /\ pc' - 1 = pc
    BY <1>1, <1>2, <1>6 DEF Passes
  <2>2. cyc' = sofar + W(pc' - 1)
    <3>1. cyc' = cyc + Passed(l, pc)
      BY <1>6 DEF Passes
    <3>2. cyc' = sofar + W(pc)
      BY <1>5, <1>6, <3>1
    <3>3. QED BY <2>1, <3>2
  <2>3. pc' \in h..z /\ (m < pc' => n < args.hit)
    BY <1>1, <1>5, <1>6, <2>1
  <2>4. Held(S, N, n, (h + 1)..(pc' - 1), reg')
    BY <1>5, <2>1
  <2>5. FirstRound(h, m, z, n, pc', reg', cyc')
    BY <1>5, <2>2, <2>3, <2>4, Zenon DEF FirstRound, f, W, sofar
  <2>6. QED BY <2>1, <2>5 DEF FirstTracked
<1>7. CASE pc \notin {m, z}
  <2>1. pc \notin Branching(l)
    <3>1. pc \in 1..z /\ pc \notin {h, m, z}
      BY <1>1, <1>2, <1>7
    <3>2. QED BY <1>1, <3>1
  <2>2. Passes
    <3>1. l[pc].op \notin Conditional \cup {"jal", "jalr"}
      BY <2>1 DEF Branching, IInv, TypeOK
    <3>2. QED BY <3>1 DEF Executed, Branches
  <2>3. m <= pc => n < args.hit
    BY <1>1, <1>5, <1>7
  <2>4. QED BY <1>6, <1>7, <2>2, <2>3
<1>8. CASE pc = m
  <2>1. Branches /\ reg' = reg
    BY <1>1, <1>8 DEF Executed, Branches
  <2>2. reg.v <=> n = args.hit
    <3>1. S \subseteq (h + 1)..pc
      BY <1>8
    <3> DEFINE done == (h + 1)..pc
    <3> HIDE DEF S, N, done
    <3>2. Held(S, N, n, done, reg) /\ S \subseteq done
      BY <1>5, <2>1, <3>1 DEF done
    <3>3. QED BY <1>1, <3>2, HeldTests
  <2>3. \/ Jumps /\ n = args.hit
        \/ Passes /\ n # args.hit
    BY <1>1, <1>8, <2>1, <2>2 DEF Branches, Meets
  <2>4. CASE Jumps /\ n = args.hit
    <3> DEFINE t == f.setup + args.hit * f.body + f.found   x == l[h].to
    <3>1. t = sofar + f.found
      BY <2>4 DEF sofar
    <3>2. pc' = x /\ run' # "returned" /\ cyc' = cyc + Taken(l, m)
      BY <1>1, <1>8, <2>4 DEF Jumps
    <3> HIDE DEF t, x
    <3>3. cyc' = t /\ t \in Nat
      <4>1. cyc = sofar + W(m - 1) /\ W(m - 1) \in Nat /\ Taken(l, m) \in Nat /\ sofar \in Nat
        BY <1>5, <1>8
      <4>2. f.found = W(m - 1) + Taken(l, m)
        BY <1>1
      <4>3. QED BY <3>1, <3>2, <4>1, <4>2
    <3>4. Leaving(l, x, t, run', x, t)
      BY <1>1, <3>2, <3>3, LeavingFirst DEF x
    <3>5. args.hit < args.limit
      BY <1>5, <2>4
    <3>6. FirstLeft(h, m, z, run', pc', cyc')
      BY <3>2, <3>3, <3>4, <3>5, Zenon DEF FirstLeft, t, x, f
    <3>7. QED BY <3>6 DEF FirstTracked
  <2>5. CASE Passes /\ n # args.hit
    <3>1. pc # z /\ n < args.hit
      <4>1. n <= args.hit /\ n # args.hit /\ args.hit \in Nat
        BY <1>1, <1>5, <2>5
      <4>2. pc # z
        BY <1>1, <1>8
      <4>3. QED BY <4>1, <4>2
    <3>2. QED BY <1>6, <2>5, <3>1
  <2>6. QED BY <2>3, <2>4, <2>5
<1>9. CASE pc = z
  <2>1. Jumps /\ reg' = reg
    BY <1>1, <1>9 DEF Executed, Branches, Conditional
  <2>2. pc' = h /\ run' # "returned" /\ cyc' = cyc + Taken(l, z)
    BY <1>1, <1>9, <2>1 DEF Jumps
  <2>3. n + 1 \in Nat /\ n + 1 <= args.limit /\ n + 1 <= args.hit /\ pc' \in h..z /\ ~(m < pc')
    <3>1. n < args.limit /\ n < args.hit /\ args.limit \in Nat /\ args.hit \in Nat
      BY <1>1, <1>5, <1>9
    <3>2. pc' \in h..z /\ ~(m < pc')
      BY <1>1, <2>2
    <3>3. QED BY <3>1, <3>2
  <2>4. cyc' = f.setup + (n + 1) * f.body + Spent(l, h, pc' - 1, {z})
    <3>1. cyc' = sofar + f.body
      BY <1>1, <1>5, <1>9, <2>2, SMTT(30)
    <3>2. Spent(l, h, h - 1, {z}) = 0
      BY <1>1, SpentType
    <3> DEFINE k == n * f.body
    <3>3. k \in Nat /\ (n + 1) * f.body = k + f.body /\ sofar = f.setup + k
      BY <1>1, OneMore DEF sofar
    <3> HIDE DEF k
    <3>4. cyc' = f.setup + (k + f.body) + Spent(l, h, h - 1, {z})
      <4>1. f.setup \in Nat /\ f.body \in Nat
        BY <1>1
      <4>2. QED BY <3>1, <3>2, <3>3, <4>1
    <3>5. QED BY <2>2, <3>3, <3>4
  <2>5. Held(S, N, n + 1, (h + 1)..(pc' - 1), reg')
    <3>1. (h + 1)..pc = S \cup N /\ (h + 1)..(pc' - 1) = {}
      BY <1>1, <1>9, <2>2, SMTT(30)
    <3> HIDE DEF S, N
    <3>2. Held(S, N, n, S \cup N, reg')
      BY <1>5, <3>1
    <3>3. QED BY <3>1, <3>2, HeldRound
  <2>6. FirstRound(h, m, z, n + 1, pc', reg', cyc')
    BY <2>2, <2>3, <2>4, <2>5, Zenon DEF FirstRound, f
  <2>7. QED BY <2>2, <2>3, <2>6 DEF FirstTracked
<1>10. QED BY <1>7, <1>8, <1>9

\* Each step of such a search keeps its time, in every phase.
LEMMA FirstTrackedNext ==
  ASSUME IInv, [Next]_vars, NEW h, NEW m, NEW z, TestedFirst(h, m, z),
         FirstTracked(h, m, z, run, pc, reg, cyc)
  PROVE  FirstTracked(h, m, z, run', pc', reg', cyc')
<1>1. \A a \in DOMAIN listing : Priced(listing[a])
  <2>1. FirstFacts(h, m, z)
    BY FirstHas
  <2>2. QED BY <2>1 DEF FirstFacts
<1>2. CASE Idles
  BY <1>2, Zenon DEF Idles, FirstTracked, FirstLeft, Leaving
<1>3. CASE Running /\ Executed
  <2>1. CASE FirstBefore(h, m, z, pc, reg, cyc)
    BY <1>3, <2>1, FirstBeforeNext
  <2>2. ASSUME NEW n \in Nat, FirstRound(h, m, z, n, pc, reg, cyc)
        PROVE  FirstTracked(h, m, z, run', pc', reg', cyc')
    <3>1. CASE pc = h
      BY <1>3, <2>2, <3>1, FirstTest
    <3>2. CASE pc # h
      BY <1>3, <2>2, <3>2, FirstRoundNext
    <3>3. QED BY <3>1, <3>2
  <2>3. CASE FirstLeft(h, m, z, run, pc, cyc)
    <3>1. \A x, t : Leaving(listing, x, t, run, pc, cyc) => Leaving(listing, x, t, run', pc', cyc')
      BY <1>1, LeavingNext
    <3>2. FirstLeft(h, m, z, run', pc', cyc')
      BY <2>3, <3>1, Zenon DEF FirstLeft
    <3>3. QED BY <3>2 DEF FirstTracked
  <2>4. QED BY <2>1, <2>2, <2>3 DEF FirstTracked
<1>4. QED BY <1>1, <1>2, <1>3, Instruction

\* It starts before the loop.
LEMMA FirstTrackedInit ==
  ASSUME Init, NEW h, NEW m, NEW z, TestedFirst(h, m, z)
  PROVE  FirstTracked(h, m, z, run, pc, reg, cyc)
<1> DEFINE l == listing
<1>0. IInv
  BY InitIInv
<1>1. Listed(l) /\ h \in 1..Len(l) /\ Len(l) \in Nat
  <2>1. FirstFacts(h, m, z)
    BY <1>0, FirstHas
  <2>2. QED BY <2>1 DEF FirstFacts
<1>2. pc = 1 /\ cyc = 0 /\ run # "returned" /\ Held((h + 1)..m, (m + 1)..z, 0, {}, reg)
  BY HeldInit DEF Init
<1>3. Spent(l, 1, 1 - 1, {z}) = 0
  <2>1. 1 \in Int
    OBVIOUS
  <2>2. QED BY <1>1, <2>1, SpentType
<1>4. CASE h = 1
  <2>1. FirstRound(h, m, z, 0, h, reg, Spent(l, 1, h - 1, {z}))
    BY <1>0, <1>2, FirstBegins
  <2>2. FirstRound(h, m, z, 0, pc, reg, cyc)
    BY <1>2, <1>3, <1>4, <2>1
  <2>3. QED BY <1>2, <2>2 DEF FirstTracked
<1>5. CASE h # 1
  <2>1. pc \in 1..(h - 1) /\ cyc = Spent(l, 1, pc - 1, {z})
    BY <1>1, <1>2, <1>3, <1>5
  <2>2. QED BY <1>2, <2>1 DEF FirstTracked, FirstBefore
<1>6. QED BY <1>4, <1>5

\* When it returns, the form tells what it took.
LEMMA FirstReturns ==
  ASSUME IInv, run = "returned", NEW h, NEW m, NEW z, TestedFirst(h, m, z),
         FirstTracked(h, m, z, run, pc, reg, cyc)
  PROVE  lifted.search # {} /\ \A f \in lifted.search : cyc = TimeOfSearch(f, args.limit, FoundIdx)
<1> DEFINE l == listing   f == FirstForm(l, h, m, z)
<1>1. /\ FirstShape(l, h, m, z) /\ Walks((h + 1)..m, (m + 1)..z) /\ l[h].r = "i" /\ l[m].r = "v"
      /\ l[h].op = "beq" /\ l[z].op = "jal" /\ Listed(l)
      /\ args.limit \in Nat /\ args.hit \in Nat
      /\ h \in 1..Len(l) /\ m \in 1..Len(l) /\ z \in 1..Len(l) /\ Len(l) \in Nat /\ h < m /\ m < z
      /\ f.shutdown = StraightlineFrom(BuildCfg(l), l[h].to)
      /\ f.setup \in Nat /\ f.body \in Nat /\ f.notfound \in Nat /\ f.found \in Nat
  <2>1. FirstFacts(h, m, z)
    BY FirstHas
  <2>2. QED BY <2>1 DEF FirstFacts
<1>2. lifted.search = {f}
  <2> DEFINE g == BuildCfg(l)   loop == NaturalLoop(g, h)   S == (h + 1)..m   N == (m + 1)..z
  <2>1. Insns(g, loop) = h..z
    <3>1. FirstLooped(l, h, m, z)
      BY <1>1, FirstLoop
    <3>2. QED BY <3>1 DEF FirstLooped
  <2>2. S \cup N \subseteq Insns(g, loop) /\ \A a \in Insns(g, loop) : a \in S \cup N \/ l[a].op = "beq"
    BY <1>1, <2>1
  <2> HIDE DEF S, N, loop, g
  <2>3. PICK i \in N, d \in S, p \in S \cup N, moving \in BOOLEAN : Walking(S, N, i, d, p, moving)
    BY <1>1, WalksWith DEF S, N
  <2>4. IndexReg(g, loop) = {"i"}
    <3>1. Listed(listing) /\ S \cup N \subseteq Insns(BuildCfg(listing), loop)
          /\ \A a \in Insns(BuildCfg(listing), loop) : a \in S \cup N \/ listing[a].op = "beq"
      BY <1>1, <2>2 DEF g
    <3>2. QED BY <2>3, <3>1, IndexIs DEF g
  <2>5. LiftResult(g).search = {f}
    BY <1>1, <2>4, FirstFormIs DEF g, loop
  <2>6. lifted = LiftResult(g)
    BY DEF IInv, Known, g
  <2>7. QED BY <2>5, <2>6
<1> HIDE DEF f
<1>3. FirstLeft(h, m, z, run, pc, cyc)
  BY DEF FirstTracked
<1>4. CASE args.limit <= args.hit
  <2>1. FoundIdx = {}
    BY <1>1, <1>4 DEF FoundIdx
  <2>2. cyc = f.setup + args.limit * f.body + f.notfound + f.shutdown
    <3>1. ~(args.hit < args.limit)
      BY <1>1, <1>4
    <3>2. QED BY <1>1, <1>3, <3>1, Zenon DEF FirstLeft, Leaving, f
  <2>3. cyc = TimeOfSearch(f, args.limit, FoundIdx)
    <3>1. f.setup + args.limit * f.body + f.notfound
          = f.setup + (args.limit * f.body + f.notfound)
      <4>1. f.setup \in Nat /\ f.notfound \in Nat /\ args.limit * f.body \in Nat
        BY <1>1, OneMore
      <4> DEFINE k == args.limit * f.body
      <4>2. k \in Nat
        BY <4>1
      <4> HIDE DEF k
      <4>3. f.setup + k + f.notfound = f.setup + (k + f.notfound)
        BY <4>1, <4>2
      <4>4. QED BY <4>3 DEF k
    <3>2. QED BY <2>1, <2>2, <3>1, Zenon DEF TimeOfSearch
  <2>4. QED BY <1>2, <2>3
<1>5. CASE args.hit < args.limit
  <2>1. FoundIdx = {args.hit} /\ Min({args.hit}) = args.hit
    BY <1>1, <1>5, MinOne, SMTT(30) DEF FoundIdx
  <2>2. cyc = f.setup + args.hit * f.body + f.found + f.shutdown
    <3>1. ~(args.limit <= args.hit)
      BY <1>1, <1>5
    <3>2. QED BY <1>1, <1>3, <3>1, Zenon DEF FirstLeft, Leaving, f
  <2>3. cyc = TimeOfSearch(f, args.limit, FoundIdx)
    <3>1. f.setup + args.hit * f.body + f.found = f.setup + (args.hit * f.body + f.found)
      <4>1. f.setup \in Nat /\ f.found \in Nat /\ args.hit * f.body \in Nat
        BY <1>1, OneMore
      <4> DEFINE k == args.hit * f.body
      <4>2. k \in Nat
        BY <4>1
      <4> HIDE DEF k
      <4>3. f.setup + k + f.found = f.setup + (k + f.found)
        BY <4>1, <4>2
      <4>4. QED BY <4>3 DEF k
    <3>2. {args.hit} # {}
      OBVIOUS
    <3>3. QED BY <2>1, <2>2, <3>1, <3>2, Zenon DEF TimeOfSearch
  <2>4. QED BY <1>2, <2>3
<1>6. QED BY <1>1, <1>4, <1>5


-----------------------------------------------------------------------------
(* The search that gcc has rotated.                                        *)

\* Its branches: the guard at q, the entry at j, the test at b, the match at m.
RotatedShape(l, q, j, b, m) ==
  /\ Listed(l) /\ q \in 1..Len(l) /\ j \in 1..Len(l) /\ b \in 1..Len(l) /\ m \in 1..Len(l)
  /\ q < j /\ j < b /\ b < m
  /\ Targeting(l) = {q, j, b, m} /\ \A a \in 1..m : l[a].op # "jalr"
  /\ l[q].op = "beq" /\ l[j].op = "jal" /\ l[b].op = "beq" /\ l[m].op = "bne"
  /\ l[j].to = b + 1 /\ l[m].to = j + 1 /\ m < l[q].to /\ m < l[b].to

\* Up to the guard, up to the entry, the latch, the body, and the rest.
LEMMA RotatedBlocks ==
  ASSUME NEW l, NEW q, NEW j, NEW b, NEW m, RotatedShape(l, q, j, b, m)
  PROVE  /\ q + 1 \in Leaders(l) /\ j + 1 \in Leaders(l) /\ b + 1 \in Leaders(l) /\ m + 1 \in Leaders(l)
         /\ l[q].to \in Leaders(l) /\ l[b].to \in Leaders(l)
         /\ \A c \in Leaders(l) : c \in 1..Len(l) /\ (c <= m => c \in {1, q + 1, j + 1, b + 1})
         /\ \A a \in DOMAIN l : /\ Block(l)[a] = j + 1 <=> a \in (j + 1)..b
                                /\ Block(l)[a] = b + 1 <=> a \in (b + 1)..m
         /\ LastIn(l)[1] = q /\ LastIn(l)[q + 1] = j /\ LastIn(l)[j + 1] = b /\ LastIn(l)[b + 1] = m
<1>1. /\ Listed(l) /\ Len(l) \in Nat /\ DOMAIN l = 1..Len(l)
      /\ q \in 1..Len(l) /\ j \in 1..Len(l) /\ b \in 1..Len(l) /\ m \in 1..Len(l)
      /\ q < j /\ j < b /\ b < m /\ Targeting(l) = {q, j, b, m}
      /\ \A a \in 1..m : l[a].op # "jalr"
      /\ l[j].to = b + 1 /\ l[m].to = j + 1 /\ m < l[q].to /\ m < l[b].to
  BY Listing DEF RotatedShape
<1>2. /\ q + 1 \in Leaders(l) /\ j + 1 \in Leaders(l) /\ b + 1 \in Leaders(l) /\ m + 1 \in Leaders(l)
      /\ l[q].to \in 1..Len(l) /\ l[q].to \in Leaders(l) /\ l[b].to \in 1..Len(l) /\ l[b].to \in Leaders(l)
  <2>1. q \in Targeting(l) /\ j \in Targeting(l) /\ b \in Targeting(l) /\ m \in Targeting(l)
    BY <1>1
  <2>2. l[q].to \in 1..Len(l) /\ l[q].to \in Leaders(l) /\ l[b].to \in 1..Len(l) /\ l[b].to \in Leaders(l)
    BY <1>1, <2>1, BranchLeads
  <2>3. q < Len(l) /\ j < Len(l) /\ b < Len(l) /\ m < Len(l)
    BY <1>1, <2>2
  <2>4. QED BY <1>1, <2>1, <2>2, <2>3, BranchLeads
<1>3. \A c \in Leaders(l) : c \in 1..Len(l) /\ (c <= m => c \in {1, q + 1, j + 1, b + 1})
  <2> SUFFICES ASSUME NEW c \in Leaders(l)
               PROVE  c \in 1..Len(l) /\ (c <= m => c \in {1, q + 1, j + 1, b + 1})
    OBVIOUS
  <2>1. c \in 1..Len(l)
    BY <1>1, LeadersType
  <2>2. ASSUME c <= m PROVE c \in {1, q + 1, j + 1, b + 1}
    <3>1. \/ c = 1
          \/ \E a \in Targeting(l) : c = l[a].to
          \/ \E a \in Targeting(l) : c = a + 1
      BY <1>1, <2>2, EarlyLeaders
    <3>2. QED BY <1>1, <1>2, <2>1, <2>2, <3>1
  <2>3. QED BY <2>1, <2>2
<1>4. LastIn(l)[1] = q
  <2>1. /\ \A c \in Leaders(l) : c <= 1 \/ q < c
        /\ 1 \in 1..Len(l) /\ 1 <= q
    BY <1>1, <1>3
  <2>2. QED BY <1>1, <1>2, <2>1, BlockSpan, LeadersType
<1>5. LastIn(l)[q + 1] = j
  <2>1. /\ \A c \in Leaders(l) : c <= q + 1 \/ j < c
        /\ q + 1 \in 1..Len(l) /\ q + 1 <= j
    BY <1>1, <1>3
  <2>2. QED BY <1>1, <1>2, <2>1, BlockSpan
<1>6. /\ \A a \in DOMAIN l : Block(l)[a] = j + 1 <=> a \in (j + 1)..b
      /\ LastIn(l)[j + 1] = b
  <2>1. /\ \A c \in Leaders(l) : c <= j + 1 \/ b < c
        /\ j + 1 \in 1..Len(l) /\ j + 1 <= b
    BY <1>1, <1>3
  <2>2. QED BY <1>1, <1>2, <2>1, BlockSpan
<1>7. /\ \A a \in DOMAIN l : Block(l)[a] = b + 1 <=> a \in (b + 1)..m
      /\ LastIn(l)[b + 1] = m
  <2>1. /\ \A c \in Leaders(l) : c <= b + 1 \/ m < c
        /\ b + 1 \in 1..Len(l) /\ b + 1 <= m
    BY <1>1, <1>3
  <2>2. QED BY <1>1, <1>2, <2>1, BlockSpan
<1>8. QED BY <1>2, <1>3, <1>4, <1>5, <1>6, <1>7

\* Its edges, and the only one of them that leads back.
RotatedEdging(l, q, j, b, m) ==
  LET E == Edges(BuildCfg(l))
  IN  /\ <<q + 1, b + 1>> \in E /\ <<j + 1, b + 1>> \in E /\ <<j + 1, l[b].to>> \in E
      /\ <<b + 1, j + 1>> \in E /\ <<b + 1, m + 1>> \in E
      /\ \A e \in E : /\ e[1] \in 1..Len(l) /\ e[2] \in 1..Len(l)
                      /\ e[1] <= m => e[1] \in {1, q + 1, j + 1, b + 1}
                      /\ e[1] = 1 => e[2] \in {q + 1, l[q].to}
                      /\ e[1] = q + 1 => e[2] = b + 1
                      /\ e[1] = j + 1 => e[2] \in {b + 1, l[b].to}
                      /\ e[1] = b + 1 => e[2] \in {j + 1, m + 1}
                      /\ m < e[1] => e[1] < e[2]
LEMMA RotatedEdges ==
  ASSUME NEW l, NEW q, NEW j, NEW b, NEW m, RotatedShape(l, q, j, b, m)
  PROVE  RotatedEdging(l, q, j, b, m)
<1> DEFINE E == Edges(BuildCfg(l))   x == l[b].to   w == l[q].to   last(c) == LastIn(l)[c]
<1>1. /\ Listed(l) /\ Len(l) \in Nat /\ DOMAIN l = 1..Len(l)
      /\ q \in 1..Len(l) /\ j \in 1..Len(l) /\ b \in 1..Len(l) /\ m \in 1..Len(l)
      /\ q < j /\ j < b /\ b < m /\ Targeting(l) = {q, j, b, m}
      /\ l[q].op = "beq" /\ l[j].op = "jal" /\ l[b].op = "beq" /\ l[m].op = "bne"
      /\ l[j].to = b + 1 /\ l[m].to = j + 1 /\ m < w /\ m < x
  BY Listing DEF RotatedShape
<1>2. /\ 1 \in Leaders(l) /\ q + 1 \in Leaders(l) /\ j + 1 \in Leaders(l) /\ b + 1 \in Leaders(l)
      /\ m + 1 \in Leaders(l) /\ w \in Leaders(l) /\ x \in Leaders(l)
      /\ \A c \in Leaders(l) : c \in 1..Len(l) /\ (c <= m => c \in {1, q + 1, j + 1, b + 1})
      /\ last(1) = q /\ last(q + 1) = j /\ last(j + 1) = b /\ last(b + 1) = m
  BY <1>1, RotatedBlocks, LeadersType, SMTT(30)
<1>3. x \in 1..Len(l) /\ w \in 1..Len(l)
  BY <1>2
<1> HIDE DEF x, w, last
<1>4. ASSUME NEW c \in Leaders(l), NEW t
      PROVE  <<c, t>> \in E <=> \/ last(c) \in Targeting(l) /\ t = l[last(c)].to
                                \/ /\ l[last(c)].op \notin {"jal", "jalr"} /\ last(c) < Len(l)
                                   /\ t = last(c) + 1
  BY <1>1, EdgeOf DEF last
<1> HIDE DEF E
<1>5. \A t : <<1, t>> \in E => t \in {q + 1, w}
  BY <1>1, <1>2, <1>4 DEF w
<1>6. <<q + 1, b + 1>> \in E /\ \A t : <<q + 1, t>> \in E => t = b + 1
  <2>1. j \in Targeting(l) /\ l[j].op \in {"jal", "jalr"}
    BY <1>1
  <2>2. QED BY <1>1, <1>2, <1>4, <2>1
<1>7. /\ <<j + 1, b + 1>> \in E /\ <<j + 1, x>> \in E
      /\ \A t : <<j + 1, t>> \in E => t \in {b + 1, x}
  <2>1. b \in Targeting(l) /\ b < Len(l) /\ l[b].op \notin {"jal", "jalr"} /\ l[b].to = x
    BY <1>1 DEF x
  <2>2. QED BY <1>2, <1>4, <2>1
<1>8. /\ <<b + 1, j + 1>> \in E /\ <<b + 1, m + 1>> \in E
      /\ \A t : <<b + 1, t>> \in E => t \in {j + 1, m + 1}
  <2>1. m \in Targeting(l) /\ m < Len(l) /\ l[m].op \notin {"jal", "jalr"}
    BY <1>1, <1>3
  <2>2. QED BY <1>1, <1>2, <1>4, <2>1, SMTT(30)
<1>9. ASSUME NEW c \in Leaders(l), m < c, NEW t, <<c, t>> \in E PROVE c < t
  <2>1. c <= last(c) /\ last(c) \in 1..Len(l)
    BY <1>1, LastOf, BlockOf DEF last
  <2>2. last(c) \notin Targeting(l)
    <3>1. c \in 1..Len(l)
      BY <1>2
    <3>2. m < last(c)
      BY <1>1, <1>9, <2>1, <3>1
    <3>3. QED BY <1>1, <3>2
  <2>3. t = last(c) + 1
    BY <1>4, <1>9, <2>2
  <2>4. QED BY <1>2, <2>1, <2>3
<1>10. \A e \in E : e = <<e[1], e[2]>> /\ e[1] \in Leaders(l) /\ e[2] \in Leaders(l)
  BY <1>1, EdgesArePairs DEF E
<1>11. ASSUME NEW e \in E
       PROVE  /\ e[1] \in 1..Len(l) /\ e[2] \in 1..Len(l)
              /\ e[1] <= m => e[1] \in {1, q + 1, j + 1, b + 1}
              /\ e[1] = 1 => e[2] \in {q + 1, w}
              /\ e[1] = q + 1 => e[2] = b + 1
              /\ e[1] = j + 1 => e[2] \in {b + 1, x}
              /\ e[1] = b + 1 => e[2] \in {j + 1, m + 1}
              /\ m < e[1] => e[1] < e[2]
  <2> DEFINE c == e[1]   t == e[2]
  <2>1. <<c, t>> \in E /\ c \in Leaders(l) /\ t \in Leaders(l)
    BY <1>10
  <2> HIDE DEF c, t
  <2>2. /\ c \in 1..Len(l) /\ t \in 1..Len(l) /\ (c <= m => c \in {1, q + 1, j + 1, b + 1})
        /\ (c = 1 => t \in {q + 1, w}) /\ (c = q + 1 => t = b + 1)
        /\ (c = j + 1 => t \in {b + 1, x}) /\ (c = b + 1 => t \in {j + 1, m + 1}) /\ (m < c => c < t)
    BY <1>2, <1>5, <1>6, <1>7, <1>8, <1>9, <2>1
  <2>3. QED BY <2>2 DEF c, t
<1>12. QED BY <1>6, <1>7, <1>8, <1>11 DEF RotatedEdging, E, x, w


\* The loop is what lies behind the entry, and is entered in its middle.
RotatedLooped(l, q, j, b, m) ==
  LET g == BuildCfg(l)
      loop == NaturalLoop(g, j + 1)
  IN  /\ LoopHeaders(g) = {j + 1} /\ loop = {j + 1, b + 1}
      /\ Insns(g, loop) = (j + 1)..m /\ Insns(g, {j + 1}) = (j + 1)..b /\ Insns(g, {b + 1}) = (b + 1)..m
      /\ Into(g, loop) = {j, m} /\ ExitEdges(g, loop) = {<<j + 1, l[b].to>>, <<b + 1, m + 1>>}
      /\ Succ(g, {b + 1}) = {j + 1, m + 1} /\ g.block[b] = j + 1 /\ g.block[m] = b + 1
      /\ EntryBlock(g, j + 1, loop) = b + 1
LEMMA RotatedLoop ==
  ASSUME NEW l, NEW q, NEW j, NEW b, NEW m, RotatedShape(l, q, j, b, m)
  PROVE  RotatedLooped(l, q, j, b, m)
<1> DEFINE g == BuildCfg(l)   E == Edges(g)   x == l[b].to   w == l[q].to   N == {j + 1, b + 1}
           A == {c \in Leaders(l) : m < c}   loop == NaturalLoop(g, j + 1)
<1>1. /\ Listed(l) /\ Len(l) \in Nat /\ DOMAIN l = 1..Len(l)
      /\ q \in 1..Len(l) /\ j \in 1..Len(l) /\ b \in 1..Len(l) /\ m \in 1..Len(l)
      /\ q < j /\ j < b /\ b < m /\ Targeting(l) = {q, j, b, m}
      /\ l[j].to = b + 1 /\ l[m].to = j + 1 /\ m < w /\ m < x
  BY Listing DEF RotatedShape
<1>2. /\ j + 1 \in Leaders(l) /\ b + 1 \in Leaders(l) /\ m + 1 \in Leaders(l) /\ x \in Leaders(l) /\ w \in Leaders(l)
      /\ \A c \in Leaders(l) : c \in 1..Len(l) /\ (c <= m => c \in {1, q + 1, j + 1, b + 1})
      /\ \A a \in DOMAIN l : /\ Block(l)[a] = j + 1 <=> a \in (j + 1)..b
                             /\ Block(l)[a] = b + 1 <=> a \in (b + 1)..m
  BY RotatedBlocks
<1>3. /\ <<q + 1, b + 1>> \in E /\ <<j + 1, b + 1>> \in E /\ <<j + 1, x>> \in E
      /\ <<b + 1, j + 1>> \in E /\ <<b + 1, m + 1>> \in E
      /\ \A e \in E : /\ e[1] \in 1..Len(l) /\ e[2] \in 1..Len(l)
                      /\ e[1] <= m => e[1] \in {1, q + 1, j + 1, b + 1}
                      /\ e[1] = 1 => e[2] \in {q + 1, w}
                      /\ e[1] = q + 1 => e[2] = b + 1
                      /\ e[1] = j + 1 => e[2] \in {b + 1, x}
                      /\ e[1] = b + 1 => e[2] \in {j + 1, m + 1}
                      /\ m < e[1] => e[1] < e[2]
  <2>1. RotatedEdging(l, q, j, b, m)
    BY RotatedEdges
  <2>2. QED BY <2>1 DEF RotatedEdging
<1>4. \A e \in E : e = <<e[1], e[2]>> /\ e[1] \in Leaders(l) /\ e[2] \in Leaders(l)
  BY <1>1, EdgesArePairs
<1> HIDE DEF x, w, E
<1>5. LoopHeaders(g) = {j + 1}
  <2>1. \A e \in E : e[2] <= e[1] => e[2] = j + 1
    <3> SUFFICES ASSUME NEW e \in E, e[2] <= e[1] PROVE e[2] = j + 1
      OBVIOUS
    <3> DEFINE c == e[1]   t == e[2]
    <3>1. /\ c \in 1..Len(l) /\ t \in 1..Len(l) /\ t <= c /\ (c <= m => c \in {1, q + 1, j + 1, b + 1})
          /\ (c = 1 => t \in {q + 1, w}) /\ (c = q + 1 => t = b + 1)
          /\ (c = j + 1 => t \in {b + 1, x}) /\ (c = b + 1 => t \in {j + 1, m + 1}) /\ (m < c => c < t)
      BY <1>3
    <3> HIDE DEF c, t
    <3>2. t = j + 1
      BY <1>1, <3>1 DEF x, w
    <3>3. QED BY <3>2 DEF t
  <2> DEFINE d == <<b + 1, j + 1>>
  <2>2. d \in E /\ d[1] = b + 1 /\ d[2] = j + 1
    BY <1>3
  <2> HIDE DEF d
  <2>3. d[2] <= d[1]
    BY <1>1, <2>2
  <2>4. QED BY <2>1, <2>2, <2>3 DEF LoopHeaders, BackEdges, E
<1>6. loop = N
  <2>1. \A c \in N : c \in Onwards(l, j + 1) /\ j + 1 \in Onwards(l, c)
    <3> DEFINE d == <<j + 1, b + 1>>   u == <<b + 1, j + 1>>
    <3>1. d \in E /\ u \in E /\ d[1] = j + 1 /\ d[2] = b + 1 /\ u[1] = b + 1 /\ u[2] = j + 1
      BY <1>3
    <3> HIDE DEF d, u
    <3>2. /\ b + 1 \in Onwards(l, j + 1) /\ j + 1 \in Onwards(l, b + 1)
          /\ j + 1 \in Onwards(l, j + 1)
      BY <1>1, <1>2, <3>1, Reaching DEF E
    <3>3. QED BY <3>2
  <2>2. \A e \in E : (e[1] \in N => e[2] \in N \cup A) /\ (e[1] \in A => e[2] \in A)
    <3> SUFFICES ASSUME NEW e \in E PROVE (e[1] \in N => e[2] \in N \cup A) /\ (e[1] \in A => e[2] \in A)
      OBVIOUS
    <3>1. x \in A /\ m + 1 \in A
      BY <1>1, <1>2 DEF x
    <3>2. e[1] \in N => e[2] \in N \cup A
      BY <1>3, <3>1
    <3>3. e[1] \in A => e[2] \in A
      BY <1>1, <1>3, <1>4
    <3>4. QED BY <3>2, <3>3
  <2>3. N \cap A = {} /\ N \in SUBSET Leaders(l) /\ A \in SUBSET Leaders(l) /\ j + 1 \in N
    BY <1>1, <1>2
  <2> DEFINE h == j + 1
  <2>4. h \in N /\ \A c \in N : c \in Onwards(l, h) /\ h \in Onwards(l, c)
    BY <2>1, <2>3
  <2>5. loop = NaturalLoop(g, h)
    OBVIOUS
  <2> HIDE DEF N, A, h, loop
  <2>6. /\ N \in SUBSET Leaders(l) /\ A \in SUBSET Leaders(l) /\ N \cap A = {} /\ Listed(l)
        /\ \A e \in Edges(BuildCfg(l)) : (e[1] \in N => e[2] \in N \cup A) /\ (e[1] \in A => e[2] \in A)
    BY <1>1, <2>2, <2>3 DEF E
  <2>7. NaturalLoop(BuildCfg(l), h) = N
    BY <2>4, <2>6, LoopIs
  <2>8. QED BY <2>5, <2>7
<1> HIDE DEF loop
<1>7. g.l = l /\ g.block = Block(l) /\ Addresses(g) = 1..Len(l)
  BY <1>1, Graph DEF Addresses
<1>8. /\ Insns(g, loop) = (j + 1)..m /\ Insns(g, {j + 1}) = (j + 1)..b /\ Insns(g, {b + 1}) = (b + 1)..m
  <2>1. \A a \in 1..Len(l) : /\ Block(l)[a] \in loop <=> a \in (j + 1)..m
                             /\ Block(l)[a] \in {j + 1} <=> a \in (j + 1)..b
                             /\ Block(l)[a] \in {b + 1} <=> a \in (b + 1)..m
    BY <1>1, <1>2, <1>6
  <2>2. (j + 1)..m \subseteq 1..Len(l) /\ (j + 1)..b \subseteq 1..Len(l) /\ (b + 1)..m \subseteq 1..Len(l)
    BY <1>1
  <2>3. QED BY <1>7, <2>1, <2>2, Zenon DEF Insns
<1>9. x \notin N /\ w \notin N /\ m + 1 \notin N /\ q + 1 \notin N
  BY <1>1
<1>10. Into(g, loop) = {j, m}
  <2>1. l[q].to \notin loop /\ l[b].to \notin loop /\ l[j].to \in loop /\ l[m].to \in loop
    BY <1>1, <1>6, <1>9 DEF x, w
  <2>2. QED BY <1>1, <1>7, <2>1 DEF Into
<1>11. ExitEdges(g, loop) = {<<j + 1, x>>, <<b + 1, m + 1>>}
  <2>1. ASSUME NEW e \in E, e[1] \in N, e[2] \notin N PROVE e \in {<<j + 1, x>>, <<b + 1, m + 1>>}
    BY <1>3, <1>4, <2>1
  <2>2. QED BY <1>3, <1>6, <1>9, <2>1 DEF ExitEdges, E
<1>12. Succ(g, {b + 1}) = {j + 1, m + 1}
  <2>1. \A t : t \in Succ(g, {b + 1}) <=> <<b + 1, t>> \in E
    BY <1>4 DEF Succ, E
  <2>2. \A t : <<b + 1, t>> \in E => t \in {j + 1, m + 1}
    BY <1>3
  <2>3. QED BY <1>3, <2>1, <2>2
<1>13. g.block[b] = j + 1 /\ g.block[m] = b + 1
  BY <1>1, <1>2, <1>7
<1>14. EntryBlock(g, j + 1, loop) = b + 1
  <2> DEFINE d == <<q + 1, b + 1>>   into == {e \in E : e[1] = q + 1 /\ e[2] \in loop}
  <2>1. ASSUME NEW e \in E, e[2] \in N, e[1] \notin N PROVE e = d
    <3>1. e[1] = q + 1 /\ e[2] = b + 1
      <4> DEFINE c == e[1]   t == e[2]
      <4>1. /\ c \in 1..Len(l) /\ t \in 1..Len(l) /\ t \in {j + 1, b + 1} /\ c \notin {j + 1, b + 1}
            /\ (c <= m => c \in {1, q + 1, j + 1, b + 1})
            /\ (c = 1 => t \in {q + 1, w}) /\ (c = q + 1 => t = b + 1) /\ (m < c => c < t)
        BY <1>3, <2>1
      <4> HIDE DEF c, t
      <4>2. c = q + 1 /\ t = b + 1
        BY <1>1, <4>1 DEF w
      <4>3. QED BY <4>2 DEF c, t
    <3>2. QED BY <1>4, <3>1
  <2>2. d \in E /\ d[1] = q + 1 /\ d[2] = b + 1 /\ b + 1 \in N
    BY <1>3
  <2> HIDE DEF d
  <2>3. Pred(g, loop) \ loop = {q + 1}
    BY <1>6, <1>9, <2>1, <2>2 DEF Pred, E
  <2>4. into = {d}
    BY <1>6, <1>9, <2>1, <2>2
  <2>5. Min({q + 1}) = q + 1
    <3>1. q + 1 \in Int
      BY <1>1
    <3>2. QED BY <3>1, MinOne
  <2>6. EntryBlock(g, j + 1, loop) = (CHOOSE e \in into : e \in g.jumps \/ into \cap g.jumps = {})[2]
    <3>1. {q + 1} # {}
      OBVIOUS
    <3>2. QED BY <2>3, <2>5, <3>1, Zenon DEF EntryBlock, E
  <2> HIDE DEF into
  <2>7. (CHOOSE e \in into : e \in g.jumps \/ into \cap g.jumps = {}) = d
    BY <2>4
  <2>8. QED BY <2>2, <2>6, <2>7, Zenon
<1>15. QED BY <1>5, <1>6, <1>8, <1>10, <1>11, <1>12, <1>13, <1>14 DEF RotatedLooped, loop, x


\* What is told of the loop when i is its index.
LEMMA RotatedExits ==
  ASSUME NEW l, NEW q, NEW j, NEW b, NEW m, RotatedShape(l, q, j, b, m), l[b].r = "i", l[m].r = "v",
         IndexReg(BuildCfg(l), NaturalLoop(BuildCfg(l), j + 1)) = {"i"}
  PROVE  /\ Conditionals(BuildCfg(l)) \cap 1..m = {q, b, m}
         /\ LoopBound(BuildCfg(l), NaturalLoop(BuildCfg(l), j + 1)) = {b}
         /\ SearchExits(BuildCfg(l), NaturalLoop(BuildCfg(l), j + 1), 1..Len(l)) = {ExitPair(b, m)}
<1> DEFINE g == BuildCfg(l)   x == l[b].to   loop == NaturalLoop(g, j + 1)
<1>1. /\ Listed(l) /\ Len(l) \in Nat /\ DOMAIN l = 1..Len(l)
      /\ q \in 1..Len(l) /\ j \in 1..Len(l) /\ b \in 1..Len(l) /\ m \in 1..Len(l)
      /\ q < j /\ j < b /\ b < m /\ Targeting(l) = {q, j, b, m}
      /\ l[q].op = "beq" /\ l[j].op = "jal" /\ l[b].op = "beq" /\ l[m].op = "bne"
      /\ l[m].to = j + 1 /\ m < x
  BY Listing DEF RotatedShape
<1>2. /\ loop = {j + 1, b + 1} /\ Insns(g, loop) = (j + 1)..m
      /\ ExitEdges(g, loop) = {<<j + 1, x>>, <<b + 1, m + 1>>}
      /\ Succ(g, {b + 1}) = {j + 1, m + 1} /\ g.block[m] = b + 1
      /\ g.l = l /\ Addresses(g) = 1..Len(l)
  <2>1. RotatedLooped(l, q, j, b, m)
    BY RotatedLoop
  <2>2. g.l = l /\ Addresses(g) = 1..Len(l)
    BY <1>1, Graph DEF Addresses
  <2>3. QED BY <2>1, <2>2 DEF RotatedLooped
<1>3. Conditionals(g) = {q, b, m}
  <2>1. \A a \in 1..Len(l) : l[a].op \in Conditional => a \in Targeting(l)
    BY <1>1 DEF Targeting, Branching, Conditional
  <2>2. \A a \in 1..Len(l) : l[a].op \in Conditional <=> a \in {q, b, m}
    BY <1>1, <2>1 DEF Conditional
  <2>3. {q, b, m} \subseteq 1..Len(l)
    BY <1>1
  <2>4. QED BY <1>2, <2>2, <2>3 DEF Conditionals
<1>4. {e[1] : e \in ExitEdges(g, loop)} = loop
  <2> DEFINE u == <<j + 1, x>>   v == <<b + 1, m + 1>>
  <2>1. u[1] = j + 1 /\ v[1] = b + 1 /\ ExitEdges(g, loop) = {u, v}
    BY <1>2
  <2> HIDE DEF u, v
  <2>2. QED BY <1>2, <2>1
<1> HIDE DEF loop, g, x
<1>5. Insns(g, loop) \cap Conditionals(g) = {b, m}
  BY <1>1, <1>2, <1>3
<1>6. LoopBound(g, loop) = {b}
  <2> DEFINE bounding == {a \in Insns(g, loop) \cap Conditionals(g) : g.l[a].r \in IndexReg(g, loop)}
  <2>1. bounding = {b}
    <3>1. IndexReg(g, loop) = {"i"}
      BY DEF g, loop
    <3>2. QED BY <1>2, <1>5, <3>1
  <2>2. LoopBound(g, loop) = {a \in bounding : a = Min(bounding)}
    BY <1>4, Zenon DEF LoopBound
  <2> HIDE DEF bounding
  <2>3. Min({b}) = b
    BY <1>1, MinOne
  <2>4. QED BY <2>1, <2>2, <2>3
<1>7. ExitBranches(g, loop) = {b, m}
  <2>1. l[b].to \notin loop
    BY <1>1, <1>2 DEF x
  <2>2. m + 1 \in Succ(g, {g.block[m]}) \ {l[m].to} /\ m + 1 \notin loop
    <3>1. m + 1 # j + 1 /\ m + 1 # b + 1
      BY <1>1
    <3>2. Succ(g, {g.block[m]}) = {j + 1, m + 1} /\ l[m].to = j + 1
      BY <1>1, <1>2
    <3>3. QED BY <1>2, <3>1, <3>2
  <2>3. QED BY <1>2, <1>5, <2>1, <2>2 DEF ExitBranches
<1>8. SearchExits(g, loop, 1..Len(l)) = {ExitPair(b, m)}
  <2> DEFINE on == 1..Len(l)
  <2>1. b # m /\ b \in on /\ m \in on
    BY <1>1
  <2> HIDE DEF on
  <2>2. TwoExits(g, loop, on, b, m)
    BY <1>6, <1>7, <2>1 DEF TwoExits
  <2>3. SearchExits(g, loop, on) = {ExitPair(b, m)}
    BY <2>2, ExitsAre
  <2>4. QED BY <2>3 DEF on
<1>9. Conditionals(g) \cap 1..m = {q, b, m}
  <2>1. {q, b, m} \subseteq 1..m
    BY <1>1
  <2>2. QED BY <1>3, <2>1
<1>10. QED BY <1>6, <1>8, <1>9 DEF g, loop

\* The form of such a search.
RotatedForm(l, q, j, b, m) ==
  LET g == BuildCfg(l)
      in == {j, m}
  IN  [pro |-> Spent(l, 1, j, in), cont |-> Spent(l, b + 1, m, in) + Spent(l, j + 1, b, in),
       exit |-> Spent(l, b + 1, m, in) + (Spent(l, j + 1, b - 1, in) + Taken(l, b)),
       found |-> Spent(l, b + 1, m - 1, in) + Passed(l, m),
       shutNotFound |-> StraightlineFrom(g, l[b].to), shutFound |-> StraightlineFrom(g, m + 1),
       guard |-> (Spent(l, 1, q - 1, in) + Taken(l, q)) + StraightlineFrom(g, l[q].to)]

\* The lifter finds that form, and only that one.
LEMMA RotatedFormIs ==
  ASSUME NEW l, NEW q, NEW j, NEW b, NEW m, RotatedShape(l, q, j, b, m), l[b].r = "i", l[m].r = "v",
         IndexReg(BuildCfg(l), NaturalLoop(BuildCfg(l), j + 1)) = {"i"}
  PROVE  LiftResult(BuildCfg(l)).bottom = {RotatedForm(l, q, j, b, m)}
<1> DEFINE g == BuildCfg(l)   h == j + 1   loop == NaturalLoop(g, h)   in == {j, m}
<1>1. /\ Listed(l) /\ Len(l) \in Nat /\ DOMAIN l = 1..Len(l)
      /\ q \in 1..Len(l) /\ j \in 1..Len(l) /\ b \in 1..Len(l) /\ m \in 1..Len(l)
      /\ q < j /\ j < b /\ b < m /\ l[m].to = j + 1 /\ m < l[b].to
  BY Listing DEF RotatedShape
<1>2. /\ LoopHeaders(g) = {h} /\ loop = {j + 1, b + 1} /\ Insns(g, {j + 1}) = (j + 1)..b
      /\ Insns(g, {b + 1}) = (b + 1)..m /\ Into(g, loop) = in
      /\ EntryBlock(g, h, loop) = b + 1 /\ g.block[b] = j + 1 /\ g.l = l /\ Addresses(g) = 1..Len(l)
  <2>1. RotatedLooped(l, q, j, b, m)
    BY RotatedLoop
  <2>2. g.l = l /\ Addresses(g) = 1..Len(l)
    BY <1>1, Graph DEF Addresses
  <2>3. QED BY <2>1, <2>2 DEF RotatedLooped
<1>3. /\ Conditionals(g) \cap 1..m = {q, b, m} /\ LoopBound(g, loop) = {b}
      /\ SearchExits(g, loop, 1..Len(l)) = {ExitPair(b, m)}
  BY RotatedExits
<1>4. Min(loop) - 1 = j
  <2>1. j + 1 \in Int /\ b + 1 \in Int /\ j + 1 <= b + 1
    BY <1>1
  <2>2. \A y : (y \in {j + 1, b + 1} /\ \A k \in {j + 1, b + 1} : y <= k) <=> y = j + 1
    BY <1>1
  <2>3. Min({j + 1, b + 1}) = j + 1
    BY <2>2 DEF Min
  <2>4. Min(loop) = j + 1
    BY <1>2, <2>3, Zenon
  <2>5. QED BY <1>1, <2>4
<1> DEFINE guards == {a \in (1..j) \cap Conditionals(g) : a \notin in}
<1>5. guards = {q} /\ Min(guards) = q
  <2>1. guards = {q}
    <3>1. \A a \in 1..j : a \in Conditionals(g) <=> a = q
      <4>1. 1..j \subseteq 1..m
        BY <1>1
      <4>2. b \notin 1..j /\ m \notin 1..j /\ q \in 1..j
        BY <1>1
      <4>3. QED BY <1>3, <4>1, <4>2
    <3>2. q \in 1..j /\ q \notin in
      BY <1>1
    <3>3. QED BY <3>1, <3>2
  <2>2. q \in Int
    BY <1>1
  <2> HIDE DEF guards
  <2>3. QED BY <2>1, <2>2, MinOne
<1>6. BottomTest(g, h, loop)
  <2>1. b + 1 # j + 1
    BY <1>1
  <2>2. QED BY <1>2, <1>3, <2>1 DEF BottomTest
<1>7. Cost(g, 1..q, in \cup {q}) = Spent(l, 1, q - 1, in) + Taken(l, q)
  <2> DEFINE U == in \cup {q}
  <2>1. Agree(l, 1, q, in, U) /\ q \in U
    BY <1>1 DEF Agree
  <2> HIDE DEF U, in
  <2>2. Spent(l, 1, q, U) = Spent(l, 1, q - 1, in) + Taken(l, q)
    BY <2>1, SpentOther
  <2>3. QED BY <2>2 DEF Spent, U
<1>8. Cost(g, (j + 1)..b, Flip(in, b)) = Spent(l, j + 1, b - 1, in) + Taken(l, b)
  <2> DEFINE U == Flip(in, b)   y == j + 1
  <2>1. Agree(l, y, b, in, U) /\ b \in U
    BY <1>1 DEF Agree, Flip
  <2> HIDE DEF U, in, y
  <2>2. Spent(l, y, b, U) = Spent(l, y, b - 1, in) + Taken(l, b)
    BY <2>1, SpentOther
  <2>3. QED BY <2>2 DEF Spent, U, y
<1>9. Cost(g, (b + 1)..m, Flip(in, m)) = Spent(l, b + 1, m - 1, in) + Passed(l, m)
  <2> DEFINE U == Flip(in, m)   y == b + 1
  <2>1. Agree(l, y, m, in, U) /\ m \notin U
    BY <1>1 DEF Agree, Flip
  <2> HIDE DEF U, in, y
  <2>2. Spent(l, y, m, U) = Spent(l, y, m - 1, in) + Passed(l, m)
    BY <2>1, SpentOther
  <2>3. QED BY <2>2 DEF Spent, U, y
<1>10. ExitTarget(g, loop, b) = l[b].to /\ ExitTarget(g, loop, m) = m + 1
  <2>1. l[b].to \notin loop /\ l[m].to \in loop
    BY <1>1, <1>2
  <2>2. QED BY <1>2, <2>1 DEF ExitTarget
<1>11. {a \in (b + 1)..m : a <= m} = (b + 1)..m
  BY <1>1
<1> DEFINE Form(c, d) ==
      [pro |-> Cost(g, 1..j, in),
       cont |-> Cost(g, (b + 1)..m, in) + Cost(g, Insns(g, {g.block[c]}), in),
       exit |-> Cost(g, (b + 1)..m, in) + Cost(g, Insns(g, {g.block[c]}), Flip(in, c)),
       found |-> Cost(g, {a \in (b + 1)..m : a <= d}, Flip(in, d)),
       shutNotFound |-> StraightlineFrom(g, ExitTarget(g, loop, c)),
       shutFound |-> StraightlineFrom(g, ExitTarget(g, loop, d)),
       guard |-> Cost(g, 1..q, in \cup {q}) + StraightlineFrom(g, l[q].to)]
<1>12. BottomForm(g, h) = {Form(e.bound, e.match) : e \in SearchExits(g, loop, Addresses(g))}
  <2> DEFINE Early(guard) == Cost(g, 1..guard, in \cup {guard}) + StraightlineFrom(g, g.l[guard].to)
             Those(before) == {a \in before \cap Conditionals(g) : a \notin in}
             F(before, body, early, c, d) ==
               [pro |-> Cost(g, before, in),
                cont |-> Cost(g, body, in) + Cost(g, Insns(g, {g.block[c]}), in),
                exit |-> Cost(g, body, in) + Cost(g, Insns(g, {g.block[c]}), Flip(in, c)),
                found |-> Cost(g, {a \in body : a <= d}, Flip(in, d)),
                shutNotFound |-> StraightlineFrom(g, ExitTarget(g, loop, c)),
                shutFound |-> StraightlineFrom(g, ExitTarget(g, loop, d)), guard |-> early]
             Forms(before, body, early) ==
               {F(before, body, early, e.bound, e.match) : e \in SearchExits(g, loop, Addresses(g))}
             top == 1..(Min(loop) - 1)   all == Insns(g, {EntryBlock(g, h, loop)})
  <2>1. Those(1..j) = {q} /\ Min(Those(1..j)) = q
    BY <1>5
  <2>2. Early(q) = Cost(g, 1..q, in \cup {q}) + StraightlineFrom(g, l[q].to)
    BY <1>2
  <2>3. Forms(1..j, (b + 1)..m, Early(q)) = {Form(e.bound, e.match) : e \in SearchExits(g, loop, Addresses(g))}
    BY <2>2, Zenon
  <2>4. top = 1..j /\ all = (b + 1)..m
    BY <1>2, <1>4
  <2>5. BottomForm(g, h) = IF ~BottomTest(g, h, loop) \/ Those(top) = {} THEN {}
                           ELSE Forms(top, all, Early(Min(Those(top))))
    <3> HIDE DEF g, h
    <3>1. Into(g, loop) = in
      BY <1>2
    <3>2. QED BY <3>1, Zenon DEF BottomForm, loop
  <2> HIDE DEF g, h, in, loop, Forms, Those, Early, top, all
  <2>6. BottomForm(g, h) = Forms(top, all, Early(Min(Those(top))))
    BY <1>6, <2>1, <2>4, <2>5
  <2>7. BottomForm(g, h) = Forms(1..j, (b + 1)..m, Early(q))
    BY <2>1, <2>4, <2>6, Zenon
  <2>8. QED BY <2>3, <2>7, Zenon
<1>13. BottomForm(g, h) = {Form(b, m)}
  <2> DEFINE e == ExitPair(b, m)
  <2>1. e.bound = b /\ e.match = m
    BY DEF ExitPair
  <2> HIDE DEF e, Form
  <2>2. BottomForm(g, h) = {Form(e.bound, e.match)}
    BY <1>2, <1>3, <1>12 DEF e
  <2>3. QED BY <2>1, <2>2
<1>14. Form(b, m) = RotatedForm(l, q, j, b, m)
  BY <1>2, <1>7, <1>8, <1>9, <1>10, <1>11, Zenon DEF RotatedForm, Spent
<1>15. LiftResult(g).bottom = UNION {BottomForm(g, k) : k \in LoopHeaders(g)}
  BY Zenon DEF LiftResult
<1> HIDE DEF Form
<1>16. QED BY <1>2, <1>13, <1>14, <1>15


-----------------------------------------------------------------------------
(* The rotated search, round by round.                                     *)

\* On the way to the body, past the guard and into the rounds.
RotatedBefore(q, j, b, m, a, g, c) ==
  /\ a \in 1..j /\ c = Spent(listing, 1, a - 1, {j, m}) /\ (q < a => 0 < args.limit)
  /\ Held((b + 1)..m, (j + 1)..b, 0, {}, g)
\* The body searches and the latch goes on.
RotatedRound(q, j, b, m, n, a, g, c) ==
  LET f == RotatedForm(listing, q, j, b, m)
  IN  /\ a \in (b + 1)..m /\ n < args.limit /\ n <= args.hit
      /\ c = f.pro + n * f.cont + Spent(listing, b + 1, a - 1, {j, m})
      /\ Held((b + 1)..m, (j + 1)..b, n, (b + 1)..(a - 1), g)
RotatedLatch(q, j, b, m, n, a, g, c) ==
  LET f == RotatedForm(listing, q, j, b, m)
  IN  /\ a \in (j + 1)..b /\ n < args.limit /\ n < args.hit
      /\ c = f.pro + n * f.cont + Spent(listing, b + 1, m, {j, m}) + Spent(listing, j + 1, a - 1, {j, m})
      /\ Held((b + 1)..m, (j + 1)..b, n, (b + 1)..m \cup (j + 1)..(a - 1), g)
\* Out of it: the guard, the match, or the latch.
RotatedLeft(q, j, b, m, r, a, c) ==
  LET f == RotatedForm(listing, q, j, b, m)
  IN  \/ /\ args.limit = 0
         /\ Leaving(listing, listing[q].to, Spent(listing, 1, q - 1, {j, m}) + Taken(listing, q), r, a, c)
      \/ /\ args.hit < args.limit
         /\ Leaving(listing, m + 1, f.pro + args.hit * f.cont + f.found, r, a, c)
      \/ /\ 0 < args.limit /\ args.limit <= args.hit
         /\ Leaving(listing, listing[b].to, f.pro + (args.limit - 1) * f.cont + f.exit, r, a, c)
RotatedTracked(q, j, b, m, r, a, g, c) ==
  \/ r # "returned" /\ RotatedBefore(q, j, b, m, a, g, c)
  \/ r # "returned" /\ \E n \in Nat : RotatedRound(q, j, b, m, n, a, g, c)
  \/ r # "returned" /\ \E n \in Nat : RotatedLatch(q, j, b, m, n, a, g, c)
  \/ RotatedLeft(q, j, b, m, r, a, c)

\* What such a search is made of.
RotatedFacts(q, j, b, m) ==
  LET l == listing   f == RotatedForm(l, q, j, b, m)   in == {j, m}
  IN  /\ RotatedShape(l, q, j, b, m) /\ Listed(l) /\ Walks((b + 1)..m, (j + 1)..b)
      /\ l[q].r = "len" /\ l[b].r = "i" /\ l[m].r = "v"
      /\ l[q].op = "beq" /\ l[j].op = "jal" /\ l[b].op = "beq" /\ l[m].op = "bne"
      /\ \A a \in DOMAIN l : Priced(l[a])
      /\ Len(l) \in Nat /\ DOMAIN l = 1..Len(l) /\ args.limit \in Nat /\ args.hit \in Nat
      /\ q \in 1..Len(l) /\ j \in 1..Len(l) /\ b \in 1..Len(l) /\ m \in 1..Len(l)
      /\ q < j /\ j < b /\ b < m
      /\ q \in Branching(l) /\ j \in Branching(l) /\ b \in Branching(l) /\ m \in Branching(l)
      /\ \A a \in 1..m : a \notin {q, j, b, m} => a \notin Branching(l)
      /\ l[j].to = b + 1 /\ l[m].to = j + 1
      /\ Behind(l, l[q].to) /\ Behind(l, l[b].to) /\ Behind(l, m + 1)
      /\ f.pro = Spent(l, 1, j, in) /\ f.cont = Spent(l, b + 1, m, in) + Spent(l, j + 1, b, in)
      /\ f.exit = Spent(l, b + 1, m, in) + (Spent(l, j + 1, b - 1, in) + Taken(l, b))
      /\ f.found = Spent(l, b + 1, m - 1, in) + Passed(l, m)
      /\ f.shutNotFound = StraightlineFrom(BuildCfg(l), l[b].to)
      /\ f.shutFound = StraightlineFrom(BuildCfg(l), m + 1)
      /\ f.guard = (Spent(l, 1, q - 1, in) + Taken(l, q)) + StraightlineFrom(BuildCfg(l), l[q].to)
      /\ f.pro \in Nat /\ f.cont \in Nat /\ f.exit \in Nat /\ f.found \in Nat
      /\ Spent(l, b + 1, m, in) \in Nat
LEMMA RotatedHas ==
  ASSUME IInv, NEW q, NEW j, NEW b, NEW m, Rotated(q, j, b, m)
  PROVE  RotatedFacts(q, j, b, m)
<1> DEFINE l == listing   f == RotatedForm(l, q, j, b, m)   in == {j, m}
<1>1. /\ Listed(l) /\ Len(l) \in Nat /\ DOMAIN l = 1..Len(l) /\ args.limit \in Nat /\ args.hit \in Nat
  BY LifterConstants, Listing DEF IInv, Known
<1>2. /\ Targeting(l) = {q, j, b, m} /\ q < j /\ j < b /\ b < m
      /\ \A a \in 1..m : l[a].op # "jalr"
      /\ l[q].op = "beq" /\ l[q].r = "len" /\ m < l[q].to /\ l[j].op = "jal" /\ l[j].to = b + 1
      /\ l[b].op = "beq" /\ l[b].r = "i" /\ m < l[b].to
      /\ l[m].op = "bne" /\ l[m].r = "v" /\ l[m].to = j + 1
      /\ Walks((b + 1)..m, (j + 1)..b)
  BY DEF Rotated
<1>3. /\ q \in 1..Len(l) /\ j \in 1..Len(l) /\ b \in 1..Len(l) /\ m \in 1..Len(l)
      /\ l[q].to \in 1..Len(l) /\ l[b].to \in 1..Len(l)
      /\ q \in Branching(l) /\ j \in Branching(l) /\ b \in Branching(l) /\ m \in Branching(l)
  BY <1>1, <1>2, Listing DEF Targeting
<1>4. RotatedShape(l, q, j, b, m) /\ \A a \in DOMAIN l : Priced(l[a])
  BY <1>1, <1>2, <1>3 DEF RotatedShape, Walks
<1>5. \A a \in 1..m : a \notin {q, j, b, m} => a \notin Branching(l)
  <2>1. \A a \in Branching(l) : a \in Targeting(l) \/ l[a].op = "jalr"
    BY DEF Targeting
  <2>2. QED BY <1>2, <2>1
<1>6. Behind(l, l[q].to) /\ Behind(l, l[b].to) /\ Behind(l, m + 1)
  <2>1. m + 1 \in 1..Len(l)
    BY <1>1, <1>2, <1>3
  <2>2. \A a \in Targeting(l) : a < m + 1 /\ a < l[q].to /\ a < l[b].to
    BY <1>1, <1>2, <1>3
  <2>3. QED BY <1>1, <1>3, <2>1, <2>2 DEF Behind
<1>7. /\ f.pro = Spent(l, 1, j, in) /\ f.cont = Spent(l, b + 1, m, in) + Spent(l, j + 1, b, in)
      /\ f.exit = Spent(l, b + 1, m, in) + (Spent(l, j + 1, b - 1, in) + Taken(l, b))
      /\ f.found = Spent(l, b + 1, m - 1, in) + Passed(l, m)
      /\ f.shutNotFound = StraightlineFrom(BuildCfg(l), l[b].to)
      /\ f.shutFound = StraightlineFrom(BuildCfg(l), m + 1)
      /\ f.guard = (Spent(l, 1, q - 1, in) + Taken(l, q)) + StraightlineFrom(BuildCfg(l), l[q].to)
  BY DEF RotatedForm
<1>8. /\ f.pro \in Nat /\ f.cont \in Nat /\ f.exit \in Nat /\ f.found \in Nat
      /\ Spent(l, b + 1, m, in) \in Nat
  <2>1. \A x, y \in Int : Spent(l, x, y, in) \in Nat
    BY <1>1, SpentType
  <2>2. 1 \in Int /\ j \in Int /\ b \in Int /\ m \in Int /\ b + 1 \in Int /\ j + 1 \in Int /\ b - 1 \in Int /\ m - 1 \in Int
    BY <1>3
  <2>3. \A y \in Int : Passed(l, y) \in Nat /\ Taken(l, y) \in Nat
    BY <1>1, SpentType
  <2> HIDE DEF in, f
  <2>4. /\ Spent(l, 1, j, in) \in Nat /\ Spent(l, b + 1, m, in) \in Nat /\ Spent(l, j + 1, b, in) \in Nat
        /\ Spent(l, j + 1, b - 1, in) \in Nat /\ Spent(l, b + 1, m - 1, in) \in Nat
        /\ Passed(l, m) \in Nat /\ Taken(l, b) \in Nat
    BY <2>1, <2>2, <2>3
  <2>5. QED BY <1>7, <2>4
<1>9. QED BY <1>1, <1>2, <1>3, <1>4, <1>5, <1>6, <1>7, <1>8 DEF RotatedFacts

\* A step before the loop: the guard, the way in, and what is around them.
LEMMA RotatedBeforeNext ==
  ASSUME IInv, NEW q, NEW j, NEW b, NEW m, Rotated(q, j, b, m), Executed,
         RotatedBefore(q, j, b, m, pc, reg, cyc)
  PROVE  RotatedTracked(q, j, b, m, run', pc', reg', cyc')
<1> DEFINE l == listing   f == RotatedForm(l, q, j, b, m)   T == {j, m}   S == (b + 1)..m   N == (j + 1)..b
           P(y) == Spent(l, 1, y, T)
<1>1. /\ Listed(l) /\ q \in 1..Len(l) /\ j \in 1..Len(l) /\ b \in 1..Len(l) /\ m \in 1..Len(l) /\ Len(l) \in Nat
      /\ q < j /\ j < b /\ b < m /\ l[q].op = "beq" /\ l[q].r = "len" /\ l[j].op = "jal" /\ l[j].to = b + 1
      /\ q \in Branching(l) /\ j \in Branching(l)
      /\ \A a \in 1..m : a \notin {q, j, b, m} => a \notin Branching(l)
      /\ Behind(l, l[q].to) /\ f.pro = P(j) /\ f.pro \in Nat /\ f.cont \in Nat
      /\ args.limit \in Nat /\ args.hit \in Nat
  <2>1. RotatedFacts(q, j, b, m)
    BY RotatedHas
  <2>2. QED BY <2>1 DEF RotatedFacts
<1>2. pc \in 1..j /\ cyc = P(pc - 1) /\ (q < pc => 0 < args.limit) /\ Held(S, N, 0, {}, reg)
  BY DEF RotatedBefore
<1>3. /\ pc \in 1..m /\ pc # b /\ pc # m /\ pc \in 1..Len(l) /\ pc \in Int /\ 1 <= pc
      /\ pc \notin S \cup N
  BY <1>1, <1>2
<1>4. /\ pc # j => P(pc) = P(pc - 1) + Passed(l, pc)
      /\ pc = j => P(pc) = P(pc - 1) + Taken(l, pc)
      /\ P(pc - 1) \in Nat /\ Taken(l, pc) \in Nat
  <2>1. pc = j <=> pc \in T
    BY <1>3
  <2> HIDE DEF T
  <2>2. /\ pc \notin T => P(pc) = P(pc - 1) + Passed(l, pc)
        /\ pc \in T => P(pc) = P(pc - 1) + Taken(l, pc)
    <3>1. 1 \in Nat \ {0}
      OBVIOUS
    <3>2. QED BY <1>1, <1>3, <3>1, SpentNext
  <2>3. P(pc - 1) \in Nat /\ Taken(l, pc) \in Nat
    <3>1. 1 \in Int /\ pc - 1 \in Int
      BY <1>3
    <3>2. QED BY <1>1, <1>3, <3>1, SpentType
  <2>4. QED BY <2>1, <2>2, <2>3
<1> HIDE DEF P, f
<1>5. ASSUME Computed \/ reg' = reg PROVE Held(S, N, 0, {}, reg')
  <2> HIDE DEF S, N
  <2>1. QED BY <1>2, <1>3, <1>5, HeldBefore
<1>6. ASSUME Passes, pc # j, Computed \/ reg' = reg, q <= pc => 0 < args.limit
      PROVE  RotatedTracked(q, j, b, m, run', pc', reg', cyc')
  <2>1. pc' = pc + 1 /\ run' # "returned" /\ cyc' = cyc + Passed(l, pc)
    BY <1>6 DEF Passes
  <2>2. cyc' = P(pc' - 1)
    <3>1. pc' - 1 = pc
      BY <1>3, <2>1
    <3>2. QED BY <1>2, <1>4, <1>6, <2>1, <3>1
  <2>3. pc' \in 1..j /\ (q < pc' => 0 < args.limit)
    BY <1>1, <1>2, <1>6, <2>1, SMTT(30)
  <2>4. RotatedBefore(q, j, b, m, pc', reg', cyc')
    BY <1>5, <1>6, <2>2, <2>3, Zenon DEF RotatedBefore, P
  <2>5. QED BY <2>1, <2>4 DEF RotatedTracked
<1>7. CASE pc \notin {q, j}
  <2>1. l[pc].op \notin Conditional \cup {"jal", "jalr"}
    <3>1. pc \notin Branching(l)
      BY <1>1, <1>3, <1>7
    <3>2. QED BY <3>1 DEF Branching, IInv, TypeOK
  <2>2. Passes /\ Computed
    BY <2>1 DEF Executed, Branches
  <2>3. q <= pc => 0 < args.limit
    BY <1>1, <1>2, <1>3, <1>7
  <2>4. QED BY <1>6, <1>7, <2>2, <2>3
<1>8. CASE pc = q
  <2>1. Branches
    BY <1>1, <1>8 DEF Executed
  <2>2. /\ reg' = reg
        /\ \/ Jumps /\ args.limit = 0
           \/ Passes /\ args.limit # 0
    BY <1>1, <1>8, <2>1 DEF Branches, Meets
  <2>3. CASE Jumps /\ args.limit = 0
    <3> DEFINE t == Spent(l, 1, q - 1, {j, m}) + Taken(l, q)   x == l[q].to
    <3>1. pc' = x /\ run' # "returned" /\ cyc' = t /\ t \in Nat
      <4>1. t = P(pc - 1) + Taken(l, pc)
        BY <1>8 DEF P
      <4> HIDE DEF t
      <4>2. cyc' = t
        BY <1>2, <2>3, <4>1 DEF Jumps
      <4>3. pc' = x /\ run' # "returned"
        BY <1>8, <2>3 DEF Jumps
      <4>4. QED BY <1>4, <4>1, <4>2, <4>3
    <3> HIDE DEF t, x
    <3>2. Leaving(l, x, t, run', x, t)
      BY <1>1, <3>1, LeavingFirst DEF x
    <3>3. RotatedLeft(q, j, b, m, run', pc', cyc')
      BY <2>3, <3>1, <3>2, Zenon DEF RotatedLeft, t, x
    <3>4. QED BY <3>3 DEF RotatedTracked
  <2>4. CASE Passes /\ args.limit # 0
    <3>1. pc # j /\ 0 < args.limit
      BY <1>1, <1>8, <2>4
    <3>2. QED BY <1>6, <2>2, <2>4, <3>1
  <2>5. QED BY <2>2, <2>3, <2>4
<1>9. CASE pc = j
  <2>1. Jumps /\ reg' = reg
    BY <1>1, <1>9 DEF Executed, Branches, Conditional
  <2>2. pc' = b + 1 /\ run' # "returned" /\ cyc' = cyc + Taken(l, j)
    BY <1>1, <1>9, <2>1 DEF Jumps
  <2>3. cyc' = f.pro + 0 * f.cont + Spent(l, b + 1, pc' - 1, {j, m})
    <3>1. cyc' = f.pro
      BY <1>1, <1>2, <1>4, <1>9, <2>2
    <3>2. Spent(l, b + 1, pc' - 1, {j, m}) = 0
      <4>1. pc' - 1 = (b + 1) - 1 /\ b + 1 \in Int
        BY <1>1, <2>2
      <4>2. Spent(l, b + 1, (b + 1) - 1, {j, m}) = 0
        BY <1>1, <4>1, SpentType
      <4>3. QED BY <4>1, <4>2
    <3>3. 0 * f.cont = 0
      BY <1>1, OneMore
    <3>4. QED BY <1>1, <3>1, <3>2, <3>3
  <2>4. Held(S, N, 0, (b + 1)..(pc' - 1), reg')
    <3>1. (b + 1)..(pc' - 1) = {}
      BY <1>1, <2>2
    <3>2. QED BY <1>5, <2>1, <3>1
  <2>5. pc' \in (b + 1)..m /\ 0 < args.limit /\ 0 <= args.hit
    BY <1>1, <1>2, <1>9, <2>2
  <2>6. RotatedRound(q, j, b, m, 0, pc', reg', cyc')
    BY <2>3, <2>4, <2>5, Zenon DEF RotatedRound, f
  <2>7. QED BY <2>2, <2>6 DEF RotatedTracked
<1>10. QED BY <1>7, <1>8, <1>9


\* A step in the body of the loop: it searches.
LEMMA RotatedRoundNext ==
  ASSUME IInv, NEW q, NEW j, NEW b, NEW m, Rotated(q, j, b, m), Executed, NEW n \in Nat,
         RotatedRound(q, j, b, m, n, pc, reg, cyc)
  PROVE  RotatedTracked(q, j, b, m, run', pc', reg', cyc')
<1> DEFINE l == listing   f == RotatedForm(l, q, j, b, m)   T == {j, m}   S == (b + 1)..m   N == (j + 1)..b
           x == b + 1   sofar == f.pro + n * f.cont   W(y) == Spent(l, x, y, T)   done == x..(pc - 1)
<1>1. /\ Listed(l) /\ q \in 1..Len(l) /\ j \in 1..Len(l) /\ b \in 1..Len(l) /\ m \in 1..Len(l) /\ Len(l) \in Nat
      /\ DOMAIN l = 1..Len(l)
      /\ q < j /\ j < b /\ b < m /\ l[m].op = "bne" /\ l[m].r = "v" /\ l[m].to = j + 1 /\ m \in Branching(l)
      /\ \A a \in 1..m : a \notin {q, j, b, m} => a \notin Branching(l)
      /\ Behind(l, m + 1) /\ f.pro \in Nat /\ f.cont \in Nat /\ f.found \in Nat
      /\ f.found = W(m - 1) + Passed(l, m)
      /\ args.limit \in Nat /\ args.hit \in Nat /\ Walks(S, N)
  <2>1. RotatedFacts(q, j, b, m)
    BY RotatedHas
  <2>2. QED BY <2>1 DEF RotatedFacts
<1>2. pc \in x..m /\ n < args.limit /\ n <= args.hit /\ cyc = sofar + W(pc - 1) /\ Held(S, N, n, done, reg)
  BY DEF RotatedRound
<1>3. /\ pc \in Int /\ pc \in 1..Len(l) /\ pc \in 1..m /\ x <= pc /\ x \in Nat \ {0} /\ x \in Int
      /\ pc - 1 \in Int /\ m \in Int /\ pc # q /\ pc # j /\ pc # b
  <2>1. /\ q \in 1..Len(l) /\ j \in 1..Len(l) /\ b \in 1..Len(l) /\ m \in 1..Len(l) /\ Len(l) \in Nat
        /\ q < j /\ j < b /\ b < m
    BY <1>1
  <2>2. pc \in x..m
    BY <1>2
  <2>3. QED BY <2>1, <2>2
<1>4. sofar \in Nat
  <2> HIDE DEF f
  <2> DEFINE k == n * f.cont
  <2>1. k \in Nat /\ f.pro \in Nat
    BY <1>1, OneMore
  <2> HIDE DEF k
  <2>2. f.pro + k \in Nat
    BY <2>1
  <2>3. QED BY <2>2 DEF k
<1>5. /\ pc # m => W(pc) = W(pc - 1) + Passed(l, pc)
      /\ pc = m => W(pc) = W(pc - 1) + Taken(l, pc)
      /\ W(pc - 1) \in Nat /\ Taken(l, pc) \in Nat /\ Passed(l, pc) \in Nat
  <2>1. pc = m <=> pc \in T
    BY <1>3
  <2> HIDE DEF T, x
  <2>2. /\ pc \notin T => W(pc) = W(pc - 1) + Passed(l, pc)
        /\ pc \in T => W(pc) = W(pc - 1) + Taken(l, pc)
    BY <1>1, <1>3, SpentNext
  <2>3. W(pc - 1) \in Nat /\ Taken(l, pc) \in Nat /\ Passed(l, pc) \in Nat
    BY <1>1, <1>3, SpentType
  <2>4. QED BY <2>1, <2>2, <2>3
<1>6. Computed \/ (reg' = reg /\ pc \in Branching(l))
  <2>1. l[pc].op \in Conditional \cup {"jal", "jalr"} => pc \in Branching(l)
    BY DEF Branching, IInv, TypeOK
  <2>2. l[pc].op # "jalr"
    BY <1>3 DEF Rotated
  <2>3. QED BY <2>1, <2>2 DEF Executed, Branches
<1>7. Held(S, N, n, x..pc, reg')
  <2>1. InTurn(S, N, pc, done) /\ S \cup N \subseteq DOMAIN l /\ done \cup {pc} = x..pc
    <3>1. pc \in S /\ pc \notin done /\ done \cup {pc} = x..pc
      BY <1>2, <1>3
    <3>2. done \cap N = {} /\ \A a \in S : a \in done <=> a < pc
      BY <1>1, <1>3, SMTT(30)
    <3>3. S \cup N \subseteq 1..Len(l)
      BY <1>1
    <3>4. QED BY <1>1, <3>1, <3>2, <3>3 DEF InTurn
  <2> HIDE DEF S, N, done
  <2>2. Held(S, N, n, done \cup {pc}, reg')
    BY <1>2, <1>6, <2>1, HeldNext
  <2>3. QED BY <2>1, <2>2
<1> HIDE DEF f, W, sofar
<1>8. CASE pc # m
  <2>1. pc \notin Branching(l)
    BY <1>1, <1>3, <1>8
  <2>2. Passes
    <3>1. l[pc].op \notin Conditional \cup {"jal", "jalr"}
      BY <2>1 DEF Branching, IInv, TypeOK
    <3>2. QED BY <3>1 DEF Executed, Branches
  <2>3. pc' = pc + 1 /\ run' # "returned" /\ cyc' = cyc + Passed(l, pc)
    BY <2>2 DEF Passes
  <2>4. pc' - 1 = pc /\ pc' \in x..m
    BY <1>2, <1>3, <1>8, <2>3
  <2>5. cyc' = sofar + W(pc' - 1)
    <3>1. cyc' = sofar + W(pc)
      BY <1>2, <1>4, <1>5, <1>8, <2>3
    <3>2. QED BY <2>4, <3>1
  <2>6. Held(S, N, n, x..(pc' - 1), reg')
    BY <1>7, <2>4
  <2>7. RotatedRound(q, j, b, m, n, pc', reg', cyc')
    BY <1>2, <2>4, <2>5, <2>6, Zenon DEF RotatedRound, f, W, sofar
  <2>8. QED BY <2>3, <2>7 DEF RotatedTracked
<1>9. CASE pc = m
  <2>1. Branches
    BY <1>1, <1>9 DEF Executed
  <2>2. reg' = reg
    BY <2>1 DEF Branches
  <2>3. reg.v <=> n = args.hit
    <3> DEFINE all == x..pc
    <3>1. S \subseteq all
      BY <1>9
    <3> HIDE DEF S, N, all
    <3>2. Held(S, N, n, all, reg)
      BY <1>7, <2>2 DEF all
    <3>3. QED BY <1>1, <3>1, <3>2, HeldTests
  <2>4. \/ Jumps /\ n # args.hit
        \/ Passes /\ n = args.hit
    BY <1>1, <1>9, <2>1, <2>3 DEF Branches, Meets
  <2>5. CASE Jumps /\ n # args.hit
    <3>1. pc' = j + 1 /\ run' # "returned" /\ cyc' = cyc + Taken(l, m)
      BY <1>1, <1>9, <2>5 DEF Jumps
    <3>2. n < args.hit /\ pc' \in (j + 1)..b
      <4>1. n <= args.hit /\ n # args.hit /\ args.hit \in Nat
        BY <1>1, <1>2, <2>5
      <4>2. pc' \in (j + 1)..b
        BY <1>1, <3>1
      <4>3. QED BY <4>1, <4>2
    <3>3. cyc' = sofar + W(m) + Spent(l, j + 1, pc' - 1, T)
      <4>1. cyc' = sofar + W(m)
        BY <1>2, <1>4, <1>5, <1>9, <3>1
      <4>2. Spent(l, j + 1, (j + 1) - 1, T) = 0
        <5> HIDE DEF T
        <5>1. j + 1 \in Int
          BY <1>1
        <5>2. QED BY <1>1, <5>1, SpentType
      <4>3. W(m) \in Nat
        BY <1>5, <1>9
      <4>4. cyc' = sofar + W(m) + Spent(l, j + 1, (j + 1) - 1, T)
        BY <1>4, <4>1, <4>2, <4>3
      <4>5. QED BY <3>1, <4>4
    <3>4. Held(S, N, n, (b + 1)..m \cup (j + 1)..(pc' - 1), reg')
      <4>1. (j + 1)..(pc' - 1) = {}
        BY <1>1, <3>1
      <4>2. (b + 1)..m \cup (j + 1)..(pc' - 1) = x..pc
        BY <1>9, <4>1
      <4>3. QED BY <1>7, <4>2, Zenon
    <3>5. RotatedLatch(q, j, b, m, n, pc', reg', cyc')
      BY <1>2, <3>2, <3>3, <3>4, Zenon DEF RotatedLatch, f, W, sofar
    <3>6. QED BY <3>1, <3>5 DEF RotatedTracked
  <2>6. CASE Passes /\ n = args.hit
    <3> DEFINE t == f.pro + args.hit * f.cont + f.found   y == m + 1
    <3>1. t = sofar + f.found
      BY <2>6 DEF sofar
    <3>2. pc' = y /\ run' # "returned" /\ cyc' = cyc + Passed(l, m)
      BY <1>9, <2>6 DEF Passes
    <3> HIDE DEF t
    <3>3. cyc' = t /\ t \in Nat
      <4>1. cyc = sofar + W(m - 1) /\ W(m - 1) \in Nat /\ Passed(l, m) \in Nat
        BY <1>2, <1>5, <1>9
      <4>2. f.found = W(m - 1) + Passed(l, m)
        BY <1>1
      <4>3. QED BY <1>4, <3>1, <3>2, <4>1, <4>2
    <3> HIDE DEF y
    <3>4. Leaving(l, y, t, run', y, t)
      BY <1>1, <3>2, <3>3, LeavingFirst DEF y
    <3>5. args.hit < args.limit
      BY <1>2, <2>6
    <3>6. RotatedLeft(q, j, b, m, run', pc', cyc')
      BY <3>2, <3>3, <3>4, <3>5, Zenon DEF RotatedLeft, t, y, f
    <3>7. QED BY <3>6 DEF RotatedTracked
  <2>7. QED BY <2>4, <2>5, <2>6
<1>10. QED BY <1>8, <1>9

\* A step in the latch of the loop: it counts and tests.
LEMMA RotatedLatchNext ==
  ASSUME IInv, NEW q, NEW j, NEW b, NEW m, Rotated(q, j, b, m), Executed, NEW n \in Nat,
         RotatedLatch(q, j, b, m, n, pc, reg, cyc)
  PROVE  RotatedTracked(q, j, b, m, run', pc', reg', cyc')
<1> DEFINE l == listing   f == RotatedForm(l, q, j, b, m)   T == {j, m}   S == (b + 1)..m   N == (j + 1)..b
           x == j + 1   body == Spent(l, b + 1, m, T)   begun == f.pro + n * f.cont
           sofar == begun + body   W(y) == Spent(l, x, y, T)
           done == S \cup x..(pc - 1)
<1>1. /\ Listed(l) /\ q \in 1..Len(l) /\ j \in 1..Len(l) /\ b \in 1..Len(l) /\ m \in 1..Len(l) /\ Len(l) \in Nat
      /\ DOMAIN l = 1..Len(l)
      /\ q < j /\ j < b /\ b < m /\ l[b].op = "beq" /\ l[b].r = "i" /\ b \in Branching(l)
      /\ \A a \in 1..m : a \notin {q, j, b, m} => a \notin Branching(l)
      /\ Behind(l, l[b].to) /\ f.pro \in Nat /\ f.cont \in Nat /\ f.exit \in Nat
      /\ f.exit = body + (W(b - 1) + Taken(l, b)) /\ f.cont = body + W(b) /\ body \in Nat
      /\ args.limit \in Nat /\ args.hit \in Nat /\ Walks(S, N)
  <2>1. RotatedFacts(q, j, b, m)
    BY RotatedHas
  <2>2. QED BY <2>1 DEF RotatedFacts
<1>2. pc \in x..b /\ n < args.limit /\ n < args.hit /\ cyc = sofar + W(pc - 1) /\ Held(S, N, n, done, reg)
  BY DEF RotatedLatch
<1>3. /\ pc \in Int /\ pc \in 1..Len(l) /\ pc \in 1..m /\ x <= pc /\ x \in Nat \ {0} /\ x \in Int
      /\ pc - 1 \in Int /\ b \in Int /\ pc # q /\ pc # j /\ pc # m
  <2>1. /\ q \in 1..Len(l) /\ j \in 1..Len(l) /\ b \in 1..Len(l) /\ m \in 1..Len(l) /\ Len(l) \in Nat
        /\ q < j /\ j < b /\ b < m
    BY <1>1
  <2>2. pc \in x..b
    BY <1>2
  <2>3. QED BY <2>1, <2>2
<1>4. begun \in Nat /\ sofar \in Nat
  <2> HIDE DEF f, body
  <2> DEFINE k == n * f.cont
  <2>1. k \in Nat /\ f.pro \in Nat /\ body \in Nat
    BY <1>1, OneMore
  <2> HIDE DEF k
  <2>2. f.pro + k \in Nat
    BY <2>1
  <2>3. begun \in Nat
    BY <2>2 DEF k
  <2> HIDE DEF begun
  <2>4. QED BY <2>1, <2>3
<1>5. /\ W(pc) = W(pc - 1) + Passed(l, pc)
      /\ W(pc - 1) \in Nat /\ Taken(l, pc) \in Nat /\ Passed(l, pc) \in Nat
  <2>1. pc \notin T
    BY <1>3
  <2> HIDE DEF T, x
  <2>2. W(pc) = W(pc - 1) + Passed(l, pc)
    BY <1>1, <1>3, <2>1, SpentNext
  <2>3. W(pc - 1) \in Nat /\ Taken(l, pc) \in Nat /\ Passed(l, pc) \in Nat
    BY <1>1, <1>3, SpentType
  <2>4. QED BY <2>2, <2>3
<1>6. Computed \/ (reg' = reg /\ pc \in Branching(l))
  <2>1. l[pc].op \in Conditional \cup {"jal", "jalr"} => pc \in Branching(l)
    BY DEF Branching, IInv, TypeOK
  <2>2. l[pc].op # "jalr"
    BY <1>3 DEF Rotated
  <2>3. QED BY <2>1, <2>2 DEF Executed, Branches
<1>7. Held(S, N, n, S \cup x..pc, reg')
  <2>1. InTurn(S, N, pc, done) /\ S \cup N \subseteq DOMAIN l /\ done \cup {pc} = S \cup x..pc
    <3>1. pc \in N /\ pc \notin S /\ pc \notin done
      BY <1>1, <1>2, <1>3
    <3>2. x..(pc - 1) \cup {pc} = x..pc
      BY <1>3
    <3>3. S \cup N \subseteq 1..Len(l)
      BY <1>1
    <3>4. QED BY <1>1, <3>1, <3>2, <3>3 DEF InTurn
  <2> HIDE DEF S, N, done
  <2>2. Held(S, N, n, done \cup {pc}, reg')
    BY <1>2, <1>6, <2>1, HeldNext
  <2>3. QED BY <2>1, <2>2
<1> HIDE DEF f, W, body, begun, sofar
<1>8. CASE pc # b
  <2>1. pc \notin Branching(l)
    BY <1>1, <1>3, <1>8
  <2>2. Passes
    <3>1. l[pc].op \notin Conditional \cup {"jal", "jalr"}
      BY <2>1 DEF Branching, IInv, TypeOK
    <3>2. QED BY <3>1 DEF Executed, Branches
  <2>3. pc' = pc + 1 /\ run' # "returned" /\ cyc' = cyc + Passed(l, pc)
    BY <2>2 DEF Passes
  <2>4. pc' - 1 = pc /\ pc' \in x..b
    BY <1>2, <1>3, <1>8, <2>3
  <2>5. cyc' = sofar + W(pc' - 1)
    <3>1. cyc' = sofar + W(pc)
      BY <1>2, <1>4, <1>5, <2>3
    <3>2. QED BY <2>4, <3>1
  <2>6. Held(S, N, n, S \cup x..(pc' - 1), reg')
    BY <1>7, <2>4
  <2>7. RotatedLatch(q, j, b, m, n, pc', reg', cyc')
    BY <1>2, <2>4, <2>5, <2>6, Zenon DEF RotatedLatch, f, W, body, begun, sofar
  <2>8. QED BY <2>3, <2>7 DEF RotatedTracked
<1>9. CASE pc = b
  <2>1. Branches
    BY <1>1, <1>9 DEF Executed
  <2>2. reg' = reg
    BY <2>1 DEF Branches
  <2>3. reg.i = n + 1
    <3> DEFINE all == S \cup x..pc
    <3>1. N \subseteq all
      BY <1>9
    <3> HIDE DEF S, N, all
    <3>2. Held(S, N, n, all, reg)
      BY <1>7, <2>2 DEF all
    <3>3. QED BY <1>1, <3>1, <3>2, HeldTests
  <2>4. \/ Jumps /\ n + 1 = args.limit
        \/ Passes /\ n + 1 # args.limit
    BY <1>1, <1>9, <2>1, <2>3 DEF Branches, Meets
  <2>5. CASE Jumps /\ n + 1 = args.limit
    <3> DEFINE t == f.pro + (args.limit - 1) * f.cont + f.exit   y == l[b].to
    <3>0. args.limit - 1 = n
      BY <2>5
    <3>1. t = begun + f.exit
      BY <3>0 DEF begun
    <3>2. pc' = y /\ run' # "returned" /\ cyc' = cyc + Taken(l, b)
      BY <1>9, <2>5 DEF Jumps
    <3> HIDE DEF t, y
    <3>3. cyc' = t /\ t \in Nat
      <4>1. cyc = begun + body + W(b - 1) /\ W(b - 1) \in Nat /\ Taken(l, b) \in Nat
        BY <1>2, <1>5, <1>9 DEF sofar
      <4>2. f.exit = body + (W(b - 1) + Taken(l, b)) /\ body \in Nat
        BY <1>1
      <4>3. QED BY <1>4, <3>1, <3>2, <4>1, <4>2
    <3>4. Leaving(l, y, t, run', y, t)
      BY <1>1, <3>2, <3>3, LeavingFirst DEF y
    <3>5. 0 < args.limit /\ args.limit <= args.hit
      <4>1. n < args.hit /\ n + 1 = args.limit /\ args.hit \in Nat
        BY <1>1, <1>2, <2>5
      <4>2. QED BY <4>1
    <3>6. RotatedLeft(q, j, b, m, run', pc', cyc')
      BY <3>2, <3>3, <3>4, <3>5, Zenon DEF RotatedLeft, t, y, f
    <3>7. QED BY <3>6 DEF RotatedTracked
  <2>6. CASE Passes /\ n + 1 # args.limit
    <3>1. pc' = b + 1 /\ run' # "returned" /\ cyc' = cyc + Passed(l, b)
      BY <1>9, <2>6 DEF Passes
    <3>2. n + 1 \in Nat /\ n + 1 < args.limit /\ n + 1 <= args.hit /\ pc' \in (b + 1)..m
      <4>1. n < args.limit /\ n < args.hit /\ args.limit \in Nat /\ args.hit \in Nat /\ n + 1 # args.limit
        BY <1>1, <1>2, <2>6
      <4>2. pc' \in (b + 1)..m
        BY <1>1, <3>1
      <4>3. QED BY <4>1, <4>2
    <3>3. cyc' = f.pro + (n + 1) * f.cont + Spent(l, b + 1, pc' - 1, T)
      <4>1. cyc' = begun + f.cont
        <5>1. cyc = begun + body + W(b - 1) /\ W(b - 1) \in Nat /\ W(b) = W(b - 1) + Passed(l, b)
              /\ Passed(l, b) \in Nat
          BY <1>2, <1>5, <1>9 DEF sofar
        <5>2. f.cont = body + W(b) /\ body \in Nat
          BY <1>1
        <5>3. QED BY <1>4, <3>1, <5>1, <5>2
      <4>2. Spent(l, b + 1, (b + 1) - 1, T) = 0
        <5> HIDE DEF T
        <5>1. b + 1 \in Int
          BY <1>1
        <5>2. QED BY <1>1, <5>1, SpentType
      <4> DEFINE k == n * f.cont
      <4>3. k \in Nat /\ (n + 1) * f.cont = k + f.cont /\ begun = f.pro + k
        BY <1>1, OneMore DEF begun
      <4>4. f.pro \in Nat /\ f.cont \in Nat
        BY <1>1
      <4> HIDE DEF k
      <4>5. cyc' = f.pro + (k + f.cont) + Spent(l, b + 1, (b + 1) - 1, T)
        BY <4>1, <4>2, <4>3, <4>4
      <4>6. QED BY <3>1, <4>3, <4>5
    <3>4. Held(S, N, n + 1, (b + 1)..(pc' - 1), reg')
      <4>1. S \cup x..pc = S \cup N /\ (b + 1)..(pc' - 1) = {}
        BY <1>1, <1>9, <3>1
      <4> HIDE DEF S, N
      <4>2. Held(S, N, n, S \cup N, reg')
        BY <1>7, <4>1
      <4>3. QED BY <4>1, <4>2, HeldRound
    <3>5. RotatedRound(q, j, b, m, n + 1, pc', reg', cyc')
      BY <3>2, <3>3, <3>4, Zenon DEF RotatedRound, f
    <3>6. QED BY <3>1, <3>2, <3>5 DEF RotatedTracked
  <2>7. QED BY <2>4, <2>5, <2>6
<1>10. QED BY <1>8, <1>9


\* Each step of such a search keeps its time, in every phase.
LEMMA RotatedTrackedNext ==
  ASSUME IInv, [Next]_vars, NEW q, NEW j, NEW b, NEW m, Rotated(q, j, b, m),
         RotatedTracked(q, j, b, m, run, pc, reg, cyc)
  PROVE  RotatedTracked(q, j, b, m, run', pc', reg', cyc')
<1>1. \A a \in DOMAIN listing : Priced(listing[a])
  <2>1. RotatedFacts(q, j, b, m)
    BY RotatedHas
  <2>2. QED BY <2>1 DEF RotatedFacts
<1>2. CASE Idles
  BY <1>2, Zenon DEF Idles, RotatedTracked, RotatedLeft, Leaving
<1>3. CASE Running /\ Executed
  <2>1. CASE RotatedBefore(q, j, b, m, pc, reg, cyc)
    BY <1>3, <2>1, RotatedBeforeNext
  <2>2. ASSUME NEW n \in Nat, RotatedRound(q, j, b, m, n, pc, reg, cyc)
        PROVE  RotatedTracked(q, j, b, m, run', pc', reg', cyc')
    BY <1>3, <2>2, RotatedRoundNext
  <2>3. ASSUME NEW n \in Nat, RotatedLatch(q, j, b, m, n, pc, reg, cyc)
        PROVE  RotatedTracked(q, j, b, m, run', pc', reg', cyc')
    BY <1>3, <2>3, RotatedLatchNext
  <2>4. CASE RotatedLeft(q, j, b, m, run, pc, cyc)
    <3>1. \A x, t : Leaving(listing, x, t, run, pc, cyc) => Leaving(listing, x, t, run', pc', cyc')
      BY <1>1, LeavingNext
    <3>2. RotatedLeft(q, j, b, m, run', pc', cyc')
      BY <2>4, <3>1, Zenon DEF RotatedLeft
    <3>3. QED BY <3>2 DEF RotatedTracked
  <2>5. QED BY <2>1, <2>2, <2>3, <2>4 DEF RotatedTracked
<1>4. QED BY <1>1, <1>2, <1>3, Instruction

\* It starts before the guard.
LEMMA RotatedTrackedInit ==
  ASSUME Init, NEW q, NEW j, NEW b, NEW m, Rotated(q, j, b, m)
  PROVE  RotatedTracked(q, j, b, m, run, pc, reg, cyc)
<1> DEFINE l == listing
<1>1. Listed(l) /\ q \in 1..Len(l) /\ j \in 1..Len(l) /\ Len(l) \in Nat /\ q < j
  <2>1. RotatedFacts(q, j, b, m)
    BY InitIInv, RotatedHas
  <2>2. QED BY <2>1 DEF RotatedFacts
<1>2. pc = 1 /\ cyc = 0 /\ run # "returned" /\ Held((b + 1)..m, (j + 1)..b, 0, {}, reg)
  BY HeldInit DEF Init
<1>3. Spent(l, 1, 1 - 1, {j, m}) = 0
  <2>1. 1 \in Int
    OBVIOUS
  <2>2. QED BY <1>1, <2>1, SpentType
<1>4. pc \in 1..j /\ ~(q < pc) /\ cyc = Spent(l, 1, pc - 1, {j, m})
  BY <1>1, <1>2, <1>3
<1>5. QED BY <1>2, <1>4 DEF RotatedTracked, RotatedBefore

\* When it returns, the form tells what it took.
LEMMA RotatedReturns ==
  ASSUME IInv, run = "returned", NEW q, NEW j, NEW b, NEW m, Rotated(q, j, b, m),
         RotatedTracked(q, j, b, m, run, pc, reg, cyc)
  PROVE  lifted.bottom # {} /\ \A f \in lifted.bottom : cyc = TimeOfBottom(f, args.limit, FoundIdx)
<1> DEFINE l == listing   f == RotatedForm(l, q, j, b, m)
<1>1. /\ RotatedShape(l, q, j, b, m) /\ Walks((b + 1)..m, (j + 1)..b) /\ l[b].r = "i" /\ l[m].r = "v"
      /\ Listed(l) /\ args.limit \in Nat /\ args.hit \in Nat
      /\ j \in 1..Len(l) /\ b \in 1..Len(l) /\ m \in 1..Len(l) /\ Len(l) \in Nat /\ j < b /\ b < m
      /\ f.shutNotFound = StraightlineFrom(BuildCfg(l), l[b].to)
      /\ f.shutFound = StraightlineFrom(BuildCfg(l), m + 1)
      /\ f.guard = (Spent(l, 1, q - 1, {j, m}) + Taken(l, q)) + StraightlineFrom(BuildCfg(l), l[q].to)
  <2>1. RotatedFacts(q, j, b, m)
    BY RotatedHas
  <2>2. QED BY <2>1 DEF RotatedFacts
<1>2. lifted.bottom = {f}
  <2> DEFINE g == BuildCfg(l)   loop == NaturalLoop(g, j + 1)   S == (b + 1)..m   N == (j + 1)..b
  <2>1. Insns(g, loop) = (j + 1)..m
    <3>1. RotatedLooped(l, q, j, b, m)
      BY <1>1, RotatedLoop
    <3>2. QED BY <3>1 DEF RotatedLooped
  <2>2. S \cup N = Insns(g, loop)
    <3>1. S \cup N = (j + 1)..m
      BY <1>1
    <3>2. QED BY <2>1, <3>1
  <2> HIDE DEF S, N, loop, g
  <2>3. PICK i \in N, d \in S, p \in S \cup N, moving \in BOOLEAN : Walking(S, N, i, d, p, moving)
    BY <1>1, WalksWith DEF S, N
  <2>4. IndexReg(g, loop) = {"i"}
    <3>1. Listed(listing) /\ S \cup N \subseteq Insns(BuildCfg(listing), loop)
          /\ \A a \in Insns(BuildCfg(listing), loop) : a \in S \cup N \/ listing[a].op = "beq"
      BY <1>1, <2>2 DEF g
    <3>2. QED BY <2>3, <3>1, IndexIs DEF g
  <2>5. LiftResult(g).bottom = {f}
    BY <1>1, <2>4, RotatedFormIs DEF g, loop
  <2>6. lifted = LiftResult(g)
    BY DEF IInv, Known, g
  <2>7. QED BY <2>5, <2>6
<1>3. RotatedLeft(q, j, b, m, run, pc, cyc)
  BY DEF RotatedTracked
<1> HIDE DEF f
<1>4. CASE args.hit < args.limit
  <2>1. FoundIdx = {args.hit} /\ Min({args.hit}) = args.hit /\ {args.hit} # {}
    BY <1>1, <1>4, MinOne, SMTT(30) DEF FoundIdx
  <2>2. cyc = f.pro + args.hit * f.cont + f.found + f.shutFound
    <3>1. args.limit # 0 /\ ~(args.limit <= args.hit)
      BY <1>1, <1>4
    <3>2. QED BY <1>1, <1>3, <3>1, Zenon DEF RotatedLeft, Leaving, f
  <2>3. cyc = TimeOfBottom(f, args.limit, FoundIdx)
    BY <2>1, <2>2, Zenon DEF TimeOfBottom
  <2>4. QED BY <1>2, <2>3
<1>5. CASE args.limit = 0
  <2>1. FoundIdx = {}
    BY <1>1, <1>5 DEF FoundIdx
  <2>2. cyc = f.guard
    <3>1. ~(0 < args.limit) /\ ~(args.hit < args.limit)
      BY <1>1, <1>5
    <3>2. QED BY <1>1, <1>3, <3>1, Zenon DEF RotatedLeft, Leaving, f
  <2>3. cyc = TimeOfBottom(f, args.limit, FoundIdx)
    BY <1>5, <2>1, <2>2 DEF TimeOfBottom
  <2>4. QED BY <1>2, <2>3
<1>6. CASE 0 < args.limit /\ args.limit <= args.hit
  <2>1. FoundIdx = {} /\ args.limit # 0
    BY <1>1, <1>6 DEF FoundIdx
  <2>2. cyc = f.pro + (args.limit - 1) * f.cont + f.exit + f.shutNotFound
    <3>1. ~(args.hit < args.limit)
      BY <1>1, <1>6
    <3>2. QED BY <1>1, <1>3, <2>1, <3>1, Zenon DEF RotatedLeft, Leaving, f
  <2>3. cyc = TimeOfBottom(f, args.limit, FoundIdx)
    BY <2>1, <2>2, Zenon DEF TimeOfBottom
  <2>4. QED BY <1>2, <2>3
<1>7. QED BY <1>1, <1>4, <1>5, <1>6

-----------------------------------------------------------------------------
(* The invariant of the searches.                                          *)

\* Every search of either layout is where its rounds say it is, at that cost.
Searching ==
  \A a, b, c \in Targeting(listing) :
    /\ TestedFirst(a, b, c) => FirstTracked(a, b, c, run, pc, reg, cyc)
    /\ \A d \in Targeting(listing) :
         Rotated(a, b, c, d) => RotatedTracked(a, b, c, d, run, pc, reg, cyc)

\* It holds before the first step.
LEMMA SearchingInit == Init => Searching
BY FirstTrackedInit, RotatedTrackedInit DEF Searching

\* The function and its arguments stay, and so does what is said of them.
LEMMA SearchStays ==
  ASSUME UNCHANGED <<listing, args>>
  PROVE  /\ \A a, b, c : TestedFirst(a, b, c)' <=> TestedFirst(a, b, c)
         /\ \A a, b, c, d : Rotated(a, b, c, d)' <=> Rotated(a, b, c, d)
         /\ \A h, m, z, r, a, g, c : FirstTracked(h, m, z, r, a, g, c)' <=> FirstTracked(h, m, z, r, a, g, c)
         /\ \A q, j, b, m, r, a, g, c :
              RotatedTracked(q, j, b, m, r, a, g, c)' <=> RotatedTracked(q, j, b, m, r, a, g, c)
<1>1. listing' = listing /\ args' = args
  OBVIOUS
<1>2. ASSUME NEW r PROVE Adding(r)' = Adding(r)
  BY <1>1 DEF Adding
<1>3. Adding("i")' = Adding("i") /\ Adding("p")' = Adding("p")
  BY <1>2
<1>4. ASSUME NEW S, NEW N PROVE Walks(S, N)' <=> Walks(S, N)
  <2> DEFINE derefs == {a \in S \cup N : listing[a].op \in Loads}
             indexing == {a \in S \cup N : listing[a].op = "add"}
  <2>1. derefs' = derefs /\ indexing' = indexing
    BY <1>1
  <2>2. (\A a \in Adding("i") \cup Adding("p") : listing[a].k = 1)'
          <=> \A a \in Adding("i") \cup Adding("p") : listing[a].k = 1
    BY <1>1, <1>3
  <2>3. (\A a \in DOMAIN listing : Priced(listing[a]))' <=> \A a \in DOMAIN listing : Priced(listing[a])
    BY <1>1
  <2> DEFINE element ==
        \E d \in S :
          /\ derefs = {d}
          /\ \/ indexing = {} /\ \E p \in S \cup N : Adding("p") = {p} /\ (p \in N \/ d < p)
             \/ Adding("p") = {} /\ \E p \in S : indexing = {p} /\ p < d
  <2>4. element' <=> element
    <3> HIDE DEF derefs, indexing
    <3>1. QED BY <1>3, <2>1
  <2>5. (\E i \in N : Adding("i") = {i})' <=> \E i \in N : Adding("i") = {i}
    BY <1>3
  <2>6. QED BY <1>1, <2>2, <2>3, <2>4, <2>5, Zenon DEF Walks
<1>5. ASSUME NEW S, NEW N, NEW i, NEW d, NEW p, NEW moving
      PROVE  Walking(S, N, i, d, p, moving)' <=> Walking(S, N, i, d, p, moving)
  BY <1>1, <1>3, Zenon DEF Walking
<1>6. ASSUME NEW i, NEW d, NEW p, NEW moving, NEW n, NEW done, NEW g
      PROVE  Walked(i, d, p, moving, n, done, g)' <=> Walked(i, d, p, moving, n, done, g)
  BY <1>1, Zenon DEF Walked
<1>7. ASSUME NEW S, NEW N, NEW n, NEW done, NEW g
      PROVE  Held(S, N, n, done, g)' <=> Held(S, N, n, done, g)
  BY <1>5, <1>6 DEF Held
<1>8. ASSUME NEW a, NEW b, NEW c PROVE TestedFirst(a, b, c)' <=> TestedFirst(a, b, c)
  BY <1>1, <1>4, Zenon DEF TestedFirst
<1>9. ASSUME NEW a, NEW b, NEW c, NEW d PROVE Rotated(a, b, c, d)' <=> Rotated(a, b, c, d)
  BY <1>1, <1>4, Zenon DEF Rotated
<1>10. ASSUME NEW h, NEW m, NEW z, NEW r, NEW a, NEW g, NEW c
       PROVE  FirstTracked(h, m, z, r, a, g, c)' <=> FirstTracked(h, m, z, r, a, g, c)
  <2>1. FirstBefore(h, m, z, a, g, c)' <=> FirstBefore(h, m, z, a, g, c)
    BY <1>1, <1>7, Zenon DEF FirstBefore
  <2>2. ASSUME NEW n PROVE FirstRound(h, m, z, n, a, g, c)' <=> FirstRound(h, m, z, n, a, g, c)
    BY <1>1, <1>7, Zenon DEF FirstRound
  <2>3. FirstLeft(h, m, z, r, a, c)' <=> FirstLeft(h, m, z, r, a, c)
    BY <1>1, Zenon DEF FirstLeft
  <2>4. QED BY <2>1, <2>2, <2>3 DEF FirstTracked
<1>11. ASSUME NEW q, NEW j, NEW b, NEW m, NEW r, NEW a, NEW g, NEW c
       PROVE  RotatedTracked(q, j, b, m, r, a, g, c)' <=> RotatedTracked(q, j, b, m, r, a, g, c)
  <2>1. RotatedBefore(q, j, b, m, a, g, c)' <=> RotatedBefore(q, j, b, m, a, g, c)
    BY <1>1, <1>7, Zenon DEF RotatedBefore
  <2>2. ASSUME NEW n PROVE RotatedRound(q, j, b, m, n, a, g, c)' <=> RotatedRound(q, j, b, m, n, a, g, c)
    BY <1>1, <1>7, Zenon DEF RotatedRound
  <2>3. ASSUME NEW n PROVE RotatedLatch(q, j, b, m, n, a, g, c)' <=> RotatedLatch(q, j, b, m, n, a, g, c)
    BY <1>1, <1>7, Zenon DEF RotatedLatch
  <2>4. RotatedLeft(q, j, b, m, r, a, c)' <=> RotatedLeft(q, j, b, m, r, a, c)
    BY <1>1, Zenon DEF RotatedLeft
  <2>5. QED BY <2>1, <2>2, <2>3, <2>4 DEF RotatedTracked
<1>12. QED BY <1>8, <1>9, <1>10, <1>11

\* No step disturbs it.
LEMMA SearchingStep ==
  ASSUME IInv, Searching, [Next]_vars
  PROVE  Searching'
<1>1. UNCHANGED <<listing, args>>
  BY Steps DEF Goto
<1>2. Targeting(listing') = Targeting(listing)
  BY <1>1
<1>3. ASSUME NEW a \in Targeting(listing'), NEW b \in Targeting(listing'), NEW c \in Targeting(listing'),
             TestedFirst(a, b, c)'
      PROVE  FirstTracked(a, b, c, run, pc, reg, cyc)'
  <2>1. FirstTracked(a, b, c, run, pc, reg, cyc) /\ TestedFirst(a, b, c)
    BY <1>1, <1>2, <1>3, SearchStays DEF Searching
  <2>2. FirstTracked(a, b, c, run', pc', reg', cyc')
    BY <2>1, FirstTrackedNext
  <2>3. QED BY <1>1, <2>2, SearchStays
<1>4. ASSUME NEW a \in Targeting(listing'), NEW b \in Targeting(listing'), NEW c \in Targeting(listing'),
             NEW d \in Targeting(listing'), Rotated(a, b, c, d)'
      PROVE  RotatedTracked(a, b, c, d, run, pc, reg, cyc)'
  <2>1. RotatedTracked(a, b, c, d, run, pc, reg, cyc) /\ Rotated(a, b, c, d)
    BY <1>1, <1>2, <1>4, SearchStays DEF Searching
  <2>2. RotatedTracked(a, b, c, d, run', pc', reg', cyc')
    BY <2>1, RotatedTrackedNext
  <2>3. QED BY <1>1, <2>2, SearchStays
<1>5. QED BY <1>3, <1>4 DEF Searching

\* It is invariant, with the rest of the invariant.
LEMMA SearchingCorrect == Spec => [](IInv /\ Searching)
<1>1. IInv /\ Searching /\ [Next]_vars => Searching'
  BY SearchingStep
<1>2. QED BY <1>1, SearchingInit, InitIInv, IInvStep, PTL DEF Spec

-----------------------------------------------------------------------------
(* The theorems.                                                           *)

\* The processor stays in the function, its registers keep their width, and
\* what is claimed while it runs is claimed of the first address of a block.
THEOREM TypeCorrect == Spec => []TypeOK
<1>1. IInv => TypeOK
  BY DEF IInv
<1>2. QED BY <1>1, IInvCorrect, PTL

\* Every cycle of every listing passes an arm of the invariant it is proved
\* with, derived by the lifter or completed by the model (cfg.py:691,
\* intake.py:193 and 214).
THEOREM ArmsCutCorrect == Spec => []ArmsCut
<1>1. IInv => ArmsCut
  <2>1. IInv => pc \in Nat
    BY Listing DEF IInv, Known, TypeOK
  <2>2. QED BY <2>1 DEF IInv, Forward, ArmsCut
<1>2. QED BY <1>1, IInvCorrect, PTL

\* Whatever text the model returns for a skeleton, the exits of the function
\* claim its postcondition and no arm is added, lost or half filled
\* (cfg.py:691, invariant_synth.py:181).
THEOREM ClaimsPinnedCorrect == Spec => []ClaimsPinned
<1>1. IInv => ClaimsPinned
  BY DEF IInv
<1>2. QED BY <1>1, IInvCorrect, PTL

\* A function that is called straight-line executes no address twice, and one
\* that executes a load or store again is never called one of the two classes
\* that need no model (classify, intake.py:366).
THEOREM ClassTellsRepetitionCorrect == Spec => []ClassTellsRepetition
<1>1. IInv /\ Repeats => ClassTellsRepetition
  <2> SUFFICES ASSUME IInv, Repeats, Running, pc \in seen
               PROVE  /\ lifted.class # "straight-line"
                      /\ listing[pc].op \in Loads \cup Stores => lifted.class \in IsCeiling
    BY DEF ClassTellsRepetition
  <2> DEFINE g == BuildCfg(listing)
             b == Block(listing)[pc]
  <2>1. /\ Listed(listing) /\ lifted.class = Classify(g) /\ pc \in DOMAIN listing /\ pc \in Nat
    BY Listing, Lifted DEF IInv, Known, TypeOK, Running
  <2>2. PICK h \in LoopHeaders(g) : h \in Onwards(listing, b) /\ b \in Onwards(listing, h)
    BY <2>1 DEF Repeats, Returning
  <2>3. h \in Leaders(listing)
    BY <2>1, EdgesLead DEF LoopHeaders, BackEdges
  <2>4. b \in NaturalLoop(g, h)
    BY <2>1, <2>2, <2>3, LoopHolds
  <2>5. lifted.class # "straight-line"
    BY <2>1, <2>2, ClassType
  <2>6. QED BY <2>1, <2>4, <2>5, AccessInLoop
<1>2. QED BY <1>1, RepeatsCorrect, PTL

\* The sum pinned for a straight-line function bounds what the lifter charges
\* along every path, and is exact for one that skips nothing; so is the range
\* that the report prints (cfg.py:196, report.py:57).
THEOREM StraightLineBoundCorrect == Spec => []StraightLineBound
<1>1. IInv /\ Paid => StraightLineBound
  <2> SUFFICES ASSUME IInv, Paid, AtExit, NEW total \in lifted.bound
               PROVE  /\ cyc - excess <= total
                      /\ seen = DOMAIN listing \ lifted.exits => cyc - excess = total
                      /\ \A range \in lifted.range : InCycles(range) = total
    BY DEF StraightLineBound
  <2> DEFINE g == BuildCfg(listing)
  <2>1. /\ Listed(listing) /\ lifted = LiftResult(g) /\ run = "running"
        /\ seen \subseteq DOMAIN listing /\ cyc \in Nat /\ excess \in Nat
    BY DEF AtExit, Running, IInv, Known, TypeOK
  <2>2. /\ Classify(g) = "straight-line" /\ lifted.exits = Exits(g)
        /\ total = StraightlineCycles(g) /\ lifted.range = CycleRange(g)
    BY <2>1, Zenon DEF LiftResult
  <2>3. LoopHeaders(g) = {}
    BY <2>2, ClassType
  <2>4. /\ ExitPoints(g) # {} /\ lifted.exits = ExitPoints(g)
    BY <2>1, <2>2, <2>3, StraightReturns DEF Exits
  <2>5. Addresses(g) = DOMAIN listing
    BY Graph DEF Addresses
  <2>6. seen \subseteq Addresses(g) \ ExitPoints(g)
    BY <2>1, <2>5, ExitsReturn DEF Paid
  <2>7. cyc - excess = Cost(g, seen, {})
    BY <2>1, <2>3 DEF Paid
  <2>8. total = Cost(g, Addresses(g) \ ExitPoints(g), {})
    BY <2>2 DEF StraightlineCycles
  <2>9. cyc - excess <= total
    BY <2>1, <2>6, <2>7, <2>8, CostLess
  <2>10. \A range \in lifted.range : InCycles(range) = total
    BY <2>1, <2>2, RangeAdds DEF CycleRange
  <2>11. QED BY <2>4, <2>5, <2>7, <2>8, <2>9, <2>10
<1>2. QED BY <1>1, PaidCorrect, PTL

\* For the loops that counter_loop_invariant was written for the derived arm at
\* the header is exact in every iteration, and so is the postcondition when the
\* loop counts down to zero (counter_loop_invariant, intake.py:214).
THEOREM CounterExactCorrect == Spec => []CounterExact
<1>1. IInv /\ Counted => CounterExact
  <2> SUFFICES ASSUME IInv, Counted, Running, NEW f \in lifted.counter, LikeAddloop(f)
               PROVE  /\ pc = f.header => cyc = CounterArm(f, args.start, reg.i)
                      /\ AtExit /\ args.limit = 0 => cyc = CounterPost(f, args.start)
    BY DEF CounterExact
  <2> DEFINE h == f.header
  <2>1. PICK z \in DOMAIN listing, a \in DOMAIN listing, k \in {-1, 1} :
          /\ h \in DOMAIN listing /\ CounterLoop(h, z, a, k) /\ f.step = k
          /\ f.setup = Charged(listing, 1, h - 1, z) /\ f.body = Charged(listing, h, z, z)
          /\ f.exit = Charge(listing[h], TRUE)
    BY DerivedForm
  <2>2. /\ Listed(listing) /\ h \in Nat \ {0} /\ z \in Nat /\ h < z /\ z < listing[h].to
        /\ listing[h].to \in Nat
        /\ args.start \in Nat /\ f.body \in Nat /\ f.setup \in Nat /\ f.exit \in Nat
        /\ Charged(listing, h, h - 1, z) = 0
    <3>1. /\ Listed(listing) /\ h \in Nat \ {0} /\ z \in Nat /\ h < a /\ a < z /\ z < listing[h].to
          /\ listing[h].to \in DOMAIN listing /\ args.start \in 0..(Word - 1) /\ a \in Nat
      BY <2>1, CounterLoopHas
    <3>2. listing[h].to \in Nat /\ args.start \in Nat /\ h < z
      BY <3>1, Listing, LifterConstants
    <3>3. /\ 1 \in Nat \ {0} /\ h - 1 \in Int /\ z \in Int
      BY <3>1
    <3>4. f.body \in Nat /\ f.setup \in Nat /\ Charged(listing, h, h - 1, z) = 0
      BY <2>1, <3>1, <3>3, ChargedType
    <3>5. f.exit \in Nat
      BY <2>1, ChargeType, Zenon
    <3>6. QED BY <3>1, <3>2, <3>4, <3>5
  <2>3. Tracked(h, z, a, k)
    BY <2>1 DEF Counted, Running
  <2>4. ASSUME pc = h PROVE cyc = CounterArm(f, args.start, reg.i)
    <3>1. ~InPrologue(h, z) /\ \A m \in Nat : ~AtEnd(h, z, k, m)
      <4>1. pc \notin 1..(h - 1) /\ pc # listing[h].to
        BY <2>2, <2>4
      <4>2. QED BY <4>1, Zenon DEF InPrologue, AtEnd
    <3>2. PICK m \in Nat : InLoop(h, z, a, k, m)
      BY <2>3, <3>1 DEF Tracked
    <3>3. ~(a < pc)
      BY <2>1, <2>4, CounterLoopHas
    <3>4. reg.i = Along(args.start, k, m)
      BY <3>2, <3>3 DEF InLoop
    <3>5. m = IF f.step < 0 THEN args.start - reg.i ELSE reg.i - args.start
      BY <2>1, <2>2, <3>4 DEF Along
    <3>6. cyc = f.setup + m * f.body + 0
      BY <2>1, <2>2, <2>4, <3>2, Zenon DEF InLoop
    <3>7. m * f.body \in Nat
      BY <2>2, OneMore
    <3>8. cyc = f.setup + m * f.body
      BY <2>2, <3>6, <3>7
    <3>9. QED BY <3>5, <3>8 DEF CounterArm
  <2>5. ASSUME AtExit, args.limit = 0 PROVE cyc = CounterPost(f, args.start)
    <3>1. listing[pc].op = "jalr"
      <4>1. lifted.exits = Exits(BuildCfg(listing)) /\ lifted.cfg = BuildCfg(listing)
        <5>1. lifted = LiftResult(BuildCfg(listing))
          BY DEF IInv, Known, Running
        <5>2. QED BY <5>1, Zenon DEF LiftResult
      <4>2. lifted.exits = ExitPoints(BuildCfg(listing))
        BY <4>1 DEF LikeAddloop, Exits
      <4>3. QED BY <2>2, <2>5, <4>2, ExitsReturn DEF AtExit
    <3>2. ~InPrologue(h, z) /\ \A m \in Nat : ~InLoop(h, z, a, k, m)
      <4>1. \A b \in 1..z : listing[b].op # "jalr"
        BY <2>1 DEF CounterLoop, Looping
      <4>2. pc \notin 1..z
        BY <3>1, <4>1
      <4>3. 1..(h - 1) \subseteq 1..z /\ h..z \subseteq 1..z
        BY <2>2
      <4>4. QED BY <4>2, <4>3 DEF InPrologue, InLoop
    <3>3. PICK m \in Nat : AtEnd(h, z, k, m)
      BY <2>3, <3>2 DEF Tracked
    <3>4. m = args.start
      BY <2>2, <2>5, <3>3 DEF AtEnd, Along
    <3>5. cyc = f.setup + m * f.body + f.exit
      BY <2>1, <3>3, Zenon DEF AtEnd
    <3>6. QED BY <3>4, <3>5 DEF CounterPost
  <2>6. QED BY <2>4, <2>5
<1>2. QED BY <1>1, CountedCorrect, PTL

\* The closed forms of the two layouts of a search are there and are what the
\* search takes, wherever the key is and when it is not there, an empty array
\* included (search_template_form and its bottom-tested variant, cfg.py:448 and
\* 490).
THEOREM SearchExactCorrect == Spec => []SearchExact
<1>1. IInv /\ Searching => SearchExact
  <2> SUFFICES ASSUME IInv, Searching, run = "returned", NEW a \in Targeting(listing),
                      NEW b \in Targeting(listing), NEW c \in Targeting(listing)
               PROVE  /\ TestedFirst(a, b, c) =>
                           /\ lifted.search # {}
                           /\ \A f \in lifted.search : cyc = TimeOfSearch(f, args.limit, FoundIdx)
                      /\ \A d \in Targeting(listing) : Rotated(a, b, c, d) =>
                           /\ lifted.bottom # {}
                           /\ \A f \in lifted.bottom : cyc = TimeOfBottom(f, args.limit, FoundIdx)
    BY DEF SearchExact
  <2>1. ASSUME TestedFirst(a, b, c)
        PROVE  lifted.search # {} /\ \A f \in lifted.search : cyc = TimeOfSearch(f, args.limit, FoundIdx)
    <3>1. FirstTracked(a, b, c, run, pc, reg, cyc)
      BY <2>1 DEF Searching
    <3>2. QED BY <2>1, <3>1, FirstReturns
  <2>2. ASSUME NEW d \in Targeting(listing), Rotated(a, b, c, d)
        PROVE  lifted.bottom # {} /\ \A f \in lifted.bottom : cyc = TimeOfBottom(f, args.limit, FoundIdx)
    <3>1. RotatedTracked(a, b, c, d, run, pc, reg, cyc)
      BY <2>2 DEF Searching
    <3>2. QED BY <2>2, <3>1, RotatedReturns
  <2>3. QED BY <2>1, <2>2
<1>2. QED BY <1>1, SearchingCorrect, PTL
=============================================================================
