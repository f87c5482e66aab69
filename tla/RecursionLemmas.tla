--------------------------- MODULE RecursionLemmas --------------------------
(***************************************************************************)
(* Induction over the natural numbers, stated for sets, and what it gives  *)
(* for functions that the modules define by recursion over an index.       *)
(***************************************************************************)
EXTENDS Integers, WellFoundedInduction, TLAPS

\* A set that has 0 and with each number the next has every number: what the proofs
\* about loops over devices and packets use for induction.
LEMMA InductionBySet ==
    ASSUME NEW S, 0 \in S, \A n \in Nat : n \in S => n + 1 \in S
    PROVE  Nat \subseteq S
<1>. DEFINE T == Nat \ S
<1>. SUFFICES ASSUME T # {} PROVE FALSE
  OBVIOUS
<1>1. IsWellFoundedOn(OpToRel(<, Nat), Nat)
  BY NatLessThanWellFounded
<1>2. PICK x \in T : \A y \in T : ~ (<<y, x>> \in OpToRel(<, Nat))
  <2>. HIDE DEF T
  <2>1. T \subseteq Nat
    BY DEF T
  <2>. QED BY <1>1, <2>1, WFMin
<1>3. x \in Nat /\ x # 0
  OBVIOUS
<1>4. x - 1 \in Nat /\ x - 1 < x
  BY <1>3
<1>5. x - 1 \in S
  BY <1>2, <1>3, <1>4 DEF OpToRel
<1>. QED BY <1>3, <1>4, <1>5

\* g is computed by a loop over 1..N: a first value in X, and each next one by F from
\* the one before.
IsLoop(g, N, X, base, F) ==
    /\ g \in [0..N -> X]
    /\ g[0] = base
    /\ \A k \in 1..N : g[k] = F[k][g[k - 1]]

\* What a loop computes exists.
LEMMA LoopExists ==
    ASSUME NEW N, NEW X, NEW base, NEW F,
           N \in Nat, base \in X, F \in [1..N -> [X -> X]]
    PROVE  \E g : IsLoop(g, N, X, base, F)
<1>. DEFINE Computes(g, n) == g[0] = base /\ \A k \in 1..n : g[k] = F[k][g[k - 1]]
            S == {n \in Nat : n <= N => \E g \in [0..n -> X] : Computes(g, n)}
<1>1. 0 \in S
  <2>1. Computes([k \in 0..0 |-> base], 0)
    OBVIOUS
  <2>. QED BY <2>1
<1>2. ASSUME NEW n \in Nat, n \in S
      PROVE  n + 1 \in S
  <2>. SUFFICES ASSUME n + 1 <= N
                PROVE  \E g \in [0..n + 1 -> X] : Computes(g, n + 1)
    OBVIOUS
  <2>1. PICK g \in [0..n -> X] : Computes(g, n)
    BY <1>2
  <2>2. F[n + 1][g[n]] \in X
    OBVIOUS
  <2>. DEFINE h == [k \in 0..n + 1 |-> IF k = n + 1 THEN F[n + 1][g[n]] ELSE g[k]]
  <2>3. h \in [0..n + 1 -> X]
    BY <2>2
  <2>4. h[0] = base
    BY <2>1
  <2>5. ASSUME NEW k \in 1..n + 1
        PROVE  h[k] = F[k][h[k - 1]]
    <3>1. CASE k = n + 1
      BY <3>1
    <3>2. CASE k \in 1..n
      BY <2>1, <3>2
    <3>. QED BY <3>1, <3>2
  <2>. QED BY <2>3, <2>4, <2>5
<1>3. N \in S
  <2>. HIDE DEF S
  <2>. QED BY <1>1, <1>2, InductionBySet
<1>. QED BY <1>3 DEF IsLoop
=============================================================================
