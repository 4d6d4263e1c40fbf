---------------------------- MODULE InductionLemmas ----------------------------
(***************************************************************************)
(* Induction on the natural numbers for sets.  The library's induction     *)
(* theorems take a predicate as a parameter; here the predicate is the set *)
(* of the numbers that satisfy it.                                         *)
(***************************************************************************)
EXTENDS Integers, WellFoundedInduction, TLAPS

(* A set of numbers that is not empty has a least element. *)
LEMMA LeastElement ==
    ASSUME NEW S \in SUBSET Nat, S # {}
    PROVE  \E x \in S : \A y \in S : x <= y
<1> DEFINE R == OpToRel(<, Nat)
<1>1. IsWellFoundedOn(R, Nat)
  BY NatLessThanWellFounded
<1>2. \A x, y \in Nat : y < x => <<y, x>> \in R
  BY DEF OpToRel
<1> HIDE DEF R
<1>3. PICK x \in S : \A y \in S : ~(<<y, x>> \in R)
  BY <1>1, WFMin
<1>4. ASSUME NEW y \in S PROVE x <= y
  <2>1. x \in Nat /\ y \in Nat
    OBVIOUS
  <2>2. ~(y < x)
    BY <1>2, <1>3, <2>1
  <2> QED BY <2>1, <2>2
<1> QED BY <1>4

(* A set of numbers that are bounded has a greatest one. *)
LEMMA GreatestElement ==
    ASSUME NEW n \in Nat, NEW S \in SUBSET (0 .. n), S # {}
    PROVE  \E x \in S : \A y \in S : x >= y
<1> DEFINE D == {n - x : x \in S}
<1>1. \A x \in S : n - x \in Nat
  OBVIOUS
<1>2. D \in SUBSET Nat /\ D # {}
  BY <1>1
<1> HIDE DEF D
<1>3. PICK m \in D : \A y \in D : m <= y
  BY <1>2, LeastElement
<1>4. PICK x \in S : m = n - x
  BY DEF D
<1>5. ASSUME NEW y \in S PROVE x >= y
  <2>1. n - y \in D
    BY DEF D
  <2>2. n - x <= n - y
    BY <1>3, <1>4, <2>1
  <2>3. x \in 0 .. n /\ y \in 0 .. n
    OBVIOUS
  <2> QED BY <2>2, <2>3
<1> QED BY <1>5

(* A set that has 0 and the successor of each of its numbers has them all. *)
LEMMA NatSetInduction ==
    ASSUME NEW S, 0 \in S, \A m \in Nat : m \in S => m + 1 \in S
    PROVE  Nat \subseteq S
<1>1. SUFFICES ASSUME Nat \ S # {} PROVE FALSE
  OBVIOUS
<1>2. PICK x \in Nat \ S : \A y \in Nat \ S : x <= y
  <2> DEFINE C == Nat \ S
  <2>1. C \in SUBSET Nat /\ C # {}
    BY <1>1
  <2> HIDE DEF C
  <2>2. \E x \in C : \A y \in C : x <= y
    BY <2>1, LeastElement
  <2> QED BY <2>2 DEF C
<1>3. x # 0 /\ x - 1 \in Nat
  BY <1>2
<1>4. x - 1 \in S
  BY <1>2, <1>3
<1> QED BY <1>2, <1>3, <1>4

(* g computes N values of V, each from the one before, beginning with v0. *)
Iterates(V, v0, N, next, g) ==
    /\ g \in [0 .. N -> V]
    /\ g[0] = v0
    /\ \A m \in 1 .. N : g[m] = next[m][g[m - 1]]

(* However each value is computed from the one before, there are all N.    *)
LEMMA Iteration ==
    ASSUME NEW V, NEW v0 \in V, NEW N \in Nat, NEW next \in [1 .. N -> [V -> V]]
    PROVE  \E g : Iterates(V, v0, N, next, g)
<1> DEFINE Upto(g, m) == g[0] = v0 /\ \A i \in 1 .. N : i <= m => g[i] = next[i][g[i - 1]]
           S == {m \in Nat : \E g \in [0 .. N -> V] : Upto(g, m)}
<1>1. 0 \in S
  <2> DEFINE g == [i \in 0 .. N |-> v0]
  <2>1. g \in [0 .. N -> V] /\ g[0] = v0
    OBVIOUS
  <2>2. Upto(g, 0)
    BY <2>1
  <2> HIDE DEF g, Upto
  <2> QED BY <2>1, <2>2
<1>2. ASSUME NEW m \in Nat, m \in S PROVE m + 1 \in S
  <2>1. PICK g \in [0 .. N -> V] : Upto(g, m)
    BY <1>2
  <2> DEFINE v == next[m + 1][g[m]]
             h == [i \in 0 .. N |-> IF i = m + 1 THEN v ELSE g[i]]
  <2>2. m + 1 <= N => v \in V
    <3> SUFFICES ASSUME m + 1 <= N PROVE v \in V
      OBVIOUS
    <3>1. next[m + 1] \in [V -> V] /\ g[m] \in V
      OBVIOUS
    <3> QED BY <3>1
  <2>3. v = next[m + 1][g[m]]
    OBVIOUS
  <2> HIDE DEF v
  <2>4. h \in [0 .. N -> V]
    BY <2>2
  <2>5. h[0] = v0
    BY <2>1
  <2>6. ASSUME NEW i \in 1 .. N, i <= m + 1 PROVE h[i] = next[i][h[i - 1]]
    <3>1. CASE i = m + 1
      <4>1. h[i] = v /\ h[i - 1] = g[m]
        BY <2>6, <3>1
      <4> QED BY <2>3, <3>1, <4>1
    <3>2. CASE i <= m
      <4>1. h[i] = g[i] /\ h[i - 1] = g[i - 1]
        BY <2>6, <3>2
      <4> QED BY <2>1, <3>2, <4>1
    <3> QED BY <2>6, <3>1, <3>2
  <2>7. Upto(h, m + 1)
    BY <2>5, <2>6
  <2> HIDE DEF h, Upto
  <2> QED BY <2>4, <2>7
<1>3. N \in S
  <2> HIDE DEF S
  <2> QED BY <1>1, <1>2, NatSetInduction
<1>4. PICK g \in [0 .. N -> V] : Upto(g, N)
  BY <1>3
<1>5. \A m \in 1 .. N : g[m] = next[m][g[m - 1]]
  BY <1>4
<1> QED BY <1>4, <1>5 DEF Iterates

===============================================================================
