----------------------------- MODULE KVCacheProofs -----------------------------
(***************************************************************************)
(* Proofs about KVCache for every size, set of sequences, batch size and   *)
(* bound on positions.                                                     *)
(*                                                                         *)
(* The search for a slot is a recursive function: SearchExists says that   *)
(* its recursion is well founded, by induction over what Left measures,    *)
(* and SearchSound that its result is right.  Then IInv is inductive, with *)
(* one lemma per function of the cache.                                    *)
(***************************************************************************)
EXTENDS KVCache, FiniteSetTheorems, InductionLemmas

-------------------------------------------------------------------------------
(* The search for a slot *)

Result == [found : BOOLEAN, head : 0 .. Size]

(* One visit of the search, at head h after t tests, whose next visits     *)
(* have the results f.                                                     *)
Visit(k, f, h, t) ==
    IF h + k > Size THEN f[0][t + Size - h]
    ELSE LET taken == Blocking(h, k) IN
         IF taken = {} THEN [found |-> TRUE, head |-> h]
         ELSE LET step == Least(taken) - h + 1 IN
              IF GiveUp(t + step) THEN [found |-> FALSE, head |-> h + step]
              ELSE f[h + step][t + step]

Visits(k, f) == f = [h \in 0 .. Size |-> [t \in Nat |-> Visit(k, f, h, t)]]

(* It decreases from one visit to the next. *)
Left(k, h, t) ==
    (IF t < Size THEN 2 * (Size - t) ELSE 0) + (IF h + k > Size THEN 1 ELSE 0)

Positions == pos \in [Cells -> -1 .. MaxPos]

(* The search of llama_kv_cache_find_slot is a function all of whose       *)
(* values satisfy the equation of one visit.                               *)
LEMMA SearchByVisits ==
    ASSUME NEW k, NEW from0
    PROVE  Search(k, from0) = (CHOOSE f : Visits(k, f))[from0][0]
BY DEF Search, Visit, Visits

(* The first used cell of a window, and the step behind it. *)
LEMMA StepOfWindow ==
    ASSUME Positions, NEW k \in 1 .. Size, NEW h \in 0 .. Size, h + k <= Size,
           Blocking(h, k) # {}
    PROVE  /\ Least(Blocking(h, k)) \in h .. h + k - 1
           /\ pos[Least(Blocking(h, k))] >= 0
<1> USE SizeAssumption
<1>1. Blocking(h, k) \in SUBSET Nat
  BY DEF Blocking
<1>2. \E x \in Blocking(h, k) : \A y \in Blocking(h, k) : x <= y
  BY <1>1, LeastElement
<1>3. Least(Blocking(h, k)) \in Blocking(h, k)
  BY <1>2 DEF Least
<1> QED BY <1>3 DEF Blocking

(* A visit goes on from a head inside the cache, having tested more cells  *)
(* or gone back to cell 0: what is left of the search decreases.           *)
LEMMA NextVisit ==
    ASSUME Positions, NEW k \in 1 .. Size, NEW h \in 0 .. Size, NEW t \in Nat
    PROVE  /\ h + k > Size =>
                /\ t + Size - h \in Nat
                /\ Left(k, 0, t + Size - h) < Left(k, h, t)
           /\ h + k <= Size /\ Blocking(h, k) # {} =>
                LET step == Least(Blocking(h, k)) - h + 1 IN
                /\ h + step \in 0 .. Size /\ t + step \in Nat /\ step \in 1 .. k
                /\ ~GiveUp(t + step) => Left(k, h + step, t + step) < Left(k, h, t)
<1> USE SizeAssumption
<1>1. CASE h + k > Size
  BY <1>1 DEF Left
<1>2. CASE h + k <= Size /\ Blocking(h, k) # {}
  <2> DEFINE step == Least(Blocking(h, k)) - h + 1
  <2>1. step \in 1 .. k
    BY <1>2, StepOfWindow
  <2> HIDE DEF step
  <2>2. h + step \in 0 .. Size /\ t + step \in Nat
    BY <1>2, <2>1
  <2>3. ~GiveUp(t + step) => Left(k, h + step, t + step) < Left(k, h, t)
    BY <1>2, <2>1, <2>2 DEF GiveUp, Left
  <2> QED BY <1>2, <2>1, <2>2, <2>3 DEF step
<1> QED BY <1>1, <1>2

(* One visit returns a result when the visits it leads to do.              *)
LEMMA VisitType ==
    ASSUME Positions, NEW k \in 1 .. Size, NEW f \in [0 .. Size -> [Nat -> Result]],
           NEW h \in 0 .. Size, NEW t \in Nat
    PROVE  Visit(k, f, h, t) \in Result
<1> USE SizeAssumption
<1> DEFINE step == Least(Blocking(h, k)) - h + 1
<1>1. CASE h + k > Size
  BY <1>1, NextVisit DEF Visit
<1>2. CASE h + k <= Size /\ Blocking(h, k) = {}
  BY <1>2 DEF Visit, Result
<1>3. CASE h + k <= Size /\ Blocking(h, k) # {}
  <2>1. h + step \in 0 .. Size /\ t + step \in Nat
    BY <1>3, NextVisit
  <2>2. Visit(k, f, h, t) = IF GiveUp(t + step) THEN [found |-> FALSE, head |-> h + step]
                            ELSE f[h + step][t + step]
    BY <1>3 DEF Visit
  <2>3. h + step \in 0 .. Size => [found |-> FALSE, head |-> h + step] \in Result
    BY DEF Result
  <2>4. h + step \in 0 .. Size /\ t + step \in Nat => f[h + step][t + step] \in Result
    OBVIOUS
  <2> HIDE DEF step
  <2> QED BY <2>1, <2>2, <2>3, <2>4
<1> QED BY <1>1, <1>2, <1>3

(* A visit looks only at results of visits with less left. *)
SameBehind(k, f, g, h, t) ==
    \A h2 \in 0 .. Size, t2 \in Nat :
        Left(k, h2, t2) < Left(k, h, t) => f[h2][t2] = g[h2][t2]

(* One visit depends only on visits with less of the search left.          *)
LEMMA VisitLocal ==
    ASSUME Positions, NEW k \in 1 .. Size,
           NEW f, NEW g, NEW h \in 0 .. Size, NEW t \in Nat, SameBehind(k, f, g, h, t)
    PROVE  Visit(k, f, h, t) = Visit(k, g, h, t)
<1> USE SizeAssumption
<1> DEFINE step == Least(Blocking(h, k)) - h + 1
<1>1. CASE h + k > Size
  <2>1. 0 \in 0 .. Size /\ t + Size - h \in Nat /\ Left(k, 0, t + Size - h) < Left(k, h, t)
    BY <1>1, NextVisit
  <2> QED BY <1>1, <2>1 DEF Visit, SameBehind
<1>2. CASE h + k <= Size /\ Blocking(h, k) = {}
  BY <1>2 DEF Visit
<1>3. CASE h + k <= Size /\ Blocking(h, k) # {}
  <2>1. /\ h + step \in 0 .. Size /\ t + step \in Nat
        /\ ~GiveUp(t + step) => Left(k, h + step, t + step) < Left(k, h, t)
    BY <1>3, NextVisit
  <2>2. \A r : Visit(k, r, h, t) = IF GiveUp(t + step) THEN [found |-> FALSE, head |-> h + step]
                                   ELSE r[h + step][t + step]
    BY <1>3 DEF Visit
  <2> HIDE DEF step
  <2> QED BY <2>1, <2>2 DEF SameBehind
<1> QED BY <1>1, <1>2, <1>3

(* The recursion of the search is well founded: there is a function as     *)
(* KVCache defines it, by induction on what is left.                       *)
LEMMA SearchExists ==
    ASSUME Positions, NEW k \in 1 .. Size
    PROVE  \E f \in [0 .. Size -> [Nat -> Result]] : Visits(k, f)
<1> USE SizeAssumption
<1> DEFINE T == [0 .. Size -> [Nat -> Result]]
           Upto(f, m) == \A h \in 0 .. Size, t \in Nat :
                             Left(k, h, t) < m => f[h][t] = Visit(k, f, h, t)
           S == {m \in Nat : \E f \in T : Upto(f, m)}
<1>0. \A h \in 0 .. Size, t \in Nat : Left(k, h, t) \in Nat /\ Left(k, h, t) < 2 * Size + 2
  BY DEF Left
<1>1. 0 \in S
  <2> DEFINE f == [h \in 0 .. Size |-> [t \in Nat |-> [found |-> FALSE, head |-> 0]]]
  <2>1. f \in T
    BY DEF Result
  <2>2. \A h \in 0 .. Size, t \in Nat : ~(Left(k, h, t) < 0)
    BY <1>0
  <2>3. Upto(f, 0)
    BY <2>2
  <2> HIDE DEF f, Upto, T
  <2> QED BY <2>1, <2>3
<1>2. ASSUME NEW m \in Nat, m \in S PROVE m + 1 \in S
  <2>1. PICK f \in T : Upto(f, m)
    BY <1>2
  <2> DEFINE g == [h \in 0 .. Size |-> [t \in Nat |->
                      IF Left(k, h, t) = m THEN Visit(k, f, h, t) ELSE f[h][t]]]
  <2>2. \A h \in 0 .. Size, t \in Nat : Visit(k, f, h, t) \in Result
    BY VisitType
  <2>3. g \in T
    BY <2>2
  <2>4. \A h \in 0 .. Size, t \in Nat :
           g[h][t] = IF Left(k, h, t) = m THEN Visit(k, f, h, t) ELSE f[h][t]
    OBVIOUS
  <2> HIDE DEF g
  <2>5. ASSUME NEW h \in 0 .. Size, NEW t \in Nat, Left(k, h, t) < m + 1
        PROVE  g[h][t] = Visit(k, g, h, t)
    <3>0. Left(k, h, t) \in Nat
      BY <1>0
    <3>1. ASSUME NEW h2 \in 0 .. Size, NEW t2 \in Nat, Left(k, h2, t2) < Left(k, h, t)
          PROVE  f[h2][t2] = g[h2][t2]
      <4>1. Left(k, h2, t2) \in Nat
        BY <1>0
      <4>2. Left(k, h2, t2) # m
        BY <4>1, <2>5, <3>0, <3>1
      <4> QED BY <4>2, <2>4
    <3>2. Visit(k, f, h, t) = Visit(k, g, h, t)
      <4>1. SameBehind(k, f, g, h, t)
        BY <3>1 DEF SameBehind
      <4> QED BY <4>1, VisitLocal
    <3>3. g[h][t] = Visit(k, f, h, t)
      <4>1. CASE Left(k, h, t) = m
        BY <4>1, <2>4
      <4>2. CASE Left(k, h, t) # m
        <5>1. Left(k, h, t) < m
          BY <2>5, <3>0, <4>2
        <5> QED BY <5>1, <4>2, <2>1, <2>4
      <4> QED BY <4>1, <4>2
    <3> QED BY <3>2, <3>3
  <2>6. Upto(g, m + 1)
    BY <2>5
  <2> HIDE DEF T, Upto
  <2> QED BY <2>3, <2>6
<1>3. 2 * Size + 2 \in S
  <2> HIDE DEF S
  <2>1. Nat \subseteq S
    BY <1>1, <1>2, NatSetInduction
  <2> QED BY <2>1
<1>4. PICK f \in T : Upto(f, 2 * Size + 2)
  BY <1>3
<1>5. ASSUME NEW h \in 0 .. Size PROVE f[h] = [t \in Nat |-> Visit(k, f, h, t)]
  <2>1. \A t \in Nat : f[h][t] = Visit(k, f, h, t)
    BY <1>0, <1>4
  <2>2. f[h] \in [Nat -> Result]
    BY <1>4
  <2> QED BY <2>1, <2>2
<1>6. Visits(k, f)
  BY <1>4, <1>5 DEF Visits
<1> QED BY <1>4, <1>6

-------------------------------------------------------------------------------
(* What the search finds. *)

IsSlot(k, h) == h + k <= Size /\ \A i \in h .. h + k - 1 : pos[i] < 0
NoSlotIn(k, a, b) == \A s \in a .. b : ~IsSlot(k, s)

(* What t tests from from0 to h have shown: on the first way up, and after *)
(* the search has begun again at 0.                                        *)
Tested(k, from0, h, t) ==
    \/ from0 <= h /\ t = h - from0 /\ NoSlotIn(k, from0, h - 1)
    \/ t = Size - from0 + h /\ NoSlotIn(k, from0, Size) /\ NoSlotIn(k, 0, h - 1)

FoundRight(k, from0, h, t, r) ==
    /\ r \in Result
    /\ r.found => IsSlot(k, r.head)
    /\ Tested(k, from0, h, t) /\ (\E s \in Cells : IsSlot(k, s)) => r.found

(* A slot does not begin between a head and a used cell of its window. *)
LEMMA NoSlotInWindow ==
    ASSUME Positions, NEW k \in 1 .. Size, NEW h \in 0 .. Size, h + k <= Size,
           Blocking(h, k) # {}
    PROVE  NoSlotIn(k, h, Least(Blocking(h, k)))
<1> USE SizeAssumption
<1> DEFINE b == Least(Blocking(h, k))
<1>1. b \in h .. h + k - 1 /\ pos[b] >= 0
  BY StepOfWindow
<1> HIDE DEF b
<1>2. ASSUME NEW s \in h .. b, IsSlot(k, s) PROVE FALSE
  <2>1. b \in s .. s + k - 1
    BY <1>1
  <2>2. pos[b] < 0
    BY <1>2, <2>1 DEF IsSlot
  <2>3. pos[b] \in Int
    BY <1>1 DEF Positions, Cells
  <2> QED BY <1>1, <2>2, <2>3
<1> QED BY <1>2 DEF NoSlotIn, b

(* One visit gives the right result when the visits it leads to do.        *)
LEMMA VisitRight ==
    ASSUME Positions, NEW k \in 1 .. Size, NEW from0 \in 0 .. Size, NEW f,
           NEW h \in 0 .. Size, NEW t \in Nat,
           \A h2 \in 0 .. Size, t2 \in Nat :
               Left(k, h2, t2) < Left(k, h, t) => FoundRight(k, from0, h2, t2, f[h2][t2])
    PROVE  FoundRight(k, from0, h, t, Visit(k, f, h, t))
<1> USE SizeAssumption
<1> DEFINE b == Least(Blocking(h, k))
           step == b - h + 1
           r == Visit(k, f, h, t)
           Some == \E s \in Cells : IsSlot(k, s)
<1>1. CASE h + k > Size
  <2>1. 0 \in 0 .. Size /\ t + Size - h \in Nat /\ Left(k, 0, t + Size - h) < Left(k, h, t)
    BY <1>1 DEF Left
  <2>2. r = f[0][t + Size - h]
    BY <1>1 DEF Visit
  <2>3. FoundRight(k, from0, 0, t + Size - h, r)
    BY <2>1, <2>2
  <2>4. NoSlotIn(k, h, Size)
    BY <1>1 DEF NoSlotIn, IsSlot
  <2>5. Tested(k, from0, h, t) /\ Some => Tested(k, from0, 0, t + Size - h)
    <3>1. CASE from0 <= h /\ t = h - from0 /\ NoSlotIn(k, from0, h - 1)
      BY <2>4, <3>1 DEF NoSlotIn, Tested
    <3>2. CASE t = Size - from0 + h /\ NoSlotIn(k, from0, Size) /\ NoSlotIn(k, 0, h - 1)
      BY <2>4, <3>2 DEF NoSlotIn, Cells
    <3> QED BY <3>1, <3>2 DEF Tested
  <2> HIDE DEF r, Some
  <2> QED BY <2>3, <2>5 DEF FoundRight, r, Some
<1>2. CASE h + k <= Size /\ Blocking(h, k) = {}
  <2>1. r = [found |-> TRUE, head |-> h]
    BY <1>2 DEF Visit
  <2>2. IsSlot(k, h)
    <3>1. \A i \in h .. h + k - 1 : pos[i] \in Int
      BY <1>2 DEF Positions, Cells
    <3> QED BY <1>2, <3>1 DEF IsSlot, Blocking
  <2> HIDE DEF r
  <2> QED BY <2>1, <2>2 DEF FoundRight, Result, r
<1>3. CASE h + k <= Size /\ Blocking(h, k) # {}
  <2>1. b \in h .. h + k - 1
    BY <1>3, StepOfWindow
  <2>2. /\ h + step \in 0 .. Size /\ t + step \in Nat
        /\ ~GiveUp(t + step) => Left(k, h + step, t + step) < Left(k, h, t)
    BY <1>3, NextVisit
  <2>3. r = IF GiveUp(t + step) THEN [found |-> FALSE, head |-> h + step]
            ELSE f[h + step][t + step]
    BY <1>3 DEF Visit
  <2>4. NoSlotIn(k, h, b)
    BY <1>3, NoSlotInWindow
  <2> HIDE DEF b
  <2>5. Tested(k, from0, h, t) => Tested(k, from0, h + step, t + step)
    <3>1. CASE from0 <= h /\ t = h - from0 /\ NoSlotIn(k, from0, h - 1)
      BY <2>1, <2>4, <3>1 DEF NoSlotIn, Tested
    <3>2. CASE t = Size - from0 + h /\ NoSlotIn(k, from0, Size) /\ NoSlotIn(k, 0, h - 1)
      BY <2>1, <2>4, <3>2 DEF NoSlotIn, Tested
    <3> QED BY <3>1, <3>2 DEF Tested
  <2> HIDE DEF r
  <2>6. CASE GiveUp(t + step)
    <3>1. r = [found |-> FALSE, head |-> h + step]
      BY <2>3, <2>6
    <3>2. r \in Result /\ ~r.found
      BY <2>2, <3>1 DEF Result
    <3>3. Tested(k, from0, h + step, t + step) => ~Some
      <4>1. t + step >= Size
        BY <2>6 DEF GiveUp
      <4> QED BY <2>1, <2>2, <4>1 DEF Tested, NoSlotIn, Cells
    <3> HIDE DEF Some
    <3> QED BY <2>5, <3>2, <3>3 DEF FoundRight, r, Some
  <2>7. CASE ~GiveUp(t + step)
    <3>1. r = f[h + step][t + step]
      BY <2>3, <2>7
    <3>2. FoundRight(k, from0, h + step, t + step, r)
      BY <2>2, <2>7, <3>1
    <3> HIDE DEF step, Some
    <3> QED BY <2>5, <3>2 DEF FoundRight, r
  <2> QED BY <2>6, <2>7
<1> QED BY <1>1, <1>2, <1>3

(* llama_kv_cache_find_slot's loop ends inside the cache, with a slot when *)
(* it says so, and it says so whenever there is one, wherever it begins.   *)
LEMMA SearchSound ==
    ASSUME Positions, NEW k \in 1 .. Size, NEW from0 \in 0 .. Size
    PROVE  /\ Search(k, from0) \in Result
           /\ Search(k, from0).found => IsSlot(k, Search(k, from0).head)
           /\ (\E h \in Cells : IsSlot(k, h)) => Search(k, from0).found
<1> USE SizeAssumption
<1> DEFINE f == CHOOSE g : Visits(k, g)
           S == {m \in Nat : \A h \in 0 .. Size, t \in Nat :
                                Left(k, h, t) < m => FoundRight(k, from0, h, t, f[h][t])}
<1>1. Visits(k, f)
  BY SearchExists
<1> HIDE DEF f
<1>2. \A h \in 0 .. Size, t \in Nat : f[h][t] = Visit(k, f, h, t)
  <2>1. \A h \in 0 .. Size : f[h] = [t \in Nat |-> Visit(k, f, h, t)]
    BY <1>1, Zenon DEF Visits
  <2> HIDE DEF S
  <2> QED BY <2>1
<1>3. \A h \in 0 .. Size, t \in Nat : Left(k, h, t) \in Nat /\ Left(k, h, t) < 2 * Size + 2
  BY DEF Left
<1>4. 0 \in S
  <2>1. \A h \in 0 .. Size, t \in Nat : ~(Left(k, h, t) < 0)
    BY <1>3
  <2> QED BY <2>1
<1>5. ASSUME NEW m \in Nat, m \in S PROVE m + 1 \in S
  <2>1. ASSUME NEW h \in 0 .. Size, NEW t \in Nat, Left(k, h, t) < m + 1
        PROVE  FoundRight(k, from0, h, t, f[h][t])
    <3>1. Left(k, h, t) \in Nat
      BY <1>3
    <3>2. ASSUME NEW h2 \in 0 .. Size, NEW t2 \in Nat, Left(k, h2, t2) < Left(k, h, t)
          PROVE  FoundRight(k, from0, h2, t2, f[h2][t2])
      <4>1. Left(k, h2, t2) \in Nat
        BY <1>3
      <4>2. Left(k, h2, t2) < m
        BY <2>1, <3>1, <3>2, <4>1
      <4> QED BY <1>5, <4>2
    <3>3. FoundRight(k, from0, h, t, Visit(k, f, h, t))
      <4> HIDE DEF S
      <4> QED BY <3>2, VisitRight
    <3> QED BY <1>2, <3>3
  <2> QED BY <2>1
<1>6. 2 * Size + 2 \in S
  <2> HIDE DEF S
  <2>1. Nat \subseteq S
    BY <1>4, <1>5, NatSetInduction
  <2> QED BY <2>1
<1>7. FoundRight(k, from0, from0, 0, f[from0][0])
  BY <1>3, <1>6
<1>8. Tested(k, from0, from0, 0)
  BY DEF Tested, NoSlotIn
<1>9. Search(k, from0) = f[from0][0]
  BY SearchByVisits DEF f
<1> QED BY <1>7, <1>8, <1>9 DEF FoundRight

(* llama_kv_cache_find_slot returns a slot exactly when there is one, and  *)
(* whenever it gives up no slot exists; head stays inside the cache.       *)
LEMMA FindSlotSound ==
    ASSUME TypeOK, NEW k \in 1 .. MaxBatch
    PROVE  /\ FindSlot(k) \in Result
           /\ FindSlot(k).found => IsSlot(k, FindSlot(k).head)
           /\ (\E h \in Cells : IsSlot(k, h)) => FindSlot(k).found
<1> USE SizeAssumption, BoundsAssumption
<1> DEFINE from0 == IF head > used + 2 * k THEN 0 ELSE head
<1>1. from0 \in 0 .. Size
  BY DEF TypeOK
<1>2. FindSlot(k) = IF k > Size THEN [found |-> FALSE, head |-> from0] ELSE Search(k, from0)
  BY DEF FindSlot
<1> HIDE DEF from0
<1>3. CASE k > Size
  <2>1. FindSlot(k) = [found |-> FALSE, head |-> from0]
    BY <1>2, <1>3
  <2>2. ~\E h \in Cells : IsSlot(k, h)
    BY <1>3 DEF IsSlot, Cells
  <2> QED BY <1>1, <2>1, <2>2 DEF Result
<1>4. CASE k <= Size
  <2>1. FindSlot(k) = Search(k, from0)
    BY <1>2, <1>4
  <2>2. Positions /\ k \in 1 .. Size
    BY <1>4 DEF TypeOK, Positions
  <2> QED BY <1>1, <2>1, <2>2, SearchSound
<1> QED BY <1>3, <1>4

-------------------------------------------------------------------------------
(* The inductive invariant *)

(* A delta that waits for a graph is announced by has_shift, also in free  *)
(* cells: the next decode may store a token there.                         *)
ShiftsPending ==
    /\ \A i \in UsedCells : pos[i] = rot[i] + delta[i]
    /\ \A i \in Cells : delta[i] # 0 => has_shift

IInv == TypeOK /\ UsedCounted /\ ShiftsPending

(* The sets that used counts are finite.                                   *)
LEMMA CellsFinite == IsFiniteSet(Cells) /\ IsFiniteSet(UsedCells)
<1>1. IsFiniteSet(Cells)
  BY SizeAssumption, FS_Interval DEF Cells
<1>2. UsedCells \in SUBSET Cells
  BY DEF UsedCells
<1> QED BY <1>1, <1>2, FS_Subset

(* A set of cells that is not empty has a first one, where Free may move   *)
(* head.                                                                   *)
LEMMA LeastCell ==
    ASSUME NEW S \in SUBSET Cells, S # {}
    PROVE  Least(S) \in S /\ Least(S) \in Cells
<1>1. S \in SUBSET Nat
  BY SizeAssumption DEF Cells
<1>2. \E x \in S : \A y \in S : x <= y
  BY <1>1, LeastElement
<1> QED BY <1>2 DEF Least

(* seq_rm and seq_keep: cells that no sequence has any more become free.   *)
LEMMA FreeStep ==
    ASSUME IInv, NEW freed \in SUBSET Cells, Free(freed),
           seqs' \in [Cells -> SUBSET Seqs],
           \A i \in freed : seqs'[i] = {},
           \A i \in Cells \ freed : seqs'[i] = {} <=> seqs[i] = {},
           UNCHANGED <<delta, rot, has_shift, n>>
    PROVE  IInv' /\ used' <= used
<1> USE SizeAssumption, BoundsAssumption
<1> DEFINE gone == {i \in freed : pos[i] >= 0}
<1>1. UsedCells' = UsedCells \ gone /\ gone \in SUBSET UsedCells
  BY DEF UsedCells, Free, IInv, TypeOK
<1>2. /\ IsFiniteSet(gone) /\ Cardinality(gone) \in Nat
      /\ Cardinality(UsedCells') = Cardinality(UsedCells) - Cardinality(gone)
      /\ Cardinality(UsedCells') \in Nat /\ Cardinality(UsedCells) \in Nat
  <2>1. IsFiniteSet(UsedCells) /\ IsFiniteSet(gone) /\ IsFiniteSet(UsedCells \ gone)
    BY <1>1, CellsFinite, FS_Subset, FS_Difference
  <2>2. UsedCells \cap gone = gone
    BY <1>1
  <2> QED BY <1>1, <2>1, <2>2, FS_CardinalityType, FS_Difference
<1>3. used' = used - Cardinality(gone)
  BY DEF Free
<1>4. used' = Cardinality(UsedCells') /\ used' \in Nat /\ used' <= used
  BY <1>2, <1>3 DEF IInv, UsedCounted
<1>5. head' \in 0 .. Size
  <2>1. CASE freed # {} /\ Least(freed) < head
    BY <2>1, LeastCell DEF Free, Cells
  <2>2. CASE ~(freed # {} /\ Least(freed) < head)
    BY <2>2 DEF Free, IInv, TypeOK
  <2> QED BY <2>1, <2>2
<1>6. pos' \in [Cells -> -1 .. MaxPos]
  BY DEF Free, IInv, TypeOK
<1>7. TypeOK'
  BY <1>4, <1>5, <1>6 DEF IInv, TypeOK
<1>8. UsedCounted'
  <2>1. \A i \in Cells : pos'[i] >= 0 <=> seqs'[i] # {}
    BY DEF Free, IInv, UsedCounted, TypeOK
  <2> QED BY <1>4, <2>1 DEF UsedCounted
<1>9. ShiftsPending'
  BY <1>1 DEF Free, IInv, TypeOK, ShiftsPending, UsedCells
<1> QED BY <1>4, <1>7, <1>8, <1>9 DEF IInv

(* llama_kv_cache_seq_rm keeps the invariant.                              *)
LEMMA SeqRmStep ==
    ASSUME IInv, NEW s \in Seqs \cup {AnySeq}, NEW p0, NEW p1, SeqRm(s, p0, p1)
    PROVE  IInv' /\ used' <= used
<1> DEFINE left(i) == IF s = AnySeq THEN {} ELSE seqs[i] \ {s}
           hit == {i \in Cells : InRange(i, p0, p1) /\ (s = AnySeq \/ s \in seqs[i])}
           freed == {i \in hit : left(i) = {}}
<1>1. /\ seqs' = [i \in Cells |-> IF i \in hit THEN left(i) ELSE seqs[i]]
      /\ Free(freed) /\ UNCHANGED <<delta, rot, has_shift, n>>
  BY DEF SeqRm
<1>2. freed \in SUBSET Cells
  OBVIOUS
<1>3. seqs' \in [Cells -> SUBSET Seqs]
  BY <1>1 DEF IInv, TypeOK
<1>4. \A i \in freed : seqs'[i] = {}
  BY <1>1
<1>5. \A i \in Cells \ freed : seqs'[i] = {} <=> seqs[i] = {}
  BY <1>1
<1> HIDE DEF freed
<1> QED BY <1>1, <1>2, <1>3, <1>4, <1>5, FreeStep

(* llama_kv_cache_seq_keep keeps the invariant.                            *)
LEMMA SeqKeepStep ==
    ASSUME IInv, NEW s \in Seqs, SeqKeep(s)
    PROVE  IInv' /\ used' <= used
<1> DEFINE freed == {i \in Cells : s \notin seqs[i]}
<1>1. /\ seqs' = [i \in Cells |-> seqs[i] \cap {s}]
      /\ Free(freed) /\ UNCHANGED <<delta, rot, has_shift, n>>
  BY DEF SeqKeep
<1>2. freed \in SUBSET Cells
  OBVIOUS
<1>3. seqs' \in [Cells -> SUBSET Seqs]
  BY <1>1 DEF IInv, TypeOK
<1>4. \A i \in freed : seqs'[i] = {}
  BY <1>1
<1>5. \A i \in Cells \ freed : seqs'[i] = {} <=> seqs[i] = {}
  BY <1>1
<1> HIDE DEF freed
<1> QED BY <1>1, <1>2, <1>3, <1>4, <1>5, FreeStep

(* llama_kv_cache_seq_cp keeps the invariant: only used cells are copied.  *)
LEMMA SeqCpStep ==
    ASSUME IInv, NEW s \in Seqs, NEW d \in Seqs, NEW p0, NEW p1, SeqCp(s, d, p0, p1)
    PROVE  IInv' /\ used' <= used
<1> USE SizeAssumption, BoundsAssumption
<1>1. UsedCells' = UsedCells
  BY DEF SeqCp, UsedCells
<1>2. TypeOK'
  BY DEF SeqCp, IInv, TypeOK
<1>3. UsedCounted'
  BY <1>1 DEF SeqCp, IInv, TypeOK, UsedCounted
<1>4. ShiftsPending'
  BY <1>1 DEF SeqCp, IInv, ShiftsPending
<1> QED BY <1>2, <1>3, <1>4 DEF IInv, SeqCp, TypeOK

(* llama_kv_cache_clear keeps the invariant, although deltas and has_shift *)
(* stay.                                                                   *)
LEMMA ClearStep ==
    ASSUME IInv, Clear
    PROVE  IInv' /\ used' <= used
<1> USE SizeAssumption, BoundsAssumption
<1>1. UsedCells' = {}
  BY DEF Clear, UsedCells
<1>2. Cardinality(UsedCells') = 0
  BY <1>1, FS_EmptySet
<1>3. TypeOK' /\ used' <= used
  BY DEF Clear, IInv, TypeOK
<1>4. UsedCounted'
  BY <1>2 DEF Clear, UsedCounted
<1>5. ShiftsPending'
  BY <1>1 DEF Clear, IInv, ShiftsPending
<1> QED BY <1>3, <1>4, <1>5 DEF IInv

(* llama_kv_cache_seq_shift keeps the invariant: positions and deltas move *)
(* together, and used drops by the cells that fall off.                    *)
LEMMA SeqShiftStep ==
    ASSUME IInv, NEW s \in Seqs, NEW p0 \in Int, NEW p1 \in Int, NEW d \in Int,
           SeqShift(s, p0, p1, d)
    PROVE  IInv' /\ used' <= used
<1> USE SizeAssumption, BoundsAssumption
<1> DEFINE hit == {i \in Cells : s \in seqs[i] /\ InRange(i, p0, p1)}
           freed == {i \in hit : pos[i] + d < 0}
<1>1. /\ \A i \in hit : pos[i] + d <= MaxPos
      /\ pos' = [i \in Cells |->
                    IF i \in freed THEN -1 ELSE IF i \in hit THEN pos[i] + d ELSE pos[i]]
      /\ delta' = [i \in Cells |-> IF i \in hit THEN delta[i] + d ELSE delta[i]]
      /\ seqs' = [i \in Cells |-> IF i \in freed THEN {} ELSE seqs[i]]
      /\ used' = used - Cardinality(freed)
      /\ has_shift' = (has_shift \/ hit # {})
      /\ head' = IF freed = {} THEN 0 ELSE Least(freed)
      /\ rot' = rot /\ n' = n
  BY DEF SeqShift
<1>2. hit \in SUBSET UsedCells /\ freed \in SUBSET Cells
  BY DEF IInv, UsedCounted, UsedCells
<1>3. \A i \in Cells : pos[i] \in -1 .. MaxPos /\ rot[i] \in Int /\ delta[i] \in Int
  BY DEF IInv, TypeOK
<1>4. UsedCells' = UsedCells \ freed /\ freed \in SUBSET UsedCells
  BY <1>1, <1>2, <1>3 DEF UsedCells
<1>5. /\ Cardinality(freed) \in Nat
      /\ Cardinality(UsedCells') = Cardinality(UsedCells) - Cardinality(freed)
      /\ Cardinality(UsedCells') \in Nat /\ Cardinality(UsedCells) \in Nat
  <2> HIDE DEF freed
  <2>1. IsFiniteSet(UsedCells) /\ IsFiniteSet(freed) /\ IsFiniteSet(UsedCells \ freed)
    BY <1>4, CellsFinite, FS_Subset, FS_Difference
  <2>2. UsedCells \cap freed = freed
    BY <1>4
  <2> QED BY <1>4, <2>1, <2>2, FS_CardinalityType, FS_Difference
<1>6. used' = Cardinality(UsedCells') /\ used' \in Nat /\ used' <= used
  BY <1>1, <1>5 DEF IInv, UsedCounted
<1>7. head' \in 0 .. Size
  <2>1. CASE freed = {}
    BY <1>1, <2>1
  <2>2. CASE freed # {}
    <3>1. Least(freed) \in Cells
      <4> HIDE DEF freed
      <4> QED BY <1>2, <2>2, LeastCell
    <3> QED BY <1>1, <2>2, <3>1 DEF Cells
  <2> QED BY <2>1, <2>2
<1>8. pos' \in [Cells -> -1 .. MaxPos]
  <2>1. \A i \in Cells : (IF i \in freed THEN -1 ELSE IF i \in hit THEN pos[i] + d ELSE pos[i])
                            \in -1 .. MaxPos
    BY <1>1, <1>3
  <2> QED BY <1>1, <2>1
<1>9. TypeOK'
  <2>1. delta' \in [Cells -> Int] /\ seqs' \in [Cells -> SUBSET Seqs] /\ has_shift' \in BOOLEAN
    BY <1>1, <1>3 DEF IInv, TypeOK
  <2> QED BY <1>1, <1>6, <1>7, <1>8, <2>1 DEF IInv, TypeOK
<1>10. UsedCounted'
  <2>1. \A i \in Cells : pos'[i] >= 0 <=> seqs'[i] # {}
    BY <1>1, <1>2, <1>3 DEF IInv, UsedCounted, UsedCells
  <2> QED BY <1>6, <2>1 DEF UsedCounted
<1>11. ShiftsPending'
  <2>1. \A i \in UsedCells' : pos'[i] = rot'[i] + delta'[i]
    <3> SUFFICES ASSUME NEW i \in UsedCells' PROVE pos'[i] = rot'[i] + delta'[i]
      OBVIOUS
    <3>1. i \in UsedCells /\ i \notin freed /\ i \in Cells
      BY <1>4 DEF UsedCells
    <3>2. pos[i] = rot[i] + delta[i]
      BY <3>1 DEF IInv, ShiftsPending
    <3> QED BY <1>1, <1>3, <3>1, <3>2
  <2>2. \A i \in Cells : delta'[i] # 0 => has_shift'
    BY <1>1 DEF IInv, ShiftsPending
  <2> QED BY <2>1, <2>2 DEF ShiftsPending
<1> QED BY <1>6, <1>9, <1>10, <1>11 DEF IInv

(* A decode that finds no slot keeps the invariant: it only moves head.    *)
LEMMA DecodeFailsStep ==
    ASSUME IInv, DecodeFails
    PROVE  IInv' /\ used' <= used
<1> USE SizeAssumption, BoundsAssumption
<1>1. PICK k \in 1 .. MaxBatch : head' = FindSlot(k).head
  BY DEF DecodeFails
<1>2. head' \in 0 .. Size
  BY <1>1, FindSlotSound DEF IInv, Result
<1>3. UNCHANGED <<pos, seqs, delta, rot, has_shift, used, n>>
  BY DEF DecodeFails
<1>4. TypeOK' /\ used' <= used
  BY <1>2, <1>3 DEF IInv, TypeOK
<1>5. UsedCounted' /\ ShiftsPending'
  BY <1>3 DEF IInv, UsedCounted, ShiftsPending, UsedCells
<1> QED BY <1>4, <1>5 DEF IInv

-------------------------------------------------------------------------------
(* Decoding a batch *)

(* Max of a set of cells is its last cell.                                 *)
LEMMA GreatestCell ==
    ASSUME NEW S \in SUBSET Cells, S # {}
    PROVE  Max(S) \in S /\ \A y \in S : y <= Max(S)
<1>1. Size - 1 \in Nat /\ S \in SUBSET (0 .. Size - 1)
  BY SizeAssumption DEF Cells
<1>2. \E x \in S : \A y \in S : x >= y
  BY <1>1, GreatestElement
<1>3. Max(S) \in S /\ \A y \in S : Max(S) >= y
  BY <1>2 DEF Max
<1>4. \A y \in S : y \in Int
  BY <1>1
<1> QED BY <1>3, <1>4

(* However llama_kv_cache_cell_max counts, the graph attends to every used *)
(* cell, as it attends to one cell at least.                               *)
LEMMA AttendsEnough ==
    ASSUME NEW p \in [Cells -> -1 .. MaxPos], NEW q,
           \A i \in Cells : p[i] >= 0 => q[i] # {},
           NEW m, m = Min({Size, Max({MinAttend, CellMax(p, q)})})
    PROVE  m \in 0 .. Size /\ {i \in Cells : p[i] >= 0} \subseteq 0 .. m - 1
<1> USE SizeAssumption, BoundsAssumption
<1> DEFINE busy == {i \in Cells \ {0} : p[i] >= 0 /\ q[i] # {}}
           c == CellMax(p, q)
<1>1. c \in 0 .. Size /\ \A i \in busy : i < c
  <2>1. CASE busy = {}
    BY <2>1 DEF CellMax
  <2>2. CASE busy # {}
    <3>1. c = Max(busy) + 1
      BY <2>2 DEF CellMax
    <3>2. Max(busy) \in busy /\ \A y \in busy : y <= Max(busy)
      <4> HIDE DEF busy
      <4>1. busy \in SUBSET Cells
        BY DEF busy
      <4> QED BY <2>2, <4>1, GreatestCell
    <3>3. \A y \in busy : y \in 0 .. Size - 1
      BY DEF Cells
    <3> HIDE DEF busy, c
    <3> QED BY <3>1, <3>2, <3>3
  <2> QED BY <2>1, <2>2
<1> HIDE DEF c
<1>2. Max({MinAttend, c}) = IF MinAttend >= c THEN MinAttend ELSE c
  BY <1>1 DEF Max
<1>3. m = IF Size <= Max({MinAttend, c}) THEN Size ELSE Max({MinAttend, c})
  BY <1>1, <1>2 DEF Min, c
<1>4. m \in 1 .. Size /\ (c <= m)
  BY <1>1, <1>2, <1>3
<1>5. ASSUME NEW i \in Cells, p[i] >= 0 PROVE i \in 0 .. m - 1
  <2>1. CASE i = 0
    BY <1>4, <2>1
  <2>2. CASE i # 0
    <3>1. i \in busy
      BY <1>5, <2>2
    <3> QED BY <1>1, <1>4, <3>1 DEF Cells
  <2> QED BY <2>1, <2>2
<1>6. m \in 0 .. Size
  BY <1>4
<1> HIDE DEF busy
<1> QED BY <1>5, <1>6

(* The tokens of a batch take free cells, and nothing else happens to the  *)
(* cells in use but that pending shifts are applied to their K.            *)
LEMMA DecodeStep ==
    ASSUME IInv, DecodeBatch
    PROVE  /\ IInv'
           /\ UsedCells' \subseteq 0 .. n' - 1
           /\ \A i \in UsedCells : pos'[i] = pos[i] /\ seqs'[i] = seqs[i]
<1> USE SizeAssumption, BoundsAssumption
<1>k. PICK k \in 1 .. MaxBatch :
          /\ FindSlot(k).found
          /\ \E ps \in [1 .. k -> 0 .. MaxPos], ss \in [1 .. k -> (SUBSET Seqs) \ {{}}] :
                 StoreTokens(FindSlot(k).head, k, ps, ss)
          /\ ApplyShift(FindSlot(k).head, k)
          /\ head' = IF FindSlot(k).head + k >= Size THEN 0 ELSE FindSlot(k).head + k
  BY DEF DecodeBatch
<1>1. PICK ps \in [1 .. k -> 0 .. MaxPos], ss \in [1 .. k -> (SUBSET Seqs) \ {{}}] :
          StoreTokens(FindSlot(k).head, k, ps, ss)
  BY <1>k
<1> DEFINE h == FindSlot(k).head
           Slot == h .. h + k - 1
<1>2. h \in 0 .. Size /\ IsSlot(k, h)
  BY <1>k, FindSlotSound DEF IInv, Result
<1>3. /\ pos' = [i \in Cells |-> IF i \in Slot THEN ps[i - h + 1] ELSE pos[i]]
      /\ seqs' = [i \in Cells |-> IF i \in Slot THEN seqs[i] \cup ss[i - h + 1] ELSE seqs[i]]
      /\ used' = used + k
      /\ n' = Min({Size, Max({MinAttend, CellMax(pos', seqs')})})
  BY <1>1 DEF StoreTokens
<1>4. /\ rot' = [i \in Cells |-> IF i \in Slot THEN pos'[i]
                                 ELSE rot[i] + (IF has_shift THEN delta[i] ELSE 0)]
      /\ delta' = IF has_shift THEN [i \in Cells |-> 0] ELSE delta
      /\ has_shift' = FALSE
  BY <1>k DEF ApplyShift
<1>5. head' = IF h + k >= Size THEN 0 ELSE h + k
  BY <1>k
<1> HIDE DEF h
<1>6. /\ Slot \in SUBSET Cells /\ Slot \cap UsedCells = {}
      /\ \A i \in Slot : i - h + 1 \in 1 .. k
  <2>1. \A i \in Slot : i \in Cells
    BY <1>2 DEF IsSlot, Cells
  <2>2. \A i \in Slot : pos[i] < 0 /\ pos[i] \in Int
    BY <1>2, <2>1 DEF IsSlot, IInv, TypeOK
  <2>3. \A i \in Slot : i - h + 1 \in 1 .. k
    BY <1>2
  <2> QED BY <2>1, <2>2, <2>3 DEF UsedCells
<1>7. \A i \in Slot : seqs[i] = {}
  BY <1>6 DEF IInv, UsedCounted, UsedCells
<1>8. \A i \in Cells : pos[i] \in -1 .. MaxPos /\ rot[i] \in Int /\ delta[i] \in Int
  BY DEF IInv, TypeOK
<1>9. pos' \in [Cells -> -1 .. MaxPos]
  <2>1. \A i \in Cells : (IF i \in Slot THEN ps[i - h + 1] ELSE pos[i]) \in -1 .. MaxPos
    BY <1>6, <1>8
  <2> QED BY <1>3, <2>1
<1>10. seqs' \in [Cells -> SUBSET Seqs]
  <2>1. \A i \in Slot : ss[i - h + 1] \in SUBSET Seqs
    BY <1>6
  <2>2. \A i \in Cells : seqs[i] \in SUBSET Seqs
    BY DEF IInv, TypeOK
  <2>3. \A i \in Cells : (IF i \in Slot THEN seqs[i] \cup ss[i - h + 1] ELSE seqs[i]) \in SUBSET Seqs
    BY <2>1, <2>2
  <2> QED BY <1>3, <2>3
<1>11. \A i \in Cells : pos'[i] >= 0 <=> seqs'[i] # {}
  <2> SUFFICES ASSUME NEW i \in Cells PROVE pos'[i] >= 0 <=> seqs'[i] # {}
    OBVIOUS
  <2>1. CASE i \in Slot
    <3>1. ps[i - h + 1] \in 0 .. MaxPos /\ ss[i - h + 1] # {}
      BY <1>6, <2>1
    <3> QED BY <1>3, <2>1, <3>1
  <2>2. CASE i \notin Slot
    BY <1>3, <2>2 DEF IInv, UsedCounted
  <2> QED BY <2>1, <2>2
<1>12. UsedCells' = UsedCells \cup Slot
  <2>1. \A i \in Slot : pos'[i] >= 0
    BY <1>3, <1>6
  <2>2. \A i \in Cells \ Slot : pos'[i] = pos[i]
    BY <1>3
  <2> QED BY <1>6, <2>1, <2>2 DEF UsedCells
<1>13. Cardinality(UsedCells') = Cardinality(UsedCells) + k /\ Cardinality(UsedCells) \in Nat
  <2>1. IsFiniteSet(Slot) /\ Cardinality(Slot) = k
    <3>1. h \in Int /\ h + k - 1 \in Int /\ ~(h > h + k - 1) /\ (h + k - 1) - h + 1 = k
      BY <1>2
    <3> QED BY <3>1, FS_Interval
  <2>2. Cardinality(UsedCells \cup Slot) =
          Cardinality(UsedCells) + Cardinality(Slot) - Cardinality(UsedCells \cap Slot)
    BY <2>1, CellsFinite, FS_Union
  <2>3. Cardinality(UsedCells \cap Slot) = 0
    <3>1. UsedCells \cap Slot = {}
      BY <1>6
    <3> QED BY <3>1, FS_EmptySet
  <2> QED BY <1>12, <2>1, <2>2, <2>3, CellsFinite, FS_CardinalityType
<1>14. used' \in Nat /\ used' = Cardinality(UsedCells')
  BY <1>3, <1>13 DEF IInv, UsedCounted
<1>15. n' \in 0 .. Size /\ UsedCells' \subseteq 0 .. n' - 1
  <2>1. UsedCells' = {i \in Cells : pos'[i] >= 0}
    BY DEF UsedCells
  <2> HIDE DEF Slot
  <2> QED BY <1>3, <1>9, <1>11, <2>1, AttendsEnough
<1>16. TypeOK'
  <2>1. rot' \in [Cells -> Int]
    <3>1. \A i \in Cells : (IF i \in Slot THEN pos'[i]
                            ELSE rot[i] + (IF has_shift THEN delta[i] ELSE 0)) \in Int
      BY <1>8, <1>9
    <3> QED BY <1>4, <3>1
  <2>2. delta' \in [Cells -> Int]
    BY <1>4 DEF IInv, TypeOK
  <2>3. head' \in 0 .. Size
    BY <1>2, <1>5
  <2> QED BY <1>4, <1>9, <1>10, <1>14, <1>15, <2>1, <2>2, <2>3 DEF TypeOK
<1>17. UsedCounted'
  BY <1>11, <1>14 DEF UsedCounted
<1>18. ShiftsPending'
  <2>1. \A i \in Cells : delta'[i] = 0
    BY <1>4 DEF IInv, ShiftsPending
  <2>2. \A i \in UsedCells' : pos'[i] = rot'[i] + delta'[i]
    <3> SUFFICES ASSUME NEW i \in UsedCells' PROVE pos'[i] = rot'[i] + delta'[i]
      OBVIOUS
    <3>0. i \in Cells
      BY DEF UsedCells
    <3>1. CASE i \in Slot
      BY <1>4, <1>9, <2>1, <3>0, <3>1
    <3>2. CASE i \notin Slot
      <4>1. i \in UsedCells
        BY <1>12, <3>2
      <4>2. pos[i] = rot[i] + delta[i] /\ (delta[i] # 0 => has_shift)
        BY <3>0, <4>1 DEF IInv, ShiftsPending
      <4>3. rot'[i] = rot[i] + (IF has_shift THEN delta[i] ELSE 0)
        BY <1>4, <3>0, <3>2
      <4>4. pos'[i] = pos[i]
        BY <1>3, <3>0, <3>2
      <4> QED BY <1>8, <2>1, <3>0, <4>2, <4>3, <4>4
    <3> QED BY <3>1, <3>2
  <2> QED BY <2>1, <2>2 DEF ShiftsPending
<1>19. \A i \in UsedCells : pos'[i] = pos[i] /\ seqs'[i] = seqs[i]
  BY <1>3, <1>6 DEF UsedCells
<1> QED BY <1>15, <1>16, <1>17, <1>18, <1>19 DEF IInv

-------------------------------------------------------------------------------
(* Theorems *)

(* A step keeps the invariant; only a decode counts up used.               *)
LEMMA Step ==
    ASSUME IInv, [Next]_vars
    PROVE  IInv' /\ (used' > used => DecodeBatch)
<1> USE SizeAssumption, BoundsAssumption
<1>0. used \in Nat
  BY DEF IInv, TypeOK
<1>a. ASSUME IInv', used' <= used
      PROVE  IInv' /\ (used' > used => DecodeBatch)
  <2>1. used' \in Nat
    BY <1>a DEF IInv, TypeOK
  <2> QED BY <1>0, <1>a, <2>1
<1>1. CASE DecodeFails
  BY <1>1, <1>a, DecodeFailsStep
<1>2. CASE DecodeBatch
  BY <1>2, DecodeStep
<1>3. ASSUME NEW s \in Seqs \cup {AnySeq}, NEW r \in Ranges, SeqRm(s, r[1], r[2])
      PROVE  IInv' /\ (used' > used => DecodeBatch)
  BY <1>3, <1>a, SeqRmStep
<1>4. ASSUME NEW s \in Seqs, NEW d \in Seqs, NEW r \in Ranges, SeqCp(s, d, r[1], r[2])
      PROVE  IInv' /\ (used' > used => DecodeBatch)
  BY <1>4, <1>a, SeqCpStep
<1>5. ASSUME NEW s \in Seqs, SeqKeep(s)
      PROVE  IInv' /\ (used' > used => DecodeBatch)
  BY <1>5, <1>a, SeqKeepStep
<1>6. ASSUME NEW s \in Seqs, NEW r \in Ranges, NEW d \in {-1, 1}, SeqShift(s, r[1], r[2], d)
      PROVE  IInv' /\ (used' > used => DecodeBatch)
  <2>1. r[1] \in Int /\ r[2] \in Int /\ d \in Int
    BY DEF Ranges
  <2> QED BY <1>6, <1>a, <2>1, SeqShiftStep
<1>7. CASE Clear
  BY <1>7, <1>a, ClearStep
<1>8. CASE UNCHANGED vars
  <2>1. UNCHANGED <<pos, seqs, delta, rot, has_shift, head, used, n>>
    BY <1>8 DEF vars
  <2>2. IInv'
    BY <2>1 DEF IInv, TypeOK, UsedCounted, ShiftsPending, UsedCells
  <2> QED BY <1>0, <2>1, <2>2
<1> QED BY <1>1, <1>2, <1>3, <1>4, <1>5, <1>6, <1>7, <1>8 DEF Next

(* The cache that llama_kv_cache_init makes satisfies the invariant.       *)
LEMMA Begin == Init => IInv
<1> USE SizeAssumption, BoundsAssumption
<1> SUFFICES ASSUME Init PROVE IInv
  OBVIOUS
<1>1. UsedCells = {}
  BY DEF Init, UsedCells
<1>2. Cardinality(UsedCells) = 0
  BY <1>1, FS_EmptySet
<1>3. TypeOK
  <2>1. pos \in [Cells -> -1 .. MaxPos] /\ seqs \in [Cells -> SUBSET Seqs]
    BY DEF Init
  <2>2. delta \in [Cells -> Int] /\ rot \in [Cells -> Int]
    BY DEF Init, NoK
  <2>3. has_shift \in BOOLEAN
    BY DEF Init
  <2>4. 0 \in 0 .. Size
    OBVIOUS
  <2>5. head \in 0 .. Size /\ used \in Nat /\ n \in 0 .. Size
    BY <2>4 DEF Init
  <2> QED BY <2>1, <2>2, <2>3, <2>5 DEF TypeOK
<1> QED BY <1>1, <1>2, <1>3 DEF Init, IInv, UsedCounted, ShiftsPending

(* IInv holds of every reachable state of the cache, for every size, set   *)
(* of sequences and batch size: used counts the cells, and what rotates    *)
(* the K of a cell and its delta add up to its position.                   *)
THEOREM Inductive == Spec => []IInv
<1>1. IInv /\ [Next]_vars => IInv'
  BY Step
<1> QED BY <1>1, Begin, PTL DEF Spec

(* The counter used, which decode, seq_rm, seq_keep, seq_shift and clear   *)
(* each maintain on their own, always equals the number of cells that some *)
(* sequence has.                                                           *)
THEOREM CountersAgree == Spec => []CellsSound
<1>1. IInv => CellsSound
  BY DEF IInv, CellsSound
<1> QED BY <1>1, Inductive, PTL

(* The K of a used cell is rotated for its position but for its delta, and *)
(* a delta is pending only while has_shift tells the next graph to apply   *)
(* it.                                                                     *)
THEOREM RotationsAgree == Spec => []RotationCurrent
<1>1. IInv => RotationCurrent
  BY DEF IInv, ShiftsPending, RotationCurrent, UsedCells
<1> QED BY <1>1, Inductive, PTL

(* llama_kv_cache_find_slot, with its jump back to cell 0, its skips       *)
(* behind used cells and its count of tested cells, finds a slot whenever  *)
(* the cache has one and returns only slots of free cells.                 *)
THEOREM SlotsFound == Spec => []SlotFound
<1>1. IInv => SlotFound
  <2> SUFFICES ASSUME IInv, NEW k \in 1 .. MaxBatch
               PROVE  /\ FindSlot(k).found <=> \E h \in Cells : IsSlot(k, h)
                      /\ FindSlot(k).found => IsSlot(k, FindSlot(k).head)
    BY DEF SlotFound, IsSlot
  <2>1. FindSlot(k).found => IsSlot(k, FindSlot(k).head)
    BY FindSlotSound DEF IInv
  <2>2. FindSlot(k).found => FindSlot(k).head \in Cells
    BY <2>1, FindSlotSound, SizeAssumption, BoundsAssumption DEF IInv, Result, IsSlot, Cells
  <2>3. FindSlot(k).found \in BOOLEAN
    BY FindSlotSound DEF IInv, Result
  <2> QED BY <2>1, <2>2, <2>3, FindSlotSound DEF IInv
<1> QED BY <1>1, Inductive, PTL

(* The graph of a batch attends to every used cell, although               *)
(* llama_kv_cache_cell_max does not look at cell 0.                        *)
THEOREM AllAttendedTo == Spec => AttendsToAll
<1>1. IInv /\ [Next]_vars => [used' > used => UsedCells' \subseteq 0 .. n' - 1]_vars
  BY Step, DecodeStep
<1> QED BY <1>1, Inductive, PTL DEF Spec, AttendsToAll

(* A batch adds its tokens and overwrites no cell in use.                  *)
THEOREM TokensKept == Spec => DecodeKeepsTokens
<1>1. IInv /\ [Next]_vars =>
        [used' > used =>
            /\ \A i \in UsedCells : pos'[i] = pos[i] /\ seqs'[i] = seqs[i]
            /\ Cardinality(UsedCells') = Cardinality(UsedCells) + used' - used]_vars
  <2> SUFFICES ASSUME IInv, [Next]_vars, used' > used
               PROVE  /\ \A i \in UsedCells : pos'[i] = pos[i] /\ seqs'[i] = seqs[i]
                      /\ Cardinality(UsedCells') = Cardinality(UsedCells) + used' - used
    OBVIOUS
  <2>1. DecodeBatch /\ IInv'
    BY Step
  <2>2. /\ used = Cardinality(UsedCells) /\ used \in Nat
        /\ used' = Cardinality(UsedCells') /\ used' \in Nat
    BY <2>1 DEF IInv, TypeOK, UsedCounted
  <2>3. Cardinality(UsedCells') = Cardinality(UsedCells) + used' - used
    BY <2>2
  <2> QED BY <2>1, <2>3, DecodeStep
<1> QED BY <1>1, Inductive, PTL DEF Spec, DecodeKeepsTokens

===============================================================================
