------------------------------ MODULE ComboProofs ------------------------------
(***************************************************************************)
(* Proofs about ComboPlan for every planner, every set of measured times   *)
(* and any number of rounds, and about ComboGraph for every graph and set  *)
(* of plans: IInv is inductive and implies CountersSound, and every step   *)
(* of the dispatcher and of the two pools is one that JobService allows.   *)
(* OrderedReads and FeedForwardReuse follow for the graphs in which        *)
(* whoever depends on a node through memory awaits it (ReadersWait,        *)
(* WritersWait).                                                           *)
(***************************************************************************)
EXTENDS ComboPlan, ComboGraph, InductionLemmas

-------------------------------------------------------------------------------
(* ComboPlan: what the history says. *)

(* Both records that the planners compare are there once each device has   *)
(* been measured alone, and they never have the same fraction.             *)
HistoryInv ==
    /\ BestIsBest
    /\ opt_round > 0 => Measured(bst)
    /\ Measured(current) => current.frac # bst.frac
    /\ Measured(bst) /\ bst.frac = 0 => Measured(igpu)
    /\ Measured(bst) /\ bst.frac = 100 => Measured(cpu)
    /\ Measured(cpu) /\ Measured(igpu) => Measured(current)

(* combo_tensor_col_divide does not change a fraction that comes from it,  *)
(* so a node planned after the last round runs as bst did.                 *)
PlanInv ==
    /\ plan # NoPlan => Divided(plan) = plan
    /\ Measured(bst) => Divided(bst.frac) = bst.frac
    /\ plan_algo = "gd" /\ opt_round >= RoundLimit /\ plan # NoPlan => plan = bst.frac

PInv == PlanTypeOK /\ HistoryInv /\ PlanInv

-------------------------------------------------------------------------------
(* The remainder, and the product, of a division of the rows.              *)
LEMMA ModSmall ==
    ASSUME NEW x \in Nat
    PROVE  x % Word \in 0 .. x
<1>1. CASE x < Word
  BY <1>1, WordAssumption
<1>2. CASE x >= Word
  BY <1>2, WordAssumption
<1> QED BY <1>1, <1>2, WordAssumption

LEMMA Product ==
    ASSUME NEW r \in Nat, NEW q \in 1 .. 99
    PROVE  r * q \in Nat /\ r * q <= 99 * r
BY SMT

(* combo_tensor_col_divide leaves the CPU at least one row, also when the  *)
(* product of rows and fraction wraps around: its assertions hold.         *)
LEMMA DivideRows ==
    ASSUME NEW ne01 \in Nat, NEW q \in 1 .. 99
    PROVE  /\ nrow_igpu(ne01, 100 - q, q) \in Nat \ {1, 2, 3}
           /\ ne01 = 0 => nrow_igpu(ne01, 100 - q, q) = 0
           /\ ne01 > 0 => nrow_igpu(ne01, 100 - q, q) < ne01
<1> DEFINE m == (ne01 * q) % Word
<1>1. m \in Nat /\ m <= 99 * ne01
  <2>1. m \in 0 .. ne01 * q
    BY Product, ModSmall
  <2> QED BY <2>1, Product
<1>2. 100 - q + q = 100
  OBVIOUS
<1>3. nrow_igpu(ne01, 100 - q, q) = IF m \div 100 < 4 THEN 0 ELSE m \div 100
  BY <1>2 DEF nrow_igpu
<1> HIDE DEF m
<1> QED BY <1>1, <1>3

(* Percent yields percentages, and never rounds across the middle. *)
LEMMA PercentType ==
    ASSUME NEW num, NEW den, NEW margin
    PROVE  Percent(num, den, margin) \subseteq Fracs
BY DEF Percent

(* Every record holds a percentage and a natural number. *)
LEMMA RecordsType ==
    ASSUME PlanTypeOK, NEW r \in Records
    PROVE  r.frac \in Nat /\ r.time \in Nat
<1>1. r \in Record
  BY DEF PlanTypeOK
<1>2. r.frac \in Fracs /\ r.time \in Times \cup {0}
  BY <1>1 DEF Record
<1>3. \A x \in Times \cup {0} : x \in Nat
  BY TimesAssumption
<1>4. r.frac \in 0 .. 100
  BY <1>2 DEF Fracs
<1>5. r.time \in Nat
  BY <1>2, <1>3
<1> QED BY <1>4, <1>5

(* Every number has its percentage, in particular those that no margin     *)
(* rounds to one device: the division finds its quotient.                  *)
LEMMA PercentExists ==
    ASSUME NEW num \in Int, NEW den \in Nat \ {0}, NEW margin \in {1, 10}
    PROVE  Percent(num, den, margin) # {}
<1>1. CASE num >= (100 - margin) * den
  BY <1>1 DEF Percent, Fracs
<1>2. CASE num <= margin * den
  BY <1>2 DEF Percent, Fracs
<1>3. CASE margin * den < num /\ num < (100 - margin) * den
  <2>1. margin * den <= num /\ num <= (100 - margin) * den
    BY <1>3
  <2>2. 0 <= num /\ num <= 100 * den
    BY <1>3
  <2> DEFINE S == {p \in Nat : num <= (p + 1) * den}
  <2>3. 99 \in S
    BY <2>2
  <2>4. PICK p \in S : \A y \in S : p <= y
    <3>1. S \in SUBSET Nat /\ S # {}
      BY <2>3
    <3> HIDE DEF S
    <3> QED BY <3>1, LeastElement
  <2>5. p \in 0 .. 99 /\ num <= (p + 1) * den
    BY <2>3, <2>4
  <2>6. p * den <= num
    <3>1. CASE p = 0
      BY <2>2, <3>1
    <3>2. CASE p # 0
      <4>1. p - 1 \in Nat /\ (p - 1) + 1 = p /\ ~(p <= p - 1)
        BY <2>5, <3>2
      <4>2. ~(num <= ((p - 1) + 1) * den)
        BY <2>4, <4>1
      <4>3. p * den \in Int
        BY <2>5
      <4> QED BY <4>1, <4>2, <4>3
    <3> QED BY <3>1, <3>2
  <2>7. p \in Percent(num, den, margin)
    BY <2>1, <2>5, <2>6 DEF Percent, Fracs
  <2> QED BY <2>7
<1>4. margin * den \in Int /\ (100 - margin) * den \in Int
  OBVIOUS
<1> QED BY <1>1, <1>2, <1>3, <1>4

(* The fraction at which both devices take equally long exists once both   *)
(* have been measured.                                                     *)
LEMMA BalancedExists ==
    ASSUME PlanTypeOK, cpu.time # 0, igpu.time # 0, NEW margin \in {1, 10}
    PROVE  Balanced(margin) # {}
<1>1. cpu.time \in Nat \ {0} /\ igpu.time \in Nat \ {0}
  BY RecordsType DEF Records
<1>2. 100 * igpu.time \in Int /\ cpu.time + igpu.time \in Nat \ {0}
  BY <1>1
<1> QED BY <1>2, PercentExists DEF Balanced

(* Every planner proposes a percentage, given a well-typed best record. *)
LEMMA ProposalsType ==
    ASSUME PlanTypeOK
    PROVE  Proposals \subseteq Fracs
<1>1. bst.frac \in Fracs
  BY DEF PlanTypeOK, Records, Record
<1>2. \A den : Step(den) \subseteq Fracs
  BY PercentType DEF Step
<1>3. Balanced(1) \subseteq Fracs /\ Balanced(10) \subseteq Fracs
  BY PercentType DEF Balanced
<1>4. ColdStart \subseteq Fracs
  <2>1. Percent(IF cpu.time < igpu.time THEN 98 ELSE 2, 1, 1) \subseteq Fracs
    BY PercentType
  <2> QED BY <1>3, <2>1 DEF ColdStart
<1>5. 0 \in Fracs /\ 50 \in Fracs /\ 100 \in Fracs
  BY DEF Fracs
<1>6. BalancePlans \subseteq Fracs
  <2>1. CASE cpu.time = 0 \/ igpu.time = 0
    BY <1>5, <2>1 DEF BalancePlans
  <2>2. CASE cpu.time # 0 /\ igpu.time # 0
    <3>1. (CHOOSE p \in Balanced(10) : TRUE) \in Balanced(10)
      BY <2>2, BalancedExists
    <3> QED BY <1>3, <2>2, <3>1 DEF BalancePlans
  <2> QED BY <2>1, <2>2
<1>7. GdPlans \subseteq Fracs
  <2>1. \A den : {IF p \in {0, 100} THEN bst.frac ELSE p : p \in Step(den)} \subseteq Fracs
    BY <1>1, <1>2
  <2>2. Step(IF opt_round < 45 THEN opt_round + 5 ELSE 50) \subseteq Fracs
    BY <1>2
  <2> QED BY <1>1, <1>2, <1>4, <1>5, <2>1, <2>2 DEF GdPlans, GdSearch
<1>8. plan_algo \in {"gd", "balance", "const", "cpu_only", "igpu_only"}
  BY AlgosAssumption DEF PlanTypeOK
<1> QED BY <1>5, <1>6, <1>7, <1>8 DEF Proposals

(* A fraction that has been divided stays as it is. *)
LEMMA DividedTwice ==
    ASSUME NEW p \in Fracs
    PROVE  Divided(p) \in Fracs /\ Divided(Divided(p)) = Divided(p)
BY DEF Divided, Fracs

(* The initial history is empty. *)
LEMMA InitPInv == PlanInit => PInv
BY DEF PlanInit, PInv, PlanTypeOK, HistoryInv, PlanInv, BestIsBest, Records, Record,
       Measured, Unset, Fracs, NoPlan

(* A plan is made from the history and does not change it. *)
LEMMA MakePlanStep == PInv /\ MakePlan => PInv'
<1> SUFFICES ASSUME PInv, MakePlan PROVE PInv'
  OBVIOUS
<1>1. UNCHANGED <<plan_algo, bst, current, cpu, igpu, opt_round>>
  BY DEF MakePlan, history
<1>2. PICK p \in Proposals : plan' = Divided(p)
  BY DEF MakePlan
<1>3. p \in Fracs
  BY ProposalsType DEF PInv
<1>4. plan' \in Fracs /\ Divided(plan') = plan'
  BY <1>2, <1>3, DividedTwice
<1>5. PlanTypeOK'
  BY <1>1, <1>4 DEF PInv, PlanTypeOK, Records, Record
<1>6. HistoryInv'
  BY <1>1 DEF PInv, HistoryInv, BestIsBest, Records, Measured
<1>7. plan_algo = "gd" /\ opt_round >= RoundLimit => plan' = bst.frac
  <2> SUFFICES ASSUME plan_algo = "gd", opt_round >= RoundLimit PROVE plan' = bst.frac
    OBVIOUS
  <2>0. opt_round \in Nat
    BY DEF PInv, PlanTypeOK
  <2>1. p = bst.frac
    <3>1. GdPlans = {bst.frac}
      BY <2>0, RoundLimitAssumption DEF GdPlans
    <3>2. Proposals = GdPlans
      BY DEF Proposals
    <3> QED BY <1>2, <3>1, <3>2
  <2>2. Measured(bst)
    BY RoundLimitAssumption DEF PInv, PlanTypeOK, HistoryInv
  <2> QED BY <1>2, <2>1, <2>2 DEF PInv, PlanInv
<1>8. PlanInv'
  BY <1>1, <1>4, <1>7 DEF PInv, PlanInv, Measured, Divided
<1> QED BY <1>5, <1>6, <1>8 DEF PInv

(* The cases of Update, as they are written in combo_compute_thread. *)
LEMMA UpdateCases ==
    ASSUME PInv, NEW t \in Times, Update(t)
    PROVE  /\ plan \in Fracs /\ t \in Nat /\ t > 0
           /\ bst' = [frac |-> plan, time |-> t] \/ (bst' = bst /\ Measured(bst) /\ bst.time <= t)
           /\ Measured(bst) => bst'.time <= bst.time
           /\ \/ current' = [frac |-> plan, time |-> t] /\ bst' = bst /\ plan # bst.frac
              \/ /\ current' = bst /\ Measured(bst) /\ plan # bst.frac
                 /\ bst' = [frac |-> plan, time |-> t] /\ t < bst.time
              \/ /\ current' = current
                 /\ bst'.frac = plan
                 /\ ~Measured(bst) \/ plan = bst.frac
<1>1. plan \in Fracs /\ t \in Nat /\ t > 0
  BY TimesAssumption DEF Update, PInv, PlanTypeOK
<1>2. bst.time \in Nat
  BY RecordsType DEF PInv, Records
<1> DEFINE data == [frac |-> plan, time |-> t]
           first == bst.time = 0
           better == ~first /\ t < bst.time
<1>3. /\ bst' = IF first \/ better THEN data ELSE bst
      /\ current' = IF plan # bst'.frac THEN data
                    ELSE IF better /\ plan # bst.frac THEN bst ELSE current
  BY DEF Update
<1>4. data.frac = plan /\ data.time = t
  OBVIOUS
<1> HIDE DEF data
<1>5. CASE first
  BY <1>1, <1>2, <1>3, <1>4, <1>5 DEF Measured, data
<1>6. CASE better
  BY <1>1, <1>2, <1>3, <1>4, <1>6 DEF Measured, data
<1>7. CASE ~first /\ ~better
  BY <1>1, <1>2, <1>3, <1>4, <1>7 DEF Measured, data
<1> QED BY <1>5, <1>6, <1>7

(* Recording a measurement keeps the history ordered. *)
LEMMA UpdateStep ==
    ASSUME PInv, NEW t \in Times, Update(t)
    PROVE  PInv'
<1> DEFINE data == [frac |-> plan, time |-> t]
<1>1. /\ plan \in Fracs /\ t \in Nat /\ t > 0 /\ t \in Times
      /\ data \in Record /\ data.frac = plan /\ data.time = t
  <2>1. plan \in Fracs /\ t \in Nat /\ t > 0
    BY UpdateCases
  <2> QED BY <2>1 DEF Record
<1>2. /\ igpu' = IF plan = 0 THEN data ELSE igpu
      /\ cpu' = IF plan = 100 THEN data ELSE cpu
      /\ opt_round' = opt_round + 1 /\ plan' = NoPlan /\ plan_algo' = plan_algo
  BY DEF Update
<1>3. \A r \in Records : r \in Record /\ r.time \in Nat
  BY RecordsType DEF PInv, PlanTypeOK
<1>4. bst' \in {data, bst} /\ current' \in {data, bst, current}
  BY UpdateCases
<1>5. Records' \subseteq Records \cup {data}
  BY <1>2, <1>4 DEF Records
<1>6. PlanTypeOK'
  BY <1>1, <1>2, <1>3, <1>5 DEF PInv, PlanTypeOK
<1>7. Measured(bst)'  /\ bst'.time <= t /\ (Measured(bst) => bst'.time <= bst.time)
  <2>1. bst \in Records
    BY DEF Records
  <2> QED BY <1>1, <1>3, <2>1, UpdateCases DEF Measured
<1>8. BestIsBest'
  <2> SUFFICES ASSUME NEW r \in Records', r.time # 0
               PROVE  Measured(bst)' /\ bst'.time <= r.time
    BY DEF BestIsBest, Measured
  <2>1. CASE r = data
    BY <1>1, <1>7, <2>1
  <2>2. CASE r \in Records
    <3>1. Measured(bst) /\ bst.time <= r.time
      BY <2>2 DEF PInv, HistoryInv, BestIsBest, Measured
    <3>2. bst'.time <= bst.time
      BY <3>1, <1>7
    <3>3. bst \in Records /\ bst' \in Records'
      BY DEF Records
    <3>4. bst'.time \in Nat /\ bst.time \in Nat /\ r.time \in Nat
      BY <1>1, <1>3, <1>4, <2>2, <3>3
    <3> QED BY <1>7, <3>1, <3>2, <3>4
  <2> QED BY <1>5, <2>1, <2>2
<1>9. Measured(current)' => current'.frac # bst'.frac
  <2>1. Measured(current) => Measured(bst) /\ current.frac # bst.frac
    BY DEF PInv, HistoryInv, BestIsBest, Records, Measured
  <2> QED BY <1>1, <2>1, UpdateCases DEF Measured
<1>10. bst'.frac = 0 => Measured(igpu)'
  <2>1. CASE bst' = data
    BY <1>1, <1>2, <2>1 DEF Measured
  <2>2. CASE bst' = bst /\ Measured(bst)
    BY <1>1, <1>2, <2>2 DEF PInv, HistoryInv, Measured
  <2> QED BY <2>1, <2>2, UpdateCases
<1>11. bst'.frac = 100 => Measured(cpu)'
  <2>1. CASE bst' = data
    BY <1>1, <1>2, <2>1 DEF Measured
  <2>2. CASE bst' = bst /\ Measured(bst)
    BY <1>1, <1>2, <2>2 DEF PInv, HistoryInv, Measured
  <2> QED BY <2>1, <2>2, UpdateCases
<1>12. Measured(cpu)' /\ Measured(igpu)' => Measured(current)'
  <2> SUFFICES ASSUME Measured(cpu)', Measured(igpu)' PROVE Measured(current)'
    OBVIOUS
  <2>1. CASE current' = data \/ (current' = bst /\ Measured(bst))
    BY <1>1, <2>1 DEF Measured
  <2>2. CASE current' = current /\ Measured(bst) /\ plan = bst.frac
    <3>1. Measured(cpu) /\ Measured(igpu)
      BY <1>2, <2>2 DEF PInv, HistoryInv, Measured
    <3> QED BY <2>2, <3>1 DEF PInv, HistoryInv, Measured
  <2>3. CASE current' = current /\ ~Measured(bst)
    <3>1. ~Measured(cpu) /\ ~Measured(igpu)
      BY <2>3 DEF PInv, HistoryInv, BestIsBest, Records
    <3>2. plan = 0 /\ plan = 100
      BY <1>2, <3>1 DEF Measured
    <3> QED BY <3>2
  <2> QED BY <2>1, <2>2, <2>3, UpdateCases
<1>13. HistoryInv'
  BY <1>7, <1>8, <1>9, <1>10, <1>11, <1>12 DEF HistoryInv
<1>14. PlanInv'
  <2>1. Divided(bst'.frac) = bst'.frac
    <3>1. CASE bst' = data
      BY <1>1, <3>1 DEF PInv, PlanInv, NoPlan, Fracs
    <3>2. CASE bst' = bst /\ Measured(bst)
      BY <3>2 DEF PInv, PlanInv
    <3> QED BY <3>1, <3>2, UpdateCases
  <2> QED BY <1>2, <2>1 DEF PlanInv, Divided
<1> QED BY <1>6, <1>13, <1>14 DEF PInv

(* PInv is inductive. *)
THEOREM PlanInductive == PlanSpec => []PInv
<1>1. PInv /\ [PlanNext]_planVars => PInv'
  <2> SUFFICES ASSUME PInv, [PlanNext]_planVars PROVE PInv'
    OBVIOUS
  <2>1. CASE MakePlan
    BY <2>1, MakePlanStep
  <2>2. CASE \E t \in Times : Update(t)
    BY <2>2, UpdateStep
  <2>3. CASE Lose
    BY <2>3 DEF Lose, history, PInv, PlanTypeOK, HistoryInv, PlanInv, BestIsBest,
                Records, Record, Measured, Divided
  <2>4. CASE UNCHANGED planVars
    BY <2>4 DEF planVars, history, PInv, PlanTypeOK, HistoryInv, PlanInv, BestIsBest,
                Records, Record, Measured, Divided
  <2> QED BY <2>1, <2>2, <2>3, <2>4 DEF PlanNext
<1> QED BY InitPInv, <1>1, PTL DEF PlanSpec

-------------------------------------------------------------------------------
(* The history and the plan are well-typed: in particular every planned    *)
(* fraction is a percentage.                                               *)
THEOREM PlanTypeCorrect == PlanSpec => []PlanTypeOK
<1>1. PInv => PlanTypeOK
  BY DEF PInv
<1> QED BY PlanInductive, <1>1, PTL

(* bst is at least as fast as everything the history keeps, for any number *)
(* of rounds.                                                              *)
THEOREM BestRecordIsFastest == PlanSpec => []BestIsBest
<1>1. PInv => BestIsBest
  BY DEF PInv, HistoryInv
<1> QED BY PlanInductive, <1>1, PTL

(* combo_plan_gd never divides by a zero frac_diff, and steps away from    *)
(* the slower fraction.                                                    *)
THEOREM GradientWellDefined == PlanSpec => []GradientDefined
<1>1. PInv => GradientDefined
  <2> SUFFICES ASSUME PInv, Measured(cpu), Measured(igpu)
               PROVE  /\ Measured(current) /\ frac_diff # 0
                      /\ time_diff > 0 => (GradPositive <=> current.frac > bst.frac)
    BY DEF GradientDefined
  <2>1. Measured(current) /\ current.frac # bst.frac
    BY DEF PInv, HistoryInv
  <2>2. /\ current.frac \in Int /\ bst.frac \in Int
        /\ current.time \in Int /\ bst.time \in Int
    <3>1. current \in Records /\ bst \in Records
      BY DEF Records
    <3> QED BY <3>1, RecordsType DEF PInv
  <2>3. frac_diff # 0
    BY <2>1, <2>2 DEF frac_diff
  <2>4. time_diff > 0 => (GradPositive <=> current.frac > bst.frac)
    BY <2>1, <2>2 DEF GradPositive, time_diff, frac_diff
  <2> QED BY <2>1, <2>3, <2>4
<1> QED BY PlanInductive, <1>1, PTL

(* A cold start gives both devices something to do, whatever was measured. *)
THEOREM ColdStartUsesBoth == PlanSpec => []ColdStartSplits
<1>1. ColdStartSplits
  <2>1. Balanced(1) \ {0, 100} \subseteq 1 .. 99
    BY PercentType DEF Balanced, Fracs
  <2>2. Percent(98, 1, 1) \subseteq 1 .. 99 /\ Percent(2, 1, 1) \subseteq 1 .. 99
    BY DEF Percent, Fracs
  <2> QED BY <2>1, <2>2 DEF ColdStart, ColdStartSplits
<1> QED BY <1>1, PTL

(* Both devices get rows of a split node, the iGPU at least four, for any  *)
(* number of rows, although their product with the fraction may wrap.      *)
THEOREM BothGetRows == PlanSpec => []SplitFeedsBoth
<1>1. PInv => SplitFeedsBoth
  <2> SUFFICES ASSUME PInv, plan \in 1 .. 99
               PROVE  /\ nrow_igpu(Rows, plan, 100 - plan) >= 4
                      /\ nrow_cpu(Rows, plan, 100 - plan) > 0
    BY DEF SplitFeedsBoth
  <2>1. Divided(plan) = plan
    BY DEF PInv, PlanInv, NoPlan
  <2>2. nrow_igpu(Rows, plan, 100 - plan) # 0
    BY <2>1 DEF Divided
  <2>3. PICK q \in 1 .. 99 : q = 100 - plan /\ plan = 100 - q
    OBVIOUS
  <2>4. /\ nrow_igpu(Rows, 100 - q, q) \in Nat \ {1, 2, 3}
        /\ Rows = 0 => nrow_igpu(Rows, 100 - q, q) = 0
        /\ Rows > 0 => nrow_igpu(Rows, 100 - q, q) < Rows
    BY DivideRows, RowsAssumption
  <2>5. nrow_igpu(Rows, plan, 100 - plan) = nrow_igpu(Rows, 100 - q, q)
    BY <2>3, Zenon
  <2> QED BY <2>2, <2>4, <2>5, RowsAssumption DEF nrow_cpu
<1> QED BY PlanInductive, <1>1, PTL

(* After RoundLimit rounds the fraction of combo_plan_gd never changes     *)
(* again, whatever is measured or lost.                                    *)
THEOREM ExplorationEnds == PlanSpec => Settled
<1>1. PInv /\ [PlanNext]_planVars =>
        [plan_algo = "gd" /\ opt_round >= RoundLimit => bst'.frac = bst.frac]_planVars
  <2> SUFFICES ASSUME PInv, PlanNext, plan_algo = "gd", opt_round >= RoundLimit
               PROVE  bst'.frac = bst.frac
    BY DEF planVars
  <2>1. CASE MakePlan \/ Lose
    BY <2>1 DEF MakePlan, Lose, history
  <2>2. ASSUME NEW t \in Times, Update(t) PROVE bst'.frac = bst.frac
    <3>1. plan \in Fracs
      BY <2>2, UpdateCases
    <3>2. plan = bst.frac
      BY <3>1 DEF PInv, PlanInv, Fracs, NoPlan
    <3> QED BY <2>2, <3>2, UpdateCases
  <2> QED BY <2>1, <2>2 DEF PlanNext
<1> QED BY PlanInductive, <1>1, PTL DEF PlanSpec, Settled

(* Every planner has a plan in every state of the history, so no node is   *)
(* left undecided and combo_tensor_col_divide never divides by 0; a plan   *)
(* is only taken from bst once it is measured.                             *)
THEOREM SomePlanExists == PlanSpec => []PlanExists
<1>1. PInv => PlanExists
  <2> SUFFICES ASSUME PInv PROVE Proposals # {}
    BY ProposalsType DEF PInv, HistoryInv, PlanExists
  <2>1. PlanTypeOK
    BY DEF PInv
  <2>2. \A den \in Nat \ {0} : Step(den) # {}
    <3> SUFFICES ASSUME NEW den \in Nat \ {0} PROVE Step(den) # {}
      OBVIOUS
    <3>1. bst.frac * den - 50 \in Int /\ bst.frac * den + 50 \in Int
      BY <2>1, RecordsType DEF Records
    <3> QED BY <3>1, PercentExists DEF Step
  <2>3. opt_round \in Nat
    BY <2>1 DEF PlanTypeOK
  <2>4. cpu.time # 0 /\ igpu.time # 0 => ColdStart # {}
    <3> SUFFICES ASSUME cpu.time # 0, igpu.time # 0 PROVE ColdStart # {}
      OBVIOUS
    <3>1. Balanced(1) # {}
      BY <2>1, BalancedExists
    <3>2. Percent(IF cpu.time < igpu.time THEN 98 ELSE 2, 1, 1) # {}
      BY PercentExists
    <3> QED BY <3>1, <3>2 DEF ColdStart
  <2>5. GdSearch # {}
    <3>1. CASE igpu.time = 0 \/ cpu.time = 0
      BY <3>1 DEF GdSearch
    <3>2. CASE igpu.time # 0 /\ cpu.time # 0 /\ opt_round = 2
      BY <2>4, <3>2 DEF GdSearch
    <3>3. CASE igpu.time # 0 /\ cpu.time # 0 /\ opt_round = 3
      <4>1. Step(50) # {}
        BY <2>2
      <4> QED BY <3>3, <4>1 DEF GdSearch
    <3>4. CASE igpu.time # 0 /\ cpu.time # 0 /\ opt_round \notin {2, 3}
      <4>1. Step(IF opt_round < 45 THEN opt_round + 5 ELSE 50) # {}
        BY <2>2, <2>3
      <4> QED BY <3>4, <4>1 DEF GdSearch
    <3> QED BY <3>1, <3>2, <3>3, <3>4
  <2>6. GdPlans # {}
    BY <2>5 DEF GdPlans
  <2>7. BalancePlans # {}
    BY DEF BalancePlans
  <2>8. plan_algo \in {"gd", "balance", "const", "cpu_only", "igpu_only"}
    BY <2>1, AlgosAssumption DEF PlanTypeOK
  <2> QED BY <2>6, <2>7, <2>8 DEF Proposals
<1> QED BY PlanInductive, <1>1, PTL

(* The fraction that combo_plan_balance has come to. *)
Balance == Divided(CHOOSE p \in Balanced(10) : TRUE)

(* combo_plan_balance splits only what both devices have computed alone.   *)
SplitIsMeasured ==
    plan_algo = "balance" /\ plan \in 1 .. 99 =>
        cpu.time # 0 /\ igpu.time # 0 /\ plan = Balance

(* Once it splits, only whole nodes could change the fraction.             *)
KeepsSplitting ==
    /\ plan_algo = "balance" /\ cpu.time # 0 /\ igpu.time # 0
    /\ Balance \in 1 .. 99 /\ plan \in {Balance, NoPlan}

(* A plan of combo_plan_balance comes from the two last times.             *)
LEMMA BalanceStep ==
    ASSUME plan_algo = "balance", MakePlan
    PROVE  \/ cpu.time = 0 /\ plan' = 100
           \/ cpu.time # 0 /\ igpu.time = 0 /\ plan' = 0
           \/ cpu.time # 0 /\ igpu.time # 0 /\ plan' = Balance
<1>1. PICK p \in BalancePlans : plan' = Divided(p)
  BY DEF MakePlan, Proposals
<1>2. Divided(0) = 0 /\ Divided(100) = 100
  BY DEF Divided
<1> QED BY <1>1, <1>2 DEF BalancePlans, Balance

(* combo_plan_balance, once it has split a kind of multiplication, splits  *)
(* it for good: a split refreshes neither of the two times it looks at.    *)
THEOREM SplitsForGood == PlanSpec => SplitIsFinal
<1>1. PlanInit => SplitIsMeasured
  BY DEF PlanInit, SplitIsMeasured, NoPlan
<1>2. SplitIsMeasured /\ [PlanNext]_planVars => SplitIsMeasured'
  <2> SUFFICES ASSUME SplitIsMeasured, [PlanNext]_planVars, plan_algo' = "balance", plan' \in 1 .. 99
               PROVE  cpu'.time # 0 /\ igpu'.time # 0 /\ plan' = Balance'
    BY DEF SplitIsMeasured
  <2>1. CASE MakePlan
    <3>1. UNCHANGED <<plan_algo, cpu, igpu>>
      BY <2>1 DEF MakePlan, history
    <3>2. Balance' = Balance
      BY <3>1 DEF Balance, Balanced
    <3> QED BY <2>1, <3>1, <3>2, BalanceStep
  <2>2. CASE (\E t \in Times : Update(t)) \/ Lose
    BY <2>2 DEF Update, Lose, NoPlan
  <2>3. CASE UNCHANGED planVars
    BY <2>3 DEF planVars, history, SplitIsMeasured, Balance, Balanced
  <2> QED BY <2>1, <2>2, <2>3 DEF PlanNext
<1>3. KeepsSplitting /\ [PlanNext]_planVars => KeepsSplitting'
  <2> SUFFICES ASSUME KeepsSplitting, [PlanNext]_planVars PROVE KeepsSplitting'
    OBVIOUS
  <2>1. UNCHANGED <<plan_algo, cpu, igpu>>
    <3>1. ASSUME NEW t \in Times, Update(t) PROVE UNCHANGED <<plan_algo, cpu, igpu>>
      BY <3>1 DEF Update, KeepsSplitting, NoPlan
    <3> QED BY <3>1 DEF PlanNext, MakePlan, Lose, planVars, history
  <2>2. Balance' = Balance
    BY <2>1 DEF Balance, Balanced
  <2>3. plan' \in {Balance, NoPlan}
    <3>1. CASE MakePlan
      BY <3>1, BalanceStep DEF KeepsSplitting
    <3>2. CASE (\E t \in Times : Update(t)) \/ Lose
      BY <3>2 DEF Update, Lose
    <3>3. CASE UNCHANGED planVars
      BY <3>3 DEF planVars, KeepsSplitting
    <3> QED BY <3>1, <3>2, <3>3 DEF PlanNext
  <2> QED BY <2>1, <2>2, <2>3 DEF KeepsSplitting
<1>4. SplitIsMeasured /\ plan_algo = "balance" /\ plan \in 1 .. 99 => KeepsSplitting
  BY DEF SplitIsMeasured, KeepsSplitting
<1>5. KeepsSplitting => plan \in (1 .. 99) \cup {NoPlan}
  BY DEF KeepsSplitting
<1> QED BY <1>1, <1>2, <1>3, <1>4, <1>5, PTL DEF PlanSpec, SplitIsFinal

-------------------------------------------------------------------------------
(* The inductive invariant *)

TodoSet == {todo[i] : i \in DOMAIN todo}

(* The pools that have got a part of node n or are about to.               *)
Planned(n) == share[n] \cup (IF n = node_n THEN TodoSet ELSE {})

InQueue(d, n) == \E i \in DOMAIN queue[d] : queue[d][i] = n

Idle(d) == queue[d] = <<>> /\ running[d] = NoNode

(* Where the dispatcher is. *)
DispatchInv ==
    /\ todo \in {<<>>, <<"cpu">>, <<"igpu">>, <<"cpu", "igpu">>}
    /\ todo # <<>> <=> mpc = "submit"
    /\ mpc = "submit" => node_n \in Nodes /\ TodoSet \cap share[node_n] = {}
    /\ mpc = "plan" /\ node_n \in Nodes => share[node_n] = {}
    /\ mpc \in {"finish_cpu", "finish_igpu", "returned"} => node_n = Len(Graph) + 1
    /\ mpc \in {"finish_igpu", "returned"} => Idle("cpu")
    /\ mpc = "returned" => Idle("igpu")

(* Which parts it has submitted. *)
ShareInv ==
    \A n \in Nodes :
        /\ n < node_n => share[n] # {}
        /\ n > node_n => share[n] = {}
        /\ ~Graph[n].mul_mat => Planned(n) \subseteq {"cpu"}

(* A part that was submitted is in one place, and they proceed in order.   *)
PlaceInv ==
    \A d \in Devices :
        /\ \A n \in Nodes : d \in share[n] <=> InQueue(d, n) \/ running[d] = n \/ n \in completed[d]
        /\ \A i, j \in DOMAIN queue[d] : i < j => queue[d][i] < queue[d][j]
        /\ \A i \in DOMAIN queue[d] : running[d] < queue[d][i]
        /\ \A c \in completed[d] : \A i \in DOMAIN queue[d] : c < queue[d][i]
        /\ \A c \in completed[d] : running[d] # NoNode => c < running[d]

(* How far a part is. *)
ComputedInv ==
    \A d \in Devices :
        /\ \A n \in Nodes : n \in completed[d] => computed[d][n] # {}
        /\ \A n \in Nodes : computed[d][n] # {} => n \in completed[d] \/ running[d] = n
        /\ seen[d] # 0 => running[d] # NoNode /\ computed[d][running[d]] # {}

Left(d, n) == IF d \in Planned(n) /\ n \notin completed[d] THEN 1 ELSE 0

(* n_wait counts the parts that are not complete. *)
CountInv ==
    \A n \in Nodes :
        n_wait[n] = IF Planned(n) = {} THEN 1 ELSE Left("cpu", n) + Left("igpu", n)

(* The history is updated by the leader of the last part, between its load *)
(* of n_wait and its decrement.                                            *)
RecordInv ==
    \A n \in Nodes :
        /\ records[n] \in 0 .. 1
        /\ records[n] = 1 =>
               /\ Planned(n) # {}
               /\ \A d \in Planned(n) : computed[d][n] # {}
               /\ \A d \in Devices : running[d] = n => seen[d] # 0
        /\ \A d \in Devices :
               Graph[n].mul_mat /\ Planned(n) = {d}
                   /\ (n \in completed[d] \/ (running[d] = n /\ seen[d] # 0))
               => records[n] = 1

(* What has been submitted was ready. *)
SrcsInv == \A n \in Nodes : share[n] # {} => \A s \in Graph[n].src : n_wait[s] = 0

IInv ==
    /\ TypeOK
    /\ DispatchInv
    /\ ShareInv
    /\ PlaceInv
    /\ ComputedInv
    /\ CountInv
    /\ RecordInv
    /\ SrcsInv

-------------------------------------------------------------------------------
(* The graph, and what is to be submitted *)

LEMMA GraphFacts ==
    ASSUME half \in Halves
    PROVE  /\ Len(Graph) \in Nat
           /\ Nodes \subseteq Jobs
           /\ \A n \in Nodes : /\ n \in Nat /\ n # NoNode
                               /\ Graph[n].mul_mat \in BOOLEAN
                               /\ Graph[n].src \subseteq Nodes
                               /\ \A s \in Graph[n].src : s < n
<1>1. Len(Graph) \in Nat /\ DOMAIN Graph = Nodes
  BY GraphsAssumption DEF Graph, Nodes
<1>2. Nodes \subseteq Jobs
  BY <1>1 DEF Jobs, Graph
<1>3. ASSUME NEW n \in Nodes
      PROVE  /\ Graph[n].mul_mat \in BOOLEAN
             /\ Graph[n].src \subseteq 1 .. n - 1
  BY <1>1, GraphsAssumption DEF Graph
<1>4. \A n \in Nodes : n \in Nat /\ n # NoNode /\ 1 .. n - 1 \subseteq Nodes
  BY <1>1 DEF Nodes, NoNode
<1> QED BY <1>1, <1>2, <1>3, <1>4

LEMMA TodoSets ==
    ASSUME NEW t \in {<<>>, <<"cpu">>, <<"igpu">>, <<"cpu", "igpu">>}
    PROVE  LET S == {t[i] : i \in DOMAIN t} IN
           /\ t \in Seq(Devices) /\ S \subseteq Devices
           /\ S = {} <=> t = <<>>
           /\ t = <<"cpu">> => S = {"cpu"}
           /\ t # <<>> => /\ Head(t) \in S
                          /\ Tail(t) \in {<<>>, <<"igpu">>}
                          /\ {Tail(t)[i] : i \in DOMAIN Tail(t)} = S \ {Head(t)}
<1>1. CASE t = <<>>
  BY <1>1 DEF Devices
<1>2. CASE t = <<"cpu">>
  BY <1>2 DEF Devices
<1>3. CASE t = <<"igpu">>
  BY <1>3 DEF Devices
<1>4. CASE t = <<"cpu", "igpu">>
  <2>1. DOMAIN t = {1, 2} /\ t[1] = "cpu" /\ t[2] = "igpu"
    BY <1>4
  <2>2. Head(t) = "cpu" /\ Tail(t) = <<"igpu">>
    BY <1>4
  <2> QED BY <1>4, <2>1, <2>2 DEF Devices
<1> QED BY <1>1, <1>2, <1>3, <1>4

(* A submission takes a part from todo to share. *)
LEMMA SubmitFacts ==
    ASSUME IInv, SubmitPart
    PROVE  /\ Head(todo) \in Devices \ share[node_n]
           /\ Head(todo) \in TodoSet
           /\ todo' \in {<<>>, <<"igpu">>}
           /\ TodoSet' = TodoSet \ {Head(todo)}
           /\ node_n \in Nodes
           /\ node_n' = IF todo' = <<>> THEN node_n + 1 ELSE node_n
           /\ Nodes' = Nodes
           /\ \A n \in Nodes : Planned(n)' = Planned(n)
<1>1. /\ todo \in {<<>>, <<"cpu">>, <<"igpu">>, <<"cpu", "igpu">>}
      /\ todo # <<>> /\ todo' = Tail(todo)
      /\ node_n \in Nodes /\ TodoSet \cap share[node_n] = {}
  BY DEF IInv, DispatchInv, SubmitPart
<1>2. /\ Head(todo) \in TodoSet /\ TodoSet \subseteq Devices
      /\ todo' \in {<<>>, <<"igpu">>}
      /\ TodoSet' = TodoSet \ {Head(todo)}
  BY <1>1, TodoSets DEF TodoSet
<1>3. /\ Nodes' = Nodes
      /\ node_n' = IF todo' = <<>> THEN node_n + 1 ELSE node_n
      /\ share' = [share EXCEPT ![node_n] = @ \cup {Head(todo)}]
  BY DEF SubmitPart, Nodes, Graph
<1>4. todo' = <<>> => TodoSet' = {}
  BY DEF TodoSet
<1>5. ASSUME NEW n \in Nodes PROVE Planned(n)' = Planned(n)
  <2>1. share' \in [Nodes -> SUBSET Devices] /\ share \in [Nodes -> SUBSET Devices]
    BY <1>1, <1>2, <1>3 DEF IInv, TypeOK
  <2>2. CASE n = node_n
    <3>1. share'[n] = share[n] \cup {Head(todo)}
      BY <1>3, <2>1, <2>2
    <3>2. CASE todo' = <<>>
      <4>1. node_n' # n /\ TodoSet = {Head(todo)}
        BY <1>1, <1>2, <1>3, <1>4, <2>2, <3>2, GraphFacts DEF IInv, TypeOK
      <4> QED BY <2>2, <3>1, <4>1 DEF Planned
    <3>3. CASE todo' # <<>>
      BY <1>2, <1>3, <2>2, <3>1, <3>3 DEF Planned
    <3> QED BY <3>2, <3>3
  <2>3. CASE n # node_n
    <3>1. share'[n] = share[n]
      BY <1>3, <2>1, <2>3
    <3> QED BY <1>3, <1>4, <2>3, <3>1 DEF Planned
  <2> QED BY <2>2, <2>3
<1> QED BY <1>1, <1>2, <1>3, <1>5

(* What a plan hands out. *)
LEMMA PlanFacts ==
    ASSUME IInv, PlanNode
    PROVE  /\ todo' \in {<<"cpu">>, <<"igpu">>, <<"cpu", "igpu">>}
           /\ ~Graph[node_n].mul_mat => todo' = <<"cpu">>
           /\ TodoSet' # {} /\ TodoSet' \subseteq Devices
           /\ n_wait' = [n_wait EXCEPT ![node_n] = IF todo' = <<"cpu", "igpu">> THEN 2 ELSE 1]
           /\ node_n \in Nodes /\ share[node_n] = {}
           /\ Planned(node_n) = {}
           /\ \A n \in Nodes : Planned(n)' = IF n = node_n THEN TodoSet' ELSE Planned(n)
<1>1. node_n \in Nodes /\ share[node_n] = {} /\ todo = <<>>
  BY DEF IInv, DispatchInv, PlanNode
<1>2. PICK p \in {"cpu", "igpu", "split", "sliver"} :
          /\ ~Graph[node_n].mul_mat => p = "cpu"
          /\ todo' = PartsOfPlan(p)
          /\ n_wait' = [n_wait EXCEPT ![node_n] = IF p = "split" THEN 2 ELSE 1]
  BY PlansAssumption DEF PlanNode
<1>3. /\ todo' \in {<<"cpu">>, <<"igpu">>, <<"cpu", "igpu">>}
      /\ p = "split" <=> todo' = <<"cpu", "igpu">>
      /\ p = "cpu" => todo' = <<"cpu">>
  <2>1. CASE p = "cpu"
    BY <1>2, <2>1 DEF PartsOfPlan
  <2>2. CASE p = "igpu"
    BY <1>2, <2>2 DEF PartsOfPlan
  <2>3. CASE p = "split"
    BY <1>2, <2>3 DEF PartsOfPlan
  <2>4. CASE p = "sliver"
    BY <1>2, <2>4 DEF PartsOfPlan
  <2> QED BY <2>1, <2>2, <2>3, <2>4
<1>4. TodoSet' # {} /\ TodoSet' \subseteq Devices
  BY <1>3, TodoSets DEF TodoSet
<1>5. TodoSet = {}
  BY <1>1 DEF TodoSet
<1>6. share' = share /\ node_n' = node_n
  BY DEF PlanNode
<1> QED BY <1>1, <1>2, <1>3, <1>4, <1>5, <1>6 DEF Planned

(* The other steps do not plan. *)
LEMMA PlannedSame ==
    ASSUME UNCHANGED <<todo, share, node_n, half>>
    PROVE  /\ Nodes' = Nodes /\ Graph' = Graph
           /\ TodoSet' = TodoSet
           /\ \A n \in Nodes : Planned(n)' = Planned(n)
  BY DEF TodoSet, Planned, Nodes, Graph

(* A running part is one that n_wait still counts. *)
LEMMA OwnPartLeft ==
    ASSUME IInv, NEW d \in Devices, running[d] # NoNode
    PROVE  LET n == running[d] IN
           /\ n \in Nodes /\ d \in share[n] /\ d \in Planned(n)
           /\ n \notin completed[d] /\ ~InQueue(d, n)
           /\ Left(d, n) = 1
           /\ n_wait[n] = Left("cpu", n) + Left("igpu", n)
           /\ n_wait[n] \in 1 .. 2
           /\ \A e \in Devices \ {d} : n_wait[n] = 1 + Left(e, n)
<1> DEFINE n == running[d]
<1>1. n \in Nodes /\ n \in Nat
  BY GraphFacts DEF IInv, TypeOK
<1>2. d \in share[n] /\ d \in Planned(n)
  BY <1>1 DEF IInv, PlaceInv, Planned
<1>3. n \notin completed[d] /\ ~InQueue(d, n)
  BY <1>1 DEF IInv, PlaceInv, InQueue
<1>4. Left(d, n) = 1
  BY <1>2, <1>3 DEF Left
<1>5. n_wait[n] = Left("cpu", n) + Left("igpu", n)
  BY <1>1, <1>2 DEF IInv, CountInv
<1>6. Left("cpu", n) \in {0, 1} /\ Left("igpu", n) \in {0, 1}
  BY DEF Left
<1> HIDE DEF n
<1>7. n_wait[n] \in 1 .. 2 /\ \A e \in Devices \ {d} : n_wait[n] = 1 + Left(e, n)
  BY <1>4, <1>5, <1>6 DEF Devices
<1> QED BY <1>1, <1>2, <1>3, <1>4, <1>5, <1>7 DEF n
-------------------------------------------------------------------------------
(* Types *)

LEMMA TypeStep ==
    ASSUME IInv, [Next]_vars
    PROVE  TypeOK'
<1>0. TypeOK
  BY DEF IInv
<1> USE <1>0 DEF TypeOK
<1>1. CASE PlanNode
  <2>1. /\ todo' \in Seq(Devices)
        /\ n_wait' \in [Nodes -> 0 .. 2]
    <3>1. todo' \in Seq(Devices)
      BY <1>1, PlanFacts, TodoSets
    <3>2. /\ n_wait' = [n_wait EXCEPT ![node_n] = IF todo' = <<"cpu", "igpu">> THEN 2 ELSE 1]
          /\ node_n \in Nodes
      BY <1>1, PlanFacts
    <3> QED BY <3>1, <3>2
  <2> QED BY <1>1, <2>1 DEF PlanNode, Nodes, Graph
<1>2. CASE SubmitPart
  <2> DEFINE d == Head(todo)
  <2>1. /\ d \in Devices /\ node_n \in Nodes
        /\ todo' \in Seq(Devices)
        /\ node_n' \in {node_n, node_n + 1}
    <3>1. todo' \in Seq(Devices)
      BY <1>2, SubmitFacts, TodoSets
    <3> QED BY <1>2, <3>1, SubmitFacts
  <2>2. /\ queue' = [queue EXCEPT ![d] = Append(@, node_n)]
        /\ share' = [share EXCEPT ![node_n] = @ \cup {d}]
        /\ mpc' \in {"submit", "plan", "finish_cpu"}
        /\ UNCHANGED <<half, n_wait, running, computed, completed, seen, records>>
    BY <1>2 DEF SubmitPart
  <2> HIDE DEF d
  <2>3. queue' \in [Devices -> Seq(Nodes)]
    BY <2>1, <2>2
  <2>4. node_n' \in 1 .. Len(Graph) + 1
    BY <2>1, GraphFacts DEF Nodes
  <2> QED BY <2>1, <2>2, <2>3, <2>4 DEF Nodes, Graph
<1>3. CASE FinishPools
  BY <1>3 DEF FinishPools, Finish, Nodes, Graph
<1>4. ASSUME NEW d \in Devices, StartJob(d) PROVE TypeOK'
  <2>1. Head(queue[d]) \in Nodes /\ Tail(queue[d]) \in Seq(Nodes)
    BY <1>4 DEF StartJob
  <2> QED BY <1>4, <2>1 DEF StartJob, dispatcher, Nodes, Graph
<1>5. ASSUME NEW d \in Devices, ComputeJob(d) PROVE TypeOK'
  <2>1. running[d] \in Jobs
    BY <1>5, GraphFacts DEF ComputeJob
  <2>2. computed' \in [Devices -> [Jobs -> SUBSET {0}]]
    BY <1>5, <2>1 DEF ComputeJob
  <2> QED BY <1>5, <2>2 DEF ComputeJob, dispatcher, Nodes, Graph
<1>6. ASSUME NEW d \in Devices, LoadWait(d) PROVE TypeOK'
  <2>1. running[d] \in Nodes
    BY <1>6 DEF LoadWait
  <2>2. seen' \in [Devices -> 0 .. 2] /\ records' \in [Nodes -> Nat]
    BY <1>6, <2>1 DEF LoadWait
  <2> QED BY <1>6, <2>2 DEF LoadWait, dispatcher, Nodes, Graph
<1>7. ASSUME NEW d \in Devices, FinishJob(d) PROVE TypeOK'
  <2>1. running[d] \in Nodes
    BY <1>7 DEF FinishJob
  <2>2. n_wait[running[d]] \in 1 .. 2
    <3>1. running[d] # NoNode
      BY <1>7 DEF FinishJob
    <3> QED BY <3>1, OwnPartLeft
  <2>3. n_wait' \in [Nodes -> 0 .. 2] /\ completed' \in [Devices -> SUBSET Nodes]
    BY <1>7, <2>1, <2>2 DEF FinishJob
  <2> QED BY <1>7, <2>1, <2>3 DEF FinishJob, dispatcher, Nodes, Graph, NoNode
<1>8. CASE UNCHANGED vars
  BY <1>8 DEF vars, dispatcher, Nodes, Graph
<1> QED BY <1>1, <1>2, <1>3, <1>4, <1>5, <1>6, <1>7, <1>8
           DEF Next, Dispatcher, PoolStep, Returned

-------------------------------------------------------------------------------
(* The dispatcher's own state *)


LEMMA DispatchStep ==
    ASSUME IInv, [Next]_vars
    PROVE  DispatchInv'
<1>0. TypeOK /\ DispatchInv /\ ShareInv
  BY DEF IInv
<1>1. CASE PlanNode
  <2>1. /\ todo' \in {<<"cpu">>, <<"igpu">>, <<"cpu", "igpu">>}
        /\ mpc' = "submit" /\ node_n' \in Nodes /\ Nodes' = Nodes
        /\ share'[node_n'] = {}
    BY <1>1, PlanFacts DEF PlanNode, Nodes, Graph
  <2> QED BY <2>1 DEF DispatchInv
<1>2. CASE SubmitPart
  <2>1. /\ todo' \in {<<>>, <<"igpu">>}
        /\ TodoSet' = TodoSet \ {Head(todo)}
        /\ node_n \in Nodes /\ TodoSet \cap share[node_n] = {}
        /\ node_n' = IF todo' = <<>> THEN node_n + 1 ELSE node_n
        /\ share' = [share EXCEPT ![node_n] = @ \cup {Head(todo)}]
        /\ mpc' = CASE todo' # <<>> -> "submit"
                    [] todo' = <<>> /\ node_n' \in Nodes -> "plan"
                    [] OTHER -> "finish_cpu"
        /\ Nodes' = Nodes /\ Graph' = Graph
    BY <1>0, <1>2, SubmitFacts DEF SubmitPart, Nodes, Graph, DispatchInv
  <2>2. share'[node_n] = share[node_n] \cup {Head(todo)}
    BY <1>0, <2>1 DEF TypeOK
  <2>3. CASE todo' # <<>>
    <3>1. node_n' = node_n /\ mpc' = "submit"
      BY <2>1, <2>3
    <3>2. TodoSet' \cap share'[node_n'] = {}
      BY <2>1, <2>2, <3>1
    <3> QED BY <2>1, <2>3, <3>1, <3>2 DEF DispatchInv
  <2>4. CASE todo' = <<>> /\ node_n + 1 \in Nodes
    <3>1. node_n + 1 # node_n /\ node_n + 1 > node_n
      BY <1>0, <2>1, GraphFacts DEF TypeOK
    <3>2. share'[node_n + 1] = {}
      BY <1>0, <2>1, <2>4, <3>1 DEF ShareInv, TypeOK
    <3>3. mpc' = "plan" /\ node_n' = node_n + 1
      BY <2>1, <2>4
    <3> QED BY <2>1, <2>4, <3>2, <3>3 DEF DispatchInv
  <2>5. CASE todo' = <<>> /\ node_n + 1 \notin Nodes
    <3>1. node_n + 1 = Len(Graph) + 1
      BY <1>0, <2>1, <2>5, GraphFacts DEF TypeOK, Nodes
    <3>2. mpc' = "finish_cpu" /\ node_n' = Len(Graph) + 1
      BY <2>1, <2>5, <3>1
    <3> QED BY <2>1, <2>5, <3>2 DEF DispatchInv
  <2> QED BY <2>3, <2>4, <2>5
<1>3. CASE FinishPools
  BY <1>0, <1>3 DEF FinishPools, Finish, DispatchInv, TodoSet, Idle, Nodes, Graph, Devices
<1>4. ASSUME NEW d \in Devices, PoolStep(d) PROVE DispatchInv'
  <2>1. UNCHANGED <<half, node_n, todo, mpc, share>>
    BY <1>4 DEF PoolStep, StartJob, ComputeJob, LoadWait, FinishJob, dispatcher
  <2>2. Nodes' = Nodes /\ Graph' = Graph /\ TodoSet' = TodoSet
    BY <2>1, PlannedSame
  <2>3. ASSUME NEW e \in Devices, Idle(e) PROVE Idle(e)'
    BY <1>0, <1>4, <2>3
       DEF PoolStep, StartJob, ComputeJob, LoadWait, FinishJob, Idle, TypeOK, NoNode
  <2> QED BY <1>0, <2>1, <2>2, <2>3 DEF DispatchInv, Devices
<1>5. CASE UNCHANGED vars
  BY <1>0, <1>5 DEF DispatchInv, TodoSet, Idle, Nodes, Graph, vars, dispatcher
<1> QED BY <1>1, <1>2, <1>3, <1>4, <1>5 DEF Next, Dispatcher, Returned

LEMMA ShareStep ==
    ASSUME IInv, [Next]_vars
    PROVE  ShareInv'
<1>0. TypeOK /\ ShareInv /\ \A n \in Nodes : n \in Nat
  BY GraphFacts DEF IInv, TypeOK
<1>1. CASE PlanNode
  <2>1. UNCHANGED <<half, node_n, share>> /\ Nodes' = Nodes /\ Graph' = Graph
    BY <1>1 DEF PlanNode, Nodes, Graph
  <2>2. ~Graph[node_n].mul_mat => TodoSet' = {"cpu"}
    <3>1. ~Graph[node_n].mul_mat => todo' = <<"cpu">>
      BY <1>1, PlanFacts
    <3> QED BY <3>1, TodoSets DEF TodoSet
  <2>3. ASSUME NEW n \in Nodes, ~Graph[n].mul_mat PROVE Planned(n)' \subseteq {"cpu"}
    <3>1. CASE n = node_n
      BY <1>1, <2>2, <2>3, <3>1, PlanFacts
    <3>2. CASE n # node_n
      BY <1>0, <1>1, <2>3, <3>2, PlanFacts DEF ShareInv
    <3> QED BY <3>1, <3>2
  <2> QED BY <1>0, <2>1, <2>3 DEF ShareInv
<1>2. CASE SubmitPart
  <2>1. /\ node_n \in Nodes /\ Head(todo) \in Devices
        /\ share' = [share EXCEPT ![node_n] = @ \cup {Head(todo)}]
        /\ node_n' \in {node_n, node_n + 1}
        /\ Nodes' = Nodes /\ Graph' = Graph
        /\ \A n \in Nodes : Planned(n)' = Planned(n)
    BY <1>2, SubmitFacts DEF SubmitPart, Nodes, Graph
  <2>2. ASSUME NEW n \in Nodes
        PROVE  /\ n < node_n' => share'[n] # {}
               /\ n > node_n' => share'[n] = {}
    <3>1. CASE n = node_n
      <4>1. share'[n] = share[n] \cup {Head(todo)}
        BY <1>0, <2>1, <3>1 DEF TypeOK
      <4>2. ~(n > node_n')
        BY <1>0, <2>1, <3>1
      <4> QED BY <4>1, <4>2
    <3>2. CASE n # node_n
      <4>1. share'[n] = share[n]
        BY <1>0, <2>1, <3>2 DEF TypeOK
      <4>2. /\ n < node_n' => n < node_n
            /\ n > node_n' => n > node_n
        BY <1>0, <2>1, <3>2
      <4> QED BY <1>0, <4>1, <4>2 DEF ShareInv
    <3> QED BY <3>1, <3>2
  <2> QED BY <1>0, <2>1, <2>2 DEF ShareInv
<1>3. CASE \/ FinishPools \/ UNCHANGED vars \/ \E d \in Devices : PoolStep(d)
  <2>1. UNCHANGED <<half, node_n, todo, share>>
    BY <1>3 DEF FinishPools, Finish, PoolStep, StartJob, ComputeJob, LoadWait, FinishJob,
                dispatcher, vars
  <2> QED BY <1>0, <2>1, PlannedSame DEF ShareInv
<1> QED BY <1>1, <1>2, <1>3 DEF Next, Dispatcher, Returned

-------------------------------------------------------------------------------
(* Where the parts are *)

LEMMA PlaceStep ==
    ASSUME IInv, [Next]_vars
    PROVE  PlaceInv'
<1>0. /\ TypeOK /\ PlaceInv /\ ShareInv /\ DispatchInv
      /\ \A n \in Nodes : n \in Nat /\ n # NoNode
  BY GraphFacts DEF IInv, TypeOK
<1>1. CASE PlanNode \/ FinishPools \/ UNCHANGED vars
  <2>1. UNCHANGED <<half, share, queue, running, completed>>
    BY <1>1 DEF PlanNode, FinishPools, Finish, vars, dispatcher
  <2> QED BY <1>0, <2>1 DEF PlaceInv, InQueue, Nodes, Graph
<1>2. CASE SubmitPart
  <2>0. PICK d \in Devices : d = Head(todo)
    BY <1>2, SubmitFacts
  <2>1. /\ d \in Devices /\ d \notin share[node_n] /\ node_n \in Nodes
        /\ queue' = [queue EXCEPT ![d] = Append(@, node_n)]
        /\ share' = [share EXCEPT ![node_n] = @ \cup {d}]
        /\ UNCHANGED <<running, completed>> /\ Nodes' = Nodes
    BY <1>2, <2>0, SubmitFacts DEF SubmitPart
  <2>2. ASSUME NEW n \in Nodes, d \in share[n] PROVE n < node_n
    <3>1. share[n] # {} /\ n # node_n
      BY <2>1, <2>2
    <3>2. ~(n > node_n)
      BY <1>0, <3>1 DEF ShareInv
    <3>3. n \in Nat /\ node_n \in Nat
      BY <1>0, <2>1
    <3> QED BY <3>1, <3>2, <3>3
  <2>3. /\ queue'[d] = Append(queue[d], node_n)
        /\ queue[d] \in Seq(Nodes) /\ Len(queue[d]) \in Nat
        /\ DOMAIN queue[d] = 1 .. Len(queue[d])
        /\ DOMAIN queue'[d] = 1 .. Len(queue[d]) + 1
        /\ \A i \in DOMAIN queue[d] : queue'[d][i] = queue[d][i]
        /\ queue'[d][Len(queue[d]) + 1] = node_n
    BY <1>0, <2>1 DEF TypeOK
  <2>4. ASSUME NEW i \in DOMAIN queue[d] PROVE queue[d][i] < node_n
    <3>1. queue[d][i] \in Nodes
      BY <2>3
    <3>2. d \in share[queue[d][i]]
      BY <1>0, <2>1, <3>1 DEF PlaceInv, InQueue
    <3> QED BY <2>2, <3>1, <3>2
  <2>5. running[d] < node_n
    <3>1. CASE running[d] = NoNode
      BY <1>0, <2>1, <3>1 DEF NoNode
    <3>2. CASE running[d] # NoNode
      <4>1. running[d] \in Nodes
        BY <1>0, <2>1, <3>2 DEF TypeOK
      <4> QED BY <1>0, <2>1, <2>2, <4>1 DEF PlaceInv
    <3> QED BY <3>1, <3>2
  <2>6. ASSUME NEW c \in completed[d] PROVE c < node_n
    <3>1. c \in Nodes
      BY <1>0, <2>1 DEF TypeOK
    <3> QED BY <1>0, <2>1, <2>2, <3>1 DEF PlaceInv
  <2>7. ASSUME NEW n \in Nodes PROVE InQueue(d, n)' <=> InQueue(d, n) \/ n = node_n
    <3>1. InQueue(d, n)' => InQueue(d, n) \/ n = node_n
      <4> SUFFICES ASSUME NEW i \in DOMAIN queue'[d], queue'[d][i] = n, n # node_n
                   PROVE  InQueue(d, n)
        BY DEF InQueue
      <4>1. i \in DOMAIN queue[d] /\ queue[d][i] = n
        BY <2>3
      <4> QED BY <4>1 DEF InQueue
    <3>2. InQueue(d, n) => InQueue(d, n)'
      <4> SUFFICES ASSUME NEW i \in DOMAIN queue[d], queue[d][i] = n PROVE InQueue(d, n)'
        BY DEF InQueue
      <4>1. i \in DOMAIN queue'[d] /\ queue'[d][i] = n
        BY <2>3
      <4> QED BY <4>1 DEF InQueue
    <3>3. n = node_n => InQueue(d, n)'
      <4>1. Len(queue[d]) + 1 \in DOMAIN queue'[d]
        BY <2>3
      <4> QED BY <2>3, <4>1 DEF InQueue
    <3> QED BY <3>1, <3>2, <3>3
  <2>8. ASSUME NEW e \in Devices, e # d
        PROVE  /\ queue'[e] = queue[e]
               /\ \A n \in Nodes : e \in share'[n] <=> e \in share[n]
    BY <1>0, <2>1, <2>8 DEF TypeOK
  <2>9. \A n \in Nodes : d \in share'[n] <=> d \in share[n] \/ n = node_n
    BY <1>0, <2>1 DEF TypeOK
  <2>10. /\ \A n \in Nodes : d \in share'[n] <=> InQueue(d, n)' \/ running'[d] = n \/ n \in completed'[d]
         /\ \A i, j \in DOMAIN queue'[d] : i < j => queue'[d][i] < queue'[d][j]
         /\ \A i \in DOMAIN queue'[d] : running'[d] < queue'[d][i]
         /\ \A c \in completed'[d] : \A i \in DOMAIN queue'[d] : c < queue'[d][i]
         /\ \A c \in completed'[d] : running'[d] # NoNode => c < running'[d]
    <3>1. \A n \in Nodes : d \in share'[n] <=> InQueue(d, n)' \/ running'[d] = n \/ n \in completed'[d]
      BY <1>0, <2>1, <2>7, <2>9 DEF PlaceInv
    <3>2. \A i, j \in DOMAIN queue'[d] : i < j => queue'[d][i] < queue'[d][j]
      BY <1>0, <2>1, <2>3, <2>4 DEF PlaceInv
    <3>3. \A i \in DOMAIN queue'[d] : running'[d] < queue'[d][i]
      BY <1>0, <2>1, <2>3, <2>5 DEF PlaceInv
    <3>4. \A c \in completed'[d] : \A i \in DOMAIN queue'[d] : c < queue'[d][i]
      BY <1>0, <2>1, <2>3, <2>6 DEF PlaceInv
    <3> QED BY <1>0, <2>1, <3>1, <3>2, <3>3, <3>4 DEF PlaceInv
  <2>11. ASSUME NEW e \in Devices, e # d
         PROVE  /\ \A n \in Nodes : e \in share'[n] <=> InQueue(e, n)' \/ running'[e] = n \/ n \in completed'[e]
                /\ \A i, j \in DOMAIN queue'[e] : i < j => queue'[e][i] < queue'[e][j]
                /\ \A i \in DOMAIN queue'[e] : running'[e] < queue'[e][i]
                /\ \A c \in completed'[e] : \A i \in DOMAIN queue'[e] : c < queue'[e][i]
                /\ \A c \in completed'[e] : running'[e] # NoNode => c < running'[e]
    BY <1>0, <2>1, <2>8, <2>11 DEF PlaceInv, InQueue
  <2> QED BY <2>1, <2>10, <2>11 DEF PlaceInv
<1>3. ASSUME NEW d \in Devices, StartJob(d) PROVE PlaceInv'
  <2> PICK q : q = queue[d]
    OBVIOUS
  <2> PICK n : n = Head(q)
    OBVIOUS
  <2>1. /\ running' = [running EXCEPT ![d] = n]
        /\ queue' = [queue EXCEPT ![d] = Tail(q)]
        /\ running[d] = NoNode /\ q # <<>>
        /\ UNCHANGED <<share, completed>> /\ Nodes' = Nodes
    BY <1>3 DEF StartJob, dispatcher, Nodes, Graph
  <2>2. /\ q \in Seq(Nodes) /\ Len(q) \in Nat /\ DOMAIN q = 1 .. Len(q)
        /\ n = q[1] /\ n \in Nodes /\ 1 \in DOMAIN q
        /\ DOMAIN Tail(q) = 1 .. Len(q) - 1
        /\ \A i \in 1 .. Len(q) - 1 : Tail(q)[i] = q[i + 1]
    BY <1>0, <2>1 DEF TypeOK
  <2>3. queue'[d] = Tail(q) /\ running'[d] = n
    BY <1>0, <2>1 DEF TypeOK
  <2>4. /\ \A i, j \in DOMAIN q : i < j => q[i] < q[j]
        /\ \A c \in completed[d] : \A i \in DOMAIN q : c < q[i]
    BY <1>0 DEF PlaceInv
  <2>5. ASSUME NEW m \in Nodes PROVE InQueue(d, m) <=> InQueue(d, m)' \/ m = n
    <3>1. InQueue(d, m) => InQueue(d, m)' \/ m = n
      <4> SUFFICES ASSUME NEW i \in DOMAIN q, q[i] = m, m # n PROVE InQueue(d, m)'
        BY DEF InQueue
      <4>1. i - 1 \in DOMAIN queue'[d] /\ queue'[d][i - 1] = m
        BY <2>2, <2>3
      <4> QED BY <4>1 DEF InQueue
    <3>2. InQueue(d, m)' => InQueue(d, m)
      <4> SUFFICES ASSUME NEW i \in DOMAIN queue'[d], queue'[d][i] = m PROVE InQueue(d, m)
        BY DEF InQueue
      <4>1. i + 1 \in DOMAIN q /\ q[i + 1] = m
        BY <2>2, <2>3
      <4> QED BY <4>1 DEF InQueue
    <3>3. InQueue(d, n)
      BY <2>2 DEF InQueue
    <3> QED BY <3>1, <3>2, <3>3
  <2>6. \A m \in Nodes : d \in share'[m] <=> InQueue(d, m)' \/ running'[d] = m \/ m \in completed'[d]
    BY <1>0, <2>1, <2>3, <2>5 DEF PlaceInv
  <2>7. \A i, j \in DOMAIN queue'[d] : i < j => queue'[d][i] < queue'[d][j]
    <3> SUFFICES ASSUME NEW i \in DOMAIN queue'[d], NEW j \in DOMAIN queue'[d], i < j
                 PROVE  queue'[d][i] < queue'[d][j]
      OBVIOUS
    <3>1. i + 1 \in DOMAIN q /\ j + 1 \in DOMAIN q /\ i + 1 < j + 1
      BY <2>2, <2>3
    <3> QED BY <2>2, <2>3, <2>4, <3>1
  <2>8. ASSUME NEW i \in DOMAIN queue'[d]
        PROVE  /\ running'[d] < queue'[d][i]
               /\ \A c \in completed'[d] : c < queue'[d][i]
    <3>1. i + 1 \in DOMAIN q /\ 1 < i + 1 /\ queue'[d][i] = q[i + 1]
      BY <2>2, <2>3
    <3> QED BY <2>1, <2>2, <2>3, <2>4, <3>1
  <2>9. \A c \in completed'[d] : c < running'[d]
    BY <2>1, <2>2, <2>3, <2>4
  <2>10. \A e \in Devices : e # d => queue'[e] = queue[e] /\ running'[e] = running[e]
    BY <1>0, <2>1 DEF TypeOK
  <2> QED BY <1>0, <2>1, <2>6, <2>7, <2>8, <2>9, <2>10 DEF PlaceInv, InQueue
<1>4. ASSUME NEW d \in Devices, ComputeJob(d) \/ LoadWait(d) PROVE PlaceInv'
  <2>1. UNCHANGED <<half, share, queue, running, completed>>
    BY <1>4 DEF ComputeJob, LoadWait, dispatcher
  <2> QED BY <1>0, <2>1 DEF PlaceInv, InQueue, Nodes, Graph
<1>5. ASSUME NEW d \in Devices, FinishJob(d) PROVE PlaceInv'
  <2>1. /\ running[d] # NoNode
        /\ running' = [running EXCEPT ![d] = NoNode]
        /\ completed' = [completed EXCEPT ![d] = @ \cup {running[d]}]
        /\ UNCHANGED <<share, queue>> /\ Nodes' = Nodes
    BY <1>5 DEF FinishJob, dispatcher, Nodes, Graph
  <2>2. /\ running'[d] = NoNode
        /\ completed'[d] = completed[d] \cup {running[d]}
        /\ \A e \in Devices : e # d => running'[e] = running[e] /\ completed'[e] = completed[e]
    BY <1>0, <2>1 DEF TypeOK
  <2>3. \A i \in DOMAIN queue[d] : NoNode < queue[d][i]
    BY <1>0 DEF TypeOK, NoNode
  <2> QED BY <1>0, <2>1, <2>2, <2>3 DEF PlaceInv, InQueue
<1> QED BY <1>1, <1>2, <1>3, <1>4, <1>5 DEF Next, Dispatcher, PoolStep, Returned

-------------------------------------------------------------------------------
(* How far the parts are *)

LEMMA ComputedStep ==
    ASSUME IInv, [Next]_vars
    PROVE  ComputedInv'
<1>0. /\ TypeOK /\ PlaceInv /\ ComputedInv
      /\ \A n \in Nodes : n \in Jobs /\ n # NoNode
  BY GraphFacts DEF IInv, TypeOK
<1>1. CASE PlanNode \/ SubmitPart \/ FinishPools \/ UNCHANGED vars
  <2>1. UNCHANGED <<half, running, computed, completed, seen>>
    BY <1>1 DEF PlanNode, SubmitPart, FinishPools, Finish, vars, dispatcher
  <2> QED BY <1>0, <2>1 DEF ComputedInv, Nodes, Graph
<1>2. ASSUME NEW d \in Devices, StartJob(d) PROVE ComputedInv'
  <2>1. /\ running' = [running EXCEPT ![d] = Head(queue[d])]
        /\ running[d] = NoNode
        /\ UNCHANGED <<computed, completed, seen>> /\ Nodes' = Nodes
    BY <1>2 DEF StartJob, dispatcher, Nodes, Graph
  <2>2. seen[d] = 0
    BY <1>0, <2>1 DEF ComputedInv
  <2>3. \A e \in Devices : e # d => running'[e] = running[e]
    BY <1>0, <2>1 DEF TypeOK
  <2> QED BY <1>0, <2>1, <2>2, <2>3 DEF ComputedInv
<1>3. ASSUME NEW d \in Devices, ComputeJob(d) PROVE ComputedInv'
  <2>1. /\ running[d] \in Nodes /\ running[d] \in Jobs
        /\ computed' = [computed EXCEPT ![d][running[d]] = {0}]
        /\ UNCHANGED <<running, completed, seen>> /\ Nodes' = Nodes
    BY <1>0, <1>3 DEF ComputeJob, dispatcher, TypeOK, Nodes, Graph
  <2>2. \A e \in Devices, n \in Nodes :
            computed'[e][n] = IF e = d /\ n = running[d] THEN {0} ELSE computed[e][n]
    BY <1>0, <2>1 DEF TypeOK
  <2> QED BY <1>0, <2>1, <2>2 DEF ComputedInv, TypeOK
<1>4. ASSUME NEW d \in Devices, LoadWait(d) PROVE ComputedInv'
  <2>1. /\ running[d] # NoNode /\ computed[d][running[d]] # {}
        /\ seen' = [seen EXCEPT ![d] = n_wait[running[d]]]
        /\ UNCHANGED <<running, completed, computed>> /\ Nodes' = Nodes
    BY <1>4 DEF LoadWait, dispatcher, Nodes, Graph
  <2>2. \A e \in Devices : e # d => seen'[e] = seen[e]
    BY <1>0, <2>1 DEF TypeOK
  <2> QED BY <1>0, <2>1, <2>2 DEF ComputedInv
<1>5. ASSUME NEW d \in Devices, FinishJob(d) PROVE ComputedInv'
  <2>1. /\ running' = [running EXCEPT ![d] = NoNode]
        /\ completed' = [completed EXCEPT ![d] = @ \cup {running[d]}]
        /\ seen' = [seen EXCEPT ![d] = 0]
        /\ seen[d] # 0
        /\ UNCHANGED computed /\ Nodes' = Nodes
    BY <1>5 DEF FinishJob, dispatcher, Nodes, Graph
  <2>2. /\ running'[d] = NoNode /\ seen'[d] = 0
        /\ completed'[d] = completed[d] \cup {running[d]}
        /\ \A e \in Devices : e # d => /\ running'[e] = running[e] /\ seen'[e] = seen[e]
                                       /\ completed'[e] = completed[e]
    BY <1>0, <2>1 DEF TypeOK
  <2> QED BY <1>0, <2>1, <2>2 DEF ComputedInv
<1> QED BY <1>1, <1>2, <1>3, <1>4, <1>5 DEF Next, Dispatcher, PoolStep, Returned

(* What has not been submitted is not complete. *)
LEMMA FreshPart ==
    ASSUME IInv, NEW d \in Devices, NEW n \in Nodes, d \notin share[n]
    PROVE  /\ n \notin completed[d] /\ running[d] # n /\ ~InQueue(d, n)
           /\ computed[d][n] = {}
  BY DEF IInv, PlaceInv, ComputedInv

LEMMA CountStep ==
    ASSUME IInv, [Next]_vars
    PROVE  CountInv'
<1>0. /\ TypeOK /\ CountInv
      /\ \A n \in Nodes : n # NoNode
  BY GraphFacts DEF IInv, TypeOK
<1>1. CASE PlanNode
  <2>1. /\ n_wait' = [n_wait EXCEPT ![node_n] = IF todo' = <<"cpu", "igpu">> THEN 2 ELSE 1]
        /\ node_n \in Nodes /\ share[node_n] = {}
        /\ todo' \in {<<"cpu">>, <<"igpu">>, <<"cpu", "igpu">>}
        /\ UNCHANGED completed /\ Nodes' = Nodes
    BY <1>1, PlanFacts DEF PlanNode, Nodes, Graph
  <2>2. \A n \in Nodes : Planned(n)' = IF n = node_n THEN TodoSet' ELSE Planned(n)
    BY <1>1, PlanFacts
  <2>3. ASSUME NEW n \in Nodes
        PROVE  n_wait'[n] = IF Planned(n)' = {} THEN 1 ELSE Left("cpu", n)' + Left("igpu", n)'
    <3>1. CASE n = node_n
      <4>1. n \notin completed'["cpu"] /\ n \notin completed'["igpu"]
        BY <2>1, <3>1, FreshPart DEF Devices
      <4>2. n_wait'[n] = IF todo' = <<"cpu", "igpu">> THEN 2 ELSE 1
        BY <1>0, <2>1, <3>1 DEF TypeOK
      <4>3. Planned(n)' = TodoSet'
        BY <2>2, <3>1
      <4>4. CASE todo' = <<"cpu", "igpu">>
        <5>1. TodoSet' = {"cpu", "igpu"}
          BY <4>4 DEF TodoSet
        <5> QED BY <4>1, <4>2, <4>3, <4>4, <5>1 DEF Left
      <4>5. CASE todo' \in {<<"cpu">>, <<"igpu">>}
        <5>1. /\ TodoSet' = {"cpu"} \/ TodoSet' = {"igpu"}
              /\ todo' # <<"cpu", "igpu">>
          BY <4>5 DEF TodoSet
        <5> QED BY <4>1, <4>2, <4>3, <5>1 DEF Left
      <4> QED BY <2>1, <4>4, <4>5
    <3>2. CASE n # node_n
      <4>1. n_wait'[n] = n_wait[n] /\ Planned(n)' = Planned(n)
        BY <1>0, <2>1, <2>2, <3>2 DEF TypeOK
      <4> QED BY <1>0, <2>1, <4>1 DEF CountInv, Left
    <3> QED BY <3>1, <3>2
  <2> QED BY <2>1, <2>3 DEF CountInv
<1>2. CASE \/ SubmitPart \/ FinishPools \/ UNCHANGED vars
           \/ \E d \in Devices : StartJob(d) \/ ComputeJob(d) \/ LoadWait(d)
  <2>1. UNCHANGED <<half, n_wait, completed>>
    BY <1>2 DEF SubmitPart, FinishPools, Finish, vars, dispatcher, StartJob, ComputeJob, LoadWait
  <2>2. \A n \in Nodes : Planned(n)' = Planned(n)
    <3>1. CASE SubmitPart
      BY <3>1, SubmitFacts
    <3>2. CASE \/ FinishPools \/ UNCHANGED vars
               \/ \E d \in Devices : StartJob(d) \/ ComputeJob(d) \/ LoadWait(d)
      <4>1. UNCHANGED <<todo, share, node_n, half>>
        BY <3>2 DEF FinishPools, Finish, vars, dispatcher, StartJob, ComputeJob, LoadWait
      <4> QED BY <4>1, PlannedSame
    <3> QED BY <1>2, <3>1, <3>2
  <2> QED BY <1>0, <2>1, <2>2 DEF CountInv, Left, Nodes, Graph
<1>3. ASSUME NEW d \in Devices, FinishJob(d) PROVE CountInv'
  <2>0. PICK r \in Nodes : r = running[d]
    BY <1>0, <1>3 DEF FinishJob, TypeOK
  <2>1. /\ n_wait' = [n_wait EXCEPT ![r] = @ - 1]
        /\ completed' = [completed EXCEPT ![d] = @ \cup {r}]
        /\ UNCHANGED <<todo, share, node_n, half>>
        /\ running[d] # NoNode
    BY <1>3, <2>0 DEF FinishJob, dispatcher
  <2>2. Nodes' = Nodes /\ \A n \in Nodes : Planned(n)' = Planned(n)
    BY <2>1, PlannedSame
  <2>3. /\ d \in Planned(r) /\ r \notin completed[d] /\ Left(d, r) = 1
        /\ n_wait[r] = Left("cpu", r) + Left("igpu", r)
    BY <2>0, <2>1, OwnPartLeft
  <2>4. \A e \in Devices, n \in Nodes :
            n \in completed'[e] <=> n \in completed[e] \/ (e = d /\ n = r)
    BY <1>0, <2>1 DEF TypeOK
  <2>5. ASSUME NEW e \in Devices, NEW n \in Nodes
        PROVE  Left(e, n)' = IF e = d /\ n = r THEN 0 ELSE Left(e, n)
    BY <2>2, <2>4 DEF Left
  <2>6. ASSUME NEW n \in Nodes
        PROVE  n_wait'[n] = IF Planned(n)' = {} THEN 1 ELSE Left("cpu", n)' + Left("igpu", n)'
    <3>1. CASE n = r
      <4>1. Left("cpu", r) \in {0, 1} /\ Left("igpu", r) \in {0, 1}
        BY DEF Left
      <4>2. n_wait'[r] = Left("cpu", r) + Left("igpu", r) - 1
        <5>1. n_wait'[r] = n_wait[r] - 1
          BY <1>0, <2>1 DEF TypeOK
        <5> QED BY <2>3, <4>1, <5>1
      <4>3. CASE d = "cpu"
        BY <2>2, <2>3, <2>5, <3>1, <4>1, <4>2, <4>3 DEF Devices
      <4>4. CASE d = "igpu"
        BY <2>2, <2>3, <2>5, <3>1, <4>1, <4>2, <4>4 DEF Devices
      <4> QED BY <4>3, <4>4 DEF Devices
    <3>2. CASE n # r
      <4>1. n_wait'[n] = n_wait[n]
        BY <1>0, <2>1, <3>2 DEF TypeOK
      <4> QED BY <1>0, <2>2, <2>5, <3>2, <4>1 DEF CountInv, Devices
    <3> QED BY <3>1, <3>2
  <2> QED BY <2>2, <2>6 DEF CountInv
<1> QED BY <1>1, <1>2, <1>3 DEF Next, Dispatcher, PoolStep, Returned

-------------------------------------------------------------------------------
(* The records, and what has been submitted *)

(* All the parts of a recorded node have been submitted and computed.      *)
LEMMA RecordedFacts ==
    ASSUME IInv, NEW n \in Nodes, records[n] = 1
    PROVE  /\ Planned(n) = share[n]
           /\ AllComputed(n)
           /\ \A d \in Devices : ~InQueue(d, n)
<1>1. /\ Planned(n) # {} /\ \A d \in Planned(n) : computed[d][n] # {}
      /\ Planned(n) \subseteq Devices
  <2>1. TodoSet \subseteq Devices
    BY TodoSets DEF IInv, DispatchInv, TodoSet
  <2> QED BY <2>1 DEF IInv, RecordInv, TypeOK, Planned
<1>2. Planned(n) = share[n]
  BY <1>1, FreshPart DEF Planned
<1>3. ASSUME NEW d \in Devices PROVE ~InQueue(d, n)
  <2>1. CASE d \in share[n]
    <3>1. n \in completed[d] \/ running[d] = n
      BY <1>1, <1>2, <2>1 DEF IInv, ComputedInv
    <3>2. n \in Nat
      BY GraphFacts DEF IInv, TypeOK
    <3> QED BY <3>1, <3>2 DEF IInv, PlaceInv, InQueue
  <2>2. CASE d \notin share[n]
    BY <2>2, FreshPart
  <2> QED BY <2>1, <2>2
<1> QED BY <1>1, <1>2, <1>3 DEF AllComputed

LEMMA RecordStep ==
    ASSUME IInv, [Next]_vars
    PROVE  RecordInv'
<1>0. /\ TypeOK /\ RecordInv
      /\ \A n \in Nodes : n # NoNode /\ n \in Jobs
  BY GraphFacts DEF IInv, TypeOK
<1>1. CASE PlanNode
  <2>1. /\ node_n \in Nodes /\ share[node_n] = {} /\ Planned(node_n) = {}
        /\ \A n \in Nodes : Planned(n)' = IF n = node_n THEN TodoSet' ELSE Planned(n)
        /\ UNCHANGED <<running, computed, completed, seen, records, half>>
        /\ Nodes' = Nodes /\ Graph' = Graph
    BY <1>1, PlanFacts DEF PlanNode, Nodes, Graph
  <2>2. records[node_n] = 0
    BY <1>0, <2>1 DEF RecordInv
  <2>3. \A d \in Devices : node_n \notin completed[d] /\ running[d] # node_n
    BY <2>1, FreshPart
  <2> QED BY <1>0, <2>1, <2>2, <2>3 DEF RecordInv
<1>2. CASE SubmitPart \/ FinishPools \/ UNCHANGED vars
  <2>1. UNCHANGED <<running, computed, completed, seen, records, half>>
    BY <1>2 DEF SubmitPart, FinishPools, Finish, vars, dispatcher
  <2>2. \A n \in Nodes : Planned(n)' = Planned(n)
    <3>1. CASE SubmitPart
      BY <3>1, SubmitFacts
    <3>2. CASE FinishPools \/ UNCHANGED vars
      BY <3>2, PlannedSame DEF FinishPools, Finish, vars, dispatcher
    <3> QED BY <1>2, <3>1, <3>2
  <2>3. Nodes' = Nodes /\ Graph' = Graph
    BY <2>1 DEF Nodes, Graph
  <2> QED BY <1>0, <2>1, <2>2, <2>3 DEF RecordInv
<1>3. ASSUME NEW d \in Devices, PoolStep(d) PROVE RecordInv'
  <2>0. /\ Nodes' = Nodes /\ Graph' = Graph
        /\ \A n \in Nodes : Planned(n)' = Planned(n)
    BY <1>3, PlannedSame DEF PoolStep, StartJob, ComputeJob, LoadWait, FinishJob, dispatcher
  <2>1. CASE StartJob(d)
    <3>1. /\ running' = [running EXCEPT ![d] = Head(queue[d])]
          /\ running[d] = NoNode /\ queue[d] # <<>>
          /\ UNCHANGED <<computed, completed, seen, records>>
      BY <2>1 DEF StartJob, dispatcher
    <3>2. seen[d] = 0
      BY <3>1 DEF IInv, ComputedInv
    <3>3. \A e \in Devices : running'[e] = IF e = d THEN Head(queue[d]) ELSE running[e]
      BY <1>0, <3>1 DEF TypeOK
    <3>4. InQueue(d, Head(queue[d]))
      BY <1>0, <3>1 DEF InQueue, TypeOK
    <3>5. \A n \in Nodes : records[n] = 1 => Head(queue[d]) # n
      BY <3>4, RecordedFacts
    <3> QED BY <1>0, <2>0, <3>1, <3>2, <3>3, <3>5 DEF RecordInv
  <2>2. CASE ComputeJob(d)
    <3>1. /\ running[d] \in Jobs
          /\ computed' = [computed EXCEPT ![d][running[d]] = {0}]
          /\ UNCHANGED <<running, completed, seen, records>>
      BY <1>0, <2>2 DEF ComputeJob, dispatcher, TypeOK
    <3>2. \A e \in Devices, n \in Nodes : computed[e][n] # {} => computed'[e][n] # {}
      BY <1>0, <3>1 DEF TypeOK
    <3>3. \A n \in Nodes : records[n] = 1 => Planned(n) \subseteq Devices
      BY <1>0, RecordedFacts DEF TypeOK
    <3> QED BY <1>0, <2>0, <3>1, <3>2, <3>3 DEF RecordInv
  <2>3. CASE LoadWait(d)
    <3>0. PICK r \in Nodes : r = running[d]
      BY <1>0, <2>3 DEF LoadWait, TypeOK
    <3>1. /\ running[d] # NoNode /\ computed[d][r] # {}
          /\ seen[d] = 0
          /\ seen' = [seen EXCEPT ![d] = n_wait[r]]
          /\ records' = IF n_wait[r] = 1 /\ Graph[r].mul_mat
                        THEN [records EXCEPT ![r] = @ + 1] ELSE records
          /\ UNCHANGED <<running, computed, completed>>
      BY <2>3, <3>0 DEF LoadWait, dispatcher
    <3>2. /\ d \in Planned(r) /\ d \in share[r] /\ r \notin completed[d]
          /\ n_wait[r] \in 1 .. 2
          /\ \A e \in Devices \ {d} : n_wait[r] = 1 + Left(e, r)
      BY <3>0, <3>1, OwnPartLeft
    <3>3. records[r] = 0
      BY <1>0, <3>0, <3>1 DEF RecordInv
    <3>4. \A e \in Devices : seen'[e] = IF e = d THEN n_wait[r] ELSE seen[e]
      BY <1>0, <3>1 DEF TypeOK
    <3>5. \A n \in Nodes : n # r => records'[n] = records[n]
      BY <1>0, <3>1 DEF TypeOK
    <3>6. records'[r] = IF n_wait[r] = 1 /\ Graph[r].mul_mat THEN 1 ELSE 0
      BY <1>0, <3>1, <3>3 DEF TypeOK
    <3>7. Planned(r) \subseteq Devices
      <4>1. TodoSet \subseteq Devices
        BY TodoSets DEF IInv, DispatchInv, TodoSet
      <4> QED BY <1>0, <4>1 DEF TypeOK, Planned
    <3>8. ASSUME n_wait[r] = 1, NEW e \in Devices
          PROVE  /\ e \in Planned(r) => computed[e][r] # {}
                 /\ running[e] = r => e = d
      <4>1. CASE e = d
        BY <3>1, <4>1
      <4>2. CASE e # d
        <5>1. Left(e, r) = 0
          BY <3>2, <3>8, <4>2 DEF Left
        <5>2. e \in Planned(r) => r \in completed[e]
          BY <5>1 DEF Left
        <5>3. r \in completed[e] => computed[e][r] # {} /\ running[e] # r
          <6>1. r \in Nat /\ r # NoNode
            BY GraphFacts DEF IInv, TypeOK
          <6> QED BY <6>1 DEF IInv, ComputedInv, PlaceInv
        <5>4. running[e] = r => e \in Planned(r)
          BY DEF IInv, PlaceInv, Planned
        <5> QED BY <5>2, <5>3, <5>4
      <4> QED BY <4>1, <4>2
    <3>9. ASSUME NEW e \in Devices, Planned(r) = {e} PROVE n_wait[r] = 1
      <4>1. PICK f \in Devices : f # d
        BY DEF Devices
      <4>2. e = d /\ Left(f, r) = 0
        BY <3>2, <3>9, <4>1 DEF Left
      <4> QED BY <3>2, <4>1, <4>2
    <3>10. ASSUME NEW n \in Nodes
           PROVE  /\ records'[n] \in 0 .. 1
                  /\ records'[n] = 1 =>
                         /\ Planned(n) # {}
                         /\ \A e \in Planned(n) : computed[e][n] # {}
                         /\ \A e \in Devices : running[e] = n => seen'[e] # 0
                  /\ \A e \in Devices :
                         Graph[n].mul_mat /\ Planned(n) = {e}
                             /\ (n \in completed[e] \/ (running[e] = n /\ seen'[e] # 0))
                         => records'[n] = 1
      <4>1. CASE n = r
        BY <3>2, <3>4, <3>6, <3>7, <3>8, <3>9, <4>1
      <4>2. CASE n # r
        BY <1>0, <3>0, <3>4, <3>5, <4>2 DEF RecordInv
      <4> QED BY <4>1, <4>2
    <3> QED BY <2>0, <3>1, <3>10 DEF RecordInv
  <2>4. CASE FinishJob(d)
    <3>1. /\ running' = [running EXCEPT ![d] = NoNode]
          /\ completed' = [completed EXCEPT ![d] = @ \cup {running[d]}]
          /\ seen' = [seen EXCEPT ![d] = 0] /\ seen[d] # 0
          /\ UNCHANGED <<computed, records>>
      BY <2>4 DEF FinishJob, dispatcher
    <3>2. /\ running'[d] = NoNode
          /\ completed'[d] = completed[d] \cup {running[d]}
          /\ \A e \in Devices : e # d => /\ running'[e] = running[e] /\ seen'[e] = seen[e]
                                         /\ completed'[e] = completed[e]
      BY <1>0, <3>1 DEF TypeOK
    <3> QED BY <1>0, <2>0, <3>1, <3>2 DEF RecordInv
  <2> QED BY <1>3, <2>1, <2>2, <2>3, <2>4 DEF PoolStep
<1> QED BY <1>1, <1>2, <1>3 DEF Next, Dispatcher, Returned

LEMMA SrcsStep ==
    ASSUME IInv, [Next]_vars
    PROVE  SrcsInv'
<1>0. /\ TypeOK /\ SrcsInv /\ ShareInv
      /\ \A n \in Nodes : n \in Nat /\ Graph[n].src \subseteq Nodes
      /\ \A n \in Nodes : \A s \in Graph[n].src : s < n
  BY GraphFacts DEF IInv, TypeOK
<1>1. CASE PlanNode
  <2>1. /\ node_n \in Nodes /\ share[node_n] = {}
        /\ n_wait' = [n_wait EXCEPT ![node_n] = IF todo' = <<"cpu", "igpu">> THEN 2 ELSE 1]
        /\ UNCHANGED share /\ Nodes' = Nodes /\ Graph' = Graph
    BY <1>1, PlanFacts DEF PlanNode, Nodes, Graph
  <2>2. ASSUME NEW n \in Nodes, share[n] # {}, NEW s \in Graph[n].src PROVE n_wait'[s] = 0
    <3>1. ~(n > node_n) /\ n # node_n
      BY <1>0, <2>1, <2>2 DEF ShareInv
    <3>2. s \in Nodes /\ s # node_n
      BY <1>0, <2>1, <3>1
    <3>3. n_wait'[s] = n_wait[s]
      BY <1>0, <2>1, <3>2 DEF TypeOK
    <3> QED BY <1>0, <2>2, <3>3 DEF SrcsInv
  <2> QED BY <2>1, <2>2 DEF SrcsInv
<1>2. CASE SubmitPart
  <2>1. /\ node_n \in Nodes
        /\ share' = [share EXCEPT ![node_n] = @ \cup {Head(todo)}]
        /\ SrcsReady
        /\ UNCHANGED n_wait /\ Nodes' = Nodes /\ Graph' = Graph
    BY <1>2, SubmitFacts DEF SubmitPart, Nodes, Graph
  <2>2. \A s \in Graph[node_n].src : n_wait[s] = 0
    <3> SUFFICES ASSUME NEW s \in Graph[node_n].src PROVE n_wait[s] = 0
      OBVIOUS
    <3>1. s \in Nodes /\ n_wait[s] <= 0
      BY <1>0, <2>1 DEF SrcsReady
    <3>2. n_wait[s] \in 0 .. 2
      BY <1>0, <3>1 DEF TypeOK
    <3> QED BY <3>1, <3>2
  <2>3. \A n \in Nodes : n # node_n => share'[n] = share[n]
    BY <1>0, <2>1 DEF TypeOK
  <2> QED BY <1>0, <2>1, <2>2, <2>3 DEF SrcsInv
<1>3. CASE \/ FinishPools \/ UNCHANGED vars
           \/ \E d \in Devices : StartJob(d) \/ ComputeJob(d) \/ LoadWait(d)
  <2>1. UNCHANGED <<half, share, n_wait>>
    BY <1>3 DEF FinishPools, Finish, vars, dispatcher, StartJob, ComputeJob, LoadWait
  <2> QED BY <1>0, <2>1 DEF SrcsInv, Nodes, Graph
<1>4. ASSUME NEW d \in Devices, FinishJob(d) PROVE SrcsInv'
  <2>1. /\ n_wait' = [n_wait EXCEPT ![running[d]] = @ - 1]
        /\ UNCHANGED share /\ Nodes' = Nodes /\ Graph' = Graph
        /\ running[d] # NoNode
    BY <1>4 DEF FinishJob, dispatcher, Nodes, Graph
  <2>2. n_wait[running[d]] \in 1 .. 2
    BY <2>1, OwnPartLeft
  <2>3. \A s \in Nodes : n_wait[s] = 0 => n_wait'[s] = 0
    BY <1>0, <2>1, <2>2 DEF TypeOK
  <2> QED BY <1>0, <2>1, <2>3 DEF SrcsInv
<1> QED BY <1>1, <1>2, <1>3, <1>4 DEF Next, Dispatcher, PoolStep, Returned

-------------------------------------------------------------------------------
(* The inductive invariant *)

LEMMA InitIInv == Init => IInv
<1> SUFFICES ASSUME Init PROVE IInv
  OBVIOUS
<1>1. /\ Len(Graph) \in Nat /\ Nodes \subseteq Jobs
      /\ \A n \in Nodes : n \in Nat /\ n # NoNode
  BY GraphFacts DEF Init
<1>2. TypeOK
  <2>1. todo \in Seq(Devices) /\ queue \in [Devices -> Seq(Nodes)]
    BY DEF Init
  <2>2. node_n \in 1 .. Len(Graph) + 1
    BY <1>1 DEF Init
  <2>3. /\ mpc = "plan"
        /\ n_wait \in [Nodes -> 0 .. 2] /\ share \in [Nodes -> SUBSET Devices]
        /\ running \in [Devices -> Nodes \cup {NoNode}]
        /\ computed \in [Devices -> [Jobs -> SUBSET {0}]]
        /\ completed \in [Devices -> SUBSET Nodes]
        /\ seen \in [Devices -> 0 .. 2] /\ records \in [Nodes -> Nat]
    BY DEF Init
  <2> QED BY <2>1, <2>2, <2>3 DEF TypeOK, Init
<1>3. TodoSet = {}
  BY DEF Init, TodoSet
<1>4. \A n \in Nodes : Planned(n) = {}
  BY <1>3 DEF Planned, Init
<1>5. DispatchInv
  BY DEF Init, DispatchInv
<1>6. ShareInv
  BY <1>1, <1>4 DEF Init, ShareInv, Nodes
<1>7. PlaceInv
  BY <1>1 DEF Init, PlaceInv, InQueue
<1>8. ComputedInv
  BY <1>1 DEF Init, ComputedInv
<1>9. CountInv
  BY <1>4 DEF Init, CountInv
<1>10. RecordInv
  BY <1>1, <1>4 DEF Init, RecordInv
<1>11. SrcsInv
  BY DEF Init, SrcsInv
<1> QED BY <1>2, <1>5, <1>6, <1>7, <1>8, <1>9, <1>10, <1>11 DEF IInv

(* The inductive invariant of the dispatcher and its two pools.            *)
THEOREM Inductive == Spec => []IInv
<1>1. IInv /\ [Next]_vars => IInv'
  BY TypeStep, DispatchStep, ShareStep, PlaceStep, ComputedStep, CountStep, RecordStep, SrcsStep
     DEF IInv
<1> QED BY <1>1, InitIInv, PTL DEF Spec

-------------------------------------------------------------------------------
(* What n_wait and the history tell *)

(* A node with n_wait = 0 is complete on every pool that got a part of it. *)
LEMMA ReadyFacts ==
    ASSUME IInv, NEW n \in Nodes, n_wait[n] = 0
    PROVE  /\ share[n] # {} /\ Planned(n) = share[n]
           /\ \A d \in share[n] : d \in Devices /\ n \in completed[d]
           /\ AllComputed(n)
<1>1. TodoSet \subseteq Devices /\ share[n] \subseteq Devices
  BY TodoSets DEF IInv, DispatchInv, TodoSet, TypeOK
<1>2. Planned(n) # {} /\ Left("cpu", n) + Left("igpu", n) = 0
  BY DEF IInv, CountInv
<1>3. Left("cpu", n) = 0 /\ Left("igpu", n) = 0
  BY <1>2 DEF Left
<1>4. \A d \in Planned(n) : d \in Devices /\ n \in completed[d]
  <2>1. Planned(n) \subseteq Devices
    BY <1>1 DEF Planned
  <2>2. ASSUME NEW d \in Planned(n) PROVE n \in completed[d]
    <3>1. Left(d, n) = 0
      BY <1>3, <2>1 DEF Devices
    <3> QED BY <3>1 DEF Left
  <2> QED BY <2>1, <2>2
<1>5. Planned(n) = share[n]
  BY <1>4, FreshPart DEF Planned
<1>6. \A d \in share[n] : computed[d][n] # {}
  BY <1>4, <1>5 DEF IInv, ComputedInv
<1> QED BY <1>2, <1>4, <1>5, <1>6 DEF AllComputed

LEMMA ReturnedFacts ==
    ASSUME IInv, mpc = "returned", NEW n \in Nodes
    PROVE  n_wait[n] = 0
<1>1. /\ Idle("cpu") /\ Idle("igpu") /\ todo = <<>> /\ node_n = Len(Graph) + 1
  BY DEF IInv, DispatchInv
<1>2. n < node_n /\ n # NoNode
  BY <1>1, GraphFacts DEF IInv, TypeOK, Nodes
<1>3. share[n] # {} /\ Planned(n) = share[n]
  BY <1>2 DEF IInv, ShareInv, Planned
<1>4. ASSUME NEW d \in Devices, d \in share[n] PROVE n \in completed[d]
  <2>1. Idle(d)
    BY <1>1 DEF Devices
  <2> QED BY <1>2, <1>4, <2>1 DEF IInv, PlaceInv, Idle, InQueue
<1>5. Left("cpu", n) = 0 /\ Left("igpu", n) = 0
  BY <1>3, <1>4 DEF Left, Devices
<1> QED BY <1>3, <1>5 DEF IInv, CountInv

LEMMA CountersFollow == IInv => CountersSound
<1> SUFFICES ASSUME IInv PROVE CountersSound
  OBVIOUS
<1>1. TypeOK
  BY DEF IInv
<1>2. ReadyIsComputed
  <2> SUFFICES ASSUME NEW n \in Nodes, n_wait[n] <= 0 \/ mpc = "returned"
               PROVE  n_wait[n] = 0 /\ AllComputed(n)
    BY DEF ReadyIsComputed
  <2>1. n_wait[n] = 0
    <3>1. n_wait[n] <= 0 => n_wait[n] = 0
      <4>1. n_wait[n] \in 0 .. 2
        BY <1>1 DEF TypeOK
      <4> QED BY <4>1
    <3> QED BY <3>1, ReturnedFacts
  <2> QED BY <2>1, ReadyFacts
<1>3. RecordSound
  <2> SUFFICES ASSUME NEW n \in Nodes
               PROVE  /\ records[n] <= 1
                      /\ records[n] = 1 => AllComputed(n)
                      /\ Graph[n].mul_mat /\ n_wait[n] = 0 /\ share[n] # Devices => records[n] = 1
    BY DEF RecordSound
  <2>1. records[n] <= 1
    BY DEF IInv, RecordInv
  <2>2. records[n] = 1 => AllComputed(n)
    BY RecordedFacts
  <2>3. ASSUME Graph[n].mul_mat, n_wait[n] = 0, share[n] # Devices PROVE records[n] = 1
    <3>1. /\ share[n] # {} /\ share[n] \subseteq Devices /\ Planned(n) = share[n]
          /\ \A d \in share[n] : n \in completed[d]
      BY <2>3, ReadyFacts
    <3>2. PICK d \in Devices : share[n] = {d}
      BY <2>3, <3>1 DEF Devices
    <3> QED BY <2>3, <3>1, <3>2 DEF IInv, RecordInv
  <2> QED BY <2>1, <2>2, <2>3
<1> QED BY <1>1, <1>2, <1>3 DEF CountersSound

(* A node that looks ready is computed by every pool that got a part of    *)
(* it, and the history is updated once at most, and not too early.         *)
THEOREM Counters == Spec => []CountersSound
  BY Inductive, CountersFollow, PTL

-------------------------------------------------------------------------------
(* Each pool is used as a JobService *)

(* The steps of the dispatcher and of the other pool leave pool d alone.   *)
PoolUnchanged(d) ==
    /\ queue'[d] = queue[d] /\ running'[d] = running[d]
    /\ computed'[d] = computed[d] /\ completed'[d] = completed[d]

PoolSubmits(d) ==
    \E n \in Jobs :
        /\ ~InQueue(d, n) /\ n # running[d] /\ n \notin completed[d]
        /\ queue'[d] = Append(queue[d], n)
        /\ running'[d] = running[d] /\ computed'[d] = computed[d] /\ completed'[d] = completed[d]

PoolStarts(d) ==
    /\ running[d] = NoNode /\ queue[d] # <<>>
    /\ running'[d] = Head(queue[d]) /\ queue'[d] = Tail(queue[d])
    /\ computed'[d] = computed[d] /\ completed'[d] = completed[d]

PoolComputes(d) ==
    /\ running[d] # NoNode /\ running[d] \in Jobs /\ computed[d][running[d]] = {}
    /\ computed'[d] = [computed[d] EXCEPT ![running[d]] = {0}]
    /\ queue'[d] = queue[d] /\ running'[d] = running[d] /\ completed'[d] = completed[d]

PoolCompletes(d) ==
    /\ running[d] # NoNode /\ running[d] \in Jobs /\ computed[d][running[d]] = {0}
    /\ completed'[d] = completed[d] \cup {running[d]} /\ running'[d] = NoNode
    /\ queue'[d] = queue[d] /\ computed'[d] = computed[d]

ServiceStep(d) ==
    PoolUnchanged(d) \/ PoolSubmits(d) \/ PoolStarts(d) \/ PoolComputes(d) \/ PoolCompletes(d)

LEMMA PoolsStep ==
    ASSUME IInv, [Next]_vars, NEW e \in Devices
    PROVE  ServiceStep(e)
<1>0. /\ TypeOK
      /\ \A n \in Nodes : n \in Jobs
  BY GraphFacts DEF IInv, TypeOK
<1>1. CASE PlanNode \/ FinishPools \/ UNCHANGED vars
  BY <1>1 DEF PlanNode, FinishPools, Finish, vars, dispatcher, ServiceStep, PoolUnchanged
<1>2. CASE SubmitPart
  <2>1. /\ Head(todo) \in Devices \ share[node_n] /\ node_n \in Nodes
        /\ queue' = [queue EXCEPT ![Head(todo)] = Append(@, node_n)]
        /\ UNCHANGED <<running, computed, completed>>
    BY <1>2, SubmitFacts DEF SubmitPart
  <2>2. CASE e = Head(todo)
    <3>1. node_n \notin completed[e] /\ running[e] # node_n /\ ~InQueue(e, node_n)
      BY <2>1, <2>2, FreshPart
    <3>2. queue'[e] = Append(queue[e], node_n) /\ node_n \in Jobs
      BY <1>0, <2>1, <2>2 DEF TypeOK
    <3> QED BY <2>1, <3>1, <3>2 DEF ServiceStep, PoolSubmits
  <2>3. CASE e # Head(todo)
    BY <1>0, <2>1, <2>3 DEF ServiceStep, PoolUnchanged, TypeOK
  <2> QED BY <2>2, <2>3
<1>3. ASSUME NEW d \in Devices, PoolStep(d), e # d PROVE ServiceStep(e)
  <2>1. PoolUnchanged(e)
    <3>1. CASE StartJob(d)
      BY <1>0, <1>3, <3>1 DEF StartJob, PoolUnchanged, TypeOK
    <3>2. CASE ComputeJob(d)
      BY <1>0, <1>3, <3>2 DEF ComputeJob, PoolUnchanged, TypeOK
    <3>3. CASE LoadWait(d)
      BY <3>3 DEF LoadWait, PoolUnchanged
    <3>4. CASE FinishJob(d)
      BY <1>0, <1>3, <3>4 DEF FinishJob, PoolUnchanged, TypeOK
    <3> QED BY <1>3, <3>1, <3>2, <3>3, <3>4 DEF PoolStep
  <2> QED BY <2>1 DEF ServiceStep
<1>4. CASE StartJob(e)
  BY <1>0, <1>4 DEF StartJob, ServiceStep, PoolStarts, TypeOK
<1>5. CASE ComputeJob(e)
  <2>1. running[e] \in Jobs
    BY <1>0, <1>5 DEF ComputeJob, TypeOK
  <2>2. computed'[e] = [computed[e] EXCEPT ![running[e]] = {0}]
    BY <1>0, <1>5, <2>1 DEF ComputeJob, TypeOK
  <2> QED BY <1>5, <2>1, <2>2 DEF ComputeJob, ServiceStep, PoolComputes
<1>6. CASE LoadWait(e)
  BY <1>6 DEF LoadWait, ServiceStep, PoolUnchanged
<1>7. CASE FinishJob(e)
  <2>1. running[e] \in Jobs /\ running[e] # NoNode /\ computed[e][running[e]] = {0}
    <3>1. computed[e][running[e]] # {} /\ running[e] # NoNode
      BY <1>7 DEF FinishJob, IInv, ComputedInv
    <3>2. running[e] \in Jobs
      BY <1>0, <3>1 DEF TypeOK
    <3>3. computed[e][running[e]] \in SUBSET {0}
      BY <1>0, <3>2 DEF TypeOK
    <3> QED BY <3>1, <3>2, <3>3
  <2> QED BY <1>0, <1>7, <2>1 DEF FinishJob, ServiceStep, PoolCompletes, TypeOK
<1> QED BY <1>1, <1>2, <1>3, <1>4, <1>5, <1>6, <1>7 DEF Next, Dispatcher, PoolStep, Returned

LEMMA CpuPoolStep ==
    ASSUME ServiceStep("cpu")
    PROVE  [CpuPool!Next]_(CpuPool!vars)
<1>1. CASE PoolUnchanged("cpu")
  BY <1>1 DEF PoolUnchanged, CpuPool!vars
<1>2. CASE PoolSubmits("cpu")
  BY <1>2 DEF PoolSubmits, InQueue, CpuPool!Next, CpuPool!Submit, CpuPool!Queued
<1>3. CASE PoolStarts("cpu")
  BY <1>3 DEF PoolStarts, CpuPool!Next, CpuPool!Start
<1>4. CASE PoolComputes("cpu")
  BY <1>4 DEF PoolComputes, CpuPool!Next, CpuPool!ComputeSome, CpuPool!Compute
<1>5. CASE PoolCompletes("cpu")
  BY <1>5 DEF PoolCompletes, CpuPool!Next, CpuPool!Complete
<1> QED BY <1>1, <1>2, <1>3, <1>4, <1>5 DEF ServiceStep

LEMMA IgpuPoolStep ==
    ASSUME ServiceStep("igpu")
    PROVE  [IgpuPool!Next]_(IgpuPool!vars)
<1>1. CASE PoolUnchanged("igpu")
  BY <1>1 DEF PoolUnchanged, IgpuPool!vars
<1>2. CASE PoolSubmits("igpu")
  BY <1>2 DEF PoolSubmits, InQueue, IgpuPool!Next, IgpuPool!Submit, IgpuPool!Queued
<1>3. CASE PoolStarts("igpu")
  BY <1>3 DEF PoolStarts, IgpuPool!Next, IgpuPool!Start
<1>4. CASE PoolComputes("igpu")
  BY <1>4 DEF PoolComputes, IgpuPool!Next, IgpuPool!ComputeSome, IgpuPool!Compute
<1>5. CASE PoolCompletes("igpu")
  BY <1>5 DEF PoolCompletes, IgpuPool!Next, IgpuPool!Complete
<1> QED BY <1>1, <1>2, <1>3, <1>4, <1>5 DEF ServiceStep

(* The dispatcher submits no part twice to a pool, and what the pool does  *)
(* with it is what ComboPool was shown to do.                              *)
THEOREM Pools == Spec => PoolsAreServices
<1>1. Init => CpuPool!Init /\ IgpuPool!Init
  BY DEF Init, CpuPool!Init, IgpuPool!Init, Devices
<1>2. IInv /\ [Next]_vars => [CpuPool!Next]_(CpuPool!vars) /\ [IgpuPool!Next]_(IgpuPool!vars)
  BY PoolsStep, CpuPoolStep, IgpuPoolStep DEF Devices
<1> QED BY <1>1, <1>2, Inductive, PTL DEF Spec, PoolsAreServices, CpuPool!SafetySpec, IgpuPool!SafetySpec

-------------------------------------------------------------------------------
(* What a node has waited for *)

Complete == {n \in Nodes : n_wait[n] = 0}

(* What is ahead of a node that has started is complete.                   *)
LEMMA AheadComplete ==
    ASSUME IInv, NEW n \in Nodes, n \in Complete \/ \E d \in Devices : running[d] = n
    PROVE  Ahead(Graph, n) \subseteq Complete
<1>0. /\ n \in Nat /\ n # NoNode /\ Nodes = 1 .. Len(Graph) /\ Len(Graph) \in Nat
      /\ Graph[n].src \subseteq Nodes
  BY GraphFacts DEF IInv, TypeOK, Nodes
<1>1. PICK d \in Devices : d \in share[n] /\ (n \in completed[d] \/ running[d] = n)
  <2>1. CASE n \in Complete
    <3>1. share[n] # {} /\ \A d \in share[n] : d \in Devices /\ n \in completed[d]
      BY <2>1, ReadyFacts DEF Complete
    <3> QED BY <3>1
  <2>2. CASE \E d \in Devices : running[d] = n
    BY <2>2 DEF IInv, PlaceInv
  <2> QED BY <2>1, <2>2
<1>2. Graph[n].src \subseteq Complete
  BY <1>0, <1>1 DEF IInv, SrcsInv, Complete
<1>3. ASSUME ~Graph[n].mul_mat, NEW m \in 1 .. n - 1, ~Graph[m].mul_mat
      PROVE  m \in Complete
  <2>1. m \in Nodes /\ m < n /\ m \in Nat /\ m # NoNode
    BY <1>0 DEF NoNode
  <2>2. d = "cpu"
    BY <1>1, <1>3 DEF IInv, ShareInv, Planned
  <2>3. m < node_n
    <3>1. ~(n > node_n) /\ node_n \in Nat
      BY <1>0, <1>1 DEF IInv, ShareInv, TypeOK
    <3> QED BY <1>0, <2>1, <3>1
  <2>4. share[m] = {"cpu"} /\ Planned(m) = {"cpu"}
    <3>1. share[m] # {} /\ Planned(m) \subseteq {"cpu"}
      BY <1>3, <2>1, <2>3 DEF IInv, ShareInv
    <3>2. Planned(m) = share[m]
      BY <2>1, <2>3 DEF Planned
    <3> QED BY <3>1, <3>2
  <2>5. m \in completed["cpu"]
    <3>1. "cpu" \in Devices
      BY DEF Devices
    <3>2. \/ InQueue("cpu", m) \/ running["cpu"] = m \/ m \in completed["cpu"]
      BY <2>1, <2>4, <3>1 DEF IInv, PlaceInv
    <3>3. ~InQueue("cpu", m)
      <4> SUFFICES ASSUME NEW i \in DOMAIN queue["cpu"], queue["cpu"][i] = m PROVE FALSE
        BY DEF InQueue
      <4>1. n < m
        BY <1>1, <2>2, <3>1 DEF IInv, PlaceInv
      <4> QED BY <1>0, <2>1, <4>1
    <3>4. running["cpu"] # m
      <4> SUFFICES ASSUME running["cpu"] = m PROVE FALSE
        OBVIOUS
      <4>1. n \in completed["cpu"]
        BY <1>0, <1>1, <2>1, <2>2
      <4>2. n < m
        BY <2>1, <3>1, <4>1 DEF IInv, PlaceInv
      <4> QED BY <1>0, <2>1, <4>2
    <3> QED BY <3>2, <3>3, <3>4
  <2>6. Left("cpu", m) = 0 /\ Left("igpu", m) = 0
    BY <2>4, <2>5 DEF Left
  <2> QED BY <2>1, <2>4, <2>6 DEF IInv, CountInv, Complete
<1> QED BY <1>2, <1>3 DEF Ahead

(* One more step back from the nodes in A. *)
Back(g, A) == UNION {{m} \cup Ahead(g, m) : m \in A}

AwaitedBy(g, n, w, k) == IF k = 0 THEN Ahead(g, n) ELSE Back(g, w[k - 1])

Awaits(g, n, w) == w = [k \in 0 .. Len(g) |-> AwaitedBy(g, n, w, k)]

LEMMA AwaitingExists ==
    ASSUME half \in Halves, NEW n \in Nodes
    PROVE  \E w : Awaits(Graph, n, w)
<1>0. /\ Len(Graph) \in Nat /\ Nodes = 1 .. Len(Graph)
      /\ \A m \in Nodes : m \in Nat /\ Graph[m].src \subseteq Nodes
  BY GraphFacts DEF Nodes
<1> DEFINE V == SUBSET Nodes
           N == Len(Graph)
           next == [k \in 1 .. N |-> [A \in V |-> Back(Graph, A)]]
<1>1. \A m \in Nodes : Ahead(Graph, m) \in V
  BY <1>0 DEF Ahead
<1>2. \A A \in V : Back(Graph, A) \in V
  BY <1>1 DEF Back
<1>3. Ahead(Graph, n) \in V
  BY <1>1
<1>4. N \in Nat
  BY <1>0
<1> HIDE DEF V, N
<1>5. next \in [1 .. N -> [V -> V]]
  BY <1>2
<1>6. \A k \in 1 .. N, A \in V : next[k][A] = Back(Graph, A)
  OBVIOUS
<1> HIDE DEF next
<1>7. PICK w : Iterates(V, Ahead(Graph, n), N, next, w)
  BY <1>3, <1>4, <1>5, Iteration, Zenon
<1>8. w \in [0 .. N -> V]
  BY <1>7 DEF Iterates
<1>9. ASSUME NEW k \in 0 .. N PROVE w[k] = AwaitedBy(Graph, n, w, k)
  <2>1. CASE k = 0
    BY <1>7, <2>1 DEF Iterates, AwaitedBy
  <2>2. CASE k # 0
    <3>1. k \in 1 .. N /\ k - 1 \in 0 .. N
      BY <1>4, <2>2
    <3>2. w[k] = next[k][w[k - 1]]
      BY <1>7, <3>1 DEF Iterates
    <3> QED BY <1>6, <1>8, <2>2, <3>1, <3>2 DEF AwaitedBy
  <2> QED BY <2>1, <2>2
<1>10. w = [k \in 0 .. N |-> AwaitedBy(Graph, n, w, k)]
  BY <1>8, <1>9
<1> QED BY <1>10 DEF Awaits, N

(* A node that has started has awaited what Awaited says. *)
LEMMA AwaitedComplete ==
    ASSUME IInv, NEW n \in Nodes, \E d \in Devices : running[d] = n
    PROVE  Awaited(Graph, n) \subseteq Complete
<1>0. half \in Halves /\ Len(Graph) \in Nat
  BY GraphFacts DEF IInv, TypeOK
<1> DEFINE w == CHOOSE w : Awaits(Graph, n, w)
<1>1. Awaited(Graph, n) = w[Len(Graph)]
  BY DEF Awaited, Awaits, AwaitedBy, Back
<1>2. Awaits(Graph, n, w)
  BY <1>0, AwaitingExists
<1> HIDE DEF w
<1>3. \A k \in 0 .. Len(Graph) : w[k] = AwaitedBy(Graph, n, w, k)
  BY <1>2 DEF Awaits
<1> DEFINE S == {k \in Nat : k <= Len(Graph) => w[k] \subseteq Complete}
<1>4. 0 \in S
  BY <1>0, <1>3, AheadComplete DEF AwaitedBy
<1>5. ASSUME NEW k \in Nat, k \in S PROVE k + 1 \in S
  <2> SUFFICES ASSUME k + 1 <= Len(Graph) PROVE w[k + 1] \subseteq Complete
    OBVIOUS
  <2>1. k + 1 \in 0 .. Len(Graph) /\ k + 1 # 0 /\ (k + 1) - 1 = k /\ k <= Len(Graph)
    BY <1>0
  <2>2. w[k + 1] = Back(Graph, w[k])
    BY <1>3, <2>1 DEF AwaitedBy
  <2>3. w[k] \subseteq Complete
    BY <1>5, <2>1
  <2>4. \A m \in Complete : Ahead(Graph, m) \subseteq Complete
    BY AheadComplete DEF Complete
  <2> QED BY <2>2, <2>3, <2>4 DEF Back
<1>6. Len(Graph) \in S
  <2> HIDE DEF S
  <2> QED BY <1>0, <1>4, <1>5, NatSetInduction
<1> QED BY <1>0, <1>1, <1>6

(* What a node awaits is computed while its own kernel runs. *)
LEMMA AwaitedComputed ==
    ASSUME IInv, NEW d \in Devices, NEW n \in Nodes, Computing(d, n),
           NEW m \in Awaited(Graph, n)
    PROVE  AllComputed(m)
<1>1. m \in Complete
  BY AwaitedComplete DEF Computing
<1> QED BY <1>1, ReadyFacts DEF Complete

-------------------------------------------------------------------------------
(* Memory *)

(* A kernel reads only what has been written: K and V through the cache,   *)
(* and every op in place, in every graph whose readers await the writers.  *)
THEOREM ReadsInOrder == Spec => []OrderedReads
<1>1. IInv => OrderedReads
  <2> SUFFICES ASSUME IInv, NEW d \in Devices, NEW n \in Nodes, Computing(d, n),
                      NEW m \in 1 .. n - 1, Graph[m].writes \cap Graph[n].reads # {}
               PROVE  AllComputed(m)
    BY DEF OrderedReads
  <2>1. half \in Halves /\ n \in DOMAIN Graphs[half]
    BY GraphsAssumption DEF IInv, TypeOK, Nodes, Graph
  <2>2. m \in Awaited(Graph, n)
    BY <2>1, ReadersWait DEF Graph
  <2> QED BY <2>2, AwaitedComputed
<1> QED BY <1>1, Inductive, PTL

(* No kernel of the feed-forward half overwrites what an earlier node uses.*)
THEOREM ReuseInOrder == Spec => []FeedForwardReuse
<1>1. IInv => FeedForwardReuse
  <2> SUFFICES ASSUME IInv, half = "feed_forward",
                      NEW d \in Devices, NEW n \in Nodes, Computing(d, n),
                      NEW m \in 1 .. n - 1, MayOverwrite(Graph, n, m)
               PROVE  AllComputed(m)
    BY DEF FeedForwardReuse, OrderedReuse
  <2>1. half \in Halves \cap {"feed_forward"} /\ n \in DOMAIN Graphs[half]
    BY GraphsAssumption DEF IInv, TypeOK, Nodes, Graph
  <2>2. m \in Awaited(Graph, n)
    BY <2>1, WritersWait DEF Graph
  <2> QED BY <2>2, AwaitedComputed
<1> QED BY <1>1, Inductive, PTL

===============================================================================
