------------------------------- MODULE ComboPlan -------------------------------
(***************************************************************************)
(* How the share of the CPU in a matrix multiplication is chosen and       *)
(* learnt: the planners of llama.cpp (combo_plan_gd, combo_plan_balance,   *)
(* combo_plan_const) and the history that the leaders of the pools keep    *)
(* for them (ggml.c, in combo_compute_thread).  This module follows the    *)
(* history of one kind of multiplication (get_tensor_name: types and       *)
(* shapes), which all nodes of that kind share.                            *)
(*                                                                         *)
(* A fraction is the CPU's share in percent; the iGPU's is the rest.  The  *)
(* code computes fractions in float: a comparison with a constant, or a    *)
(* truncation to an integer, may go either way at exact equality.          *)
(***************************************************************************)
EXTENDS ComboDivide

CONSTANTS
    Algos,        \* what combo_init may be called with: a subset of "gd",
                  \* "balance", "const", "cpu_only" and "igpu_only"
    RoundLimit,   \* combo_plan_gd stops exploring after 30 rounds
    Rows,         \* ne01, the rows that combo_tensor_col_divide cuts in two
    Times,        \* the elapsed times, in microseconds, that may be measured
    MaxRounds     \* bound: the number of updates of the history

Fracs == 0 .. 100
NoPlan == 101

ASSUME AlgosAssumption == Algos \subseteq {"gd", "balance", "const", "cpu_only", "igpu_only"}
ASSUME RoundLimitAssumption == RoundLimit \in Nat \ {0}
ASSUME RowsAssumption == Rows \in Nat
ASSUME MaxRoundsAssumption == MaxRounds \in Nat
(* total_time = 0 means "never measured" everywhere in the code. *)
ASSUME TimesAssumption == Times \subseteq Nat \ {0}

VARIABLES
    plan_algo,   \* the planner of combo_init
    bst,         \* history.bst: the fastest record
    current,     \* history.current: a record with another fraction
    cpu,         \* history.cpu: the last record on the CPU alone
    igpu,        \* history.igpu: the last record on the iGPU alone
    opt_round,   \* history.opt_round: the number of records so far
    plan         \* the fraction of the node that is being computed

history == <<bst, current, cpu, igpu, opt_round>>
planVars == <<plan_algo, history, plan>>

Record == [frac : Fracs, time : Times \cup {0}]
Unset == [frac |-> 0, time |-> 0]

PlanInit ==
    /\ plan_algo \in Algos
    /\ bst = Unset /\ current = Unset
    /\ cpu = Unset /\ igpu = Unset
    /\ opt_round = 0
    /\ plan = NoPlan

-------------------------------------------------------------------------------
(* Planning *)

(* plan->cpu_frac for cpu_frac = num / den percent: rounded to a whole     *)
(* device within margin percent of it, truncated otherwise.                *)
Percent(num, den, margin) ==
    {p \in Fracs :
        \/ p = 100 /\ num >= (100 - margin) * den
        \/ p = 0 /\ num <= margin * den
        \/ /\ margin * den <= num /\ num <= (100 - margin) * den
           /\ p * den <= num /\ num <= (p + 1) * den}

(* The fraction at which both devices would have taken equally long.       *)
Balanced(margin) == Percent(100 * igpu.time, cpu.time + igpu.time, margin)

(* combo_plan_balance: a planner that rounds equal times equally. *)
BalancePlans ==
    CASE cpu.time = 0 -> {100}
      [] cpu.time # 0 /\ igpu.time = 0 -> {0}
      [] OTHER -> {CHOOSE p \in Balanced(10) : TRUE}

(* A cold start that comes out as one device leaves the other 2 percent.   *)
ColdStart ==
    (Balanced(1) \ {0, 100}) \cup
    (IF Balanced(1) \cap {0, 100} = {} THEN {}
     ELSE Percent(IF cpu.time < igpu.time THEN 98 ELSE 2, 1, 1))

time_diff == current.time - bst.time
frac_diff == current.frac - bst.frac
(* grad = time_diff / frac_diff, which is infinite when frac_diff is 0.    *)
GradPositive ==
    \/ time_diff > 0 /\ frac_diff >= 0
    \/ time_diff < 0 /\ frac_diff < 0
GradFlat ==
    /\ frac_diff # 0
    /\ time_diff <= frac_diff \/ time_diff <= - frac_diff
    /\ - time_diff <= frac_diff \/ - time_diff <= - frac_diff

(* A step from bst, of 50 / den percent, against the gradient.             *)
Step(den) ==
    Percent(IF GradPositive THEN bst.frac * den - 50 ELSE bst.frac * den + 50, den, 1)

(* combo_plan_gd, while it explores. *)
GdSearch ==
    CASE igpu.time = 0 -> {0}
      [] igpu.time # 0 /\ cpu.time = 0 -> {100}
      [] OTHER ->
           CASE opt_round = 2 -> ColdStart
             [] opt_round = 3 -> Step(50)
             [] OTHER ->
                  IF time_diff <= 50 \/ GradFlat THEN {bst.frac}
                  ELSE {IF p \in {0, 100} THEN bst.frac ELSE p :
                           p \in Step(IF opt_round < 45 THEN opt_round + 5 ELSE 50)}

(* Fault: exploration never ends. *)
GdWithoutLimit == GdSearch

GdPlans == IF opt_round >= RoundLimit THEN {bst.frac} ELSE GdSearch

Proposals ==
    CASE plan_algo = "gd" -> GdPlans
      [] plan_algo = "balance" -> BalancePlans
      [] plan_algo = "const" -> {50}
      [] plan_algo = "cpu_only" -> {100}
      [] plan_algo = "igpu_only" -> {0}

(* combo_graph_compute gives up a split in which the iGPU has no rows.     *)
Divided(p) ==
    IF p \in 1 .. 99 /\ nrow_igpu(Rows, p, 100 - p) = 0 THEN 100 ELSE p

(* combo_graph_compute reaches a node of this kind. *)
MakePlan ==
    /\ plan = NoPlan /\ opt_round < MaxRounds
    /\ \E p \in Proposals : plan' = Divided(p)
    /\ UNCHANGED <<plan_algo, history>>

-------------------------------------------------------------------------------
(* Measuring *)

(* Faults: bst is the last record; bst is only set by a faster record;     *)
(* current is set whatever its fraction is; a split refreshes cpu.         *)
UpdateLast(t) ==
    /\ plan # NoPlan
    /\ bst' = [frac |-> plan, time |-> t]
    /\ current' = IF plan # bst.frac THEN bst ELSE current
    /\ igpu' = IF plan = 0 THEN [frac |-> plan, time |-> t] ELSE igpu
    /\ cpu' = IF plan = 100 THEN [frac |-> plan, time |-> t] ELSE cpu
    /\ opt_round' = opt_round + 1
    /\ plan' = NoPlan
    /\ UNCHANGED plan_algo

UpdateFaster(t) ==
    /\ plan # NoPlan
    /\ bst' = IF t < bst.time THEN [frac |-> plan, time |-> t] ELSE bst
    /\ current' = IF plan # bst'.frac THEN [frac |-> plan, time |-> t] ELSE current
    /\ igpu' = IF plan = 0 THEN [frac |-> plan, time |-> t] ELSE igpu
    /\ cpu' = IF plan = 100 THEN [frac |-> plan, time |-> t] ELSE cpu
    /\ opt_round' = opt_round + 1
    /\ plan' = NoPlan
    /\ UNCHANGED plan_algo

UpdateCurrentAlways(t) ==
    /\ plan # NoPlan
    /\ bst' = IF bst.time = 0 \/ t < bst.time THEN [frac |-> plan, time |-> t] ELSE bst
    /\ current' = [frac |-> plan, time |-> t]
    /\ igpu' = IF plan = 0 THEN [frac |-> plan, time |-> t] ELSE igpu
    /\ cpu' = IF plan = 100 THEN [frac |-> plan, time |-> t] ELSE cpu
    /\ opt_round' = opt_round + 1
    /\ plan' = NoPlan
    /\ UNCHANGED plan_algo

UpdateCpuBySplit(t) ==
    /\ plan # NoPlan
    /\ bst' = IF bst.time = 0 \/ t < bst.time THEN [frac |-> plan, time |-> t] ELSE bst
    /\ current' = IF plan # bst'.frac THEN [frac |-> plan, time |-> t] ELSE current
    /\ igpu' = IF plan = 0 THEN [frac |-> plan, time |-> t] ELSE igpu
    /\ cpu' = IF plan # 0 THEN [frac |-> plan, time |-> t] ELSE cpu
    /\ opt_round' = opt_round + 1
    /\ plan' = NoPlan
    /\ UNCHANGED plan_algo

(* The leader that completes the node updates the history. *)
Update(t) ==
    LET data == [frac |-> plan, time |-> t]
        first == bst.time = 0
        better == ~first /\ t < bst.time IN
    /\ plan # NoPlan
    /\ bst' = IF first \/ better THEN data ELSE bst
    /\ current' = IF plan # bst'.frac THEN data
                  ELSE IF better /\ plan # bst.frac THEN bst ELSE current
    /\ igpu' = IF plan = 0 THEN data ELSE igpu
    /\ cpu' = IF plan = 100 THEN data ELSE cpu
    /\ opt_round' = opt_round + 1
    /\ plan' = NoPlan
    /\ UNCHANGED plan_algo

(* Neither leader of a split node updates the history: both have loaded    *)
(* n_wait = 2 (ComboGraph, LoadWait).                                      *)
Lose ==
    /\ plan \in 1 .. 99
    /\ plan' = NoPlan
    /\ UNCHANGED <<plan_algo, history>>

PlanNext == MakePlan \/ (\E t \in Times : Update(t)) \/ Lose

PlanSpec == PlanInit /\ [][PlanNext]_planVars

-------------------------------------------------------------------------------
(* Properties *)

Records == {bst, current, cpu, igpu}

PlanTypeOK ==
    /\ plan_algo \in Algos
    /\ Records \subseteq Record
    /\ opt_round \in Nat
    /\ plan \in Fracs \cup {NoPlan}

Measured(r) == r.time # 0

(* No measurement of one device alone beats bst, and bst is what the       *)
(* planner falls back to for good.                                         *)
BestIsBest ==
    \A r \in Records : Measured(r) => Measured(bst) /\ bst.time <= r.time

(* Whenever combo_plan_gd computes a gradient, it is between two records   *)
(* with different fractions, so it does not divide by zero, and a step     *)
(* against it leads away from the slower of the two fractions.             *)
GradientDefined ==
    Measured(cpu) /\ Measured(igpu) =>
        /\ Measured(current)
        /\ frac_diff # 0
        /\ time_diff > 0 => (GradPositive <=> current.frac > bst.frac)

(* A cold start gives work to both devices. *)
ColdStartSplits == Measured(cpu) /\ Measured(igpu) => ColdStart \subseteq 1 .. 99

(* The two halves of a plan are never both 0 (combo_tensor_col_divide      *)
(* divides by their sum): a plan is only taken from bst once it is         *)
(* measured, and some plan always exists.                                  *)
PlanExists ==
    /\ Proposals # {} /\ Proposals \subseteq Fracs
    /\ opt_round > 0 => Measured(bst)

(* A node that is computed on both devices gives rows to both, and to the  *)
(* iGPU 4 at least: n_wait is 2, and both pools must come to a result.     *)
SplitFeedsBoth ==
    plan \in 1 .. 99 =>
        /\ nrow_igpu(Rows, plan, 100 - plan) >= 4
        /\ nrow_cpu(Rows, plan, 100 - plan) > 0

(* After RoundLimit rounds combo_plan_gd has made up its mind.             *)
Settled ==
    [][plan_algo = "gd" /\ opt_round >= RoundLimit => bst'.frac = bst.frac]_planVars

(* combo_plan_balance measures each device until it splits a kind of node, *)
(* and from then on it splits: only whole nodes refresh cpu and igpu.      *)
SplitIsFinal ==
    [](plan_algo = "balance" /\ plan \in 1 .. 99 =>
            [](plan \in (1 .. 99) \cup {NoPlan}))

===============================================================================
