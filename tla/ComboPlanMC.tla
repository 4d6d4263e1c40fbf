------------------------------ MODULE ComboPlanMC ------------------------------
(***************************************************************************)
(* Measured times for ComboPlan: below, at and above the thresholds        *)
(* kComboDampingAbs (50 microseconds) and kComboDampingRate (1 microsecond *)
(* per percent), and far enough apart for a one-sided balance.             *)
(***************************************************************************)
EXTENDS ComboPlan

SomeTimes == {20, 70, 150, 9000}

===============================================================================
