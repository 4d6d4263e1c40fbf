---------------------------- MODULE GraphComputeMC ----------------------------
(* Nodes with every number of tasks; the second one is run by the last thread *)
(* to arrive at the first, and the fourth is the last node.                   *)
EXTENDS GraphCompute

MCNTasks == [j \in 0 .. NNodes - 1 |->
                CASE j = 1 -> 1 [] j = 2 -> N - 1 [] OTHER -> N]
===============================================================================
