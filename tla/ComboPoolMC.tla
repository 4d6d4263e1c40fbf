----------------------------- MODULE ComboPoolMC -----------------------------
(* Two graphs of two jobs each: job 2 uses every thread, job 3 all but one    *)
(* (as ggml_map_custom1 may, with its own n_tasks), jobs 1 and 4 have a       *)
(* single task; job 4 reads the result of job 3.                              *)
EXTENDS ComboPool

MCNTasks == [j \in 1 .. NJobs |-> IF j = 2 THEN N ELSE IF j = 3 THEN N - 1 ELSE 1]
MCDeps == [j \in 1 .. NJobs |-> IF j = 4 THEN {3} ELSE {}]
MCGraphEnds == {2, NJobs}
===============================================================================
