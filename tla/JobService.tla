------------------------------ MODULE JobService ------------------------------
(***************************************************************************)
(* What one combo thread pool promises its caller, whatever its threads    *)
(* do: jobs are started in the order in which they were submitted, one at  *)
(* a time; a running job consists of parts that are computed in any order  *)
(* and once each; a job completes when all its parts have been computed.   *)
(*                                                                         *)
(* ComboPool (ggml.c, combo_compute_thread and its callers) is shown to    *)
(* implement this specification; ComboGraph uses two copies of it, one for *)
(* the CPU pool and one for the iGPU pool.                                 *)
(***************************************************************************)
EXTENDS Sequences

CONSTANTS
    Jobs,     \* the jobs that may be submitted (tensors of a graph)
    NoJob,    \* "no job", not in Jobs: shared->work_node == NULL
    Parts     \* Parts[j]: the values of ith for which job j is computed

VARIABLES
    queue,      \* jobs submitted and not started, oldest first
    running,    \* the started job, or NoJob
    computed,   \* computed[j]: the parts of j that have been computed
    completed   \* the jobs that are complete

vars == <<queue, running, computed, completed>>

Queued(j) == \E i \in DOMAIN queue : queue[i] = j

Init ==
    /\ queue = <<>>
    /\ running = NoJob
    /\ computed = [j \in Jobs |-> {}]
    /\ completed = {}

(* The caller hands over a job that it has not handed over before. *)
Submit(j) ==
    /\ ~Queued(j) /\ j # running /\ j \notin completed
    /\ queue' = Append(queue, j)
    /\ UNCHANGED <<running, computed, completed>>

(* The oldest job is started once no job is running. *)
Start ==
    /\ running = NoJob
    /\ queue # <<>>
    /\ running' = Head(queue)
    /\ queue' = Tail(queue)
    /\ UNCHANGED <<computed, completed>>

(* Part i of the running job is computed; no part is computed twice. *)
Compute(i) ==
    /\ running # NoJob
    /\ i \in Parts[running] \ computed[running]
    /\ computed' = [computed EXCEPT ![running] = @ \cup {i}]
    /\ UNCHANGED <<queue, running, completed>>

(* The running job is complete, visibly to the caller. *)
Complete ==
    /\ running # NoJob
    /\ computed[running] = Parts[running]
    /\ completed' = completed \cup {running}
    /\ running' = NoJob
    /\ UNCHANGED <<queue, computed>>

ComputeSome == running # NoJob /\ \E i \in Parts[running] : Compute(i)

Next ==
    \/ \E j \in Jobs : Submit(j)
    \/ Start
    \/ ComputeSome
    \/ Complete

Fairness ==
    /\ WF_vars(Start)
    /\ WF_vars(ComputeSome)
    /\ WF_vars(Complete)

Spec == Init /\ [][Next]_vars /\ Fairness

SafetySpec == Init /\ [][Next]_vars

===============================================================================
