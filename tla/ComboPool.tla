------------------------------- MODULE ComboPool -------------------------------
(***************************************************************************)
(* The combo thread pool of ggml.c (lines 19365-19679): N worker threads   *)
(* that run combo_compute_thread, and the thread of the caller, which      *)
(* submits jobs (combo_pool_submit), waits for them (combo_pool_finish)    *)
(* and finally deletes the pool (combo_del_thread_pool).                   *)
(*                                                                         *)
(* There is no dispatcher thread.  A worker that has nothing left to do    *)
(* parks on the condition variable cv and counts itself in n_wait; the     *)
(* one that finds all the others parked (n_wait == n_threads - 1) is the   *)
(* leader: it finishes the current job, takes the next one from the queue, *)
(* initialises it, and either computes it alone or wakes everybody.  The   *)
(* leader writes n_wait and broadcasts cv WITHOUT holding the mutex, and   *)
(* no wait on a condition variable is in a loop that tests a predicate.    *)
(*                                                                         *)
(* Every label of pc stands for one access to shared state.  A job is      *)
(* identified by its place in the order of submission.  A kernel call      *)
(* (ggml_compute_forward) is in progress while its thread is at "init",    *)
(* "compute", "solo" or "finalize"; an op without an INIT or a FINALIZE    *)
(* phase passes through the label.                                         *)
(***************************************************************************)
EXTENDS Integers, Sequences, FiniteSets

CONSTANTS
    N,            \* handler->n_threads
    NJobs,        \* bound: the number of jobs ever submitted
    NTasks,       \* NTasks[j]: ggml_get_n_tasks(job j, N)
    Deps,         \* Deps[j]: the jobs that produce the src tensors of job j
    GraphEnds     \* the jobs that are the last node of their graph

Threads == 0 .. N - 1
JobIds == 1 .. NJobs
NullJob == 0      \* shared->work_node == NULL

ASSUME NAssumption == N \in Nat \ {0}
ASSUME NJobsAssumption == NJobs \in Nat
ASSUME NTasksAssumption == NTasks \in [JobIds -> 1 .. N]
ASSUME DepsAssumption ==
    /\ Deps \in [JobIds -> SUBSET JobIds]
    /\ \A j \in JobIds : \A d \in Deps[j] : d < j
ASSUME GraphEndsAssumption ==
    /\ GraphEnds \in SUBSET JobIds
    /\ NJobs > 0 => NJobs \in GraphEnds

Main == N         \* the caller's thread, as a holder of the mutex
Free == N + 1     \* nobody holds the mutex

VARIABLES
    pc,          \* pc[t]: where worker t is
    lock,        \* holder of handler->lock
    n_wait,      \* handler->n_wait
    exit,        \* handler->exit
    jobs,        \* handler->jobs, oldest first
    work_node,   \* shared->work_node
    nth,         \* shared->nth
    pending,     \* pending[j]: *(job j)->n_wait, 1 until the job is complete
    done,        \* ghost: done[j] holds the ith of every finished COMPUTE call
    mpc,         \* where the caller is
    call,        \* the function in which the caller waits for the pool
    submitted    \* number of jobs submitted so far

shared == <<n_wait, exit, jobs, work_node, nth>>
main == <<mpc, call, submitted>>
vars == <<pc, lock, shared, pending, done, main>>

LeaderPCs == {"finalize", "retire", "drain", "idlelock", "setidle", "poll",
              "pollexit", "claim", "get", "init", "release", "broadcast",
              "solo"}
FollowerPCs == {"lock", "test", "wait", "woken", "check", "compute", "exited"}
MainPCs == {"submit", "empty", "lock", "test", "wait", "woken", "held",
            "join", "gone"}

Init ==
    /\ pc = [t \in Threads |-> "lock"]
    /\ lock = Free
    /\ n_wait = 0
    /\ exit = FALSE
    /\ jobs = <<>>
    /\ work_node = NullJob
    /\ nth = 0
    /\ pending = [j \in JobIds |-> 1]
    /\ done = [j \in JobIds |-> {}]
    /\ mpc = "submit"
    /\ call = "finish"
    /\ submitted = 0

At(t, label) == pc[t] = label
Goto(t, label) == pc' = [pc EXCEPT ![t] = label]

(* pthread_cond_broadcast(cv), by a worker that goes on at label or by main. *)
Woken(u) == IF pc[u] = "wait" THEN "woken" ELSE pc[u]

-------------------------------------------------------------------------------
(* Workers *)

Lock(t) ==
    /\ At(t, "lock") /\ lock = Free
    /\ lock' = t
    /\ Goto(t, "test")
    /\ UNCHANGED <<shared, pending, done, main>>

(* Fault: the test of n_wait is off by one. *)
LeadTooEarly(t) ==
    /\ At(t, "test") /\ n_wait = N - 2
    /\ lock' = Free
    /\ Goto(t, "finalize")
    /\ UNCHANGED <<shared, pending, done, main>>

(* All the others are parked: t is the leader. *)
Lead(t) ==
    /\ At(t, "test") /\ n_wait = N - 1
    /\ lock' = Free
    /\ Goto(t, "finalize")
    /\ UNCHANGED <<shared, pending, done, main>>

(* Fault: the worker counts itself and goes on without waiting. *)
ParkWithoutWait(t) ==
    /\ At(t, "test") /\ n_wait # N - 1
    /\ n_wait' = n_wait + 1
    /\ lock' = Free
    /\ Goto(t, "check")
    /\ UNCHANGED <<exit, jobs, work_node, nth, pending, done, main>>

(* n_wait++ and pthread_cond_wait(cv), which gives the mutex back. *)
Park(t) ==
    /\ At(t, "test") /\ n_wait # N - 1
    /\ n_wait' = n_wait + 1
    /\ lock' = Free
    /\ Goto(t, "wait")
    /\ UNCHANGED <<exit, jobs, work_node, nth, pending, done, main>>

(* pthread_cond_wait gets the mutex back and the worker releases it. *)
Wake(t) ==
    /\ At(t, "woken") /\ lock = Free
    /\ Goto(t, "check")
    /\ UNCHANGED <<lock, shared, pending, done, main>>

Check(t) ==
    /\ At(t, "check")
    /\ Goto(t, IF exit THEN "exited" ELSE "compute")
    /\ UNCHANGED <<lock, shared, pending, done, main>>

(* Fault: params.ith <= params.nth. *)
ComputeOneMore(t) ==
    /\ At(t, "compute")
    /\ done' = IF t <= nth
               THEN [done EXCEPT ![work_node] = @ \cup {t}]
               ELSE done
    /\ Goto(t, "lock")
    /\ UNCHANGED <<lock, shared, pending, main>>

(* The thread's own part of the job, if the job has that many parts. *)
Compute(t) ==
    /\ At(t, "compute")
    /\ done' = IF t < nth
               THEN [done EXCEPT ![work_node] = @ \cup {t}]
               ELSE done
    /\ Goto(t, "lock")
    /\ UNCHANGED <<lock, shared, pending, main>>

-------------------------------------------------------------------------------
(* The leader *)

(* FINALIZE, and the elapsed time, of the job that has just been computed. *)
Finalize(t) ==
    /\ At(t, "finalize")
    /\ Goto(t, IF work_node = NullJob THEN "drain" ELSE "retire")
    /\ UNCHANGED <<lock, shared, pending, done, main>>

(* __atomic_sub_fetch(work_node->n_wait, 1): the job is complete. *)
Retire(t) ==
    /\ At(t, "retire")
    /\ pending' = [pending EXCEPT ![work_node] = @ - 1]
    /\ Goto(t, "drain")
    /\ UNCHANGED <<lock, shared, done, main>>

Drain(t) ==
    /\ At(t, "drain")
    /\ Goto(t, IF jobs = <<>> THEN "idlelock" ELSE "poll")
    /\ UNCHANGED <<lock, shared, pending, done, main>>

IdleLock(t) ==
    /\ At(t, "idlelock") /\ lock = Free
    /\ lock' = t
    /\ Goto(t, "setidle")
    /\ UNCHANGED <<shared, pending, done, main>>

(* Fault: cv_main is not signalled. *)
SetIdleSilently(t) ==
    /\ At(t, "setidle")
    /\ n_wait' = N
    /\ lock' = Free
    /\ Goto(t, "poll")
    /\ UNCHANGED <<exit, jobs, work_node, nth, pending, done, main>>

(* Under the mutex: n_wait = n_threads, broadcast cv_main. *)
SetIdle(t) ==
    /\ At(t, "setidle")
    /\ n_wait' = N
    /\ mpc' = IF mpc = "wait" THEN "woken" ELSE mpc
    /\ lock' = Free
    /\ Goto(t, "poll")
    /\ UNCHANGED <<exit, jobs, work_node, nth, pending, done, call, submitted>>

(* Busy wait for a job or for exit. *)
Poll(t) ==
    /\ At(t, "poll")
    /\ Goto(t, IF jobs = <<>> THEN "pollexit" ELSE "claim")
    /\ UNCHANGED <<lock, shared, pending, done, main>>

PollExit(t) ==
    /\ At(t, "pollexit")
    /\ Goto(t, IF exit THEN "exited" ELSE "poll")
    /\ UNCHANGED <<lock, shared, pending, done, main>>

(* n_wait = n_threads - 1, without the mutex. *)
Claim(t) ==
    /\ At(t, "claim")
    /\ n_wait' = N - 1
    /\ Goto(t, "get")
    /\ UNCHANGED <<lock, exit, jobs, work_node, nth, pending, done, main>>

(* get_job leaves work_node alone when the queue is empty. *)
Get(t) ==
    /\ At(t, "get")
    /\ work_node' = IF jobs = <<>> THEN work_node ELSE Head(jobs)
    /\ jobs' = IF jobs = <<>> THEN jobs ELSE Tail(jobs)
    /\ nth' = NTasks[work_node']
    /\ Goto(t, "init")
    /\ UNCHANGED <<lock, n_wait, exit, pending, done, main>>

(* The INIT call returns. *)
InitDone(t) ==
    /\ At(t, "init")
    /\ Goto(t, IF nth > 1 THEN "release" ELSE "solo")
    /\ UNCHANGED <<lock, shared, pending, done, main>>

(* Fault: n_wait is not reset. *)
ReleaseWithoutReset(t) ==
    /\ At(t, "release")
    /\ Goto(t, "broadcast")
    /\ UNCHANGED <<lock, shared, pending, done, main>>

(* n_wait = 0, without the mutex. *)
Release(t) ==
    /\ At(t, "release")
    /\ n_wait' = 0
    /\ Goto(t, "broadcast")
    /\ UNCHANGED <<lock, exit, jobs, work_node, nth, pending, done, main>>

Broadcast(t) ==
    /\ At(t, "broadcast")
    /\ pc' = [u \in Threads |-> IF u = t THEN "check" ELSE Woken(u)]
    /\ UNCHANGED <<lock, shared, pending, done, main>>

(* A job with a single task is computed by the leader alone, as ith 0. *)
Solo(t) ==
    /\ At(t, "solo")
    /\ done' = [done EXCEPT ![work_node] = @ \cup {0}]
    /\ Goto(t, "finalize")
    /\ UNCHANGED <<lock, shared, pending, main>>

-------------------------------------------------------------------------------
(* The caller *)

(* Between two graphs: nothing is submitted whose finish has not returned. *)
BetweenGraphs == mpc = "submit" /\ submitted \in {0} \cup GraphEnds

(* combo_pool_submit of the next node: poll n_wait of its srcs, then add_job. *)
Submit ==
    LET j == submitted + 1 IN
    /\ mpc = "submit" /\ submitted < NJobs
    /\ \A d \in Deps[j] : pending[d] <= 0
    /\ jobs' = Append(jobs, j)
    /\ submitted' = j
    /\ mpc' = IF j \in GraphEnds THEN "empty" ELSE "submit"
    /\ call' = "drain"
    /\ UNCHANGED <<pc, lock, n_wait, exit, work_node, nth, pending, done>>

(* Fault: an empty queue is taken for an idle pool. *)
TestEmptyOnly ==
    /\ mpc = "empty"
    /\ call' = IF jobs = <<>> THEN "finish" ELSE "drain"
    /\ mpc' = IF jobs = <<>> THEN "submit" ELSE "lock"
    /\ UNCHANGED <<pc, lock, shared, pending, done, submitted>>

(* combo_pool_finish: the test of its while loop. *)
TestEmpty ==
    /\ mpc = "empty"
    /\ call' = IF jobs = <<>> THEN "finish" ELSE "drain"
    /\ mpc' = "lock"
    /\ UNCHANGED <<pc, lock, shared, pending, done, submitted>>

(* combo_del_thread_pool is entered between two graphs. *)
Delete ==
    /\ BetweenGraphs
    /\ call' = "del"
    /\ mpc' = "lock"
    /\ UNCHANGED <<pc, lock, shared, pending, done, submitted>>

MainLock ==
    /\ mpc = "lock" /\ lock = Free
    /\ lock' = Main
    /\ mpc' = "test"
    /\ UNCHANGED <<pc, shared, pending, done, call, submitted>>

(* if (n_wait != n_threads) pthread_cond_wait(cv_main), once. *)
MainTest ==
    /\ mpc = "test"
    /\ lock' = IF n_wait # N THEN Free ELSE Main
    /\ mpc' = IF n_wait # N THEN "wait" ELSE "held"
    /\ UNCHANGED <<pc, shared, pending, done, call, submitted>>

MainWake ==
    /\ mpc = "woken" /\ lock = Free
    /\ lock' = Main
    /\ mpc' = "held"
    /\ UNCHANGED <<pc, shared, pending, done, call, submitted>>

(* combo_pool_finish gives the mutex back: it loops, or it returns. *)
MainUnlock ==
    /\ mpc = "held" /\ call \in {"drain", "finish"}
    /\ lock' = Free
    /\ mpc' = IF call = "drain" THEN "empty" ELSE "submit"
    /\ UNCHANGED <<pc, shared, pending, done, call, submitted>>

(* combo_del_thread_pool: exit = true and broadcast cv, under the mutex. *)
Kill ==
    /\ mpc = "held" /\ call = "del"
    /\ exit' = TRUE
    /\ pc' = [u \in Threads |-> Woken(u)]
    /\ lock' = Free
    /\ mpc' = "join"
    /\ UNCHANGED <<n_wait, jobs, work_node, nth, pending, done, call, submitted>>

(* Every worker has returned: the handler is freed. *)
Join ==
    /\ mpc = "join"
    /\ \A t \in Threads : At(t, "exited")
    /\ mpc' = "gone"
    /\ UNCHANGED <<pc, lock, shared, pending, done, call, submitted>>

Terminated == mpc = "gone" /\ UNCHANGED vars

-------------------------------------------------------------------------------

WorkerStep(t) ==
    \/ Lock(t) \/ Lead(t) \/ Park(t) \/ Wake(t) \/ Check(t) \/ Compute(t)
    \/ Finalize(t) \/ Retire(t) \/ Drain(t) \/ IdleLock(t) \/ SetIdle(t)
    \/ Poll(t) \/ PollExit(t) \/ Claim(t) \/ Get(t) \/ InitDone(t)
    \/ Release(t) \/ Broadcast(t) \/ Solo(t)

(* The caller's steps inside a call of the pool; a new graph, or the        *)
(* deletion of the pool, is the program's choice.                           *)
MainStep ==
    \/ Submit \/ TestEmpty \/ MainLock \/ MainTest \/ MainWake \/ MainUnlock
    \/ Kill \/ Join

Next ==
    \/ \E t \in Threads : WorkerStep(t)
    \/ MainStep \/ Delete
    \/ Terminated

(* The operating system runs every thread that can run. *)
Fairness ==
    /\ \A t \in Threads : WF_vars(WorkerStep(t))
    /\ WF_vars(MainStep)

Spec == Init /\ [][Next]_vars /\ Fairness

-------------------------------------------------------------------------------
(* Properties *)

TypeOK ==
    /\ pc \in [Threads -> LeaderPCs \cup FollowerPCs]
    /\ lock \in Threads \cup {Main, Free}
    /\ n_wait \in 0 .. N
    /\ exit \in BOOLEAN
    /\ jobs \in Seq(JobIds)
    /\ work_node \in JobIds \cup {NullJob}
    /\ nth \in 0 .. N
    /\ pending \in [JobIds -> 0 .. 1]
    /\ done \in [JobIds -> SUBSET Threads]
    /\ mpc \in MainPCs
    /\ call \in {"drain", "finish", "del"}
    /\ submitted \in 0 .. NJobs

Leader(t) == pc[t] \in LeaderPCs

(* Is thread t inside its part of the current job? *)
Working(t) == (At(t, "compute") /\ t < nth) \/ At(t, "solo")

(* Only one thread wraps a job up, takes the next one and initialises it   *)
(* (ggml.c:19470 "the process that finishes last wraps up", 19541 "one     *)
(* thread is enough for the initialisation").                              *)
OneLeader == \A t, u \in Threads : Leader(t) /\ Leader(u) => t = u

(* INIT, COMPUTE and FINALIZE of a job never overlap, on any two threads:  *)
(* kernels share the work buffer that INIT fills, and FINALIZE reads what  *)
(* all the parts wrote.                                                    *)
PhasesApart ==
    \A t \in Threads : At(t, "init") \/ (At(t, "finalize") /\ work_node # NullJob) =>
        /\ \A u \in Threads : ~Working(u)
        /\ done[work_node] = (IF At(t, "init") THEN {} ELSE 0 .. NTasks[work_node] - 1)

(* No thread computes a part of a job a second time, or a part of a job    *)
(* that is already complete.                                               *)
PartsOnce ==
    \A t \in Threads : Working(t) =>
        /\ (IF At(t, "solo") THEN 0 ELSE t) \notin done[work_node]
        /\ pending[work_node] = 1

(* When combo_pool_finish has returned every submitted job is complete and *)
(* no worker is still using the graph or its work buffer, which the caller *)
(* is about to reuse or free.                                              *)
Quiescent ==
    BetweenGraphs =>
        /\ \A j \in 1 .. submitted : pending[j] = 0
        /\ \A t \in Threads : ~Working(t)
        /\ \A t \in Threads :
              pc[t] \in {"finalize", "retire", "get", "init", "release", "broadcast"}
                  => work_node = NullJob

(* combo_pool_finish and combo_del_thread_pool return. *)
CallsReturn == mpc # "submit" ~> mpc \in {"submit", "gone"}

(* The pool implements JobService: jobs run one at a time, in the order of *)
(* their submission, every part once, and a job completes only then.       *)
Current == IF work_node # NullJob /\ pending[work_node] = 1
           THEN work_node ELSE NullJob

Service == INSTANCE JobService WITH
    Jobs <- JobIds,
    NoJob <- NullJob,
    Parts <- [j \in JobIds |-> 0 .. NTasks[j] - 1],
    queue <- jobs,
    running <- Current,
    computed <- done,
    completed <- {j \in JobIds : pending[j] = 0}

ServiceSpec == Service!Spec

-------------------------------------------------------------------------------
(* The inductive invariant behind the safety properties, without spurious  *)
(* wakeups.  It relates n_wait, which is all that the code looks at, to    *)
(* where the threads really are.                                           *)

Parked == {t \in Threads : At(t, "wait")}
SomeAt(labels) == \E t \in Threads : pc[t] \in labels

(* Labels of a leader whose current job, if any, is complete.              *)
RestPCs == {"drain", "idlelock", "setidle", "poll", "pollexit", "claim", "get"}
(* Labels of a leader whose current job is taken and not yet computed.     *)
StartPCs == {"init", "release", "broadcast", "solo"}
(* Labels of a leader whose current job is computed and not complete.      *)
EndPCs == {"finalize", "retire"}

Resting == exit \/ SomeAt(RestPCs)

LockInv ==
    /\ \A t \in Threads : lock = t <=> pc[t] \in {"test", "setidle"}
    /\ lock = Main <=> mpc \in {"test", "held"}

(* While there is a leader everybody else is parked, or leaving.           *)
LeaderInv ==
    \A t \in Threads : Leader(t) =>
        \A u \in Threads \ {t} :
            At(u, "wait") \/ (exit /\ pc[u] \in {"woken", "check", "exited"})

(* n_wait counts the parked threads, except where a leader overwrote it.   *)
CountInv ==
    /\ \A t \in Threads : Leader(t) =>
          \/ n_wait = (IF At(t, "broadcast") THEN 0 ELSE N - 1)
          \/ n_wait = N /\ pc[t] \in {"poll", "pollexit", "claim"}
    /\ ~exit /\ ~SomeAt(LeaderPCs) =>
          /\ n_wait = Cardinality(Parked)
          /\ \E t \in Threads : ~At(t, "wait")

(* The queue holds the jobs after the current one.                         *)
QueueInv ==
    /\ Len(jobs) + work_node = submitted
    /\ \A i \in 1 .. Len(jobs) : jobs[i] = work_node + i
    /\ SomeAt({"claim", "get"}) => jobs # <<>>

PendingInv ==
    /\ \A j \in JobIds : j < work_node => pending[j] = 0
    /\ \A j \in JobIds : j > work_node => pending[j] = 1
    /\ work_node # NullJob => (pending[work_node] = 0 <=> Resting)

(* How far the current job is, and who has computed a part of it.          *)
PhaseInv ==
    /\ nth = (IF work_node = NullJob THEN 0 ELSE NTasks[work_node])
    /\ work_node = NullJob => ~SomeAt(StartPCs \cup {"retire"})
    /\ SomeAt({"solo"}) => nth = 1

DoneInv ==
    /\ \A j \in JobIds : j < work_node => done[j] = 0 .. NTasks[j] - 1
    /\ \A j \in JobIds : j > work_node => done[j] = {}
    /\ work_node # NullJob =>
          /\ SomeAt(StartPCs) => done[work_node] = {}
          /\ SomeAt(EndPCs) \/ Resting => done[work_node] = 0 .. nth - 1
          /\ ~exit /\ ~SomeAt(LeaderPCs) =>
                done[work_node] =
                  {t \in 0 .. nth - 1 : pc[t] \in {"lock", "test", "wait"}}

(* What the caller knows about the pool at each of its labels.             *)
CallerInv ==
    /\ exit <=> mpc \in {"join", "gone"}
    /\ mpc = "submit" => submitted = 0 \/ submitted \notin GraphEnds \/ n_wait = N
    /\ BetweenGraphs => jobs = <<>>
    /\ mpc \in {"lock", "test", "wait", "woken", "held"} /\ call # "drain" =>
          /\ jobs = <<>>
          /\ mpc \in {"woken", "held"} => n_wait = N
    /\ exit => /\ jobs = <<>>
               /\ \A t \in Threads :
                     pc[t] \in {"poll", "pollexit", "woken", "check", "exited"}

IInv ==
    /\ TypeOK
    /\ LockInv
    /\ LeaderInv
    /\ CountInv
    /\ QueueInv
    /\ PendingInv
    /\ PhaseInv
    /\ DoneInv
    /\ CallerInv

===============================================================================
