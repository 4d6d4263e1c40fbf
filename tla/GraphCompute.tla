------------------------------ MODULE GraphCompute ------------------------------
(***************************************************************************)
(* ggml_graph_compute of ggml.c, with which llama_decode and the training  *)
(* programs run a graph: N threads, the caller's among them, go through    *)
(* the nodes together.  There is one barrier for two counters: the thread  *)
(* that takes n_active to 0 is the last of a node, it finalizes the node,  *)
(* runs the following nodes that have a single task on its own, sets       *)
(* n_active back and then publishes the next node in node_n, for which     *)
(* the others spin.                                                        *)
(*                                                                         *)
(* The abort callback is the program's.  It is modelled as one that says   *)
(* no until some moment and yes from then on.  A thread that aborts adds   *)
(* one to node_n, so that nobody spins for it, and leaves.                 *)
(*                                                                         *)
(* As in ComboPool, a kernel call is in progress while its thread is at    *)
(* "finalize", "init", "solo" or "compute".                                *)
(***************************************************************************)
EXTENDS Integers, FiniteSets

CONSTANTS
    N,         \* cplan->n_threads
    NNodes,    \* cgraph->n_nodes
    NTasks     \* NTasks[j]: ggml_get_n_tasks(node j, N)

Threads == 0 .. N - 1
Nodes == 0 .. NNodes - 1

ASSUME NAssumption == N \in Nat \ {0}
ASSUME NNodesAssumption == NNodes \in Nat
ASSUME NTasksAssumption == NTasks \in [Nodes -> 1 .. N]

VARIABLES
    pc,         \* pc[t]: where thread t is in ggml_graph_compute_thread
    cur,        \* cur[t]: its local node_n
    n_active,   \* shared->n_active
    node_n,     \* shared->node_n
    aborting,   \* what the abort callback answers
    status,     \* status[t]: what thread t has returned
    done        \* ghost: done[j] holds the ith of every finished COMPUTE call

vars == <<pc, cur, n_active, node_n, aborting, status, done>>

LastPCs == {"finalize", "next", "init", "solo", "poll", "reset", "publish"}
PCs == LastPCs \cup {"top", "arrive", "spin", "test", "compute", "gone"}

Init ==
    /\ pc = [t \in Threads |-> "top"]
    /\ cur = [t \in Threads |-> -1]
    /\ n_active = N
    /\ node_n = -1
    /\ aborting = FALSE
    /\ status = [t \in Threads |-> "running"]
    /\ done = [j \in Nodes |-> {}]

At(t, label) == pc[t] = label
Goto(t, label) == pc' = [pc EXCEPT ![t] = label]
Leave(t, how) == Goto(t, "gone") /\ status' = [status EXCEPT ![t] = how]
Computed(j, i) == done' = [done EXCEPT ![j] = @ \cup {i}]

-------------------------------------------------------------------------------

Continue(t) ==
    /\ At(t, "top") /\ ~aborting
    /\ Goto(t, "arrive")
    /\ UNCHANGED <<cur, n_active, node_n, aborting, status, done>>

(* Fault: the thread leaves without waking those that spin. *)
AbortSilently(t) ==
    /\ At(t, "top") /\ aborting
    /\ Leave(t, "aborted")
    /\ UNCHANGED <<cur, n_active, node_n, aborting, done>>

(* n_active is left alone: nobody will be the last of this node. *)
Abort(t) ==
    /\ At(t, "top") /\ aborting
    /\ node_n' = node_n + 1
    /\ Leave(t, "aborted")
    /\ UNCHANGED <<cur, n_active, aborting, done>>

(* Fault: the last but one takes itself for the last. *)
ArriveEarly(t) ==
    /\ At(t, "arrive")
    /\ n_active' = n_active - 1
    /\ Goto(t, IF n_active > 2 THEN "spin" ELSE IF cur[t] = -1 THEN "next" ELSE "finalize")
    /\ UNCHANGED <<cur, node_n, aborting, status, done>>

(* atomic_fetch_sub(&n_active, 1): the last thread goes on, the others spin. *)
Arrive(t) ==
    /\ At(t, "arrive")
    /\ n_active' = n_active - 1
    /\ Goto(t, IF n_active # 1 THEN "spin" ELSE IF cur[t] = -1 THEN "next" ELSE "finalize")
    /\ UNCHANGED <<cur, node_n, aborting, status, done>>

Finalize(t) ==
    /\ At(t, "finalize")
    /\ Goto(t, "next")
    /\ UNCHANGED <<cur, n_active, node_n, aborting, status, done>>

NextNode(t) ==
    /\ At(t, "next")
    /\ cur' = [cur EXCEPT ![t] = @ + 1]
    /\ Goto(t, IF cur[t] + 1 < NNodes THEN "init" ELSE "reset")
    /\ UNCHANGED <<n_active, node_n, aborting, status, done>>

(* Fault: a node with one task is left to be computed by all threads too. *)
InitAllTasks(t) ==
    /\ At(t, "init")
    /\ Goto(t, IF NTasks[cur[t]] < N THEN "solo" ELSE "reset")
    /\ UNCHANGED <<cur, n_active, node_n, aborting, status, done>>

InitDone(t) ==
    /\ At(t, "init")
    /\ Goto(t, IF NTasks[cur[t]] = 1 THEN "solo" ELSE "reset")
    /\ UNCHANGED <<cur, n_active, node_n, aborting, status, done>>

(* The only task, and FINALIZE. *)
Solo(t) ==
    /\ At(t, "solo")
    /\ Computed(cur[t], 0)
    /\ Goto(t, "poll")
    /\ UNCHANGED <<cur, n_active, node_n, aborting, status>>

(* When it breaks out of the loop here, cur[t] has been computed already. *)
Poll(t) ==
    /\ At(t, "poll")
    /\ Goto(t, IF aborting THEN "reset" ELSE "next")
    /\ UNCHANGED <<cur, n_active, node_n, aborting, status, done>>

Reset(t) ==
    /\ At(t, "reset")
    /\ n_active' = N
    /\ Goto(t, "publish")
    /\ UNCHANGED <<cur, node_n, aborting, status, done>>

Publish(t) ==
    /\ At(t, "publish")
    /\ node_n' = cur[t]
    /\ Goto(t, "test")
    /\ UNCHANGED <<cur, n_active, aborting, status, done>>

Spin(t) ==
    /\ At(t, "spin") /\ node_n # cur[t]
    /\ cur' = [cur EXCEPT ![t] = node_n]
    /\ Goto(t, "test")
    /\ UNCHANGED <<n_active, node_n, aborting, status, done>>

Test(t) ==
    /\ At(t, "test")
    /\ IF cur[t] >= NNodes
       THEN Leave(t, "success")
       ELSE Goto(t, "compute") /\ UNCHANGED status
    /\ UNCHANGED <<cur, n_active, node_n, aborting, done>>

Works(t) == At(t, "compute") /\ t < NTasks[cur[t]]

(* Fault: every thread computes the first part. *)
ComputeFirst(t) ==
    /\ At(t, "compute")
    /\ IF Works(t) THEN Computed(cur[t], 0) ELSE UNCHANGED done
    /\ Goto(t, "top")
    /\ UNCHANGED <<cur, n_active, node_n, aborting, status>>

(* The thread's own part of the node, if there are that many. *)
Compute(t) ==
    /\ At(t, "compute")
    /\ IF Works(t) THEN Computed(cur[t], t) ELSE UNCHANGED done
    /\ Goto(t, "top")
    /\ UNCHANGED <<cur, n_active, node_n, aborting, status>>

Step(t) ==
    \/ Continue(t) \/ Abort(t) \/ Arrive(t)
    \/ Finalize(t) \/ NextNode(t) \/ InitDone(t) \/ Solo(t) \/ Poll(t)
    \/ Reset(t) \/ Publish(t)
    \/ Spin(t) \/ Test(t) \/ Compute(t)

RequestAbort ==
    /\ ~aborting
    /\ aborting' = TRUE
    /\ UNCHANGED <<pc, cur, n_active, node_n, status, done>>

(* All threads have returned and are joined: so does ggml_graph_compute.   *)
Joined == \A t \in Threads : At(t, "gone")

Terminated == Joined /\ UNCHANGED vars

Next ==
    \/ \E t \in Threads : Step(t)
    \/ RequestAbort
    \/ Terminated

(* The operating system runs every thread that can run. *)
Spec == Init /\ [][Next]_vars /\ \A t \in Threads : WF_vars(Step(t))

-------------------------------------------------------------------------------
(* Properties *)

TypeOK ==
    /\ pc \in [Threads -> PCs]
    /\ cur \in [Threads -> Int]
    /\ n_active \in Int
    /\ node_n \in Int
    /\ aborting \in BOOLEAN
    /\ ~aborting => n_active \in 0 .. N /\ node_n \in -1 .. NNodes
    /\ status \in [Threads -> {"running", "success", "aborted"}]
    /\ done \in [Nodes -> SUBSET Threads]

Complete(j) == done[j] = 0 .. NTasks[j] - 1

(* The inductive invariant behind the safety properties.  As long as       *)
(* nobody aborts, n_active counts the threads that are not parked at the   *)
(* current node, except while a last thread is at work.                    *)
Parked == {t \in Threads : At(t, "spin") /\ cur[t] = node_n}
Last(t) == pc[t] \in LastPCs

CountInv ==
    /\ \A t \in Threads : Last(t) => Parked = Threads \ {t}
    /\ (\A t \in Threads : ~Last(t)) =>
          n_active + Cardinality(Parked) = N /\ n_active > 0
    /\ \A t \in Threads : Last(t) => n_active = (IF At(t, "publish") THEN N ELSE 0)

(* Who is where: a spinning thread that is not parked is late.             *)
CurInv ==
    \A t \in Threads :
        /\ pc[t] \in {"top", "arrive", "test", "compute", "gone", "finalize"} => cur[t] = node_n
        /\ At(t, "spin") => cur[t] <= node_n
        /\ pc[t] \in {"init", "solo", "poll", "reset", "publish"} => cur[t] > node_n
        /\ At(t, "next") => cur[t] >= node_n
        /\ pc[t] \in {"test", "compute"} => cur[t] >= 0
        /\ cur[t] \in -1 .. NNodes
        /\ pc[t] \notin {"reset", "publish", "spin", "test", "gone"} => cur[t] < NNodes
        /\ t \in Parked => cur[t] < NNodes
        /\ At(t, "gone") => cur[t] = NNodes
        /\ At(t, "solo") => NTasks[cur[t]] = 1

(* Thread t has nothing left to do for the node node_n.                    *)
Past(t) == pc[t] \in {"top", "arrive"} \/ t \in Parked \/ Last(t)

(* The last thread t has completed node j.                                 *)
Reached(t, j) ==
    j < cur[t] \/ (j = cur[t] /\ pc[t] \in {"finalize", "next", "poll"})

DoneInv ==
    \A j \in Nodes :
        /\ j < node_n => Complete(j)
        /\ j = node_n => done[j] = {t \in 0 .. NTasks[j] - 1 : Past(t)}
        /\ j > node_n /\ (\A t \in Threads : ~Last(t)) => done[j] = {}
        /\ \A t \in Threads : Last(t) =>
              IF Reached(t, j) THEN Complete(j) ELSE done[j] = {}

IInv == TypeOK /\ (aborting \/ (CountInv /\ CurInv /\ DoneInv))

(* INIT and FINALIZE of a node, and a node with a single task, run while   *)
(* no other thread computes anything, although nothing but the two         *)
(* counters keeps the threads apart.                                       *)
PhasesApart ==
    ~aborting =>
        \A t \in Threads :
            pc[t] \in {"finalize", "init", "solo"} => \A u \in Threads : ~Works(u)

(* A thread computes its part of a node once, when every earlier node is   *)
(* complete: with all of them in one order, nodes may share memory, which  *)
(* is what ggml-alloc counts on.                                           *)
InOrder ==
    ~aborting =>
        \A t \in Threads :
            Works(t) \/ At(t, "solo") =>
                /\ \A j \in 0 .. cur[t] - 1 : Complete(j)
                /\ (IF At(t, "solo") THEN 0 ELSE t) \notin done[cur[t]]

(* When all threads have left without an abort, the graph is computed.     *)
JoinedIsComplete == Joined /\ ~aborting => \A j \in Nodes : Complete(j)

(* ggml_graph_compute returns, aborted or not: nobody is left spinning.    *)
Returns == <>Joined

(* GGML_EXIT_SUCCESS, which is the status of thread 0, means that every    *)
(* node has been computed.                                                 *)
SuccessIsComplete ==
    Joined /\ status[0] = "success" => \A j \in Nodes : Complete(j)

================================================================================
