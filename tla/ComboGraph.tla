------------------------------- MODULE ComboGraph -------------------------------
(***************************************************************************)
(* combo_graph_compute (llama.cpp): one thread walks the nodes of a graph  *)
(* in order and hands each to the CPU pool, to the iGPU pool, or, cut in   *)
(* two by combo_tensor_col_divide, to both.  Each pool is a JobService,    *)
(* which is what ComboPool is shown to implement.                          *)
(*                                                                         *)
(* A node is ready when its n_wait is 0; combo_pool_submit polls the       *)
(* n_wait of a node's srcs before it queues the node, and that is the only *)
(* synchronisation between the two pools.  The memory of the tensors was   *)
(* assigned beforehand by ggml-alloc, for an execution in graph order.     *)
(***************************************************************************)
EXTENDS Integers, Sequences

CONSTANTS
    Graphs,    \* Graphs[half]: the nodes in order, each a record of
               \*   mul_mat: is it a matrix multiplication?
               \*   src: the nodes among its src tensors
               \*   reads, writes: the allocations its kernel reads and writes
               \*   fresh: did ggml-alloc give it memory of its own?
    Plans      \* the outcomes of make_plan and combo_tensor_col_divide

VARIABLE half  \* the graph that is computed, one half of a layer

Halves == DOMAIN Graphs
Graph == Graphs[half]
Nodes == 1 .. Len(Graph)
NoNode == 0
Devices == {"cpu", "igpu"}

(* Fault: the iGPU part is submitted to the CPU pool. *)
PartsOnCpu(p) ==
    CASE p \in {"cpu", "sliver"} -> <<"cpu">>
      [] p = "igpu" -> <<"igpu">>
      [] p = "split" -> <<"cpu", "cpu">>

(* The pools that get a part of a matrix multiplication under a plan.  A   *)
(* "sliver" is a split whose iGPU part has fewer than 4 rows: the iGPU     *)
(* part is dropped and the CPU part is the whole matrix.                   *)
PartsOfPlan(p) ==
    CASE p = "cpu" -> <<"cpu">>
      [] p = "igpu" -> <<"igpu">>
      [] p = "split" -> <<"cpu", "igpu">>
      [] p = "sliver" -> <<"cpu">>

(* The nodes of the longest graph. *)
Jobs == UNION {DOMAIN Graphs[h] : h \in Halves}

ASSUME GraphsAssumption ==
    \A h \in Halves :
        /\ Len(Graphs[h]) \in Nat /\ DOMAIN Graphs[h] = 1 .. Len(Graphs[h])
        /\ \A n \in DOMAIN Graphs[h] : /\ Graphs[h][n].mul_mat \in BOOLEAN
                                      /\ Graphs[h][n].src \subseteq 1 .. n - 1
ASSUME PlansAssumption == Plans \subseteq {"cpu", "igpu", "split", "sliver"}

(* The nodes that are complete when node n of graph g starts: its srcs,    *)
(* and, as everything but a matrix multiplication goes through the queue   *)
(* of the CPU pool, those that are ahead of it in that queue.              *)
Ahead(g, n) ==
    g[n].src \cup IF g[n].mul_mat THEN {} ELSE {m \in 1 .. n - 1 : ~g[m].mul_mat}

(* With those that are ahead of them, and so on.                           *)
Awaited(g, n) ==
    LET awaited[k \in 0 .. Len(g)] ==
            IF k = 0 THEN Ahead(g, n)
            ELSE UNION {{m} \cup Ahead(g, m) : m \in awaited[k - 1]}
    IN  awaited[Len(g)]

(* Allocation b is free, for ggml-alloc, when it allocates node n.         *)
FreeAt(g, b, n) ==
    /\ \E k \in DOMAIN g : g[k].fresh /\ b \in g[k].writes
    /\ \A k \in DOMAIN g : b \in g[k].reads \cup g[k].writes => k < n

(* Does n overwrite memory that m, which comes before it, uses?  It may    *)
(* also have got memory that was free when it was allocated.               *)
MayOverwrite(g, n, m) ==
    LET used == g[m].reads \cup g[m].writes IN
    \/ g[n].writes \cap used # {}
    \/ g[n].fresh /\ \E b \in used : FreeAt(g, b, n)

(* What orders memory accesses in the graphs of build_llama, where no src  *)
(* does: whoever reads what an earlier node writes awaits that node; and   *)
(* in the feed-forward half, so does whoever may overwrite what an earlier *)
(* node uses.                                                              *)
ASSUME ReadersWait ==
    \A h \in Halves : \A n \in DOMAIN Graphs[h] : \A m \in 1 .. n - 1 :
        Graphs[h][m].writes \cap Graphs[h][n].reads # {} => m \in Awaited(Graphs[h], n)
ASSUME WritersWait ==
    \A h \in Halves \cap {"feed_forward"} : \A n \in DOMAIN Graphs[h] : \A m \in 1 .. n - 1 :
        MayOverwrite(Graphs[h], n, m) => m \in Awaited(Graphs[h], n)

VARIABLES
    node_n,     \* the node being dispatched
    todo,       \* the pools its parts are still to be submitted to
    mpc,        \* the dispatcher: "plan", "submit", "finish_cpu",
                \* "finish_igpu" or "returned"
    n_wait,     \* n_waits: 1, or 2 for a split node, minus the finished parts
    share,      \* share[n]: the pools that got a part of n (ghost)
    queue,      \* per pool, as in JobService
    running,
    computed,   \* the kernel and the elapsed time of the part are done
    completed,
    seen,       \* per pool: the n_wait that its leader has loaded, 0 before
    records     \* records[n]: how often the history was updated for n

dispatcher == <<half, node_n, todo, mpc, share>>
vars == <<dispatcher, n_wait, queue, running, computed, completed, seen, records>>

Init ==
    /\ half \in Halves
    /\ node_n = 1
    /\ todo = <<>>
    /\ mpc = "plan"
    /\ n_wait = [n \in Nodes |-> 1]
    /\ share = [n \in Nodes |-> {}]
    /\ queue = [d \in Devices |-> <<>>]
    /\ running = [d \in Devices |-> NoNode]
    /\ computed = [d \in Devices |-> [n \in Jobs |-> {}]]
    /\ completed = [d \in Devices |-> {}]
    /\ seen = [d \in Devices |-> 0]
    /\ records = [n \in Nodes |-> 0]

-------------------------------------------------------------------------------
(* The dispatcher *)

(* Fault: n_wait is 2 also when the iGPU part is dropped. *)
PlanSliverAsSplit ==
    /\ mpc = "plan" /\ node_n \in Nodes
    /\ \E p \in IF Graph[node_n].mul_mat THEN Plans ELSE {"cpu"} :
          /\ todo' = PartsOfPlan(p)
          /\ n_wait' = [n_wait EXCEPT ![node_n] =
                           IF p \in {"split", "sliver"} THEN 2 ELSE 1]
    /\ mpc' = "submit"
    /\ UNCHANGED <<half, node_n, share, queue, running, computed, completed, seen, records>>

(* Everything but a matrix multiplication goes to the CPU pool as it is.   *)
PlanNode ==
    /\ mpc = "plan" /\ node_n \in Nodes
    /\ \E p \in IF Graph[node_n].mul_mat THEN Plans ELSE {"cpu"} :
          /\ todo' = PartsOfPlan(p)
          /\ n_wait' = [n_wait EXCEPT ![node_n] = IF p = "split" THEN 2 ELSE 1]
    /\ mpc' = "submit"
    /\ UNCHANGED <<half, node_n, share, queue, running, computed, completed, seen, records>>

(* Fault: the part is queued as soon as one part of each src is left. *)
SrcsAlmostReady == \A s \in Graph[node_n].src : n_wait[s] <= 1

(* Fault: only matrix multiplications are waited for. *)
SrcProductsReady ==
    \A s \in Graph[node_n].src : Graph[s].mul_mat => n_wait[s] <= 0

(* The srcs whose n_wait combo_pool_submit polls are ready. *)
SrcsReady == \A s \in Graph[node_n].src : n_wait[s] <= 0

(* combo_pool_submit of one part, once all srcs are ready. *)
SubmitPart ==
    LET d == Head(todo) IN
    /\ mpc = "submit"
    /\ SrcsReady
    /\ queue' = [queue EXCEPT ![d] = Append(@, node_n)]
    /\ share' = [share EXCEPT ![node_n] = @ \cup {d}]
    /\ todo' = Tail(todo)
    /\ node_n' = IF todo' = <<>> THEN node_n + 1 ELSE node_n
    /\ mpc' = CASE todo' # <<>> -> "submit"
                [] todo' = <<>> /\ node_n' \in Nodes -> "plan"
                [] OTHER -> "finish_cpu"
    /\ UNCHANGED <<half, n_wait, running, computed, completed, seen, records>>

(* combo_pool_finish returns when its pool is idle (ComboPool, Quiescent). *)
Finish(d, here, next) ==
    /\ mpc = here /\ queue[d] = <<>> /\ running[d] = NoNode
    /\ mpc' = next
    /\ UNCHANGED <<half, node_n, todo, share, n_wait, queue, running, computed,
                   completed, seen, records>>

FinishPools ==
    \/ Finish("cpu", "finish_cpu", "finish_igpu")
    \/ Finish("igpu", "finish_igpu", "returned")

-------------------------------------------------------------------------------
(* Pool d *)

StartJob(d) ==
    /\ queue[d] # <<>> /\ running[d] = NoNode
    /\ running' = [running EXCEPT ![d] = Head(queue[d])]
    /\ queue' = [queue EXCEPT ![d] = Tail(@)]
    /\ UNCHANGED <<dispatcher, n_wait, computed, completed, seen, records>>

(* All the threads have computed the job and its elapsed time is stored. *)
ComputeJob(d) ==
    LET n == running[d] IN
    /\ n # NoNode /\ computed[d][n] = {}
    /\ computed' = [computed EXCEPT ![d][n] = {0}]
    /\ UNCHANGED <<dispatcher, n_wait, queue, running, completed, seen, records>>

(* The leader loads n_wait, and updates the history if it is 1. *)
LoadWait(d) ==
    LET n == running[d] IN
    /\ n # NoNode /\ computed[d][n] # {} /\ seen[d] = 0
    /\ seen' = [seen EXCEPT ![d] = n_wait[n]]
    /\ records' = IF n_wait[n] = 1 /\ Graph[n].mul_mat
                  THEN [records EXCEPT ![n] = @ + 1]
                  ELSE records
    /\ UNCHANGED <<dispatcher, n_wait, queue, running, computed, completed>>

(* Fault: one leader sets n_wait to 0 for both. *)
FinishBoth(d) ==
    LET n == running[d] IN
    /\ n # NoNode /\ seen[d] # 0
    /\ n_wait' = [n_wait EXCEPT ![n] = 0]
    /\ running' = [running EXCEPT ![d] = NoNode]
    /\ completed' = [completed EXCEPT ![d] = @ \cup {n}]
    /\ seen' = [seen EXCEPT ![d] = 0]
    /\ UNCHANGED <<dispatcher, queue, computed, records>>

(* __atomic_sub_fetch(n_wait, 1): now the part is complete. *)
FinishJob(d) ==
    LET n == running[d] IN
    /\ n # NoNode /\ seen[d] # 0
    /\ n_wait' = [n_wait EXCEPT ![n] = @ - 1]
    /\ running' = [running EXCEPT ![d] = NoNode]
    /\ completed' = [completed EXCEPT ![d] = @ \cup {n}]
    /\ seen' = [seen EXCEPT ![d] = 0]
    /\ UNCHANGED <<dispatcher, queue, computed, records>>

-------------------------------------------------------------------------------

Dispatcher == PlanNode \/ SubmitPart \/ FinishPools
PoolStep(d) == StartJob(d) \/ ComputeJob(d) \/ LoadWait(d) \/ FinishJob(d)
Returned == mpc = "returned" /\ UNCHANGED vars

Next == Dispatcher \/ (\E d \in Devices : PoolStep(d)) \/ Returned

(* The dispatcher polls, and a pool with a job makes progress, which is    *)
(* the fairness of JobService that ComboPool implements.                   *)
Fairness == WF_vars(Dispatcher) /\ \A d \in Devices : WF_vars(PoolStep(d))

Spec == Init /\ [][Next]_vars /\ Fairness

-------------------------------------------------------------------------------
(* Properties *)

TypeOK ==
    /\ half \in Halves
    /\ node_n \in 1 .. Len(Graph) + 1
    /\ todo \in Seq(Devices)
    /\ mpc \in {"plan", "submit", "finish_cpu", "finish_igpu", "returned"}
    /\ n_wait \in [Nodes -> 0 .. 2]
    /\ share \in [Nodes -> SUBSET Devices]
    /\ queue \in [Devices -> Seq(Nodes)]
    /\ running \in [Devices -> Nodes \cup {NoNode}]
    /\ computed \in [Devices -> [Jobs -> SUBSET {0}]]
    /\ completed \in [Devices -> SUBSET Nodes]
    /\ seen \in [Devices -> 0 .. 2]
    /\ records \in [Nodes -> Nat]

(* Is every part of node n computed? *)
AllComputed(n) == share[n] # {} /\ \A d \in share[n] : computed[d][n] # {}

Computing(d, n) == running[d] = n /\ computed[d][n] = {}

(* A node only reads what every earlier node that writes it has written,   *)
(* also where they are no srcs of each other: K and V go through the cache,*)
(* and an op in place overwrites its parent.  combo_pool_submit (ggml.c)   *)
(* waits for srcs only, and the two pools run concurrently.                *)
OrderedReads ==
    \A d \in Devices, n \in Nodes : Computing(d, n) =>
        \A m \in 1 .. n - 1 :
            Graph[m].writes \cap Graph[n].reads # {} => AllComputed(m)

(* No node writes memory that an earlier node still uses: ggml-alloc.h     *)
(* assumes that nodes run in the order in which it allocated them, and     *)
(* wants to be told (ggml_allocr_set_parse_seq) when they do not.          *)
OrderedReuse ==
    \A d \in Devices, n \in Nodes : Computing(d, n) =>
        \A m \in 1 .. n - 1 : MayOverwrite(Graph, n, m) => AllComputed(m)

(* That holds for the feed-forward half, where every node that gets freed  *)
(* memory comes, by its srcs, after the last reader of that memory.        *)
FeedForwardReuse == half = "feed_forward" => OrderedReuse

(* When a node looks ready to combo_pool_submit, all its parts, on both    *)
(* pools, are computed; and what the dispatcher leaves behind is complete. *)
ReadyIsComputed ==
    \A n \in Nodes : n_wait[n] <= 0 \/ mpc = "returned" =>
        n_wait[n] = 0 /\ AllComputed(n)

(* The history of a matrix multiplication is updated once at most, not     *)
(* before both elapsed times are final (cur_data.cpu_time holds the start  *)
(* time while the CPU part runs), and always if one pool computed all of   *)
(* it.  When both leaders of a split node load n_wait = 2, neither does.   *)
RecordSound ==
    \A n \in Nodes :
        /\ records[n] <= 1
        /\ records[n] = 1 => AllComputed(n)
        /\ Graph[n].mul_mat /\ n_wait[n] = 0 /\ share[n] # Devices => records[n] = 1

(* What n_wait counts: the parts of a node that are still to be completed, *)
(* so that a node looks ready, and is recorded, at the right time, and no  *)
(* more than two parts are ever awaited or recorded.                       *)
CountersSound == TypeOK /\ ReadyIsComputed /\ RecordSound

(* combo_graph_compute returns: polling the srcs never blocks the          *)
(* dispatcher on a node that no pool will complete.                        *)
Returns == <>(mpc = "returned")

(* The dispatcher and the leaders use each pool as JobService allows: no   *)
(* node is submitted twice to a pool, and a part that is taken is          *)
(* computed once and completed.                                            *)
CpuPool == INSTANCE JobService WITH
    NoJob <- NoNode, Parts <- [n \in Jobs |-> {0}],
    queue <- queue["cpu"], running <- running["cpu"],
    computed <- computed["cpu"], completed <- completed["cpu"]

IgpuPool == INSTANCE JobService WITH
    NoJob <- NoNode, Parts <- [n \in Jobs |-> {0}],
    queue <- queue["igpu"], running <- running["igpu"],
    computed <- computed["igpu"], completed <- completed["igpu"]

PoolsAreServices == CpuPool!SafetySpec /\ IgpuPool!SafetySpec

===============================================================================
