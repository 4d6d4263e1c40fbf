# Doppeladler: a TLA+ verification project

Doppeladler is a fork of llama.cpp that runs the matrix multiplications of a
large language model on the CPU and on the integrated GPU at the same time.
What it adds to llama.cpp is a runtime it calls *combo*: one thread pool per
device, a dispatcher that sends the nodes of a compute graph to them, and
planners that learn how to divide each kind of multiplication.  This directory
models that runtime and the parts of llama.cpp it stands on, checks the models
with TLC and proves the central ones with TLAPS.

## 1. The system

| component | state | operations | hard part |
|---|---|---|---|
| **combo thread pool** (`ggml.c` 19365-19679) | workers, `n_wait`, `exit`, mutex, `cv`, `cv_main`, job queue, `work_node`, `nth` | `combo_create_thread_pool`, `combo_compute_thread`, `combo_pool_submit`, `combo_pool_finish`, `combo_del_thread_pool` | no dispatcher thread: the last worker to park becomes the leader; `n_wait` is written outside the mutex; waits without loops |
| **combo graph dispatch** (`llama.cpp` 9639-9726) | `n_waits` per node, the two pools | `combo_graph_compute` | nodes wait for their `src` only, so nodes run out of graph order on two devices; a node may be split over both |
| **planners and history** (`llama.cpp` 9728-9867, `ggml.c` 19485-19512) | per kind of multiplication: `bst`, `current`, `cpu`, `igpu`, `opt_round` | `combo_plan_gd`, `combo_plan_balance`, `combo_plan_const`, the update by the leaders | sentinels, division by differences, rounding to whole devices, lost measurements |
| **row split** (`combo_tensor_col_divide`) | none | cuts `ne01` rows in two | 32-bit products, slivers of fewer than 4 rows |
| **KV cache** (`llama.cpp` 1145-1572) | cells (position, pending delta, sequences), `head`, `used`, `has_shift`, `n` | `find_slot`, `cell_max`, `clear`, `seq_rm`, `seq_cp`, `seq_keep`, `seq_shift`, saving and loading a state | a circular search, lazily applied shifts, three redundant counts |
| **decoding** (`combo_decode_internal`, `llama_decode_internal`) | context buffers, logits | one batch: slot, graph, compute, update of the cache | partial failure of `find_slot` |
| **ggml graph compute** (`ggml.c` 15640-16278) | `n_active`, `node_n` | spin barrier of `ggml_graph_compute_thread` | abort callback in the middle |
| **ggml allocator** (`ggml-alloc.c`) | free blocks, reference counts per tensor | allocate, free, in-place reuse, measuring | memory reuse assumes graph order |
| **ggml backend, scheduler** (`ggml-backend.c`) | buffers, splits | not used by combo | |
| **HTTP server** (`examples/server/server.cpp`) | slots, task and result queues, prompt caches | `update_slots`, `process_tasks`, cancellation | queues between threads, context shift, retries |
| **OpenCL backend** (`ggml-opencl.cpp`) | buffer pool | transfers and kernels | computation |
| **the rest** | | tokenizers, grammars, sampling, beam search, training, quantization, model files, examples | |

How they interact.  A program calls `combo_init` (two pools: one worker for the
iGPU, `n_threads` for the CPU) and then `combo_decode`.  Decoding finds a slot
in the KV cache, builds a graph, lets ggml-alloc place its tensors, and calls
`combo_graph_compute`.  That function walks through the graph.  A node that is
no matrix multiplication goes to the CPU pool; a multiplication is planned and
goes to one pool or, cut in two, to both.  `combo_pool_submit` polls the
`n_wait` counters of the node's `src` tensors before it queues the node.  The
leader of a pool that completes a node updates the history of that kind of
multiplication and then decrements the node's counter.  Last,
`combo_pool_finish` waits for both pools.

The HTTP server has one HTTP thread per request and one main loop.  The former
put tasks into a queue and poll a queue of results; the latter takes the tasks,
launches them in slots, and in each round decodes one batch with a row for each
generating slot and the prompts of the new ones, then samples a token per slot.
Each slot has a sequence of the KV cache.

What makes each part correct:

* the pool: one leader at a time, INIT before COMPUTE before FINALIZE, every
  part of a node computed once, in queue order; `finish` returns when, and only
  when, nothing is left to do; deletion ends all workers;
* the dispatcher: a kernel reads only what has been written and overwrites only
  what nobody will read; it terminates; each split node is recorded once;
* the planners: the best record is the best, gradients are defined, exploration
  ends, both devices get work when they should;
* the KV cache: `used` counts, K is rotated for the cell's position, a slot is
  found whenever there is one, a batch attends to every token and keeps them;
* the allocator: no memory is lost or given out twice, data lasts until its last
  reader in graph order, and the buffer that is measured once is enough for
  every batch;
* the server: every request is answered once, no slot works for nobody or for
  another slot's request, each token is sampled from the slot's own row, and
  when it is, the KV cache holds exactly the slot's text.

## 2. Modules

| module | models | used by |
|---|---|---|
| `JobService` | what a pool promises: FIFO start, one job at a time, each part once, completion | `ComboPool`, `ComboGraph` |
| `ComboPool` | one pool, its workers and its caller, access by access | `ComboPoolMC`, `ComboPoolProofs` |
| `ComboPoolProofs` | theorems about `ComboPool` for every number of threads and jobs | |
| `ComboGraph` | `combo_graph_compute` over two pools, each at the level of `JobService` | `ComboGraphMC`, `ComboProofs` |
| `LayerGraphs` | the graphs of the two halves of a LLaMA layer, with the memory that ggml-alloc gives their tensors | `ComboGraphMC`, `GraphAlloc` |
| `LlamaGraph` | tensors with shapes and views, and the graph of `build_llama` for any batch | `GraphAlloc` |
| `GraphAlloc` | ggml-alloc: free list, counts, in-place reuse; measuring and decoding | `GraphAllocMC`, `GraphAllocProofs` |
| `GraphAllocProofs` | theorems about `GraphAlloc` for every graph, alignment and buffer | |
| `ComboDivide` | how many rows each device gets of a split multiplication | `ComboPlan` |
| `ComboPlan` | planners and history | `ComboPlanMC`, `ComboProofs` |
| `ComboProofs` | theorems about `ComboPlan` for every set of times, rows and round limit, and about `ComboGraph` for every set of graphs that meets its assumptions, and every set of plans | |
| `KVCache` | cells, slot search, sequence functions, decode, state save and load | `KVCacheMC`, `KVCacheProofs` |
| `KVCacheProofs` | theorems about `KVCache` for every number of cells and sequences, and every size of batch | |
| `GraphCompute` | `ggml_graph_compute`: threads, spin barrier, abort callback | `GraphComputeMC`, `GraphComputeProofs` |
| `GraphComputeProofs` | theorems about `GraphCompute` for every number of threads and every graph | |
| `ServerTasks` | the server's task and result queues, HTTP threads, slots and batches | `ServerTasksMC`, `ServerTasksProofs` |
| `ServerTasksProofs` | theorems about `ServerTasks` for every number of slots, requests and rows | |
| `ServerContext` | one slot's context: prompt cache, truncation, context shift, system prompt | `ServerContextMC`, `ServerContextProofs` |
| `ServerContextProofs` | theorems about `ServerContext` for every size of the context, of prompts and of batches | |
| `InductionLemmas` | induction over the natural numbers and iterated functions, for sets | the proofs |
| `*MC` | constants for TLC | |

Definitions whose comment begins with "Fault" are not part of a specification:
each is a plausible bug in the definition next to it, and shows that a property
would notice it (PROJECT.json, "mutants").

### JobService and ComboPool

`JobService` is the abstract specification.  `ComboPool` has one action per
access to shared state: `pc[t]` is the place of worker `t` in
`combo_compute_thread`.  A worker takes the mutex (`Lock`) and tests `n_wait`.
If `n_wait` is `n_threads - 1` it is the leader (`Lead`), otherwise it
increments `n_wait` and waits (`Park`).  The leader finalizes the job
(`Finalize`), completes it (`Retire`: the decrement of the node's counter), and
tells a waiting caller when the queue is empty (`Drain`, `IdleLock`,
`SetIdle`).  It polls queue and `exit` (`Poll`, `PollExit`), sets `n_wait`
without the mutex (`Claim`), takes a job (`Get`), runs INIT (`InitDone`), and
computes it alone (`Solo`) or resets `n_wait` (`Release`) and wakes everybody
(`Broadcast`).  The caller's steps are those of `combo_pool_submit`,
`combo_pool_finish` and `combo_del_thread_pool`; `mpc` is its place and `call`
which of the three waits it is in.  Every access to the queue is one critical
section of its spin lock, so the queue is a sequence.  The kernel calls are
intervals: a thread computes while it is at "compute" or "solo".

The ghost `done` records which parts were computed.  The refinement mapping to
`JobService` takes `jobs` for the queue, `work_node` for the running job while
its counter is 1, `done` for the computed parts, and the jobs whose counter is
0 for the completed ones.

### ComboGraph and LayerGraphs

A node is a record of its `src` nodes, the allocations that its kernel reads
and writes, whether ggml-alloc gave it memory of its own, and whether it is a
matrix multiplication.  `PlanNode` chooses any outcome of the planner; a
"sliver" is a split whose iGPU part has fewer than 4 rows, which the code drops
to give all rows to the CPU.  `SubmitPart` is `combo_pool_submit` with its poll
of `n_wait`; the parts of a split are two submissions.  `StartJob`,
`ComputeJob`, `LoadWait` and `FinishJob` are one pool at the granularity of
`JobService`, with the leader's load of `n_wait` (which decides about the
record) and its later decrement as two steps.  `FinishPools` is the pair of
`combo_pool_finish` calls, which return when a pool is idle (`Quiescent` of
`ComboPool`).  `half` is the graph that is computed.

`Ahead(g, n)` has the nodes that are complete when node `n` starts whatever the
pools do: its `src`, and, if it is no multiplication, all earlier nodes that
are none, since they go through the same FIFO queue.  `Awaited` is its
transitive closure.  Two named assumptions say of the graphs what `build_llama`
makes true of its own and no line of the dispatcher checks: `ReadersWait`,
whoever reads what an earlier node writes awaits that node; and `WritersWait`,
in the feed-forward half whoever may overwrite what an earlier node uses awaits
it.  TLC evaluates both on `LayerGraphs`, whose graphs `GraphAlloc` compares
with those of `build_llama`.  On the attention half
`WritersWait` is false, which is finding 1.  `LayerGraphs` states which
tensors share memory; `GraphAlloc` checks that statement (`AsInLayerGraphs`)
against the allocator it models.

### ComboPlan and ComboDivide

One history record as `[frac, time]`: the CPU's share in percent and
`total_time`.  `MakePlan` picks any fraction that the planner's float arithmetic
can produce: the code compares and truncates floats, so at exact equality
either side is allowed.  `combo_plan_balance` is a function of the record, so
on a record where both devices take equal times it plans the same fraction
each time; which of the two neighbours it is, is one fixed choice.  `Update` is the block under `history->spx`, assignment
by assignment.  `Lose` is an update that is lost because the leaders of both pools
load `n_wait` before either has decremented it (`LoadWait` of `ComboGraph`).  `plan_algo` is the planner that `combo_init` was told to use.

`ComboDivide` has the arithmetic of `combo_tensor_col_divide`.  The product of
rows and fraction is unsigned, so it is taken modulo `Word` (2^32): above 42.9
million rows the iGPU gets fewer rows than the plan says.

### KVCache

`pos`, `seqs` and `delta` are the fields of the cells.  `rot` is a ghost: the
position for which the K stored in the cell is rotated (`NoK` before anything
was stored).  `DecodeBatch` is a whole decode: the move of `head`, `find_slot`
with its circular search, the choice of `n`, the graph (K-shift, then the new
K) and the update of `head`.  `DecodeFails` is the early return.  `SeqRm`,
`SeqCp`, `SeqKeep`, `SeqShift` and `Clear` are the sequence functions.
`SaveAndLoad`, only in `SessionSpec`, is a saved state loaded by a new context.

### GraphCompute

The runtime that combo replaces, and that `llama_decode` and the training
programs still use.  `pc[t]` is the place of thread `t` in
`ggml_graph_compute_thread` and `cur[t]` its local `node_n`; there is one action
per access to `n_active` or `node_n`.  The last thread to arrive (`Arrive`)
finalizes the node, runs the single-task nodes that follow (`Solo`), resets
`n_active` (`Reset`) and publishes the next node (`Publish`); the others spin
(`Spin`).  The abort callback answers no until `RequestAbort`, and yes from
then on.

### LlamaGraph and GraphAlloc

`alloc` is the allocator: `blocks` is the table of free blocks, `data[t]` the
address of tensor `t`, and `view_src`, `n_children` and `n_views` are the
graph allocator's (`view_src[t]` changes when an op works in place).  `Alloc` and
`Returned` are `ggml_tallocr_alloc` and `ggml_tallocr_free_tensor`,
`AllocateNode` is `allocate_node`, and `UpdateParent` one round of the loop over
a node's parents; `AllocGraph` is one round of the loop over the nodes, with its
two inner loops as recursive functions (`AllocateRound`, `UpdateParents`).  `Measure` and
`Decode` are the two uses: the graph of the largest batch at an allocator of
unlimited size, then any batch's graph in a buffer of the measured size plus the
alignment, at another base address.  The graph is either `build_llama` for one
of `Models`, tensor by tensor with its real shapes, or any graph that `AddLeaf`,
`AddOp` and `AddView` build, provided every tensor but the last has a reader
(`ggml_build_forward_expand` adds no others).  Three ghosts say what the code
never writes down: `live` has the tensors that have memory of their own now,
`own[t]` the tensor in whose memory `t` is, and `dropped` those that the count of
views no longer includes.  `WellFormed` is what the code takes for granted of a
graph (a `src` comes before its reader, a view lies inside what it views and is
of no view); that the graphs of `build_llama` are is an assumption on
the models, which TLC evaluates for those of the run; that those of `AddLeaf`,
`AddOp` and `AddView` are is proved.  Sizes are in elements; the types
of tensors scale them but do not change how they compare in this graph.

### ServerTasks and ServerContext

Two views of the server that meet at the slot.  `ServerTasks` has all of its
threads and queues: `client[t]` is the place of the HTTP thread that requested
task `t`, `pc` the place of the main loop in `update_slots`.  `process_tasks`
holds `mutex_tasks`, so its tasks are actions (`Refuse`, `Launch`,
`CancelTask`) during which the HTTP threads can neither request nor cancel, but
can read results.  `Schedule` is everything from the system prompt to the built
batch, which touches nothing shared but the results it sends; the batch is the
sequence of the slots its rows are for, which is what `i_batch` is about.
`DecodeChunk`, `RetrySmaller` and `DecodeFails` are the outcomes of
`llama_decode`; `SendEmbedding` and `ProcessToken` are one round each of the
sampling loop.  How a slot's generation ends (stop strings, limits, end of
text) is a free choice, forced after `MaxTokens` rounds.

A streaming thread gets to `on_complete`, which cancels its task, in two ways:
by a result it has read (`NextResult`), or because its peer is gone before
`httplib.h` calls the content provider at all (`PeerGone`: lines 3866 to 3870,
and `~Response` at 538 runs `on_complete` all the same).  The cancel task may then
be behind a completion task that is still queued, or find the slot at
`LOAD_PROMPT`.  `PeerGone` may also happen after a partial result; in the code such
a thread reads the next result first and then fails to write it, so the model has
every order that the code has, and some more.

`ServerContext` has one slot and the tokens: `kv` is the sequence of cells
(position and token) of the slot's sequence, `cache_tokens`, `n_past` and
`n_keep` are the slot's.  The ghost `text` is what the model is to have been
given: a prompt sets it, a sampled token that is decoded is appended, a context
shift drops what is discarded.  A prompt may be the empty array, which is a
prompt to `has_prompt` (`server.cpp:1549`) but has no token: `LoadPrompt` then has the row
at the position before the first, whose token is whatever `prefix_tokens[-1]` is,
and `ReadBeforePrompt` is the other outcome of that undefined read, the end of the
process.  The ghost `stray` says that such a row is in the cache: `seq_rm` does not
find it, only clearing the cache or a new system prompt removes it.  The empty
*string* is answered without being loaded and belongs to `ServerTasks` (`rows = 0`).
`multibyte_pending`, a number of bytes in the code, is a Boolean here: what would
tell the difference needs partial characters, which the properties exclude
(`parts`).  A system prompt has at least one token (`SysLen`); setting the empty
string as one is left out (it is a lone BOS, or no token, with which `llama_decode` fails and
`update_system_prompt` is tried again in every idle round).

## 3. What the runs check

| run | instance | shows |
|---|---|---|
| `combo_pool` | 3 workers, 4 jobs in 2 graphs, with 1, 3, 2 and 1 tasks, one dependency | `OneLeader`, `PhasesApart`, `PartsOnce`, `Quiescent`; `CallsReturn`; the pool implements `JobService` (`ServiceSpec`, with liveness) |
| `combo_graph` | both halves of a layer (25 and 8 nodes), all plans | `OrderedReads` (K and V go through the cache with no `src` edge, yet no kernel reads too early), `FeedForwardReuse`, `CountersSound` (`ReadyIsComputed`, `RecordSound` and types), `Returns`, `PoolsAreServices` |
| `combo_graph_reuse` | attention half | **violation** of `OrderedReuse` |
| `combo_plan` | every planner, limit 30, 32 rounds, 4 times | `BestIsBest`, `GradientDefined`, `PlanExists`, `SplitFeedsBoth`, `Settled`, `SplitIsFinal` |
| `kv_cache` | 4 cells, 2 sequences, batches of 1 and 2 | `CellsSound` (`UsedCounted` and types), `RotationCurrent`, `SlotFound`, `AttendsToAll`, `DecodeKeepsTokens` |
| `kv_cache_session` | the same with save and load | **violation** of `RotationCurrent` |
| `graph_compute` | 3 threads, 4 nodes with 3, 1, 2 and 3 tasks, abort at any moment | `PhasesApart`, `InOrder`, `JoinedIsComplete`, `Returns` |
| `graph_compute_abort` | the same | **violation** of `SuccessIsComplete` |
| `graph_alloc` | all graphs of up to 5 tensors of 2 sizes; `build_llama` for the shapes of 7B and 70B with one layer and a tiny model with two, batches of 1 to 512 tokens | `SrcsIntact`, `Fits`, `MemorySound` (`BlocksSound`, `Conserved`, `NothingLost` and types), `AsInLayerGraphs` |
| `server_tasks` | 2 slots, 3 requests, chunks of 2 rows | `NoOrphanWork`, `IdleFlagSound`, `RowsInOrder`, `OwnLogits`, `AnsweredOnce`, `Answered` |
| `server_context` | a context of 6 cells, prompts of 0, 1, 2 and 7 tokens, a system prompt of 2 | `ContextInCache`, `PromptCacheTrue`, `RoomInTime` (`DecodeFits`, `ShiftMakesRoom` and types), `PromptFits` |
| `server_context_cached` | the same | **violation** of `CachedPromptAsFresh` |

The types (`TypeOK`) and inductive invariants (`IInv`) of the modules with proofs
hold by theorem and are left out of the runs (add them to the `.cfg` before a
change to a proof; in `GraphAllocProofs` with the addresses up to the end of the
buffer for `Nat`), or the types are a conjunct of a checked invariant.  Of the
properties in this table all but those listed at the end of section 4 are
proved as well; there the instance finds mistakes early, and the theorem says
that its bounds did not matter.

### Bounds, and why they are enough

* Pool: with 3 workers there is a leader, a worker that parks early and one that
  parks late; two is not enough to tell "signal" from "broadcast".  4 jobs make
  every succession of single- and multi-task jobs, a graph boundary at which
  the caller can delete the pool, and a dependency across threads.  The safety
  properties are proved for all values, so the instance serves the liveness properties and
  finds mistakes early.
* Graphs: one layer half at a time.  The halves meet in one tensor, which every
  first node of the second half has as a `src`; no memory of the first half but
  the residual is in use later.  `combo_graph` checks reuse of memory on the
  feed-forward half only, since on the attention half it is violated
  (`combo_graph_reuse`).
* Planner: the real round limit; times below, at and above the thresholds (50
  microseconds, 1 microsecond per percent) and far enough apart for a one-sided
  balance.  `MaxRounds` goes two beyond the limit.  With 32 rows a
  share of 12 percent or less for the iGPU is a sliver.  `Word` is 65536, no
  product wraps; the theorem covers those that do.
* KV cache: the search wraps around, fails, and succeeds at every head; a slot
  of two cells can be blocked at either cell; positions 0 and 1 with shifts by
  one in both directions make pending shifts that cancel, pile up and free
  cells.  `SmallDeltas` keeps shifts that pile up within one position.
  `MinAttend` is 1 where the code has 32, the weakest value for `AttendsToAll`.
  Symmetry over the two sequences is sound (nothing compares them), and the
  view drops `delta` and `rot` of free cells, which the next decode overwrites.
* Graph compute: nodes with one task, some and all; a single-task node after
  another node; three threads, so that while one is late to leave the barrier of
  a node the two others can be apart in the next.  The proofs cover all other
  values.

* Allocator: five tensors suffice for an op in place on a view of a view, with
  another reader, and a new tensor behind it; two sizes, one of them no multiple
  of the alignment.  Layers after the first are alike, and the tiny model has
  two; the margin is exercised by a base address that is not aligned.
  `MaxFreeBlocks` is 4 where the code has 256, and never reached.  `SrcsIntact` and
  `MemorySound` are proved for graphs of any size.  With more
  inputs or larger graphs the measured size need not be enough in general (best
  fit is not monotonic): `Fits` for different batches is a statement about
  `build_llama`.
* Server: two slots are enough for a task that comes when one or all are busy,
  for one slot's chunk to be sampled while the other's fails, and for a system
  prompt that releases the other slot; chunks of 2 rows, halved to 1, cut
  batches of up to 3 rows in the middle of a prompt.  Three requests: each slot's
  reuse, and one that is refused, wants an embedding, is empty or sets the system
  prompt.  The streaming ones may be cancelled before the first result, between
  results, or after the last.
* Context: six cells are the least in which a prompt is truncated while
  nothing is kept of it, or as much as can be (`n_ctx - 4`, which `n_keep = -1` comes to
  for a long prompt); generation goes on through any number of shifts, and empty
  prompts come between any two others.

### Fairness

Liveness is checked for both runtimes' threads and for the dispatcher.  In
`ComboPool`, weak fairness of each worker's steps and of the caller's steps inside a call states that the
operating system runs every thread that can run; a polling thread is not
helped by it beyond that.  Whether another graph is computed or the pool is
deleted is the program's choice and has no fairness.  In `ComboGraph`, weak
fairness of each pool is that of `JobService`, which `ServiceSpec` establishes for
`ComboPool`.
In `GraphCompute`, weak fairness of each thread is the same assumption about
the operating system (the spin loop has no other help), and an abort need never
come.  In `ServerTasks`, weak fairness of the main loop and of each HTTP thread's
polling is once more the operating system's; requests and cancellations need
never come.  That a slot's generation ends is the bound `MaxTokens`: the code's
limits are the context, `n_predict` and the client, which may all be absent, and
`Answered` is about what else could keep a request from being answered.

### Findings

1. *Memory is reused in graph order while nodes run out of order*
   (`ggml.c:19648`, `ggml-alloc.h:30`).  On LLaMA attention the copy of K into
   the cache may still read memory that V's multiplication on the iGPU writes.
2. *A saved state lacks K and V when `head` has moved back, and pending shifts*
   (`llama.cpp:8684`): for instance after `seq_cp`, or when the last batch
   filled the cache to the last cell.
3. *An aborted computation may report success* (`ggml.c:15906`): each thread
   that aborts raises `node_n`, and thread 0 may see a value past the last node.
4. *A prompt that is cached as a whole decodes its last token twice*
   (`server.cpp:1659`): the cell it had is not removed, so the request does not
   continue as it would without `cache_prompt`.

Other observations, which no run is about:

* `pthread_cond_wait` is called without a loop (`ggml.c:19566`).  If a wakeup
  comes that nobody signalled, as POSIX permits, a worker counts itself twice
  and there are two leaders.  `ComboPool` and its theorems assume there is none.
* When both parts of a split node finish together both leaders load
  `n_wait = 2` and neither records the measurement (`ggml.c:19487`).
* `history.current` is the latest other record, not the second best
  (`ggml.c:19501`, `ggml.h:2031`).
* `update_slots` returns after the first embedding (`server.cpp:1747`), and the
  slots behind keep an `i_batch` of a batch that is gone: with four requests, one
  of them for an embedding, a slot is sampled from another slot's row, or answers
  after its final result.  `OwnLogits` and `AnsweredOnce` are therefore stated for
  requests that ask for none.
* An op that works in place on a view of the first part of a tensor may later
  free only that part; `Conserved` is stated for the other graphs.  `build_llama`
  has no such op.
* A request whose slot is released by another one's new system prompt, and every
  request when `llama_decode` fails for one row, is never answered (`Answered`
  excludes both); the request that sets the system prompt runs without it.
* A context shift does not count the system prompt (`server.cpp:1491`), and a new
  system prompt leaves `cache_tokens` as it was; parts of characters are not in
  `cache_tokens`.  The properties of `ServerContext` name these cases where they
  leave them out; the actions have them.
* The prompt `[]` (and `[""]` once there is a system prompt, when no BOS is added) is
  launched with no tokens, although "empty prompt passed -> release the slot and send
  empty response" (`server.cpp:1551`) is what happens to the empty string.  `n_past`
  becomes -1 (`server.cpp:1659`), `prefix_tokens[-1]` is read (`server.cpp:1674`), and if
  the process survives that, a token which is none of the prompt is decoded at the
  position before the first.  Its cell stays: at position -1 it counts as free but
  the attention sees it, and next to a system prompt it is one cell less for good.
  `ContextInCache` names the case (`stray`); `PromptFits`, `PromptCacheTrue` and
  `RoomInTime` hold in it, too.

## 4. What is proved

`ComboPoolProofs` proves, for every `N`, `NJobs`, `NTasks`, `Deps` and
`GraphEnds` that satisfy the assumptions of `ComboPool`: type correctness,
`OneLeader`, `PhasesApart`, `PartsOnce`, `Quiescent`, and that every step maps
to a step of `JobService` or a stutter.

None of these is inductive.  The argument: `n_wait` counts the workers that are
parked, except while a leader is active, when its value is fixed by the
leader's place (`CountInv`: `N - 1` from `Claim` on, `N` while idle, `0` after
`Release`, and stale in between).  There is a leader exactly when all other
workers are parked or gone (`LeaderInv`).  Hence a worker that reads `N - 1`
under the mutex is the last, and no other can be at the test.  `QueueInv` says
that the jobs are, in order, those completed, the running one and the queue;
`PendingInv` and `DoneInv` tie counters and computed parts to the leader's
place; `CallerInv` says what the caller may conclude from `n_wait = N` under
the mutex: the idle leader has drained the queue, and only the caller adds
jobs.  The conjunction with the type invariant and the invariant of the mutex
is `IInv`.  The proof has one lemma per
conjunct of `IInv` and in it one step per action, or per group of actions that
the conjunct does not tell apart; cardinality arguments about the parked
workers use `FiniteSetTheorems`.

`ComboProofs` proves, for every set of graphs that meets the assumptions
(a `src` comes before what reads it, `ReadersWait`, `WritersWait`) and every set
of plans: `CountersSound`, `OrderedReads`, `FeedForwardReuse` and
`PoolsAreServices`.  The two properties about memory say nothing of the
counters, and none of the four is inductive.  `IInv` says how the counters come to be right:
a part that was submitted is in the queue, running or completed, and parts of
one pool go through these in the order of the nodes (`PlaceInv`); `n_wait`
counts the parts that are planned and not completed (`CountInv`), hence is 0
only when both pools are done; the history is updated between the load and the
decrement of the leader that completes the last part (`RecordInv`); and what
was submitted had ready `src` (`SrcsInv`).  From there to memory: when a node
runs, its `src` are complete, since they were before it was queued, and if it
is no multiplication, so are all such nodes before it, since the queue of the CPU pool
is in order (`AheadComplete`).  By induction over the iterates, all of
`Awaited` is complete (`AwaitedComplete`), and the assumptions say that readers,
and in the feed-forward half writers, await what they must.

`ComboProofs` also proves, for every planner, limit, number of rows and set of
measured times: type correctness (`PlanTypeOK`), `BestIsBest`, `GradientDefined`,
`ColdStartSplits`, `SplitFeedsBoth`, `Settled`, `PlanExists` and
`SplitIsFinal`.  The inductive invariant
adds to them that a best record on a whole device is also that device's record,
that `current` has another fraction than `bst` as soon as it is measured and is
measured as soon as both devices are, that no fraction in use is one that the
division would give up, and that a node planned after the last round runs as
`bst` did.  `PlanExists` needs that every quotient has a percentage next to
it.  `SplitIsFinal` has an invariant of its own: the planner that balances splits only what
both devices have computed alone, and a split refreshes neither of the two times
it looks at, so it comes to the same fraction again.  `TimesAssumption` (a measured
time is at least one microsecond) is needed: 0 means "never measured" in the
code.  A second assumption is built into the model: one node of each kind is
in flight at a time, which holds for LLaMA graphs, where a consumer of each
multiplication waits for it before the next of the same kind is planned.

`GraphComputeProofs` proves, for every number of threads, nodes and tasks: type
correctness, `PhasesApart`, `InOrder` and `JoinedIsComplete`.  Its inductive
invariant says, until somebody aborts, that `n_active` counts the threads that
are not parked at the current node, or that there is a last thread and all
others are parked (`CountInv`); where each thread's own `node_n` is relative to
the shared one (`CurInv`: a spinning thread whose number is lower has already
been released); and which parts of which nodes are computed (`DoneInv`).

`KVCacheProofs` proves, for every number of cells and sequences, size of batch
and bound on positions: `CellsSound`, `RotationCurrent`, `SlotFound`,
`AttendsToAll` and `DecodeKeepsTokens`, for `Spec` (in `SessionSpec`
`RotationCurrent` is violated, finding 2).  The search for a slot is a recursive
function of `head` and the number of cells tested; `SearchExists` shows that its
recursion ends (each visit tests more cells, or goes back to cell 0), and
`SearchSound` that it gives up only when no slot exists: it would have tested
every window from 0 on.  `IInv` adds to types and `UsedCounted` that a used cell's
position is the one its K is rotated for plus the pending delta, and that a
delta that is not zero is announced by `has_shift`, also in free cells, where
the next decode may store a token (`ShiftsPending`).  The proof has one lemma
per function of the cache; those that count cells share lemmas about `used`
and the first freed cell.

`ServerTasksProofs` proves, for every number of slots, requests, rows and
kinds of requests: `NoOrphanWork`, `IdleFlagSound`, `RowsInOrder`, `OwnLogits`
and `AnsweredOnce`.  None is inductive.
`IInv` adds that a completion task in the queue is the only trace of its request
(`QueueInv`: it has no result, no slot and no second task), that its client is
waiting or has cancelled it, in which case the cancel task is behind it in the
queue or about to be put there (`CancelInv`: the cancellation of a task whose peer
was gone early does not overtake the task, so it finds the slot), that no two slots have had the same task last and only a slot that has had one works or has
a row (`OwnerInv`: so the first slot that a cancel task finds is the only one,
and a slot that is sampled has a task to answer), and that the first result for
a request that does not stream ends it (`ResultInv`: so its thread does not
leave while the slot works).  The proof has one lemma per action; the steps of
`process_tasks` share lemmas about the tail of the queue, and the two ways to
answer share `ResultStep`.  A second invariant, proved on top of the first, is
about the rows of a batch (`RowInv`): while nobody asks for an embedding, an
`i_batch` is a row of the present batch, the row is the slot's own, the slot
works, and the sampling loop has left no slot behind (`OwnRows`).  A slot whose
task was answered is idle or about to be released, so it has no row and gets no
further result, which is `AnsweredOnce`.

`ServerContextProofs` proves, for every context of 5 cells or more, whatever the
prompts (empty ones among them), `n_keep` and the order of the slot's requests, and for
system prompts that have a token and are shorter than the context: `ContextInCache`, `PromptCacheTrue`, `RoomInTime` and
`PromptFits`.  `IInv` relates, at each place of the main loop, four lengths that
the code keeps apart (`cache_tokens`, `n_past`, the text, the cells), up to
the token that is sampled but not yet decoded (`LengthInv`, `TextInv`), and
says cell by cell what is in the cache: the system prompt, then the text
(`SystemInv`, `CacheInv`).  The row of an empty prompt gets a cell only if there is a
system prompt (`RowsInv`, `Spoilt`); without one `RoomInTime` counts it as the code does.
The two loops over the context, `CellsAt` (which
cells `seq_rm` leaves) and the shift of `cache_tokens`, are recursive functions;
lemmas about them by induction over the number of rounds say what is kept, in
which order, and where.

`GraphAllocProofs` proves `MemorySound` and `SrcsIntact` for every graph, alignment,
base address and table size, whatever mixture of ops, ops in place and views the
graph has.  For the graphs that `AddLeaf`, `AddOp` and `AddView` build (one input,
any length) nothing is assumed; those of `Models`, which have several inputs and
tensors in other buffers, must be `WellFormed`.
Neither property is inductive: `BlocksSound` does not say why what `free_node`
returns is in use, nor `SrcsIntact` why the memory of a tensor that is yet to be
read is not given to somebody else.  `IInv` says so, between two rounds:

* `DataSound`: where each allocated tensor is, inside the memory of its owner; a
  view at its offset, an op in place at the beginning of it.
* `LiveSound`: each address of the buffer is free, or in one live tensor.  The
  lemmas about the table of blocks speak of addresses: `ggml_tallocr_alloc` takes a
  range of them out of the table (`TakenFacts`), `ggml_tallocr_free_tensor` puts one
  in and keeps the blocks in order and apart (`ReturnedFacts`), whether it joins them
  or not.  `Conserved` is stated without addresses, and follows.
* `CountSound`: `n_children` is the number of reads by nodes that are still to come,
  `n_views` that of the views and ops in place that are not counted off.
* `KeepSound`: a tensor may still be needed if it has readers to come, if nothing
  reads it, or if a view of it is not counted off (`Keeps`).  The memory of such a
  tensor is live, live memory has such a tensor, and of the tensors that share memory
  only the last is one.
* `Intact`: the memory of a tensor that may still be needed is apart from all that
  was computed since it was written.

In the middle of a round this is not true: after `allocate_node` put a node in place
of a parent, two tensors that share memory have readers, until the parent is counted
off.  `Keeps` and `KeepSound` therefore have that parent as a parameter, and `Reusing`
says that the node is its last reader.  The heart of the proof is
that an update of a parent returns its memory exactly if nothing needs it any more
(`OtherOutcome`), and that a parent in whose memory a node may work is needed by
nobody else (`ReusableFacts`).  Whether an assertion of the allocator
fails, so that llama.cpp aborts, is not part of `IInv`; that is `Fits`.  A variant of
`IInv` with blocks in place of addresses was checked by TLC on the instance of
`graph_alloc` before the proof.

`InductionLemmas` has what these proofs use for recursive functions and for
induction.  The library's induction theorems take a predicate as a parameter,
which the provers cannot instantiate; here the predicate is the *set* of the
numbers that satisfy it.  `NatSetInduction` and the existence of least and
greatest elements follow from `WFMin`, and `Iteration` says that a function
whose values are each computed from the one before exists.

Two definitions were wrong or unfit before their proofs were tried: in
`SubmitPart` the guards of a `CASE` overlapped, so that its value was
unspecified while a second part was to be submitted; and the planner that balances could answer
differently to the same record.  TLC had noticed neither.  `Conserved` of
`GraphAlloc` compared sums of sizes, which says less than that the pieces lie end to
end, as it does now.

What stays with TLC:

* liveness (`CallsReturn`, `Returns`, `Answered`) and the fairness in
  `ServiceSpec`: the provers reason neither about fairness nor about `ENABLED`
  beyond propositional steps.  `PoolImplementsService` proves the safety part;
* `Fits` and `AsInLayerGraphs` of `GraphAlloc`: they are about the graph of
  `build_llama`, a sequence built by folds, with concrete shapes, and are not true of
  every graph.  `ModelGraphsAssumption`, on which the theorems about `GraphAlloc`
  rest where the graph is a model's, is evaluated by TLC for the same reason;
* `ReadersWait` and `WritersWait` of the graphs of `build_llama`, which TLC
  evaluates for the two halves of a layer;
* the violations, which are single behaviours.

## 5. Plan, and what is not modelled

Every component of the combo runtime and of the server is modelled, checked and
proved as far as the list above goes.  What could come next, in this order:

1. `ComboQueue`: the linked list of jobs with `head` and `tail` as an
   implementation of the sequence in `ComboPool`.
2. The split of a graph by `ggml_backend_sched`, grammars, and beam search.

Not modelled, and why:

* numerical kernels (`ggml_compute_forward_*`, the largest part of `ggml.c`),
  quantization (`ggml-quants.c`), OpenCL kernels and transfers, sampling,
  training: computation on floats and bytes without control that a model checker
  could explore;
* `json.hpp`, `httplib.h`, `stb_image.h`, the generated `*.hpp` of the server's
  pages: third-party or generated;
* model files, argument parsing, console output: formats and I/O;
* of the server: images, infill, stop strings, the OpenAI conversion and HTTP;
* `ggml-backend.c`: the combo path does not use it;
* other architectures than LLaMA in `llama.cpp`: variants of `build_llama`.

Kernels, tables and vendored headers are more than half of the lines of the
repository, so the modelled lines stay a small share of it.
