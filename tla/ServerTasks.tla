------------------------------ MODULE ServerTasks ------------------------------
(***************************************************************************)
(* The HTTP server of examples/server/server.cpp between the requests and  *)
(* the decoder.  Each request has an HTTP thread, which puts a completion  *)
(* task into queue_tasks and then polls queue_results for the results with *)
(* its task's id; a thread that streams, whatever the outcome, and even if *)
(* its peer is gone before the first result, ends with a cancel task.  One *)
(* thread, the main loop, calls update_slots forever:                      *)
(* it takes the tasks, under mutex_tasks, and gives them to slots, puts    *)
(* one row for each generating slot and the prompts of the new ones into a *)
(* batch, decodes the batch in chunks, and samples one token for each slot *)
(* from the row that slot.i_batch names.                                   *)
(*                                                                         *)
(* A result is "partial", "final" or "error".  next_result takes the first *)
(* result with the right id, so queue_results is one sequence per task.    *)
(* What the slots' tokens are, and where they lie in the KV cache, is left *)
(* to ServerContext.                                                       *)
(***************************************************************************)
EXTENDS Integers, FiniteSets, SequencesExt

CONSTANTS
    NSlots,        \* params.n_parallel
    NBatch,        \* params.n_batch, in rows
    Kinds,         \* Kinds[t]: what the t-th request can be
    MaxRequests,   \* bound: requests
    MaxTokens      \* bound: rounds in which one task generates

Slots == 1 .. NSlots
Tasks == 1 .. MaxRequests
NoTask == 0        \* task_id = -1
NoRow == 0         \* i_batch = -1; rows are counted from 1

(* What of a request matters here: whether it streams, which slot it asks  *)
(* for (0 is -1), whether it asks for an embedding and whether it changes  *)
(* the system prompt, and the rows of its prompt: 0 if the prompt is the   *)
(* empty string and -1 if launch_slot_with_data will refuse it.            *)
KindType == [stream : BOOLEAN, slot_id : 0 .. NSlots, embedding : BOOLEAN,
             system : BOOLEAN, rows : Int]

ASSUME SlotsAssumption == NSlots \in Nat \ {0} /\ NBatch \in Nat \ {0}
ASSUME KindsAssumption == \A t \in Tasks : Kinds[t] \subseteq KindType
ASSUME BoundsAssumption == MaxRequests \in Nat /\ MaxTokens \in Nat

VARIABLES
    \* HTTP threads
    client,         \* client[t]: where the thread that requested task t is
    data,           \* data[t]: the request; their number is id_gen
    \* shared
    queue_tasks,    \* guarded by mutex_tasks
    queue_results,  \* queue_results[t]: the results with id t, guarded by mutex_results
    \* slots
    state, command, task_id, i_batch, n_decoded,
    t_last_used,    \* the slots, the one with the smallest t_last_used first
    \* main loop
    cont_batching,  \* params.cont_batching
    pc, all_slots_are_idle, system_need_update, batch, n_batch, first, next_slot,
    \* ghosts
    evaluated,      \* the rows of the batch that have been decoded
    ended,          \* tasks for which a final result or an error has been sent
    dropped         \* tasks whose slot a new system prompt has released

http == <<client, data>>
queues == <<queue_tasks, queue_results>>
slots == <<state, command, task_id, i_batch, n_decoded, t_last_used>>
round == <<batch, n_batch, first, next_slot, evaluated>>
flags == <<cont_batching, all_slots_are_idle, system_need_update>>
vars == <<http, queues, slots, pc, flags, round, ended, dropped>>

Init ==
    /\ client = [t \in Tasks |-> "none"]
    /\ data = <<>>
    /\ queue_tasks = <<>>
    /\ queue_results = [t \in Tasks |-> <<>>]
    /\ state = [s \in Slots |-> "IDLE"]
    /\ command = [s \in Slots |-> "NONE"]
    /\ task_id = [s \in Slots |-> NoTask]
    /\ i_batch = [s \in Slots |-> NoRow]
    /\ n_decoded = [s \in Slots |-> 0]
    /\ t_last_used = [i \in Slots |-> i]
    /\ cont_batching \in BOOLEAN
    /\ pc = "lock"
    /\ all_slots_are_idle = TRUE
    /\ system_need_update = FALSE
    /\ batch = <<>> /\ n_batch = NBatch /\ first = 1 /\ next_slot = 1
    /\ evaluated = {}
    /\ ended = {}
    /\ dropped = {}

-------------------------------------------------------------------------------
(* HTTP threads. *)

MutexTasksFree == pc # "tasks"
Send(t, r) == queue_results' = [queue_results EXCEPT ![t] = Append(@, r)]

(* The ids of cancel tasks, which nobody reads, are left out. *)
RequestCompletion ==
    /\ MutexTasksFree
    /\ Len(data) < MaxRequests
    /\ LET t == Len(data) + 1 IN
       /\ \E kind \in Kinds[t] : data' = Append(data, kind)
       /\ client' = [client EXCEPT ![t] = "waiting"]
       /\ queue_tasks' = Append(queue_tasks, [type |-> "completion", id |-> t])
    /\ UNCHANGED <<queue_results, slots, pc, flags, round, ended, dropped>>

(* A thread that does not stream sends what it gets and is done.  One that *)
(* streams goes on until a result stops it or the peer is gone.            *)
NextResult(t) ==
    /\ client[t] = "waiting"
    /\ queue_results[t] # <<>>
    /\ queue_results' = [queue_results EXCEPT ![t] = Tail(@)]
    /\ \/ /\ ~data[t].stream
          /\ client' = [client EXCEPT ![t] = "done"]
       \/ /\ data[t].stream /\ Head(queue_results[t]) = "partial"
          /\ UNCHANGED client
       \/ /\ data[t].stream
          /\ client' = [client EXCEPT ![t] = "on_complete"]
    /\ UNCHANGED <<data, queue_tasks, slots, pc, flags, round, ended, dropped>>

(* The peer of a thread that streams is gone before the content provider   *)
(* is called: on_complete is next, whatever is still queued for the task.  *)
(* A thread in the content provider notices that only when it writes the   *)
(* next result, but may leave here before it has read that one.            *)
PeerGone(t) ==
    /\ client[t] = "waiting" /\ data[t].stream
    /\ client' = [client EXCEPT ![t] = "on_complete"]
    /\ UNCHANGED <<data, queues, slots, pc, flags, round, ended, dropped>>

(* Fault: a cancel task does not wait for those before it. *)
RequestCancelFirst(t) ==
    /\ client[t] = "on_complete"
    /\ MutexTasksFree
    /\ client' = [client EXCEPT ![t] = "done"]
    /\ queue_tasks' = <<[type |-> "cancel", id |-> t]>> \o queue_tasks
    /\ UNCHANGED <<data, queue_results, slots, pc, flags, round, ended, dropped>>

(* on_complete of the streaming handlers, whether they succeeded or not; it *)
(* runs when the Response goes, wherever the completion task is by then.    *)
RequestCancel(t) ==
    /\ client[t] = "on_complete"
    /\ MutexTasksFree
    /\ client' = [client EXCEPT ![t] = "done"]
    /\ queue_tasks' = Append(queue_tasks, [type |-> "cancel", id |-> t])
    /\ UNCHANGED <<data, queue_results, slots, pc, flags, round, ended, dropped>>

-------------------------------------------------------------------------------
(* process_tasks. *)

Available(s) == state[s] = "IDLE" /\ command[s] = "NONE"
Processing(s) == (state[s] = "IDLE" /\ command[s] = "LOAD_PROMPT") \/ state[s] = "PROCESSING"

(* The slot that is asked for if it is available, otherwise the available  *)
(* slot that was used least recently, if there is one.                     *)
GetSlot(id) ==
    LET earlier(x, s) == \E i, j \in Slots : i < j /\ t_last_used[i] = x /\ t_last_used[j] = s
    IN  IF id \in Slots /\ Available(id) THEN {id}
        ELSE {s \in Slots : Available(s) /\ \A x \in Slots : Available(x) => ~earlier(x, s)}

LockTasks ==
    /\ pc = "lock"
    /\ pc' = "tasks"
    /\ UNCHANGED <<http, queues, slots, flags, round, ended, dropped>>

NoMoreTasks ==
    /\ pc = "tasks" /\ queue_tasks = <<>>
    /\ pc' = "schedule"
    /\ UNCHANGED <<http, queues, slots, flags, round, ended, dropped>>

TaskIs(type) == pc = "tasks" /\ queue_tasks # <<>> /\ Head(queue_tasks).type = type

(* Fault: the task is dropped silently. *)
RefuseSilently ==
    /\ TaskIs("completion")
    /\ GetSlot(data[Head(queue_tasks).id].slot_id) = {}
    /\ queue_tasks' = Tail(queue_tasks)
    /\ pc' = "schedule"
    /\ UNCHANGED <<http, queue_results, slots, flags, round, ended, dropped>>

(* An error for this task; those behind it wait for the next round. *)
Refuse ==
    /\ TaskIs("completion")
    /\ LET t == Head(queue_tasks).id IN
       /\ GetSlot(data[t].slot_id) = {}
       /\ Send(t, "error")
       /\ ended' = ended \cup {t}
    /\ queue_tasks' = Tail(queue_tasks)
    /\ pc' = "schedule"
    /\ UNCHANGED <<http, slots, flags, round, dropped>>

(* notify_system_prompt_changed. *)
ReleaseAll == [s \in Slots |-> "RELEASE"]

(* Fault: launch_slot_with_data leaves the flag as it is. *)
LaunchUnflagged ==
    /\ TaskIs("completion")
    /\ LET t == Head(queue_tasks).id IN
       /\ ~data[t].system /\ data[t].rows >= 0
       /\ \E s \in GetSlot(data[t].slot_id) :
             /\ task_id' = [task_id EXCEPT ![s] = t]
             /\ command' = [command EXCEPT ![s] = "LOAD_PROMPT"]
    /\ queue_tasks' = Tail(queue_tasks)
    /\ UNCHANGED <<http, queue_results, state, i_batch, n_decoded, t_last_used, pc, flags, round,
                   ended, dropped>>

(* launch_slot_with_data, after what the request says of the system prompt; *)
(* a prompt it cannot use is an error.                                      *)
Launch ==
    /\ TaskIs("completion")
    /\ LET t == Head(queue_tasks).id
           released == IF data[t].system THEN ReleaseAll ELSE command
       IN  \E s \in GetSlot(data[t].slot_id) :
             /\ task_id' = [task_id EXCEPT ![s] = t]
             /\ dropped' = IF ~data[t].system THEN dropped
                           ELSE dropped \cup {task_id[x] : x \in {y \in Slots :
                                                Processing(y) /\ command[y] # "RELEASE"}}
             /\ system_need_update' = (system_need_update \/ data[t].system)
             /\ IF data[t].rows >= 0
                THEN /\ command' = [released EXCEPT ![s] = "LOAD_PROMPT"]
                     /\ all_slots_are_idle' = FALSE
                     /\ UNCHANGED <<queue_results, ended>>
                ELSE /\ command' = released
                     /\ Send(t, "error")
                     /\ ended' = ended \cup {t}
                     /\ UNCHANGED all_slots_are_idle
    /\ queue_tasks' = Tail(queue_tasks)
    /\ UNCHANGED <<http, state, i_batch, n_decoded, cont_batching, t_last_used, pc, round>>

(* The first slot with the task's id is released, even one that is idle. *)
CancelTask ==
    /\ TaskIs("cancel")
    /\ LET owner(s) == task_id[s] = Head(queue_tasks).id IN
       command' = [s \in Slots |-> IF owner(s) /\ \A x \in Slots : owner(x) => s <= x
                                   THEN "RELEASE" ELSE command[s]]
    /\ queue_tasks' = Tail(queue_tasks)
    /\ UNCHANGED <<http, queue_results, state, task_id, i_batch, n_decoded, t_last_used, pc, flags,
                   round, ended, dropped>>

-------------------------------------------------------------------------------
(* update_slots, from the system prompt to the batch. *)

(* llama_decode of the system prompt may fail, then it is tried again. *)
UpdateSystemPrompt ==
    IF system_need_update /\ all_slots_are_idle
    THEN system_need_update' \in BOOLEAN
    ELSE UNCHANGED system_need_update

Generating == {s \in Slots : state[s] = "PROCESSING" /\ command[s] # "RELEASE"}
MayLoad == cont_batching \/ Generating = {}
Waiting == {s \in Slots : state[s] = "IDLE" /\ command[s] = "LOAD_PROMPT" /\ MayLoad}
Loading == {s \in Waiting : data[task_id[s]].rows > 0}

(* Every slot's rows, by slot. *)
BySlot(rows) ==
    LET upto[s \in 0 .. NSlots] == IF s = 0 THEN <<>> ELSE upto[s - 1] \o rows[s]
    IN  upto[NSlots]

(* One row for each generating slot, then the prompts, by slot. *)
NewBatch ==
    LET prompt(s) == [r \in 1 .. data[task_id[s]].rows |-> s]
    IN  BySlot([s \in Slots |-> IF s \in Generating THEN <<s>> ELSE <<>>])
            \o BySlot([s \in Slots |-> IF s \in Loading THEN prompt(s) ELSE <<>>])

LastRow(b, s) == Max({r \in DOMAIN b : b[r] = s})

Schedule ==
    /\ pc = "schedule"
    /\ UpdateSystemPrompt
    /\ state' = [s \in Slots |-> IF command[s] = "RELEASE" THEN "IDLE"
                                 ELSE IF s \in Loading THEN "PROCESSING" ELSE state[s]]
    /\ command' = [s \in Slots |-> IF command[s] = "RELEASE" \/ s \in Loading THEN "NONE"
                                   ELSE IF s \in Waiting THEN "RELEASE" ELSE command[s]]
    /\ t_last_used' = SelectSeq(t_last_used, LAMBDA s : command[s] # "RELEASE")
                        \o SelectSeq([s \in Slots |-> s], LAMBDA s : command[s] = "RELEASE")
    /\ n_decoded' = [s \in Slots |-> IF s \in Generating THEN n_decoded[s] + 1
                                     ELSE IF s \in Loading THEN 0 ELSE n_decoded[s]]
    /\ batch' = NewBatch
    /\ i_batch' = [s \in Slots |-> IF s \in Generating \cup Loading THEN LastRow(NewBatch, s)
                                   ELSE i_batch[s]]
    /\ LET empty == {task_id[s] : s \in Waiting \ Loading} IN
       /\ queue_results' = [t \in Tasks |-> IF t \in empty THEN Append(queue_results[t], "final")
                                            ELSE queue_results[t]]
       /\ ended' = ended \cup empty
    /\ IF Generating \cup Loading = {}   \* batch.n_tokens == 0
       THEN all_slots_are_idle' = TRUE /\ pc' = "lock"
       ELSE UNCHANGED all_slots_are_idle /\ pc' = "decode"
    /\ n_batch' = NBatch /\ first' = 1 /\ next_slot' = 1 /\ evaluated' = {}
    /\ UNCHANGED <<http, queue_tasks, task_id, cont_batching, dropped>>

-------------------------------------------------------------------------------
(* update_slots, the batch in chunks. *)

LastOf(row) == Min({row + n_batch - 1, Len(batch)})
Chunk == first .. LastOf(first)

DecodeChunk ==
    /\ pc = "decode"
    /\ evaluated' = evaluated \cup Chunk
    /\ next_slot' = 1
    /\ pc' = "sample"
    /\ UNCHANGED <<http, queues, slots, flags, batch, n_batch, first, ended, dropped>>

(* Fault: the loop goes on behind the rows that did not fit. *)
RetryBehind ==
    /\ pc = "decode" /\ n_batch > 1
    /\ n_batch' = n_batch \div 2
    /\ first' = first + n_batch
    /\ pc' = IF first + n_batch > Len(batch) THEN "lock" ELSE "decode"
    /\ UNCHANGED <<http, queues, slots, flags, batch, next_slot, evaluated, ended, dropped>>

(* No free cells for this many rows (i -= n_batch, then the loop's i +=). *)
RetrySmaller ==
    /\ pc = "decode" /\ n_batch > 1
    /\ n_batch' = n_batch \div 2
    /\ UNCHANGED <<http, queues, slots, pc, flags, batch, first, next_slot, evaluated, ended, dropped>>

(* update_slots returns false, which ends the main loop. *)
DecodeFails ==
    /\ pc = "decode"
    /\ pc' = "stopped"
    /\ UNCHANGED <<http, queues, slots, flags, round, ended, dropped>>

(* The slots of this chunk that the sampling loop has not come to. *)
ToSample == {s \in Slots : s >= next_slot /\ first <= i_batch[s] /\ i_batch[s] <= LastOf(first)}
IsNext(s) == s \in ToSample /\ \A x \in ToSample : s <= x

NextChunk ==
    /\ pc = "sample" /\ ToSample = {}
    /\ first' = first + n_batch
    /\ pc' = IF first + n_batch > Len(batch) THEN "lock" ELSE "decode"
    /\ UNCHANGED <<http, queues, slots, flags, batch, n_batch, next_slot, evaluated, ended, dropped>>

(* The final result, and the slot is to be released. *)
Finish(s) ==
    /\ queue_results' = [queue_results EXCEPT ![task_id[s]] = Append(@, "final")]
    /\ ended' = ended \cup {task_id[s]}
    /\ command' = [command EXCEPT ![s] = "RELEASE"]

(* The round ends here: the slots behind this one keep their i_batch. *)
SendEmbedding ==
    /\ pc = "sample"
    /\ \E s \in Slots :
         /\ IsNext(s)
         /\ data[task_id[s]].embedding
         /\ Finish(s)
         /\ i_batch' = [i_batch EXCEPT ![s] = NoRow]
    /\ pc' = "lock"
    /\ UNCHANGED <<http, queue_tasks, state, task_id, n_decoded, t_last_used, flags, round, dropped>>

(* process_token.  Tokens that are parts of one character are sent together *)
(* and count as one here.                                                   *)
Partial(t) == IF data[t].stream THEN <<"partial">> ELSE <<>>

(* Fault: the slot's i_batch is not reset. *)
ProcessTokenKeepingRow ==
    /\ pc = "sample"
    /\ \E s \in Slots :
         /\ IsNext(s)
         /\ ~data[task_id[s]].embedding
         /\ \/ /\ n_decoded[s] < MaxTokens
               /\ UNCHANGED <<queue_results, command, ended>>
            \/ Finish(s)
         /\ next_slot' = s + 1
    /\ UNCHANGED <<http, queue_tasks, state, task_id, i_batch, n_decoded, t_last_used, pc, flags,
                   batch, n_batch, first, evaluated, dropped>>

(* Fault: a slot that has sent its final result is not released. *)
ProcessTokenUnreleased ==
    /\ pc = "sample"
    /\ \E s \in Slots :
         /\ IsNext(s)
         /\ ~data[task_id[s]].embedding
         /\ \/ /\ n_decoded[s] < MaxTokens
               /\ UNCHANGED <<queue_results, ended>>
            \/ /\ queue_results' = [queue_results EXCEPT ![task_id[s]] = Append(@, "final")]
               /\ ended' = ended \cup {task_id[s]}
         /\ i_batch' = [i_batch EXCEPT ![s] = NoRow]
         /\ next_slot' = s + 1
    /\ UNCHANGED <<http, queue_tasks, state, command, task_id, n_decoded, t_last_used, pc, flags,
                   batch, n_batch, first, evaluated, dropped>>

ProcessToken ==
    /\ pc = "sample"
    /\ \E s \in Slots :
         /\ IsNext(s)
         /\ ~data[task_id[s]].embedding
         /\ \/ /\ n_decoded[s] < MaxTokens
               /\ queue_results' = [queue_results EXCEPT ![task_id[s]] = @ \o Partial(task_id[s])]
               /\ UNCHANGED <<command, ended>>
            \/ /\ queue_results' = [queue_results EXCEPT ![task_id[s]] = @ \o Partial(task_id[s]) \o <<"final">>]
               /\ ended' = ended \cup {task_id[s]}
               /\ command' = [command EXCEPT ![s] = "RELEASE"]
         /\ i_batch' = [i_batch EXCEPT ![s] = NoRow]
         /\ next_slot' = s + 1
    /\ UNCHANGED <<http, queue_tasks, state, task_id, n_decoded, t_last_used, pc, flags,
                   batch, n_batch, first, evaluated, dropped>>

-------------------------------------------------------------------------------

MainLoop ==
    \/ LockTasks \/ NoMoreTasks \/ Refuse \/ Launch \/ CancelTask
    \/ Schedule \/ DecodeChunk \/ RetrySmaller \/ DecodeFails
    \/ NextChunk \/ SendEmbedding \/ ProcessToken

Next ==
    \/ RequestCompletion
    \/ \E t \in Tasks : NextResult(t) \/ PeerGone(t) \/ RequestCancel(t)
    \/ MainLoop

Fairness == WF_vars(MainLoop) /\ \A t \in Tasks : WF_vars(NextResult(t))

Spec == Init /\ [][Next]_vars /\ Fairness

-------------------------------------------------------------------------------

(* Types; n_batch never falls to 0, where the loop over the batch would    *)
(* stand still.                                                            *)
TypeOK ==
    /\ data \in Seq(KindType) /\ Len(data) <= MaxRequests
    /\ client \in [Tasks -> {"none", "waiting", "on_complete", "done"}]
    /\ queue_tasks \in Seq([type : {"completion", "cancel"}, id : DOMAIN data])
    /\ queue_results \in [Tasks -> Seq({"partial", "final", "error"})]
    /\ state \in [Slots -> {"IDLE", "PROCESSING"}]
    /\ command \in [Slots -> {"NONE", "LOAD_PROMPT", "RELEASE"}]
    /\ task_id \in [Slots -> {NoTask} \cup DOMAIN data]
    /\ i_batch \in [Slots -> Nat]
    /\ n_decoded \in [Slots -> Nat]
    /\ t_last_used \in [Slots -> Slots]
    /\ pc \in {"lock", "tasks", "schedule", "decode", "sample", "stopped"}
    /\ all_slots_are_idle \in BOOLEAN /\ system_need_update \in BOOLEAN
    /\ batch \in Seq(Slots)
    /\ n_batch \in 1 .. NBatch /\ first \in Nat /\ next_slot \in 1 .. NSlots + 1
    /\ evaluated \subseteq Nat /\ ended \subseteq Tasks /\ dropped \subseteq Tasks

Busy(s) == Processing(s) /\ command[s] # "RELEASE"
Queued(type, t) == \E i \in DOMAIN queue_tasks : queue_tasks[i] = [type |-> type, id |-> t]

(* A slot works only for a request that somebody still reads, or whose     *)
(* cancel task (request_cancel) is on its way; no two slots work for the   *)
(* same request, and none for one that is answered or still queued.        *)
NoOrphanWork ==
    \A s \in Slots : Busy(s) =>
        /\ \/ client[task_id[s]] \in {"waiting", "on_complete"}
           \/ Queued("cancel", task_id[s])
        /\ task_id[s] \notin ended
        /\ ~Queued("completion", task_id[s])
        /\ \A x \in Slots \ {s} : Busy(x) => task_id[x] # task_id[s]

(* all_slots_are_idle, on which update_slots clears the KV cache and loads *)
(* a system prompt, is true only while no slot has anything in the cache   *)
(* that it still works on, whatever tasks arrive between two rounds.       *)
IdleFlagSound == all_slots_are_idle => \A s \in Slots : ~Busy(s)

-------------------------------------------------------------------------------
(* The inductive invariant that the two rest on, of named parts. *)

TypeInv ==
    /\ data \in Seq(KindType) /\ Len(data) <= MaxRequests
    /\ client \in [Tasks -> {"none", "waiting", "on_complete", "done"}]
    /\ queue_tasks \in Seq([type : {"completion", "cancel"}, id : Tasks])
    /\ queue_results \in [Tasks -> Seq({"partial", "final", "error"})]
    /\ state \in [Slots -> {"IDLE", "PROCESSING"}]
    /\ command \in [Slots -> {"NONE", "LOAD_PROMPT", "RELEASE"}]
    /\ task_id \in [Slots -> {NoTask} \cup Tasks]
    /\ i_batch = [s \in Slots |-> i_batch[s]]
    /\ all_slots_are_idle \in BOOLEAN
    /\ n_batch \in Nat \ {0} /\ first \in Nat \ {0}
    /\ ended \subseteq Tasks

(* A completion task in the queue is the only trace of its request yet. *)
QueueInv ==
    /\ \A i, j \in DOMAIN queue_tasks :
        i # j /\ queue_tasks[i].type = "completion" /\ queue_tasks[j].type = "completion" =>
            queue_tasks[i].id # queue_tasks[j].id
    /\ \A i \in DOMAIN queue_tasks : queue_tasks[i].type = "completion" =>
        /\ queue_tasks[i].id \in DOMAIN data
        /\ queue_results[queue_tasks[i].id] = <<>>
        /\ queue_tasks[i].id \notin ended
        /\ \A s \in Slots : task_id[s] # queue_tasks[i].id

(* A completion task whose client has left is overtaken by no cancel task: *)
(* the one that will release its slot is still behind it.                  *)
CancelInv ==
    \A i \in DOMAIN queue_tasks : queue_tasks[i].type = "completion" =>
        \/ client[queue_tasks[i].id] \in {"waiting", "on_complete"}
        \/ \E j \in DOMAIN queue_tasks :
              j > i /\ queue_tasks[j] = [type |-> "cancel", id |-> queue_tasks[i].id]

(* No two slots have had the same task last, and only a slot that has had  *)
(* one works or has a row.                                                 *)
OwnerInv ==
    /\ \A s \in Slots : task_id[s] \in {NoTask} \cup DOMAIN data
    /\ \A s, x \in Slots : s # x /\ task_id[s] # NoTask => task_id[s] # task_id[x]
    /\ \A s \in Slots : Busy(s) \/ i_batch[s] # NoRow => task_id[s] # NoTask

(* The first result for a request that does not stream ends it. *)
ResultInv ==
    /\ \A t \in DOMAIN data : queue_results[t] # <<>> /\ ~data[t].stream => t \in ended
    /\ \A t \in Tasks \ DOMAIN data : queue_results[t] = <<>> /\ t \notin ended

(* All of it: what NoOrphanWork and IdleFlagSound need to hold in every    *)
(* next state, whatever is requested, cancelled and answered in between.   *)
IInv == TypeInv /\ QueueInv /\ CancelInv /\ OwnerInv /\ ResultInv /\ NoOrphanWork /\ IdleFlagSound

-------------------------------------------------------------------------------

NoEmbeddings == \A t \in DOMAIN data : ~data[t].embedding

(* A request gets at most one final result or error, and nothing after it: *)
(* no slot sends twice, nor on behalf of the request it had before.  Only  *)
(* while nobody asks for an embedding, see OwnLogits.                      *)
AnsweredOnce ==
    [][NoEmbeddings => \A t \in ended : Len(queue_results'[t]) <= Len(queue_results[t])]_vars

(* The rows of a batch are decoded in order, none twice and none left out, *)
(* however often llama_decode finds no room and n_batch is halved.         *)
RowsInOrder ==
    /\ pc = "decode" => evaluated = 1 .. first - 1
    /\ pc = "sample" => evaluated = 1 .. LastOf(first)

(* A slot's token is sampled from the logits of a row of its own, never of *)
(* another slot's: slot.i_batch is of this batch.  Only while nobody asks  *)
(* for an embedding: the slots behind one that sends its embedding keep    *)
(* their i_batch for the next batch.                                       *)
OwnLogits ==
    NoEmbeddings /\ pc = "sample" => \A s \in ToSample : batch[i_batch[s]] = s

(* Every request is answered in the end, even if all slots are busy when   *)
(* it comes and others are cancelled, unless a new system prompt releases  *)
(* its slot or llama_decode fails.                                         *)
Answered ==
    \A t \in Tasks : client[t] = "waiting" ~> client[t] # "waiting" \/ t \in dropped \/ pc = "stopped"

===============================================================================
