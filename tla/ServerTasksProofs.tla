--------------------------- MODULE ServerTasksProofs ---------------------------
(***************************************************************************)
(* Proofs about ServerTasks for every number of slots, requests and rows.  *)
(*                                                                         *)
(* IInv: no slot works for a request that nobody waits for and no cancel   *)
(* task is queued for, or for one that another slot works for, even if the *)
(* peer leaves before its completion task is taken; all_slots_are_idle is  *)
(* true only when no slot works.  On top of it, RowInv: the rows of a      *)
(* batch are decoded in order, and whatever slot has a row to sample works *)
(* and owns the row; so no request is answered twice.                      *)
(***************************************************************************)
EXTENDS ServerTasks, InductionLemmas

-------------------------------------------------------------------------------
(* The queue of tasks *)

LEMMA TailOfSeq ==
  ASSUME NEW T, NEW q \in Seq(T), q # <<>>
  PROVE  /\ Tail(q) \in Seq(T)
         /\ 1 \in DOMAIN q /\ Head(q) = q[1] /\ Head(q) \in T
         /\ \A i \in DOMAIN Tail(q) : i + 1 \in DOMAIN q /\ i + 1 # 1 /\ Tail(q)[i] = q[i + 1]
         /\ \A i \in DOMAIN q \ {1} : i - 1 \in DOMAIN Tail(q) /\ Tail(q)[i - 1] = q[i]
<1>1. Len(q) \in Nat \ {0} /\ DOMAIN q = 1 .. Len(q)
  OBVIOUS
<1>2. Tail(q) \in Seq(T) /\ Len(Tail(q)) = Len(q) - 1
  BY <1>1
<1>3. DOMAIN Tail(q) = 1 .. Len(q) - 1
  BY <1>2
<1>4. \A i \in 1 .. Len(q) - 1 : Tail(q)[i] = q[i + 1]
  BY <1>1
<1> QED
  BY <1>1, <1>2, <1>3, <1>4

LEMMA HeadAndTail ==
  ASSUME TypeInv, queue_tasks # <<>>
  PROVE  /\ Tail(queue_tasks) \in Seq([type : {"completion", "cancel"}, id : Tasks])
         /\ 1 \in DOMAIN queue_tasks /\ Head(queue_tasks) = queue_tasks[1]
         /\ Head(queue_tasks) \in [type : {"completion", "cancel"}, id : Tasks]
         /\ \A i \in DOMAIN Tail(queue_tasks) :
              i + 1 \in DOMAIN queue_tasks /\ i + 1 # 1 /\ Tail(queue_tasks)[i] = queue_tasks[i + 1]
         /\ \A i \in DOMAIN queue_tasks \ {1} :
              i - 1 \in DOMAIN Tail(queue_tasks) /\ Tail(queue_tasks)[i - 1] = queue_tasks[i]
<1> DEFINE T == [type : {"completion", "cancel"}, id : Tasks]
<1>1. queue_tasks \in Seq(T)
  BY DEF TypeInv
<1> QED
  BY <1>1, TailOfSeq

LEMMA LastAppended ==
  ASSUME TypeInv, NEW task \in [type : {"completion", "cancel"}, id : Tasks]
  PROVE  LET q == Append(queue_tasks, task) IN
         /\ q \in Seq([type : {"completion", "cancel"}, id : Tasks])
         /\ \A i \in DOMAIN queue_tasks : i \in DOMAIN q /\ q[i] = queue_tasks[i]
         /\ Len(queue_tasks) + 1 \in DOMAIN q /\ q[Len(queue_tasks) + 1] = task
         /\ \A i \in DOMAIN q : i \in DOMAIN queue_tasks \/ i = Len(queue_tasks) + 1
         /\ Len(queue_tasks) + 1 \notin DOMAIN queue_tasks
  BY DEF TypeInv

LEMMA ElementOfSeq ==
  ASSUME NEW T, NEW q \in Seq(T), NEW i \in DOMAIN q
  PROVE  q[i] \in T
OBVIOUS

LEMMA QueuedIds ==
  ASSUME TypeInv, NEW i \in DOMAIN queue_tasks
  PROVE  queue_tasks[i].id \in Tasks
<1> DEFINE T == [type : {"completion", "cancel"}, id : Tasks]
<1>1. queue_tasks \in Seq(T)
  BY DEF TypeInv
<1>2. queue_tasks[i] \in T
  <2> HIDE DEF T
  <2> QED
    BY <1>1, ElementOfSeq
<1> QED
  BY <1>2

LEMMA DataTasks ==
  ASSUME TypeInv
  PROVE  DOMAIN data \subseteq Tasks
<1>1. data \in Seq(KindType) /\ Len(data) <= MaxRequests
  BY DEF TypeInv
<1> QED
  BY <1>1, BoundsAssumption DEF Tasks

(* What is queued when the first task has been taken. *)
LEMMA QueuedAfterTail ==
  ASSUME TypeInv, queue_tasks # <<>>, queue_tasks' = Tail(queue_tasks), NEW t, NEW type
  PROVE  /\ Queued(type, t)' => Queued(type, t)
         /\ Queued(type, t) /\ Head(queue_tasks) # [type |-> type, id |-> t] => Queued(type, t)'
<1>1. ASSUME Queued(type, t)' PROVE Queued(type, t)
  <2>1. PICK i \in DOMAIN Tail(queue_tasks) : Tail(queue_tasks)[i] = [type |-> type, id |-> t]
    BY <1>1 DEF Queued
  <2> QED
    BY <2>1, HeadAndTail DEF Queued
<1>2. ASSUME Queued(type, t), Head(queue_tasks) # [type |-> type, id |-> t] PROVE Queued(type, t)'
  <2>1. PICK i \in DOMAIN queue_tasks : queue_tasks[i] = [type |-> type, id |-> t]
    BY <1>2 DEF Queued
  <2>2. i # 1
    BY <1>2, <2>1, HeadAndTail
  <2>3. i - 1 \in DOMAIN Tail(queue_tasks) /\ Tail(queue_tasks)[i - 1] = queue_tasks[i]
    BY <2>2, HeadAndTail
  <2> QED
    BY <2>1, <2>3 DEF Queued
<1> QED
  BY <1>1, <1>2

LEMMA CancelsAfterTail ==
  ASSUME TypeInv, queue_tasks # <<>>, queue_tasks' = Tail(queue_tasks), NEW t,
         Head(queue_tasks).type # "cancel" \/ Head(queue_tasks).id # t, Queued("cancel", t)
  PROVE  Queued("cancel", t)'
<1>1. Head(queue_tasks) # [type |-> "cancel", id |-> t]
  OBVIOUS
<1> QED
  BY <1>1, QueuedAfterTail

(* QueueInv is still true of the rest when the first task has been taken   *)
(* and only its request has changed.                                       *)
LEMMA QueueInvTail ==
  ASSUME TypeInv, QueueInv, queue_tasks # <<>>, queue_tasks' = Tail(queue_tasks),
         UNCHANGED <<data, client>>,
         \A i \in DOMAIN queue_tasks \ {1} : queue_tasks[i].type = "completion" =>
             LET t == queue_tasks[i].id IN
             /\ queue_results'[t] = queue_results[t]
             /\ t \in ended' => t \in ended
             /\ \A s \in Slots : task_id'[s] = t => task_id[s] = t
  PROVE  QueueInv'
  BY HeadAndTail DEF QueueInv

(* The rest of the queue has the cancel tasks that are behind a completion *)
(* task, whatever was taken.                                               *)
LEMMA CancelInvTail ==
  ASSUME TypeInv, CancelInv, queue_tasks # <<>>, queue_tasks' = Tail(queue_tasks), UNCHANGED client
  PROVE  CancelInv'
<1> SUFFICES ASSUME NEW i \in DOMAIN Tail(queue_tasks), Tail(queue_tasks)[i].type = "completion",
                    client[Tail(queue_tasks)[i].id] \notin {"waiting", "on_complete"}
             PROVE  \E j \in DOMAIN Tail(queue_tasks) :
                      j > i /\ Tail(queue_tasks)[j] = [type |-> "cancel", id |-> Tail(queue_tasks)[i].id]
  BY DEF CancelInv
<1>1. i + 1 \in DOMAIN queue_tasks /\ Tail(queue_tasks)[i] = queue_tasks[i + 1] /\ i \in Nat \ {0}
  BY HeadAndTail DEF TypeInv
<1>2. PICK j \in DOMAIN queue_tasks :
        j > i + 1 /\ queue_tasks[j] = [type |-> "cancel", id |-> queue_tasks[i + 1].id]
  BY <1>1 DEF CancelInv
<1>3. j \in Nat
  BY DEF TypeInv
<1>4. j - 1 \in DOMAIN Tail(queue_tasks) /\ Tail(queue_tasks)[j - 1] = queue_tasks[j] /\ j - 1 > i
  BY <1>1, <1>2, <1>3, HeadAndTail
<1> QED
  BY <1>1, <1>2, <1>4

LEMMA CancelInvSame ==
  ASSUME CancelInv, UNCHANGED <<client, queue_tasks>>
  PROVE  CancelInv'
BY DEF CancelInv

(* The client whose task is taken is there, or its cancel task is queued. *)
LEMMA ClientOfHead ==
  ASSUME TypeInv, CancelInv, TaskIs("completion"), NEW t, t = Head(queue_tasks).id
  PROVE  client[t] \in {"waiting", "on_complete"} \/ Queued("cancel", t)
BY HeadAndTail DEF CancelInv, TaskIs, Queued

(* The task that is taken is that of a request that has no slot, no result *)
(* and no other completion task in the queue.                              *)
LEMMA CompletionHead ==
  ASSUME TypeInv, QueueInv, TaskIs("completion"), NEW t, t = Head(queue_tasks).id
  PROVE  /\ t \in Tasks /\ t \in DOMAIN data
         /\ queue_results[t] = <<>> /\ t \notin ended
         /\ \A s \in Slots : task_id[s] # t
         /\ \A i \in DOMAIN queue_tasks \ {1} : queue_tasks[i].type = "completion" => queue_tasks[i].id # t
  BY HeadAndTail DEF QueueInv, TaskIs

-------------------------------------------------------------------------------
(* The initial state *)

LEMMA InitIInv == Init => IInv
<1> SUFFICES ASSUME Init PROVE IInv
  OBVIOUS
<1> USE SlotsAssumption, BoundsAssumption DEF Init
<1>1. TypeInv
  BY DEF TypeInv, Tasks
<1>2. QueueInv /\ CancelInv /\ OwnerInv /\ ResultInv
  BY DEF QueueInv, CancelInv, OwnerInv, ResultInv, Busy, Processing, NoTask, NoRow
<1>3. NoOrphanWork /\ IdleFlagSound
  BY DEF NoOrphanWork, IdleFlagSound, Busy, Processing
<1> QED
  BY <1>1, <1>2, <1>3 DEF IInv

-------------------------------------------------------------------------------
(* The steps of HTTP threads *)

LEMMA RequestCompletionStep ==
  ASSUME IInv, RequestCompletion
  PROVE  IInv'
<1> DEFINE t == Len(data) + 1
<1> USE BoundsAssumption DEF IInv
<1>1. /\ t \in Tasks /\ t \notin DOMAIN data /\ Len(data) \in Nat
  BY DEF TypeInv, RequestCompletion, Tasks
<1>2. PICK kind \in Kinds[t] : data' = Append(data, kind)
  BY DEF RequestCompletion
<1>3. kind \in KindType
  BY <1>1, KindsAssumption
<1>4. /\ data' \in Seq(KindType) /\ Len(data') = t /\ DOMAIN data' = DOMAIN data \cup {t}
      /\ \A x \in DOMAIN data : data'[x] = data[x]
  BY <1>1, <1>2, <1>3 DEF TypeInv
<1>5. /\ queue_tasks' = Append(queue_tasks, [type |-> "completion", id |-> t])
      /\ client' = [client EXCEPT ![t] = "waiting"]
      /\ UNCHANGED <<queue_results, slots, pc, flags, round, ended, dropped>>
  BY DEF RequestCompletion
<1>6. [type |-> "completion", id |-> t] \in [type : {"completion", "cancel"}, id : Tasks]
  BY <1>1
<1>7. TypeInv'
  BY <1>1, <1>4, <1>5, <1>6, LastAppended DEF TypeInv, slots, flags, round, RequestCompletion
<1>8. queue_results[t] = <<>> /\ t \notin ended /\ \A s \in Slots : task_id[s] # t
  BY <1>1 DEF ResultInv, OwnerInv, NoTask, Tasks
<1>9. \A i \in DOMAIN queue_tasks : queue_tasks[i].type = "completion" => queue_tasks[i].id # t
  BY <1>1 DEF QueueInv
<1>10. QueueInv'
  <2>1. \A i \in DOMAIN queue_tasks' :
          \/ i \in DOMAIN queue_tasks /\ queue_tasks'[i] = queue_tasks[i]
          \/ i = Len(queue_tasks) + 1 /\ queue_tasks'[i] = [type |-> "completion", id |-> t]
    BY <1>5, <1>6, LastAppended
  <2>2. \A i, j \in DOMAIN queue_tasks' :
          i # j /\ queue_tasks'[i].type = "completion" /\ queue_tasks'[j].type = "completion" =>
              queue_tasks'[i].id # queue_tasks'[j].id
    BY <2>1, <1>9 DEF QueueInv
  <2>5. \A i \in DOMAIN queue_tasks' : queue_tasks'[i].type = "completion" =>
          /\ queue_tasks'[i].id \in DOMAIN data'
          /\ queue_results'[queue_tasks'[i].id] = <<>>
          /\ queue_tasks'[i].id \notin ended'
          /\ \A s \in Slots : task_id'[s] # queue_tasks'[i].id
    BY <2>1, <1>4, <1>5, <1>8 DEF QueueInv, slots
  <2> QED
    BY <2>2, <2>5 DEF QueueInv
<1>11. OwnerInv'
  BY <1>4, <1>5 DEF OwnerInv, slots, Busy, Processing
<1>12. ResultInv'
  BY <1>1, <1>4, <1>5, <1>8 DEF ResultInv
<1>13. NoOrphanWork'
  <2>1. \A s \in Slots : Busy(s)' => Busy(s) /\ task_id[s] \in DOMAIN data
    BY <1>5 DEF slots, Busy, Processing, OwnerInv
  <2>2. \A x \in DOMAIN data : client'[x] = client[x]
    BY <1>1, <1>5 DEF TypeInv
  <2>3. \A type, x : Queued(type, x) => Queued(type, x)'
    BY <1>5, <1>6, LastAppended DEF Queued
  <2>4. \A x \in DOMAIN data : Queued("completion", x)' => Queued("completion", x)
    BY <1>1, <1>5, <1>6, LastAppended DEF Queued
  <2> QED
    BY <2>1, <2>2, <2>3, <2>4, <1>5 DEF NoOrphanWork, slots, Busy, Processing
<1>14. IdleFlagSound'
  BY <1>5 DEF IdleFlagSound, slots, flags, Busy, Processing
<1>15. CancelInv'
  <2> SUFFICES ASSUME NEW i \in DOMAIN queue_tasks', queue_tasks'[i].type = "completion",
                      client'[queue_tasks'[i].id] \notin {"waiting", "on_complete"}
               PROVE  \E j \in DOMAIN queue_tasks' :
                        j > i /\ queue_tasks'[j] = [type |-> "cancel", id |-> queue_tasks'[i].id]
    BY DEF CancelInv
  <2>1. client'[t] = "waiting"
    BY <1>1, <1>5 DEF TypeInv
  <2>2. i \in DOMAIN queue_tasks /\ queue_tasks'[i] = queue_tasks[i]
    BY <2>1, <1>5, <1>6, LastAppended
  <2>3. client'[queue_tasks[i].id] = client[queue_tasks[i].id]
    BY <2>1, <2>2, <1>5, QueuedIds DEF TypeInv
  <2>4. PICK j \in DOMAIN queue_tasks :
          j > i /\ queue_tasks[j] = [type |-> "cancel", id |-> queue_tasks[i].id]
    BY <2>2, <2>3 DEF CancelInv
  <2>5. j \in DOMAIN queue_tasks' /\ queue_tasks'[j] = queue_tasks[j]
    BY <1>5, <1>6, LastAppended
  <2> QED
    BY <2>2, <2>4, <2>5
<1> QED
  BY <1>7, <1>10, <1>11, <1>12, <1>13, <1>14, <1>15

LEMMA NextResultStep ==
  ASSUME IInv, NEW t \in Tasks, NextResult(t)
  PROVE  IInv'
<1> USE DEF IInv, NextResult
<1>1. Tail(queue_results[t]) \in Seq({"partial", "final", "error"})
  BY TailOfSeq DEF TypeInv
<1>2. TypeInv'
  BY <1>1 DEF TypeInv, slots, flags, round
<1>3. \A i \in DOMAIN queue_tasks : queue_tasks[i].type = "completion" => queue_tasks[i].id # t
  BY DEF QueueInv
<1>4. /\ \A x \in Tasks \ {t} : queue_results'[x] = queue_results[x] /\ client'[x] = client[x]
      /\ t \in DOMAIN data
  BY DEF TypeInv, ResultInv
<1>5. QueueInv'
  <2>1. UNCHANGED <<queue_tasks, data, task_id, ended>>
    BY DEF slots
  <2>2. \A i \in DOMAIN queue_tasks : queue_tasks[i].type = "completion" =>
          queue_results'[queue_tasks[i].id] = <<>>
    BY <1>3, <1>4, QueuedIds DEF QueueInv
  <2> HIDE DEF NextResult
  <2> QED
    BY <2>1, <2>2 DEF QueueInv
<1>6. OwnerInv'
  BY DEF OwnerInv, slots, Busy, Processing
<1>7. ResultInv'
  BY <1>4 DEF ResultInv, TypeInv
<1>8. NoOrphanWork'
  <2>1. \A s \in Slots : Busy(s)' <=> Busy(s)
    BY DEF slots, Busy, Processing
  <2>2. \A type, x : Queued(type, x)' <=> Queued(type, x)
    BY DEF Queued
  <2>3. ASSUME NEW s \in Slots, Busy(s)
        PROVE  client'[task_id[s]] \in {"waiting", "on_complete"} \/ Queued("cancel", task_id[s])
    <3>1. CASE task_id[s] # t
      <4>1. task_id[s] \in Tasks
        BY <2>3 DEF OwnerInv, TypeInv
      <4> QED
        BY <3>1, <4>1, <1>4, <2>3 DEF NoOrphanWork
    <3>2. CASE task_id[s] = t
      <4>1. t \notin ended
        BY <2>3, <3>2 DEF NoOrphanWork
      <4>2. data[t].stream
        BY <1>4, <4>1 DEF ResultInv
      <4> QED
        BY <3>2, <4>2 DEF TypeInv
    <3> QED
      BY <3>1, <3>2
  <2> QED
    BY <2>1, <2>2, <2>3 DEF NoOrphanWork, slots
<1>9. IdleFlagSound'
  BY DEF IdleFlagSound, slots, flags, Busy, Processing
<1>10. CancelInv'
  <2>1. \A i \in DOMAIN queue_tasks : queue_tasks[i].type = "completion" =>
          client'[queue_tasks[i].id] = client[queue_tasks[i].id]
    BY <1>3, <1>4, QueuedIds
  <2>2. UNCHANGED queue_tasks
    OBVIOUS
  <2> HIDE DEF NextResult
  <2> QED
    BY <2>1, <2>2 DEF CancelInv
<1> QED
  BY <1>2, <1>5, <1>6, <1>7, <1>8, <1>9, <1>10

LEMMA PeerGoneStep ==
  ASSUME IInv, NEW t \in Tasks, PeerGone(t)
  PROVE  IInv'
<1> USE DEF IInv
<1>1. /\ client' = [client EXCEPT ![t] = "on_complete"]
      /\ UNCHANGED <<data, queue_tasks, queue_results, state, command, task_id, i_batch,
                     all_slots_are_idle, n_batch, first, ended>>
  BY DEF PeerGone, queues, slots, flags, round
<1>2. \A x \in Tasks : client'[x] = client[x] \/ client'[x] = "on_complete"
  BY <1>1 DEF TypeInv
<1>3. TypeInv'
  BY <1>1 DEF TypeInv
<1>4. QueueInv' /\ OwnerInv' /\ ResultInv' /\ IdleFlagSound'
  BY <1>1 DEF QueueInv, OwnerInv, ResultInv, IdleFlagSound, Busy, Processing
<1>5. CancelInv'
  <2>1. \A i \in DOMAIN queue_tasks : \/ client'[queue_tasks[i].id] = client[queue_tasks[i].id]
                                      \/ client'[queue_tasks[i].id] = "on_complete"
    BY <1>2, QueuedIds
  <2>2. UNCHANGED queue_tasks
    BY <1>1
  <2> QED
    BY <2>1, <2>2 DEF CancelInv
<1>6. NoOrphanWork'
  <2>1. \A s \in Slots : (Busy(s)' <=> Busy(s)) /\ (Busy(s) => task_id[s] \in Tasks)
    BY <1>1 DEF Busy, Processing, OwnerInv, TypeInv
  <2>2. \A type, x : Queued(type, x)' <=> Queued(type, x)
    BY <1>1 DEF Queued
  <2> QED
    BY <2>1, <2>2, <1>1, <1>2 DEF NoOrphanWork
<1> QED
  BY <1>3, <1>4, <1>5, <1>6

LEMMA RequestCancelStep ==
  ASSUME IInv, NEW t \in Tasks, RequestCancel(t)
  PROVE  IInv'
<1> DEFINE cancel == [type |-> "cancel", id |-> t]
<1> USE DEF IInv
<1>1. /\ cancel \in [type : {"completion", "cancel"}, id : Tasks]
      /\ queue_tasks' = Append(queue_tasks, cancel)
  BY DEF RequestCancel
<1>2. TypeInv'
  BY <1>1, LastAppended DEF TypeInv, slots, flags, round, RequestCancel
<1>3. \A i \in DOMAIN queue_tasks' :
        \/ i \in DOMAIN queue_tasks /\ queue_tasks'[i] = queue_tasks[i]
        \/ queue_tasks'[i] = cancel
  BY <1>1, LastAppended
<1>4. \A x \in Tasks \ {t} : client'[x] = client[x]
  BY DEF RequestCancel, TypeInv
<1>5. QueueInv'
  <2>1. \A i \in DOMAIN queue_tasks' : queue_tasks'[i].type = "completion" =>
          i \in DOMAIN queue_tasks /\ queue_tasks'[i] = queue_tasks[i]
    BY <1>3
  <2>2. UNCHANGED <<data, queue_results, task_id, ended>>
    BY DEF RequestCancel, slots
  <2> QED
    BY <2>1, <2>2 DEF QueueInv
<1>6. OwnerInv' /\ ResultInv' /\ IdleFlagSound'
  BY DEF OwnerInv, ResultInv, IdleFlagSound, slots, flags, Busy, Processing, RequestCancel
<1>7. NoOrphanWork'
  <2>1. \A s \in Slots : (Busy(s)' <=> Busy(s)) /\ (Busy(s) => task_id[s] \in Tasks)
    BY DEF slots, Busy, Processing, RequestCancel, OwnerInv, TypeInv
  <2>2. \A type, x : Queued(type, x) => Queued(type, x)'
    BY <1>1, LastAppended DEF Queued
  <2>3. \A x : Queued("completion", x)' => Queued("completion", x)
    BY <1>3 DEF Queued
  <2>4. Queued("cancel", t)'
    BY <1>1, LastAppended DEF Queued
  <2> QED
    BY <2>1, <2>2, <2>3, <2>4, <1>4 DEF NoOrphanWork, RequestCancel, slots
<1>8. CancelInv'
  <2> SUFFICES ASSUME NEW i \in DOMAIN queue_tasks', queue_tasks'[i].type = "completion",
                      client'[queue_tasks'[i].id] \notin {"waiting", "on_complete"}
               PROVE  \E j \in DOMAIN queue_tasks' :
                        j > i /\ queue_tasks'[j] = [type |-> "cancel", id |-> queue_tasks'[i].id]
    BY DEF CancelInv
  <2>1. i \in DOMAIN queue_tasks /\ queue_tasks'[i] = queue_tasks[i]
    BY <1>3
  <2>2. CASE queue_tasks[i].id = t
    <3>1. Len(queue_tasks) + 1 \in DOMAIN queue_tasks' /\ queue_tasks'[Len(queue_tasks) + 1] = cancel
      BY <1>1, LastAppended
    <3>2. Len(queue_tasks) + 1 > i
      BY <2>1 DEF TypeInv
    <3> QED
      BY <3>1, <3>2, <2>1, <2>2
  <2>3. CASE queue_tasks[i].id # t
    <3>1. client'[queue_tasks[i].id] = client[queue_tasks[i].id]
      BY <2>1, <2>3, <1>4, QueuedIds
    <3>2. PICK j \in DOMAIN queue_tasks :
            j > i /\ queue_tasks[j] = [type |-> "cancel", id |-> queue_tasks[i].id]
      BY <2>1, <3>1 DEF CancelInv
    <3>3. j \in DOMAIN queue_tasks' /\ queue_tasks'[j] = queue_tasks[j]
      BY <1>1, LastAppended
    <3> QED
      BY <2>1, <3>2, <3>3
  <2> QED
    BY <2>2, <2>3
<1> QED
  BY <1>2, <1>5, <1>6, <1>7, <1>8

-------------------------------------------------------------------------------
(* The main loop takes a task *)

LEMMA RefuseStep ==
  ASSUME IInv, Refuse
  PROVE  IInv'
<1> DEFINE t == Head(queue_tasks).id
<1> USE DEF IInv
<1>1. /\ t \in Tasks /\ t \in DOMAIN data /\ \A s \in Slots : task_id[s] # t
      /\ \A i \in DOMAIN queue_tasks \ {1} :
            queue_tasks[i].type = "completion" => queue_tasks[i].id # t
      /\ queue_tasks # <<>> /\ Head(queue_tasks).type = "completion"
  BY CompletionHead DEF Refuse, TaskIs
<1>2. /\ queue_results' = [queue_results EXCEPT ![t] = Append(@, "error")]
      /\ ended' = ended \cup {t} /\ queue_tasks' = Tail(queue_tasks)
      /\ UNCHANGED <<client, data, state, command, task_id, i_batch, all_slots_are_idle, n_batch, first>>
  BY DEF Refuse, Send, http, slots, flags, round
<1>3. \A x \in Tasks \ {t} : queue_results'[x] = queue_results[x]
  BY <1>2 DEF TypeInv
<1>4. TypeInv'
  BY <1>1, <1>2, HeadAndTail DEF TypeInv
<1>5. QueueInv'
  BY <1>1, <1>2, <1>3, QueuedIds, QueueInvTail
<1>6. OwnerInv' /\ IdleFlagSound'
  BY <1>2 DEF OwnerInv, IdleFlagSound, Busy, Processing
<1>7. ResultInv'
  BY <1>1, <1>2, <1>3 DEF ResultInv, TypeInv
<1>8. NoOrphanWork'
  <2>1. \A s \in Slots : Busy(s)' <=> Busy(s)
    BY <1>2 DEF Busy, Processing
  <2>2. \A x : Queued("cancel", x) => Queued("cancel", x)'
    BY <1>1, <1>2, CancelsAfterTail
  <2>3. \A x : Queued("completion", x)' => Queued("completion", x)
    BY <1>1, <1>2, QueuedAfterTail
  <2> QED
    BY <2>1, <2>2, <2>3, <1>1, <1>2 DEF NoOrphanWork
<1>9. CancelInv'
  BY <1>1, <1>2, CancelInvTail
<1> QED
  BY <1>4, <1>5, <1>6, <1>7, <1>8, <1>9

LEMMA LaunchStep ==
  ASSUME IInv, Launch
  PROVE  IInv'
<1>0. PICK t : t = Head(queue_tasks).id
  OBVIOUS
<1> DEFINE released == IF data[t].system THEN ReleaseAll ELSE command
<1> USE DEF IInv
<1>1. /\ t \in Tasks /\ t \in DOMAIN data /\ t \notin ended
      /\ \A s \in Slots : task_id[s] # t
      /\ \A i \in DOMAIN queue_tasks \ {1} :
            queue_tasks[i].type = "completion" => queue_tasks[i].id # t
      /\ queue_tasks # <<>> /\ Head(queue_tasks).type = "completion"
  BY <1>0, CompletionHead DEF Launch, TaskIs
<1>2. /\ queue_tasks' = Tail(queue_tasks)
      /\ UNCHANGED <<client, data, state, i_batch, n_batch, first>>
  BY DEF Launch, http, round
<1>3. PICK s \in Slots :
        /\ Available(s)
        /\ task_id' = [task_id EXCEPT ![s] = t]
        /\ \/ /\ command' = [released EXCEPT ![s] = "LOAD_PROMPT"]
              /\ all_slots_are_idle' = FALSE
              /\ UNCHANGED <<queue_results, ended>>
           \/ /\ command' = released
              /\ queue_results' = [queue_results EXCEPT ![t] = Append(@, "error")]
              /\ ended' = ended \cup {t}
              /\ UNCHANGED all_slots_are_idle
  BY <1>0 DEF Launch, GetSlot, Send
<1>4. /\ released \in [Slots -> {"NONE", "LOAD_PROMPT", "RELEASE"}]
      /\ \A x \in Slots : released[x] \in {command[x], "RELEASE"}
  BY DEF TypeInv, ReleaseAll
<1> HIDE DEF released
<1>5. \A x \in Tasks \ {t} : queue_results'[x] = queue_results[x]
  BY <1>3 DEF TypeInv
<1>6. \A x \in Slots \ {s} : (Busy(x)' => Busy(x)) /\ task_id'[x] = task_id[x]
  BY <1>2, <1>3, <1>4 DEF Busy, Processing, TypeInv
<1>7. task_id'[s] = t /\ ~Busy(s)
  BY <1>3 DEF TypeInv, Busy, Processing, Available
<1>8. Busy(s)' => all_slots_are_idle' = FALSE /\ t \notin ended'
  BY <1>1, <1>2, <1>3, <1>4 DEF TypeInv, Busy, Processing, Available
<1>9. TypeInv'
  <2>1. Tail(queue_tasks) \in Seq([type : {"completion", "cancel"}, id : Tasks])
    BY <1>1, HeadAndTail
  <2>2. /\ command' \in [Slots -> {"NONE", "LOAD_PROMPT", "RELEASE"}]
        /\ all_slots_are_idle' \in BOOLEAN /\ ended' \subseteq Tasks
    BY <1>1, <1>3, <1>4 DEF TypeInv
  <2>3. queue_results' \in [Tasks -> Seq({"partial", "final", "error"})]
    <3>1. Append(queue_results[t], "error") \in Seq({"partial", "final", "error"})
      BY <1>1 DEF TypeInv
    <3> QED
      BY <3>1, <1>1, <1>3 DEF TypeInv
  <2>4. task_id' \in [Slots -> {NoTask} \cup Tasks]
    BY <1>1, <1>3 DEF TypeInv
  <2> QED
    BY <2>1, <2>2, <2>3, <2>4, <1>2 DEF TypeInv
<1>10. QueueInv'
  <2>1. ASSUME NEW i \in DOMAIN queue_tasks \ {1}, queue_tasks[i].type = "completion"
        PROVE  /\ queue_results'[queue_tasks[i].id] = queue_results[queue_tasks[i].id]
               /\ queue_tasks[i].id \in ended' => queue_tasks[i].id \in ended
               /\ \A x \in Slots : task_id'[x] = queue_tasks[i].id => task_id[x] = queue_tasks[i].id
    BY <2>1, <1>1, <1>3, <1>5, <1>6, <1>7, QueuedIds
  <2> QED
    BY <2>1, <1>1, <1>2, QueueInvTail
<1>11. OwnerInv'
  <2>1. t # NoTask
    BY <1>1, BoundsAssumption DEF Tasks, NoTask
  <2>2. \A x \in Slots : task_id'[x] \in {NoTask} \cup DOMAIN data
    BY <1>1, <1>6, <1>7 DEF OwnerInv
  <2>3. \A x, y \in Slots : x # y /\ task_id'[x] # NoTask => task_id'[x] # task_id'[y]
    BY <1>1, <1>6, <1>7 DEF OwnerInv
  <2>4. \A x \in Slots : Busy(x)' \/ i_batch[x] # NoRow => task_id'[x] # NoTask
    BY <2>1, <1>6, <1>7 DEF OwnerInv
  <2> QED
    BY <2>2, <2>3, <2>4, <1>2 DEF OwnerInv
<1>12. ResultInv'
  <2>1. DOMAIN data \subseteq Tasks
    BY DataTasks
  <2>2. \A x \in Tasks \ {t} : x \in ended' <=> x \in ended
    BY <1>3
  <2>3. queue_results'[t] # <<>> => t \in ended'
    BY <1>0, <1>3, <1>4, CompletionHead DEF Launch
  <2> QED
    BY <2>1, <2>2, <2>3, <1>1, <1>2, <1>5 DEF ResultInv
<1>13. NoOrphanWork'
  <2>1. \A x : Queued("cancel", x) => Queued("cancel", x)'
    BY <1>1, <1>2, CancelsAfterTail
  <2>2. \A x : Queued("completion", x)' => Queued("completion", x)
    BY <1>1, <1>2, QueuedAfterTail
  <2>3. ~Queued("completion", t)'
    <3>1. ASSUME NEW i \in DOMAIN Tail(queue_tasks), Tail(queue_tasks)[i] = [type |-> "completion", id |-> t]
          PROVE  FALSE
      <4>1. i + 1 \in DOMAIN queue_tasks \ {1} /\ queue_tasks[i + 1] = [type |-> "completion", id |-> t]
        BY <3>1, <1>1, HeadAndTail
      <4>2. queue_tasks[i + 1].type = "completion" /\ queue_tasks[i + 1].id = t
        BY <4>1
      <4> QED
        BY <4>1, <4>2, <1>1
    <3> QED
      BY <3>1, <1>2 DEF Queued
  <2>4. \A x \in ended' : x \in ended \/ x = t
    BY <1>3
  <2>5. ASSUME NEW x \in Slots, Busy(x)'
        PROVE  /\ \/ client[task_id'[x]] \in {"waiting", "on_complete"}
                  \/ Queued("cancel", task_id[x])'
               /\ task_id'[x] \notin ended'
               /\ ~Queued("completion", task_id[x])'
    <3>1. CASE x = s
      <4>1. client[t] \in {"waiting", "on_complete"} \/ Queued("cancel", t)
        BY <1>0, ClientOfHead DEF Launch
      <4> QED
        BY <4>1, <3>1, <2>1, <2>3, <2>5, <1>1, <1>7, <1>8
    <3>2. CASE x # s
      BY <3>2, <2>1, <2>2, <2>4, <2>5, <1>1, <1>6 DEF NoOrphanWork
    <3> QED
      BY <3>1, <3>2
  <2>6. \A x, y \in Slots : Busy(x)' /\ x # y => task_id'[y] # task_id'[x]
    BY <1>2, <1>11 DEF OwnerInv
  <2> QED
    BY <2>5, <2>6, <1>2 DEF NoOrphanWork
<1>14. IdleFlagSound'
  BY <1>3, <1>6, <1>8 DEF IdleFlagSound
<1>15. CancelInv'
  BY <1>1, <1>2, CancelInvTail
<1> QED
  BY <1>9, <1>10, <1>11, <1>12, <1>13, <1>14, <1>15

LEMMA CancelTaskStep ==
  ASSUME IInv, CancelTask
  PROVE  IInv'
<1> DEFINE t == Head(queue_tasks).id
<1> USE DEF IInv
<1>1. /\ queue_tasks # <<>> /\ queue_tasks' = Tail(queue_tasks)
      /\ Head(queue_tasks) \in [type : {"completion", "cancel"}, id : Tasks]
      /\ Head(queue_tasks).type = "cancel"
  BY HeadAndTail DEF CancelTask, TaskIs
<1>2. /\ command' = [s \in Slots |-> IF /\ task_id[s] = t
                                        /\ \A x \in Slots : task_id[x] = t => s <= x
                                     THEN "RELEASE" ELSE command[s]]
      /\ UNCHANGED <<client, data, queue_results, state, task_id, i_batch, all_slots_are_idle,
                     n_batch, first, ended>>
  BY DEF CancelTask, http, flags, round
<1>3. t \in Tasks /\ t # NoTask
  BY <1>1, BoundsAssumption DEF Tasks, NoTask
<1>4. ASSUME NEW s \in Slots, Busy(s)' PROVE Busy(s) /\ task_id[s] # t
  <2>1. Busy(s)
    BY <1>2, <1>4 DEF Busy, Processing, TypeInv
  <2>2. ASSUME task_id[s] = t PROVE FALSE
    <3>1. \A x \in Slots : task_id[x] = t => s <= x
      BY <2>2, <1>3, SlotsAssumption DEF OwnerInv, Slots
    <3> QED
      BY <3>1, <2>2, <1>2, <1>4 DEF Busy
  <2> QED
    BY <2>1, <2>2
<1>5. TypeInv'
  BY <1>1, <1>2, HeadAndTail DEF TypeInv
<1>6. QueueInv'
  BY <1>1, <1>2, QueueInvTail
<1>7. OwnerInv' /\ ResultInv' /\ IdleFlagSound'
  BY <1>2, <1>4 DEF OwnerInv, ResultInv, IdleFlagSound
<1>8. NoOrphanWork'
  <2>1. \A x : x # t /\ Queued("cancel", x) => Queued("cancel", x)'
    BY <1>1, CancelsAfterTail
  <2>2. \A x : Queued("completion", x)' => Queued("completion", x)
    BY <1>1, QueuedAfterTail
  <2> QED
    BY <2>1, <2>2, <1>2, <1>4 DEF NoOrphanWork
<1>9. CancelInv'
  BY <1>1, <1>2, CancelInvTail
<1> QED
  BY <1>5, <1>6, <1>7, <1>8, <1>9

-------------------------------------------------------------------------------
(* The main loop schedules, decodes and samples *)

(* No slot gets anything to do, and none that works is answered. *)
LEMMA StillOwned ==
  ASSUME NoOrphanWork, UNCHANGED <<client, queue_tasks, task_id>>,
         \A s \in Slots : Busy(s)' => Busy(s) /\ (task_id[s] \in ended' => task_id[s] \in ended)
  PROVE  NoOrphanWork'
<1>1. \A type, x : Queued(type, x)' <=> Queued(type, x)
  BY DEF Queued
<1> QED
  BY <1>1 DEF NoOrphanWork

LEMMA ScheduleStep ==
  ASSUME IInv, Schedule
  PROVE  IInv'
<1> DEFINE empty == {task_id[s] : s \in Waiting \ Loading}
<1> USE DEF IInv
<1>1. /\ state' = [s \in Slots |-> IF command[s] = "RELEASE" THEN "IDLE"
                                   ELSE IF s \in Loading THEN "PROCESSING" ELSE state[s]]
      /\ command' = [s \in Slots |-> IF command[s] = "RELEASE" \/ s \in Loading THEN "NONE"
                                     ELSE IF s \in Waiting THEN "RELEASE" ELSE command[s]]
      /\ i_batch' = [s \in Slots |-> IF s \in Generating \cup Loading THEN LastRow(NewBatch, s)
                                     ELSE i_batch[s]]
      /\ queue_results' = [x \in Tasks |-> IF x \in empty THEN Append(queue_results[x], "final")
                                           ELSE queue_results[x]]
      /\ ended' = ended \cup empty
      /\ \/ Generating \cup Loading = {} /\ all_slots_are_idle' = TRUE
         \/ UNCHANGED all_slots_are_idle
      /\ n_batch' = NBatch /\ first' = 1
      /\ UNCHANGED <<client, data, queue_tasks, task_id>>
  BY DEF Schedule, http
<1>2. /\ \A s \in Waiting : s \in Slots /\ Busy(s) /\ state[s] = "IDLE"
      /\ \A s \in Generating : s \in Slots /\ Busy(s)
      /\ Loading \subseteq Waiting
  BY DEF Waiting, Generating, Loading, Busy, Processing
<1>3. ASSUME NEW s \in Slots, Busy(s)' PROVE Busy(s) /\ s \notin Waiting \ Loading
  <2>1. state'[s] = (IF command[s] = "RELEASE" THEN "IDLE"
                     ELSE IF s \in Loading THEN "PROCESSING" ELSE state[s])
        /\ command'[s] = (IF command[s] = "RELEASE" \/ s \in Loading THEN "NONE"
                          ELSE IF s \in Waiting THEN "RELEASE" ELSE command[s])
    BY <1>1
  <2> QED
    BY <2>1, <1>2, <1>3 DEF Busy, Processing
<1>4. /\ \A x \in empty : x \in Tasks /\ x \in DOMAIN data
      /\ \A s \in Slots : Busy(s)' => task_id[s] \notin empty
  BY <1>2, <1>3 DEF OwnerInv, TypeInv, NoOrphanWork
<1>5. TypeInv'
  <2>1. /\ state' \in [Slots -> {"IDLE", "PROCESSING"}]
        /\ command' \in [Slots -> {"NONE", "LOAD_PROMPT", "RELEASE"}]
        /\ i_batch' = [s \in Slots |-> i_batch'[s]]
        /\ all_slots_are_idle' \in BOOLEAN /\ ended' \subseteq Tasks
    BY <1>1, <1>4 DEF TypeInv
  <2>2. queue_results' \in [Tasks -> Seq({"partial", "final", "error"})]
    <3> HIDE DEF empty
    <3> QED
      BY <1>1 DEF TypeInv
  <2> QED
    BY <2>1, <2>2, <1>1, SlotsAssumption DEF TypeInv
<1>6. QueueInv'
  <2>1. \A i \in DOMAIN queue_tasks : queue_tasks[i].type = "completion" =>
          queue_tasks[i].id \notin empty /\ queue_tasks[i].id \in Tasks
    BY <1>2, QueuedIds DEF QueueInv
  <2> HIDE DEF empty
  <2> QED
    BY <2>1, <1>1 DEF QueueInv
<1>7. OwnerInv'
  BY <1>1, <1>2, <1>3 DEF OwnerInv
<1>8. ResultInv'
  <2>1. \A x \in Tasks : x \notin empty => queue_results'[x] = queue_results[x]
    BY <1>1
  <2>3. DOMAIN data \subseteq Tasks
    BY DataTasks
  <2> HIDE DEF empty
  <2> QED
    BY <2>1, <2>3, <1>1, <1>4 DEF ResultInv
<1>9. NoOrphanWork'
  BY <1>1, <1>3, <1>4, StillOwned
<1>10. IdleFlagSound'
  <2>1. CASE Generating \cup Loading = {}
    <3>1. \A s \in Slots : Busy(s) => s \in Waiting
      BY <2>1 DEF Waiting, MayLoad, Generating, Busy, Processing, TypeInv
    <3> QED
      BY <2>1, <3>1, <1>3 DEF IdleFlagSound
  <2>2. CASE UNCHANGED all_slots_are_idle
    BY <2>2, <1>3 DEF IdleFlagSound
  <2> QED
    BY <2>1, <2>2, <1>1
<1>11. CancelInv'
  BY <1>1, CancelInvSame
<1> QED
  BY <1>5, <1>6, <1>7, <1>8, <1>9, <1>10, <1>11

(* Steps that change neither a request, a task, a result nor a slot. *)
LEMMA BatchStep ==
  ASSUME IInv, n_batch' \in Nat \ {0}, first' \in Nat \ {0},
         UNCHANGED <<http, queues, slots, all_slots_are_idle, ended>>
  PROVE  IInv'
<1>1. UNCHANGED <<client, data, queue_tasks, queue_results, state, command, task_id, i_batch>>
  BY DEF http, queues, slots
<1>2. TypeInv' /\ QueueInv' /\ ResultInv'
  BY <1>1 DEF IInv, TypeInv, QueueInv, ResultInv
<1>3. OwnerInv' /\ NoOrphanWork' /\ IdleFlagSound'
  BY <1>1 DEF IInv, OwnerInv, NoOrphanWork, IdleFlagSound, Busy, Processing, Queued
<1>4. CancelInv'
  BY <1>1, CancelInvSame DEF IInv
<1> QED
  BY <1>2, <1>3, <1>4 DEF IInv

(* A result for the task of a slot: either the final one, and the slot is  *)
(* to be released, or a partial one for a request that streams.            *)
LEMMA ResultStep ==
  ASSUME IInv, NEW s \in Slots, task_id[s] # NoTask,
         NEW r \in Seq({"partial", "final", "error"}),
         queue_results' = [queue_results EXCEPT ![task_id[s]] = r],
         i_batch' = [i_batch EXCEPT ![s] = NoRow],
         \/ ended' = ended \cup {task_id[s]} /\ command' = [command EXCEPT ![s] = "RELEASE"]
         \/ UNCHANGED <<ended, command>> /\ (data[task_id[s]].stream \/ r = queue_results[task_id[s]]),
         UNCHANGED <<client, data, queue_tasks, state, task_id, all_slots_are_idle, n_batch, first>>
  PROVE  IInv'
<1> USE DEF IInv
<1>1. task_id[s] \in Tasks /\ task_id[s] \in DOMAIN data
  BY DEF OwnerInv, TypeInv
<1>2. \A x \in Tasks \ {task_id[s]} : queue_results'[x] = queue_results[x]
  BY DEF TypeInv
<1>3. \A x \in Slots : Busy(x)' => Busy(x) /\ (task_id[x] \in ended' => task_id[x] \in ended)
  <2> SUFFICES ASSUME NEW x \in Slots, Busy(x)'
               PROVE  Busy(x) /\ (task_id[x] \in ended' => task_id[x] \in ended)
    OBVIOUS
  <2>1. CASE x = s
    BY <2>1 DEF Busy, Processing, TypeInv
  <2>2. CASE x # s
    <3>1. task_id[x] # task_id[s]
      BY <2>2 DEF OwnerInv
    <3> QED
      BY <2>2, <3>1 DEF Busy, Processing, TypeInv
  <2> QED
    BY <2>1, <2>2
<1>4. TypeInv'
  BY <1>1 DEF TypeInv
<1>5. QueueInv'
  <2>1. \A i \in DOMAIN queue_tasks : queue_tasks[i].type = "completion" =>
          queue_tasks[i].id \in Tasks \ {task_id[s]}
    BY QueuedIds DEF QueueInv
  <2> QED
    BY <2>1, <1>2 DEF QueueInv
<1>6. OwnerInv'
  <2>1. \A x \in Slots : i_batch'[x] # NoRow => i_batch[x] # NoRow
    BY DEF TypeInv
  <2> QED
    BY <2>1, <1>3 DEF OwnerInv
<1>7. ResultInv'
  BY <1>1, <1>2 DEF ResultInv, TypeInv
<1>8. NoOrphanWork' /\ IdleFlagSound'
  BY <1>3, StillOwned DEF IdleFlagSound
<1>9. CancelInv'
  BY CancelInvSame
<1> QED
  BY <1>4, <1>5, <1>6, <1>7, <1>8, <1>9

(* A slot that is sampled has had a task. *)
LEMMA SampledOwns ==
  ASSUME IInv, NEW s \in Slots, IsNext(s)
  PROVE  task_id[s] # NoTask /\ task_id[s] \in Tasks
<1>1. i_batch[s] # NoRow
  BY DEF IInv, TypeInv, IsNext, ToSample, NoRow
<1> QED
  BY <1>1 DEF IInv, OwnerInv, TypeInv

LEMMA SendEmbeddingStep ==
  ASSUME IInv, SendEmbedding
  PROVE  IInv'
<1>1. PICK s \in Slots : /\ IsNext(s) /\ Finish(s)
                         /\ i_batch' = [i_batch EXCEPT ![s] = NoRow]
  BY DEF SendEmbedding
<1>2. task_id[s] # NoTask /\ task_id[s] \in Tasks
  BY <1>1, SampledOwns
<1>3. Append(queue_results[task_id[s]], "final") \in Seq({"partial", "final", "error"})
  BY <1>2 DEF IInv, TypeInv
<1>4. UNCHANGED <<client, data, queue_tasks, state, task_id, all_slots_are_idle, n_batch, first>>
  BY DEF SendEmbedding, http, flags, round
<1> QED
  BY <1>1, <1>2, <1>3, <1>4, ResultStep DEF Finish

LEMMA ProcessTokenStep ==
  ASSUME IInv, ProcessToken
  PROVE  IInv'
<1> DEFINE more(s) == queue_results[task_id[s]] \o Partial(task_id[s])
<1>1. PICK s \in Slots :
        /\ IsNext(s)
        /\ \/ queue_results' = [queue_results EXCEPT ![task_id[s]] = more(s)] /\ UNCHANGED <<command, ended>>
           \/ /\ queue_results' = [queue_results EXCEPT ![task_id[s]] = more(s) \o <<"final">>]
              /\ ended' = ended \cup {task_id[s]}
              /\ command' = [command EXCEPT ![s] = "RELEASE"]
        /\ i_batch' = [i_batch EXCEPT ![s] = NoRow]
  BY DEF ProcessToken
<1>2. task_id[s] # NoTask /\ task_id[s] \in Tasks
  BY <1>1, SampledOwns
<1>3. queue_results[task_id[s]] \in Seq({"partial", "final", "error"})
  BY <1>2 DEF IInv, TypeInv
<1>4. /\ more(s) \in Seq({"partial", "final", "error"})
      /\ data[task_id[s]].stream \/ more(s) = queue_results[task_id[s]]
  <2>1. CASE data[task_id[s]].stream
    <3>1. Partial(task_id[s]) = <<"partial">>
      BY <2>1 DEF Partial
    <3>2. more(s) = queue_results[task_id[s]] \o <<"partial">>
      BY <3>1
    <3> HIDE DEF more
    <3> QED
      BY <3>2, <2>1, <1>3
  <2>2. CASE ~data[task_id[s]].stream
    <3>1. Partial(task_id[s]) = <<>>
      BY <2>2 DEF Partial
    <3>2. more(s) = queue_results[task_id[s]] \o <<>>
      BY <3>1
    <3>3. more(s) = queue_results[task_id[s]]
      <4> HIDE DEF more
      <4> QED
        BY <3>2, <1>3
    <3> QED
      BY <3>3, <1>3
  <2> QED
    BY <2>1, <2>2
<1>6. more(s) \o <<"final">> \in Seq({"partial", "final", "error"})
  BY <1>4
<1>7. UNCHANGED <<client, data, queue_tasks, state, task_id, all_slots_are_idle, n_batch, first>>
  BY DEF ProcessToken, http, flags
<1> HIDE DEF more
<1> QED
  BY <1>1, <1>2, <1>4, <1>6, <1>7, ResultStep

-------------------------------------------------------------------------------
(* The theorems *)

LEMMA NextIInv == IInv /\ [Next]_vars => IInv'
<1> SUFFICES ASSUME IInv, [Next]_vars PROVE IInv'
  OBVIOUS
<1>1. n_batch \in Nat \ {0} /\ first \in Nat \ {0}
  BY DEF IInv, TypeInv
<1>2. CASE RequestCompletion
  BY <1>2, RequestCompletionStep
<1>3. CASE \E t \in Tasks : NextResult(t) \/ PeerGone(t) \/ RequestCancel(t)
  BY <1>3, NextResultStep, PeerGoneStep, RequestCancelStep
<1>4. CASE LockTasks \/ NoMoreTasks \/ DecodeChunk \/ DecodeFails
  <2>1. UNCHANGED <<http, queues, slots, all_slots_are_idle, ended, n_batch, first>>
    BY <1>4 DEF LockTasks, NoMoreTasks, DecodeChunk, DecodeFails, flags, round
  <2> QED
    BY <2>1, <1>1, BatchStep
<1>5. CASE RetrySmaller
  <2>1. n_batch' \in Nat \ {0} /\ first' \in Nat \ {0}
    BY <1>1, <1>5 DEF RetrySmaller
  <2> QED
    BY <2>1, <1>5, BatchStep DEF RetrySmaller, flags
<1>6. CASE NextChunk
  <2>1. n_batch' \in Nat \ {0} /\ first' \in Nat \ {0}
    BY <1>1, <1>6 DEF NextChunk
  <2> QED
    BY <2>1, <1>6, BatchStep DEF NextChunk, flags
<1>7. CASE Refuse \/ Launch \/ CancelTask
  BY <1>7, RefuseStep, LaunchStep, CancelTaskStep
<1>8. CASE Schedule \/ SendEmbedding \/ ProcessToken
  BY <1>8, ScheduleStep, SendEmbeddingStep, ProcessTokenStep
<1>9. CASE UNCHANGED vars
  <2>1. UNCHANGED <<http, queues, slots, all_slots_are_idle, ended, n_batch, first>>
    BY <1>9 DEF vars, flags, round
  <2> QED
    BY <2>1, <1>1, BatchStep
<1> QED
  BY <1>2, <1>3, <1>4, <1>5, <1>6, <1>7, <1>8, <1>9 DEF Next, MainLoop

(* The inductive invariant holds, whatever HTTP threads request, read and  *)
(* cancel between any two steps of update_slots.                           *)
THEOREM Inductive == Spec => []IInv
<1>1. Init => IInv
  BY InitIInv
<1>2. IInv /\ [Next]_vars => IInv'
  BY NextIInv
<1> QED
  BY <1>1, <1>2, PTL DEF Spec

(* request_cancel and get_slot: no slot works for a request that nobody    *)
(* reads and nobody is about to cancel, nor for one that is answered or    *)
(* queued, and no two slots work for the same request.                     *)
THEOREM NoOrphans == Spec => []NoOrphanWork
<1>1. IInv => NoOrphanWork
  BY DEF IInv
<1> QED
  BY <1>1, Inductive, PTL

(* all_slots_are_idle: when update_slots clears the cache for a new system *)
(* prompt, no slot works.                                                  *)
THEOREM IdleFlag == Spec => []IdleFlagSound
<1>1. IInv => IdleFlagSound
  BY DEF IInv
<1> QED
  BY <1>1, Inductive, PTL

-------------------------------------------------------------------------------
(* The rows of a batch *)

(* The least of two numbers, as FiniteSetsExt chooses it. *)
LEMMA MinOfTwo ==
  ASSUME NEW a \in Int, NEW b \in Int
  PROVE  Min({a, b}) = IF a <= b THEN a ELSE b
BY DEF Min

(* Max of a set of positions of a sequence is one of them. *)
LEMMA MaxOfPositions ==
  ASSUME NEW n \in Nat, NEW S \in SUBSET (1 .. n), S # {}
  PROVE  Max(S) \in S
<1>1. S \in SUBSET (0 .. n)
  OBVIOUS
<1>2. \E x \in S : \A y \in S : x >= y
  BY <1>1, GreatestElement
<1> QED
  BY <1>2 DEF Max

(* g lists the rows of the slots up to each slot. *)
RowsUpto(rows, g, s) == IF s = 0 THEN <<>> ELSE g[s - 1] \o rows[s]
Lists(rows, g) == g = [s \in 0 .. NSlots |-> RowsUpto(rows, g, s)]

(* There is such a list, slot by slot. *)
LEMMA ListExists ==
  ASSUME NEW rows \in [Slots -> Seq(Slots)]
  PROVE  \E g : Lists(rows, g)
<1> USE SlotsAssumption
<1> DEFINE V == Seq(Slots)
           next == [s \in 1 .. NSlots |-> [v \in V |-> v \o rows[s]]]
<1>1. next \in [1 .. NSlots -> [V -> V]]
  <2>1. \A s \in 1 .. NSlots, v \in V : v \o rows[s] \in V
    BY DEF Slots
  <2> HIDE DEF V
  <2> QED
    BY <2>1
<1>2. <<>> \in V
  OBVIOUS
<1>3. \A s \in 1 .. NSlots, v \in V : next[s][v] = v \o rows[s]
  OBVIOUS
<1> HIDE DEF V, next
<1>4. PICK g : Iterates(V, <<>>, NSlots, next, g)
  <2>1. NSlots \in Nat
    OBVIOUS
  <2> QED
    BY <1>1, <1>2, <2>1, Iteration, Zenon
<1>5. \A s \in 0 .. NSlots : g[s] = RowsUpto(rows, g, s)
  <2>1. g[0] = RowsUpto(rows, g, 0)
    BY <1>4 DEF RowsUpto, Iterates
  <2>2. ASSUME NEW s \in 1 .. NSlots PROVE g[s] = RowsUpto(rows, g, s)
    <3>1. g[s - 1] \in V /\ s # 0
      BY <1>4 DEF Iterates
    <3>2. g[s] = g[s - 1] \o rows[s]
      BY <1>3, <1>4, <3>1 DEF Iterates
    <3> QED
      BY <3>1, <3>2 DEF RowsUpto
  <2> QED
    BY <2>1, <2>2
<1>6. g = [s \in 0 .. NSlots |-> RowsUpto(rows, g, s)]
  BY <1>4, <1>5 DEF Iterates
<1> QED
  BY <1>6 DEF Lists

(* A list has the elements of both of its parts. *)
LEMMA Concatenated ==
  ASSUME NEW T, NEW a \in Seq(T), NEW b \in Seq(T)
  PROVE  /\ a \o b \in Seq(T)
         /\ \A i \in DOMAIN a : i \in DOMAIN (a \o b) /\ (a \o b)[i] = a[i]
         /\ \A i \in DOMAIN b : Len(a) + i \in DOMAIN (a \o b) /\ (a \o b)[Len(a) + i] = b[i]
<1>1. a \o b \in Seq(T) /\ Len(a \o b) = Len(a) + Len(b)
  OBVIOUS
<1>2. DOMAIN (a \o b) = 1 .. Len(a) + Len(b) /\ Len(a) \in Nat /\ Len(b) \in Nat
  BY <1>1
<1>3. \A i \in DOMAIN a : i \in 1 .. Len(a)
  OBVIOUS
<1>4. \A i \in DOMAIN b : i \in 1 .. Len(b)
  OBVIOUS
<1> QED
  BY <1>1, <1>2, <1>3, <1>4

(* Every slot that has rows is in the batch. *)
LEMMA BySlotRight ==
  ASSUME NEW rows \in [Slots -> Seq(Slots)],
         \A s \in Slots : rows[s] # <<>> => rows[s][1] = s
  PROVE  /\ BySlot(rows) \in Seq(Slots)
         /\ \A s \in Slots : rows[s] # <<>> => \E r \in DOMAIN BySlot(rows) : BySlot(rows)[r] = s
<1> USE SlotsAssumption
<1> DEFINE g == CHOOSE g : Lists(rows, g)
<1>1. BySlot(rows) = g[NSlots]
  BY DEF BySlot, Lists, RowsUpto
<1>2. Lists(rows, g)
  BY ListExists
<1> HIDE DEF g
<1>3. \A s \in 0 .. NSlots : g[s] = RowsUpto(rows, g, s)
  BY <1>2 DEF Lists
<1> DEFINE Right(m) ==
             /\ g[m] \in Seq(Slots)
             /\ \A s \in 1 .. m : rows[s] # <<>> => \E r \in DOMAIN g[m] : g[m][r] = s
           S == {m \in Nat : m <= NSlots => Right(m)}
<1>4. 0 \in S
  <2>1. g[0] = <<>>
    BY <1>3 DEF RowsUpto
  <2>2. Right(0)
    BY <2>1
  <2> QED
    BY <2>2
<1>5. ASSUME NEW m \in Nat, m \in S PROVE m + 1 \in S
  <2> SUFFICES ASSUME m + 1 <= NSlots PROVE Right(m + 1)
    OBVIOUS
  <2> HIDE DEF Right
  <2>r. Right(m)
    BY <1>5
  <2> USE DEF Right
  <2>0. m + 1 \in Slots /\ m + 1 \in 0 .. NSlots
    BY DEF Slots
  <2>1. g[m] \in Seq(Slots) /\ rows[m + 1] \in Seq(Slots)
    BY <2>0, <2>r
  <2>2. g[m + 1] = g[m] \o rows[m + 1]
    <3>1. g[m + 1] = RowsUpto(rows, g, m + 1) /\ m + 1 # 0 /\ (m + 1) - 1 = m
      BY <1>3, <2>0
    <3> QED
      BY <3>1 DEF RowsUpto
  <2>3. /\ g[m + 1] \in Seq(Slots)
        /\ \A i \in DOMAIN g[m] : i \in DOMAIN g[m + 1] /\ g[m + 1][i] = g[m][i]
        /\ \A i \in DOMAIN rows[m + 1] :
             Len(g[m]) + i \in DOMAIN g[m + 1] /\ g[m + 1][Len(g[m]) + i] = rows[m + 1][i]
    <3>1. PICK a \in Seq(Slots), b \in Seq(Slots) : a = g[m] /\ b = rows[m + 1]
      BY <2>1
    <3>2. g[m + 1] = a \o b
      BY <2>2, <3>1
    <3> HIDE DEF Right, S
    <3>3. /\ a \o b \in Seq(Slots)
          /\ \A i \in DOMAIN a : i \in DOMAIN (a \o b) /\ (a \o b)[i] = a[i]
          /\ \A i \in DOMAIN b : Len(a) + i \in DOMAIN (a \o b) /\ (a \o b)[Len(a) + i] = b[i]
      BY Concatenated
    <3> QED
      BY <3>1, <3>2, <3>3, Zenon
  <2>4. ASSUME NEW s \in 1 .. m + 1, rows[s] # <<>>
        PROVE  \E r \in DOMAIN g[m + 1] : g[m + 1][r] = s
    <3>1. CASE s = m + 1
      <4>1. 1 \in DOMAIN rows[m + 1] /\ rows[m + 1][1] = s
        BY <2>0, <2>1, <2>4, <3>1
      <4> QED
        BY <2>3, <4>1
    <3>2. CASE s # m + 1
      <4>1. s \in 1 .. m
        BY <3>2
      <4>2. PICK r \in DOMAIN g[m] : g[m][r] = s
        BY <2>r, <2>4, <4>1
      <4> QED
        BY <2>3, <4>2
    <3> QED
      BY <3>1, <3>2
  <2> QED
    BY <2>3, <2>4
<1>6. NSlots \in S
  <2> HIDE DEF S
  <2> QED
    BY <1>4, <1>5, NatSetInduction
<1> QED
  BY <1>1, <1>6 DEF Slots

(* What has a row of the batch that is not sampled yet: a slot that works, *)
(* and the row is its own.                                                 *)
HasRow(s) ==
    /\ i_batch[s] \in first .. Len(batch) /\ batch[i_batch[s]] = s
    /\ state[s] = "PROCESSING" /\ command[s] # "RELEASE"

RowTypes ==
    /\ batch \in Seq(Slots) /\ i_batch \in [Slots -> Nat] /\ next_slot \in Nat
    /\ pc \in {"decode", "sample"} => first <= Len(batch)

(* i_batch outlives no batch, and the sampling loop leaves out no slot.    *)
OwnRows ==
    NoEmbeddings =>
        /\ pc \in {"lock", "tasks", "schedule"} => \A s \in Slots : i_batch[s] = NoRow
        /\ pc \in {"decode", "sample"} => \A s \in Slots : i_batch[s] = NoRow \/ HasRow(s)
        /\ pc = "sample" => \A s \in Slots : s < next_slot =>
                                i_batch[s] = NoRow \/ i_batch[s] > LastOf(first)

RowInv == RowTypes /\ RowsInOrder /\ OwnRows

(* The last row of a chunk, as a number. *)
LEMMA LastOfChunk ==
  ASSUME IInv, RowInv
  PROVE  LastOf(first) = IF first + n_batch - 1 <= Len(batch) THEN first + n_batch - 1 ELSE Len(batch)
<1>1. first + n_batch - 1 \in Int /\ Len(batch) \in Int
  BY DEF IInv, TypeInv, RowInv, RowTypes
<1> QED
  BY <1>1, MinOfTwo DEF LastOf

(* The rows that Schedule puts into a batch. *)
LEMMA NewBatchRows ==
  ASSUME IInv
  PROVE  /\ NewBatch \in Seq(Slots)
         /\ \A s \in Generating \cup Loading :
              LastRow(NewBatch, s) \in 1 .. Len(NewBatch) /\ NewBatch[LastRow(NewBatch, s)] = s
<1> DEFINE prompt(s) == [r \in 1 .. data[task_id[s]].rows |-> s]
           g == [s \in Slots |-> IF s \in Generating THEN <<s>> ELSE <<>>]
           l == [s \in Slots |-> IF s \in Loading THEN prompt(s) ELSE <<>>]
<1>1. NewBatch = BySlot(g) \o BySlot(l)
  BY DEF NewBatch
<1>2. /\ g \in [Slots -> Seq(Slots)]
      /\ \A s \in Slots : g[s] # <<>> => g[s][1] = s
      /\ \A s \in Generating : s \in Slots /\ g[s] # <<>>
  <2>1. \A s \in Slots : <<s>> \in Seq(Slots) /\ <<>> \in Seq(Slots) /\ <<s>>[1] = s /\ <<s>> # <<>>
    OBVIOUS
  <2>2. \A s \in Generating : s \in Slots
    BY DEF Generating
  <2> QED
    BY <2>1, <2>2
<1>3. /\ l \in [Slots -> Seq(Slots)]
      /\ \A s \in Slots : l[s] # <<>> => l[s][1] = s
      /\ \A s \in Loading : s \in Slots /\ l[s] # <<>>
  <2>1. ASSUME NEW s \in Loading
        PROVE  prompt(s) \in Seq(Slots) /\ prompt(s)[1] = s /\ prompt(s) # <<>> /\ s \in Slots
    <3>1. s \in Slots /\ data[task_id[s]].rows > 0 /\ Busy(s)
      BY DEF Loading, Waiting, Busy, Processing
    <3>2. task_id[s] \in DOMAIN data
      BY <3>1 DEF IInv, OwnerInv
    <3>3. data[task_id[s]] \in KindType
      BY <3>2, ElementOfSeq DEF IInv, TypeInv
    <3>4. data[task_id[s]].rows \in Nat \ {0}
      BY <3>1, <3>3 DEF KindType
    <3>5. \A n \in Nat \ {0} : LET p == [r \in 1 .. n |-> s] IN p \in Seq(Slots) /\ p[1] = s /\ Len(p) = n
      BY <3>1
    <3> QED
      BY <3>1, <3>4, <3>5
  <2> HIDE DEF prompt
  <2>2. <<>> \in Seq(Slots)
    OBVIOUS
  <2> QED
    BY <2>1, <2>2
<1> HIDE DEF g, l
<1>4. /\ BySlot(g) \in Seq(Slots)
      /\ \A s \in Generating : \E r \in DOMAIN BySlot(g) : BySlot(g)[r] = s
  BY <1>2, BySlotRight
<1>5. /\ BySlot(l) \in Seq(Slots)
      /\ \A s \in Loading : \E r \in DOMAIN BySlot(l) : BySlot(l)[r] = s
  BY <1>3, BySlotRight
<1>6. PICK a \in Seq(Slots), b \in Seq(Slots) : a = BySlot(g) /\ b = BySlot(l)
  BY <1>4, <1>5
<1>7. NewBatch = a \o b
  BY <1>1, <1>6
<1>8. /\ a \o b \in Seq(Slots)
      /\ \A i \in DOMAIN a : i \in DOMAIN (a \o b) /\ (a \o b)[i] = a[i]
      /\ \A i \in DOMAIN b : Len(a) + i \in DOMAIN (a \o b) /\ (a \o b)[Len(a) + i] = b[i]
  BY Concatenated
<1>9. ASSUME NEW s \in Generating \cup Loading
      PROVE  LastRow(NewBatch, s) \in 1 .. Len(NewBatch) /\ NewBatch[LastRow(NewBatch, s)] = s
  <2> DEFINE R == {r \in DOMAIN NewBatch : NewBatch[r] = s}
  <2>1. \E r \in DOMAIN NewBatch : NewBatch[r] = s
    BY <1>4, <1>5, <1>6, <1>7, <1>8, Zenon
  <2>2. DOMAIN NewBatch = 1 .. Len(NewBatch) /\ Len(NewBatch) \in Nat
    BY <1>7, <1>8
  <2>3. R \in SUBSET (1 .. Len(NewBatch)) /\ R # {}
    BY <2>1, <2>2
  <2>4. Max(R) \in R
    <3> HIDE DEF R
    <3> QED
      BY <2>2, <2>3, MaxOfPositions
  <2> QED
    BY <2>2, <2>4 DEF LastRow
<1> QED
  BY <1>7, <1>8, <1>9

(* The requests that are known stay as they are. *)
LEMMA KnownRequests ==
  ASSUME IInv, [Next]_vars, NoEmbeddings'
  PROVE  NoEmbeddings
<1>1. CASE RequestCompletion
  <2>1. PICK kind : data' = Append(data, kind)
    BY <1>1 DEF RequestCompletion
  <2>2. data \in Seq(KindType)
    BY DEF IInv, TypeInv
  <2>3. \A t \in DOMAIN data : t \in DOMAIN data' /\ data'[t] = data[t]
    BY <2>1, <2>2
  <2> QED
    BY <2>3 DEF NoEmbeddings
<1>2. CASE data' = data
  BY <1>2 DEF NoEmbeddings
<1> QED
  BY <1>1, <1>2 DEF Next, MainLoop, vars, http, flags, round, NextResult, PeerGone, RequestCancel,
     LockTasks, NoMoreTasks, Refuse, Launch, CancelTask, Schedule, DecodeChunk, RetrySmaller, DecodeFails,
     NextChunk, SendEmbedding, ProcessToken

(* Steps between two batches: there is no row to sample. *)
LEMMA BetweenBatches ==
  ASSUME RowInv, pc \in {"lock", "tasks", "schedule"}, pc' \in {"lock", "tasks", "schedule"},
         UNCHANGED <<round, i_batch>>, NoEmbeddings' => NoEmbeddings
  PROVE  RowInv'
<1>1. UNCHANGED <<batch, n_batch, first, next_slot, evaluated, i_batch>>
  BY DEF round
<1>2. RowTypes' /\ RowsInOrder'
  BY <1>1 DEF RowInv, RowTypes, RowsInOrder
<1>3. OwnRows'
  BY <1>1 DEF RowInv, OwnRows
<1> QED
  BY <1>2, <1>3 DEF RowInv

(* Steps of the HTTP threads. *)
LEMMA BesideBatch ==
  ASSUME RowInv, UNCHANGED <<round, slots, pc>>, NoEmbeddings' => NoEmbeddings
  PROVE  RowInv'
<1>1. UNCHANGED <<batch, n_batch, first, next_slot, evaluated, i_batch, state, command, pc>>
  BY DEF round, slots
<1>2. RowTypes' /\ RowsInOrder'
  BY <1>1 DEF RowInv, RowTypes, RowsInOrder, LastOf
<1>3. OwnRows'
  BY <1>1 DEF RowInv, OwnRows, HasRow, LastOf
<1> QED
  BY <1>2, <1>3 DEF RowInv

(* A new batch has a row, the last of its own, for each slot that works.   *)
LEMMA ScheduleRows ==
  ASSUME IInv, RowInv, Schedule, NoEmbeddings' => NoEmbeddings
  PROVE  RowInv'
<1>1. /\ pc = "schedule" /\ batch' = NewBatch
      /\ i_batch' = [s \in Slots |-> IF s \in Generating \cup Loading THEN LastRow(NewBatch, s)
                                     ELSE i_batch[s]]
      /\ first' = 1 /\ next_slot' = 1 /\ evaluated' = {}
      /\ IF Generating \cup Loading = {} THEN pc' = "lock" ELSE pc' = "decode"
  BY DEF Schedule
<1>2. /\ state' = [s \in Slots |-> IF command[s] = "RELEASE" THEN "IDLE"
                                   ELSE IF s \in Loading THEN "PROCESSING" ELSE state[s]]
      /\ command' = [s \in Slots |-> IF command[s] = "RELEASE" \/ s \in Loading THEN "NONE"
                                     ELSE IF s \in Waiting THEN "RELEASE" ELSE command[s]]
  BY DEF Schedule
<1>3. /\ NewBatch \in Seq(Slots)
      /\ \A s \in Generating \cup Loading :
           LastRow(NewBatch, s) \in 1 .. Len(NewBatch) /\ NewBatch[LastRow(NewBatch, s)] = s
  BY NewBatchRows
<1>4. Generating \cup Loading \subseteq Slots
  BY DEF Generating, Loading, Waiting
<1>5. \A s \in Slots : i_batch[s] \in Nat
  BY DEF RowInv, RowTypes
<1>6. Len(NewBatch) \in Nat
  BY <1>3
<1>7. RowTypes'
  <2>1. \A s \in Slots : (IF s \in Generating \cup Loading THEN LastRow(NewBatch, s)
                          ELSE i_batch[s]) \in Nat
    BY <1>3, <1>5
  <2>2. i_batch' \in [Slots -> Nat]
    BY <1>1, <2>1
  <2>3. pc' = "decode" => 1 <= Len(NewBatch)
    BY <1>1, <1>3, <1>6
  <2> QED
    BY <1>1, <1>3, <2>2, <2>3 DEF RowTypes
<1>8. RowsInOrder'
  BY <1>1 DEF RowsInOrder
<1>9. OwnRows'
  <2> SUFFICES ASSUME NoEmbeddings
               PROVE  \A s \in Slots : \/ i_batch'[s] = NoRow
                                       \/ pc' = "decode" /\ HasRow(s)'
    BY <1>1 DEF OwnRows
  <2> TAKE s \in Slots
  <2>1. CASE s \in Generating \cup Loading
    <3>1. pc' = "decode" /\ i_batch'[s] = LastRow(NewBatch, s)
      BY <1>1, <2>1
    <3>2. state'[s] = "PROCESSING" /\ command'[s] # "RELEASE"
      BY <1>2, <2>1 DEF Generating, Loading, Waiting
    <3> QED
      BY <1>1, <1>3, <2>1, <3>1, <3>2 DEF HasRow
  <2>2. CASE s \notin Generating \cup Loading
    <3>1. i_batch'[s] = i_batch[s]
      BY <1>1, <2>2
    <3> QED
      BY <1>1, <3>1 DEF RowInv, OwnRows
  <2> QED
    BY <2>1, <2>2
<1> QED
  BY <1>7, <1>8, <1>9 DEF RowInv

(* The rows of the next chunk follow those that are decoded. *)
LEMMA DecodeRows ==
  ASSUME IInv, RowInv, DecodeChunk \/ RetrySmaller \/ DecodeFails
  PROVE  RowInv'
<1>1. UNCHANGED <<data, state, command, i_batch, batch, first>> /\ pc = "decode"
  BY DEF DecodeChunk, RetrySmaller, DecodeFails, http, slots, round
<1>2. n_batch \in Nat \ {0} /\ first \in Nat \ {0} /\ Len(batch) \in Nat /\ first <= Len(batch)
  BY <1>1 DEF IInv, TypeInv, RowInv, RowTypes
<1>3. RowTypes'
  <2>1. next_slot' \in Nat
    BY DEF DecodeChunk, RetrySmaller, DecodeFails, round, RowInv, RowTypes
  <2> QED
    BY <1>1, <1>2, <2>1 DEF RowInv, RowTypes
<1>4. RowsInOrder'
  <2>1. CASE DecodeChunk
    <3>1. pc' = "sample" /\ evaluated' = evaluated \cup first .. LastOf(first) /\ n_batch' = n_batch
      BY <2>1 DEF DecodeChunk, Chunk
    <3>2. LastOf(first) \in Int /\ LastOf(first) >= first
      BY <1>2, LastOfChunk
    <3>3. evaluated' = 1 .. LastOf(first)
      BY <1>1, <1>2, <3>1, <3>2 DEF RowInv, RowsInOrder
    <3>4. LastOf(first)' = LastOf(first)
      BY <1>1, <3>1 DEF LastOf
    <3> QED
      BY <3>1, <3>3, <3>4 DEF RowsInOrder
  <2>2. CASE RetrySmaller \/ DecodeFails
    BY <1>1, <2>2 DEF RetrySmaller, DecodeFails, round, RowInv, RowsInOrder
  <2> QED
    BY <2>1, <2>2
<1>5. OwnRows'
  <2> SUFFICES ASSUME NoEmbeddings
               PROVE  /\ pc' \in {"decode", "sample"} =>
                            \A s \in Slots : i_batch'[s] = NoRow \/ HasRow(s)'
                      /\ pc' \notin {"lock", "tasks", "schedule"}
                      /\ pc' = "sample" => next_slot' = 1
    <3>1. \A s \in Slots : ~(s < 1)
      BY DEF Slots
    <3>2. NoEmbeddings' => NoEmbeddings
      BY <1>1 DEF NoEmbeddings
    <3> QED
      BY <3>1, <3>2 DEF OwnRows
  <2>1. pc' \in {"decode", "sample", "stopped"} /\ (pc' = "sample" => next_slot' = 1)
    BY <1>1 DEF DecodeChunk, RetrySmaller, DecodeFails
  <2>2. \A s \in Slots : i_batch'[s] = NoRow \/ HasRow(s)'
    BY <1>1 DEF RowInv, OwnRows, HasRow
  <2> QED
    BY <2>1, <2>2
<1> QED
  BY <1>3, <1>4, <1>5 DEF RowInv

(* When the chunk is sampled, no slot has a row in it or before it. *)
LEMMA NextChunkRows ==
  ASSUME IInv, RowInv, NextChunk
  PROVE  RowInv'
<1>1. /\ pc = "sample" /\ ToSample = {} /\ first' = first + n_batch
      /\ pc' = IF first + n_batch > Len(batch) THEN "lock" ELSE "decode"
      /\ UNCHANGED <<data, state, command, i_batch, batch, n_batch, next_slot, evaluated>>
  BY DEF NextChunk, http, slots
<1>2. n_batch \in Nat \ {0} /\ first \in Nat \ {0} /\ Len(batch) \in Nat /\ first <= Len(batch)
  BY <1>1 DEF IInv, TypeInv, RowInv, RowTypes
<1>3. RowTypes'
  BY <1>1, <1>2 DEF RowInv, RowTypes
<1>4. RowsInOrder'
  <2> SUFFICES ASSUME pc' = "decode" PROVE evaluated' = 1 .. first' - 1
    BY <1>1 DEF RowsInOrder
  <2>1. LastOf(first) = first + n_batch - 1
    BY <1>1, <1>2, LastOfChunk
  <2> QED
    BY <1>1, <1>2, <2>1 DEF RowInv, RowsInOrder
<1>5. OwnRows'
  <2> SUFFICES ASSUME NoEmbeddings, NEW s \in Slots, i_batch[s] # NoRow
               PROVE  pc' = "decode" /\ HasRow(s)'
    BY <1>1 DEF OwnRows, NoEmbeddings
  <2>1. HasRow(s) /\ (s < next_slot => i_batch[s] > LastOf(first))
    BY <1>1 DEF RowInv, OwnRows
  <2>2. i_batch[s] \in Nat /\ next_slot \in Nat /\ s \in Nat
    BY SlotsAssumption DEF RowInv, RowTypes, Slots
  <2>3. i_batch[s] > LastOf(first)
    <3>1. s \notin ToSample
      BY <1>1
    <3>2. LastOf(first) \in Int
      BY <1>2, LastOfChunk
    <3> QED
      BY <2>1, <2>2, <3>1, <3>2 DEF ToSample, HasRow
  <2>4. i_batch[s] <= Len(batch)
    BY <2>1 DEF HasRow
  <2>5. i_batch[s] >= first + n_batch /\ first + n_batch <= Len(batch)
    BY <1>2, <2>2, <2>3, <2>4, LastOfChunk
  <2> QED
    BY <1>1, <1>2, <2>1, <2>2, <2>4, <2>5 DEF HasRow
<1> QED
  BY <1>3, <1>4, <1>5 DEF RowInv

(* The slots are sampled in order; a slot that is released has no row.     *)
LEMMA ProcessTokenRows ==
  ASSUME IInv, RowInv, ProcessToken
  PROVE  RowInv'
<1>1. PICK s \in Slots :
        /\ IsNext(s)
        /\ command' = command \/ command' = [command EXCEPT ![s] = "RELEASE"]
        /\ i_batch' = [i_batch EXCEPT ![s] = NoRow]
        /\ next_slot' = s + 1
  BY DEF ProcessToken
<1>2. pc = "sample" /\ UNCHANGED <<data, state, pc, batch, n_batch, first, evaluated>>
  BY DEF ProcessToken, http
<1>3. RowTypes'
  BY <1>1, <1>2, SlotsAssumption DEF RowInv, RowTypes, NoRow, Slots
<1>4. LastOf(first)' = LastOf(first)
  BY <1>2 DEF LastOf
<1>5. RowsInOrder'
  BY <1>2, <1>4 DEF RowInv, RowsInOrder
<1>6. OwnRows'
  <2> SUFFICES ASSUME NoEmbeddings, NEW x \in Slots, i_batch'[x] # NoRow
               PROVE  HasRow(x)' /\ (x < s + 1 => i_batch'[x] > LastOf(first))
    BY <1>1, <1>2, <1>4 DEF OwnRows, NoEmbeddings
  <2>1. x # s /\ i_batch'[x] = i_batch[x]
    BY <1>1 DEF RowInv, RowTypes
  <2>2. command'[x] = command[x]
    BY <1>1, <2>1 DEF IInv, TypeInv
  <2>3. HasRow(x) /\ (x < next_slot => i_batch[x] > LastOf(first))
    BY <1>2, <2>1 DEF RowInv, OwnRows
  <2>4. HasRow(x)'
    BY <1>2, <2>1, <2>2, <2>3 DEF HasRow
  <2>5. ASSUME x < s + 1 PROVE i_batch[x] > LastOf(first)
    <3>1. x \in Nat /\ s \in Nat /\ next_slot \in Nat /\ i_batch[x] \in Nat /\ first <= i_batch[x]
      BY <2>3, SlotsAssumption DEF RowInv, RowTypes, Slots, HasRow
    <3>2. x \notin ToSample
      BY <1>1, <2>1, <2>5, <3>1 DEF IsNext
    <3>3. LastOf(first) \in Int
      BY LastOfChunk DEF IInv, TypeInv, RowInv, RowTypes
    <3> QED
      BY <2>3, <3>1, <3>2, <3>3 DEF ToSample
  <2> QED
    BY <2>1, <2>4, <2>5
<1> QED
  BY <1>3, <1>5, <1>6 DEF RowInv

(* Whoever asks for an embedding ends the round, and what OwnRows says.    *)
LEMMA SendEmbeddingRows ==
  ASSUME IInv, RowInv, SendEmbedding
  PROVE  RowInv'
<1>1. PICK s \in Slots :
        IsNext(s) /\ data[task_id[s]].embedding /\ i_batch' = [i_batch EXCEPT ![s] = NoRow]
  BY DEF SendEmbedding
<1>2. pc' = "lock" /\ UNCHANGED <<data, batch, n_batch, first, next_slot, evaluated>>
  BY DEF SendEmbedding, http, round
<1>3. task_id[s] \in DOMAIN data
  BY <1>1, SampledOwns DEF IInv, OwnerInv
<1>4. ~NoEmbeddings'
  BY <1>1, <1>2, <1>3 DEF NoEmbeddings
<1>5. RowTypes' /\ RowsInOrder'
  BY <1>1, <1>2 DEF RowInv, RowTypes, RowsInOrder, NoRow
<1> QED
  BY <1>4, <1>5 DEF RowInv, OwnRows

(* RowInv is inductive, on top of IInv. *)
LEMMA NextRowInv == IInv /\ RowInv /\ [Next]_vars => RowInv'
<1> SUFFICES ASSUME IInv, RowInv, [Next]_vars PROVE RowInv'
  OBVIOUS
<1>1. NoEmbeddings' => NoEmbeddings
  BY KnownRequests
<1>2. CASE RequestCompletion \/ \E t \in Tasks : NextResult(t) \/ PeerGone(t) \/ RequestCancel(t)
  <2>1. UNCHANGED <<round, slots, pc>>
    BY <1>2 DEF RequestCompletion, NextResult, PeerGone, RequestCancel
  <2> QED
    BY <1>1, <2>1, BesideBatch
<1>3. CASE UNCHANGED vars
  BY <1>1, <1>3, BesideBatch DEF vars
<1>4. CASE LockTasks \/ NoMoreTasks \/ Refuse \/ Launch \/ CancelTask
  <2>1. /\ UNCHANGED <<round, i_batch>>
        /\ pc \in {"lock", "tasks", "schedule"} /\ pc' \in {"lock", "tasks", "schedule"}
    BY <1>4 DEF LockTasks, NoMoreTasks, Refuse, Launch, CancelTask, TaskIs, slots
  <2> QED
    BY <1>1, <2>1, BetweenBatches
<1>5. CASE Schedule
  BY <1>1, <1>5, ScheduleRows
<1>6. CASE DecodeChunk \/ RetrySmaller \/ DecodeFails
  BY <1>6, DecodeRows
<1>7. CASE NextChunk \/ SendEmbedding \/ ProcessToken
  BY <1>7, NextChunkRows, SendEmbeddingRows, ProcessTokenRows
<1> QED
  BY <1>2, <1>3, <1>4, <1>5, <1>6, <1>7 DEF Next, MainLoop

(* What the batch, its rows and the slots that have them have to do with   *)
(* each other, in every reachable state and for every n_batch.             *)
THEOREM RowsInductive == Spec => []RowInv
<1>1. Init => RowInv
  <2> SUFFICES ASSUME Init PROVE RowInv
    OBVIOUS
  <2>1. RowTypes /\ RowsInOrder
    BY DEF Init, RowTypes, RowsInOrder, NoRow
  <2>2. OwnRows
    BY DEF Init, OwnRows
  <2> QED
    BY <2>1, <2>2 DEF RowInv
<1> QED
  BY <1>1, Inductive, NextRowInv, PTL DEF Spec

(* The loop over the batch decodes its rows in order, none twice and none  *)
(* left out, however often llama_decode fails and n_batch is halved.       *)
THEOREM RowsDecodedInOrder == Spec => []RowsInOrder
<1>1. RowInv => RowsInOrder
  BY DEF RowInv
<1> QED
  BY <1>1, RowsInductive, PTL

(* slot.i_batch is a row of the slot itself in the batch that was decoded, *)
(* whatever slots were released, cancelled and launched in between.        *)
THEOREM SampledFromOwnRow == Spec => []OwnLogits
<1>1. IInv /\ RowInv => OwnLogits
  <2> SUFFICES ASSUME IInv, RowInv, NoEmbeddings, pc = "sample", NEW s \in ToSample
               PROVE  batch[i_batch[s]] = s
    BY DEF OwnLogits
  <2>1. s \in Slots /\ first <= i_batch[s] /\ first \in Nat \ {0}
    BY DEF ToSample, IInv, TypeInv
  <2> QED
    BY <2>1 DEF RowInv, OwnRows, HasRow, NoRow
<1> QED
  BY <1>1, Inductive, RowsInductive, PTL

(* A slot that is sampled works, so its request has not been answered. *)
LEMMA SampledWorks ==
  ASSUME IInv, RowInv, NoEmbeddings, pc = "sample", NEW s \in Slots, IsNext(s)
  PROVE  task_id[s] \notin ended
<1>1. i_batch[s] # NoRow
  BY DEF IsNext, ToSample, IInv, TypeInv, NoRow
<1>2. HasRow(s)
  BY <1>1 DEF RowInv, OwnRows
<1> QED
  BY <1>2 DEF HasRow, IInv, NoOrphanWork, Busy, Processing

(* A request gets one final result or error at most and nothing after it:  *)
(* the slot that has sent it is released before it is sampled again.       *)
THEOREM NothingAfterTheEnd == Spec => AnsweredOnce
<1>1. IInv /\ RowInv /\ [Next]_vars =>
        [NoEmbeddings => \A t \in ended : Len(queue_results'[t]) <= Len(queue_results[t])]_vars
  <2> SUFFICES ASSUME IInv, RowInv, Next, NoEmbeddings, NEW t \in ended
               PROVE  Len(queue_results'[t]) <= Len(queue_results[t])
    OBVIOUS
  <2>1. t \in Tasks /\ queue_results[t] \in Seq({"partial", "final", "error"})
    BY DEF IInv, TypeInv
  <2>2. Len(queue_results[t]) \in Nat
    BY <2>1
  <2>3. CASE queue_results' = queue_results
    BY <2>2, <2>3
  <2>4. ASSUME NEW x \in Tasks, x \notin ended, NEW r,
               queue_results' = [queue_results EXCEPT ![x] = r]
        PROVE  Len(queue_results'[t]) <= Len(queue_results[t])
    <3>1. queue_results'[t] = queue_results[t]
      BY <2>1, <2>4 DEF IInv, TypeInv
    <3> QED
      BY <2>2, <3>1
  <2>5. ASSUME NEW x \in Tasks, NextResult(x)
        PROVE  Len(queue_results'[t]) <= Len(queue_results[t])
    <3>1. queue_results[x] # <<>> /\ queue_results' = [queue_results EXCEPT ![x] = Tail(@)]
      BY <2>5 DEF NextResult
    <3>2. CASE x = t
      <4>1. queue_results'[t] = Tail(queue_results[t]) /\ queue_results[t] # <<>>
        BY <2>1, <3>1, <3>2 DEF IInv, TypeInv
      <4>2. Len(Tail(queue_results[t])) = Len(queue_results[t]) - 1
        BY <2>1, <4>1
      <4> QED
        BY <2>2, <4>1, <4>2
    <3>3. CASE x # t
      <4>1. queue_results'[t] = queue_results[t]
        BY <2>1, <3>1, <3>3 DEF IInv, TypeInv
      <4> QED
        BY <2>2, <4>1
    <3> QED
      BY <3>2, <3>3
  <2>6. CASE Refuse \/ Launch
    <3> DEFINE x == Head(queue_tasks).id
    <3>1. x \in Tasks /\ x \notin ended
      BY <2>6, CompletionHead DEF IInv, Refuse, Launch
    <3>2. queue_results' = queue_results \/ queue_results' = [queue_results EXCEPT ![x] = Append(@, "error")]
      BY <2>6 DEF Refuse, Launch, Send
    <3> HIDE DEF x
    <3> QED
      BY <2>3, <2>4, <3>1, <3>2
  <2>7. CASE Schedule
    <3> DEFINE empty == {task_id[s] : s \in Waiting \ Loading}
    <3>1. t \notin empty
      <4>1. \A s \in Waiting : s \in Slots /\ Busy(s)
        BY DEF Waiting, Busy, Processing
      <4> QED
        BY <4>1 DEF IInv, NoOrphanWork
    <3>2. queue_results' = [u \in Tasks |-> IF u \in empty THEN Append(queue_results[u], "final")
                                            ELSE queue_results[u]]
      BY <2>7 DEF Schedule
    <3> HIDE DEF empty
    <3>3. queue_results'[t] = queue_results[t]
      BY <2>1, <3>1, <3>2
    <3> QED
      BY <2>2, <3>3
  <2>8. CASE SendEmbedding
    <3>1. PICK s \in Slots : IsNext(s) /\ data[task_id[s]].embedding
      BY <2>8 DEF SendEmbedding
    <3>2. task_id[s] \in DOMAIN data
      BY <3>1, SampledOwns DEF IInv, OwnerInv
    <3> QED
      BY <3>1, <3>2 DEF NoEmbeddings
  <2>9. CASE ProcessToken
    <3>1. PICK s \in Slots :
            /\ IsNext(s)
            /\ \E r : queue_results' = [queue_results EXCEPT ![task_id[s]] = r]
      BY <2>9 DEF ProcessToken
    <3>2. task_id[s] \in Tasks /\ task_id[s] \notin ended
      BY <2>9, <3>1, SampledOwns, SampledWorks DEF ProcessToken
    <3> QED
      BY <2>4, <3>1, <3>2
  <2>10. CASE \/ RequestCompletion \/ LockTasks \/ NoMoreTasks \/ CancelTask
              \/ DecodeChunk \/ RetrySmaller \/ DecodeFails \/ NextChunk
              \/ \E x \in Tasks : PeerGone(x) \/ RequestCancel(x)
    BY <2>3, <2>10 DEF RequestCompletion, LockTasks, NoMoreTasks, CancelTask, DecodeChunk,
       RetrySmaller, DecodeFails, NextChunk, PeerGone, RequestCancel, queues
  <2> QED
    BY <2>5, <2>6, <2>7, <2>8, <2>9, <2>10 DEF Next, MainLoop
<1> QED
  BY <1>1, Inductive, RowsInductive, PTL DEF Spec, AnsweredOnce

===============================================================================
