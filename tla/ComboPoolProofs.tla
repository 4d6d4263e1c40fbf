---------------------------- MODULE ComboPoolProofs ----------------------------
(***************************************************************************)
(* Proofs about ComboPool for every number of threads and jobs: IInv is    *)
(* inductive and implies the safety properties.                            *)
(*                                                                         *)
(* Each conjunct of IInv has a lemma that says that a step preserves it,   *)
(* with one step per action, or per group of actions that only move their  *)
(* thread between labels that the conjunct does not tell apart.            *)
(***************************************************************************)
EXTENDS ComboPool, FiniteSetTheorems, TLAPS

-------------------------------------------------------------------------------
(* Counting *)

LEMMA ThreadsFinite == IsFiniteSet(Threads) /\ Cardinality(Threads) = N
  BY FS_Interval, NAssumption DEF Threads

(* Whoever is parked, the set of parked threads is finite, and it grows by *)
(* one when a thread parks.                                                *)
LEMMA ParkedFinite ==
  /\ IsFiniteSet(Parked)
  /\ Cardinality(Parked) \in Nat
<1>1. Parked \in SUBSET Threads
  BY DEF Parked
<1> QED
  BY <1>1, ThreadsFinite, FS_Subset, FS_CardinalityType

(* A thread that tests n_wait is not alone with a leader.                  *)
LEMMA TesterMeetsNoLeader ==
  ASSUME IInv, NEW t \in Threads, At(t, "test")
  PROVE  /\ ~exit
         /\ ~SomeAt(LeaderPCs)
         /\ n_wait = Cardinality(Parked)
<1>1. ~exit
  BY DEF IInv, CallerInv, At
<1>2. ~SomeAt(LeaderPCs)
  BY <1>1 DEF IInv, LeaderInv, SomeAt, Leader, At, LeaderPCs
<1> QED
  BY <1>1, <1>2 DEF IInv, CountInv

(* n_wait == n_threads - 1 really means that all the others are parked.    *)
LEMMA LastToPark ==
  ASSUME IInv, NEW t \in Threads, At(t, "test"), n_wait = N - 1
  PROVE  Parked = Threads \ {t}
<1>1. Cardinality(Parked) = N - 1
  BY TesterMeetsNoLeader
<1>2. /\ IsFiniteSet(Threads \ {t})
      /\ Cardinality(Threads \ {t}) = N - 1
  BY ThreadsFinite, FS_RemoveElement
<1>3. Parked \in SUBSET (Threads \ {t})
  BY DEF Parked, At
<1> QED
  BY <1>1, <1>2, <1>3, FS_Subset

(* A thread that has not parked keeps n_wait below n_threads.              *)
LEMMA NWaitBelowN ==
  ASSUME IInv, NEW t \in Threads, At(t, "test")
  PROVE  n_wait \in 0 .. N - 1
<1>1. Parked \in SUBSET (Threads \ {t})
  BY DEF Parked, At
<1>2. /\ IsFiniteSet(Threads \ {t})
      /\ Cardinality(Threads \ {t}) = N - 1
  BY ThreadsFinite, FS_RemoveElement
<1>3. Cardinality(Parked) <= N - 1
  BY <1>1, <1>2, FS_Subset
<1> QED
  BY <1>3, TesterMeetsNoLeader, ParkedFinite, NAssumption

(* When another thread parks instead, somebody is still running.           *)
LEMMA NotLastToPark ==
  ASSUME IInv, NEW t \in Threads, At(t, "test"), n_wait # N - 1
  PROVE  \E u \in Threads : u # t /\ ~At(u, "wait")
<1> SUFFICES ASSUME \A u \in Threads : u # t => At(u, "wait")
             PROVE  FALSE
  OBVIOUS
<1>1. Parked = Threads \ {t}
  BY DEF Parked, At
<1>2. Cardinality(Parked) = N - 1
  BY <1>1, ThreadsFinite, FS_RemoveElement
<1> QED
  BY <1>2, TesterMeetsNoLeader

-------------------------------------------------------------------------------
(* The initial state *)

LEMMA InitIInv == Init => IInv
<1> SUFFICES ASSUME Init PROVE IInv
  OBVIOUS
<1> USE NAssumption, NJobsAssumption DEF Init, At, SomeAt, LeaderPCs
<1>1. TypeOK
  <2>1. /\ pc \in [Threads -> LeaderPCs \cup FollowerPCs]
        /\ mpc \in MainPCs
        /\ jobs \in Seq(JobIds)
    BY DEF FollowerPCs, MainPCs
  <2>2. /\ pending \in [JobIds -> 0 .. 1]
        /\ done \in [JobIds -> SUBSET Threads]
    OBVIOUS
  <2>3. /\ n_wait \in 0 .. N /\ nth \in 0 .. N
        /\ submitted \in 0 .. NJobs
    OBVIOUS
  <2> QED
    BY <2>1, <2>2, <2>3 DEF TypeOK
<1>2. LockInv
  BY DEF LockInv, Threads, Main, Free
<1>3. LeaderInv
  BY DEF LeaderInv, Leader
<1>4. CountInv
  <2>1. Parked = {}
    BY DEF Parked
  <2>2. 0 \in Threads
    BY DEF Threads
  <2> QED
    BY <2>1, <2>2, FS_EmptySet DEF CountInv, Leader
<1>5. QueueInv
  BY DEF QueueInv, NullJob
<1>6. PendingInv
  BY DEF PendingInv, NullJob, JobIds
<1>7. PhaseInv
  BY DEF PhaseInv, NullJob, StartPCs
<1>8. DoneInv
  BY DEF DoneInv, NullJob, JobIds
<1>9. CallerInv
  BY DEF CallerInv, BetweenGraphs
<1> QED
  BY <1>1, <1>2, <1>3, <1>4, <1>5, <1>6, <1>7, <1>8, <1>9 DEF IInv

-------------------------------------------------------------------------------
(* Type correctness *)

LEMMA TypeStep ==
  ASSUME IInv, [Next]_vars
  PROVE  TypeOK'
<1> USE NAssumption DEF IInv, TypeOK, shared, main, At, Goto, LeaderPCs, FollowerPCs,
            MainPCs
<1>1. ASSUME NEW t \in Threads,
             Lock(t) \/ Lead(t) \/ Wake(t) \/ Check(t) \/ Finalize(t)
      PROVE  TypeOK'
  BY <1>1 DEF Lock, Lead, Wake, Check, Finalize
<1>2. ASSUME NEW t \in Threads, Park(t) PROVE TypeOK'
  <2>1. n_wait \in 0 .. N - 1
    BY <1>2, NWaitBelowN DEF Park
  <2> QED
    BY <1>2, <2>1 DEF Park
<1>3. ASSUME NEW t \in Threads, Compute(t) PROVE TypeOK'
  BY <1>3 DEF Compute
<1>4. ASSUME NEW t \in Threads, Retire(t) PROVE TypeOK'
  <2>1. /\ work_node \in JobIds
        /\ ~exit
        /\ ~SomeAt(RestPCs)
    BY <1>4 DEF Retire, PhaseInv, CallerInv, LeaderInv, Leader, SomeAt, RestPCs
  <2>2. pending[work_node] = 1
    BY <2>1 DEF PendingInv, Resting, JobIds, NullJob
  <2> QED
    BY <1>4, <2>1, <2>2 DEF Retire
<1>5. ASSUME NEW t \in Threads,
             Drain(t) \/ IdleLock(t) \/ SetIdle(t) \/ Poll(t) \/ PollExit(t)
      PROVE  TypeOK'
  BY <1>5 DEF Drain, IdleLock, SetIdle, Poll, PollExit
<1>6. ASSUME NEW t \in Threads, Claim(t) \/ Release(t) PROVE TypeOK'
  BY <1>6 DEF Claim, Release
<1>7. ASSUME NEW t \in Threads, Get(t) PROVE TypeOK'
  BY <1>7, NTasksAssumption DEF Get, QueueInv, SomeAt
<1>8. ASSUME NEW t \in Threads, InitDone(t) PROVE TypeOK'
  BY <1>8 DEF InitDone
<1>9. ASSUME NEW t \in Threads, Broadcast(t) PROVE TypeOK'
  BY <1>9 DEF Broadcast, Woken
<1>10. ASSUME NEW t \in Threads, Solo(t) PROVE TypeOK'
  <2>1. 0 \in Threads
    BY DEF Threads
  <2>2. done' \in [JobIds -> SUBSET Threads]
    BY <1>10, <2>1 DEF Solo
  <2>3. pc' \in [Threads -> LeaderPCs \cup FollowerPCs]
    BY <1>10 DEF Solo
  <2> QED
    BY <1>10, <2>2, <2>3 DEF Solo
<1>11. CASE Submit
  BY <1>11, NJobsAssumption DEF Submit, JobIds
<1>12. CASE TestEmpty \/ MainLock \/ MainTest \/ MainWake \/ MainUnlock
  BY <1>12 DEF TestEmpty, MainLock, MainTest, MainWake, MainUnlock
<1>13. CASE Kill
  BY <1>13 DEF Kill, Woken
<1>14. CASE Join \/ Delete
  BY <1>14 DEF Join, Delete
<1>15. CASE UNCHANGED vars
  BY <1>15 DEF vars
<1> QED
  BY <1>1, <1>2, <1>3, <1>4, <1>5, <1>6, <1>7, <1>8, <1>9, <1>10,
     <1>11, <1>12, <1>13, <1>14, <1>15
     DEF Next, WorkerStep, MainStep, Terminated

-------------------------------------------------------------------------------
(* The mutex, and who may be active beside a leader *)

LEMMA LockStep ==
  ASSUME IInv, [Next]_vars
  PROVE  LockInv'
<1> USE NAssumption DEF IInv, TypeOK, LockInv, shared, main, At, Goto, Threads, Main, Free
<1>1. ASSUME NEW t \in Threads,
             Lock(t) \/ Lead(t) \/ Park(t) \/ Wake(t) \/ Check(t) \/ Compute(t)
      PROVE  LockInv'
  BY <1>1 DEF Lock, Lead, Park, Wake, Check, Compute
<1>2. ASSUME NEW t \in Threads,
             Finalize(t) \/ Retire(t) \/ Drain(t) \/ IdleLock(t) \/ SetIdle(t)
      PROVE  LockInv'
  BY <1>2 DEF Finalize, Retire, Drain, IdleLock, SetIdle
<1>3. ASSUME NEW t \in Threads,
             Poll(t) \/ PollExit(t) \/ Claim(t) \/ Get(t)
      PROVE  LockInv'
  BY <1>3 DEF Poll, PollExit, Claim, Get
<1>4. ASSUME NEW t \in Threads,
             InitDone(t) \/ Release(t) \/ Broadcast(t) \/ Solo(t)
      PROVE  LockInv'
  BY <1>4 DEF InitDone, Release, Broadcast, Solo, Woken
<1>5. CASE Submit \/ TestEmpty \/ Delete
  BY <1>5 DEF Submit, TestEmpty, Delete, BetweenGraphs
<1>6. CASE MainLock \/ MainTest \/ MainWake \/ MainUnlock
  BY <1>6 DEF MainLock, MainTest, MainWake, MainUnlock
<1>7. CASE Kill \/ Join
  BY <1>7 DEF Kill, Join, Woken
<1>8. CASE UNCHANGED vars
  BY <1>8 DEF vars
<1> QED
  BY <1>1, <1>2, <1>3, <1>4, <1>5, <1>6, <1>7, <1>8
     DEF Next, WorkerStep, MainStep, Terminated

LEMMA LeaderStep ==
  ASSUME IInv, [Next]_vars
  PROVE  LeaderInv'
<1> USE DEF IInv, TypeOK, LeaderInv, Leader, LeaderPCs, shared, main, At, Goto
<1>1. ASSUME NEW t \in Threads,
             Lock(t) \/ Park(t) \/ Wake(t) \/ Check(t) \/ Compute(t)
      PROVE  LeaderInv'
  BY <1>1 DEF Lock, Park, Wake, Check, Compute
<1>2. ASSUME NEW t \in Threads, Lead(t) PROVE LeaderInv'
  <2>1. \A u \in Threads \ {t} : At(u, "wait")
    BY <1>2, LastToPark DEF Lead, Parked
  <2> QED
    BY <1>2, <2>1 DEF Lead
<1>3. ASSUME NEW t \in Threads,
             Finalize(t) \/ Retire(t) \/ Drain(t) \/ IdleLock(t) \/ SetIdle(t)
      PROVE  LeaderInv'
  BY <1>3 DEF Finalize, Retire, Drain, IdleLock, SetIdle
<1>4. ASSUME NEW t \in Threads,
             Poll(t) \/ PollExit(t) \/ Claim(t) \/ Get(t)
      PROVE  LeaderInv'
  BY <1>4 DEF Poll, PollExit, Claim, Get
<1>5. ASSUME NEW t \in Threads,
             InitDone(t) \/ Release(t) \/ Broadcast(t) \/ Solo(t)
      PROVE  LeaderInv'
  BY <1>5 DEF InitDone, Release, Broadcast, Solo, Woken
<1>6. CASE Submit \/ TestEmpty \/ Delete
  BY <1>6 DEF Submit, TestEmpty, Delete
<1>7. CASE MainLock \/ MainTest \/ MainWake \/ MainUnlock
  BY <1>7 DEF MainLock, MainTest, MainWake, MainUnlock
<1>8. CASE Kill \/ Join
  BY <1>8 DEF Kill, Join, Woken
<1>9. CASE UNCHANGED vars
  BY <1>9 DEF vars
<1> QED
  BY <1>1, <1>2, <1>3, <1>4, <1>5, <1>6, <1>7, <1>8, <1>9
     DEF Next, WorkerStep, MainStep, Terminated

-------------------------------------------------------------------------------
(* n_wait counts the parked threads *)

LEMMA CountStep ==
  ASSUME IInv, [Next]_vars
  PROVE  CountInv'
<1> USE NAssumption DEF IInv, TypeOK, CountInv, LeaderInv, Leader, LeaderPCs,
        SomeAt, shared, main, At, Goto
<1>1. ASSUME NEW t \in Threads,
             Lock(t) \/ Wake(t) \/ Check(t) \/ Compute(t)
      PROVE  CountInv'
  <2>1. Parked' = Parked
    BY <1>1 DEF Parked, Lock, Wake, Check, Compute
  <2>2. /\ ~At(t, "wait")'
        /\ n_wait' = n_wait /\ exit' = exit
        /\ \A u \in Threads : Leader(u)' => Leader(u) /\ pc'[u] = pc[u]
        /\ SomeAt(LeaderPCs) => SomeAt(LeaderPCs)'
    BY <1>1 DEF Lock, Wake, Check, Compute
  <2> QED
    BY <2>1, <2>2
<1>2. ASSUME NEW t \in Threads, Lead(t) PROVE CountInv'
  BY <1>2 DEF Lead, CallerInv
<1>3. ASSUME NEW t \in Threads, Park(t) PROVE CountInv'
  <2>1. /\ ~exit /\ ~SomeAt(LeaderPCs)
        /\ n_wait = Cardinality(Parked)
    BY <1>3, TesterMeetsNoLeader DEF Park
  <2>2. Parked' = Parked \cup {t} /\ t \notin Parked
    BY <1>3 DEF Park, Parked
  <2>3. Cardinality(Parked') = Cardinality(Parked) + 1
    BY <2>2, ParkedFinite, FS_AddElement
  <2>4. \E u \in Threads : u # t /\ ~At(u, "wait")
    BY <1>3, NotLastToPark DEF Park
  <2>5. \E u \in Threads : ~At(u, "wait")'
    BY <1>3, <2>4 DEF Park
  <2>6. \A u \in Threads : ~Leader(u)'
    BY <1>3, <2>1 DEF Park
  <2> QED
    BY <1>3, <2>1, <2>3, <2>5, <2>6 DEF Park
<1>4. ASSUME NEW t \in Threads,
             Finalize(t) \/ Retire(t) \/ Drain(t) \/ IdleLock(t) \/ SetIdle(t)
      PROVE  CountInv'
  BY <1>4 DEF Finalize, Retire, Drain, IdleLock, SetIdle
<1>5. ASSUME NEW t \in Threads,
             Poll(t) \/ Claim(t) \/ Get(t)
      PROVE  CountInv'
  BY <1>5 DEF Poll, Claim, Get
<1>6. ASSUME NEW t \in Threads, PollExit(t) PROVE CountInv'
  BY <1>6 DEF PollExit
<1>7. ASSUME NEW t \in Threads,
             InitDone(t) \/ Release(t) \/ Solo(t)
      PROVE  CountInv'
  BY <1>7 DEF InitDone, Release, Solo
<1>8. ASSUME NEW t \in Threads, Broadcast(t) PROVE CountInv'
  <2>1. n_wait' = 0
    BY <1>8 DEF Broadcast
  <2>2. \A u \in Threads : ~At(u, "wait")' /\ ~Leader(u)'
    BY <1>8 DEF Broadcast, Woken
  <2>3. Parked' = {}
    BY <2>2 DEF Parked
  <2> QED
    BY <2>1, <2>2, <2>3, FS_EmptySet
<1>9. CASE Submit \/ TestEmpty \/ Delete
  <2>1. UNCHANGED <<pc, n_wait, exit>>
    BY <1>9 DEF Submit, TestEmpty, Delete
  <2> QED
    BY <2>1 DEF Parked
<1>10. CASE MainLock \/ MainTest \/ MainWake \/ MainUnlock \/ Join
  <2>1. UNCHANGED <<pc, n_wait, exit>>
    BY <1>10 DEF MainLock, MainTest, MainWake, MainUnlock, Join
  <2> QED
    BY <2>1 DEF Parked
<1>11. CASE Kill
  BY <1>11 DEF Kill, Woken
<1>12. CASE UNCHANGED vars
  BY <1>12 DEF vars, Parked
<1> QED
  BY <1>1, <1>2, <1>3, <1>4, <1>5, <1>6, <1>7, <1>8, <1>9, <1>10,
     <1>11, <1>12
     DEF Next, WorkerStep, MainStep, Terminated

-------------------------------------------------------------------------------
(* The queue and the current job *)

(* Appending the next number to a queue of consecutive numbers.            *)
LEMMA AppendNext ==
  ASSUME NEW S, NEW q \in Seq(S), NEW w \in Nat, NEW s,
         s = Len(q) + w,
         \A i \in 1 .. Len(q) : q[i] = w + i
  PROVE  /\ Append(q, s + 1) # <<>>
         /\ Len(Append(q, s + 1)) + w = s + 1
         /\ \A i \in 1 .. Len(Append(q, s + 1)) : Append(q, s + 1)[i] = w + i
<1> DEFINE r == Append(q, s + 1)
<1>1. Len(q) \in Nat /\ Len(r) = Len(q) + 1
  OBVIOUS
<1>2. ASSUME NEW i \in 1 .. Len(r) PROVE r[i] = w + i
  <2>1. CASE i = Len(q) + 1
    BY <1>1, <2>1
  <2>2. CASE i # Len(q) + 1
    BY <1>1, <2>2
  <2> QED
    BY <2>1, <2>2
<1>3. r # <<>>
  <2>1. Len(<<>>) = 0 /\ Len(r) # 0
    BY <1>1
  <2> HIDE DEF r
  <2> QED
    BY <2>1
<1> QED
  BY <1>1, <1>2, <1>3

LEMMA QueueStep ==
  ASSUME IInv, [Next]_vars
  PROVE  QueueInv'
<1> USE DEF IInv, TypeOK, QueueInv, LeaderInv, Leader, LeaderPCs, SomeAt,
        shared, main, At, Goto, NullJob, JobIds
<1>1. ASSUME NEW t \in Threads,
             Lock(t) \/ Lead(t) \/ Park(t) \/ Wake(t) \/ Check(t) \/ Compute(t)
      PROVE  QueueInv'
  BY <1>1 DEF Lock, Lead, Park, Wake, Check, Compute
<1>2. ASSUME NEW t \in Threads,
             Finalize(t) \/ Retire(t) \/ Drain(t) \/ IdleLock(t) \/ SetIdle(t)
      PROVE  QueueInv'
  BY <1>2 DEF Finalize, Retire, Drain, IdleLock, SetIdle
<1>3. ASSUME NEW t \in Threads, Poll(t) \/ PollExit(t) \/ Claim(t)
      PROVE  QueueInv'
  BY <1>3 DEF Poll, PollExit, Claim
<1>4. ASSUME NEW t \in Threads, Get(t) PROVE QueueInv'
  <2>1. /\ jobs # <<>>
        /\ work_node' = Head(jobs) /\ jobs' = Tail(jobs)
        /\ submitted' = submitted
    BY <1>4 DEF Get
  <2>2. work_node' = work_node + 1
    BY <2>1
  <2>3. /\ Len(jobs') = Len(jobs) - 1
        /\ \A i \in 1 .. Len(jobs') : jobs'[i] = jobs[i + 1]
    BY <2>1
  <2>4. ~SomeAt({"claim", "get"})'
    BY <1>4 DEF Get
  <2>5. \A i \in 1 .. Len(jobs') : jobs'[i] = work_node' + i
    BY <2>2, <2>3
  <2> QED
    BY <2>1, <2>2, <2>3, <2>4, <2>5
<1>5. ASSUME NEW t \in Threads,
             InitDone(t) \/ Release(t) \/ Broadcast(t) \/ Solo(t)
      PROVE  QueueInv'
  BY <1>5 DEF InitDone, Release, Broadcast, Solo, Woken
<1>6. CASE Submit
  <2>1. /\ jobs' = Append(jobs, submitted + 1)
        /\ submitted' = submitted + 1 /\ work_node' = work_node /\ pc' = pc
    BY <1>6 DEF Submit
  <2>2. /\ jobs \in Seq(1 .. NJobs) /\ work_node \in Nat
        /\ submitted = Len(jobs) + work_node
        /\ \A i \in 1 .. Len(jobs) : jobs[i] = work_node + i
    OBVIOUS
  <2>3. /\ jobs' # <<>>
        /\ Len(jobs') + work_node' = submitted'
        /\ \A i \in 1 .. Len(jobs') : jobs'[i] = work_node' + i
    <3> HIDE DEF IInv, TypeOK, QueueInv, JobIds
    <3> QED
      BY <2>1, <2>2, AppendNext
  <2> QED
    BY <2>3
<1>7. CASE TestEmpty \/ Delete
  BY <1>7 DEF TestEmpty, Delete
<1>8. CASE MainLock \/ MainTest \/ MainWake \/ MainUnlock
  BY <1>8 DEF MainLock, MainTest, MainWake, MainUnlock
<1>9. CASE Kill \/ Join
  BY <1>9 DEF Kill, Join, Woken
<1>10. CASE UNCHANGED vars
  BY <1>10 DEF vars
<1> QED
  BY <1>1, <1>2, <1>3, <1>4, <1>5, <1>6, <1>7, <1>8, <1>9, <1>10
     DEF Next, WorkerStep, MainStep, Terminated

(* While a leader works on a job that is not complete, nobody is resting.  *)
LEMMA BusyLeader ==
  ASSUME IInv, NEW t \in Threads, pc[t] \in StartPCs \cup EndPCs
  PROVE  ~Resting
  BY DEF IInv, CallerInv, LeaderInv, Leader, LeaderPCs, Resting, SomeAt,
         RestPCs, StartPCs, EndPCs, At

(* Without a leader and before exit nobody is resting either.              *)
LEMMA RestingThread ==
  ASSUME IInv, NEW t \in Threads, pc[t] \in RestPCs
  PROVE  /\ Resting
         /\ ~SomeAt(StartPCs \cup EndPCs)
  BY DEF IInv, CallerInv, LeaderInv, Leader, LeaderPCs, Resting, SomeAt,
         RestPCs, StartPCs, EndPCs, At

(* n_wait == n_threads: a leader polls an empty queue, or the pool exits.  *)
LEMMA IdlePool ==
  ASSUME IInv, n_wait = N, jobs = <<>>, ~exit
  PROVE  \E t \in Threads :
            /\ pc[t] \in {"poll", "pollexit"}
            /\ \A u \in Threads \ {t} : At(u, "wait")
<1> USE NAssumption DEF IInv
<1>1. SomeAt(LeaderPCs)
  <2> SUFFICES ASSUME ~SomeAt(LeaderPCs) PROVE FALSE
    OBVIOUS
  <2>1. /\ Cardinality(Parked) = N
        /\ \E t \in Threads : ~At(t, "wait")
    BY DEF CountInv
  <2>2. Parked \in SUBSET Threads /\ Parked # Threads
    BY <2>1 DEF Parked
  <2> QED
    BY <2>1, <2>2, ThreadsFinite, FS_Subset
<1>2. PICK t \in Threads : Leader(t)
  BY <1>1 DEF SomeAt, Leader
<1>3. pc[t] \in {"poll", "pollexit"}
  BY <1>2 DEF CountInv, QueueInv, SomeAt, TypeOK, At
<1> QED
  BY <1>2, <1>3 DEF LeaderInv

(* The pool is told to exit when a leader polls an empty queue.            *)
LEMMA KillAtRest ==
  ASSUME IInv, Kill
  PROVE  /\ n_wait = N /\ jobs = <<>> /\ ~exit
         /\ Resting
         /\ \E t \in Threads :
               /\ pc[t] \in {"poll", "pollexit"}
               /\ \A u \in Threads \ {t} : At(u, "wait")
<1>1. n_wait = N /\ jobs = <<>> /\ ~exit
  BY DEF Kill, IInv, CallerInv
<1>2. \E t \in Threads :
         /\ pc[t] \in {"poll", "pollexit"}
         /\ \A u \in Threads \ {t} : At(u, "wait")
  BY <1>1, IdlePool
<1> QED
  BY <1>1, <1>2 DEF Resting, SomeAt, RestPCs

(* The steps that neither complete the current job nor take the next one.  *)
LEMMA RestingFrame ==
  ASSUME TypeOK, NEW t \in Threads, exit' = exit,
         \/ /\ pc' = [pc EXCEPT ![t] = pc'[t]]
            /\ pc[t] \in RestPCs <=> pc'[t] \in RestPCs
         \/ exit
  PROVE  Resting' <=> Resting
  BY DEF TypeOK, Resting, SomeAt

LEMMA PendingFrame ==
  ASSUME PendingInv, UNCHANGED <<pending, work_node>>,
         work_node = NullJob \/ (Resting' <=> Resting)
  PROVE  PendingInv'
  BY DEF PendingInv

LEMMA PendingStep ==
  ASSUME IInv, [Next]_vars
  PROVE  PendingInv'
<1> USE DEF shared, main, At, Goto
<1>0. TypeOK /\ PendingInv
  BY DEF IInv
<1>1. ASSUME NEW t \in Threads,
             Lock(t) \/ Lead(t) \/ Park(t) \/ Wake(t) \/ Check(t) \/ Compute(t)
      PROVE  PendingInv'
  <2>1. /\ UNCHANGED <<pending, work_node, exit>>
        /\ pc' = [pc EXCEPT ![t] = pc'[t]]
        /\ pc[t] \notin RestPCs /\ pc'[t] \notin RestPCs
    BY <1>0, <1>1
       DEF Lock, Lead, Park, Wake, Check, Compute, TypeOK, RestPCs
  <2> QED
    BY <1>0, <2>1, RestingFrame, PendingFrame
<1>2. ASSUME NEW t \in Threads, Finalize(t) PROVE PendingInv'
  <2>1. CASE work_node = NullJob
    BY <1>0, <1>2, <2>1, PendingFrame DEF Finalize
  <2>2. CASE work_node # NullJob
    <3>1. /\ UNCHANGED <<pending, work_node, exit>>
          /\ pc' = [pc EXCEPT ![t] = pc'[t]]
          /\ pc[t] \notin RestPCs /\ pc'[t] \notin RestPCs
      BY <1>0, <1>2, <2>2 DEF Finalize, TypeOK, RestPCs
    <3> QED
      BY <1>0, <3>1, RestingFrame, PendingFrame
  <2> QED
    BY <2>1, <2>2
<1>3. ASSUME NEW t \in Threads, Retire(t) PROVE PendingInv'
  <2>1. work_node \in JobIds /\ ~Resting
    BY <1>3, BusyLeader DEF Retire, IInv, TypeOK, PhaseInv, EndPCs, SomeAt
  <2>2. pending[work_node] = 1
    BY <1>0, <2>1 DEF PendingInv, TypeOK, JobIds, NullJob
  <2>3. pending' = [pending EXCEPT ![work_node] = 0] /\ work_node' = work_node
    BY <1>3, <2>2 DEF Retire
  <2>4. Resting'
    BY <1>0, <1>3 DEF Retire, Resting, SomeAt, RestPCs, TypeOK
  <2> QED
    BY <1>0, <2>1, <2>3, <2>4 DEF PendingInv, TypeOK, JobIds
<1>4. ASSUME NEW t \in Threads,
             Drain(t) \/ IdleLock(t) \/ SetIdle(t) \/ Poll(t) \/ Claim(t)
      PROVE  PendingInv'
  <2>1. /\ UNCHANGED <<pending, work_node, exit>>
        /\ pc' = [pc EXCEPT ![t] = pc'[t]]
        /\ pc[t] \in RestPCs /\ pc'[t] \in RestPCs
    BY <1>0, <1>4
       DEF Drain, IdleLock, SetIdle, Poll, Claim, TypeOK, RestPCs
  <2> QED
    BY <1>0, <2>1, RestingFrame, PendingFrame
<1>5. ASSUME NEW t \in Threads, PollExit(t) PROVE PendingInv'
  <2>1. /\ UNCHANGED <<pending, work_node, exit>>
        /\ exit \/ /\ pc' = [pc EXCEPT ![t] = pc'[t]]
                   /\ pc[t] \in RestPCs /\ pc'[t] \in RestPCs
    BY <1>0, <1>5 DEF PollExit, TypeOK, RestPCs
  <2> QED
    BY <1>0, <2>1, RestingFrame, PendingFrame
<1>6. ASSUME NEW t \in Threads, Get(t) PROVE PendingInv'
  <2>1. /\ jobs # <<>> /\ pending' = pending /\ exit' = exit
        /\ work_node' = work_node + 1 /\ work_node' \in JobIds
    BY <1>0, <1>6 DEF Get, IInv, QueueInv, SomeAt, TypeOK
  <2>2. work_node = NullJob \/ pending[work_node] = 0
    BY <1>0, <1>6, RestingThread DEF Get, RestPCs, PendingInv
  <2>3. pc' = [pc EXCEPT ![t] = "init"]
    BY <1>6 DEF Get
  <2>4. ~exit /\ \A u \in Threads \ {t} : At(u, "wait")
    BY <1>6 DEF Get, IInv, CallerInv, LeaderInv, Leader, LeaderPCs
  <2>5. ~Resting'
    BY <1>0, <2>1, <2>3, <2>4 DEF Resting, SomeAt, RestPCs, TypeOK
  <2> QED
    BY <1>0, <2>1, <2>2, <2>5 DEF PendingInv, TypeOK, JobIds, NullJob
<1>7. ASSUME NEW t \in Threads, InitDone(t) \/ Release(t) \/ Solo(t)
      PROVE  PendingInv'
  <2>1. /\ UNCHANGED <<pending, work_node, exit>>
        /\ pc' = [pc EXCEPT ![t] = pc'[t]]
        /\ pc[t] \notin RestPCs /\ pc'[t] \notin RestPCs
    BY <1>0, <1>7 DEF InitDone, Release, Solo, TypeOK, RestPCs
  <2> QED
    BY <1>0, <2>1, RestingFrame, PendingFrame
<1>8. ASSUME NEW t \in Threads, Broadcast(t) PROVE PendingInv'
  <2>1. ~Resting
    BY <1>8, BusyLeader DEF Broadcast, StartPCs
  <2>2. ~Resting'
    BY <1>8, <2>1 DEF Broadcast, Resting, SomeAt, RestPCs, Woken
  <2> QED
    BY <1>0, <1>8, <2>1, <2>2, PendingFrame DEF Broadcast
<1>9. CASE Submit \/ TestEmpty \/ Delete \/ Join
  <2>1. UNCHANGED <<pc, pending, work_node, exit>>
    BY <1>9 DEF Submit, TestEmpty, Delete, Join
  <2> QED
    BY <1>0, <2>1 DEF PendingInv, Resting, SomeAt
<1>10. CASE MainLock \/ MainTest \/ MainWake \/ MainUnlock
  <2>1. UNCHANGED <<pc, pending, work_node, exit>>
    BY <1>10 DEF MainLock, MainTest, MainWake, MainUnlock
  <2> QED
    BY <1>0, <2>1 DEF PendingInv, Resting, SomeAt
<1>11. CASE Kill
  <2>1. Resting /\ Resting'
    BY <1>11, KillAtRest DEF Kill, IInv, Resting
  <2> QED
    BY <1>0, <1>11, <2>1, PendingFrame DEF Kill
<1>12. CASE UNCHANGED vars
  BY <1>0, <1>12 DEF vars, PendingInv, Resting, SomeAt
<1> QED
  BY <1>1, <1>2, <1>3, <1>4, <1>5, <1>6, <1>7, <1>8, <1>9, <1>10,
     <1>11, <1>12
     DEF Next, WorkerStep, MainStep, Terminated

LEMMA PhaseStep ==
  ASSUME IInv, [Next]_vars
  PROVE  PhaseInv'
<1> USE DEF IInv, TypeOK, PhaseInv, SomeAt, StartPCs, shared, main, At, Goto
<1>1. ASSUME NEW t \in Threads,
             Lock(t) \/ Lead(t) \/ Park(t) \/ Wake(t) \/ Check(t) \/ Compute(t)
      PROVE  PhaseInv'
  BY <1>1 DEF Lock, Lead, Park, Wake, Check, Compute
<1>2. ASSUME NEW t \in Threads,
             Finalize(t) \/ Retire(t) \/ Drain(t) \/ IdleLock(t) \/ SetIdle(t)
      PROVE  PhaseInv'
  BY <1>2 DEF Finalize, Retire, Drain, IdleLock, SetIdle
<1>3. ASSUME NEW t \in Threads, Poll(t) \/ PollExit(t) \/ Claim(t)
      PROVE  PhaseInv'
  BY <1>3 DEF Poll, PollExit, Claim
<1>4. ASSUME NEW t \in Threads, Get(t) PROVE PhaseInv'
  <2>1. /\ work_node' \in JobIds /\ nth' = NTasks[work_node']
        /\ pc' = [pc EXCEPT ![t] = "init"]
    BY <1>4 DEF Get, QueueInv
  <2>2. ~SomeAt(StartPCs)
    BY <1>4, RestingThread DEF Get, RestPCs
  <2> QED
    BY <2>1, <2>2 DEF JobIds, NullJob
<1>5. ASSUME NEW t \in Threads, InitDone(t) PROVE PhaseInv'
  <2>1. work_node \in JobIds /\ nth \in 1 .. N
    BY <1>5, NTasksAssumption DEF InitDone
  <2>2. nth > 1 \/ nth = 1
    BY <2>1, NAssumption
  <2> QED
    BY <1>5, <2>1, <2>2, NAssumption DEF InitDone, JobIds, NullJob
<1>6. ASSUME NEW t \in Threads, Release(t) \/ Broadcast(t) \/ Solo(t)
      PROVE  PhaseInv'
  BY <1>6 DEF Release, Broadcast, Solo, Woken
<1>7. CASE Submit \/ TestEmpty \/ Delete
  BY <1>7 DEF Submit, TestEmpty, Delete
<1>8. CASE MainLock \/ MainTest \/ MainWake \/ MainUnlock
  BY <1>8 DEF MainLock, MainTest, MainWake, MainUnlock
<1>9. CASE Kill \/ Join
  BY <1>9 DEF Kill, Join, Woken
<1>10. CASE UNCHANGED vars
  BY <1>10 DEF vars
<1> QED
  BY <1>1, <1>2, <1>3, <1>4, <1>5, <1>6, <1>7, <1>8, <1>9, <1>10
     DEF Next, WorkerStep, MainStep, Terminated

-------------------------------------------------------------------------------
(* Who has computed what *)

(* DoneInv of the jobs other than the current one, and of the current one. *)
OthersDone ==
    /\ \A j \in JobIds : j < work_node => done[j] = 0 .. NTasks[j] - 1
    /\ \A j \in JobIds : j > work_node => done[j] = {}

CurrentDone ==
    work_node # NullJob =>
        /\ SomeAt(StartPCs) => done[work_node] = {}
        /\ SomeAt(EndPCs) \/ Resting => done[work_node] = 0 .. nth - 1
        /\ ~exit /\ ~SomeAt(LeaderPCs) =>
              done[work_node] =
                {t \in 0 .. nth - 1 : pc[t] \in {"lock", "test", "wait"}}

LEMMA DoneParts == DoneInv <=> OthersDone /\ CurrentDone
  BY DEF DoneInv, OthersDone, CurrentDone

LEMMA OthersDoneStep ==
  ASSUME IInv, [Next]_vars
  PROVE  OthersDone'
<1> USE DEF shared, main, At, Goto
<1>0. TypeOK /\ OthersDone
  BY DoneParts DEF IInv
<1>1. CASE UNCHANGED <<done, work_node>>
  BY <1>0, <1>1 DEF OthersDone
<1>2. ASSUME NEW t \in Threads, Compute(t) PROVE OthersDone'
  BY <1>0, <1>2 DEF Compute, OthersDone, TypeOK, JobIds, NullJob
<1>3. ASSUME NEW t \in Threads, Solo(t) PROVE OthersDone'
  BY <1>0, <1>3 DEF Solo, OthersDone, TypeOK, JobIds, NullJob
<1>4. ASSUME NEW t \in Threads, Get(t) PROVE OthersDone'
  <2>1. /\ done' = done
        /\ work_node' = work_node + 1 /\ work_node' \in JobIds
    BY <1>0, <1>4 DEF Get, IInv, QueueInv, SomeAt, TypeOK
  <2>2. work_node = NullJob \/ done[work_node] = 0 .. NTasks[work_node] - 1
    BY <1>4, RestingThread DEF Get, RestPCs, IInv, DoneInv, PhaseInv
  <2> QED
    BY <1>0, <2>1, <2>2 DEF OthersDone, TypeOK, JobIds, NullJob
<1>5. ASSUME NEW t \in Threads,
             \/ Lock(t) \/ Lead(t) \/ Park(t) \/ Wake(t) \/ Check(t)
             \/ Finalize(t) \/ Retire(t) \/ Drain(t) \/ IdleLock(t)
             \/ SetIdle(t) \/ Poll(t) \/ PollExit(t) \/ Claim(t)
             \/ InitDone(t) \/ Release(t) \/ Broadcast(t)
      PROVE  UNCHANGED <<done, work_node>>
  BY <1>5 DEF Lock, Lead, Park, Wake, Check, Finalize, Retire, Drain, IdleLock,
     SetIdle, Poll, PollExit, Claim, InitDone, Release, Broadcast
<1>6. CASE MainStep \/ Delete \/ UNCHANGED vars
  <2>1. UNCHANGED <<done, work_node>>
    BY <1>6 DEF MainStep, Submit, TestEmpty, MainLock, MainTest, MainWake,
       MainUnlock, Kill, Join, Delete, vars
  <2> QED
    BY <2>1, <1>1
<1> QED
  BY <1>1, <1>2, <1>3, <1>4, <1>5, <1>6 DEF Next, WorkerStep, Terminated

(* A thread that moves between labels of the same kind disturbs nothing.   *)
AfterPart == {"lock", "test", "wait"}

LEMMA CurrentFrame ==
  ASSUME TypeOK, CurrentDone, UNCHANGED <<done, work_node, nth, exit>>,
         NEW t \in Threads, pc' = [pc EXCEPT ![t] = pc'[t]],
         pc[t] \in StartPCs <=> pc'[t] \in StartPCs,
         pc[t] \in EndPCs <=> pc'[t] \in EndPCs,
         pc[t] \in RestPCs <=> pc'[t] \in RestPCs,
         pc[t] \in AfterPart <=> pc'[t] \in AfterPart
  PROVE  CurrentDone'
<1>1. /\ SomeAt(StartPCs)' <=> SomeAt(StartPCs)
      /\ SomeAt(EndPCs)' <=> SomeAt(EndPCs)
      /\ Resting' <=> Resting
  BY DEF TypeOK, SomeAt, Resting
<1>2. SomeAt(LeaderPCs)' <=> SomeAt(LeaderPCs)
  <2>1. LeaderPCs = StartPCs \cup EndPCs \cup RestPCs
    BY DEF LeaderPCs, StartPCs, EndPCs, RestPCs
  <2> QED
    BY <2>1 DEF TypeOK, SomeAt
<1>3. \A u \in Threads : pc[u] \in AfterPart <=> pc'[u] \in AfterPart
  BY DEF TypeOK
<1>4. \A u \in 0 .. nth - 1 : u \in Threads
  BY NAssumption DEF TypeOK, Threads
<1> QED
  BY <1>1, <1>2, <1>3, <1>4 DEF CurrentDone, AfterPart

(* Once the pool exits the current job stays computed.                     *)
LEMMA CurrentAtExit ==
  ASSUME CurrentDone, Resting, UNCHANGED <<done, work_node, nth>>, exit',
         \A t \in Threads : pc'[t] \notin StartPCs
  PROVE  CurrentDone'
  BY DEF CurrentDone, SomeAt

LEMMA CurrentDoneStep ==
  ASSUME IInv, [Next]_vars
  PROVE  CurrentDone'
<1> USE DEF shared, main, At, Goto
<1>0. TypeOK /\ CurrentDone
  BY DoneParts DEF IInv
<1>1. CASE exit /\ exit' /\ UNCHANGED <<done, work_node, nth>>
           /\ \A t \in Threads : pc'[t] = pc[t] \/ pc'[t] \notin StartPCs
  <2>1. \A t \in Threads : pc[t] \notin StartPCs
    BY <1>1 DEF IInv, CallerInv, StartPCs
  <2> QED
    BY <1>0, <1>1, <2>1, CurrentAtExit DEF Resting
<1>2. ASSUME NEW t \in Threads, Lock(t) \/ Park(t) \/ Wake(t)
      PROVE  CurrentDone'
  <2>1. /\ UNCHANGED <<done, work_node, nth, exit>>
        /\ pc' = [pc EXCEPT ![t] = pc'[t]]
        /\ pc[t] \notin StartPCs \cup EndPCs \cup RestPCs
        /\ pc'[t] \notin StartPCs \cup EndPCs \cup RestPCs
        /\ pc[t] \in AfterPart <=> pc'[t] \in AfterPart
    BY <1>0, <1>2 DEF Lock, Park, Wake, TypeOK, StartPCs, EndPCs, RestPCs,
       AfterPart
  <2> QED
    BY <1>0, <2>1, CurrentFrame
<1>3. ASSUME NEW t \in Threads, Lead(t) PROVE CurrentDone'
  <2>1. /\ ~exit /\ ~SomeAt(LeaderPCs)
        /\ \A u \in Threads \ {t} : pc[u] = "wait"
    BY <1>3, TesterMeetsNoLeader, LastToPark DEF Lead, Parked
  <2>2. \A u \in 0 .. nth - 1 : u \in Threads
    BY <1>0, NAssumption DEF TypeOK, Threads
  <2>3. \A u \in 0 .. nth - 1 : pc[u] \in {"lock", "test", "wait"}
    BY <1>3, <2>1, <2>2 DEF Lead
  <2>4. {u \in 0 .. nth - 1 : pc[u] \in {"lock", "test", "wait"}} = 0 .. nth - 1
    BY <2>3
  <2>5. work_node # NullJob => done[work_node] = 0 .. nth - 1
    BY <1>0, <2>1, <2>4 DEF CurrentDone
  <2>6. /\ UNCHANGED <<done, work_node, nth, exit>>
        /\ pc' = [pc EXCEPT ![t] = "finalize"]
    BY <1>3 DEF Lead
  <2>7. SomeAt(LeaderPCs)' /\ ~SomeAt(StartPCs)'
    BY <1>0, <2>1, <2>6 DEF SomeAt, LeaderPCs, StartPCs, TypeOK
  <2> QED
    BY <2>5, <2>6, <2>7 DEF CurrentDone
<1>4. ASSUME NEW t \in Threads, Check(t) PROVE CurrentDone'
  <2>1. CASE exit
    BY <1>0, <1>1, <1>4, <2>1 DEF Check, TypeOK, StartPCs
  <2>2. CASE ~exit
    <3>1. /\ UNCHANGED <<done, work_node, nth, exit>>
          /\ pc' = [pc EXCEPT ![t] = pc'[t]]
          /\ pc[t] \notin StartPCs \cup EndPCs \cup RestPCs \cup AfterPart
          /\ pc'[t] \notin StartPCs \cup EndPCs \cup RestPCs \cup AfterPart
      BY <1>0, <1>4, <2>2 DEF Check, TypeOK, StartPCs, EndPCs, RestPCs,
         AfterPart
    <3> QED
      BY <1>0, <3>1, CurrentFrame
  <2> QED
    BY <2>1, <2>2
<1>5. ASSUME NEW t \in Threads, Compute(t) PROVE CurrentDone'
  <2>1. ~exit /\ ~SomeAt(LeaderPCs)
    BY <1>5 DEF Compute, IInv, CallerInv, LeaderInv, Leader, SomeAt, LeaderPCs
  <2>2. pc' = [pc EXCEPT ![t] = "lock"] /\ UNCHANGED <<work_node, nth, exit>>
    BY <1>5 DEF Compute
  <2>3. ~SomeAt(LeaderPCs)' /\ ~SomeAt(StartPCs)' /\ ~SomeAt(EndPCs)' /\ ~Resting'
    BY <1>0, <2>1, <2>2
       DEF SomeAt, Resting, LeaderPCs, StartPCs, EndPCs, RestPCs, TypeOK
  <2>4. ASSUME work_node # NullJob
        PROVE  done'[work_node] =
                 {u \in 0 .. nth - 1 : pc'[u] \in {"lock", "test", "wait"}}
    <3>1. done[work_node] =
            {u \in 0 .. nth - 1 : pc[u] \in {"lock", "test", "wait"}}
      BY <1>0, <2>1, <2>4 DEF CurrentDone
    <3>2. done'[work_node] =
            IF t < nth THEN done[work_node] \cup {t} ELSE done[work_node]
      BY <1>0, <1>5, <2>4 DEF Compute, TypeOK
    <3>3. \A u \in 0 .. nth - 1 : u \in Threads
      BY <1>0, NAssumption DEF TypeOK, Threads
    <3>4. \A u \in 0 .. nth - 1 :
            pc'[u] \in {"lock", "test", "wait"}
              <=> u = t \/ pc[u] \in {"lock", "test", "wait"}
      BY <1>0, <2>2, <3>3 DEF TypeOK
    <3>5. t < nth <=> t \in 0 .. nth - 1
      BY <1>0, NAssumption DEF TypeOK, Threads
    <3> QED
      BY <3>1, <3>2, <3>4, <3>5
  <2> QED
    BY <2>2, <2>3, <2>4 DEF CurrentDone
<1>6. ASSUME NEW t \in Threads, Finalize(t) PROVE CurrentDone'
  <2>1. CASE work_node = NullJob
    BY <1>6, <2>1 DEF Finalize, CurrentDone
  <2>2. CASE work_node # NullJob
    <3>1. /\ UNCHANGED <<done, work_node, nth, exit>>
          /\ pc' = [pc EXCEPT ![t] = pc'[t]]
          /\ pc[t] \in EndPCs /\ pc[t] \notin StartPCs \cup RestPCs \cup AfterPart
          /\ pc'[t] \in EndPCs /\ pc'[t] \notin StartPCs \cup RestPCs \cup AfterPart
      BY <1>0, <1>6, <2>2 DEF Finalize, TypeOK, StartPCs, EndPCs, RestPCs,
         AfterPart
    <3> QED
      BY <1>0, <3>1, CurrentFrame
  <2> QED
    BY <2>1, <2>2
<1>7. ASSUME NEW t \in Threads, Retire(t) PROVE CurrentDone'
  <2>1. work_node # NullJob => done[work_node] = 0 .. nth - 1
    BY <1>0, <1>7 DEF Retire, CurrentDone, SomeAt, EndPCs
  <2>2. \A u \in Threads : pc[u] \notin StartPCs
    BY <1>7 DEF Retire, IInv, LeaderInv, Leader, LeaderPCs, StartPCs
  <2>3. UNCHANGED <<done, work_node, nth, exit>> /\ pc' = [pc EXCEPT ![t] = "drain"]
    BY <1>7 DEF Retire
  <2>4. SomeAt(LeaderPCs)' /\ ~SomeAt(StartPCs)'
    BY <1>0, <2>2, <2>3 DEF SomeAt, LeaderPCs, StartPCs, TypeOK
  <2> QED
    BY <2>1, <2>3, <2>4 DEF CurrentDone
<1>8. ASSUME NEW t \in Threads,
             Drain(t) \/ IdleLock(t) \/ SetIdle(t) \/ Poll(t) \/ Claim(t)
      PROVE  CurrentDone'
  <2>1. /\ UNCHANGED <<done, work_node, nth, exit>>
        /\ pc' = [pc EXCEPT ![t] = pc'[t]]
        /\ pc[t] \in RestPCs /\ pc[t] \notin StartPCs \cup EndPCs \cup AfterPart
        /\ pc'[t] \in RestPCs /\ pc'[t] \notin StartPCs \cup EndPCs \cup AfterPart
    BY <1>0, <1>8 DEF Drain, IdleLock, SetIdle, Poll, Claim, TypeOK, StartPCs,
       EndPCs, RestPCs, AfterPart
  <2> QED
    BY <1>0, <2>1, CurrentFrame
<1>9. ASSUME NEW t \in Threads, PollExit(t) PROVE CurrentDone'
  <2>1. CASE exit
    BY <1>0, <1>1, <1>9, <2>1 DEF PollExit, TypeOK, StartPCs
  <2>2. CASE ~exit
    <3>1. /\ UNCHANGED <<done, work_node, nth, exit>>
          /\ pc' = [pc EXCEPT ![t] = pc'[t]]
          /\ pc[t] \in RestPCs /\ pc[t] \notin StartPCs \cup EndPCs \cup AfterPart
          /\ pc'[t] \in RestPCs /\ pc'[t] \notin StartPCs \cup EndPCs \cup AfterPart
      BY <1>0, <1>9, <2>2 DEF PollExit, TypeOK, StartPCs, EndPCs, RestPCs,
         AfterPart
    <3> QED
      BY <1>0, <3>1, CurrentFrame
  <2> QED
    BY <2>1, <2>2
<1>10. ASSUME NEW t \in Threads, Get(t) PROVE CurrentDone'
  <2>1. /\ done' = done /\ exit' = exit
        /\ work_node' = work_node + 1 /\ work_node' \in JobIds
        /\ pc' = [pc EXCEPT ![t] = "init"]
    BY <1>0, <1>10 DEF Get, IInv, QueueInv, SomeAt, TypeOK
  <2>2. done'[work_node'] = {}
    BY <1>0, <2>1 DEF IInv, DoneInv, TypeOK, JobIds, NullJob
  <2>3. ~exit /\ \A u \in Threads \ {t} : At(u, "wait")
    BY <1>10 DEF Get, IInv, CallerInv, LeaderInv, Leader, LeaderPCs
  <2>4. ~SomeAt(EndPCs)' /\ ~Resting' /\ SomeAt(LeaderPCs)'
    BY <1>0, <2>1, <2>3 DEF SomeAt, Resting, LeaderPCs, EndPCs, RestPCs, TypeOK
  <2> QED
    BY <2>2, <2>4 DEF CurrentDone
<1>11. ASSUME NEW t \in Threads, InitDone(t) \/ Release(t) PROVE CurrentDone'
  <2>1. /\ UNCHANGED <<done, work_node, nth, exit>>
        /\ pc' = [pc EXCEPT ![t] = pc'[t]]
        /\ pc[t] \in StartPCs /\ pc[t] \notin RestPCs \cup EndPCs \cup AfterPart
        /\ pc'[t] \in StartPCs /\ pc'[t] \notin RestPCs \cup EndPCs \cup AfterPart
    BY <1>0, <1>11 DEF InitDone, Release, TypeOK, StartPCs, EndPCs, RestPCs,
       AfterPart
  <2> QED
    BY <1>0, <2>1, CurrentFrame
<1>12. ASSUME NEW t \in Threads, Broadcast(t) PROVE CurrentDone'
  <2>1. /\ UNCHANGED <<done, work_node, nth, exit>>
        /\ work_node # NullJob => done[work_node] = {}
    BY <1>0, <1>12 DEF Broadcast, CurrentDone, SomeAt, StartPCs
  <2>2. ~exit /\ \A u \in Threads : pc'[u] \in {"check", "woken"}
    BY <1>12 DEF Broadcast, Woken, IInv, CallerInv, LeaderInv, Leader, LeaderPCs
  <2>3. ~SomeAt(StartPCs)' /\ ~SomeAt(EndPCs)' /\ ~Resting'
    BY <2>1, <2>2 DEF SomeAt, Resting, StartPCs, EndPCs, RestPCs
  <2>4. \A u \in 0 .. nth - 1 : u \in Threads
    BY <1>0, NAssumption DEF TypeOK, Threads
  <2>5. {u \in 0 .. nth - 1 : pc'[u] \in {"lock", "test", "wait"}} = {}
    BY <2>2, <2>4
  <2> QED
    BY <2>1, <2>3, <2>5 DEF CurrentDone
<1>13. ASSUME NEW t \in Threads, Solo(t) PROVE CurrentDone'
  <2>1. /\ work_node \in JobIds /\ nth = 1
        /\ done[work_node] = {}
    BY <1>0, <1>13 DEF Solo, CurrentDone, SomeAt, StartPCs, IInv, PhaseInv, TypeOK
  <2>2. done'[work_node] = {0} /\ UNCHANGED <<work_node, nth, exit>>
    BY <1>0, <1>13, <2>1 DEF Solo, TypeOK
  <2>3. /\ pc' = [pc EXCEPT ![t] = "finalize"]
        /\ \A u \in Threads \ {t} : pc[u] \notin StartPCs
    BY <1>13 DEF Solo, IInv, LeaderInv, Leader, LeaderPCs, StartPCs
  <2>4. SomeAt(LeaderPCs)' /\ ~SomeAt(StartPCs)'
    BY <1>0, <2>3 DEF SomeAt, LeaderPCs, StartPCs, TypeOK
  <2> QED
    BY <2>1, <2>2, <2>4 DEF CurrentDone
<1>14. CASE Kill
  <2>1. /\ Resting /\ exit'
        /\ UNCHANGED <<done, work_node, nth>>
        /\ \A u \in Threads : pc'[u] \in {"poll", "pollexit", "woken"}
    BY <1>14, KillAtRest DEF Kill, Woken
  <2> QED
    BY <1>0, <2>1, CurrentAtExit DEF StartPCs
<1>15. CASE UNCHANGED <<pc, done, work_node, nth, exit>>
  BY <1>0, <1>15 DEF CurrentDone, Resting, SomeAt
<1>16. CASE \/ Submit \/ TestEmpty \/ MainLock \/ MainTest \/ MainWake
            \/ MainUnlock \/ Join \/ Delete
            \/ UNCHANGED vars
  <2>1. UNCHANGED <<pc, done, work_node, nth, exit>>
    BY <1>16 DEF Submit, TestEmpty, MainLock, MainTest, MainWake, MainUnlock,
       Join, Delete, vars
  <2> QED
    BY <2>1, <1>15
<1> QED
  BY <1>2, <1>3, <1>4, <1>5, <1>6, <1>7, <1>8, <1>9, <1>10, <1>11, <1>12,
     <1>13, <1>14, <1>16
     DEF Next, WorkerStep, MainStep, Terminated

-------------------------------------------------------------------------------
(* What the caller knows *)

LEMMA CallerStep ==
  ASSUME IInv, [Next]_vars
  PROVE  CallerInv'
<1> USE DEF IInv, TypeOK, CallerInv, BetweenGraphs, shared, main, At, Goto
<1>1. ASSUME NEW t \in Threads,
             Lock(t) \/ Lead(t) \/ Wake(t) \/ Check(t) \/ Compute(t)
      PROVE  CallerInv'
  BY <1>1 DEF Lock, Lead, Wake, Check, Compute
<1>2. ASSUME NEW t \in Threads, Park(t) PROVE CallerInv'
  <2>1. n_wait # N
    BY <1>2, NWaitBelowN DEF Park
  <2> QED
    BY <1>2, <2>1 DEF Park
<1>3. ASSUME NEW t \in Threads,
             Finalize(t) \/ Retire(t) \/ Drain(t) \/ IdleLock(t)
      PROVE  CallerInv'
  BY <1>3 DEF Finalize, Retire, Drain, IdleLock
<1>4. ASSUME NEW t \in Threads, SetIdle(t) PROVE CallerInv'
  BY <1>4 DEF SetIdle
<1>5. ASSUME NEW t \in Threads, Poll(t) \/ PollExit(t) PROVE CallerInv'
  BY <1>5 DEF Poll, PollExit
<1>6. ASSUME NEW t \in Threads, Claim(t) \/ Get(t) PROVE CallerInv'
  BY <1>6 DEF Claim, Get, QueueInv, SomeAt
<1>7. ASSUME NEW t \in Threads, InitDone(t) \/ Solo(t) PROVE CallerInv'
  BY <1>7 DEF InitDone, Solo
<1>8. ASSUME NEW t \in Threads, Release(t) PROVE CallerInv'
  BY <1>8, NAssumption DEF Release, CountInv, Leader, LeaderPCs
<1>9. ASSUME NEW t \in Threads, Broadcast(t) PROVE CallerInv'
  BY <1>9 DEF Broadcast, Woken
<1>10. CASE Submit
  BY <1>10 DEF Submit
<1>11. CASE TestEmpty \/ Delete
  BY <1>11 DEF TestEmpty, Delete
<1>12. CASE MainLock \/ MainTest \/ MainWake \/ MainUnlock
  BY <1>12 DEF MainLock, MainTest, MainWake, MainUnlock
<1>13. CASE Kill
  <2>1. /\ jobs = <<>>
        /\ \A u \in Threads : pc'[u] \in {"poll", "pollexit", "woken"}
    BY <1>13, KillAtRest DEF Kill, Woken
  <2> QED
    BY <1>13, <2>1 DEF Kill
<1>14. CASE Join
  BY <1>14 DEF Join
<1>15. CASE UNCHANGED vars
  BY <1>15 DEF vars
<1> QED
  BY <1>1, <1>2, <1>3, <1>4, <1>5, <1>6, <1>7, <1>8, <1>9, <1>10,
     <1>11, <1>12, <1>13, <1>14, <1>15
     DEF Next, WorkerStep, MainStep, Terminated

-------------------------------------------------------------------------------
(* The theorems *)

(* IInv holds of every reachable state of the pool: n_wait agrees with where *)
(* the threads of combo_compute_thread are, whatever the interleaving.       *)
THEOREM Inductive == Spec => []IInv
<1>1. IInv /\ [Next]_vars => IInv'
  <2> SUFFICES ASSUME IInv, [Next]_vars PROVE IInv'
    OBVIOUS
  <2>1. TypeOK' /\ LockInv' /\ LeaderInv' /\ CountInv' /\ QueueInv'
    BY TypeStep, LockStep, LeaderStep, CountStep, QueueStep
  <2>2. PendingInv' /\ PhaseInv' /\ CallerInv'
    BY PendingStep, PhaseStep, CallerStep
  <2>3. DoneInv'
    BY OthersDoneStep, CurrentDoneStep DEF DoneInv, OthersDone, CurrentDone
  <2> QED
    BY <2>1, <2>2, <2>3 DEF IInv
<1> QED
  BY InitIInv, <1>1, PTL DEF Spec

(* The variables of the pool keep their types; n_wait stays in 0..n_threads *)
(* and no job's n_wait is decremented below zero.                           *)
THEOREM TypeCorrect == Spec => []TypeOK
<1>1. IInv => TypeOK
  BY DEF IInv
<1> QED
  BY <1>1, Inductive, PTL

(* At most one worker is past the test of n_wait, for every N: the code that *)
(* wraps a job up, dispatches the next one and initialises it is never run   *)
(* by two threads at once, although most of it holds no lock.                *)
THEOREM LeaderUnique == Spec => []OneLeader
<1>1. IInv => OneLeader
  BY DEF IInv, LeaderInv, OneLeader, Leader, LeaderPCs, At
<1> QED
  BY <1>1, Inductive, PTL

(* INIT, COMPUTE and FINALIZE of a job never overlap and come in that order. *)
THEOREM PhasesOrdered == Spec => []PhasesApart
<1>1. IInv => PhasesApart
  <2> SUFFICES ASSUME IInv, NEW t \in Threads,
                      At(t, "init") \/ (At(t, "finalize") /\ work_node # NullJob)
               PROVE  /\ \A u \in Threads : ~Working(u)
                      /\ done[work_node] =
                           (IF At(t, "init") THEN {} ELSE 0 .. NTasks[work_node] - 1)
    BY DEF PhasesApart
  <2>1. \A u \in Threads : ~Working(u)
    BY DEF IInv, CallerInv, LeaderInv, Leader, LeaderPCs, Working, At
  <2>2. work_node # NullJob
    BY DEF IInv, PhaseInv, SomeAt, StartPCs, At
  <2>3. CASE At(t, "init")
    <3>1. SomeAt(StartPCs)
      BY <2>3 DEF SomeAt, StartPCs, At
    <3> QED
      BY <2>1, <2>2, <2>3, <3>1 DEF IInv, DoneInv
  <2>4. CASE At(t, "finalize")
    <3>1. SomeAt(EndPCs) /\ ~At(t, "init")
      BY <2>4 DEF SomeAt, EndPCs, At
    <3>2. nth = NTasks[work_node]
      BY <2>2 DEF IInv, PhaseInv
    <3> QED
      BY <2>1, <2>2, <3>1, <3>2 DEF IInv, DoneInv
  <2> QED
    BY <2>1, <2>3, <2>4
<1> QED
  BY <1>1, Inductive, PTL

(* Every part of a job is computed once, before the job is complete.         *)
THEOREM PartsComputedOnce == Spec => []PartsOnce
<1>1. IInv => PartsOnce
  <2> SUFFICES ASSUME IInv, NEW t \in Threads, Working(t)
               PROVE  /\ (IF At(t, "solo") THEN 0 ELSE t) \notin done[work_node]
                      /\ pending[work_node] = 1
    BY DEF PartsOnce
  <2>1. work_node # NullJob
    <3>1. CASE At(t, "solo")
      BY <3>1 DEF IInv, PhaseInv, SomeAt, StartPCs, At
    <3>2. CASE At(t, "compute") /\ t < nth
      BY <3>2 DEF IInv, PhaseInv, Threads
    <3> QED
      BY <3>1, <3>2 DEF Working
  <2>2. ~Resting
    BY DEF Working, IInv, CallerInv, LeaderInv, Leader, LeaderPCs, Resting,
       RestPCs, SomeAt, At
  <2>3. pending[work_node] = 1
    BY <2>1, <2>2 DEF IInv, PendingInv, TypeOK, JobIds, NullJob
  <2>4. CASE At(t, "solo")
    BY <2>1, <2>3, <2>4 DEF IInv, DoneInv, SomeAt, StartPCs, At
  <2>5. CASE At(t, "compute")
    <3>1. ~exit /\ ~SomeAt(LeaderPCs)
      BY <2>5 DEF IInv, CallerInv, LeaderInv, Leader, LeaderPCs, SomeAt, At
    <3> QED
      BY <2>1, <2>3, <2>5, <3>1 DEF IInv, DoneInv, At
  <2> QED
    BY <2>4, <2>5 DEF Working
<1> QED
  BY <1>1, Inductive, PTL

(* When combo_pool_finish returns, everything that was submitted is complete *)
(* and no worker will touch the graph or the work buffer again.              *)
THEOREM FinishIsQuiescent == Spec => []Quiescent
<1>1. IInv => Quiescent
  <2> SUFFICES ASSUME IInv, BetweenGraphs PROVE Quiescent
    BY DEF Quiescent
  <2>1. jobs = <<>> /\ work_node = submitted /\ ~exit
    BY DEF IInv, CallerInv, BetweenGraphs, QueueInv, TypeOK, JobIds, NullJob
  <2>2. CASE submitted = 0
    <3>1. work_node = NullJob /\ nth = 0
      BY <2>1, <2>2 DEF NullJob, IInv, PhaseInv
    <3>2. \A t \in Threads : ~Working(t)
      BY <3>1 DEF IInv, PhaseInv, Working, Threads, SomeAt, StartPCs, At
    <3> QED
      BY <2>2, <3>1, <3>2 DEF Quiescent
  <2>3. CASE submitted # 0
    <3>1. n_wait = N
      BY <2>3 DEF BetweenGraphs, IInv, CallerInv
    <3>2. PICK t \in Threads :
            /\ pc[t] \in {"poll", "pollexit"}
            /\ \A u \in Threads \ {t} : At(u, "wait")
      BY <2>1, <3>1, IdlePool
    <3>3. \A u \in Threads : pc[u] \in {"poll", "pollexit", "wait"}
      BY <3>2 DEF At
    <3>4. Resting
      BY <3>2 DEF Resting, SomeAt, RestPCs
    <3>5. /\ submitted \in JobIds
          /\ \A j \in 1 .. submitted : j \in JobIds
      BY <2>3, NJobsAssumption DEF IInv, TypeOK, JobIds
    <3>6. pending[submitted] = 0
      BY <2>1, <2>3, <3>4 DEF IInv, PendingInv, NullJob
    <3>7. \A j \in 1 .. submitted : pending[j] = 0
      BY <2>1, <3>5, <3>6 DEF IInv, PendingInv, JobIds
    <3> QED
      BY <3>3, <3>7 DEF Quiescent, Working, At
  <2> QED
    BY <2>2, <2>3
<1> QED
  BY <1>1, Inductive, PTL

-------------------------------------------------------------------------------
(* Refinement *)

Completed == {j \in JobIds : pending[j] = 0}

(* A step that leaves the queue, the current job, its parts and its n_wait   *)
(* alone is invisible to the caller of the pool.                             *)
LEMMA ServiceStutter ==
  ASSUME UNCHANGED <<jobs, work_node, done, pending>>
  PROVE  UNCHANGED Service!vars
  BY DEF Service!vars, Current

LEMMA CurrentJob ==
  ASSUME IInv
  PROVE  Current = IF work_node # NullJob /\ ~Resting THEN work_node ELSE NullJob
  BY DEF Current, IInv, PendingInv, TypeOK, JobIds, NullJob

LEMMA SubmitRefines ==
  ASSUME IInv, Submit
  PROVE  Service!Submit(submitted + 1) /\ submitted + 1 \in JobIds
<1> DEFINE j == submitted + 1
<1>0. TypeOK
  BY DEF IInv
<1>1. /\ j \in JobIds
      /\ jobs' = Append(jobs, j)
      /\ UNCHANGED <<work_node, done, pending>>
  BY <1>0, NJobsAssumption DEF Submit, TypeOK, JobIds
<1>2. j > work_node
  BY <1>0 DEF IInv, QueueInv, TypeOK, JobIds, NullJob
<1>3. pending[j] = 1 /\ j # work_node /\ j # NullJob
  BY <1>0, <1>1, <1>2 DEF IInv, PendingInv, TypeOK, JobIds, NullJob
<1>4. \A i \in DOMAIN jobs : jobs[i] # j
  <2>1. /\ DOMAIN jobs = 1 .. Len(jobs) /\ Len(jobs) \in Nat
        /\ submitted \in Nat /\ work_node \in Nat
    BY <1>0, NJobsAssumption DEF TypeOK, JobIds, NullJob
  <2>2. /\ Len(jobs) + work_node = submitted
        /\ \A i \in 1 .. Len(jobs) : jobs[i] = work_node + i
    BY DEF IInv, QueueInv
  <2> QED
    BY <2>1, <2>2
<1> QED
  BY <1>1, <1>3, <1>4 DEF Service!Submit, Service!Queued, Current

LEMMA GetRefines ==
  ASSUME IInv, IInv', NEW t \in Threads, Get(t)
  PROVE  Service!Start
<1>1. Current = NullJob
  BY CurrentJob, RestingThread DEF Get, At, RestPCs
<1>2. /\ jobs # <<>>
      /\ work_node' = Head(jobs) /\ jobs' = Tail(jobs)
      /\ UNCHANGED <<pending, done>>
  BY DEF Get, IInv, QueueInv, SomeAt, At
<1>3. work_node' = work_node + 1 /\ work_node' \in JobIds
  BY <1>2 DEF IInv, QueueInv, TypeOK
<1>4. pending[work_node'] = 1
  BY <1>3 DEF IInv, PendingInv, TypeOK, JobIds, NullJob
<1>5. Current' = work_node'
  BY <1>2, <1>3, <1>4 DEF Current, JobIds, NullJob
<1> QED
  BY <1>1, <1>2, <1>5 DEF Service!Start

(* A worker's part of the current job, or the whole of a one-task job.       *)
LEMMA PartRefines ==
  ASSUME IInv, NEW i \in 0 .. nth - 1, work_node # NullJob, ~Resting,
         i \notin done[work_node],
         done' = [done EXCEPT ![work_node] = @ \cup {i}],
         UNCHANGED <<jobs, work_node, pending>>
  PROVE  Service!ComputeSome
<1>1. /\ Current = work_node /\ Current' = Current
      /\ work_node \in JobIds
      /\ nth = NTasks[work_node]
  BY CurrentJob DEF Current, IInv, TypeOK, PhaseInv
<1> QED
  BY <1>1 DEF Service!ComputeSome, Service!Compute, JobIds, NullJob

LEMMA ComputeRefines ==
  ASSUME IInv, NEW t \in Threads, Compute(t)
  PROVE  Service!ComputeSome \/ UNCHANGED Service!vars
<1>1. CASE t < nth
  <2>1. work_node # NullJob
    BY <1>1 DEF IInv, PhaseInv, Threads
  <2>2. ~exit /\ ~SomeAt(LeaderPCs)
    BY DEF Compute, IInv, CallerInv, LeaderInv, Leader, LeaderPCs, SomeAt, At
  <2>3. ~Resting
    BY <2>2 DEF Resting, SomeAt, RestPCs, LeaderPCs
  <2>4. t \notin done[work_node]
    BY <2>1, <2>2 DEF Compute, At, IInv, DoneInv
  <2>5. t \in 0 .. nth - 1
    BY <1>1, NAssumption DEF Threads, IInv, TypeOK
  <2> QED
    BY <1>1, <2>1, <2>3, <2>4, <2>5, PartRefines DEF Compute, shared
<1>2. CASE ~(t < nth)
  BY <1>2, ServiceStutter DEF Compute, shared
<1> QED
  BY <1>1, <1>2

LEMMA SoloRefines ==
  ASSUME IInv, NEW t \in Threads, Solo(t)
  PROVE  Service!ComputeSome
<1>1. SomeAt(StartPCs) /\ SomeAt({"solo"}) /\ ~Resting
  BY BusyLeader DEF Solo, At, SomeAt, StartPCs
<1>2. work_node # NullJob /\ nth = 1
  BY <1>1 DEF IInv, PhaseInv, SomeAt
<1>3. 0 \notin done[work_node]
  BY <1>1, <1>2 DEF IInv, DoneInv
<1> QED
  BY <1>1, <1>2, <1>3, PartRefines DEF Solo, shared

LEMMA RetireRefines ==
  ASSUME IInv, IInv', NEW t \in Threads, Retire(t)
  PROVE  Service!Complete
<1>1. work_node \in JobIds /\ ~Resting
  BY BusyLeader DEF Retire, At, IInv, TypeOK, PhaseInv, EndPCs, SomeAt
<1>2. pending[work_node] = 1 /\ work_node # NullJob
  BY <1>1 DEF IInv, PendingInv, TypeOK, JobIds, NullJob
<1>3. pending' = [pending EXCEPT ![work_node] = 0]
  BY <1>2 DEF Retire
<1>4. Current = work_node /\ Current' = NullJob
  BY <1>1, <1>2, <1>3 DEF Current, Retire, shared, IInv, TypeOK
<1>5. done[work_node] = 0 .. NTasks[work_node] - 1
  BY <1>2 DEF Retire, At, IInv, DoneInv, PhaseInv, SomeAt, EndPCs
<1>6. Completed' = Completed \cup {work_node}
  BY <1>1, <1>3 DEF Completed, IInv, TypeOK
<1> QED
  BY <1>1, <1>2, <1>4, <1>5, <1>6
     DEF Service!Complete, Completed, Retire, shared

(* The threads of the pool together behave as a JobService: jobs start one   *)
(* at a time in the order of their submission, each part is computed once,   *)
(* and n_wait of a node drops only when all its parts are computed.          *)
THEOREM PoolImplementsService == Spec => Service!SafetySpec
<1>1. Init => Service!Init
  BY DEF Init, Service!Init, Current
<1>2. IInv /\ IInv' /\ [Next]_vars => [Service!Next]_Service!vars
  <2> SUFFICES ASSUME IInv, IInv', [Next]_vars
               PROVE  Service!Next \/ UNCHANGED Service!vars
    OBVIOUS
  <2>1. CASE Submit
    BY <2>1, SubmitRefines DEF Service!Next
  <2>2. ASSUME NEW t \in Threads, Get(t) PROVE Service!Next
    BY <2>2, GetRefines DEF Service!Next
  <2>3. ASSUME NEW t \in Threads, Compute(t)
        PROVE  Service!Next \/ UNCHANGED Service!vars
    BY <2>3, ComputeRefines DEF Service!Next
  <2>4. ASSUME NEW t \in Threads, Solo(t) PROVE Service!Next
    BY <2>4, SoloRefines DEF Service!Next
  <2>5. ASSUME NEW t \in Threads, Retire(t) PROVE Service!Next
    BY <2>5, RetireRefines DEF Service!Next
  <2>6. ASSUME NEW t \in Threads,
               \/ Lock(t) \/ Lead(t) \/ Park(t) \/ Wake(t) \/ Check(t)
               \/ Finalize(t) \/ Drain(t) \/ IdleLock(t)
               \/ SetIdle(t) \/ Poll(t) \/ PollExit(t) \/ Claim(t)
               \/ InitDone(t) \/ Release(t) \/ Broadcast(t)
        PROVE  UNCHANGED Service!vars
    <3>1. UNCHANGED <<jobs, work_node, done, pending>>
      BY <2>6 DEF Lock, Lead, Park, Wake, Check, Finalize, Drain, IdleLock,
         SetIdle, Poll, PollExit, Claim, InitDone, Release, Broadcast,
         shared
    <3> QED
      BY <3>1, ServiceStutter
  <2>7. CASE \/ TestEmpty \/ MainLock \/ MainTest \/ MainWake \/ MainUnlock
             \/ Kill \/ Join \/ Delete \/ UNCHANGED vars
    <3>1. UNCHANGED <<jobs, work_node, done, pending>>
      BY <2>7 DEF TestEmpty, MainLock, MainTest, MainWake, MainUnlock, Kill,
         Join, Delete, vars, shared
    <3> QED
      BY <3>1, ServiceStutter
  <2> QED
    BY <2>1, <2>2, <2>3, <2>4, <2>5, <2>6, <2>7
       DEF Next, WorkerStep, MainStep, Terminated
<1> QED
  BY <1>1, <1>2, Inductive, PTL DEF Spec, Service!SafetySpec
===============================================================================
