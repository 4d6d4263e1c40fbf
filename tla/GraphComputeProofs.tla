--------------------------- MODULE GraphComputeProofs ---------------------------
(***************************************************************************)
(* Proofs about GraphCompute for every number of threads and every graph:  *)
(* until somebody aborts, n_active and node_n keep the threads together.   *)
(***************************************************************************)
EXTENDS GraphCompute, FiniteSetTheorems, TLAPS

-------------------------------------------------------------------------------
(* Counting *)

LEMMA ThreadsFinite == IsFiniteSet(Threads) /\ Cardinality(Threads) = N
  BY FS_Interval, NAssumption DEF Threads

LEMMA ParkedFinite ==
  /\ IsFiniteSet(Parked)
  /\ Cardinality(Parked) \in Nat
<1>1. Parked \in SUBSET Threads
  BY DEF Parked
<1> QED
  BY <1>1, ThreadsFinite, FS_Subset, FS_CardinalityType

(* Beside a last thread everybody is parked.                               *)
LEMMA LastAlone ==
  ASSUME CountInv, NEW t \in Threads, Last(t), NEW u \in Threads, u # t
  PROVE  At(u, "spin") /\ cur[u] = node_n /\ u \in Parked /\ ~Last(u)
<1>1. u \in Parked
  BY DEF CountInv
<1> QED
  BY <1>1 DEF Parked, Last, LastPCs, At

(* A thread that is neither parked nor last has no last thread beside it.  *)
LEMMA NoLast ==
  ASSUME CountInv, NEW t \in Threads, t \notin Parked, ~Last(t)
  PROVE  /\ \A u \in Threads : ~Last(u)
         /\ n_active + Cardinality(Parked) = N /\ n_active > 0
  BY DEF CountInv

(* n_active == 1 means that all the others are parked.                     *)
LEMMA LastToArrive ==
  ASSUME TypeOK, CountInv, NEW t \in Threads, At(t, "arrive"), n_active = 1
  PROVE  Parked = Threads \ {t}
<1>1. t \notin Parked /\ ~Last(t)
  BY DEF Parked, At, Last, LastPCs
<1>2. Cardinality(Parked) = N - 1
  BY <1>1, NoLast, ParkedFinite, NAssumption
<1>3. /\ IsFiniteSet(Threads \ {t})
      /\ Cardinality(Threads \ {t}) = N - 1
  BY ThreadsFinite, FS_RemoveElement
<1>4. Parked \in SUBSET (Threads \ {t})
  BY <1>1 DEF Parked
<1> QED
  BY <1>2, <1>3, <1>4, FS_Subset

-------------------------------------------------------------------------------
(* The initial state *)

LEMMA InitIInv == Init => IInv
<1> SUFFICES ASSUME Init PROVE IInv
  OBVIOUS
<1> USE NAssumption, NNodesAssumption, NTasksAssumption DEF Init, At, Last, LastPCs
<1>1. TypeOK
  <2>1. /\ pc \in [Threads -> PCs] /\ cur \in [Threads -> Int]
        /\ status \in [Threads -> {"running", "success", "aborted"}]
    BY DEF PCs
  <2>2. done \in [Nodes -> SUBSET Threads]
    OBVIOUS
  <2>3. n_active = N /\ node_n = -1 /\ aborting \in BOOLEAN
    OBVIOUS
  <2>4. N \in 0 .. N /\ -1 \in -1 .. NNodes
    OBVIOUS
  <2> QED
    BY <2>1, <2>2, <2>3, <2>4 DEF TypeOK
<1>2. Parked = {}
  BY DEF Parked
<1>3. CountInv
  BY <1>2, FS_EmptySet DEF CountInv
<1>4. CurInv
  BY <1>2 DEF CurInv
<1>5. DoneInv
  BY DEF DoneInv, Nodes
<1> QED
  BY <1>1, <1>3, <1>4, <1>5 DEF IInv

-------------------------------------------------------------------------------
(* Type correctness *)

LEMMA TypeStep ==
  ASSUME IInv, [Next]_vars
  PROVE  TypeOK'
<1> USE NAssumption, NNodesAssumption DEF IInv, TypeOK, At, Goto, Leave, PCs, LastPCs
<1>1. ASSUME NEW t \in Threads, Continue(t) \/ Finalize(t) \/ InitDone(t) \/ Poll(t)
      PROVE  TypeOK'
  BY <1>1 DEF Continue, Finalize, InitDone, Poll
<1>2. ASSUME NEW t \in Threads, Abort(t) PROVE TypeOK'
  BY <1>2 DEF Abort
<1>3. ASSUME NEW t \in Threads, Arrive(t) PROVE TypeOK'
  <2>1. ~aborting => n_active > 0
    BY <1>3, NoLast DEF Arrive, Parked, Last
  <2> QED
    BY <1>3, <2>1 DEF Arrive
<1>4. ASSUME NEW t \in Threads, NextNode(t) PROVE TypeOK'
  BY <1>4 DEF NextNode
<1>5. ASSUME NEW t \in Threads, Solo(t) PROVE TypeOK'
  <2>1. 0 \in Threads
    BY DEF Threads
  <2>2. done' \in [Nodes -> SUBSET Threads]
    BY <1>5, <2>1 DEF Solo, Computed
  <2> QED
    BY <1>5, <2>2 DEF Solo
<1>6. ASSUME NEW t \in Threads, Reset(t) PROVE TypeOK'
  BY <1>6 DEF Reset
<1>7. ASSUME NEW t \in Threads, Publish(t) PROVE TypeOK'
  BY <1>7 DEF Publish, CurInv
<1>8. ASSUME NEW t \in Threads, Spin(t) PROVE TypeOK'
  BY <1>8 DEF Spin
<1>9. ASSUME NEW t \in Threads, Test(t) PROVE TypeOK'
  BY <1>9 DEF Test
<1>10. ASSUME NEW t \in Threads, Compute(t) PROVE TypeOK'
  <2>1. done' \in [Nodes -> SUBSET Threads]
    BY <1>10 DEF Compute, Computed
  <2> QED
    BY <1>10, <2>1 DEF Compute
<1>11. CASE RequestAbort
  BY <1>11 DEF RequestAbort
<1>12. CASE UNCHANGED vars
  BY <1>12 DEF vars
<1> QED
  BY <1>1, <1>2, <1>3, <1>4, <1>5, <1>6, <1>7, <1>8, <1>9, <1>10, <1>11, <1>12
     DEF Next, Step, Terminated

-------------------------------------------------------------------------------
(* n_active counts the threads that are not parked *)

LEMMA CountStep ==
  ASSUME TypeOK, CountInv, CurInv, NEW t \in Threads, Step(t), ~aborting
  PROVE  CountInv'
<1> USE NAssumption DEF TypeOK, At, Goto, Leave, Last, LastPCs
<1>1. CASE Continue(t) \/ Test(t) \/ Compute(t)
  <2>1. t \notin Parked /\ ~Last(t)
    BY <1>1 DEF Continue, Test, Compute, Parked
  <2>2. Parked' = Parked /\ n_active' = n_active
    BY <1>1 DEF Continue, Test, Compute, Parked
  <2>3. \A u \in Threads : ~Last(u)'
    BY <1>1, <2>1, NoLast DEF Continue, Test, Compute
  <2> QED
    BY <2>1, <2>2, <2>3, NoLast DEF CountInv
<1>2. CASE Abort(t)
  BY <1>2 DEF Abort
<1>3. CASE Arrive(t)
  <2>1. t \notin Parked /\ ~Last(t)
    BY <1>3 DEF Arrive, Parked
  <2>2. \A u \in Threads : ~Last(u)
    BY <2>1, NoLast
  <2>3. CASE n_active = 1
    <3>1. Parked = Threads \ {t}
      BY <1>3, <2>3, LastToArrive DEF Arrive
    <3>2. Parked' = Parked
      BY <1>3, <2>3 DEF Arrive, Parked
    <3>3. pc'[t] \in {"next", "finalize"} /\ \A u \in Threads : u # t => ~Last(u)'
      BY <1>3, <2>2, <2>3 DEF Arrive
    <3>4. n_active' = 0
      BY <1>3, <2>3 DEF Arrive
    <3> QED
      BY <3>1, <3>2, <3>3, <3>4 DEF CountInv
  <2>4. CASE n_active # 1
    <3>1. Parked' = Parked \cup {t}
      BY <1>3, <2>4 DEF Arrive, Parked, CurInv
    <3>2. Cardinality(Parked') = Cardinality(Parked) + 1
      BY <3>1, <2>1, ParkedFinite, FS_AddElement
    <3>3. \A u \in Threads : ~Last(u)'
      BY <1>3, <2>2, <2>4 DEF Arrive
    <3>4. n_active' = n_active - 1 /\ n_active > 1
      BY <1>3, <2>1, <2>4, NoLast DEF Arrive
    <3>5. n_active + Cardinality(Parked) = N
      BY <2>1, NoLast
    <3> QED
      BY <3>2, <3>3, <3>4, <3>5, ParkedFinite DEF CountInv
  <2> QED
    BY <2>3, <2>4
<1>4. CASE Finalize(t) \/ NextNode(t) \/ InitDone(t) \/ Solo(t) \/ Poll(t) \/ Reset(t)
  <2>1. Last(t) /\ Last(t)' /\ ~At(t, "publish")
    BY <1>4 DEF Finalize, NextNode, InitDone, Solo, Poll, Reset
  <2>2. \A u \in Threads : u # t => ~Last(u)'
    BY <1>4, <2>1, LastAlone DEF Finalize, NextNode, InitDone, Solo, Poll, Reset
  <2>3. Parked' = Parked
    BY <1>4 DEF Finalize, NextNode, InitDone, Solo, Poll, Reset, Parked
  <2>4. n_active' = IF At(t, "publish")' THEN N ELSE 0
    BY <1>4, <2>1 DEF Finalize, NextNode, InitDone, Solo, Poll, Reset, CountInv
  <2> QED
    BY <2>1, <2>2, <2>3, <2>4 DEF CountInv
<1>5. CASE Publish(t)
  <2>1. Last(t) /\ n_active' = N
    BY <1>5 DEF Publish, CountInv
  <2>2. cur[t] > node_n /\ node_n' = cur[t] /\ cur' = cur
    BY <1>5 DEF Publish, CurInv
  <2>3. Parked' = {}
    BY <1>5, <2>1, <2>2, LastAlone DEF Publish, Parked
  <2>4. \A u \in Threads : ~Last(u)'
    BY <1>5, <2>1, LastAlone DEF Publish
  <2> QED
    BY <2>1, <2>3, <2>4, FS_EmptySet DEF CountInv
<1>6. CASE Spin(t)
  <2>1. t \notin Parked /\ ~Last(t)
    BY <1>6 DEF Spin, Parked
  <2>2. Parked' = Parked /\ n_active' = n_active
    BY <1>6 DEF Spin, Parked
  <2>3. \A u \in Threads : ~Last(u)'
    BY <1>6, <2>1, NoLast DEF Spin
  <2> QED
    BY <2>1, <2>2, <2>3, NoLast DEF CountInv
<1> QED
  BY <1>1, <1>2, <1>3, <1>4, <1>5, <1>6 DEF Step

-------------------------------------------------------------------------------
(* Where the threads are *)

LEMMA CurStep ==
  ASSUME TypeOK, CountInv, CurInv, NEW t \in Threads, Step(t), ~aborting
  PROVE  CurInv'
<1> USE NNodesAssumption DEF TypeOK, At, Goto, Leave, Last, LastPCs, CurInv, Parked, PCs
<1>1. CASE Continue(t) \/ Compute(t) \/ Test(t)
  BY <1>1 DEF Continue, Compute, Test
<1>2. CASE Abort(t)
  BY <1>2 DEF Abort
<1>3. CASE Arrive(t)
  BY <1>3 DEF Arrive
<1>4. CASE Finalize(t) \/ InitDone(t)
  BY <1>4 DEF Finalize, InitDone
<1>5. CASE NextNode(t)
  BY <1>5 DEF NextNode
<1>6. CASE Solo(t) \/ Poll(t) \/ Reset(t)
  BY <1>6 DEF Solo, Poll, Reset
<1>7. CASE Publish(t)
  <2>1. \A u \in Threads : u # t => At(u, "spin") /\ cur[u] = node_n
    BY <1>7, LastAlone DEF Publish
  <2>2. node_n' = cur[t] /\ cur[t] > node_n /\ cur' = cur
    BY <1>7 DEF Publish
  <2>3. pc'[t] = "test" /\ \A u \in Threads : u # t => pc'[u] = "spin"
    BY <1>7, <2>1 DEF Publish
  <2> QED
    BY <2>1, <2>2, <2>3
<1>8. CASE Spin(t)
  BY <1>8 DEF Spin
<1> QED
  BY <1>1, <1>2, <1>3, <1>4, <1>5, <1>6, <1>7, <1>8 DEF Step

-------------------------------------------------------------------------------
(* What has been computed *)

(* Steps that compute nothing and leave everybody as far as he was.        *)
LEMMA DoneIdleStep ==
  ASSUME DoneInv, UNCHANGED <<done, node_n>>,
         \A u \in Threads : /\ Past(u)' <=> Past(u)
                            /\ Last(u)' <=> Last(u),
         \A u \in Threads, j \in Nodes : Last(u) => (Reached(u, j)' <=> Reached(u, j)),
         NTasks \in [Nodes -> 1 .. N]
  PROVE  DoneInv'
<1>1. \A j \in Nodes : Complete(j)' <=> Complete(j)
  BY DEF Complete
<1>2. \A j \in Nodes : 0 .. NTasks[j] - 1 \subseteq Threads
  BY NAssumption DEF Threads
<1>3. ASSUME NEW j \in Nodes
      PROVE  {u \in 0 .. NTasks[j] - 1 : Past(u)}' = {u \in 0 .. NTasks[j] - 1 : Past(u)}
  BY <1>2, <1>3
<1> QED
  BY <1>1, <1>3 DEF DoneInv

LEMMA DoneStep ==
  ASSUME TypeOK, CountInv, CurInv, DoneInv, NEW t \in Threads, Step(t), ~aborting
  PROVE  DoneInv'
<1> USE NAssumption, NTasksAssumption DEF TypeOK, At, Goto, Leave, Last, LastPCs
<1>00. node_n \in -1 .. NNodes
  OBVIOUS
<1>0. \A j \in Nodes : 0 .. NTasks[j] - 1 \subseteq Threads
  BY DEF Threads
<1>1. CASE Continue(t) \/ Test(t) \/ Spin(t)
  <2>1. UNCHANGED <<done, node_n>>
    BY <1>1 DEF Continue, Test, Spin
  <2>2. \A u \in Threads : Last(u)' <=> Last(u)
    BY <1>1 DEF Continue, Test, Spin
  <2>3. \A u \in Threads : Past(u)' <=> Past(u)
    BY <1>1, <2>2 DEF Continue, Test, Spin, Past, Parked
  <2>4. ~Last(t) /\ t \notin Parked
    BY <1>1 DEF Continue, Test, Spin, Parked
  <2>5. \A u \in Threads, j \in Nodes : Last(u) => (Reached(u, j)' <=> Reached(u, j))
    BY <2>4, NoLast
  <2> QED
    BY <2>1, <2>2, <2>3, <2>5, DoneIdleStep
<1>2. CASE Abort(t)
  BY <1>2 DEF Abort
<1>3. CASE Arrive(t)
  <2>1. t \notin Parked /\ ~Last(t) /\ cur[t] = node_n
    BY <1>3 DEF Arrive, Parked, CurInv
  <2>2. \A u \in Threads : ~Last(u)
    BY <2>1, NoLast
  <2>3. UNCHANGED <<done, node_n, cur>>
    BY <1>3 DEF Arrive
  <2>4. \A u \in Threads : Past(u)' <=> Past(u)
    BY <1>3, <2>1, <2>2 DEF Arrive, Past, Parked
  <2>5. CASE n_active # 1
    <3>1. \A u \in Threads : Last(u)' <=> Last(u)
      BY <1>3, <2>2, <2>5 DEF Arrive
    <3> QED
      BY <2>2, <2>3, <2>4, <3>1, DoneIdleStep
  <2>6. CASE n_active = 1
    <3>1. Parked = Threads \ {t}
      BY <1>3, <2>6, LastToArrive DEF Arrive
    <3>2. \A u \in Threads : Past(u)
      BY <1>3, <3>1 DEF Past, Arrive
    <3>3. \A j \in Nodes : j = node_n => Complete(j)
      BY <1>0, <3>2 DEF DoneInv, Complete
    <3>4. \A j \in Nodes : /\ j <= node_n => Complete(j)
                           /\ j > node_n => done[j] = {}
      BY <2>2, <3>3 DEF DoneInv, Nodes
    <3>5. pc'[t] \in {"next", "finalize"} /\ \A u \in Threads : u # t => ~Last(u)'
      BY <1>3, <2>2, <2>6 DEF Arrive
    <3>6. pc'[t] = "next" => node_n = -1
      BY <1>3, <2>1, <2>6 DEF Arrive
    <3>7. \A j \in Nodes : Reached(t, j)' <=> j <= node_n
      BY <2>1, <2>3, <3>5 DEF Reached, Nodes
    <3>8. ASSUME NEW j \in Nodes, j = node_n
          PROVE  done'[j] = {u \in 0 .. NTasks[j] - 1 : Past(u)'}
      BY <1>0, <2>3, <2>4, <3>8 DEF DoneInv
    <3>9. \A j \in Nodes : Complete(j)' <=> Complete(j)
      BY <2>3 DEF Complete
    <3>10. \A u \in Threads : Last(u)' => u = t
      BY <3>5
    <3>11. Last(t)'
      BY <3>5
    <3>12. ASSUME NEW j \in Nodes
           PROVE  /\ j < node_n => Complete(j)'
                  /\ IF Reached(t, j)' THEN Complete(j)' ELSE done'[j] = {}
      <4>1. CASE j <= node_n
        BY <3>4, <3>7, <3>9, <4>1
      <4>2. CASE ~(j <= node_n)
        <5>1. j > node_n
          BY <1>00, <4>2 DEF Nodes
        <5> QED
          BY <2>3, <3>4, <3>7, <5>1, <1>00 DEF Nodes
      <4> QED
        BY <4>1, <4>2
    <3> HIDE DEF Last
    <3> QED
      BY <2>3, <3>8, <3>10, <3>11, <3>12 DEF DoneInv
  <2> QED
    BY <2>5, <2>6
<1>4. CASE Finalize(t) \/ NextNode(t) \/ InitDone(t) \/ Poll(t) \/ Reset(t)
  <2>1. UNCHANGED <<done, node_n>>
    BY <1>4 DEF Finalize, NextNode, InitDone, Poll, Reset
  <2>2. Last(t) /\ Last(t)'
    BY <1>4 DEF Finalize, NextNode, InitDone, Poll, Reset
  <2>3. \A u \in Threads : u # t => cur'[u] = cur[u] /\ pc'[u] = pc[u]
    BY <1>4 DEF Finalize, NextNode, InitDone, Poll, Reset
  <2>4. \A u \in Threads : Last(u)' <=> Last(u)
    BY <2>2, <2>3
  <2>5. \A u \in Threads : Past(u)' <=> Past(u)
    BY <2>1, <2>2, <2>3, <2>4 DEF Past, Parked
  <2>6. \A j \in Nodes : Reached(t, j)' <=> Reached(t, j)
    BY <1>4 DEF Finalize, NextNode, InitDone, Poll, Reset, Reached, Nodes
  <2>7. \A u \in Threads, j \in Nodes : Last(u) => (Reached(u, j)' <=> Reached(u, j))
    BY <2>2, <2>6, LastAlone
  <2> QED
    BY <2>1, <2>4, <2>5, <2>7, DoneIdleStep
<1>5. CASE Solo(t)
  <2>0. pc[t] = "solo" /\ Last(t)
    BY <1>5 DEF Solo
  <2>1. /\ cur[t] \in Nodes /\ cur[t] > node_n
        /\ NTasks[cur[t]] = 1
        /\ \A u \in Threads : u # t => ~Last(u)
    <3>1. /\ cur[t] \in -1 .. NNodes /\ cur[t] < NNodes /\ cur[t] > node_n
          /\ NTasks[cur[t]] = 1
      BY <2>0 DEF CurInv
    <3>2. cur[t] \in Nodes
      BY <1>00, <3>1, NNodesAssumption DEF Nodes
    <3> QED
      BY <2>0, <3>1, <3>2, LastAlone
  <2>2. UNCHANGED <<cur, node_n>> /\ pc'[t] = "poll"
        /\ \A u \in Threads : u # t => pc'[u] = pc[u]
    BY <1>5 DEF Solo
  <2>3. done[cur[t]] = {}
    BY <1>5, <2>1 DEF Solo, DoneInv, Reached
  <2>4. /\ done'[cur[t]] = {0}
        /\ \A j \in Nodes : j # cur[t] => done'[j] = done[j]
    BY <1>5, <2>1, <2>3 DEF Solo, Computed
  <2>5. Complete(cur[t])' /\ \A j \in Nodes : j # cur[t] => (Complete(j)' <=> Complete(j))
    BY <2>1, <2>2, <2>4 DEF Complete
  <2>6. \A u \in Threads : Last(u)' <=> Last(u)
    BY <1>5, <2>2 DEF Solo
  <2>7. \A u \in Threads : Past(u)' <=> Past(u)
    BY <1>5, <2>2, <2>6 DEF Solo, Past, Parked
  <2>8. \A j \in Nodes : Reached(t, j)' <=> (Reached(t, j) \/ j = cur[t])
    BY <1>5, <2>2 DEF Solo, Reached, Nodes
  <2>9. ASSUME NEW j \in Nodes, j = node_n
        PROVE  done'[j] = {u \in 0 .. NTasks[j] - 1 : Past(u)'}
    BY <1>0, <2>1, <2>4, <2>7, <2>9 DEF DoneInv
  <2>10. Last(t)
    BY <1>5 DEF Solo
  <2>11. \A j \in Nodes : IF Reached(t, j)' THEN Complete(j)' ELSE done'[j] = {}
    <3> HIDE DEF Last
    <3>1. \A j \in Nodes : IF Reached(t, j) THEN Complete(j) ELSE done[j] = {}
      BY <2>10 DEF DoneInv
    <3> SUFFICES ASSUME NEW j \in Nodes
                 PROVE  IF Reached(t, j)' THEN Complete(j)' ELSE done'[j] = {}
      OBVIOUS
    <3>2. CASE j = cur[t]
      BY <2>2, <2>5, <2>8, <3>2
    <3>3. CASE j # cur[t]
      <4>1. (Reached(t, j)' <=> Reached(t, j)) /\ (Complete(j)' <=> Complete(j))
        BY <2>5, <2>8, <3>3
      <4>2. done'[j] = done[j]
        BY <2>4, <3>3
      <4> QED
        BY <3>1, <4>1, <4>2
    <3> QED
      BY <3>2, <3>3
  <2>12. \A j \in Nodes : j < node_n => Complete(j)'
    BY <2>1, <2>5 DEF DoneInv
  <2> QED
    BY <2>1, <2>2, <2>6, <2>9, <2>10, <2>11, <2>12 DEF DoneInv
<1>6. CASE Publish(t)
  <2>1. Last(t) /\ node_n' = cur[t] /\ UNCHANGED <<done, cur>>
    BY <1>6 DEF Publish
  <2>2. \A u \in Threads : ~Last(u)' /\ ~Past(u)'
    BY <1>6, <2>1, LastAlone DEF Publish, Past, Parked, CurInv
  <2>3. \A j \in Nodes : /\ j < cur[t] => Complete(j)
                         /\ j >= cur[t] => done[j] = {}
    BY <1>6, <2>1 DEF Publish, DoneInv, Reached, Nodes
  <2>4. \A j \in Nodes : {u \in 0 .. NTasks[j] - 1 : Past(u)}' = {}
    BY <1>0, <2>2
  <2>5. \A j \in Nodes : Complete(j)' <=> Complete(j)
    BY <2>1 DEF Complete
  <2> QED
    BY <2>1, <2>2, <2>3, <2>4, <2>5 DEF DoneInv, Nodes
<1>7. CASE Compute(t)
  <2>1. t \notin Parked /\ ~Last(t) /\ ~Past(t) /\ cur[t] = node_n /\ cur[t] \in Nodes
    <3>1. pc[t] = "compute"
      BY <1>7 DEF Compute
    <3>2. cur[t] = node_n /\ cur[t] >= 0 /\ cur[t] < NNodes /\ cur[t] \in -1 .. NNodes
      BY <3>1 DEF CurInv
    <3>3. t \notin Parked /\ ~Last(t) /\ ~Past(t)
      BY <3>1 DEF Parked, Past
    <3> QED
      BY <3>2, <3>3, NNodesAssumption DEF Nodes
  <2>2. \A u \in Threads : ~Last(u) /\ ~Last(u)'
    BY <1>7, <2>1, NoLast DEF Compute
  <2>3. UNCHANGED <<cur, node_n>> /\ Past(t)' /\ \A u \in Threads : u # t => (Past(u)' <=> Past(u))
    BY <1>7, <2>2 DEF Compute, Past, Parked
  <2>4. \A j \in Nodes : j # node_n => done'[j] = done[j]
    BY <1>7, <2>1 DEF Compute, Computed
  <2>5. done'[node_n] = {u \in 0 .. NTasks[node_n] - 1 : Past(u)'}
    <3>1. done[node_n] = {u \in 0 .. NTasks[node_n] - 1 : Past(u)}
      BY <2>1 DEF DoneInv
    <3>2. CASE t < NTasks[node_n]
      <4>1. done'[node_n] = done[node_n] \cup {t}
        BY <1>7, <2>1, <3>2 DEF Compute, Computed, Works
      <4>2. t \in 0 .. NTasks[node_n] - 1
        BY <2>1, <3>2 DEF Threads
      <4> QED
        BY <1>0, <2>1, <2>3, <3>1, <4>1, <4>2
    <3>3. CASE ~(t < NTasks[node_n])
      <4>1. done' = done
        BY <1>7, <2>1, <3>3 DEF Compute, Works
      <4>2. t \notin 0 .. NTasks[node_n] - 1
        BY <2>1, <3>3 DEF Threads
      <4> QED
        BY <1>0, <2>1, <2>3, <3>1, <4>1, <4>2
    <3> QED
      BY <3>2, <3>3
  <2>6. \A j \in Nodes : j # node_n => (Complete(j)' <=> Complete(j))
    BY <2>4 DEF Complete
  <2>7. \A j \in Nodes : /\ j < node_n => Complete(j)'
                         /\ j > node_n => done'[j] = {}
    BY <2>2, <2>4, <2>6 DEF DoneInv, Nodes
  <2> QED
    BY <2>2, <2>3, <2>5, <2>7 DEF DoneInv
<1> QED
  BY <1>1, <1>2, <1>3, <1>4, <1>5, <1>6, <1>7 DEF Step

-------------------------------------------------------------------------------
(* The theorems *)

LEMMA InvStep == IInv /\ [Next]_vars => IInv'
<1> SUFFICES ASSUME IInv, [Next]_vars PROVE IInv'
  OBVIOUS
<1>1. TypeOK'
  BY TypeStep
<1>2. CASE aborting'
  BY <1>1, <1>2 DEF IInv
<1>3. CASE ~aborting'
  <2>1. CASE UNCHANGED vars
    <3>1. UNCHANGED <<pc, cur, n_active, node_n, aborting, status, done>>
      BY <2>1 DEF vars
    <3>2. CountInv /\ CurInv /\ DoneInv
      BY <1>3, <3>1 DEF IInv
    <3>3. CountInv' /\ CurInv'
      BY <3>1, <3>2 DEF CountInv, CurInv, Parked, Last, At
    <3>4. DoneInv'
      BY <3>1, <3>2 DEF DoneInv, Past, Parked, Last, At, Reached, Complete
    <3> QED
      BY <1>1, <3>3, <3>4 DEF IInv
  <2>2. ASSUME NEW t \in Threads, Step(t) PROVE IInv'
    <3>1. aborting' = aborting
      BY <2>2 DEF Step, Continue, Abort, Arrive, Finalize, NextNode, InitDone,
         Solo, Poll, Reset, Publish, Spin, Test, Compute
    <3>2. TypeOK /\ CountInv /\ CurInv /\ DoneInv /\ ~aborting
      BY <1>3, <3>1 DEF IInv
    <3> QED
      BY <1>1, <2>2, <3>2, CountStep, CurStep, DoneStep DEF IInv
  <2>3. CASE RequestAbort
    BY <1>3, <2>3 DEF RequestAbort
  <2> QED
    BY <2>1, <2>2, <2>3 DEF Next, Terminated
<1> QED
  BY <1>2, <1>3

(* n_active and node_n agree with where the threads are, for any number of *)
(* threads, as long as nobody aborts.                                      *)
THEOREM Inductive == Spec => []IInv
  BY InitIInv, InvStep, PTL DEF Spec

(* n_active stays between 0 and n_threads, node_n within the graph.        *)
THEOREM TypeCorrect == Spec => []TypeOK
<1>1. IInv => TypeOK
  BY DEF IInv
<1> QED
  BY <1>1, Inductive, PTL

(* INIT, FINALIZE and single-task nodes run while nobody else computes.    *)
THEOREM PhasesOrdered == Spec => []PhasesApart
<1>1. IInv => PhasesApart
  <2> SUFFICES ASSUME IInv, ~aborting, NEW t \in Threads,
                      pc[t] \in {"finalize", "init", "solo"}, NEW u \in Threads
               PROVE  ~Works(u)
    BY DEF PhasesApart
  <2>1. CountInv /\ Last(t)
    BY DEF IInv, Last, LastPCs
  <2>2. CASE u = t
    BY <2>2 DEF Works, At
  <2>3. CASE u # t
    BY <2>1, <2>3, LastAlone DEF Works, At
  <2> QED
    BY <2>2, <2>3
<1> QED
  BY <1>1, Inductive, PTL

(* Every part of a node is computed once, and after all earlier nodes.     *)
THEOREM ComputedInOrder == Spec => []InOrder
<1>1. IInv => InOrder
  <2> SUFFICES ASSUME IInv, ~aborting, NEW t \in Threads, Works(t) \/ At(t, "solo")
               PROVE  /\ \A j \in 0 .. cur[t] - 1 : Complete(j)
                      /\ (IF At(t, "solo") THEN 0 ELSE t) \notin done[cur[t]]
    BY DEF InOrder
  <2>1. TypeOK /\ CountInv /\ CurInv /\ DoneInv
    BY DEF IInv
  <2>2. cur[t] \in Nodes /\ 0 .. cur[t] - 1 \subseteq Nodes
    <3>1. pc[t] \in {"compute", "solo"} /\ node_n \in -1 .. NNodes
      BY <2>1 DEF Works, At, TypeOK
    <3>2. cur[t] \in -1 .. NNodes /\ cur[t] < NNodes /\ cur[t] >= 0
      BY <2>1, <3>1, NNodesAssumption DEF CurInv, At
    <3> QED
      BY <3>2, NNodesAssumption DEF Nodes
  <2>3. CASE At(t, "solo")
    <3>1. Last(t) /\ \A j \in Nodes : Reached(t, j) <=> j < cur[t]
      BY <2>3 DEF Last, LastPCs, At, Reached
    <3>2. \A j \in Nodes : IF Reached(t, j) THEN Complete(j) ELSE done[j] = {}
      BY <2>1, <3>1 DEF DoneInv
    <3> QED
      BY <2>2, <2>3, <3>1, <3>2 DEF Nodes
  <2>4. CASE ~At(t, "solo")
    <3>1. At(t, "compute") /\ cur[t] = node_n /\ ~Past(t)
      BY <2>1, <2>4 DEF Works, At, CurInv, Past, Parked, Last, LastPCs
    <3>2. \A j \in 0 .. cur[t] - 1 : Complete(j)
      <4>1. \A j \in Nodes : j < node_n => Complete(j)
        BY <2>1 DEF DoneInv
      <4>2. \A j \in 0 .. cur[t] - 1 : j \in Nodes /\ j < node_n
        BY <2>2, <3>1 DEF Nodes
      <4> QED
        BY <4>1, <4>2
    <3>3. done[cur[t]] = {u \in 0 .. NTasks[cur[t]] - 1 : Past(u)}
      BY <2>1, <2>2, <3>1 DEF DoneInv
    <3> QED
      BY <2>4, <3>1, <3>2, <3>3
  <2> QED
    BY <2>3, <2>4
<1> QED
  BY <1>1, Inductive, PTL

(* When the threads have left and nobody aborted, the graph is computed.   *)
THEOREM GraphComputed == Spec => []JoinedIsComplete
<1>1. IInv => JoinedIsComplete
  <2> SUFFICES ASSUME IInv, Joined, ~aborting, NEW j \in Nodes PROVE Complete(j)
    BY DEF JoinedIsComplete
  <2>1. CurInv /\ DoneInv
    BY DEF IInv
  <2>2. 0 \in Threads
    BY NAssumption DEF Threads
  <2>3. node_n = NNodes
    BY <2>1, <2>2 DEF CurInv, Joined, At
  <2> QED
    BY <2>1, <2>3, NNodesAssumption DEF DoneInv, Nodes
<1> QED
  BY <1>1, Inductive, PTL

================================================================================
