---------------------------- MODULE WorkqProofs -----------------------------
(***************************************************************************)
(* A work queue's memory is freed once, when nobody refers to it and no    *)
(* task is left, for any number of threads and tasks.                      *)
(*                                                                         *)
(* The argument: the count of threads, with the one being forked, is exact *)
(* (RunningCounts), so when it is 0 nobody is left; and the states of the  *)
(* queue, of its creator and of its destroyer go together (Phases), so     *)
(* that each of the two places that free the memory is reached only where  *)
(* the other no longer can be.                                             *)
(***************************************************************************)
EXTENDS Workq, FiniteSetTheorems, TLAPS

Live == {t \in Threads : thread[t] \in {"ready", "bored", "working"}}

(* Which states of the queue, its creator and its destroyer go together. *)
Phases ==
  /\ wq_state = "CREATED" => creator = "deferred" /\ destroyer = "idle"
  /\ wq_state = "RUNNING" => creator # "deferred" /\ destroyer = "idle"
  /\ wq_state = "DESTROYED" =>
       IF creator = "deferred" THEN destroyer = "done" ELSE destroyer \in {"asleep", "woken"}
  /\ wq_state = "freed" => creator = "done" /\ destroyer = "done" /\ wq_running = 0
  /\ creator = "deferred" => wq_running = 0 /\ \A t \in Threads : thread[t] = "none"

(* Threads leave a queue that is being destroyed when its list is empty,   *)
(* and then nothing is queued any more.                                    *)
ExitedDrained ==
  (\E t \in Threads : thread[t] = "exited") =>
    wq_tasklist = <<>> /\ wq_state \in {"DESTROYED", "freed"}

IInv == TypeOK /\ RunningCounts /\ Phases /\ ExitedDrained
-----------------------------------------------------------------------------
(* The live threads are a finite set, and none is left when the count is 0. *)
LEMMA LiveFacts ==
  ASSUME IInv
  PROVE  /\ IsFiniteSet(Live) /\ Cardinality(Live) \in Nat
         /\ wq_running = Cardinality(Live) + (IF creator = "forking" THEN 1 ELSE 0)
         /\ wq_running = 0 =>
              creator # "forking" /\ \A t \in Threads : thread[t] \in {"none", "exited"}
<1>1. IsFiniteSet(Live) /\ Cardinality(Live) \in Nat
  BY WorkqAssumption, FS_Subset, FS_CardinalityType DEF Live
<1>2. wq_running = Cardinality(Live) + (IF creator = "forking" THEN 1 ELSE 0)
  BY DEF IInv, RunningCounts, Live
<1>3. ASSUME wq_running = 0
      PROVE  creator # "forking" /\ \A t \in Threads : thread[t] \in {"none", "exited"}
  <2>1. Cardinality(Live) = 0 /\ creator # "forking"
    BY <1>1, <1>2, <1>3
  <2>2. Live = {}
    BY <1>1, <2>1, FS_EmptySet
  <2> QED BY <2>1, <2>2 DEF Live, IInv, TypeOK
<1> QED BY <1>1, <1>2, <1>3

(* How the number of live threads follows one thread's change. *)
Lively == {"ready", "bored", "working"}

OnlyChanged(t) == \A u \in Threads \ {t} : thread'[u] = thread[u]

LEMMA LiveChange ==
  ASSUME IInv, NEW t \in Threads, OnlyChanged(t)
  PROVE  /\ thread[t] \in Lively /\ thread'[t] \in Lively =>
              Cardinality(Live') = Cardinality(Live)
         /\ thread[t] \notin Lively /\ thread'[t] \in Lively =>
              Cardinality(Live') = Cardinality(Live) + 1
         /\ thread[t] \in Lively /\ thread'[t] \notin Lively =>
              Cardinality(Live') = Cardinality(Live) - 1 /\ Cardinality(Live') \in Nat
<1>1. IsFiniteSet(Live) /\ Cardinality(Live) \in Nat
  BY LiveFacts
<1>2. t \in Live <=> thread[t] \in Lively
  BY DEF Live, Lively
<1>3. CASE thread'[t] \in Lively
  <2>1. Live' = Live \cup {t}
    BY <1>3 DEF Live, Lively, OnlyChanged
  <2>2. Cardinality(Live') = IF t \in Live THEN Cardinality(Live) ELSE Cardinality(Live) + 1
    BY <1>1, <2>1, FS_AddElement
  <2> QED BY <1>2, <1>3, <2>2
<1>4. CASE thread'[t] \notin Lively
  <2>1. Live' = Live \ {t}
    BY <1>4 DEF Live, Lively, OnlyChanged
  <2>2. /\ IsFiniteSet(Live')
        /\ Cardinality(Live') = IF t \in Live THEN Cardinality(Live) - 1 ELSE Cardinality(Live)
    BY <1>1, <2>1, FS_RemoveElement
  <2>3. Cardinality(Live') \in Nat
    BY <2>2, FS_CardinalityType
  <2> QED BY <1>2, <1>4, <2>2, <2>3
<1> QED BY <1>3, <1>4

LEMMA InitInv == Init => IInv
<1> SUFFICES ASSUME Init PROVE IInv
  OBVIOUS
<1>1. TypeOK /\ Phases /\ ExitedDrained
  BY WorkqAssumption DEF Init, TypeOK, Phases, ExitedDrained
<1>2. Live = {}
  BY DEF Init, Live
<1>3. Cardinality(Live) = 0
  BY <1>2, FS_EmptySet
<1>4. RunningCounts
  BY <1>3 DEF Init, RunningCounts, Live
<1> QED BY <1>1, <1>4 DEF IInv

(* Each action keeps the invariant. *)
LEMMA NextInv ==
  ASSUME IInv, [Next]_vars
  PROVE  IInv'
<1> USE DEF IInv
<1>t. /\ wq_running \in Nat /\ wq_max \in Nat \ {0}
      /\ wq_running = Cardinality(Live) + (IF creator = "forking" THEN 1 ELSE 0)
      /\ Cardinality(Live) \in Nat
  BY LiveFacts, WorkqAssumption DEF TypeOK
<1>r. RunningCounts' <=>
        wq_running' = Cardinality(Live') + (IF creator' = "forking" THEN 1 ELSE 0)
  BY DEF RunningCounts, Live
<1>u. CASE UNCHANGED vars
  BY <1>u DEF vars, TypeOK, RunningCounts, Phases, ExitedDrained
<1>1. ASSUME NEW w \in Tasks, workq_queue_task(w) PROVE IInv'
  <2>1. wq_tasklist' \in Seq(Tasks) /\ waking' \subseteq Tasks
    BY <1>1 DEF workq_queue_task, TypeOK
  <2>2. ExitedDrained'
    BY <1>1 DEF workq_queue_task, ExitedDrained
  <2> QED BY <1>1, <2>1, <2>2 DEF workq_queue_task, TypeOK, RunningCounts, Phases
<1>2. ASSUME NEW w \in Tasks, WakeupOne(w) PROVE IInv'
  <2>1. CASE UNCHANGED thread
    BY <1>2, <2>1 DEF WakeupOne, TypeOK, RunningCounts, Phases, ExitedDrained
  <2>2. ASSUME NEW t \in Bored, thread' = [thread EXCEPT ![t] = "ready"] PROVE IInv'
    <3>1. t \in Threads /\ thread[t] = "bored"
      BY DEF Bored
    <3>0. OnlyChanged(t) /\ thread'[t] = "ready"
      BY <2>2, <3>1 DEF OnlyChanged, TypeOK
    <3>2. Cardinality(Live') = Cardinality(Live)
      BY <3>0, <3>1, LiveChange DEF Lively
    <3>3. RunningCounts'
      BY <1>2, <1>t, <1>r, <3>2 DEF WakeupOne
    <3>4. TypeOK' /\ Phases' /\ ExitedDrained'
      BY <1>2, <2>2, <3>1 DEF WakeupOne, TypeOK, Phases, ExitedDrained
    <3> QED BY <3>3, <3>4
  <2> QED BY <1>2, <2>1, <2>2 DEF WakeupOne
<1>3. ASSUME NEW t \in Threads, Work(t) PROVE IInv'
  <2>1. CASE NextTask(t)
    <3>0. OnlyChanged(t) /\ thread[t] \in Lively /\ thread'[t] \in Lively
      BY <2>1 DEF NextTask, OnlyChanged, TypeOK, Lively
    <3>1. Cardinality(Live') = Cardinality(Live)
      BY <3>0, LiveChange
    <3>2. RunningCounts'
      BY <2>1, <1>t, <1>r, <3>1 DEF NextTask
    <3>3. Head(wq_tasklist) \in Tasks /\ Tail(wq_tasklist) \in Seq(Tasks)
      BY <2>1 DEF NextTask, TypeOK
    <3>4. TypeOK' /\ Phases' /\ ExitedDrained'
      BY <2>1, <3>3 DEF NextTask, TypeOK, Phases, ExitedDrained
    <3> QED BY <3>2, <3>4
  <2>2. CASE NextTaskSleep(t)
    <3>0. OnlyChanged(t) /\ thread[t] \in Lively /\ thread'[t] \in Lively
      BY <2>2 DEF NextTaskSleep, OnlyChanged, TypeOK, Lively
    <3>1. Cardinality(Live') = Cardinality(Live)
      BY <3>0, LiveChange
    <3>2. RunningCounts'
      BY <2>2, <1>t, <1>r, <3>1 DEF NextTaskSleep
    <3>3. TypeOK' /\ Phases' /\ ExitedDrained'
      BY <2>2 DEF NextTaskSleep, TypeOK, Phases, ExitedDrained
    <3> QED BY <3>2, <3>3
  <2>3. CASE NextTaskNone(t)
    <3>1. OnlyChanged(t) /\ thread[t] \in Lively /\ thread'[t] \notin Lively
      BY <2>3 DEF NextTaskNone, OnlyChanged, TypeOK, Lively
    <3>2. Cardinality(Live') = Cardinality(Live) - 1 /\ Cardinality(Live') \in Nat
      BY <3>1, LiveChange
    <3>3. RunningCounts'
      BY <2>3, <1>t, <1>r, <3>2 DEF NextTaskNone
    <3>4. wq_state = "DESTROYED" /\ creator # "deferred" /\ destroyer \in {"asleep", "woken"}
      BY <2>3, <1>t, LiveFacts DEF NextTaskNone, Phases, TypeOK
    <3>5. TypeOK'
      BY <2>3, <1>t, <3>2 DEF NextTaskNone, TypeOK, woken_destroyer
    <3>6. Phases' /\ ExitedDrained'
      BY <2>3, <3>4 DEF NextTaskNone, Phases, ExitedDrained, woken_destroyer
    <3> QED BY <3>3, <3>5, <3>6
  <2>4. CASE TaskDone(t)
    <3>0. OnlyChanged(t) /\ thread[t] \in Lively /\ thread'[t] \in Lively
      BY <2>4 DEF TaskDone, OnlyChanged, TypeOK, Lively
    <3>1. Cardinality(Live') = Cardinality(Live)
      BY <3>0, LiveChange
    <3>2. RunningCounts'
      BY <2>4, <1>t, <1>r, <3>1 DEF TaskDone
    <3>3. TypeOK' /\ Phases' /\ ExitedDrained'
      BY <2>4 DEF TaskDone, TypeOK, Phases, ExitedDrained
    <3> QED BY <3>2, <3>3
  <2> QED BY <1>3, <2>1, <2>2, <2>3, <2>4 DEF Work
<1>4. CASE workq_create_thread
  <2>1. Live' = Live
    BY <1>4 DEF workq_create_thread, Live
  <2>2. RunningCounts'
    BY <1>4, <1>t, <1>r, <2>1 DEF workq_create_thread, Phases
  <2>3. wq_state \in {"CREATED", "DESTROYED"}
    BY <1>4 DEF workq_create_thread, TypeOK, Phases
  <2>4. TypeOK'
    BY <1>4, <1>t DEF workq_create_thread, TypeOK
  <2>5. Phases'
    BY <1>4, <2>3 DEF workq_create_thread, Phases
  <2>6. ExitedDrained'
    BY <1>4 DEF workq_create_thread, Phases, ExitedDrained
  <2> QED BY <2>2, <2>4, <2>5, <2>6
<1>5. CASE NotForked
  <2>1. Live' = Live /\ wq_running - 1 \in Nat
    BY <1>5, <1>t DEF NotForked, Live
  <2>2. RunningCounts'
    BY <1>5, <1>t, <1>r, <2>1 DEF NotForked
  <2>3. TypeOK' /\ Phases' /\ ExitedDrained'
    BY <1>5, <1>t, <2>1 DEF NotForked, TypeOK, Phases, ExitedDrained, woken_destroyer
  <2> QED BY <2>2, <2>3
<1>6. ASSUME NEW t \in Threads, Forked(t) PROVE IInv'
  <2>0. OnlyChanged(t) /\ thread[t] \notin Lively /\ thread'[t] \in Lively
    BY <1>6 DEF Forked, OnlyChanged, TypeOK, Lively
  <2>1. Cardinality(Live') = Cardinality(Live) + 1
    BY <2>0, LiveChange
  <2>2. RunningCounts'
    BY <1>6, <1>t, <1>r, <2>1 DEF Forked
  <2>3. TypeOK' /\ Phases' /\ ExitedDrained'
    BY <1>6, <1>t DEF Forked, TypeOK, Phases, ExitedDrained
  <2> QED BY <2>2, <2>3
<1>7. ASSUME DestroyLoop, creator # "deferred", wq_state \in {"RUNNING", "DESTROYED"},
             UNCHANGED <<wq_running, wq_tasklist, waking, creator, task>>
      PROVE  IInv'
  <2>1. Live' = Live
    BY <1>7 DEF DestroyLoop, Live, Bored, TypeOK
  <2>2. RunningCounts'
    BY <1>7, <1>t, <1>r, <2>1
  <2>3. wq_running = 0 => creator = "done"
    BY <1>7, LiveFacts DEF TypeOK
  <2>4. TypeOK'
    BY <1>7 DEF DestroyLoop, TypeOK
  <2>5. Phases'
    BY <1>7, <2>3 DEF DestroyLoop, Phases
  <2>6. ExitedDrained'
    BY <1>7 DEF DestroyLoop, ExitedDrained, Bored
  <2> QED BY <2>2, <2>4, <2>5, <2>6
<1>8. CASE workq_destroy
  <2>1. CASE wq_state = "CREATED" /\ wq_state' = "DESTROYED" /\ destroyer' = "done"
             /\ UNCHANGED thread
    BY <1>8, <2>1 DEF workq_destroy, TypeOK, RunningCounts, Phases, ExitedDrained
  <2>2. CASE wq_state = "RUNNING" /\ DestroyLoop
    BY <1>8, <2>2, <1>7 DEF workq_destroy, Phases
  <2> QED BY <1>8, <2>1, <2>2 DEF workq_destroy
<1>9. CASE DestroyAgain
  <2>1. wq_state = "DESTROYED" /\ creator # "deferred"
    BY <1>9 DEF DestroyAgain, Phases, TypeOK
  <2> QED BY <1>9, <2>1, <1>7 DEF DestroyAgain
<1> QED BY <1>u, <1>1, <1>2, <1>3, <1>4, <1>5, <1>6, <1>8, <1>9 DEF Next, Create

LEMMA Invariance == Spec => []IInv
BY InitInv, NextInv, PTL DEF Spec
-----------------------------------------------------------------------------
(* The state of the queue stays well formed; in particular there are never *)
(* more than wq_max threads counted.                                       *)
THEOREM TypeCorrect == Spec => []TypeOK
<1>1. IInv => TypeOK
  BY DEF IInv
<1> QED BY <1>1, Invariance, PTL

(* wq_running is the number of live threads and the one being forked. *)
THEOREM CountExact == Spec => []RunningCounts
<1>1. IInv => RunningCounts
  BY DEF IInv
<1> QED BY <1>1, Invariance, PTL

(* Freed memory is referred to by no thread, no creator and no destroyer,  *)
(* and if the queue ever had a thread it went without tasks.               *)
THEOREM FreedSafely == Spec => []FreedUnreferenced
<1>1. IInv => FreedUnreferenced
  <2> SUFFICES ASSUME IInv, wq_state = "freed"
               PROVE  /\ creator = "done" /\ destroyer = "done"
                      /\ \A t \in Threads : thread[t] \in {"none", "exited"}
                      /\ (\E t \in Threads : thread[t] # "none") => wq_tasklist = <<>>
    BY DEF FreedUnreferenced
  <2>1. creator = "done" /\ destroyer = "done" /\ wq_running = 0
    BY DEF IInv, Phases
  <2>2. \A t \in Threads : thread[t] \in {"none", "exited"}
    BY <2>1, LiveFacts
  <2>3. (\E t \in Threads : thread[t] # "none") => wq_tasklist = <<>>
    BY <2>2 DEF IInv, ExitedDrained
  <2> QED BY <2>1, <2>2, <2>3
<1> QED BY <1>1, Invariance, PTL
=============================================================================
