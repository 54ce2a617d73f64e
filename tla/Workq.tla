-------------------------------- MODULE Workq --------------------------------
(***************************************************************************)
(* A work queue of kern/kern_workq.c: tasks queued from any context, the   *)
(* threads that run them, the deferred creation of the threads and the     *)
(* destruction of the queue.                                               *)
(*                                                                         *)
(* What is done under wq_mtx is one step.  The mutex is left to sleep, to  *)
(* run a task, to fork a thread, and by workq_queue_task() before its      *)
(* wakeup_one().  A forked thread does not run before its creator lets go  *)
(* of the kernel lock, in the next fork or when it is done.                *)
(***************************************************************************)
EXTENDS Naturals, Sequences, SequencesExt, FiniteSets

CONSTANTS
  Threads,     \* the threads that fork1() can make
  Tasks, NoTask,
  wq_max,
  MayFail      \* whether fork1() may fail

ASSUME WorkqAssumption ==
  wq_max \in Nat \ {0} /\ NoTask \notin Tasks /\ IsFiniteSet(Threads)

VARIABLES
  wq_state,    \* WQ_S_*, or "freed"
  wq_running,
  wq_tasklist,
  waking,      \* tasks queued by calls that have yet to call wakeup_one()
  creator,     \* workq_create_thread(): deferred, in kthread_create(), done
  destroyer,   \* workq_destroy(): not called, asleep, woken, done
  thread,      \* each worker: not made, about to take a task, asleep,
               \* running a task, exited
  task         \* the task a worker runs

vars == <<wq_state, wq_running, wq_tasklist, waking, creator, destroyer, thread, task>>

TypeOK ==
  /\ wq_state \in {"CREATED", "RUNNING", "DESTROYED", "freed"}
  /\ wq_running \in 0 .. wq_max
  /\ wq_tasklist \in Seq(Tasks) /\ waking \subseteq Tasks
  /\ creator \in {"deferred", "forking", "done"}
  /\ destroyer \in {"idle", "asleep", "woken", "done"}
  /\ thread \in [Threads -> {"none", "ready", "bored", "working", "exited"}]
  /\ task \in [Threads -> Tasks \cup {NoTask}]

(* workq_create(), and workq_init() for the system's queue. *)
Init ==
  /\ wq_state = "CREATED" /\ wq_running = 0 /\ wq_tasklist = <<>> /\ waking = {}
  /\ creator = "deferred" /\ destroyer = "idle"
  /\ thread = [t \in Threads |-> "none"]
  /\ task = [t \in Threads |-> NoTask]

Bored == {t \in Threads : thread[t] = "bored"}

(* wakeup_one(&wq->wq_running) *)
woken_destroyer == IF destroyer = "asleep" THEN "woken" ELSE destroyer

-----------------------------------------------------------------------------
(* workq_queue_task(): the link, under the mutex.  The caller does not     *)
(* queue a task that is queued, or on a queue it has destroyed.            *)
workq_queue_task(w) ==
  /\ wq_state \in {"CREATED", "RUNNING"}
  /\ w \notin Range(wq_tasklist) /\ w \notin waking
  /\ wq_tasklist' = Append(wq_tasklist, w)
  /\ waking' = waking \cup {w}
  /\ UNCHANGED <<wq_state, wq_running, creator, destroyer, thread, task>>

(* Fault: no wakeup. *)
WakeupOne_none(w) ==
  /\ w \in waking /\ waking' = waking \ {w}
  /\ UNCHANGED <<wq_state, wq_running, wq_tasklist, creator, destroyer, thread, task>>

(* workq_queue_task(): wakeup_one(wq), without the mutex. *)
WakeupOne(w) ==
  /\ w \in waking /\ waking' = waking \ {w}
  /\ \/ Bored = {} /\ UNCHANGED thread
     \/ \E t \in Bored : thread' = [thread EXCEPT ![t] = "ready"]
  /\ UNCHANGED <<wq_state, wq_running, wq_tasklist, creator, destroyer, task>>

-----------------------------------------------------------------------------
(* Fault: the thread is counted when it has been made. *)
workq_create_thread_late ==
  /\ creator = "deferred"
  /\ IF wq_state = "DESTROYED"
       THEN wq_state' = "freed" /\ creator' = "done" /\ UNCHANGED wq_running
       ELSE wq_state' = "RUNNING" /\ creator' = "forking" /\ UNCHANGED wq_running
  /\ UNCHANGED <<wq_tasklist, waking, destroyer, thread, task>>

(* workq_create_thread(), called by kthread_run_deferred_queue(). *)
workq_create_thread ==
  /\ creator = "deferred"
  /\ IF wq_state = "DESTROYED"
       THEN wq_state' = "freed" /\ creator' = "done" /\ UNCHANGED wq_running
       ELSE wq_state' = "RUNNING" /\ creator' = "forking" /\ wq_running' = 1
  /\ UNCHANGED <<wq_tasklist, waking, destroyer, thread, task>>

(* Fault: one thread too many. *)
Forked_more(t) ==
  /\ creator = "forking" /\ thread[t] = "none"
  /\ thread' = [thread EXCEPT ![t] = "ready"]
  /\ IF wq_running <= wq_max
       THEN wq_running' = wq_running + 1 /\ UNCHANGED creator
       ELSE creator' = "done" /\ UNCHANGED wq_running
  /\ UNCHANGED <<wq_state, wq_tasklist, waking, destroyer, task>>

(* kthread_create() returns, and the loop goes on while threads are        *)
(* missing.                                                                *)
Forked(t) ==
  /\ creator = "forking" /\ thread[t] = "none"
  /\ thread' = [thread EXCEPT ![t] = "ready"]
  /\ IF wq_running < wq_max
       THEN wq_running' = wq_running + 1 /\ UNCHANGED creator
       ELSE creator' = "done" /\ UNCHANGED wq_running
  /\ UNCHANGED <<wq_state, wq_tasklist, waking, destroyer, task>>

NotForked ==
  /\ creator = "forking" /\ MayFail
  /\ creator' = "done" /\ wq_running' = wq_running - 1
  /\ destroyer' = IF wq_state = "DESTROYED" /\ wq_running' = 0
                    THEN woken_destroyer ELSE destroyer
  /\ UNCHANGED <<wq_state, wq_tasklist, waking, thread, task>>

-----------------------------------------------------------------------------
(* workq_next_task(): a task, a sleep, or the end of the thread. *)
NextTask(t) ==
  /\ thread[t] = "ready" /\ wq_tasklist # <<>>
  /\ thread' = [thread EXCEPT ![t] = "working"]
  /\ task' = [task EXCEPT ![t] = Head(wq_tasklist)]
  /\ wq_tasklist' = Tail(wq_tasklist)
  /\ UNCHANGED <<wq_state, wq_running, waking, creator, destroyer>>

NextTaskSleep(t) ==
  /\ thread[t] = "ready" /\ wq_tasklist = <<>> /\ wq_state = "RUNNING"
  /\ thread' = [thread EXCEPT ![t] = "bored"]
  /\ UNCHANGED <<wq_state, wq_running, wq_tasklist, waking, creator, destroyer, task>>

(* Fault: the count is tested before it is lowered. *)
NextTaskNone_quiet(t) ==
  /\ thread[t] = "ready" /\ wq_tasklist = <<>> /\ wq_state # "RUNNING"
  /\ thread' = [thread EXCEPT ![t] = "exited"]
  /\ wq_running' = wq_running - 1
  /\ destroyer' = IF wq_running = 0 THEN woken_destroyer ELSE destroyer
  /\ UNCHANGED <<wq_state, wq_tasklist, waking, creator, task>>

NextTaskNone(t) ==
  /\ thread[t] = "ready" /\ wq_tasklist = <<>> /\ wq_state # "RUNNING"
  /\ thread' = [thread EXCEPT ![t] = "exited"]
  /\ wq_running' = wq_running - 1
  /\ destroyer' = IF wq_running' = 0 THEN woken_destroyer ELSE destroyer
  /\ UNCHANGED <<wq_state, wq_tasklist, waking, creator, task>>

(* workq_thread(): the task's function returns. *)
TaskDone(t) ==
  /\ thread[t] = "working"
  /\ thread' = [thread EXCEPT ![t] = "ready"]
  /\ task' = [task EXCEPT ![t] = NoTask]
  /\ UNCHANGED <<wq_state, wq_running, wq_tasklist, waking, creator, destroyer>>

-----------------------------------------------------------------------------
(* The loop of workq_destroy(), once the queue is marked. *)
DestroyLoop ==
  IF wq_running # 0
    THEN /\ thread' = [t \in Threads |-> IF t \in Bored THEN "ready" ELSE thread[t]]
         /\ destroyer' = "asleep" /\ wq_state' = "DESTROYED"
    ELSE destroyer' = "done" /\ wq_state' = "freed" /\ UNCHANGED thread

(* workq_destroy(): a queue still on the deferred list is left to          *)
(* workq_create_thread().                                                  *)
workq_destroy ==
  /\ destroyer = "idle"
  /\ \/ wq_state = "CREATED" /\ wq_state' = "DESTROYED"
        /\ destroyer' = "done" /\ UNCHANGED thread
     \/ wq_state = "RUNNING" /\ DestroyLoop
  /\ UNCHANGED <<wq_running, wq_tasklist, waking, creator, task>>

DestroyAgain ==
  /\ destroyer = "woken" /\ DestroyLoop
  /\ UNCHANGED <<wq_running, wq_tasklist, waking, creator, task>>

Work(t) == NextTask(t) \/ NextTaskSleep(t) \/ NextTaskNone(t) \/ TaskDone(t)

Create == workq_create_thread \/ NotForked \/ \E t \in Threads : Forked(t)

Next ==
  \/ \E w \in Tasks : workq_queue_task(w) \/ WakeupOne(w)
  \/ \E t \in Threads : Work(t)
  \/ Create \/ workq_destroy \/ DestroyAgain

Spec == Init /\ [][Next]_vars

(* Whoever can run runs: the functions of the tasks return, and the        *)
(* deferred list is run.  Nobody has to queue a task or destroy the queue. *)
FairSpec ==
  /\ Spec /\ WF_vars(Create) /\ WF_vars(DestroyAgain)
  /\ \A w \in Tasks : WF_vars(WakeupOne(w))
  /\ \A t \in Threads : WF_vars(Work(t))

-----------------------------------------------------------------------------
(* When the queue's memory is freed, by workq_destroy() or by              *)
(* workq_create_thread(), nobody is left who would touch it: no worker, no *)
(* creator, and no second free; and a queue that has had a thread has no   *)
(* task left.                                                              *)
FreedUnreferenced ==
  wq_state = "freed" =>
    /\ creator = "done" /\ destroyer = "done"
    /\ \A t \in Threads : thread[t] \in {"none", "exited"}
    /\ (\E t \in Threads : thread[t] # "none") => wq_tasklist = <<>>

(* wq_running counts the live threads and the one being forked, so         *)
(* workq_destroy() waits for all of them and there are never more than     *)
(* wq_max.                                                                 *)
RunningCounts ==
  wq_running = Cardinality({t \in Threads : thread[t] \in {"ready", "bored", "working"}})
                 + (IF creator = "forking" THEN 1 ELSE 0)

(* A queue that has had a thread runs the tasks on it, also while it is    *)
(* being destroyed.                                                        *)
QueuedTaskRuns ==
  \A w \in Tasks :
    w \in Range(wq_tasklist) /\ (\E t \in Threads : thread[t] # "none") ~>
      \E t \in Threads : task[t] = w

(* workq_destroy() returns, once no more threads are being forked for the  *)
(* queue.                                                                  *)
DestroyReturns == destroyer = "asleep" /\ creator = "done" ~> destroyer = "done"
=============================================================================
