------------------------------- MODULE RWLock -------------------------------
(***************************************************************************)
(* The sleeping reader/writer lock of kern/kern_rwlock.c.                  *)
(*                                                                         *)
(* The whole lock is one word, rwl_owner, that every CPU reads and changes *)
(* with compare-and-swap.  A step of this specification is one access to   *)
(* that word (with the private computation around it) or one critical      *)
(* section of the scheduler lock: sleep_setup() takes that lock and        *)
(* sleep_finish() gives it up once the process is asleep, and wakeup()     *)
(* takes it too, so putting oneself on the sleep queue, the                *)
(* compare-and-swap in between, and falling asleep are one step against    *)
(* a wakeup.                                                               *)
(*                                                                         *)
(* A word is a record.  RWLOCK_WRLOCK and the owner's address always       *)
(* change together, so the field wr holds both: the writing process, or    *)
(* NoProc when the bit is clear.                                           *)
(***************************************************************************)
EXTENDS Naturals, FiniteSets

CONSTANTS
  Procs,      \* processes that use the lock
  NoProc,     \* no process: RWLOCK_WRLOCK clear
  Flags       \* the sets of RW_INTR, RW_SLEEPFAIL, RW_NOSLEEP that each process
              \* passes to rw_enter()

ASSUME ProcsAssumption == NoProc \notin Procs /\ IsFiniteSet(Procs)
ASSUME FlagsAssumption ==
  \A p \in Procs : Flags[p] \subseteq SUBSET {"INTR", "SLEEPFAIL", "NOSLEEP"}

VARIABLES
  owner,      \* rwl_owner
  pc,         \* where each process is in the lock's code
  op,         \* flags & RW_OPMASK of the rw_enter() in progress
  flags,      \* its other flags
  o,          \* the local copy (o in rw_enter(), owner elsewhere) of the word
  slpq,       \* processes on the sleep queue with p_wchan == rwl
  mode        \* what each process holds by the compare-and-swaps it won

vars == <<owner, pc, op, flags, o, slpq, mode>>

Word == [wait : BOOLEAN, wrwant : BOOLEAN, wr : Procs \cup {NoProc}, rd : Nat]
Zero == [wait |-> FALSE, wrwant |-> FALSE, wr |-> NoProc, rd |-> 0]
Ops  == {"RW_WRITE", "RW_READ", "RW_DOWNGRADE"}

Labels == {"out", "enter_read", "enter", "wait", "stopped", "dozing", "sleep",
           "cas", "downgraded", "held", "exit_read", "exit_write", "exit",
           "exit_load", "exit_cas", "wakeup"}

TypeOK ==
  /\ owner \in Word
  /\ pc \in [Procs -> Labels]
  /\ op \in [Procs -> Ops]
  /\ flags \in [Procs -> SUBSET {"INTR", "SLEEPFAIL", "NOSLEEP"}]
  /\ o \in [Procs -> Word]
  /\ slpq \subseteq Procs
  /\ mode \in [Procs -> {"none", "read", "write"}]

(***************************************************************************)
(* The table rw_ops: what must be clear, what is added, what a waiter      *)
(* sets.                                                                   *)
(***************************************************************************)
(* Fault: a writer that looks only at RWLOCK_WRLOCK. *)
check_wrlock_only(k, w) == k # "RW_DOWNGRADE" /\ w.wr # NoProc

check(k, w) ==
  CASE k = "RW_WRITE"     -> w # Zero
    [] k = "RW_READ"      -> w.wr # NoProc
    [] k = "RW_DOWNGRADE" -> FALSE

inc(k, p, w) ==
  CASE k = "RW_WRITE"     -> [w EXCEPT !.wr = p]
    [] k = "RW_READ"      -> [w EXCEPT !.rd = @ + 1]
    [] k = "RW_DOWNGRADE" -> [w EXCEPT !.wr = NoProc, !.rd = @ + 1]

wait_set(k, w) ==
  CASE k = "RW_WRITE"     -> [w EXCEPT !.wait = TRUE, !.wrwant = TRUE]
    [] k = "RW_READ"      -> [w EXCEPT !.wait = TRUE]
    [] k = "RW_DOWNGRADE" -> w

less_reader(w) == [w EXCEPT !.rd = @ - 1]

held_by(k) == IF k = "RW_WRITE" THEN "write" ELSE "read"

(* Control moves to l; locals that are dead there are forgotten: the copy  *)
(* of the word always, the arguments of rw_enter() when it has returned.   *)
Goto(p, l) ==
  /\ pc' = [pc EXCEPT ![p] = l]
  /\ o' = [o EXCEPT ![p] = Zero]
  /\ IF l \in {"out", "held", "downgraded", "wakeup"}
       THEN /\ op' = [op EXCEPT ![p] = "RW_READ"]
            /\ flags' = [flags EXCEPT ![p] = {}]
       ELSE UNCHANGED <<op, flags>>

(* Control moves to l with a fresh copy of the word. *)
Load(p, l) ==
  /\ pc' = [pc EXCEPT ![p] = l]
  /\ o' = [o EXCEPT ![p] = owner]
  /\ UNCHANGED <<op, flags>>

(* The compare-and-swap: the word changes iff it still is what p read.     *)
rw_cas(old, new, won, lost) ==
  \/ owner = old /\ owner' = new /\ won
  \/ owner # old /\ owner' = owner /\ lost

(* rw_init() *)
Init ==
  /\ owner = Zero
  /\ pc = [p \in Procs |-> "out"]
  /\ op = [p \in Procs |-> "RW_READ"]
  /\ flags = [p \in Procs |-> {}]
  /\ o = [p \in Procs |-> Zero]
  /\ slpq = {}
  /\ mode = [p \in Procs |-> "none"]

-----------------------------------------------------------------------------
(* rw_enter(): the call, from anywhere the slow path is taken. *)
call_rw_enter(p, k, f) ==
  /\ pc' = [pc EXCEPT ![p] = "enter"]
  /\ o' = [o EXCEPT ![p] = Zero]
  /\ op' = [op EXCEPT ![p] = k]
  /\ flags' = [flags EXCEPT ![p] = f]

RwEnter(p) ==
  /\ \E k \in Ops, f \in Flags[p] :
       /\ \/ k # "RW_DOWNGRADE" /\ pc[p] = "out"
          \/ k = "RW_DOWNGRADE" /\ pc[p] = "held" /\ mode[p] = "write"
       /\ call_rw_enter(p, k, f)
  /\ UNCHANGED <<owner, slpq, mode>>

(* rw_enter_read(): read the word, then one attempt to add a reader. *)
RwEnterRead(p) ==
  /\ pc[p] = "out"
  /\ IF owner.wr # NoProc THEN call_rw_enter(p, "RW_READ", {})
                          ELSE Load(p, "enter_read")
  /\ UNCHANGED <<owner, slpq, mode>>

RwEnterReadCas(p) ==
  /\ pc[p] = "enter_read"
  /\ rw_cas(o[p], inc("RW_READ", p, o[p]),
            Goto(p, "held") /\ mode' = [mode EXCEPT ![p] = "read"],
            call_rw_enter(p, "RW_READ", {}) /\ UNCHANGED mode)
  /\ UNCHANGED slpq

(* rw_enter_write(): one attempt on the empty word. *)
RwEnterWrite(p) ==
  /\ pc[p] = "out"
  /\ rw_cas(Zero, inc("RW_WRITE", p, Zero),
            Goto(p, "held") /\ mode' = [mode EXCEPT ![p] = "write"],
            call_rw_enter(p, "RW_WRITE", {}) /\ UNCHANGED mode)
  /\ UNCHANGED slpq

(* The head of the loop: load the word and test it. *)
EnterLoad(p) ==
  /\ pc[p] = "enter"
  /\ IF ~check(op[p], owner)          THEN Load(p, "cas")
     ELSE IF "NOSLEEP" \in flags[p]   THEN Goto(p, "out")          \* EBUSY
     ELSE Load(p, "wait")
  /\ UNCHANGED <<owner, slpq, mode>>

(* The compare-and-swap that announces a waiter. *)
announce(p) == owner' = IF owner = o[p] THEN wait_set(op[p], o[p]) ELSE owner

(* Where a process goes once it has waited, or tried to, undisturbed.      *)
waited(p) == IF "SLEEPFAIL" \in flags[p] THEN "out" ELSE "enter"   \* EAGAIN

(* Fault: sleeping although the announcement failed. *)
EnterSleep_unannounced(p) ==
  /\ pc[p] = "wait"
  /\ announce(p)
  /\ slpq' = slpq \cup {p} /\ Goto(p, "sleep")
  /\ UNCHANGED mode

(* sleep_setup(), the announcement and sleep_finish(), under the scheduler *)
(* lock.  A process whose announcement fails takes itself off the queue    *)
(* and goes on without sleeping.  With RW_INTR, a signal that              *)
(* sleep_setup_signal() finds pending makes the process leave the queue    *)
(* and not sleep; the announcement is made all the same.                   *)
EnterSleep(p) ==
  /\ pc[p] = "wait"
  /\ announce(p)
  /\ \/ /\ slpq' = IF owner = o[p] THEN slpq \cup {p} ELSE slpq
        /\ Goto(p, "sleep")
     \/ "INTR" \in flags[p] /\ Goto(p, "out") /\ UNCHANGED slpq
  /\ UNCHANGED mode

(* A stop signal found by sleep_setup_signal(): the process is on the      *)
(* queue and switches away, which gives up the scheduler lock, before it   *)
(* has announced itself.                                                   *)
EnterStop(p) ==
  /\ pc[p] = "wait" /\ "INTR" \in flags[p]
  /\ slpq' = slpq \cup {p}
  /\ pc' = [pc EXCEPT ![p] = "stopped"]
  /\ UNCHANGED <<owner, op, flags, o, mode>>

(* A SIGCONT the process does not catch, while it is stopped there and on  *)
(* the queue: ptsignal() marks it SSLEEP and does not run it.  It dozes:   *)
(* asleep for the lock, and not announced.                                 *)
SigCont(p) ==
  /\ pc[p] = "stopped" /\ p \in slpq
  /\ pc' = [pc EXCEPT ![p] = "dozing"]
  /\ UNCHANGED <<owner, op, flags, o, slpq, mode>>

(* Another stop signal finds it asleep and stops it where it is.           *)
SigStop(p) ==
  /\ pc[p] = "dozing" /\ p \in slpq
  /\ pc' = [pc EXCEPT ![p] = "stopped"]
  /\ UNCHANGED <<owner, op, flags, o, slpq, mode>>

(* Any other signal takes an interruptible sleeper off the queue, with     *)
(* setrunnable() or, when it is to stay stopped, unsleep().                *)
Signal(p) ==
  /\ p \in slpq /\ "INTR" \in flags[p]
  /\ slpq' = slpq \ {p}
  /\ UNCHANGED <<owner, pc, op, flags, o, mode>>

(* The process runs again in sleep_setup_signal(), which happens only when *)
(* a wakeup or a signal has taken it off the queue.  Either cancels the    *)
(* sleep; the announcement is made all the same, with the copy of the word *)
(* from before the stop; a signal then ends the wait (EINTR, ERESTART).    *)
EnterContinue(p) ==
  /\ pc[p] \in {"stopped", "dozing"} /\ p \notin slpq
  /\ announce(p)
  /\ Goto(p, waited(p)) \/ Goto(p, "out")
  /\ UNCHANGED <<slpq, mode>>

(* Back from sleep_finish(): EINTR or ERESTART for a signal, EAGAIN for    *)
(* RW_SLEEPFAIL, or another turn of the loop.                              *)
EnterWoken(p) ==
  /\ pc[p] = "sleep" /\ p \notin slpq
  /\ \/ Goto(p, waited(p))
     \/ "INTR" \in flags[p] /\ Goto(p, "out")
  /\ UNCHANGED <<owner, slpq, mode>>

(* The compare-and-swap that takes (or downgrades) the lock; a downgrade   *)
(* of a word with waiters must wake them.                                  *)
EnterCas(p) ==
  /\ pc[p] = "cas"
  /\ rw_cas(o[p], inc(op[p], p, o[p]),
            /\ Goto(p, IF o[p].wr # NoProc /\ o[p].wait THEN "downgraded" ELSE "held")
            /\ mode' = [mode EXCEPT ![p] = held_by(op[p])],
            Goto(p, "enter") /\ UNCHANGED mode)
  /\ UNCHANGED slpq

EnterWakeup(p) ==
  /\ pc[p] = "downgraded"
  /\ slpq' = {}
  /\ Goto(p, "held")
  /\ UNCHANGED <<owner, mode>>

-----------------------------------------------------------------------------
(* rw_exit_read() and rw_exit_write(): read the word, then one attempt to  *)
(* leave a lock nobody waits for.                                          *)
RwExitRead(p) ==
  /\ pc[p] = "held" /\ mode[p] = "read"
  /\ IF owner.wait THEN Goto(p, "exit") ELSE Load(p, "exit_read")
  /\ UNCHANGED <<owner, slpq, mode>>

(* Fault: going on to rw_exit() after the fast path has let go. *)
RwExitReadCas_twice(p) ==
  /\ pc[p] = "exit_read"
  /\ rw_cas(o[p], less_reader(o[p]), UNCHANGED mode, UNCHANGED mode)
  /\ Goto(p, "exit")
  /\ UNCHANGED slpq

RwExitReadCas(p) ==
  /\ pc[p] = "exit_read"
  /\ rw_cas(o[p], less_reader(o[p]),
            Goto(p, "out") /\ mode' = [mode EXCEPT ![p] = "none"],
            Goto(p, "exit") /\ UNCHANGED mode)
  /\ UNCHANGED slpq

RwExitWrite(p) ==
  /\ pc[p] = "held" /\ mode[p] = "write"
  /\ IF owner.wait THEN Goto(p, "exit") ELSE Load(p, "exit_write")
  /\ UNCHANGED <<owner, slpq, mode>>

RwExitWriteCas(p) ==
  /\ pc[p] = "exit_write"
  /\ rw_cas(o[p], Zero,
            Goto(p, "out") /\ mode' = [mode EXCEPT ![p] = "none"],
            Goto(p, "exit") /\ UNCHANGED mode)
  /\ UNCHANGED slpq

(* rw_exit(): called by a holder, or by the two above. *)
RwExit(p) ==
  /\ pc[p] = "held"
  /\ Goto(p, "exit")
  /\ UNCHANGED <<owner, slpq, mode>>

(* The first load decides whether this is a writer's exit: op records the  *)
(* local variable wrlock.                                                  *)
ExitKind(p) ==
  /\ pc[p] = "exit"
  /\ op' = [op EXCEPT ![p] = IF owner.wr # NoProc THEN "RW_WRITE" ELSE "RW_READ"]
  /\ pc' = [pc EXCEPT ![p] = "exit_load"]
  /\ UNCHANGED <<owner, flags, o, slpq, mode>>

ExitLoad(p) ==
  /\ pc[p] = "exit_load"
  /\ Load(p, "exit_cas")
  /\ UNCHANGED <<owner, slpq, mode>>

(* Fault: a leaving reader forgets to clear the waiter bits. *)
exit_set_bits(k, w) == IF k = "RW_WRITE" THEN Zero ELSE less_reader(w)

exit_set(k, w) ==
  IF k = "RW_WRITE" THEN Zero
  ELSE [less_reader(w) EXCEPT !.wait = FALSE, !.wrwant = FALSE]

(* Fault: only a writer's exit wakes the sleepers. *)
ExitCas_quiet(p) ==
  /\ pc[p] = "exit_cas"
  /\ rw_cas(o[p], exit_set(op[p], o[p]),
            /\ Goto(p, IF o[p].wait /\ op[p] = "RW_WRITE" THEN "wakeup" ELSE "out")
            /\ mode' = [mode EXCEPT ![p] = "none"],
            Goto(p, "exit_load") /\ UNCHANGED mode)
  /\ UNCHANGED slpq

ExitCas(p) ==
  /\ pc[p] = "exit_cas"
  /\ rw_cas(o[p], exit_set(op[p], o[p]),
            /\ Goto(p, IF o[p].wait THEN "wakeup" ELSE "out")
            /\ mode' = [mode EXCEPT ![p] = "none"],
            Goto(p, "exit_load") /\ UNCHANGED mode)
  /\ UNCHANGED slpq

(* wakeup(rwl): every sleeper leaves the queue. *)
ExitWakeup(p) ==
  /\ pc[p] = "wakeup"
  /\ slpq' = {}
  /\ Goto(p, "out")
  /\ UNCHANGED <<owner, mode>>

-----------------------------------------------------------------------------
Enter(p) ==
  \/ EnterLoad(p) \/ EnterSleep(p) \/ EnterCas(p) \/ EnterWakeup(p)
  \/ RwEnterReadCas(p)

Exit(p) ==
  \/ RwExitRead(p) \/ RwExitReadCas(p) \/ RwExitWrite(p) \/ RwExitWriteCas(p)
  \/ RwExit(p) \/ ExitKind(p) \/ ExitLoad(p) \/ ExitCas(p) \/ ExitWakeup(p)

(* What signals do to a waiter, and its running again. *)
Stop(p) ==
  \/ EnterStop(p) \/ SigCont(p) \/ SigStop(p) \/ Signal(p) \/ EnterContinue(p)
  \/ EnterWoken(p)

Call(p) == RwEnter(p) \/ RwEnterRead(p) \/ RwEnterWrite(p)

Next == \E p \in Procs : Call(p) \/ Enter(p) \/ Stop(p) \/ Exit(p)

Spec == Init /\ [][Next]_vars

(* A process that runs in the lock's code goes on to its next sleep, and a *)
(* holder leaves its critical section.  Calls and signals owe nobody       *)
(* anything, and a process taken off the queue may be stopped, so nothing  *)
(* is assumed of its running again.                                        *)
FairSpec == Spec /\ \A p \in Procs : WF_vars(Enter(p)) /\ WF_vars(Exit(p))

-----------------------------------------------------------------------------
Readers == {p \in Procs : mode[p] = "read"}

(* Mutual exclusion: while a process holds the lock for writing, by the    *)
(* compare-and-swap it won in rw_enter() or rw_enter_write(), no other     *)
(* process holds it in any mode.                                           *)
Exclusion ==
  \A p, q \in Procs : mode[p] = "write" /\ p # q => mode[q] = "none"

(* Of the holders: the word's reader count is the number of processes      *)
(* that hold the lock for reading, its owner the one that holds it for     *)
(* writing, whatever mix of fast paths, slow paths and downgrades they     *)
(* came through.                                                           *)
WordMatchesHolders ==
  /\ owner.rd = Cardinality(Readers)
  /\ \A p \in Procs : owner.wr = p <=> mode[p] = "write"

(* sys/rwlock.h, on which rw_enter_write()'s compare-and-swap with 0       *)
(* relies: "it's not possible to have owner/read count unset and waiter    *)
(* bits set".                                                              *)
FreeWordIsZero == owner.wr = NoProc /\ owner.rd = 0 => owner = Zero

(* The word tells the truth about the holders, and once they are gone      *)
(* nothing is left in it that the next writer would take for one.          *)
WordTellsTruth == WordMatchesHolders /\ FreeWordIsZero

(* No wakeup is lost for a process that went to sleep by sleep_finish():   *)
(* while it is on the queue, either the word has RWLOCK_WAIT, so the next  *)
(* rw_exit() will wake it, or a process that has cleared it is about to    *)
(* call wakeup().  The processes that a signal put to sleep earlier, in    *)
(* sleep_setup_signal(), have not set RWLOCK_WAIT and are not included:    *)
(* see ReadyForSleep.                                                      *)
NoLostWakeup ==
  (\E p \in Procs : pc[p] = "sleep" /\ p \in slpq)
    => owner.wait \/ \E q \in Procs : pc[q] \in {"wakeup", "downgraded"}

(* kern_synch.c, sleep_setup_signal(): "A SIGCONT would cause us to be     *)
(* marked as SSLEEP without resuming us, thus we must be ready for sleep   *)
(* when CURSIG is called."  If rw_enter() were ready there, nobody would   *)
(* be asleep for a lock that is free, with no wakeup to come.              *)
ReadyForSleep ==
  (\E p \in Procs : pc[p] \in {"dozing", "sleep"} /\ p \in slpq)
    => owner # Zero \/ \E q \in Procs : pc[q] = "wakeup"

(* rw_assert_rdlock() and rw_assert_wrlock(), called by the exit routines, *)
(* never panic.                                                            *)
rw_assert_rdlock == owner.wr = NoProc /\ owner.rd # 0
rw_assert_wrlock(p) == owner.wr = p

AssertionsHold ==
  \A p \in Procs :
    /\ pc[p] = "exit_read" => rw_assert_rdlock
    /\ pc[p] = "exit_write" => rw_assert_wrlock(p)
    /\ pc[p] \in {"exit_load", "exit_cas"} =>
         IF op[p] = "RW_WRITE" THEN rw_assert_wrlock(p) ELSE rw_assert_rdlock

(* A process that went to sleep for the lock by sleep_finish(), having set *)
(* RWLOCK_WAIT, is woken to try again, as long as holders leave.  (It need *)
(* not get the lock: later readers may pass it.)                           *)
SleepersWoken ==
  \A p \in Procs : (pc[p] = "sleep" /\ p \in slpq) ~> (p \notin slpq)
=============================================================================
