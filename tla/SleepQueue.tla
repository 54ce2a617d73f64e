----------------------------- MODULE SleepQueue ------------------------------
(***************************************************************************)
(* tsleep(), msleep() and wakeup() of kern/kern_synch.c, with what ends or *)
(* suspends a sleep: the sleep timeout and the signals of kern/kern_sig.c. *)
(*                                                                         *)
(* The scheduler lock makes a step atomic; a process gives it up in        *)
(* mi_switch() only, asleep in sleep_finish() or stopped in issignal().    *)
(* Processes, signals and softclock also run under the kernel lock;        *)
(* wakeup() may come from an interrupt and does not wait for it.           *)
(*                                                                         *)
(* Signals are SIGINT, caught; SIGKILL; SIGSTOP; and SIGCONT, caught or    *)
(* not.  Tracing, held signals and vfork()ing parents are left out.        *)
(***************************************************************************)
EXTENDS Naturals, Sequences, FiniteSets

CONSTANTS
  Procs, NoProc,
  Idents,      \* wait channels
  NULL,
  Calls,       \* the kinds of sleep: [catch, timo, mtx : BOOLEAN]
  ContCaught   \* whether a process may, and may not, catch SIGCONT

ASSUME SleepAssumption ==
  /\ NoProc \notin Procs /\ NULL \notin Idents /\ ContCaught \subseteq BOOLEAN
  /\ Calls \subseteq [catch : BOOLEAN, timo : BOOLEAN, mtx : BOOLEAN]

VARIABLES
  proc,        \* the sleep-related fields of each struct proc and its tsleep()
  slpque,      \* the sleep queue (one hash chain, shared by all idents)
  firing       \* the process softclock calls endtsleep() for, under kernel lock

vars == <<proc, slpque, firing>>

Sigs == {"INT", "KILL", "STOP", "CONT"}

(* pc tells where the process is: running in user mode or about to sleep,  *)
(* stopped in sleep_setup_signal(), switched out in sleep_finish(), or     *)
(* stopped in sleep_finish_signal().  cause is what took it off the queue. *)
ProcType ==
  [stat : {"SONPROC", "SRUN", "SSLEEP", "SSTOP"}, wchan : Idents \cup {NULL},
   sintr : BOOLEAN, timeout : BOOLEAN, siglist : SUBSET Sigs,
   sleep_to : BOOLEAN, pc : {"user", "setup", "sleep", "finish"},
   catch : BOOLEAN, timo : BOOLEAN, mtx : BOOLEAN,
   cause : {"none", "wakeup", "timeout", "signal"},
   error : {"0", "EWOULDBLOCK", "EINTR"}, contcaught : ContCaught]

TypeOK ==
  /\ proc \in [Procs -> ProcType]
  /\ slpque \in Seq(Procs)
  /\ firing \in Procs \cup {NoProc}

(* A process as it leaves its first sleep, in fork1(). *)
Newborn(c) ==
  [stat |-> "SONPROC", wchan |-> NULL, sintr |-> FALSE, timeout |-> FALSE,
   siglist |-> {}, sleep_to |-> FALSE, pc |-> "user", catch |-> FALSE,
   timo |-> FALSE, mtx |-> FALSE, cause |-> "wakeup", error |-> "0",
   contcaught |-> c]

(* sleep_queue_init() *)
Init ==
  /\ proc \in [Procs -> {Newborn(c) : c \in ContCaught}]
  /\ slpque = <<>>
  /\ firing = NoProc

(* Fault: processes run beside softclock. *)
kernel_lock_none == TRUE

kernel_lock == firing = NoProc

-----------------------------------------------------------------------------
(* unsleep(): off the queue, if on it. *)
unslept(r, why) == IF r.wchan # NULL THEN [r EXCEPT !.wchan = NULL, !.cause = why] ELSE r

setrunnable(r, why) == [unslept(r, why) EXCEPT !.stat = "SRUN"]

(* TAILQ_REMOVE() of the processes in S: the k-th of the others is the one *)
(* that has k of them up to its place.                                     *)
without(queue, S) ==
  LET others == {i \in DOMAIN queue : queue[i] \notin S}
      rank == [i \in others |-> Cardinality({j \in others : j <= i})]
  IN  [k \in 1 .. Cardinality(others) |-> queue[CHOOSE i \in others : rank[i] = k]]

(* The queue holds the processes with a wait channel; p may join or leave. *)
Update(p, r) ==
  /\ proc' = [proc EXCEPT ![p] = r]
  /\ slpque' = IF r.wchan = NULL THEN without(slpque, {p})
               ELSE IF proc[p].wchan = NULL THEN Append(slpque, p) ELSE slpque

(* issignal(): the lowest-numbered pending signal is returned and kept,    *)
(* stops the process, or is dropped and leaves none.                       *)
issignal(r) ==
  LET list == r.siglist IN
  CASE list \cap {"INT", "KILL"} # {}                  -> "keep"
    [] list \cap {"INT", "KILL", "STOP"} = {"STOP"}    -> "stop"
    [] list = {"CONT"} /\ r.contcaught                   -> "keep"
    [] list = {} \/ (list = {"CONT"} /\ ~r.contcaught)   -> "none"

(* Fault: the flag is stored in p_stat. *)
stopped_flag(r, where) ==
  [r EXCEPT !.stat = "P_STOPPED", !.pc = where, !.siglist = @ \ {"STOP"}]

(* proc_stop(p, 1) in issignal(): the stop signal has been taken. *)
stopped(r, where) ==
  [r EXCEPT !.stat = "SSTOP", !.pc = where, !.siglist = @ \ {"STOP"}]

returned(r, err) ==
  [r EXCEPT !.stat = "SONPROC", !.pc = "user", !.mtx = FALSE, !.error = err]

(* sleep_finish_signal() *)
finish_signal(r, sig) ==
  IF ~r.catch THEN returned(r, r.error)
  ELSE IF sig \/ issignal(r) = "keep" THEN returned(r, "EINTR")
  ELSE IF issignal(r) = "stop" THEN stopped(r, "finish")
  ELSE returned([r EXCEPT !.siglist = {}], r.error)

(* The rest of tsleep() from the end of sleep_finish() on: P_SINTR is      *)
(* cleared, then sleep_finish_timeout(), then sleep_finish_signal().       *)
finish(r, sig) ==
  LET err == IF r.timeout THEN "EWOULDBLOCK" ELSE "0"
  IN  finish_signal([r EXCEPT !.sintr = FALSE, !.timeout = FALSE,
                              !.sleep_to = FALSE, !.error = err], sig)

(* sleep_finish(): msleep() has dropped the mutex by now. *)
asleep(r) == [r EXCEPT !.stat = "SSLEEP", !.pc = "sleep", !.mtx = FALSE]

(* Fault: a wakeup during a stop is not noticed. *)
setup_signal_blind(r) ==
  CASE ~r.catch                       -> asleep(r)
    [] issignal(r) = "keep"   -> finish(unslept(r, "signal"), TRUE)
    [] issignal(r) = "stop"   -> stopped(r, "setup")
    [] issignal(r) = "none"   -> asleep([r EXCEPT !.siglist = {}])

(* sleep_setup_signal() and what follows, for a process on the queue (or   *)
(* one that was taken off it while stopped).                               *)
setup_signal(r) ==
  LET s == issignal(r) IN
  IF ~r.catch THEN asleep(r)
  ELSE CASE s = "keep" -> finish(unslept(r, "signal"), TRUE)
         [] s = "stop" -> stopped(r, "setup")
         [] s = "none" -> IF r.wchan = NULL
                            THEN finish([r EXCEPT !.siglist = {}, !.catch = FALSE], FALSE)
                            ELSE asleep([r EXCEPT !.siglist = {}])

-----------------------------------------------------------------------------
(* tsleep() and msleep() *)
tsleep(p, ident, k) ==
  /\ kernel_lock
  /\ proc[p].pc = "user" /\ proc[p].stat = "SONPROC"
  /\ Update(p, setup_signal([proc[p] EXCEPT !.wchan = ident, !.sintr = k.catch,
                                            !.sleep_to = k.timo, !.catch = k.catch,
                                            !.timo = k.timo, !.mtx = k.mtx,
                                            !.cause = "none", !.error = "0"]))
  /\ UNCHANGED firing

(* mi_switch() returns: the process was on the run queue. *)
resumed(r) ==
  CASE r.pc = "setup"  -> setup_signal(r)
    [] r.pc = "sleep"  -> finish(r, FALSE)
    [] r.pc = "finish" -> finish_signal(r, FALSE)
    [] r.pc = "user"   -> [r EXCEPT !.stat = "SONPROC"]

Resume(p) ==
  /\ kernel_lock /\ proc[p].stat = "SRUN"
  /\ Update(p, resumed(proc[p]))
  /\ UNCHANGED firing

(* Return to user mode: signals are delivered, stop the process, or end    *)
(* it, in which case another takes its place.                              *)
Userret(p) ==
  LET r == proc[p] IN
  /\ kernel_lock /\ r.pc = "user" /\ r.stat = "SONPROC" /\ r.siglist # {}
  /\ Update(p, CASE issignal(r) = "stop" -> stopped(r, "user")
                 [] issignal(r) = "keep" /\ "KILL" \in r.siglist -> Newborn(r.contcaught)
                 [] OTHER -> [r EXCEPT !.siglist = @ \cap {"STOP"}])
  /\ UNCHANGED firing

-----------------------------------------------------------------------------
(* ptsignal(): what it makes of the pending signals, and of the process.   *)
posted(r, s) ==
  LET list == (r.siglist \cup {s}) \ (CASE s = "CONT" -> {"STOP"}
                                       [] s = "STOP" -> {"CONT"} [] OTHER -> {})
  IN  [r EXCEPT !.siglist = list]

taken(r, s) == [posted(r, s) EXCEPT !.siglist = @ \ {s}]

ptsignal_asleep(r, s) ==
  CASE ~r.sintr                    -> posted(r, s)
    [] r.sintr /\ s = "STOP"       -> [taken(r, s) EXCEPT !.stat = "SSTOP"]
    [] r.sintr /\ s = "CONT" /\ ~r.contcaught -> taken(r, s)
    [] OTHER                       -> setrunnable(posted(r, s), "signal")

(* Fault: SIGCONT puts a stopped process back to sleep in any case. *)
ptsignal_stopped_sleeps(r, s) ==
  CASE s = "KILL" -> setrunnable(posted(r, s), "signal")
    [] s = "CONT" /\ r.contcaught -> setrunnable(posted(r, s), "signal")
    [] s = "CONT" /\ ~r.contcaught -> [taken(r, s) EXCEPT !.stat = "SSLEEP"]
    [] s = "STOP" -> taken(r, s)
    [] s = "INT"  -> IF r.sintr THEN unslept(posted(r, s), "signal") ELSE posted(r, s)

ptsignal_stopped(r, s) ==
  CASE s = "KILL" -> setrunnable(posted(r, s), "signal")
    [] s = "CONT" /\ r.contcaught -> setrunnable(posted(r, s), "signal")
    [] s = "CONT" /\ ~r.contcaught ->
         IF r.wchan = NULL THEN setrunnable(taken(r, s), "signal")
                           ELSE [taken(r, s) EXCEPT !.stat = "SSLEEP"]
    [] s = "STOP" -> taken(r, s)
    [] s = "INT"  -> IF r.sintr THEN unslept(posted(r, s), "signal") ELSE posted(r, s)

ptsignal(p, s) ==
  /\ kernel_lock
  /\ Update(p, CASE proc[p].stat = "SSLEEP" -> ptsignal_asleep(proc[p], s)
                 [] proc[p].stat = "SSTOP"  -> ptsignal_stopped(proc[p], s)
                 [] OTHER                   -> posted(proc[p], s))
  /\ UNCHANGED firing

(* wakeup_n(): the first n processes asleep or stopped on the channel. *)
wakeup_n(ident, n) ==
  LET waiting == {i \in DOMAIN slpque : proc[slpque[i]].wchan = ident}
      first == {i \in waiting : Cardinality({j \in waiting : j <= i}) <= n}
      woken == {slpque[i] : i \in first}
  IN  /\ woken # {}
      /\ proc' = [p \in Procs |->
                    IF p \notin woken THEN proc[p]
                    ELSE [proc[p] EXCEPT !.wchan = NULL, !.cause = "wakeup",
                                         !.stat = IF @ = "SSLEEP" THEN "SRUN" ELSE @]]
      /\ slpque' = without(slpque, woken)
      /\ UNCHANGED firing

wakeup_one(ident) == wakeup_n(ident, 1)
wakeup(ident) == wakeup_n(ident, Len(slpque))

(* softclock runs the timeout of a sleep: the call, and then endtsleep()   *)
(* once it has the scheduler lock.                                         *)
Softclock(p) ==
  /\ kernel_lock /\ proc[p].sleep_to
  /\ firing' = p
  /\ proc' = [proc EXCEPT ![p].sleep_to = FALSE]
  /\ UNCHANGED slpque

(* Fault: the timeout of a stopped process is lost. *)
endtsleep_asleep(p) ==
  /\ firing = p /\ firing' = NoProc
  /\ LET r == proc[p] IN
     Update(p, IF r.wchan = NULL \/ r.stat # "SSLEEP" THEN r
               ELSE [setrunnable(r, "timeout") EXCEPT !.timeout = TRUE])

endtsleep(p) ==
  /\ firing = p /\ firing' = NoProc
  /\ LET r == proc[p] IN
     Update(p, IF r.wchan = NULL THEN r
               ELSE [unslept(r, "timeout") EXCEPT
                       !.timeout = TRUE, !.stat = IF @ = "SSLEEP" THEN "SRUN" ELSE @])

Next ==
  \/ \E p \in Procs :
       \/ \E ident \in Idents, k \in Calls : tsleep(p, ident, k)
       \/ \E s \in Sigs : ptsignal(p, s)
       \/ Resume(p) \/ Userret(p) \/ Softclock(p) \/ endtsleep(p)
  \/ \E ident \in Idents : wakeup_one(ident) \/ wakeup(ident)

Spec == Init /\ [][Next]_vars

(* Runnable processes run; the clock and softclock run.  Nothing is        *)
(* assumed of wakeups or of signals.                                       *)
FairSpec ==
  Spec /\ \A p \in Procs : SF_vars(Resume(p)) /\ SF_vars(Softclock(p)) /\ WF_vars(endtsleep(p))

-----------------------------------------------------------------------------
(* A process is on the sleep queue, once, exactly while it has a wait      *)
(* channel, and then it is asleep or stopped (wakeup_n() panics            *)
(* otherwise); and nobody sleeps who is not on the queue, where no wakeup  *)
(* would find them.                                                        *)
AsleepIffQueued ==
  /\ \A i, j \in DOMAIN slpque : slpque[i] = slpque[j] => i = j
  /\ \A p \in Procs :
       /\ proc[p].wchan # NULL <=> \E i \in DOMAIN slpque : slpque[i] = p
       /\ proc[p].wchan # NULL => proc[p].stat \in {"SSLEEP", "SSTOP"}
       /\ proc[p].stat = "SSLEEP" => proc[p].wchan # NULL

(* tsleep() "returns 0 if awakened, EWOULDBLOCK if the timeout expires",   *)
(* through any stops and continuations: 0 only after a wakeup, EWOULDBLOCK *)
(* only when this sleep's timeout ended it, and an uncaught sleep has no   *)
(* other end.  Whatever ended it, the sleep leaves no timeout armed and    *)
(* neither P_SINTR nor P_TIMEOUT to end or to mislead the next one.        *)
ReturnTellsCause ==
  \A p \in Procs :
    LET r == proc[p] IN
    r.pc = "user" =>
      /\ r.error = "0" => r.cause = "wakeup"
      /\ r.error = "EWOULDBLOCK" => r.cause = "timeout" /\ r.timo
      /\ r.error = "EINTR" => r.catch
      /\ ~r.sleep_to /\ ~r.timeout /\ ~r.sintr

(* msleep(): "once we've entered the sleep queue we drop the mutex" - a    *)
(* process that is switched out does not hold it.                          *)
MutexDropped == \A p \in Procs : proc[p].mtx => proc[p].stat = "SONPROC"

(* A process whose sleep has ended returns from tsleep(), unless a signal  *)
(* stops it.                                                               *)
WokenReturns ==
  \A p \in Procs :
    proc[p].cause # "none" ~> proc[p].pc = "user" \/ proc[p].stat = "SSTOP"

(* A sleep with a timeout ends, even if nobody ever calls wakeup(). *)
TimedSleepEnds ==
  \A p \in Procs :
    proc[p].pc = "sleep" /\ proc[p].timo ~> proc[p].pc = "user" \/ proc[p].stat = "SSTOP"
=============================================================================
