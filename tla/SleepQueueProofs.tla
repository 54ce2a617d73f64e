-------------------------- MODULE SleepQueueProofs ---------------------------
(***************************************************************************)
(* What tsleep() returns tells what ended the sleep, for any processes,    *)
(* channels and kinds of sleep.                                            *)
(*                                                                         *)
(* The steps of a process, of its signals and of its timeout all rewrite   *)
(* the one record of that process, so the invariant is a condition on      *)
(* records (Good), with one lemma for each function that rewrites them.    *)
(* The queue holds exactly the processes with a wait channel: for that the *)
(* invariant is of its own (QueueInv), from what removing elements does to *)
(* a sequence.                                                             *)
(***************************************************************************)
EXTENDS SleepQueue, FiniteSetTheorems, TLAPS

(* A signal that is pending, or stopped the process after one was, makes   *)
(* sleep_finish_signal() return EINTR.                                     *)
Interrupting(r) ==
  /\ r.catch
  /\ \/ r.siglist \cap {"INT", "KILL"} # {}
     \/ r.contcaught /\ ("CONT" \in r.siglist \/ "STOP" \in r.siglist \/ r.stat = "SSTOP")

(* Back from tsleep(). *)
Returned(r) ==
  /\ r.wchan = NULL /\ r.stat # "SSLEEP"
  /\ r.error = "0" => r.cause = "wakeup"
  /\ r.error = "EWOULDBLOCK" => r.cause = "timeout" /\ r.timo
  /\ r.error = "EINTR" => r.catch
  /\ ~r.sleep_to /\ ~r.timeout /\ ~r.sintr

(* On the queue, or taken off it and not yet running. *)
Sleeping(r) ==
  /\ r.wchan # NULL <=> r.cause = "none"
  /\ r.stat \in (IF r.wchan = NULL THEN {"SRUN", "SSTOP"} ELSE {"SSLEEP", "SSTOP"})
  /\ r.timeout <=> r.cause = "timeout"
  /\ r.sleep_to \/ r.timeout => r.timo
  /\ r.sintr \/ r.stat = "SSTOP" \/ r.pc = "setup" => r.catch
  /\ r.cause = "signal" => Interrupting(r)

(* Stopped in sleep_finish_signal(). *)
Finishing(r) ==
  /\ r.wchan = NULL /\ r.stat \in {"SRUN", "SSTOP"} /\ r.catch
  /\ r.error = "0" => r.cause = "wakeup" \/ Interrupting(r)
  /\ r.error = "EWOULDBLOCK" => r.cause = "timeout" /\ r.timo
  /\ r.error # "EINTR" /\ ~r.sleep_to /\ ~r.timeout /\ ~r.sintr

Good(r) ==
  /\ r \in ProcType
  /\ r.pc = "user" => Returned(r)
  /\ r.pc \in {"setup", "sleep"} => Sleeping(r)
  /\ r.pc = "finish" => Finishing(r)

(* softclock calls endtsleep() for a process in a sleep with a timeout. *)
Firing == \A p \in Procs : firing = p => proc[p].timo /\ proc[p].pc \in {"setup", "sleep"}

IInv ==
  /\ proc \in [Procs -> ProcType]
  /\ \A p \in Procs : Good(proc[p])
  /\ Firing

-----------------------------------------------------------------------------
LEMMA IssignalFacts ==
  ASSUME NEW r \in ProcType
  PROVE  /\ issignal(r) \in {"keep", "stop", "none"}
         /\ issignal(r) = "keep" <=> \/ r.siglist \cap {"INT", "KILL"} # {}
                                     \/ r.siglist = {"CONT"} /\ r.contcaught
         /\ issignal(r) = "stop" => /\ r.siglist \cap {"INT", "KILL"} = {}
                                    /\ "STOP" \in r.siglist
         /\ issignal(r) = "none" /\ r.stat # "SSTOP" => ~Interrupting(r)
<1>1. r.siglist \subseteq {"INT", "KILL", "STOP", "CONT"} /\ r.contcaught \in BOOLEAN
  BY SleepAssumption, Zenon DEF ProcType, Sigs
<1>2. \/ r.siglist \cap {"INT", "KILL"} # {}
      \/ r.siglist \cap {"INT", "KILL", "STOP"} = {"STOP"}
      \/ r.siglist = {} \/ r.siglist = {"CONT"}
  BY <1>1, Zenon
<1>3. CASE r.siglist \cap {"INT", "KILL"} # {}
  BY <1>1, <1>3, Zenon DEF issignal
<1>4. CASE r.siglist \cap {"INT", "KILL", "STOP"} = {"STOP"}
  BY <1>1, <1>4, Zenon DEF issignal
<1>5. CASE r.siglist = {}
  BY <1>1, <1>5, Zenon DEF issignal, Interrupting
<1>6. CASE r.siglist = {"CONT"}
  BY <1>1, <1>6, Zenon DEF issignal, Interrupting
<1> QED BY <1>2, <1>3, <1>4, <1>5, <1>6, Zenon

(* unsleep() changes the wait channel, and notes the cause, only. *)
LEMMA UnsleptFacts ==
  ASSUME NEW r \in ProcType, NEW why \in {"signal", "timeout"}
  PROVE  LET s == unslept(r, why) IN
         /\ s \in ProcType /\ s.wchan = NULL
         /\ s.cause = IF r.wchan = NULL THEN r.cause ELSE why
         /\ s.stat = r.stat /\ s.sintr = r.sintr /\ s.timeout = r.timeout
         /\ s.siglist = r.siglist /\ s.sleep_to = r.sleep_to /\ s.pc = r.pc
         /\ s.catch = r.catch /\ s.timo = r.timo /\ s.error = r.error
         /\ s.contcaught = r.contcaught
<1>1. CASE r.wchan = NULL
  BY <1>1, Zenon DEF unslept
<1>2. CASE r.wchan # NULL
  BY <1>2, Zenon DEF unslept, ProcType
<1> QED BY <1>1, <1>2, Zenon

LEMMA ReturnedGood ==
  ASSUME NEW r \in ProcType, NEW err \in {"0", "EWOULDBLOCK", "EINTR"},
         r.wchan = NULL, ~r.sleep_to, ~r.timeout, ~r.sintr,
         err = "0" => r.cause = "wakeup",
         err = "EWOULDBLOCK" => r.cause = "timeout" /\ r.timo,
         err = "EINTR" => r.catch
  PROVE  Good(returned(r, err))
BY DEF returned, Good, Returned, ProcType

(* sleep_finish_signal(), for a process whose sleep has ended. *)
LEMMA FinishSignalGood ==
  ASSUME NEW r \in ProcType, NEW sig \in BOOLEAN, sig => r.catch,
         r.wchan = NULL, r.stat # "SSTOP", ~r.sleep_to, ~r.timeout, ~r.sintr,
         r.error = "0" => sig \/ r.cause = "wakeup" \/ Interrupting(r),
         r.error = "EWOULDBLOCK" => r.cause = "timeout" /\ r.timo,
         r.error # "EINTR"
  PROVE  Good(finish_signal(r, sig))
<1>1. CASE ~r.catch
  <2>1. r.error = "0" => r.cause = "wakeup"
    BY <1>1, Zenon DEF Interrupting
  <2>2. r.error \in {"0", "EWOULDBLOCK", "EINTR"}
    BY Zenon DEF ProcType
  <2> QED BY <1>1, <2>1, <2>2, ReturnedGood, Zenon DEF finish_signal
<1>2. CASE r.catch /\ (sig \/ issignal(r) = "keep")
  BY <1>2, ReturnedGood, Zenon DEF finish_signal
<1>3. CASE r.catch /\ ~sig /\ issignal(r) = "stop"
  <2>1. r.error = "0" => r.cause = "wakeup" \/ r.contcaught
    BY <1>3, IssignalFacts, Zenon DEF Interrupting
  <2>2. Good(stopped(r, "finish"))
    BY <1>3, <2>1 DEF stopped, Good, Finishing, Interrupting, ProcType
  <2> QED BY <1>3, <2>2, Zenon DEF finish_signal
<1>4. CASE r.catch /\ ~sig /\ issignal(r) = "none"
  <2>1. ~Interrupting(r)
    BY <1>4, IssignalFacts, Zenon
  <2> DEFINE s == [r EXCEPT !.siglist = {}]
  <2>2. /\ s \in ProcType /\ s.wchan = NULL /\ ~s.sleep_to /\ ~s.timeout /\ ~s.sintr
        /\ s.cause = r.cause /\ s.timo = r.timo /\ s.catch = r.catch
        /\ r.error \in {"0", "EWOULDBLOCK"}
    BY Zenon DEF ProcType
  <2>3. finish_signal(r, sig) = returned(s, r.error)
    BY <1>4, Zenon DEF finish_signal
  <2> HIDE DEF s
  <2> QED BY <1>4, <2>1, <2>2, <2>3, ReturnedGood, Zenon
<1> QED BY <1>1, <1>2, <1>3, <1>4, IssignalFacts, Zenon

(* sleep_finish_timeout() and sleep_finish_signal(). *)
LEMMA FinishGood ==
  ASSUME NEW r \in ProcType, NEW sig \in BOOLEAN, sig => r.catch,
         r.wchan = NULL, r.stat # "SSTOP", r.cause # "none",
         r.timeout <=> r.cause = "timeout", r.timeout => r.timo,
         r.cause = "signal" => sig \/ Interrupting(r)
  PROVE  Good(finish(r, sig))
<1> DEFINE err == IF r.timeout THEN "EWOULDBLOCK" ELSE "0"
           s == [r EXCEPT !.sintr = FALSE, !.timeout = FALSE, !.sleep_to = FALSE, !.error = err]
<1>1. err \in {"0", "EWOULDBLOCK"}
  OBVIOUS
<1>2. /\ s \in ProcType /\ s.wchan = NULL /\ s.stat = r.stat /\ ~s.sleep_to /\ ~s.timeout
      /\ ~s.sintr /\ s.cause = r.cause /\ s.timo = r.timo /\ s.catch = r.catch
      /\ s.siglist = r.siglist /\ s.contcaught = r.contcaught /\ s.error = err
  BY DEF ProcType
<1>3. r.cause \in {"none", "wakeup", "timeout", "signal"} /\ r.timeout \in BOOLEAN
  BY Zenon DEF ProcType
<1>4. Interrupting(r) <=> Interrupting(s)
  BY <1>2, Zenon DEF Interrupting
<1>5. finish(r, sig) = finish_signal(s, sig)
  BY Zenon DEF finish
<1> HIDE DEF s
<1>6. s.error = "0" => sig \/ s.cause = "wakeup" \/ Interrupting(s)
  BY <1>2, <1>3, <1>4, Zenon
<1>7. s.error = "EWOULDBLOCK" => s.cause = "timeout" /\ s.timo
  BY <1>2, <1>3, Zenon
<1> QED BY <1>2, <1>5, <1>6, <1>7, FinishSignalGood, Zenon

(* sleep_setup_signal() and the sleep, or the end of the call: for a       *)
(* process on the queue, or one taken off it while it was stopped.         *)
LEMMA SetupGood ==
  ASSUME NEW r \in ProcType, r.stat # "SSTOP",
         r.wchan # NULL <=> r.cause = "none", r.timeout <=> r.cause = "timeout",
         r.sleep_to \/ r.timeout => r.timo, r.sintr => r.catch,
         r.catch \/ r.wchan # NULL, r.cause = "signal" => Interrupting(r)
  PROVE  Good(setup_signal(r))
<1>1. ASSUME r.wchan # NULL PROVE Good(asleep(r))
  BY <1>1 DEF asleep, Good, Sleeping, ProcType
<1>2. CASE ~r.catch
  BY <1>1, <1>2, Zenon DEF setup_signal
<1>3. CASE r.catch /\ issignal(r) = "keep"
  <2> DEFINE s == unslept(r, "signal")
  <2>1. /\ s \in ProcType /\ s.wchan = NULL /\ s.stat = r.stat /\ s.timeout = r.timeout
        /\ s.timo = r.timo /\ s.catch = r.catch
        /\ s.cause = IF r.wchan = NULL THEN r.cause ELSE "signal"
    BY UnsleptFacts, Zenon
  <2>2. setup_signal(r) = finish(s, TRUE)
    BY <1>3, Zenon DEF setup_signal
  <2> HIDE DEF s
  <2>3. s.cause # "none" /\ (s.timeout <=> s.cause = "timeout")
    BY <2>1, Zenon
  <2> QED BY <1>3, <2>1, <2>2, <2>3, FinishGood, Zenon
<1>4. CASE r.catch /\ issignal(r) = "stop"
  <2>1. r.cause = "signal" => r.contcaught
    BY <1>4, IssignalFacts, Zenon DEF Interrupting
  <2>2. Good(stopped(r, "setup"))
    BY <1>4, <2>1, ZenonT(60) DEF stopped, Good, Sleeping, Interrupting, ProcType
  <2> QED BY <1>4, <2>2, Zenon DEF setup_signal
<1>5. CASE r.catch /\ issignal(r) = "none"
  <2>1. ~Interrupting(r)
    BY <1>5, IssignalFacts, Zenon
  <2>2. CASE r.wchan = NULL
    <3> DEFINE s == [r EXCEPT !.siglist = {}, !.catch = FALSE]
    <3>1. /\ s \in ProcType /\ s.wchan = NULL /\ s.stat = r.stat /\ s.cause = r.cause
          /\ s.timeout = r.timeout /\ s.timo = r.timo
      BY <2>2 DEF ProcType
    <3>2. setup_signal(r) = finish(s, FALSE)
      BY <1>5, <2>2, Zenon DEF setup_signal
    <3> HIDE DEF s
    <3> QED BY <2>1, <2>2, <3>1, <3>2, FinishGood, Zenon
  <2>3. CASE r.wchan # NULL
    <3>1. Good(asleep([r EXCEPT !.siglist = {}]))
      BY <2>1, <2>3 DEF asleep, Good, Sleeping, ProcType
    <3> QED BY <1>5, <2>3, <3>1, Zenon DEF setup_signal
  <2> QED BY <2>2, <2>3, Zenon
<1> QED BY <1>2, <1>3, <1>4, <1>5, IssignalFacts, Zenon

-----------------------------------------------------------------------------
(* Update() rewrites the record of one process. *)
LEMMA UpdateKeeps ==
  ASSUME IInv, NEW p \in Procs, NEW r, Update(p, r), Good(r),
         firing' = firing \/ firing' = NoProc,
         firing' = p => r.timo /\ r.pc \in {"setup", "sleep"}
  PROVE  IInv'
<1>1. proc' = [proc EXCEPT ![p] = r] /\ r \in ProcType
  BY Zenon DEF Update, Good
<1>2. proc' \in [Procs -> ProcType] /\ \A q \in Procs : proc'[q] = IF q = p THEN r ELSE proc[q]
  BY <1>1, Zenon DEF IInv
<1>3. \A q \in Procs : Good(proc[q])'
  <2> SUFFICES ASSUME NEW q \in Procs PROVE Good(proc'[q])
    BY Zenon DEF Good, Returned, Sleeping, Finishing, Interrupting, ProcType
  <2> QED BY <1>2, Zenon DEF IInv
<1>4. Firing'
  BY <1>2, SleepAssumption, Zenon DEF IInv, Firing
<1> QED BY <1>2, <1>3, <1>4, Zenon DEF IInv

LEMMA TsleepKeeps ==
  ASSUME IInv, NEW p \in Procs, NEW ident \in Idents, NEW k \in Calls, tsleep(p, ident, k)
  PROVE  IInv'
<1> DEFINE r == [proc[p] EXCEPT !.wchan = ident, !.sintr = k.catch, !.sleep_to = k.timo,
                                !.catch = k.catch, !.timo = k.timo, !.mtx = k.mtx,
                                !.cause = "none", !.error = "0"]
<1>1. proc[p] \in ProcType /\ proc[p].pc = "user" /\ proc[p].stat = "SONPROC" /\ ~proc[p].timeout
  BY Zenon DEF IInv, tsleep, Good, Returned
<1>2. k.catch \in BOOLEAN /\ k.timo \in BOOLEAN /\ k.mtx \in BOOLEAN /\ ident # NULL
  BY SleepAssumption, Zenon
<1>3. /\ r \in ProcType /\ r.error = "0" /\ r.stat = "SONPROC" /\ r.wchan = ident
      /\ r.cause = "none" /\ ~r.timeout /\ r.sleep_to = r.timo /\ r.sintr = r.catch
  BY <1>1, <1>2, Zenon DEF ProcType
<1>4. Update(p, setup_signal(r)) /\ firing' = firing /\ firing = NoProc
  BY Zenon DEF tsleep, kernel_lock
<1> HIDE DEF r
<1>5. Good(setup_signal(r))
  BY <1>2, <1>3, SetupGood, Zenon
<1> QED BY <1>4, <1>5, UpdateKeeps, SleepAssumption, Zenon

LEMMA ResumeKeeps ==
  ASSUME IInv, NEW p \in Procs, Resume(p)
  PROVE  IInv'
<1> DEFINE r == proc[p]
<1>1. Good(r) /\ r \in ProcType /\ r.stat = "SRUN"
  BY Zenon DEF IInv, Resume
<1>2. Update(p, resumed(r)) /\ firing' = firing /\ firing = NoProc
  BY Zenon DEF Resume, kernel_lock
<1> HIDE DEF r
<1>3. r.pc \in {"user", "setup", "sleep", "finish"}
  BY <1>1, Zenon DEF ProcType
<1>4. CASE r.pc = "setup"
  <2>1. Good(setup_signal(r))
    BY <1>1, <1>4, SetupGood, Zenon DEF Good, Sleeping
  <2> QED BY <1>2, <1>4, <2>1, UpdateKeeps, SleepAssumption, Zenon DEF resumed
<1>5. CASE r.pc = "sleep"
  <2>1. Good(finish(r, FALSE))
    BY <1>1, <1>5, FinishGood, Zenon DEF Good, Sleeping
  <2> QED BY <1>2, <1>5, <2>1, UpdateKeeps, SleepAssumption, Zenon DEF resumed
<1>6. CASE r.pc = "finish"
  <2>1. Good(finish_signal(r, FALSE))
    BY <1>1, <1>6, FinishSignalGood, Zenon DEF Good, Finishing
  <2> QED BY <1>2, <1>6, <2>1, UpdateKeeps, SleepAssumption, Zenon DEF resumed
<1>7. CASE r.pc = "user"
  <2>1. Good([r EXCEPT !.stat = "SONPROC"])
    BY <1>1, <1>7, Zenon DEF Good, Returned, ProcType
  <2> QED BY <1>2, <1>7, <2>1, UpdateKeeps, SleepAssumption, Zenon DEF resumed
<1> QED BY <1>3, <1>4, <1>5, <1>6, <1>7, Zenon

LEMMA NewbornGood ==
  ASSUME NEW c \in ContCaught
  PROVE  Good(Newborn(c))
BY Zenon DEF Newborn, Good, Returned, ProcType

LEMMA UserretKeeps ==
  ASSUME IInv, NEW p \in Procs, Userret(p)
  PROVE  IInv'
<1> DEFINE r == proc[p]
           s == CASE issignal(r) = "stop" -> stopped(r, "user")
                  [] issignal(r) = "keep" /\ "KILL" \in r.siglist -> Newborn(r.contcaught)
                  [] OTHER -> [r EXCEPT !.siglist = @ \cap {"STOP"}]
<1>1. Good(r) /\ r \in ProcType /\ r.pc = "user" /\ r.stat = "SONPROC"
  BY Zenon DEF IInv, Userret
<1>2. Update(p, s) /\ firing' = firing /\ firing = NoProc
  BY Zenon DEF Userret, kernel_lock
<1> HIDE DEF r
<1>3. Good(stopped(r, "user"))
  BY <1>1, Zenon DEF stopped, Good, Returned, ProcType
<1>4. Good(Newborn(r.contcaught))
  BY <1>1, NewbornGood, Zenon DEF ProcType
<1>5. Good([r EXCEPT !.siglist = @ \cap {"STOP"}])
  BY <1>1, Zenon DEF Good, Returned, ProcType
<1>6. s \in {stopped(r, "user"), Newborn(r.contcaught), [r EXCEPT !.siglist = @ \cap {"STOP"}]}
  OBVIOUS
<1> HIDE DEF s
<1> QED BY <1>2, <1>3, <1>4, <1>5, <1>6, UpdateKeeps, SleepAssumption, Zenon

(* What posting a signal does to the pending signals, and what taking it   *)
(* at once does; the rest of the record stays.                             *)
LEMMA PostedFacts ==
  ASSUME NEW r \in ProcType, NEW sig \in Sigs
  PROVE  /\ posted(r, sig) = [r EXCEPT !.siglist = posted(r, sig).siglist]
         /\ taken(r, sig) = [r EXCEPT !.siglist = taken(r, sig).siglist]
         /\ posted(r, sig).siglist = (r.siglist \cup {sig}) \
              (CASE sig = "CONT" -> {"STOP"} [] sig = "STOP" -> {"CONT"} [] OTHER -> {})
         /\ taken(r, sig).siglist = posted(r, sig).siglist \ {sig}
<1>1. posted(r, sig).siglist = (r.siglist \cup {sig}) \
        (CASE sig = "CONT" -> {"STOP"} [] sig = "STOP" -> {"CONT"} [] OTHER -> {})
  BY Zenon DEF posted, ProcType
<1>2. posted(r, sig) = [r EXCEPT !.siglist = posted(r, sig).siglist]
  BY <1>1, Zenon DEF posted
<1>3. taken(r, sig).siglist = posted(r, sig).siglist \ {sig}
  BY <1>2, Zenon DEF taken, ProcType
<1>4. taken(r, sig) = [r EXCEPT !.siglist = taken(r, sig).siglist]
  BY <1>2, <1>3, Zenon DEF taken, ProcType
<1> QED BY <1>1, <1>2, <1>3, <1>4, Zenon

(* A record whose pending signals change stays good, if what interrupts    *)
(* still does.                                                             *)
LEMMA SiglistGood ==
  ASSUME NEW r, Good(r), NEW L \in SUBSET Sigs,
         r.cause = "signal" /\ Interrupting(r) => Interrupting([r EXCEPT !.siglist = L]),
         r.pc = "finish" /\ Interrupting(r) => Interrupting([r EXCEPT !.siglist = L])
  PROVE  Good([r EXCEPT !.siglist = L])
BY DEF Good, Returned, Sleeping, Finishing, ProcType

LEMMA PostedGood ==
  ASSUME NEW r, Good(r), NEW sig \in Sigs
  PROVE  /\ Good(posted(r, sig))
         /\ sig \in {"INT", "KILL"} => posted(r, sig).siglist \cap {"INT", "KILL"} # {}
         /\ sig = "CONT" => "CONT" \in posted(r, sig).siglist
<1> DEFINE L == posted(r, sig).siglist
<1>1. r \in ProcType
  BY Zenon DEF Good
<1>2. /\ posted(r, sig) = [r EXCEPT !.siglist = L]
      /\ L = (r.siglist \cup {sig}) \
              (CASE sig = "CONT" -> {"STOP"} [] sig = "STOP" -> {"CONT"} [] OTHER -> {})
  BY <1>1, PostedFacts, Zenon
<1> HIDE DEF L
<1>3. sig \in {"INT", "KILL", "STOP", "CONT"} /\ r.siglist \subseteq Sigs
  BY <1>1, Zenon DEF Sigs, ProcType
<1>4. L \in SUBSET Sigs
  BY <1>2, <1>3, Zenon
<1>5. Interrupting(r) => Interrupting([r EXCEPT !.siglist = L])
  BY <1>1, <1>2, <1>3 DEF Interrupting, ProcType
<1>6. Good([r EXCEPT !.siglist = L])
  BY <1>4, <1>5, SiglistGood, Zenon
<1>7. /\ sig \in {"INT", "KILL"} => L \cap {"INT", "KILL"} # {}
      /\ sig = "CONT" => "CONT" \in L
  BY <1>2, <1>3, Zenon
<1> QED BY <1>2, <1>6, <1>7, Zenon DEF L

(* SIGSTOP and an uncaught SIGCONT, which are taken at once. *)
LEMMA TakenGood ==
  ASSUME NEW r, Good(r), NEW sig \in {"STOP", "CONT"},
         sig = "CONT" => ~r.contcaught,
         sig = "STOP" => r.stat = "SSTOP" \/ r.stat = "SSLEEP"
  PROVE  /\ Good(taken(r, sig))
         /\ \E L \in SUBSET Sigs : taken(r, sig) = [r EXCEPT !.siglist = L]
<1> DEFINE T == taken(r, sig).siglist
<1>1. r \in ProcType /\ sig \in Sigs
  BY Zenon DEF Good, Sigs
<1>2. /\ taken(r, sig) = [r EXCEPT !.siglist = T]
      /\ T = ((r.siglist \cup {sig}) \
               (CASE sig = "CONT" -> {"STOP"} [] sig = "STOP" -> {"CONT"} [] OTHER -> {})) \ {sig}
  BY <1>1, PostedFacts
<1> HIDE DEF T
<1>3. T = r.siglist \ {"STOP", "CONT"} /\ T \in SUBSET Sigs
  BY <1>1, <1>2 DEF Sigs, ProcType
<1>4. r.stat # "SSLEEP" /\ Interrupting(r) => Interrupting([r EXCEPT !.siglist = T])
  BY <1>1, <1>3, Zenon DEF Interrupting, ProcType
<1>5. r.stat = "SSLEEP" => r.cause = "none" /\ r.pc # "finish"
  BY <1>1, Zenon DEF Good, Returned, Sleeping, Finishing, ProcType
<1>6. Good([r EXCEPT !.siglist = T])
  BY <1>3, <1>4, <1>5, SiglistGood, Zenon
<1> QED BY <1>2, <1>3, <1>6, Zenon

(* setrunnable() after a signal that interrupts a caught sleep. *)
LEMMA SetrunnableGood ==
  ASSUME NEW r, Good(r), r.stat \in {"SSLEEP", "SSTOP"},
         r.pc \in {"setup", "sleep", "finish"} => r.catch,
         r.wchan = NULL \/ r.pc \in {"setup", "sleep"},
         Interrupting([r EXCEPT !.stat = "SRUN"]) \/ (~r.contcaught /\ r.wchan = NULL)
           \/ r.pc = "user"
  PROVE  Good(setrunnable(r, "signal"))
<1> DEFINE u == unslept(r, "signal")
<1>1. r \in ProcType
  BY Zenon DEF Good
<1>2. /\ u \in ProcType /\ u.wchan = NULL
      /\ u.cause = (IF r.wchan = NULL THEN r.cause ELSE "signal")
      /\ u.stat = r.stat /\ u.sintr = r.sintr /\ u.timeout = r.timeout
      /\ u.siglist = r.siglist /\ u.sleep_to = r.sleep_to /\ u.pc = r.pc
      /\ u.catch = r.catch /\ u.timo = r.timo /\ u.error = r.error
      /\ u.contcaught = r.contcaught
  BY <1>1, UnsleptFacts, Zenon
<1> HIDE DEF u
<1> DEFINE s == [u EXCEPT !.stat = "SRUN"]
<1>3. /\ s \in ProcType /\ s.wchan = NULL /\ s.cause = u.cause
      /\ s.stat = "SRUN" /\ s.sintr = r.sintr /\ s.timeout = r.timeout
      /\ s.siglist = r.siglist /\ s.sleep_to = r.sleep_to /\ s.pc = r.pc
      /\ s.catch = r.catch /\ s.timo = r.timo /\ s.error = r.error
      /\ s.contcaught = r.contcaught
  BY <1>2 DEF ProcType
<1>4. setrunnable(r, "signal") = s
  BY Zenon DEF setrunnable, u
<1> HIDE DEF s
<1>5. Interrupting([r EXCEPT !.stat = "SRUN"]) <=> Interrupting(s)
  BY <1>1, <1>3 DEF Interrupting, ProcType
<1>6. ~r.contcaught /\ Interrupting(r) => Interrupting(s)
  BY <1>3, Zenon DEF Interrupting
<1>7. CASE r.pc = "user"
  BY <1>2, <1>3, <1>4, <1>7 DEF Good, Returned
<1>8. CASE r.pc \in {"setup", "sleep"}
  <2>1. Sleeping(r)
    BY <1>8, Zenon DEF Good
  <2>2. s.cause = "signal" => Interrupting(s)
    BY <1>2, <1>3, <1>5, <1>6, <1>8, <2>1, Zenon DEF Sleeping
  <2>3. Sleeping(s)
    BY <1>2, <1>3, <1>8, <2>1, <2>2, Zenon DEF Sleeping
  <2> QED BY <1>3, <1>4, <1>8, <2>3, Zenon DEF Good
<1>9. CASE r.pc = "finish"
  <2>1. Finishing(r)
    BY <1>9, Zenon DEF Good
  <2>2. Finishing(s)
    BY <1>2, <1>3, <1>5, <1>6, <1>9, <2>1 DEF Finishing
  <2> QED BY <1>3, <1>4, <1>9, <2>2, Zenon DEF Good
<1>10. r.pc \in {"user", "setup", "sleep", "finish"}
  BY <1>1, Zenon DEF ProcType
<1> QED BY <1>7, <1>8, <1>9, <1>10, Zenon

LEMMA AsleepSignalled ==
  ASSUME NEW r, Good(r), r.stat = "SSLEEP", NEW sig \in Sigs
  PROVE  Good(ptsignal_asleep(r, sig))
<1>1. /\ r \in ProcType /\ r.pc \in {"setup", "sleep"} /\ r.wchan # NULL /\ r.cause = "none"
      /\ r.sintr \in BOOLEAN /\ (r.sintr => r.catch)
      /\ r.contcaught \in BOOLEAN /\ sig \in {"INT", "KILL", "STOP", "CONT"}
  BY SleepAssumption, Zenon DEF Good, Returned, Sleeping, Finishing, ProcType, Sigs
<1>2. CASE ~r.sintr
  BY <1>2, PostedGood, Zenon DEF ptsignal_asleep
<1>3. CASE r.sintr /\ sig = "STOP"
  <2>1. Good(taken(r, sig)) /\ taken(r, sig).catch /\ taken(r, sig).cause = "none"
        /\ taken(r, sig).pc = r.pc /\ taken(r, sig).wchan # NULL
    BY <1>1, <1>3, TakenGood DEF ProcType
  <2>2. ptsignal_asleep(r, sig) = [taken(r, sig) EXCEPT !.stat = "SSTOP"]
    BY <1>3, Zenon DEF ptsignal_asleep
  <2>3. PICK t : t = taken(r, sig)
    OBVIOUS
  <2>4. Good([t EXCEPT !.stat = "SSTOP"])
    BY <1>1, <2>1, <2>3 DEF Good, Sleeping, Interrupting, ProcType
  <2> QED BY <2>2, <2>3, <2>4, Zenon
<1>4. CASE r.sintr /\ sig = "CONT" /\ ~r.contcaught
  BY <1>1, <1>4, TakenGood, Zenon DEF ptsignal_asleep
<1>5. CASE r.sintr /\ sig # "STOP" /\ ~(sig = "CONT" /\ ~r.contcaught)
  <2>1. PICK t : t = posted(r, sig)
    OBVIOUS
  <2>2. PICK L : t = [r EXCEPT !.siglist = L]
    BY <1>1, <2>1, PostedFacts
  <2>3. /\ Good(t) /\ t \in ProcType
        /\ sig \in {"INT", "KILL"} => t.siglist \cap {"INT", "KILL"} # {}
        /\ sig = "CONT" => "CONT" \in t.siglist
    BY <2>1, PostedGood, Zenon DEF Good
  <2>4. /\ t.stat = "SSLEEP" /\ t.pc = r.pc /\ t.wchan # NULL /\ t.catch
        /\ t.contcaught = r.contcaught
    BY <1>1, <1>5, <2>2, Zenon DEF ProcType
  <2>5. Interrupting([t EXCEPT !.stat = "SRUN"])
    BY <1>1, <1>5, <2>3, <2>4, Zenon DEF Interrupting, ProcType
  <2>6. Good(setrunnable(t, "signal"))
    BY <1>1, <2>3, <2>4, <2>5, SetrunnableGood, Zenon
  <2> QED BY <1>1, <1>5, <2>1, <2>6, Zenon DEF ptsignal_asleep
<1> QED BY <1>1, <1>2, <1>3, <1>4, <1>5, Zenon

LEMMA StoppedSignalled ==
  ASSUME NEW r, Good(r), r.stat = "SSTOP", NEW sig \in Sigs
  PROVE  Good(ptsignal_stopped(r, sig))
<1>1. /\ r \in ProcType /\ r.pc \in {"user", "setup", "sleep", "finish"}
      /\ r.pc \in {"user", "finish"} => r.wchan = NULL
      /\ r.pc # "user" => r.catch
      /\ r.contcaught \in BOOLEAN /\ sig \in {"INT", "KILL", "STOP", "CONT"}
  BY SleepAssumption, Zenon DEF Good, Returned, Sleeping, Finishing, ProcType, Sigs
<1>2. PICK t : t = posted(r, sig)
  OBVIOUS
<1>3. PICK L : t = [r EXCEPT !.siglist = L]
  BY <1>1, <1>2, PostedFacts
<1>4. /\ Good(t) /\ t \in ProcType
      /\ sig \in {"INT", "KILL"} => t.siglist \cap {"INT", "KILL"} # {}
      /\ sig = "CONT" => "CONT" \in t.siglist
  BY <1>2, PostedGood, Zenon DEF Good
<1>5. /\ t.stat = "SSTOP" /\ t.pc = r.pc /\ t.wchan = r.wchan /\ t.catch = r.catch
      /\ t.contcaught = r.contcaught /\ t.sintr = r.sintr
  BY <1>1, <1>3, Zenon DEF ProcType
<1>6. CASE sig = "KILL" \/ (sig = "CONT" /\ r.contcaught)
  <2>1. r.pc = "user" \/ Interrupting([t EXCEPT !.stat = "SRUN"])
    BY <1>1, <1>4, <1>5, <1>6, Zenon DEF Interrupting, ProcType
  <2>2. Good(setrunnable(t, "signal"))
    BY <1>1, <1>4, <1>5, <2>1, SetrunnableGood, Zenon
  <2> QED BY <1>1, <1>2, <1>6, <2>2, Zenon DEF ptsignal_stopped
<1>7. CASE sig = "CONT" /\ ~r.contcaught
  <2>1. PICK w : w = taken(r, sig)
    OBVIOUS
  <2>2. PICK M \in SUBSET Sigs : w = [r EXCEPT !.siglist = M]
    BY <1>7, <2>1, TakenGood, Zenon
  <2>3. /\ Good(w) /\ w \in ProcType /\ w.stat = "SSTOP" /\ w.pc = r.pc /\ w.wchan = r.wchan
        /\ w.catch = r.catch /\ ~w.contcaught
    BY <1>1, <1>7, <2>1, <2>2, TakenGood DEF Good, ProcType
  <2>4. CASE r.wchan = NULL
    <3>1. Good(setrunnable(w, "signal"))
      BY <1>1, <2>3, <2>4, SetrunnableGood, Zenon
    <3> QED BY <1>7, <2>1, <2>4, <3>1, Zenon DEF ptsignal_stopped
  <2>5. CASE r.wchan # NULL
    <3>1. Good([w EXCEPT !.stat = "SSLEEP"])
      BY <1>1, <2>3, <2>5 DEF Good, Sleeping, ProcType
    <3> QED BY <1>7, <2>1, <2>5, <3>1 DEF ptsignal_stopped
  <2> QED BY <2>4, <2>5, Zenon
<1>8. CASE sig = "STOP"
  BY <1>8, TakenGood, Zenon DEF ptsignal_stopped
<1>9. CASE sig = "INT" /\ ~r.sintr
  BY <1>2, <1>4, <1>9, Zenon DEF ptsignal_stopped
<1>10. CASE sig = "INT" /\ r.sintr
  <2>1. PICK u : u = unslept(t, "signal")
    OBVIOUS
  <2>2. /\ u \in ProcType /\ u.wchan = NULL
        /\ u.cause = (IF t.wchan = NULL THEN t.cause ELSE "signal")
        /\ u.stat = t.stat /\ u.sintr = t.sintr /\ u.timeout = t.timeout
        /\ u.siglist = t.siglist /\ u.sleep_to = t.sleep_to /\ u.pc = t.pc
        /\ u.catch = t.catch /\ u.timo = t.timo /\ u.error = t.error
        /\ u.contcaught = t.contcaught
    BY <1>4, <2>1, UnsleptFacts, Zenon
  <2>3. r.pc \in {"setup", "sleep"} /\ r.catch
    BY <1>1, <1>10, Zenon DEF Good, Returned, Sleeping, Finishing
  <2>4. Interrupting(u)
    BY <1>4, <1>5, <1>10, <2>2, <2>3, Zenon DEF Interrupting
  <2>5. Sleeping(t)
    BY <1>4, <1>5, <2>3, Zenon DEF Good
  <2>6. Good(u)
    BY <1>5, <2>2, <2>3, <2>4, <2>5 DEF Good, Sleeping
  <2> QED BY <1>2, <1>10, <2>1, <2>6, Zenon DEF ptsignal_stopped
<1> QED BY <1>1, <1>6, <1>7, <1>8, <1>9, <1>10, Zenon

LEMMA PtsignalKeeps ==
  ASSUME IInv, NEW p \in Procs, NEW sig \in Sigs, ptsignal(p, sig)
  PROVE  IInv'
<1> DEFINE s == CASE proc[p].stat = "SSLEEP" -> ptsignal_asleep(proc[p], sig)
                  [] proc[p].stat = "SSTOP"  -> ptsignal_stopped(proc[p], sig)
                  [] OTHER                   -> posted(proc[p], sig)
<1>1. Update(p, s) /\ firing' = firing /\ firing = NoProc
  BY Zenon DEF ptsignal, kernel_lock
<1>2. Good(proc[p])
  BY Zenon DEF IInv
<1>3. Good(s)
  BY <1>2, AsleepSignalled, StoppedSignalled, PostedGood, Zenon
<1> HIDE DEF s
<1> QED BY <1>1, <1>3, UpdateKeeps, SleepAssumption, Zenon

(* Those that are woken were on the queue, in a sleep that nothing had     *)
(* ended.  They may include the one softclock is about to end.             *)
LEMMA WakeupKeeps ==
  ASSUME IInv, NEW ident \in Idents, NEW n, wakeup_n(ident, n)
  PROVE  IInv'
<1>1. PICK woken :
        /\ \A q \in woken : proc[q].wchan = ident
        /\ proc' = [p \in Procs |->
                      IF p \notin woken THEN proc[p]
                      ELSE [proc[p] EXCEPT !.wchan = NULL, !.cause = "wakeup",
                                           !.stat = IF @ = "SSLEEP" THEN "SRUN" ELSE @]]
        /\ firing' = firing
  <2> DEFINE waiting == {i \in DOMAIN slpque : proc[slpque[i]].wchan = ident}
             first == {i \in waiting : Cardinality({j \in waiting : j <= i}) <= n}
             woken == {slpque[i] : i \in first}
  <2>1. \A q \in woken : proc[q].wchan = ident
    OBVIOUS
  <2>2. /\ proc' = [p \in Procs |->
                      IF p \notin woken THEN proc[p]
                      ELSE [proc[p] EXCEPT !.wchan = NULL, !.cause = "wakeup",
                                           !.stat = IF @ = "SSLEEP" THEN "SRUN" ELSE @]]
        /\ firing' = firing
    BY Zenon DEF wakeup_n
  <2> HIDE DEF woken
  <2> QED BY <2>1, <2>2, Zenon
<1>2. ASSUME NEW p \in Procs
      PROVE  /\ Good(proc'[p]) /\ proc'[p].timo = proc[p].timo /\ proc'[p].pc = proc[p].pc
  <2>1. Good(proc[p]) /\ proc[p] \in ProcType
    BY Zenon DEF IInv
  <2>2. CASE p \notin woken
    BY <1>1, <2>1, <2>2, Zenon
  <2>3. CASE p \in woken
    <3>1. PICK r : r = proc[p]
      OBVIOUS
    <3>2. proc'[p] = [r EXCEPT !.wchan = NULL, !.cause = "wakeup",
                               !.stat = IF @ = "SSLEEP" THEN "SRUN" ELSE @]
      BY <1>1, <2>3, <3>1, Zenon
    <3>3. r.wchan # NULL /\ r.pc \in {"setup", "sleep"} /\ Sleeping(r) /\ r \in ProcType
      <4>1. r.wchan = ident /\ ident # NULL
        BY <1>1, <2>3, <3>1, SleepAssumption, Zenon
      <4>2. r.pc \in {"user", "setup", "sleep", "finish"}
        BY <2>1, <3>1, Zenon DEF ProcType
      <4> QED BY <2>1, <3>1, <4>1, <4>2, Zenon DEF Good, Returned, Finishing
    <3>4. PICK w : w = proc'[p]
      OBVIOUS
    <3>5. /\ w \in ProcType /\ w.pc = r.pc /\ w.timo = r.timo /\ Sleeping(w)
      BY <3>2, <3>3, <3>4, ZenonT(60) DEF Sleeping, ProcType
    <3> QED BY <3>1, <3>3, <3>4, <3>5, Zenon DEF Good
  <2> QED BY <2>2, <2>3, Zenon
<1>3. proc' \in [Procs -> ProcType]
  BY <1>1, <1>2, Zenon DEF Good
<1>4. \A p \in Procs : Good(proc[p])'
  BY <1>2 DEF Good, Returned, Sleeping, Finishing, Interrupting, ProcType
<1>5. Firing'
  BY <1>1, <1>2 DEF IInv, Firing
<1> QED BY <1>3, <1>4, <1>5, Zenon DEF IInv

LEMMA SoftclockKeeps ==
  ASSUME IInv, NEW p \in Procs, Softclock(p)
  PROVE  IInv'
<1>1. PICK r : r = proc[p]
  OBVIOUS
<1>2. Good(r) /\ r \in ProcType /\ r.sleep_to
  BY <1>1, Zenon DEF IInv, Softclock
<1>3. PICK w : w = [r EXCEPT !.sleep_to = FALSE]
  OBVIOUS
<1>4. proc' = [proc EXCEPT ![p] = w] /\ firing' = p
  BY <1>1, <1>3, Zenon DEF Softclock
<1>5. r.pc \in {"setup", "sleep"} /\ r.timo
  BY <1>2, Zenon DEF Good, Returned, Sleeping, Finishing, ProcType
<1>6. w \in ProcType /\ w.pc = r.pc /\ w.timo = r.timo /\ Good(w)
  BY <1>2, <1>3, <1>5, ZenonT(60) DEF Good, Sleeping, Interrupting, ProcType
<1>7. /\ proc' \in [Procs -> ProcType]
      /\ \A q \in Procs : proc'[q] = IF q = p THEN w ELSE proc[q]
  BY <1>4, <1>6, Zenon DEF IInv
<1>8. \A q \in Procs : Good(proc'[q])
  BY <1>6, <1>7, Zenon DEF IInv
<1>9. \A q \in Procs : Good(proc[q])'
  BY <1>8, Zenon DEF Good, Returned, Sleeping, Finishing, Interrupting, ProcType
<1>10. Firing'
  BY <1>4, <1>5, <1>6, <1>7, Zenon DEF Firing
<1> QED BY <1>7, <1>9, <1>10, Zenon DEF IInv

LEMMA EndtsleepKeeps ==
  ASSUME IInv, NEW p \in Procs, endtsleep(p)
  PROVE  IInv'
<1>1. PICK r : r = proc[p]
  OBVIOUS
<1>2. /\ Good(r) /\ r \in ProcType /\ r.timo /\ r.pc \in {"setup", "sleep"} /\ Sleeping(r)
      /\ firing' = NoProc
  BY <1>1, Zenon DEF IInv, Firing, endtsleep, Good
<1>3. CASE r.wchan = NULL
  <2>1. Update(p, r)
    BY <1>1, <1>3, Zenon DEF endtsleep
  <2> QED BY <1>2, <2>1, UpdateKeeps, SleepAssumption, Zenon
<1>4. CASE r.wchan # NULL
  <2>1. PICK u : u = unslept(r, "timeout")
    OBVIOUS
  <2>2. /\ u \in ProcType /\ u.wchan = NULL /\ u.cause = "timeout"
        /\ u.stat = r.stat /\ u.sintr = r.sintr /\ u.pc = r.pc /\ u.catch = r.catch
        /\ u.timo = r.timo
    BY <1>2, <1>4, <2>1, UnsleptFacts, Zenon
  <2>3. PICK w : w = [u EXCEPT !.timeout = TRUE, !.stat = IF @ = "SSLEEP" THEN "SRUN" ELSE @]
    OBVIOUS
  <2>4. Update(p, w)
    BY <1>1, <1>4, <2>1, <2>3, Zenon DEF endtsleep
  <2>5. Good(w)
    BY <1>2, <1>4, <2>2, <2>3, ZenonT(60) DEF Good, Sleeping, ProcType
  <2> QED BY <1>2, <2>4, <2>5, UpdateKeeps, SleepAssumption, Zenon
<1> QED BY <1>3, <1>4, Zenon

-----------------------------------------------------------------------------
LEMMA IInvInit == Init => IInv
<1> SUFFICES ASSUME Init PROVE IInv
  OBVIOUS
<1>1. \A p \in Procs : Good(proc[p])
  BY NewbornGood, Zenon DEF Init
<1>2. proc \in [Procs -> ProcType]
  BY <1>1, Zenon DEF Init, Good
<1>3. Firing
  BY SleepAssumption, Zenon DEF Init, Firing
<1> QED BY <1>1, <1>2, <1>3, Zenon DEF IInv

LEMMA IInvNext ==
  ASSUME IInv, [Next]_vars
  PROVE  IInv'
<1>1. CASE UNCHANGED vars
  BY <1>1, SMTT(30) DEF vars, IInv, Firing, Good, Returned, Sleeping, Finishing, Interrupting
<1>2. ASSUME NEW p \in Procs, NEW ident \in Idents, NEW k \in Calls, tsleep(p, ident, k)
      PROVE  IInv'
  BY <1>2, TsleepKeeps, Zenon
<1>3. ASSUME NEW p \in Procs, NEW sig \in Sigs, ptsignal(p, sig) PROVE IInv'
  BY <1>3, PtsignalKeeps, Zenon
<1>4. ASSUME NEW p \in Procs, Resume(p) \/ Userret(p) \/ Softclock(p) \/ endtsleep(p)
      PROVE  IInv'
  BY <1>4, ResumeKeeps, UserretKeeps, SoftclockKeeps, EndtsleepKeeps, Zenon
<1>5. ASSUME NEW ident \in Idents, wakeup_one(ident) \/ wakeup(ident) PROVE IInv'
  BY <1>5, WakeupKeeps, Zenon DEF wakeup_one, wakeup
<1> QED BY <1>1, <1>2, <1>3, <1>4, <1>5 DEF Next

LEMMA Invariance == Spec => []IInv
BY IInvInit, IInvNext, PTL DEF Spec

(* For any number of processes, tsleep() returns 0 only when a wakeup      *)
(* ended the sleep and EWOULDBLOCK only when its own timeout did, through  *)
(* any stops and signals, and leaves nothing armed for the next sleep.     *)
THEOREM ReturnValue == Spec => []ReturnTellsCause
<1>1. IInv => ReturnTellsCause
  BY Zenon DEF IInv, Good, Returned, ReturnTellsCause
<1> QED BY <1>1, Invariance, PTL

-----------------------------------------------------------------------------
On(queue, p) == \E i \in DOMAIN queue : queue[i] = p
Once(queue) == \A i, j \in DOMAIN queue : queue[i] = queue[j] => i = j

(* Elements leave a queue: the others stay, as often as they were on it. *)
LEMMA WithoutFacts ==
  ASSUME NEW P, NEW queue \in Seq(P), NEW S
  PROVE  /\ without(queue, S) \in Seq(P)
         /\ \A p : On(without(queue, S), p) <=> On(queue, p) /\ p \notin S
         /\ Once(queue) => Once(without(queue, S))
<1> DEFINE others == {i \in DOMAIN queue : queue[i] \notin S}
           upto(i) == {j \in others : j <= i}
           rank == [i \in others |-> Cardinality(upto(i))]
           n == Cardinality(others)
           place(k) == CHOOSE i \in others : rank[i] = k
<1>1. /\ IsFiniteSet(others) /\ n \in Nat /\ others \subseteq Nat
      /\ \A i \in others : i \in DOMAIN queue
  <2>1. IsFiniteSet(1 .. Len(queue)) /\ DOMAIN queue = 1 .. Len(queue)
    BY FS_Interval
  <2>2. others \subseteq 1 .. Len(queue)
    BY <2>1, Zenon
  <2> QED BY <2>1, <2>2, FS_Subset, FS_CardinalityType
<1>2. \A i \in others : IsFiniteSet(upto(i)) /\ upto(i) \subseteq others /\ rank[i] \in 1 .. n
  <2> TAKE i \in others
  <2>1. upto(i) \in SUBSET others /\ i \in upto(i)
    BY <1>1
  <2>2. IsFiniteSet(upto(i)) /\ Cardinality(upto(i)) <= n /\ Cardinality(upto(i)) \in Nat
    BY <1>1, <2>1, FS_Subset, FS_CardinalityType, Zenon
  <2>3. Cardinality(upto(i)) # 0
    BY <2>1, <2>2, FS_EmptySet, Zenon
  <2> QED BY <1>1, <2>1, <2>2, <2>3
<1>3. ASSUME NEW i \in others, NEW j \in others, i < j PROVE rank[i] # rank[j]
  <2>1. upto(i) \in SUBSET upto(j) /\ j \in upto(j) /\ j \notin upto(i)
    BY <1>1, <1>3
  <2>2. IsFiniteSet(upto(j))
    BY <1>2, Zenon
  <2>3. Cardinality(upto(j)) = Cardinality(upto(i)) => upto(j) = upto(i)
    BY <2>1, <2>2, FS_Subset, Zenon
  <2> QED BY <2>1, <2>3, Zenon
<1>4. \A i, j \in others : rank[i] = rank[j] => i = j
  BY <1>1, <1>3
<1>5. \A k \in 1 .. n : \E i \in others : rank[i] = k
  <2>1. rank \in Injection(others, 1 .. n)
    BY <1>2, <1>4, Zenon DEF Injection, IsInjective
  <2>2. IsFiniteSet(1 .. n) /\ Cardinality(1 .. n) = n
    BY <1>1, FS_Interval, SMTT(30)
  <2>3. rank \in Surjection(others, 1 .. n)
    BY <2>1, <2>2, FS_Injection, Zenon
  <2> QED BY <2>3, Zenon DEF Surjection
<1> HIDE DEF rank
<1>6. \A k \in 1 .. n : place(k) \in others /\ rank[place(k)] = k
  BY <1>5, Zenon
<1>7. \A i \in others : rank[i] \in 1 .. n /\ place(rank[i]) = i
  BY <1>2, <1>4, <1>6, Zenon
<1> HIDE DEF place
<1>8. without(queue, S) = [k \in 1 .. n |-> queue[place(k)]]
  BY Zenon DEF without, rank, place
<1>9. \A i \in others : queue[i] \in P /\ queue[i] \notin S
  OBVIOUS
<1> HIDE DEF others, n
<1>10. /\ without(queue, S) \in Seq(P) /\ DOMAIN without(queue, S) = 1 .. n
       /\ \A k \in 1 .. n : without(queue, S)[k] = queue[place(k)]
  <2>1. \A k \in 1 .. n : queue[place(k)] \in P
    BY <1>6, <1>9, Zenon
  <2>2. n \in Nat
    BY <1>1, Zenon
  <2> DEFINE q(k) == queue[place(k)]
  <2> HIDE DEF q
  <2>3. without(queue, S) = [k \in 1 .. n |-> q(k)]
    BY <1>8, Zenon DEF q
  <2>4. \A k \in 1 .. n : q(k) \in P
    BY <2>1, Zenon DEF q
  <2>5. /\ without(queue, S) \in Seq(P) /\ DOMAIN without(queue, S) = 1 .. n
        /\ \A k \in 1 .. n : without(queue, S)[k] = q(k)
    BY ONLY <2>2, <2>3, <2>4
  <2> QED BY <2>5, Zenon DEF q
<1>11. ASSUME NEW p PROVE On(without(queue, S), p) <=> On(queue, p) /\ p \notin S
  <2>1. ASSUME On(queue, p), p \notin S PROVE On(without(queue, S), p)
    <3>1. PICK i \in others : queue[i] = p
      BY <2>1, Zenon DEF On, others
    <3> QED BY <1>7, <1>10, <3>1, Zenon DEF On
  <2>2. ASSUME On(without(queue, S), p) PROVE On(queue, p) /\ p \notin S
    <3>1. PICK k \in 1 .. n : queue[place(k)] = p
      BY <1>10, <2>2, Zenon DEF On
    <3> QED BY <1>1, <1>6, <1>9, <3>1, Zenon DEF On
  <2> QED BY <2>1, <2>2, Zenon
<1>12. Once(queue) => Once(without(queue, S))
  <2> SUFFICES ASSUME Once(queue), NEW k \in 1 .. n, NEW l \in 1 .. n,
                      queue[place(k)] = queue[place(l)]
               PROVE  k = l
    BY <1>10, Zenon DEF Once
  <2>1. place(k) \in DOMAIN queue /\ place(l) \in DOMAIN queue
    BY <1>1, <1>6, Zenon
  <2>2. place(k) = place(l)
    BY ONLY <2>1, Once(queue), queue[place(k)] = queue[place(l)], Zenon DEF Once
  <2>3. rank[place(k)] = k /\ rank[place(l)] = l
    BY <1>6, Zenon
  <2> QED BY ONLY <2>2, <2>3, Zenon
<1> QED BY <1>10, <1>11, <1>12, Zenon

(* A process joins the queue at its end. *)
LEMMA AppendFacts ==
  ASSUME NEW P, NEW queue \in Seq(P), NEW p \in P, ~On(queue, p)
  PROVE  /\ Append(queue, p) \in Seq(P)
         /\ \A q : On(Append(queue, p), q) <=> On(queue, q) \/ q = p
         /\ Once(queue) => Once(Append(queue, p))
<1>1. /\ Append(queue, p) \in Seq(P) /\ Len(queue) \in Nat
      /\ DOMAIN Append(queue, p) = 1 .. Len(queue) + 1 /\ DOMAIN queue = 1 .. Len(queue)
      /\ Append(queue, p)[Len(queue) + 1] = p
      /\ \A i \in 1 .. Len(queue) : Append(queue, p)[i] = queue[i]
  OBVIOUS
<1>2. ASSUME NEW i \in 1 .. Len(queue) + 1 PROVE i \in 1 .. Len(queue) \/ i = Len(queue) + 1
  BY <1>1
<1>3. ASSUME NEW q PROVE On(Append(queue, p), q) <=> On(queue, q) \/ q = p
  BY <1>1, <1>2 DEF On
<1>4. Once(queue) => Once(Append(queue, p))
  BY <1>1, <1>2, Zenon DEF Once, On
<1> QED BY <1>1, <1>3, <1>4, Zenon

(* The queue and the wait channels say the same. *)
QueueInv ==
  /\ slpque \in Seq(Procs) /\ Once(slpque)
  /\ \A p \in Procs : proc[p].wchan # NULL <=> On(slpque, p)
  /\ firing \in Procs \cup {NoProc}

LEMMA UpdateQueue ==
  ASSUME IInv, QueueInv, NEW p \in Procs, NEW r, Update(p, r)
  PROVE  /\ slpque' \in Seq(Procs) /\ Once(slpque')
         /\ \A q \in Procs : proc'[q].wchan # NULL <=> On(slpque', q)
<1>1. /\ \A q \in Procs : proc'[q] = IF q = p THEN r ELSE proc[q]
      /\ \A q \in Procs : proc[q].wchan # NULL <=> On(slpque, q)
      /\ slpque \in Seq(Procs) /\ Once(slpque)
  BY Zenon DEF IInv, QueueInv, Update
<1>2. CASE r.wchan = NULL
  <2>1. slpque' = without(slpque, {p})
    BY <1>2, Zenon DEF Update
  <2> QED BY <1>1, <1>2, <2>1, WithoutFacts, Zenon
<1>3. CASE r.wchan # NULL /\ proc[p].wchan = NULL
  <2>1. slpque' = Append(slpque, p) /\ ~On(slpque, p)
    BY <1>1, <1>3, Zenon DEF Update
  <2> QED BY <1>1, <1>3, <2>1, AppendFacts
<1>4. CASE r.wchan # NULL /\ proc[p].wchan # NULL
  <2>1. slpque' = slpque
    BY <1>4, Zenon DEF Update
  <2> QED BY <1>1, <1>4, <2>1, Zenon
<1> QED BY <1>2, <1>3, <1>4, Zenon

LEMMA WakeupQueue ==
  ASSUME IInv, QueueInv, NEW ident \in Idents, NEW n, wakeup_n(ident, n)
  PROVE  QueueInv'
<1>1. PICK woken :
        /\ \A p \in Procs : proc'[p].wchan = IF p \in woken THEN NULL ELSE proc[p].wchan
        /\ slpque' = without(slpque, woken) /\ firing' = firing
  <2> DEFINE waiting == {i \in DOMAIN slpque : proc[slpque[i]].wchan = ident}
             first == {i \in waiting : Cardinality({j \in waiting : j <= i}) <= n}
             woken == {slpque[i] : i \in first}
  <2>1. /\ proc' = [p \in Procs |->
                      IF p \notin woken THEN proc[p]
                      ELSE [proc[p] EXCEPT !.wchan = NULL, !.cause = "wakeup",
                                           !.stat = IF @ = "SSLEEP" THEN "SRUN" ELSE @]]
        /\ slpque' = without(slpque, woken) /\ firing' = firing
    BY Zenon DEF wakeup_n
  <2> HIDE DEF woken
  <2>2. \A p \in Procs : proc'[p].wchan = IF p \in woken THEN NULL ELSE proc[p].wchan
    BY <2>1 DEF IInv, ProcType
  <2> QED BY <2>1, <2>2, Zenon
<1>2. /\ slpque' \in Seq(Procs) /\ Once(slpque')
      /\ \A p : On(slpque', p) <=> On(slpque, p) /\ p \notin woken
  BY <1>1, WithoutFacts, Zenon DEF QueueInv
<1>3. \A p \in Procs : proc'[p].wchan # NULL <=> On(slpque', p)
  BY <1>1, <1>2, Zenon DEF QueueInv
<1> QED BY <1>1, <1>2, <1>3, Zenon DEF QueueInv, On, Once

LEMMA QueueNext ==
  ASSUME IInv, QueueInv, [Next]_vars
  PROVE  QueueInv'
<1>1. CASE UNCHANGED vars
  BY <1>1, Zenon DEF vars, QueueInv, On, Once
<1>2. ASSUME NEW p \in Procs, NEW r, Update(p, r), firing' \in {firing, NoProc}
      PROVE  QueueInv'
  BY <1>2, UpdateQueue, Zenon DEF QueueInv, On, Once
<1>3. ASSUME NEW p \in Procs, NEW ident \in Idents, NEW k \in Calls, tsleep(p, ident, k)
      PROVE  QueueInv'
  BY <1>2, <1>3, Zenon DEF tsleep
<1>4. ASSUME NEW p \in Procs, NEW sig \in Sigs, ptsignal(p, sig) PROVE QueueInv'
  BY <1>2, <1>4, Zenon DEF ptsignal
<1>5. ASSUME NEW p \in Procs, Resume(p) PROVE QueueInv'
  BY <1>2, <1>5, Zenon DEF Resume
<1>6. ASSUME NEW p \in Procs, Userret(p) PROVE QueueInv'
  BY <1>2, <1>6, Zenon DEF Userret
<1>7. ASSUME NEW p \in Procs, endtsleep(p) PROVE QueueInv'
  BY <1>2, <1>7, Zenon DEF endtsleep
<1>8. ASSUME NEW p \in Procs, Softclock(p) PROVE QueueInv'
  <2>1. /\ \A q \in Procs : proc'[q].wchan = proc[q].wchan
        /\ slpque' = slpque /\ firing' = p
    BY <1>8 DEF Softclock, IInv, ProcType
  <2> QED BY <2>1, Zenon DEF QueueInv, On, Once
<1>9. ASSUME NEW ident \in Idents, wakeup_one(ident) \/ wakeup(ident) PROVE QueueInv'
  BY <1>9, WakeupQueue, Zenon DEF wakeup_one, wakeup
<1> QED BY <1>1, <1>3, <1>4, <1>5, <1>6, <1>7, <1>8, <1>9 DEF Next

LEMMA QueueInvariance == Spec => [](IInv /\ QueueInv)
<1>1. Init => IInv /\ QueueInv
  <2> SUFFICES ASSUME Init PROVE QueueInv
    BY IInvInit, Zenon
  <2>1. \A p \in Procs : proc[p].wchan = NULL
    BY DEF Init, Newborn
  <2>2. slpque \in Seq(Procs) /\ Once(slpque) /\ \A p \in Procs : ~On(slpque, p)
    BY DEF Init, On, Once
  <2> QED BY <2>1, <2>2, Zenon DEF Init, QueueInv
<1>2. IInv /\ QueueInv /\ [Next]_vars => (IInv /\ QueueInv)'
  BY IInvNext, QueueNext, Zenon
<1> QED BY <1>1, <1>2, PTL DEF Spec

(* The fields of every struct proc, the sleep queue and the process that   *)
(* softclock serves keep their types.                                      *)
THEOREM TypeCorrect == Spec => []TypeOK
<1>1. IInv /\ QueueInv => TypeOK
  BY Zenon DEF IInv, QueueInv, TypeOK
<1> QED BY <1>1, QueueInvariance, PTL

(* The sleep queue holds, once each, exactly the processes with a wait     *)
(* channel: no wakeup misses a sleeper, wakeup_n() meets nobody that is    *)
(* neither asleep nor stopped (it would panic), and nobody stays on the    *)
(* queue whom a signal or the timeout has taken off it.                    *)
THEOREM QueuedWhileAsleep == Spec => []AsleepIffQueued
<1>1. IInv /\ QueueInv => AsleepIffQueued
  <2> SUFFICES ASSUME IInv, QueueInv PROVE AsleepIffQueued
    OBVIOUS
  <2>1. \A p \in Procs : /\ proc[p].wchan # NULL => proc[p].stat \in {"SSLEEP", "SSTOP"}
                         /\ proc[p].stat = "SSLEEP" => proc[p].wchan # NULL
    BY Zenon DEF IInv, Good, Returned, Sleeping, Finishing, ProcType
  <2> QED BY <2>1, Zenon DEF QueueInv, On, Once, AsleepIffQueued
<1> QED BY <1>1, QueueInvariance, PTL
=============================================================================
