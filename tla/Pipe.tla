-------------------------------- MODULE Pipe ---------------------------------
(***************************************************************************)
(* One direction of a pipe (kern/sys_pipe.c): the struct pipe that belongs *)
(* to the read end, its readers, the writers that reach it as their peer,  *)
(* select() on it, and the close of either end.                            *)
(*                                                                         *)
(* curproc is the process inside the pipe code: it keeps the kernel lock   *)
(* until it sleeps, blocks in uiomove() or returns.  Everybody sleeps on   *)
(* the one channel, the address of the pipe.  closef() calls pipe_close()  *)
(* when no process is in a call on the same end.                           *)
(***************************************************************************)
EXTENDS Integers, Sequences, FiniteSets, FiniteSetsExt

CONSTANTS
  Readers, Writers,
  Closer,          \* the process that closes the read end
  NoProc,
  ReadSizes, WriteSizes,
  PIPE_SIZE, BIG_PIPE_SIZE, PIPE_BUF, LIMITBIGPIPES,
  BigElsewhere,    \* how many other pipes may have a big buffer
  Failures         \* what can end a call early: EINTR, EAGAIN, EFAULT

ASSUME PipeAssumption ==
  /\ IsFiniteSet(Readers) /\ IsFiniteSet(Writers) /\ Readers \cap Writers = {}
  /\ Closer \notin Readers \cup Writers /\ NoProc \notin Readers \cup Writers \cup {Closer}
  /\ ReadSizes \subseteq Nat /\ WriteSizes \subseteq Nat
  /\ PIPE_SIZE \in Nat /\ 3 <= PIPE_SIZE /\ BIG_PIPE_SIZE \in Nat /\ LIMITBIGPIPES \in Nat
  /\ BigElsewhere \subseteq Nat
  /\ PIPE_BUF \in Nat /\ 0 < PIPE_BUF /\ PIPE_BUF + PIPE_SIZE \div 3 <= PIPE_SIZE
  /\ PIPE_SIZE < BIG_PIPE_SIZE
  /\ Failures \subseteq {"EINTR", "EAGAIN", "EFAULT"}

VARIABLES
  buffer, in, out, cnt, size,   \* pipe_buffer
  pipe_state, pipe_busy,
  nbigpipe,                     \* this pipe's part of the global nbigpipe
  readable, writable,           \* the ends that are open; readable = FALSE
                                \* once the pipe is freed
  pc, uio, asleep, curproc,
  selecting,                    \* the events select() waits for: in, out
  sent,                         \* what was written, since the buffer was
                                \* last replaced, and not yet read
  dropped                       \* a buffer with data in it was replaced

pipevars == <<buffer, in, out, cnt, size, pipe_state, pipe_busy, nbigpipe>>
endvars == <<readable, writable, dropped>>
vars == <<pipevars, endvars, pc, uio, asleep, curproc, selecting, sent>>

Procs == Readers \cup Writers \cup {Closer}
MINPIPESIZE == PIPE_SIZE \div 3
Flags == {"LOCK", "LWANT", "WANTR", "WANTW", "WANT", "EOF", "SEL"}

(* A call's uio_resid, what it began with (orig_resid) or has read         *)
(* (nread), the space pipe_write() found, and the transfer it makes.       *)
NoUio == [resid |-> 0, orig |-> 0, space |-> 0, size |-> 0, seg |-> 0]

TypeOK ==
  /\ size \in {PIPE_SIZE, BIG_PIPE_SIZE} /\ cnt \in 0 .. size
  /\ in \in 0 .. size - 1 /\ out \in 0 .. size - 1
  /\ buffer \in [0 .. size - 1 -> Writers \cup {NoProc}]
  /\ pipe_state \subseteq Flags /\ pipe_busy \in Nat
  /\ nbigpipe \in Nat
  /\ selecting \subseteq {"in", "out"} /\ asleep \subseteq Procs
  /\ curproc \in Procs \cup {NoProc}
  /\ uio \in [Procs -> [resid : Nat, orig : Nat, space : Nat, size : Nat, seg : Nat]]

(* sys_opipe() *)
Init ==
  /\ buffer = [i \in 0 .. PIPE_SIZE - 1 |-> NoProc]
  /\ in = 0 /\ out = 0 /\ cnt = 0 /\ size = PIPE_SIZE
  /\ pipe_state = {} /\ pipe_busy = 0 /\ nbigpipe = 0
  /\ readable = TRUE /\ writable = TRUE
  /\ pc = [p \in Procs |-> "idle"] /\ uio = [p \in Procs |-> NoUio]
  /\ asleep = {} /\ curproc = NoProc /\ selecting = {} /\ sent = <<>> /\ dropped = FALSE

-----------------------------------------------------------------------------
At(p, l) == curproc = p /\ pc[p] = l
Goto(p, l) == pc' = [pc EXCEPT ![p] = l]

Flag(on, off) == pipe_state' = (pipe_state \ off) \cup on
wakeup == asleep' = {}
nobuf == UNCHANGED <<buffer, in, out, cnt, size, nbigpipe, sent>>

tsleep(p) == asleep' = asleep \cup {p} /\ curproc' = NoProc

(* The form of every wakeup of readers, writers and closers. *)
WakeIf(cond, flag, off) ==
  IF cond /\ flag \in pipe_state
    THEN Flag({}, off \cup {flag}) /\ wakeup
    ELSE UNCHANGED <<pipe_state, asleep>>

pipeunlock(on) ==
  /\ Flag(on, {"LOCK", "LWANT"})
  /\ asleep' = IF "LWANT" \in pipe_state THEN {} ELSE asleep

(* A process that was woken, or whose call the kernel takes up again, runs.*)
Resume(p) ==
  /\ curproc = NoProc /\ p \notin asleep
  /\ pc[p] \notin {"idle", "rcopy", "wcopy", "wcopy2"}
  /\ curproc' = p
  /\ UNCHANGED <<pipevars, endvars, pc, uio, asleep, selecting, sent>>

(* Where pipelock() is called, and where its caller goes on. *)
Locking == {"rlock0", "rlock", "wbig", "wlock"}
locked(l) == CASE l \in {"rlock0", "rlock"} -> "rloop"
               [] l = "wbig" -> "wresize" [] l = "wlock" -> "wlocked"
interrupted(l) == CASE l = "rlock0" -> "return" [] l \in {"rlock", "rsleep"} -> "rout"
                    [] l = "wbig" -> "werror" [] l \in {"wlock", "wsleep"} -> "wout"

pipelock(p) ==
  /\ curproc = p /\ pc[p] \in Locking
  /\ IF "LOCK" \in pipe_state
       THEN Flag({"LWANT"}, {}) /\ tsleep(p) /\ UNCHANGED <<pc, pipe_busy>>
       ELSE /\ Flag({"LOCK"}, {}) /\ Goto(p, locked(pc[p]))
            /\ pipe_busy' = IF pc[p] = "rlock0" THEN pipe_busy + 1 ELSE pipe_busy
            /\ UNCHANGED <<asleep, curproc>>
  /\ nobuf /\ UNCHANGED <<endvars, uio, selecting>>

(* A signal ends a sleep with PCATCH. *)
Interrupt(p) ==
  /\ "EINTR" \in Failures /\ p \in asleep /\ p # Closer
  /\ asleep' = asleep \ {p} /\ Goto(p, interrupted(pc[p]))
  /\ UNCHANGED <<pipevars, endvars, uio, curproc, selecting, sent>>

Return(p) ==
  /\ At(p, "return")
  /\ Goto(p, "idle") /\ curproc' = NoProc /\ uio' = [uio EXCEPT ![p] = NoUio]
  /\ UNCHANGED <<pipevars, endvars, asleep, selecting, sent>>

-----------------------------------------------------------------------------
(* pipe_read() *)
pipe_read(p) ==
  /\ curproc = NoProc /\ pc[p] = "idle" /\ readable /\ pc[Closer] = "idle"
  /\ \E n \in ReadSizes : uio' = [uio EXCEPT ![p] = [NoUio EXCEPT !.resid = n]]
  /\ Goto(p, "rlock0") /\ curproc' = p
  /\ UNCHANGED <<pipevars, endvars, asleep, selecting, sent>>

ReadSome(p) ==
  /\ At(p, "rloop") /\ uio[p].resid > 0 /\ cnt > 0
  /\ uio' = [uio EXCEPT ![p].size = Min({size - out, cnt, uio[p].resid})]
  /\ Goto(p, "rcopy") /\ curproc' = NoProc
  /\ UNCHANGED <<pipevars, endvars, asleep, selecting, sent>>

(* uiomove() is done, and the pointers are moved. *)
ReadCopied(p) ==
  LET n == uio[p].size IN
  /\ curproc = NoProc /\ pc[p] = "rcopy" /\ curproc' = p
  /\ cnt' = cnt - n
  /\ out' = IF cnt' = 0 \/ out + n >= size THEN 0 ELSE out + n
  /\ in' = IF cnt' = 0 THEN 0 ELSE in
  /\ sent' = SubSeq(sent, n + 1, Len(sent))
  /\ uio' = [uio EXCEPT ![p] = [NoUio EXCEPT !.resid = uio[p].resid - n, !.orig = uio[p].orig + n]]
  /\ Goto(p, "rloop")
  /\ UNCHANGED <<buffer, size, pipe_state, pipe_busy, nbigpipe, endvars, asleep, selecting>>

ReadFault(p) ==
  /\ "EFAULT" \in Failures /\ curproc = NoProc /\ pc[p] = "rcopy" /\ curproc' = p
  /\ Goto(p, "rdone")
  /\ UNCHANGED <<pipevars, endvars, uio, asleep, selecting, sent>>

ReadEnough(p) ==
  /\ At(p, "rloop") /\ (uio[p].resid = 0 \/ (cnt = 0 /\ "EOF" \in pipe_state))
  /\ Goto(p, "rdone")
  /\ UNCHANGED <<pipevars, endvars, uio, asleep, curproc, selecting, sent>>

(* The buffer is empty: wake the writers; stop if something was read; else *)
(* unlock, and sleep or give up.                                           *)
ReadEmpty(p) ==
  /\ At(p, "rloop") /\ uio[p].resid > 0 /\ cnt = 0 /\ "EOF" \notin pipe_state
  /\ WakeIf(TRUE, "WANTW", {})
  /\ Goto(p, IF uio[p].orig > 0 THEN "rdone" ELSE "rwait")
  /\ nobuf /\ UNCHANGED <<pipe_busy, endvars, uio, curproc, selecting>>

ReadWait(p) ==
  /\ At(p, "rwait")
  /\ \/ /\ "EAGAIN" \in Failures
        /\ pipeunlock({}) /\ Goto(p, "rout") /\ UNCHANGED curproc
     \/ /\ Flag({"WANTR"}, {"LOCK", "LWANT"})
        /\ asleep' = {p} \cup IF "LWANT" \in pipe_state THEN {} ELSE asleep
        /\ curproc' = NoProc /\ Goto(p, "rsleep")
  /\ nobuf /\ UNCHANGED <<pipe_busy, endvars, uio, selecting>>

ReadAgain(p) ==
  /\ At(p, "rsleep") /\ Goto(p, "rlock")
  /\ UNCHANGED <<pipevars, endvars, uio, asleep, curproc, selecting, sent>>

ReadDone(p) ==
  /\ At(p, "rdone") /\ pipeunlock({}) /\ Goto(p, "rout")
  /\ nobuf /\ UNCHANGED <<pipe_busy, endvars, uio, curproc, selecting>>

(* Fault: writers are woken only by a reader that finds the buffer empty. *)
ReadOut_quiet(p) ==
  /\ At(p, "rout") /\ pipe_busy' = pipe_busy - 1
  /\ WakeIf(pipe_busy' = 0, "WANT", {"WANTW"})
  /\ Goto(p, "rsel")
  /\ nobuf /\ UNCHANGED <<endvars, uio, curproc, selecting>>

(* unlocked_error: the last user wakes a close; else the writers are woken *)
(* when there is room again, and select() is told.                         *)
ReadOut(p) ==
  /\ At(p, "rout") /\ pipe_busy' = pipe_busy - 1
  /\ IF pipe_busy' = 0 /\ "WANT" \in pipe_state
       THEN WakeIf(TRUE, "WANT", {"WANTW"})
       ELSE WakeIf(cnt < MINPIPESIZE, "WANTW", {})
  /\ Goto(p, "rsel")
  /\ nobuf /\ UNCHANGED <<endvars, uio, curproc, selecting>>

pipeselwakeup(cond) ==
  IF cond /\ "SEL" \in pipe_state
    THEN Flag({}, {"SEL"}) /\ selecting' = {}
    ELSE UNCHANGED <<pipe_state, selecting>>

ReadSel(p) ==
  /\ At(p, "rsel") /\ pipeselwakeup(size - cnt >= PIPE_BUF)
  /\ Goto(p, "return")
  /\ nobuf /\ UNCHANGED <<pipe_busy, endvars, uio, asleep, curproc>>

read(p) ==
  \/ pipe_read(p) \/ ReadSome(p) \/ ReadCopied(p) \/ ReadFault(p) \/ ReadEnough(p)
  \/ ReadEmpty(p) \/ ReadWait(p) \/ ReadAgain(p) \/ ReadDone(p) \/ ReadOut(p)
  \/ ReadSel(p)

-----------------------------------------------------------------------------
(* "If it is advantageous to resize the pipe buffer, do so."  nbigpipe is  *)
(* shared: other pipes add to it and subtract from it at any time.         *)
resizes(n, others) ==
  n > PIPE_SIZE /\ nbigpipe + others < LIMITBIGPIPES /\ size <= PIPE_SIZE /\ cnt = 0

(* pipe_write(), unless the read end is gone (EPIPE at once): the call is  *)
(* counted, and a big write into an empty small buffer resizes it first.   *)
pipe_write(p) ==
  /\ curproc = NoProc /\ pc[p] = "idle" /\ writable
  /\ readable /\ "EOF" \notin pipe_state
  /\ pipe_busy' = pipe_busy + 1
  /\ \E n \in WriteSizes, others \in BigElsewhere :
       /\ uio' = [uio EXCEPT ![p] = [NoUio EXCEPT !.resid = n, !.orig = n]]
       /\ Goto(p, IF resizes(n, others) THEN "wbig" ELSE "wloop")
  /\ curproc' = p
  /\ nobuf /\ UNCHANGED <<pipe_state, endvars, asleep, selecting>>

(* Fault: the old buffer is not looked at. *)
pipespace_recount ==
  /\ buffer' = [i \in 0 .. BIG_PIPE_SIZE - 1 |-> NoProc]
  /\ in' = 0 /\ out' = 0 /\ cnt' = 0 /\ size' = BIG_PIPE_SIZE
  /\ nbigpipe' = nbigpipe + 1

(* pipespace(wpipe, BIG_PIPE_SIZE) and nbigpipe++; pipe_free_kmem() has    *)
(* uncounted the old buffer if that was a big one.                         *)
pipespace ==
  /\ buffer' = [i \in 0 .. BIG_PIPE_SIZE - 1 |-> NoProc]
  /\ in' = 0 /\ out' = 0 /\ cnt' = 0 /\ size' = BIG_PIPE_SIZE
  /\ nbigpipe' = IF size > PIPE_SIZE THEN nbigpipe ELSE nbigpipe + 1

WriteResize(p) ==
  /\ At(p, "wresize")
  /\ \/ pipespace /\ sent' = <<>> /\ dropped' = (dropped \/ cnt > 0)
     \/ UNCHANGED <<buffer, in, out, cnt, size, nbigpipe, sent, dropped>>
  /\ pipeunlock({}) /\ Goto(p, "wloop")
  /\ UNCHANGED <<pipe_busy, readable, writable, uio, curproc, selecting>>

(* The lock could not be had. *)
WriteError(p) ==
  /\ At(p, "werror") /\ pipe_busy' = pipe_busy - 1
  /\ WakeIf(pipe_busy' = 0, "WANT", {"WANTR"})
  /\ Goto(p, "return")
  /\ nobuf /\ UNCHANGED <<endvars, uio, curproc, selecting>>

(* Fault: small writes are split too. *)
space_any(p) == size - cnt

(* "Writes of size <= PIPE_BUF must be atomic." *)
space(p) ==
  IF size - cnt < uio[p].resid /\ uio[p].orig <= PIPE_BUF THEN 0 ELSE size - cnt

WriteEnough(p) ==
  /\ At(p, "wloop") /\ (uio[p].resid = 0 \/ "EOF" \in pipe_state)
  /\ Goto(p, "wout")
  /\ UNCHANGED <<pipevars, endvars, uio, asleep, curproc, selecting, sent>>

WriteSome(p) ==
  /\ At(p, "wloop") /\ uio[p].resid > 0 /\ "EOF" \notin pipe_state /\ space(p) > 0
  /\ uio' = [uio EXCEPT ![p].space = space(p)]
  /\ Goto(p, "wlock")
  /\ UNCHANGED <<pipevars, endvars, asleep, curproc, selecting, sent>>

(* Fault: the space found before the lock was had is used. *)
WriteLocked_stale(p) ==
  /\ At(p, "wlocked")
  /\ LET n == Min({uio[p].space, uio[p].resid})
     IN  uio' = [uio EXCEPT ![p].size = n, ![p].seg = Min({size - in, n})]
  /\ Goto(p, "wcopy") /\ curproc' = NoProc /\ UNCHANGED <<pipe_state, asleep>>
  /\ nobuf /\ UNCHANGED <<pipe_busy, endvars, selecting>>

(* With the lock: try again if the space has gone meanwhile; else copy the *)
(* part up to the end of the buffer first.                                 *)
WriteLocked(p) ==
  /\ At(p, "wlocked")
  /\ IF uio[p].space > size - cnt
       THEN /\ pipeunlock({}) /\ Goto(p, "wloop")
            /\ uio' = [uio EXCEPT ![p].space = 0] /\ UNCHANGED curproc
       ELSE /\ LET n == Min({uio[p].space, uio[p].resid})
               IN  uio' = [uio EXCEPT ![p].size = n, ![p].seg = Min({size - in, n})]
            /\ Goto(p, "wcopy") /\ curproc' = NoProc /\ UNCHANGED <<pipe_state, asleep>>
  /\ nobuf /\ UNCHANGED <<pipe_busy, endvars, selecting>>

(* buffer with n bytes of p from position at *)
stored(p, at, n) == [i \in DOMAIN buffer |-> IF i \in at .. at + n - 1 THEN p ELSE buffer[i]]

(* The first uiomove() is done, and the second if the buffer's end came in *)
(* between; then the pointers are moved.                                   *)
WriteCopied(p) ==
  /\ curproc = NoProc /\ pc[p] = "wcopy" /\ uio[p].seg < uio[p].size
  /\ buffer' = stored(p, in, uio[p].seg)
  /\ Goto(p, "wcopy2")
  /\ UNCHANGED <<in, out, cnt, size, pipe_state, pipe_busy, nbigpipe,
                 endvars, uio, asleep, curproc, selecting, sent>>

(* Fault: the rest of a transfer that wraps is not skipped. *)
advanced_wrong(n, seg) == IF in + n >= size THEN 0 ELSE in + n

advanced(n, seg) == IF in + n >= size THEN n - seg ELSE in + n

WriteCommit(p) ==
  LET n == uio[p].size seg == uio[p].seg IN
  /\ curproc = NoProc /\ curproc' = p
  /\ \/ pc[p] = "wcopy" /\ seg = n /\ buffer' = stored(p, in, n)
     \/ pc[p] = "wcopy2" /\ buffer' = stored(p, 0, n - seg)
  /\ in' = advanced(n, seg)
  /\ cnt' = cnt + n
  /\ sent' = sent \o [i \in 1 .. n |-> p]
  /\ uio' = [uio EXCEPT ![p] = [NoUio EXCEPT !.resid = uio[p].resid - n, !.orig = uio[p].orig]]
  /\ pipeunlock({}) /\ Goto(p, "wloop")
  /\ UNCHANGED <<out, size, pipe_busy, nbigpipe, endvars, selecting>>

WriteFault(p) ==
  /\ "EFAULT" \in Failures /\ curproc = NoProc /\ pc[p] \in {"wcopy", "wcopy2"}
  /\ curproc' = p /\ pipeunlock({}) /\ Goto(p, "wout")
  /\ nobuf /\ UNCHANGED <<pipe_busy, endvars, uio, selecting>>

(* No space: wake the readers, then give up, or tell select() and sleep. *)
WriteFull(p) ==
  /\ At(p, "wloop") /\ uio[p].resid > 0 /\ "EOF" \notin pipe_state /\ space(p) = 0
  /\ WakeIf(TRUE, "WANTR", {})
  /\ \/ "EAGAIN" \in Failures /\ Goto(p, "wout")
     \/ Goto(p, "wwait")
  /\ nobuf /\ UNCHANGED <<pipe_busy, endvars, uio, curproc, selecting>>

WriteWait(p) ==
  /\ At(p, "wwait")
  /\ Flag({"WANTW"}, {"SEL"}) /\ selecting' = {}
  /\ tsleep(p) /\ Goto(p, "wsleep")
  /\ nobuf /\ UNCHANGED <<pipe_busy, endvars, uio>>

WriteAgain(p) ==
  /\ At(p, "wsleep") /\ Goto(p, "wloop")
  /\ UNCHANGED <<pipevars, endvars, uio, asleep, curproc, selecting, sent>>

WriteOut(p) ==
  /\ At(p, "wout") /\ pipe_busy' = pipe_busy - 1
  /\ IF pipe_busy' = 0 /\ "WANT" \in pipe_state
       THEN WakeIf(TRUE, "WANT", {"WANTR"})
       ELSE WakeIf(cnt > 0, "WANTR", {})
  /\ Goto(p, "wsel")
  /\ nobuf /\ UNCHANGED <<endvars, uio, curproc, selecting>>

WriteSel(p) ==
  /\ At(p, "wsel") /\ pipeselwakeup(cnt > 0)
  /\ Goto(p, "return")
  /\ nobuf /\ UNCHANGED <<pipe_busy, endvars, uio, asleep, curproc>>

write(p) ==
  \/ pipe_write(p) \/ WriteResize(p) \/ WriteError(p) \/ WriteEnough(p) \/ WriteSome(p)
  \/ WriteLocked(p) \/ WriteCopied(p) \/ WriteCommit(p) \/ WriteFault(p)
  \/ WriteFull(p) \/ WriteWait(p) \/ WriteAgain(p) \/ WriteOut(p) \/ WriteSel(p)

-----------------------------------------------------------------------------
(* pipe_poll() for one event: record the process if it has to wait. *)
ready(e) ==
  \/ "EOF" \in pipe_state
  \/ e = "in" /\ cnt > 0
  \/ e = "out" /\ size - cnt >= PIPE_BUF

pipe_poll(e) ==
  /\ curproc = NoProc /\ readable
  /\ e = "out" => writable
  /\ ~ready(e) /\ e \notin selecting
  /\ selecting' = selecting \cup {e} /\ Flag({"SEL"}, {})
  /\ UNCHANGED <<buffer, in, out, cnt, size, pipe_busy, nbigpipe, sent,
                 endvars, pc, uio, asleep, curproc>>

(* pipeclose() of the read end: tell everybody, wait until the pipe is not *)
(* busy, disconnect it from its peer and free it.                          *)
pipeclose ==
  /\ curproc = NoProc /\ pc[Closer] = "idle" /\ readable
  /\ \A p \in Readers : pc[p] = "idle"
  /\ Flag({"EOF"}, {"SEL"}) /\ selecting' = {}
  /\ Goto(Closer, "closing") /\ curproc' = Closer
  /\ nobuf /\ UNCHANGED <<pipe_busy, endvars, uio, asleep>>

CloseWait ==
  /\ At(Closer, "closing") /\ pipe_busy > 0
  /\ asleep' = {Closer} /\ curproc' = NoProc /\ Flag({"WANT"}, {})
  /\ nobuf /\ UNCHANGED <<pipe_busy, endvars, pc, uio, selecting>>

(* Fault: the busy count is tested once. *)
CloseFree_once ==
  /\ At(Closer, "closing") /\ (pipe_busy = 0 \/ "WANT" \in pipe_state)
  /\ readable' = FALSE /\ Goto(Closer, "idle") /\ curproc' = NoProc
  /\ nbigpipe' = IF size > PIPE_SIZE THEN nbigpipe - 1 ELSE nbigpipe
  /\ UNCHANGED <<buffer, in, out, cnt, size, pipe_state, pipe_busy, sent,
                 writable, dropped, uio, asleep, selecting>>

CloseFree ==
  /\ At(Closer, "closing") /\ pipe_busy = 0
  /\ readable' = FALSE /\ Goto(Closer, "idle") /\ curproc' = NoProc
  /\ nbigpipe' = IF size > PIPE_SIZE THEN nbigpipe - 1 ELSE nbigpipe
  /\ UNCHANGED <<buffer, in, out, cnt, size, pipe_state, pipe_busy, sent,
                 writable, dropped, uio, asleep, selecting>>

(* pipeclose() of the write end, which nobody writes to: its peer, if it   *)
(* still has one, is at end of file.                                       *)
ClosePeer ==
  /\ curproc = NoProc /\ writable /\ \A p \in Writers : pc[p] = "idle"
  /\ writable' = FALSE
  /\ IF readable THEN Flag({"EOF"}, {"SEL"}) /\ wakeup /\ selecting' = {}
                 ELSE UNCHANGED <<pipe_state, asleep, selecting>>
  /\ nobuf /\ UNCHANGED <<pipe_busy, readable, dropped, pc, uio, curproc>>

Step(p) ==
  \/ Resume(p) \/ pipelock(p) \/ Return(p)
  \/ p \in Readers /\ read(p)
  \/ p \in Writers /\ write(p)
  \/ p = Closer /\ (CloseWait \/ CloseFree)

Next ==
  \/ \E p \in Procs : Step(p) \/ Interrupt(p)
  \/ pipeclose \/ ClosePeer
  \/ \E e \in {"in", "out"} : pipe_poll(e)

Spec == Init /\ [][Next]_vars

-----------------------------------------------------------------------------
Inside == {p \in Procs : pc[p] # "idle"}
InRead == {"rloop", "rcopy", "rwait", "rsleep", "rlock", "rdone", "rout"}
InWrite == {"wbig", "wresize", "werror", "wloop", "wlock", "wlocked", "wcopy",
            "wcopy2", "wwait", "wsleep", "wout"}

(* Somebody in the pipe code is not asleep, and will go on. *)
SomebodyActive == Inside \ asleep # {}

(* PIPE_LOCK is held by exactly the one process that is between pipelock() *)
(* and pipeunlock(), also while that process is blocked in uiomove();      *)
(* pipe_busy counts the calls in progress, and a pipe is freed only when   *)
(* there are none.                                                         *)
LockAndBusy ==
  LET holders == {p \in Procs : pc[p] \in {"rloop", "rcopy", "rwait", "rdone", "wresize",
                                           "wlocked", "wcopy", "wcopy2"}}
  IN  /\ Cardinality(holders) = (IF "LOCK" \in pipe_state THEN 1 ELSE 0)
      /\ pipe_busy = Cardinality({p \in Procs : pc[p] \in InRead \cup InWrite})
      /\ ~readable => \A p \in Procs : pc[p] \notin InRead \cup InWrite \cup {"rlock0"}

(* The circular buffer holds what was written, since it was allocated, and *)
(* not yet read, in order, whatever wraps around the end and whoever       *)
(* blocks in uiomove().                                                    *)
BufferIsFifo ==
  readable => sent = [i \in 1 .. cnt |-> buffer[(out + i - 1) % size]]

(* pipespace() "will 'realloc' the size of a pipe safely": nothing is in   *)
(* the buffer that it replaces.                                            *)
ResizeDropsNothing == ~dropped

(* nbigpipe counts each pipe with a big buffer once and no other: also one *)
(* that two writers have resized, and not one whose pipe is freed, so that *)
(* the count comes back to 0.  (LIMITBIGPIPES bounds it only roughly: the  *)
(* test is made before pipelock() may sleep.)                              *)
BigPipesCounted == nbigpipe = IF readable /\ size > PIPE_SIZE THEN 1 ELSE 0

(* "Writes of size <= PIPE_BUF must be atomic": one transfer takes all. *)
SmallWritesAtomic ==
  \A p \in Writers :
    pc[p] \in {"wcopy", "wcopy2"} /\ uio[p].orig <= PIPE_BUF => uio[p].size = uio[p].orig

(* While nobody is active in the pipe, no reader sleeps on data or end of  *)
(* file, no writer on a drained buffer or on a pipe without a reader, and  *)
(* no reader and writer wait for each other; nor does select() wait for an *)
(* event that is there; unless what a writer waits behind was dropped.     *)
(* And a close of the read end never waits for calls that all sleep.       *)
NoStandoff ==
  ~SomebodyActive => Closer \notin asleep /\ (~dropped =>
    /\ (\E p \in Readers : p \in asleep) => cnt = 0 /\ "EOF" \notin pipe_state
    /\ (\E p \in Writers : p \in asleep) => cnt >= Max({MINPIPESIZE, 1}) /\ "EOF" \notin pipe_state
    /\ \A e \in selecting : ~ready(e))
=============================================================================
