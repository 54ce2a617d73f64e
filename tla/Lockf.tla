-------------------------------- MODULE Lockf --------------------------------
(***************************************************************************)
(* Advisory locks: the byte-range locks of one file in kern/vfs_lockf.c,   *)
(* and the fcntl(), flock(), open() and close() of kern/kern_descrip.c     *)
(* that take and release them.                                             *)
(*                                                                         *)
(* All of it runs under the kernel lock, which a process gives up in the   *)
(* tsleep() of lf_setlock() and of closef(), and when pool_get() waits for *)
(* memory.  It may wait in lf_split(), which has looked at the list by     *)
(* then.  That lf_alloc() waits at the start of lf_advlock(), where only   *)
(* the user's count has been looked at, is left out: it is the same call   *)
(* made later.  One descriptor of each table refers to the file; sockets,  *)
(* pipes and other files have no such locks.  A lock's waiters are all     *)
(* woken together, so lf_blkhd is a set.                                   *)
(***************************************************************************)
EXTENDS Integers, FiniteSets, SequencesExt

CONSTANTS
  Procs,           \* threads
  Filedescs,       \* descriptor tables, which own the POSIX locks
  p_fd,            \* the table of each thread
  Files,           \* struct files, which own the flock() locks
  NULL,
  LastByte,        \* the bytes of the file are 0 .. LastByte and those after
  Ranges,          \* the ranges that each thread calls fcntl() with
  FlockTypes,      \* the types that flock() is called with
  Limits           \* the values that maxlocksperuid may have

EOF == -1          \* as lf_end: up to the end of the file
Bytes == 0 .. LastByte + 1
Types == {"RDLCK", "WRLCK"}
Whole == [start |-> 0, end |-> EOF]

ASSUME LockfAssumption ==
  /\ p_fd \in [Procs -> Filedescs] /\ FlockTypes \subseteq Types
  /\ NULL \notin Files \cup Filedescs /\ Files \cap Filedescs = {}
  /\ LastByte \in Nat /\ Limits \subseteq Nat
  /\ Ranges \in [Procs -> SUBSET [start : 0 .. LastByte, end : 0 .. LastByte \cup {EOF}]]
  /\ \A p \in Procs : \A r \in Ranges[p] : r.end = EOF \/ r.start <= r.end

VARIABLES
  lockf,           \* the list of locks at the inode, in its order
  maxlocksperuid,  \* the one user's limit, which does not change
  ui_lockcnt,      \* the lockf structures charged to the user
  proc,            \* where each thread is, and its lf_setlock() request
  fd_ofiles,       \* the file of each table's descriptor
  FHASLOCK,        \* the files with this bit of f_flag
  held,            \* history: for each owner and byte, what it was granted
  cutoff,          \* history: an unlock was refused for want of memory
  torn             \* the lock that lf_split() waits to split is not what it was

vars == <<lockf, maxlocksperuid, ui_lockcnt, proc, fd_ofiles, FHASLOCK, held, cutoff, torn>>

Owners == Filedescs \cup Files

(* A struct lockf; lf_next of a request is in the request's proc entry.    *)
(* overtaken is history: when lf_split() linked it after waiting for       *)
(* memory, somebody else had been granted what conflicts with it.          *)
Lock ==
  [id : Owners, type : Types, start : 0 .. LastByte + 1, end : 0 .. LastByte \cup {EOF},
   posix : BOOLEAN, blkhd : SUBSET Procs, overtaken : BOOLEAN]

(* A thread waits for memory, in lf_split(), at "split" on behalf of       *)
(* lf_setlock() and at "unsplit" on behalf of lf_clearlock().  linked:     *)
(* lf_next of the request is not NULL.  left is history: an lf_split()     *)
(* that waited took the lock out of the way of this request, after         *)
(* lf_clearlock() had woken that lock's waiters.                           *)
Thread ==
  [pc : {"user", "sleep", "split", "unsplit", "closef"}, fp : Files \cup {NULL},
   lock : Lock \cup {NULL}, linked : BOOLEAN, left : BOOLEAN]

user == [pc |-> "user", fp |-> NULL, lock |-> NULL, linked |-> FALSE, left |-> FALSE]

request(id, type, range, posix) ==
  [id |-> id, type |-> type, start |-> range.start, end |-> range.end,
   posix |-> posix, blkhd |-> {}, overtaken |-> FALSE]

TypeOK ==
  /\ lockf \in Seq(Lock)
  /\ maxlocksperuid \in Limits /\ ui_lockcnt \in Nat
  /\ proc \in [Procs -> Thread]
  /\ fd_ofiles \in [Filedescs -> Files \cup {NULL}]
  /\ FHASLOCK \subseteq Files
  /\ held \in [Owners -> [Bytes -> Types \cup {"UNLCK"}]]
  /\ cutoff \in BOOLEAN /\ torn \in BOOLEAN

(* A file that is open in each table, or the same file, after a fork(). *)
Init ==
  /\ lockf = <<>> /\ ui_lockcnt = 0 /\ maxlocksperuid \in Limits
  /\ proc = [p \in Procs |-> user]
  /\ fd_ofiles \in [Filedescs -> Files]
  /\ FHASLOCK = {}
  /\ held = [o \in Owners |-> [b \in Bytes |-> "UNLCK"]]
  /\ cutoff = FALSE /\ torn = FALSE

-----------------------------------------------------------------------------
covers(lf, b) == lf.start <= b /\ (lf.end = EOF \/ b <= lf.end)

(* The cases of lf_findoverlap(), in its order. *)
no_overlap(lf, lock) ==
  (lf.end # EOF /\ lock.start > lf.end) \/ (lock.end # EOF /\ lf.start > lock.end)

(* Fault: a lock up to the end of the file is not seen to contain others. *)
case_eof(lf, lock) ==
  LET start == lock.start  end == lock.end IN
  IF no_overlap(lf, lock) THEN 0
  ELSE IF lf.start = start /\ lf.end = end THEN 1
  ELSE IF lf.start <= start /\ end # EOF /\ lf.end >= end THEN 2
  ELSE IF start <= lf.start /\ (end = EOF \/ (lf.end # EOF /\ end >= lf.end)) THEN 3
  ELSE IF lf.start < start THEN 4 ELSE 5

ovcase(lf, lock) ==
  LET start == lock.start  end == lock.end IN
  IF no_overlap(lf, lock) THEN 0
  ELSE IF lf.start = start /\ lf.end = end THEN 1
  ELSE IF lf.start <= start /\ (lf.end = EOF \/ (end # EOF /\ lf.end >= end)) THEN 2
  ELSE IF start <= lf.start /\ (end = EOF \/ (lf.end # EOF /\ end >= lf.end)) THEN 3
  ELSE IF lf.start < start THEN 4 ELSE 5

(* lf_findoverlap(SELF) from the i-th lock on: the first own lock that     *)
(* overlaps or starts after the request, or the end of the list.           *)
findself(list, i, lock) ==
  Min({j \in i .. Len(list) :
         /\ list[j].id = lock.id
         /\ ovcase(list[j], lock) # 0 \/ (lock.end # EOF /\ list[j].start > lock.end)}
      \cup {Len(list) + 1})

caseat(list, j, lock) == IF j > Len(list) THEN 0 ELSE ovcase(list[j], lock)

(* Fault: readers are not seen to conflict with a writer that comes. *)
lf_getblock_writers(list, lock) ==
  Min({j \in DOMAIN list :
         /\ list[j].id # lock.id /\ ovcase(list[j], lock) # 0
         /\ list[j].type = "WRLCK"} \cup {Len(list) + 1})

(* The first lock that blocks a request, or one past the end. *)
lf_getblock(list, lock) ==
  Min({j \in DOMAIN list :
         /\ list[j].id # lock.id /\ ovcase(list[j], lock) # 0
         /\ "WRLCK" \in {lock.type, list[j].type}} \cup {Len(list) + 1})

-----------------------------------------------------------------------------
(* What a call has made of the lists so far.  woken are the requests taken *)
(* off their blocked lists by lf_wakelock(), left those that stay on one.  *)
Now == [list |-> lockf, cnt |-> ui_lockcnt, woken |-> {}, left |-> {}, held |-> held,
        cutoff |-> cutoff]

lf_alloc(s) == [s EXCEPT !.cnt = @ + 1]
lf_free(s) == [s EXCEPT !.cnt = @ - 1]

lf_wakelock(s, j) ==
  [s EXCEPT !.woken = @ \cup s.list[j].blkhd, !.list[j].blkhd = {}]

insert(s, j, lock) == [s EXCEPT !.list = InsertAt(@, j, lock)]

(* Fault: a lock that goes is freed twice. *)
delete_twice(s, j) == lf_free(lf_free([s EXCEPT !.list = RemoveAt(@, j)]))

delete(s, j) == lf_free([s EXCEPT !.list = RemoveAt(@, j)])

(* The pieces of list[j] before and after a lock that it contains. *)
head(s, j, lock) == [s EXCEPT !.list[j].end = lock.start - 1]
tail(s, j, lock) == [s EXCEPT !.list[j].start = lock.end + 1]

(* lf_split() around a hole; list[j] is cut and the last part follows it. *)
split(s, j, lock) ==
  LET lock1 == s.list[j] IN
  IF lock1.start = lock.start THEN tail(s, j, lock)
  ELSE IF lock1.end = lock.end THEN head(s, j, lock)
  ELSE insert(lf_alloc(head(s, j, lock)), j + 1,
              [lock1 EXCEPT !.start = lock.end + 1, !.blkhd = {}])

(* Whether lf_split() makes three parts, for which it needs memory. *)
splits(list, lock) ==
  LET j == findself(list, 1, lock)
  IN  caseat(list, j, lock) = 2 /\ list[j].start # lock.start /\ list[j].end # lock.end

(* lf_split() with the lock itself between the parts. *)
lf_split(s, j, lock) == insert(split(s, j, lock), j + 1, lock)

downgrade(lock, overlap) == lock.type = "RDLCK" /\ overlap.type = "WRLCK"

(* Fault: the waiters of a lock that is swallowed go with it. *)
take_list_none(s, j, lock) ==
  IF downgrade(lock, s.list[j]) THEN [s |-> lf_wakelock(s, j), blkhd |-> {}]
  ELSE [s |-> s, blkhd |-> {}]

(* Case 3: the waiters are woken or taken over. *)
take_list(s, j, lock) ==
  IF downgrade(lock, s.list[j]) THEN [s |-> lf_wakelock(s, j), blkhd |-> {}]
  ELSE [s |-> s, blkhd |-> s.list[j].blkhd]

(* Fault: the request is not freed when the lock is already there. *)
same_leak(s, j, lock) ==
  [(IF downgrade(lock, s.list[j]) THEN lf_wakelock(s, j) ELSE s)
     EXCEPT !.list[j].type = lock.type]

(* Case 1: overlap == lock. *)
same(s, j, lock) ==
  lf_free([(IF downgrade(lock, s.list[j]) THEN lf_wakelock(s, j) ELSE s)
             EXCEPT !.list[j].type = lock.type, !.list[j].overtaken = FALSE])

(* Case 2: overlap contains lock. *)
inside(s, j, lock) ==
  LET w == lf_wakelock(s, j) IN
  IF s.list[j].type = lock.type THEN lf_free(s)
  ELSE IF s.list[j].start = lock.start THEN insert(tail(w, j, lock), j, lock)
  ELSE lf_split(w, j, lock)

RECURSIVE link(_, _, _, _)
(* The loop of lf_setlock() that links a request no lock blocks; k is      *)
(* where it was linked, or 0 (needtolink).                                 *)
link(s, i, lock, k) ==
  LET j == findself(s.list, i, lock)
      t == take_list(s, j, lock)
      w == lf_wakelock(s, j)
  IN  CASE caseat(s.list, j, lock) = 0 -> IF k = 0 THEN insert(s, j, lock) ELSE s
        [] caseat(s.list, j, lock) = 1 -> same(s, j, lock)
        [] caseat(s.list, j, lock) = 2 -> inside(s, j, lock)
        [] caseat(s.list, j, lock) = 3 ->
             IF k = 0
             THEN link([lf_free(t.s) EXCEPT !.list[j] = [lock EXCEPT !.blkhd = t.blkhd]],
                       j + 1, lock, j)
             ELSE link([delete(t.s, j) EXCEPT !.list[k].blkhd = @ \cup t.blkhd], j, lock, k)
        [] caseat(s.list, j, lock) = 4 ->
             link(insert(head(w, j, lock), j + 1, lock), j + 2, lock, j + 1)
        [] caseat(s.list, j, lock) = 5 ->
             IF k = 0 THEN insert(tail(w, j, lock), j, lock) ELSE tail(w, j, lock)

RECURSIVE clear(_, _, _)
(* The loop of lf_clearlock(). *)
clear(s, i, lock) ==
  LET j == findself(s.list, i, lock)
      w == lf_wakelock(s, j)
  IN  CASE caseat(s.list, j, lock) = 0 -> s
        [] caseat(s.list, j, lock) = 1 -> delete(w, j)
        [] caseat(s.list, j, lock) = 2 -> split(w, j, lock)
        [] caseat(s.list, j, lock) = 3 -> clear(delete(w, j), j, lock)
        [] caseat(s.list, j, lock) = 4 -> clear(head(w, j, lock), j + 1, lock)
        [] caseat(s.list, j, lock) = 5 -> tail(w, j, lock)

(* The history of a call: lock's range is now held as type. *)
record(s, lock, type) ==
  [s EXCEPT !.held[lock.id] = [b \in Bytes |-> IF covers(lock, b) THEN type ELSE @[b]]]

lf_clearlock(s, lock) == record(clear(s, 1, lock), lock, "UNLCK")

(* lf_advlock(F_UNLCK) *)
unlock(s, id, range, posix) ==
  IF s.list = <<>> THEN s
  ELSE IF s.cnt > 2 * maxlocksperuid                             \* ENOLCK
       THEN [s EXCEPT !.cutoff = @ \/ \E b \in Bytes : s.held[id][b] # "UNLCK"]
  ELSE lf_free(lf_clearlock(lf_alloc(s), request(id, "RDLCK", range, posix)))

-----------------------------------------------------------------------------
(* The deadlock check of lf_setlock().  lf_id is cast to a struct proc and *)
(* its p_wmesg compared with this function's; but a POSIX lock's lf_id is  *)
(* the struct filedesc that sys_fcntl() passes, and what is read there,    *)
(* the address of a struct file or NULL, is never that of lockstr.         *)
asleep_in_lockf(wproc) == wproc \in Procs /\ proc[wproc].pc = "sleep"

blocker(list, p) == list[CHOOSE j \in DOMAIN list : p \in list[j].blkhd]

RECURSIVE wait_cycle(_, _, _, _)
wait_cycle(list, wproc, id, depth) ==
  /\ asleep_in_lockf(wproc) /\ depth > 0
  /\ LET waitblock == blocker(list, wproc)
     IN  waitblock.posix /\ (waitblock.id = id \/ wait_cycle(list, waitblock.id, id, depth - 1))

EDEADLK(list, lock, block) ==
  lock.posix /\ block.posix /\ wait_cycle(list, block.id, lock.id, Cardinality(Procs))

(* Fault: a shared flock() is kept while waiting for an exclusive one. *)
drop_shared_kept(s, lock) == s

(* "For flock type locks, we must first remove any shared locks that we    *)
(* hold before we sleep waiting for an exclusive lock."                    *)
drop_shared(s, lock) ==
  IF ~lock.posix /\ lock.type = "WRLCK" THEN lf_clearlock(s, lock) ELSE s

(* The lock that a waiting lf_split() has a pointer to, and whether it is  *)
(* on a list as it was.                                                    *)
lock1(q) == lockf[findself(lockf, 1, proc[q].lock)]
intact(list, lf) ==
  \E j \in DOMAIN list : /\ list[j].id = lf.id /\ list[j].type = lf.type
                         /\ list[j].start = lf.start /\ list[j].end = lf.end

(* The end of a call, or its sleep: the lists, and the threads woken. *)
Commit(call, p, thread) ==
  \E s \in {call} :
    /\ lockf' = s.list /\ ui_lockcnt' = s.cnt /\ held' = s.held /\ cutoff' = s.cutoff
    /\ proc' = [q \in Procs |->
                  IF q = p THEN thread
                  ELSE IF q \in s.woken THEN [proc[q] EXCEPT !.linked = FALSE, !.left = FALSE]
                  ELSE [proc[q] EXCEPT !.left = @ \/ q \in s.left]]
    /\ torn' = \E q \in Procs \ {p} :
                 proc[q].pc \in {"split", "unsplit"} /\ ~intact(s.list, lock1(q))

(* Fault: the descriptor is not looked at again. *)
fcntl_return_blind(s, p, fp, posix) == s

(* Back in sys_fcntl(): "We have lost the race with close() or dup2()". *)
fcntl_return(s, p, fp, posix) ==
  IF posix /\ fp # fd_ofiles[p_fd[p]] THEN unlock(s, p_fd[p], Whole, TRUE) ELSE s

Return(s, p, fp, lock) == Commit(fcntl_return(s, p, fp, lock.posix), p, user)

granted(s, lock) == record(link(s, 1, lock, 0), lock, lock.type)

sleeping(where, fp, lock) == [user EXCEPT !.pc = where, !.fp = fp, !.lock = lock]

(* The loop of lf_setlock(), from its top to a return or to a sleep;       *)
(* F_WAIT holds the values that this flag of the request may have.         *)
lf_setlock(s, p, fp, lock, F_WAIT) ==
  LET j == lf_getblock(s.list, lock)
      deadlock == EDEADLK(s.list, lock, s.list[j])
      d == drop_shared(s, lock)
  IN  IF j > Len(s.list)
      THEN \/ Return(granted(s, lock), p, fp, lock)
           \/ /\ splits(s.list, lock) /\ s.list[findself(s.list, 1, lock)].type # lock.type
              /\ Commit(lf_alloc(s), p, sleeping("split", fp, lock))
      ELSE \E wait \in F_WAIT :
             IF ~wait \/ deadlock
             THEN Return(lf_free(s), p, fp, lock)             \* EAGAIN, EDEADLK
             ELSE Commit([d EXCEPT !.list[lf_getblock(d.list, lock)].blkhd = @ \cup {p}], p,
                         [sleeping("sleep", fp, lock) EXCEPT !.linked = TRUE])

(* lf_advlock(F_SETLK) *)
setlk(p, id, type, range, posix) ==
  IF ui_lockcnt > maxlocksperuid THEN Commit(Now, p, user)       \* ENOLCK
  ELSE lf_setlock(lf_alloc(Now), p, fd_ofiles[p_fd[p]], request(id, type, range, posix), BOOLEAN)

CanCall(p) == proc[p].pc = "user" /\ fd_ofiles[p_fd[p]] # NULL

(* fcntl(F_SETLK) and fcntl(F_SETLKW) *)
fcntl_setlk(p, type, range) ==
  /\ CanCall(p)
  /\ setlk(p, p_fd[p], type, range, TRUE)
  /\ UNCHANGED <<fd_ofiles, FHASLOCK>>

(* fcntl(F_SETLK) of F_UNLCK.  When it is to make a hole in a lock, it     *)
(* wakes that lock's waiters and may then wait for memory.                 *)
fcntl_unlck(p, range) ==
  LET lock == request(p_fd[p], "RDLCK", range, TRUE) IN
  /\ CanCall(p)
  /\ \/ Commit(unlock(Now, p_fd[p], range, TRUE), p, user)
     \/ /\ splits(lockf, lock) /\ ui_lockcnt <= 2 * maxlocksperuid
        /\ Commit(lf_wakelock(lf_alloc(lf_alloc(Now)), findself(lockf, 1, lock)), p,
                  sleeping("unsplit", fd_ofiles[p_fd[p]], lock))
  /\ UNCHANGED <<fd_ofiles, FHASLOCK>>

(* pool_get() returns in lf_split(), with the structure charged before it  *)
(* waited: the lock is linked.  Its conflicts are not looked for again.    *)
SplitLock(p) ==
  LET lock == [proc[p].lock EXCEPT
                 !.overtaken = lf_getblock(lockf, proc[p].lock) <= Len(lockf)] IN
  /\ proc[p].pc = "split"
  /\ Return(granted(lf_free(Now), lock), p, proc[p].fp, lock)
  /\ UNCHANGED <<fd_ofiles, FHASLOCK>>

(* The same for an unlock.  The waiters are not woken again.               *)
SplitUnlock(p) ==
  LET lock == proc[p].lock
      left == {q \in lock1(p).blkhd :
                 no_overlap([lock1(p) EXCEPT !.end = lock.start - 1], proc[q].lock)}
      s == record(split(lf_free(Now), findself(lockf, 1, lock), lock), lock, "UNLCK")
  IN  /\ proc[p].pc = "unsplit"
      /\ Commit(lf_free([s EXCEPT !.left = left]), p, user)
      /\ UNCHANGED <<fd_ofiles, FHASLOCK>>

sys_flock(p, type) ==
  /\ CanCall(p)
  /\ FHASLOCK' = FHASLOCK \cup {fd_ofiles[p_fd[p]]}
  /\ setlk(p, fd_ofiles[p_fd[p]], type, Whole, FALSE)
  /\ UNCHANGED fd_ofiles

flock_un(p) ==
  /\ CanCall(p)
  /\ FHASLOCK' = FHASLOCK \ {fd_ofiles[p_fd[p]]}
  /\ Commit(unlock(Now, fd_ofiles[p_fd[p]], Whole, FALSE), p, user)
  /\ UNCHANGED fd_ofiles

(* tsleep() returns 0: the request is off its list and tries again. *)
Woken(p) ==
  /\ proc[p].pc = "sleep" /\ ~proc[p].linked
  /\ lf_setlock(Now, p, proc[p].fp, proc[p].lock, {TRUE})
  /\ UNCHANGED <<fd_ofiles, FHASLOCK>>

(* "if (lock->lf_next != NULL)": off the blocked list. *)
unlinked(list, p) == [j \in DOMAIN list |-> [list[j] EXCEPT !.blkhd = @ \ {p}]]

(* tsleep() returns EINTR or ERESTART for a signal, woken or not. *)
Interrupted(p) ==
  /\ proc[p].pc = "sleep"
  /\ Return(lf_free([Now EXCEPT !.list = unlinked(@, p)]), p, proc[p].fp, proc[p].lock)
  /\ UNCHANGED <<fd_ofiles, FHASLOCK>>

-----------------------------------------------------------------------------
f_count(fp) == Cardinality({d \in Filedescs : fd_ofiles[d] = fp})
in_use(fp) == \E p \in Procs : proc[p].fp = fp
fdplocked(fdp) == \E p \in Procs : p_fd[p] = fdp /\ proc[p].pc = "closef"

(* closef() from the unlock of POSIX locks on; then vn_closefile(). *)
posix_unlock(s, p) == unlock(s, p_fd[p], Whole, TRUE)
closef_last(s, p, fp) ==
  LET u == posix_unlock(s, p)
  IN  IF fp \in FHASLOCK THEN unlock(u, fp, Whole, FALSE) ELSE u

(* close(): the descriptor goes first.  The last reference waits until     *)
(* nobody uses the file any more.                                          *)
sys_close(p) ==
  LET fdp == p_fd[p]  fp == fd_ofiles[p_fd[p]] IN
  /\ CanCall(p) /\ ~fdplocked(fdp)
  /\ fd_ofiles' = [fd_ofiles EXCEPT ![fdp] = NULL]
  /\ IF f_count(fp) > 1 THEN Commit(posix_unlock(Now, p), p, user) /\ UNCHANGED FHASLOCK
     ELSE IF in_use(fp) THEN Commit(Now, p, [user EXCEPT !.pc = "closef", !.fp = fp]) /\ UNCHANGED FHASLOCK
     ELSE Commit(closef_last(Now, p, fp), p, user) /\ FHASLOCK' = FHASLOCK \ {fp}

(* closef() goes on after the last FRELE(). *)
Drained(p) ==
  /\ proc[p].pc = "closef" /\ \A q \in Procs \ {p} : proc[q].fp # proc[p].fp
  /\ Commit(closef_last(Now, p, proc[p].fp), p, user)
  /\ FHASLOCK' = FHASLOCK \ {proc[p].fp}
  /\ UNCHANGED fd_ofiles

(* open() of the file again, with a struct file that is free, and without *)
(* O_SHLOCK or O_EXLOCK.                                                   *)
sys_open(p, fp) ==
  /\ proc[p].pc = "user" /\ fd_ofiles[p_fd[p]] = NULL /\ ~fdplocked(p_fd[p])
  /\ f_count(fp) = 0 /\ ~in_use(fp)
  /\ fd_ofiles' = [fd_ofiles EXCEPT ![p_fd[p]] = fp]
  /\ UNCHANGED <<lockf, ui_lockcnt, proc, FHASLOCK, held, cutoff, torn>>

Step(p) ==
  \/ \E range \in Ranges[p] :
       \/ \E type \in Types : fcntl_setlk(p, type, range)
       \/ fcntl_unlck(p, range)
  \/ \E type \in FlockTypes : sys_flock(p, type)
  \/ flock_un(p)
  \/ Woken(p) \/ Interrupted(p) \/ SplitLock(p) \/ SplitUnlock(p)
  \/ sys_close(p) \/ Drained(p)
  \/ \E fp \in Files : sys_open(p, fp)

(* When a thread has freed or changed the lock that another thread of its  *)
(* process is splitting, what follows depends on what the memory then      *)
(* holds: nothing is said of it.                                           *)
Next ==
  \/ ~torn /\ UNCHANGED maxlocksperuid /\ \E p \in Procs : Step(p)
  \/ torn /\ UNCHANGED vars

Spec == Init /\ [][Next]_vars
-----------------------------------------------------------------------------
(* Byte for byte the list says what each owner asked for last, whatever    *)
(* was split, shrunk, merged or swallowed on the way; and an owner's locks *)
(* are in the order of their starts, on which lf_findoverlap() relies when *)
(* it stops early.                                                         *)
LocksMatchRequests ==
  /\ \A o \in Owners, b \in Bytes :
       LET here == {j \in DOMAIN lockf : lockf[j].id = o /\ covers(lockf[j], b)} IN
       IF held[o][b] = "UNLCK" THEN here = {}
       ELSE \E j \in here : here = {j} /\ lockf[j].type = held[o][b]
  /\ \A i, j \in DOMAIN lockf :
       i < j /\ lockf[i].id = lockf[j].id => lockf[i].start < lockf[j].start

(* No byte has a writer and another owner at the same time, between POSIX  *)
(* locks, flock() locks and one of each; with one exception.  A write lock *)
(* that lf_split() linked after it had waited for memory may have been     *)
(* overtaken by read locks, and by nothing else.                           *)
Exclusion ==
  \A i, j \in DOMAIN lockf :
    lockf[i].id # lockf[j].id /\ ~no_overlap(lockf[i], lockf[j]) =>
      \/ lockf[i].type = "RDLCK" /\ lockf[j].type = "RDLCK"
      \/ lockf[i].type = "RDLCK" /\ lockf[j].overtaken
      \/ lockf[j].type = "RDLCK" /\ lockf[i].overtaken

(* Nobody waits for a lock that is gone or no longer in the way: a request *)
(* that sleeps is on the blocked list of one lock that is still linked and *)
(* still conflicts with it, and lists hold nobody else; except that a      *)
(* request that joined the list while an unlock waited for memory in       *)
(* lf_split() may be left there.  A request on no list has been woken.     *)
WaitersBlocked ==
  \A p \in Procs :
    LET on == {j \in DOMAIN lockf : p \in lockf[j].blkhd} IN
    IF proc[p].linked
    THEN \E j \in on :
           /\ on = {j} /\ lockf[j].id # proc[p].lock.id
           /\ \/ /\ ~no_overlap(lockf[j], proc[p].lock)
                 /\ "WRLCK" \in {lockf[j].type, proc[p].lock.type}
              \/ proc[p].left
    ELSE on = {}

(* Every lockf structure is charged and no other: those on the list, those *)
(* of sleeping requests, and the one that lf_split() waits for.  One that  *)
(* leaks counts against the user's limit for good.                         *)
EveryLockCharged ==
  ui_lockcnt = Len(lockf) + Cardinality({p \in Procs : proc[p].pc = "sleep"})
                 + 2 * Cardinality({p \in Procs : proc[p].pc \in {"split", "unsplit"}})

(* "POSIX record locking dictates that any close releases ALL locks owned  *)
(* by this process": also those that another thread was waiting for when   *)
(* the descriptor went; unless lf_alloc() refused the unlock.              *)
CloseReleases ==
  ~cutoff =>
    \A fdp \in Filedescs :
      fd_ofiles[fdp] = NULL /\ ~fdplocked(fdp) => \A j \in DOMAIN lockf : lockf[j].id # fdp

(* Some owners each sleep for a lock of another of them; all their locks   *)
(* are POSIX locks, or none is.                                            *)
Cycle(posix) ==
  \E S \in SUBSET {proc[p].lock.id : p \in {q \in Procs : proc[q].linked}} :
    /\ S # {}
    /\ \A o \in S :
         \E p \in Procs :
           /\ proc[p].linked /\ proc[p].lock.id = o /\ proc[p].lock.posix = posix
           /\ blocker(lockf, p).id \in S /\ blocker(lockf, p).posix = posix

(* "Since flock style locks cover the whole file, there is no chance for   *)
(* deadlock": no cycle of flock() owners, each asleep for a lock of the    *)
(* next, even when threads share a file and some relock it meanwhile.      *)
NoFlockCycle == ~Cycle(FALSE)

(* "For byte-range locks we must check for deadlock": nor one of POSIX     *)
(* locks.                                                                  *)
NoPosixCycle == ~Cycle(TRUE)
=============================================================================
