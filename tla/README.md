# Verification of the OpenBSD kernel's synchronisation core

TLA+ models of the parts of the kernel that everything else sleeps, waits and
is called back through: the sleep queue, timeouts, reader/writer locks, the lock
manager, work queues, and two large clients of all that, pipes and advisory
record locks. Each module is translated from the C source; TLC checks it on small
instances, and for all of them but record locks TLAPS proves the main safety
results for instances of any size.

`PROJECT.json` maps every definition to the lines it models, and lists the runs,
the faults each property was shown to catch, the hazards and the theorems.

The tree has some 2.9 million lines of C, most of them drivers and
machine-dependent code. About 3,300 lines are modelled here, in the 22 files that
the `map` of `PROJECT.json` names: the core of `kern/` that the rest depends on,
and a very small share of the whole.

## 1. Inventory

### How the kernel interleaves

- **Kernel lock.** Process context runs under one lock. It is given up in
  `mi_switch()` only: by sleeping, by stopping for a signal, or by a page fault
  in `uiomove()`. Between two such points a process is atomic against other
  processes.
- **Scheduler lock.** Protects the sleep queue and process states, against other
  CPUs and interrupts. `sleep_setup()` takes it, `sleep_finish()` gives it up.
- **Mutexes.** Spin locks that also block interrupts (`timeout_mutex`, `wq_mtx`).
- **Interrupts.** `hardclock()` and drivers call `wakeup()` and `timeout_add()`
  at any time the mutexes and interrupt levels allow. `softclock()` runs later,
  and takes the kernel lock for the functions it calls.
- **No lock.** A reader/writer lock is one word changed by compare-and-swap, by
  several CPUs at once.

### Parts

| Part | State | Operations | What is hard |
|---|---|---|---|
| Sleep queue (`kern_synch.c`, `kern_sig.c`) | chains of processes, `p_stat`, `p_wchan`, flags, pending signals, the sleep timeout | `tsleep`, `msleep`, `wakeup_n`, `endtsleep`, `ptsignal`, `issignal` | a wakeup, a timeout and a signal racing, while the process stops and continues on its way in or out |
| Timeouts (`kern_timeout.c`) | `ticks`, four wheels of buckets, the worklist | `timeout_set/add/del`, `hardclock`, `softclock` | wrapping time, wheel boundaries, timeouts moved while queued, functions that add themselves again |
| Reader/writer locks (`kern_rwlock.c`) | one word | `rw_enter*`, `rw_exit*` | lock-free updates, lost wakeups, stale flags |
| Lock manager (`kern_lock.c`) | flags, three counts, the holder | `lockmgr` for shared, exclusive, recursive, drain, release | several kinds of sleeper on one channel, draining before memory is freed |
| Work queues, kernel threads (`kern_workq.c`, `kern_kthread.c`) | state, count of threads, task list | create, queue, destroy; workers | creation is deferred and may fail, destruction at any point |
| Pipes (`sys_pipe.c`) | circular buffer, flags, busy count | read, write, poll, close | a lock that is slept for between a test and its use; one channel for five kinds of sleeper |
| Record locks (`vfs_lockf.c`, `kern_descrip.c`) | the list of locks of a file, blocked requests, the user's count, descriptors | `fcntl`, `flock`, `close`, `open` | ranges split and merged under waiters, a close while another thread waits, the deadlock search |
| Thread sleep, System V IPC | identifiers, semaphore sets, undo lists | not modelled | stale identifiers, all-or-nothing operations |
| Events, sockets | knotes, reference counts, messages in flight | not modelled | collection of cycles, close against use |
| Processes, signals, scheduler, time | process lists, run queues, timehands | not modelled, but for signals that end or stop sleeps | exit against wait, lock-free readers of time |
| Buffers, vnodes, names | queues, flags, generation numbers | not modelled | identity changes while asleep |
| Pools, extents, buckets | free lists, limits | not modelled | limits with waiters |
| VM, file systems, network, drivers, machine code | | not modelled | size, formats, hardware |

All parts, with their sources, are the `components` of `PROJECT.json`.

### How the modelled parts interact

- A sleep with a timeout is a `struct timeout` whose function is `endtsleep()`:
  SleepQueue takes from Timeout that an armed timeout is called once, not early,
  sooner or later, unless deleted first. That is what `Timers`, the abstract
  specification Timeout implements, says.
- RWLock, Lockmgr, Workq, Pipe and Lockf sleep and wake through the sleep queue. They
  take from SleepQueue that a process is on the queue from the moment it
  announced its sleep until a wakeup, a timeout or a signal, that none of these
  is lost while it stops on the way, and that the value of `tsleep()` tells the
  cause (`AsleepIffQueued`, `ReturnTellsCause`, `WokenReturns`).

## 2. Plan

Done, in this order:

1. RWLock with its proofs; Timeout, the abstract Timers, the refinement and its proof.
2. Lockmgr, SleepQueue, Workq, Pipe.
3. Proofs about Lockmgr, Workq, Pipe and SleepQueue.
4. Lockf.

What would follow, were the project to grow: System V semaphores; the buffer cache
with its `B_BUSY` protocol; an abstract lock that both RWLock and Lockmgr
implement; SleepQueue over Timers instead of its own clock step; and, among the
proofs, `DueOnTodo` of Timeout, for which the wheel arithmetic has to be brought
into the prover's reach.

## 3. Modules

In every module a definition whose comment begins with "Fault:" is a plausible
bug; nothing uses it. It stands before the definition it would replace, and the
property it violates is in `PROJECT.json` under `mutants`.

### RWLock

State: the word (`owner`, a record of its bits), and per process a label (`pc`),
the request (`op`, `flags`), its private copy of the word (`o`), whether it is on
the sleep queue (`slpq`) and what it holds (`mode`). A step is one load or
compare-and-swap of the word, or one critical section of the scheduler lock.
Setting the wait flag happens between `sleep_setup()` and `sleep_finish()`: one
step with falling asleep, as far as a `wakeup()` can tell. With RW_INTR a process
can stop for a signal between queueing itself and setting the flag (`stopped`). A
SIGCONT that it does not catch then makes it SSLEEP where it is, without running it
(`dozing`): asleep, and not announced. It runs on only when a wakeup or a signal
has taken it off the queue.

### Timeout and Timers

State: `ticks`, `to_time` and `to_flags` of each timeout, all queues (`circq`),
the request for and the progress of `softclock`. Integers have the width of the
four wheels together, as a 32-bit `int` and four 8-bit wheels do, and wrap.
Operations under the mutex are one step. `softclock()` gives the mutex up around
each function, when the other actions, `timeout_add()` of the very timeout that
runs included, come in. `Timers` is what `sys/timeout.h` promises: armed timers
count down and are called when the count is used up.

`MaxLate` bounds how far `softclock` falls behind. The code relies on it too: a
timeout overdue by half the range of an `int` would look far in the future.

### Lockmgr

State: the `struct lock` (`lk`), and per process which ACQUIRE it sleeps in, its
wakeup or failure, and the locks it was granted. The request types and external
flags of `lockmgr()` are actions; each goes on to its end or its next sleep under
the kernel lock. A lock is initialised as uninterruptible, as every `lockinit()`
in the tree does it, or as interruptible, as `sys/lock.h` allows. As in the vnode
code, one process drains, a drained lock is only released, and whoever holds a
shared lock does not request another.

### SleepQueue

State: a record per process of the fields of `struct proc` that matter, the
place in `tsleep()`, and what took it off the queue (`cause`); the queue; and the
process `softclock` is about to call `endtsleep()` for. `issignal()`,
`ptsignal()`, `setrunnable()` and `unsleep()` are operators from record to record.
Signals are SIGINT (caught), SIGKILL, SIGSTOP and SIGCONT (caught or not).

### Workq

State: `wq_state`, `wq_running`, the list, the callers of `workq_queue_task()`
that have left the mutex and not yet called `wakeup_one()`, the deferred creator,
the destroyer, and the workers. `Threads` bounds the threads ever forked.

### Pipe

One direction: the `struct pipe` of the read end. `curproc` is the process in the
pipe code that has the kernel lock. It is given up asleep, in each `uiomove()`,
and on return. `sent` records what the buffer should hold, and `dropped` that a
buffer with data in it was replaced. `nbigpipe` is this pipe's part of the kernel's
counter; what the other pipes add to it when `pipe_write()` compares it with
LIMITBIGPIPES is any member of `BigElsewhere`. `closef()` calls `pipe_close()` when no
call on that end is in progress, so readers do not run beside the close of the
read end, and writers do.

### Lockf

The advisory locks of one file. State: the list of locks at the inode in its
order (`lockf`), each with the requests blocked on it; the user's count and limit
of lock structures; where each thread is and its request (`proc`); which file
each descriptor table refers to and which files have FHASLOCK; and histories:
`held`, what each owner was last granted for each byte; `cutoff`, that an
unlock was refused for want of memory; and the marks `overtaken` of a lock and
`left` of a request, explained below. The actions are the system calls
(`fcntl_setlk`, `fcntl_unlck`, `sys_flock`, `flock_un`, `sys_close`, `sys_open`)
and what happens to their sleeps (`Woken`, `Interrupted`, `SplitLock`,
`SplitUnlock`, `Drained`). A call goes
on to its end or its next sleep under the kernel lock; `lf_findoverlap()`,
`lf_split()` and the loops of `lf_setlock()` and `lf_clearlock()` are operators on
the list, recursive where the code loops. A table has one descriptor for the file,
and since the waiters of a lock are woken all together, `lf_blkhd` is a set.

`lf_alloc()` may wait for memory. In `lf_split()` it does so in the middle of a
call, and the model has that sleep: `fcntl()` may stop at `split` (for a lock) or
`unsplit` (for an unlock), and goes on when the memory is there. At the start of
`lf_advlock()`, where nothing but the user's count has been looked at, waiting is
the same as calling later and is left out. If a thread frees or changes the lock
that another thread of its process is waiting to split, the pointer in
`lf_split()` is stale: the model says nothing of what follows (`torn`).

## 4. Runs

Bounds are the `CONSTANTS` of the `.cfg` files; the values are in the `MC` modules.

| Run | Instance | Shows |
|---|---|---|
| `rwlock` | 3 processes, all operations, one of them with INTR, SLEEPFAIL or NOSLEEP, fair | exclusion, word and holders agree and a free word is zero; for those who went to sleep having set RWLOCK_WAIT, no lost wakeup, and they are woken |
| `rwlock_stop` | as `rwlock` | a violation: see below |
| `timeout_wheels` | 1 timeout, 8-bit int, 2-bit wheels, delays on both sides of each wheel boundary and the clamp | what is due has left the wheels; `Timers` is implemented |
| `timeout` | 2 timeouts, 4-bit int, 1-bit wheels, fair | queues and flags agree; due timeouts run, time passes |
| `lockmgr` | 4 processes, recursion to 2, both kinds of lock, fair | exclusion, counts without panics, a drained lock is nobody's, no lost wakeup, a wanting writer holds off others and gets the lock |
| `sleep` | 2 processes, 1 channel, sleeps that are interruptible with a timeout or neither, every signal (SIGCONT not caught), fair | queue and states agree, the returned value tells the cause, nothing is left behind; ended sleeps return, timed sleeps end |
| `sleep_mutex` | 2 processes, 2 channels, `msleep()` with PCATCH | a violation: see below |
| `workq` | queue of 2 threads, 3 forks, 3 tasks, forks that fail, fair | freed once and unreferenced, threads counted, tasks run, destruction ends |
| `pipe` | 1 reader, 2 writers, select; buffer 3, big buffer 4, `PIPE_BUF` 2; writes of 2 (atomic) and 4 (resizing); interrupted, non-blocking and faulting calls; either end closed; 0 or 1 other big pipes with a limit of 1 | one holder of the lock, the busy count keeps the memory, a big pipe is counted once, first in first out, atomic small writes, no standoff |
| `pipe_resize` | 2 writers | a violation: see below |
| `lockf` | 3 threads, two of them sharing a descriptor table; 2 files; 2 bytes and the rest; limits of 1 and 3 lock structures | the list is byte for byte what was asked for; exclusion, and waiters are behind a lock that blocks them, but for what an `lf_split()` that waited for memory leaves; structures are charged exactly, close releases, no cycle of `flock()` owners |
| `lockf_deadlock` | 2 processes, POSIX locks | a violation: see below |

Why the bounds are enough:

- A lost wakeup or a broken exclusion needs a holder, a waiter and one more to
  come in between; `rwlock` has those three, `lockmgr` adds a drainer.
- Wheels of 2 bits have buckets that are first, last and in between; the delays
  cross every wheel, and `ticks` wraps in each run. With 2 timeouts one is moved
  or deleted while the other is called or moved.
- Two sleepers distinguish `wakeup_one()` from `wakeup()`. Several channels on a
  chain, the other kinds of sleep and processes that catch SIGCONT multiply the
  states and are not in the run: the safety properties are proved for all of them.
- A buffer of 3 with transfers of 2 wraps inside a transfer; two writers fill
  what the other found free.
- Ranges that start at 0 or 1 and end at 1 or at the end of the file, with what is
  left when they are split, overlap a lock of their owner in each of the six ways
  that `lf_findoverlap()` tells apart. A table shared by two threads lets one close
  what the other waits for. The limit of 1 refuses locks and,
  when it is exceeded twofold, unlocks; 3 lets two readers of a `flock()` lock ask for an upgrade.

`timeout_wheels` and `pipe` identify states that differ in dead data only
(`VIEW`); the comments in the `MC` modules say what is dead and why. `SYMMETRY`
is used in runs without liveness only. Deadlock is checked except for work queues
and pipes, which come to an end.

### Fairness

- `rwlock`: a process inside the lock's code runs on to its next sleep, and
  holders release. Callers and signals owe nothing, and a process that was taken
  off the queue need not run, as it may be stopped.
- `timeout`: the clock interrupt is held off by the mutex again and again, but
  stays pending in hardware and is taken when the mutex is released: strong
  fairness. A requested `softclock` runs on: weak fairness.
- `lockmgr`: woken processes run, holders release.
- `sleep`: runnable processes and `softclock` get the kernel lock again and
  again, not continuously: strong fairness. Nothing is assumed of `wakeup()` or
  of signals.
- `workq`: the deferred list is run, tasks return, runnable threads run.
- `timeout_wheels`, `pipe` and `lockf` check safety only and assume none.

### Findings

- **A pipe loses data when two writers race to enlarge it** (`pipe_resize`).
  `pipe_write()` tests that the buffer is empty, then calls `pipelock()`, which
  may sleep for another writer, and does not test again before `pipespace()`
  replaces the buffer. The data that writer put there is gone. What follows from
  it (a writer asleep before an empty pipe) is excluded from `NoStandoff` by
  `dropped`; `BufferIsFifo` speaks of what was written since the buffer was
  allocated.
- **A stopped waiter for a reader/writer lock can miss its wakeup**
  (`rwlock_stop`). With RW_INTR (`kern_sysctl.c:208`, for one) a process that is
  stopped in `sleep_setup_signal()` and continued by a SIGCONT it does not catch is
  made SSLEEP without running. `sleep_setup_signal()` says that its callers must be
  ready for this; `rw_enter()` sets RWLOCK_WAIT only afterwards, so a holder that
  leaves by the fast path wakes nobody. `NoLostWakeup` and `SleepersWoken` are
  stated for the processes that set the flag before they slept; without RW_INTR
  those are all, which is proved (`ReadyWithoutSignals`).
- **`msleep()` with PCATCH can stop with the mutex held** (`sleep_mutex`).
  `sleep_setup_signal()` may call `mi_switch()` before `mtx_leave()`.
- **The deadlock search of POSIX locks finds nothing** (`lockf_deadlock`).
  `lf_setlock()` takes `lf_id` for a `struct proc` and looks at its wait channel
  (`vfs_lockf.c:255`); `sys_fcntl()` passes the descriptor table. Processes that
  lock two ranges in opposite order sleep until a signal, and EDEADLK is never
  returned. `flock()` owners, for whom the code does not search, cannot form a
  cycle (`NoFlockCycle`).

Smaller disagreements met while modelling, without a run of their own:

- `kern_rwlock.c:48` says a reader waits for RWLOCK_WRWANT; the table beside it
  checks RWLOCK_WRLOCK only, so readers pass waiting writers. `SleepersWoken` therefore
  promises a wakeup, not the lock.
- `kern_lock.c:237`: an interrupted exclusive request withdraws LK_WANT_EXCL and
  wakes nobody. No lock in the tree is interruptible, and `NoLostWakeup` and
  `WantGranted` are stated for the others: they say nothing of the processes that
  were not told, on an interruptible lock.
- `kern_workq.c:165`: a queue destroyed before its first thread exists is freed
  with its tasks. `FreedUnreferenced` speaks of queues that have had a thread.
- `kern_workq.c:196`: with two or more threads, the loop that forks goes on while
  new threads of a queue being destroyed leave at once. `DestroyReturns`
  therefore starts when the creation of threads is over. Queues in the tree have
  one thread.
- `sys_pipe.c:406`: `nbigpipe` is compared with the limit before a sleep and
  incremented after it, so the kernel's big pipes can exceed LIMITBIGPIPES by the
  number of pipes with such a writer. `BigPipesCounted` speaks of what one pipe
  adds to the counter.
- `vfs_lockf.c:659`: `lf_split()` may wait for memory after `lf_getblock()` found no
  conflict. A reader whose lock [0,EOF] is to become a writer's at byte 1 waits
  there; another process is granted a read lock on byte 1; the write lock is then
  linked beside it (`overtaken`). `Exclusion` says that this is the only way in which
  a write lock and another meet, and that two write locks never do. For an unlock,
  the waiters are woken before that wait; one that tries again meanwhile finds the
  lock still whole, joins its list, and is not woken when the hole is made (`left`).
  `WaitersBlocked` excepts those requests only.
- `vfs_lockf.c:108`: an unlock needs a lock structure itself and is refused above
  twice the user's limit; `closef()` ignores that, and the locks of a closed
  descriptor stay. `CloseReleases` is stated for executions without it (`cutoff`).

## 5. Proofs

### RWLockProofs

For any finite set of processes and any flags: `TypeCorrect`, `MutualExclusion`,
`WordAgreement` (a free word is zero, too), `NoWakeupIsLost`, `ExitAssertions`; and
`ReadyWithoutSignals`: if nobody passes RW_INTR, nobody is asleep for a free lock
with no wakeup to come. `NoWakeupIsLost` is about those who have set RWLOCK_WAIT:
with RW_INTR, run `rwlock_stop` shows that others can be asleep.

Assumed: `NoProc` is no process, the set is finite (readers are counted), flags
are flags.

`Exclusion` is not inductive: nothing in it ties a process about to
compare-and-swap to the word it compares with. `IInv` adds

- `WordMatchesHolders`, and `WordInv`: a word with a writer counts no readers,
  WRWANT stands only with WAIT, a free word is zero. A compare-and-swap succeeds
  on the copy that was checked, so the check on the copy is one on the word;
- `ModeInv`: what a process holds at each label. A compare-and-swap that releases
  therefore releases what is held;
- `CopyInv`: what the code has checked of the copy at each label;
- `NoLostWakeup`, which needs the others to show that the flag a waiter sets is
  on a word somebody will release.

`WordStep` shows once that changing the word and one process's hold together
keeps `WordMatchesHolders`, using how the number of readers changes
(`ReaderCount`). `NextInv` has one step per action. `ReadyWithoutSignals` needs
also that without RW_INTR no process stops (`NeverStopped`).

### TimeoutProofs

For any timeouts, any width of wheels and int, any intervals and any `MaxLate`
below the range of an int: `TypeCorrect`, `FlagsMatchQueues`, and
`WheelsImplementTimers`, the refinement `Spec => T!Spec`.

Assumed: powers of two and INT_MAX are positive (`WheelAssumption`), the clock's
constants are natural numbers (`ClockAssumption`).

`IInv` is `TypeOK`, `QueuedOnce` and that no pending timeout is later than
`MaxLate`; `CallInv` says a function runs only while `softclock` calls one. The
lemmas fall into two groups: that int arithmetic gives back the delay that was
added (`WrapAdd`) and loses one with each tick (`WrapTick`), as long as the bound
holds; and that inserting, appending, removing and unlinking keep each timeout
on at most one queue, once. Each action then maps to a step of `Timers` or to a
stutter.

The refinement says that nothing is called early, twice or unasked; that nothing
due is left in a wheel (`DueOnTodo`) and that due timeouts are called
(`DueTimeoutsFire`) is checked by TLC only.

### LockmgrProofs

For any finite set of processes, any depth of recursion and both kinds of lock:
`TypeCorrect`, `CountsHold` (`CountsMatch`: no panic, and the counts are those of the locks
granted), `Excludes`, `WakeupsArrive` (`NoLostWakeup`) and `WantRespected`
(`WantStopsOthers`).

Assumed (`ProcsAssumption`): the processes are finitely many, LK_NOPROC is none of
them, one of them drains, recursion is bounded by a positive number.

`IInv` says what each flag stands for. LK_HAVE_EXCL: there is an exclusive lock,
and no shared one. LK_WANT_EXCL: exactly one process is in the second ACQUIRE of an
exclusive request; it is never set together with LK_HAVE_EXCL. A drained or
draining lock is held by the drainer at most, with no waiters and nobody inside
`lockmgr()`.
`lk_waitcount` is the number of processes in an ACQUIRE. A process that is about to
run inside `lockmgr()` sees the lock as if it were not counted itself (`Ready`); it
then sleeps again or returns, and one lemma for each of the two ends (`SleepKeeps`,
`ReturnKeeps`) covers all request types.

### SleepQueueProofs

For any processes, channels and kinds of sleep: `TypeCorrect`,
`ReturnValue` (`ReturnTellsCause`) and `QueuedWhileAsleep` (`AsleepIffQueued`): the
queue holds, once each, exactly the processes with a wait channel, and those are
asleep or stopped, so `wakeup_n()` does not reach its panic.

Assumed (`SleepAssumption`): NULL is no channel, and kinds of sleep are well-formed.

Every step of a process, of its signals and of its timeout rewrites that process's
record, so the invariant is a condition on records, `Good`, by the place in
`tsleep()`. The part that took finding is `Interrupting`: once a signal has taken
a process off the queue, that signal is still pending, or the process is stopped
and has a SIGCONT to catch, so that `sleep_finish_signal()` cannot return 0 for a
sleep that no wakeup ended. `Firing` ties a call of `endtsleep()` in progress to a
sleep with a timeout that the process has not left; it holds because of the kernel
lock. `QueueInv` adds the queue: `WithoutFacts` says what is left on a queue from
which some elements are removed, and in which nothing stands twice.

### WorkqProofs

For any finite set of threads, any tasks and any positive `wq_max`
(`WorkqAssumption`): `TypeCorrect`, `CountExact` (`RunningCounts`) and `FreedSafely`
(`FreedUnreferenced`).

`FreedUnreferenced` needs to know that the two places that free the queue,
`workq_destroy()` and `workq_create_thread()`, exclude each other. `Phases` lists
which states of the queue, its creator and its destroyer go together;
`ExitedDrained` says that a thread has left only when the list was empty and
nothing could be queued any more; and with `RunningCounts`, a count of 0 means that
there is no thread and no fork under way.

### PipeProofs and PipeDataProofs

For any finite sets of readers and writers, any sizes of transfers, buffers and
PIPE_BUF that `PipeAssumption` allows: `LockExact` (`LockAndBusy`), `TypeCorrect`,
`Fifo` (`BufferIsFifo`), `SmallWrites` (`SmallWritesAtomic`), `CountedOnce`
(`BigPipesCounted`) and `NobodyStranded` (`NoStandoff`). The first is proved in PipeProofs, the others, which build on it, in PipeDataProofs.

Assumed (`PipeAssumption`): the processes are finitely many and distinct,
0 < PIPE_BUF <= PIPE_SIZE - PIPE_SIZE / 3 and PIPE_SIZE < BIG_PIPE_SIZE, as the
values in `sys/pipe.h` and `sys/syslimits.h` satisfy.

The invariant has three layers. `LockInv` is about the places in the code only: at
most one process is at a place under PIPE_LOCK and the flag says whether there is
one, `pipe_busy` counts those at the places between its increment and decrement,
and nobody is there once the pipe is freed. What a step does to these depends
only on the kinds of place it goes from and to (`MoveKeeps`). `DataInv` uses the
lock: `Ring`, the buffer from `out` on is what was sent and not read, with `in`
behind it; `Fits`, the transfer in progress is within the free space or the data,
even though the space was computed before the lock was had; `Whole`, a small write
has been stored all or not at all; `Budget`, this pipe is counted in
`nbigpipe` once while it has a big buffer, whatever other pipes add. That live and
free positions of a circular buffer do not meet is `LiveAndFree`. `Waits` is for
`NobodyStranded`: each sleeper had a reason to sleep and left the flag that asks for
a wakeup, and when the reason is gone, somebody is at a place in the code from which
it will wake those who wait.

### Only model-checked

- Liveness everywhere, which is out of the prover's reach.
- `DueOnTodo` of Timeout (arithmetic of the wheels' masks).
- All of Lockf: its operators are recursive, as the code loops along the list and
  changes it on the way, and what a recursive definition computes for every list is
  out of the prover's reach. So `Exclusion` and the other invariants of record locks
  hold for the lists that the run reaches, and with the allocation in `lf_advlock()`
  taken as one that does not sleep.

## 6. Not modelled

- In the modelled parts: printing and diagnostics; `rw_enter_diag()`'s panics on
  misuse; the kernel-lock wrappers of `kern_lock.c`; tracing, held signals and
  `vfork()` in SleepQueue, `thrsleep()`/`thrwakeup()`, `yield()`; the kqueue
  filters, ioctls, `stat` and two-way use of pipes; the pool that
  `workq_add_task()` allocates from; of record locks, F_GETLK, the conversion of
  `l_whence` and `l_len` to a range, `dup2()`, locks taken by `open()` (O_SHLOCK,
  O_EXLOCK), locks of NFS clients, and allocation that sleeps at the
  start of `lf_advlock()` (in `lf_split()` it is modelled).
- Taken as given: compare-and-swap, mutexes, the scheduler and kernel lock, and
  process creation, which is machine-dependent or belongs to a part not modelled.
- Memory ordering: steps are sequentially consistent. The word of a reader/writer
  lock is changed by locked instructions only, but weaker orderings around it
  are not represented.
- The other parts of the kernel, each with its reason in `components` of
  `PROJECT.json`. Three reasons recur. Many parts are clients of the core that no
  modelled part depends on, and of which a faithful model would have to bring in
  further parts: the buffer cache, vnodes and names need the file systems; sockets,
  events and descriptor passing need the protocols and each other; System V IPC
  needs the reuse of structures by the allocators. Drivers, machine-dependent code
  and timecounters rest on hardware, or on the order in which CPUs see stores, that
  is not in the repository or not represented. Program images, terminals, mbufs,
  file formats and cryptography are sequential computation on data that a small
  model would have to leave out.
