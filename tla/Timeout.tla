------------------------------ MODULE Timeout -------------------------------
(***************************************************************************)
(* The timeout facility of kern/kern_timeout.c: a hierarchical timing      *)
(* wheel driven by hardclock and emptied by softclock.                     *)
(*                                                                         *)
(* All queues are protected by timeout_mutex, so an operation is one step; *)
(* softclock holds the mutex from one callback to the next, and its steps  *)
(* exclude the others while it does.  ticks and to_time are C ints whose   *)
(* width is that of all wheels together (four wheels of 8 bits in a 32-bit *)
(* int), and wrap around.                                                  *)
(***************************************************************************)
EXTENDS Integers, Sequences

CONSTANTS
  Timeouts,    \* the timeout structures
  NoTimeout,
  WHEELBITS,   \* bits of the time in each of the four wheels: 8
  hz, tick,    \* clock ticks in a second, microseconds in a tick
  Secs, Usecs, \* the intervals callers ask for
  MaxLate      \* bound: ticks by which softclock may run behind

WHEELSIZE == 2^WHEELBITS
INT_MAX == 2^(4 * WHEELBITS - 1) - 1
Ints == -(INT_MAX + 1) .. INT_MAX

ASSUME TimeoutsAssumption == NoTimeout \notin Timeouts
ASSUME WheelAssumption ==
  /\ WHEELSIZE \in Nat \ {0} /\ INT_MAX \in Nat \ {0}
  /\ \A w \in 0 .. 3 : 2^(w * WHEELBITS) \in Nat \ {0}
ASSUME ClockAssumption ==
  /\ hz \in Nat \ {0} /\ tick \in Nat \ {0}
  /\ Secs \subseteq Nat /\ Usecs \subseteq Nat
  /\ MaxLate \in 1 .. INT_MAX

VARIABLES
  ticks,       \* the clock
  to_time,     \* to_time of each timeout
  to_flags,    \* to_flags of each timeout
  circq,       \* timeout_wheel and timeout_todo
  softpend,    \* the soft interrupt is requested
  softclock,   \* softclock(): "idle", "loop" with the mutex, or "call"
  running      \* the timeout whose function softclock is calling

vars == <<ticks, to_time, to_flags, circq, softpend, softclock, running>>

(* Fault: int arithmetic that does not wrap. *)
Wrap_wide(n) == n

(* int arithmetic; its operands are ints, so one correction is enough. *)
Wrap(n) == IF n > INT_MAX THEN n - 2 * (INT_MAX + 1)
           ELSE IF n < -(INT_MAX + 1) THEN n + 2 * (INT_MAX + 1) ELSE n

-----------------------------------------------------------------------------
(* The queues: <<w, i>> is bucket i of wheel w, TODO is timeout_todo. *)
Buckets == (0 .. 3) \X (0 .. WHEELSIZE - 1)
TODO == <<4, 0>>
Queues == Buckets \cup {TODO}

MASKWHEEL(wheel, time) == (time \div 2^(wheel * WHEELBITS)) % WHEELSIZE

wheel_of(rel) ==
  CASE rel <= 2^WHEELBITS -> 0
    [] rel > 2^WHEELBITS /\ rel <= 2^(2 * WHEELBITS) -> 1
    [] rel > 2^(2 * WHEELBITS) /\ rel <= 2^(3 * WHEELBITS) -> 2
    [] OTHER -> 3

BUCKET(rel, abs) == <<wheel_of(rel), MASKWHEEL(wheel_of(rel), abs)>>

without(s, t) ==
  IF \E i \in DOMAIN s : s[i] = t
    THEN LET i == CHOOSE i \in DOMAIN s : s[i] = t
         IN  [j \in 1 .. Len(s) - 1 |-> IF j < i THEN s[j] ELSE s[j + 1]]
    ELSE s

CIRCQ_INSERT(q, t, b) == [q EXCEPT ![b] = Append(@, t)]

(* Fault: an element linked to a second queue before it leaves the first. *)
CIRCQ_REMOVE_not(q, t) == q
CIRCQ_REMOVE(q, t) == [b \in Queues |-> without(q[b], t)]

CIRCQ_APPEND(q, b) == [q EXCEPT ![TODO] = @ \o q[b], ![b] = <<>>]

(* Fault: the slower wheels are never emptied. *)
turning_fast(w, time) == w = 0

(* A wheel turns when all faster ones are at 0. *)
turning(w, time) == \A v \in 0 .. w - 1 : MASKWHEEL(v, time) = 0

MOVEBUCKET(q, w, time) ==
  IF turning(w, time) THEN CIRCQ_APPEND(q, <<w, MASKWHEEL(w, time)>>) ELSE q

MOVEBUCKETS(q, time) ==
  LET q0 == MOVEBUCKET(q, 0, time)
      q1 == MOVEBUCKET(q0, 1, time)
      q2 == MOVEBUCKET(q1, 2, time)
  IN  MOVEBUCKET(q2, 3, time)

(* timeout_add_tv() and the others: an interval in ticks, rounded down and *)
(* clamped to an int.                                                      *)
to_ticks(sec, usec) ==
  LET n == hz * sec + usec \div tick IN IF n > INT_MAX THEN INT_MAX ELSE n

Delays == {to_ticks(s, u) : s \in Secs, u \in Usecs}

Flags == {"ONQUEUE", "INITIALIZED", "TRIGGERED"}
pending(t) == "ONQUEUE" \in to_flags[t]

(* "to->to_time - ticks": how far in the future a pending timeout is. *)
distance(t) == Wrap(to_time[t] - ticks)

TypeOK ==
  /\ ticks \in Ints
  /\ to_time \in [Timeouts -> Ints]
  /\ to_flags \in [Timeouts -> SUBSET Flags]
  /\ circq \in [Queues -> Seq(Timeouts)]
  /\ softpend \in BOOLEAN
  /\ softclock \in {"idle", "loop", "call"}
  /\ running \in Timeouts \cup {NoTimeout}

(* timeout_startup() *)
Init ==
  /\ ticks = 0
  /\ to_time = [t \in Timeouts |-> 0]
  /\ to_flags = [t \in Timeouts |-> {}]
  /\ circq = [b \in Queues |-> <<>>]
  /\ softpend = FALSE
  /\ softclock = "idle"
  /\ running = NoTimeout

mutex_free == softclock # "loop"

-----------------------------------------------------------------------------
(* timeout_set(): "You may not touch the timeout with timeout_set once the *)
(* timeout is scheduled" (sys/timeout.h).                                  *)
timeout_set(t) ==
  /\ ~pending(t)
  /\ to_flags' = [to_flags EXCEPT ![t] = {"INITIALIZED"}]
  /\ UNCHANGED <<ticks, to_time, circq, softpend, softclock, running>>

(* Fault: a pending timeout is left in place when it is moved earlier too. *)
timeout_add_inplace(t, n) ==
  /\ mutex_free /\ "INITIALIZED" \in to_flags[t]
  /\ to_time' = [to_time EXCEPT ![t] = Wrap(n + ticks)]
  /\ to_flags' = [to_flags EXCEPT ![t] = (@ \ {"TRIGGERED"}) \cup {"ONQUEUE"}]
  /\ circq' = IF ~pending(t) THEN CIRCQ_INSERT(circq, t, TODO) ELSE circq
  /\ UNCHANGED <<ticks, softpend, softclock, running>>

(* timeout_add(): a pending timeout moved earlier goes back to the         *)
(* worklist; one moved later stays where it is.                            *)
timeout_add(t, n) ==
  /\ mutex_free /\ "INITIALIZED" \in to_flags[t]
  /\ to_time' = [to_time EXCEPT ![t] = Wrap(n + ticks)]
  /\ to_flags' = [to_flags EXCEPT ![t] = (@ \ {"TRIGGERED"}) \cup {"ONQUEUE"}]
  /\ circq' = IF ~pending(t) THEN CIRCQ_INSERT(circq, t, TODO)
              ELSE IF Wrap(to_time'[t] - ticks) < distance(t)
                THEN CIRCQ_INSERT(CIRCQ_REMOVE(circq, t), t, TODO)
              ELSE circq
  /\ UNCHANGED <<ticks, softpend, softclock, running>>

TimeoutAdd(t) == \E n \in Delays : timeout_add(t, n)

timeout_del(t) ==
  /\ mutex_free
  /\ circq' = IF pending(t) THEN CIRCQ_REMOVE(circq, t) ELSE circq
  /\ to_flags' = [to_flags EXCEPT ![t] = @ \ {"ONQUEUE", "TRIGGERED"}]
  /\ UNCHANGED <<ticks, to_time, softpend, softclock, running>>

(* hardclock(): one tick; what is due, or must be looked at, goes to the   *)
(* worklist, and softclock is requested when that is not empty.            *)
timeout_hardclock_update ==
  /\ mutex_free
  /\ \A t \in Timeouts : pending(t) => distance(t) > -MaxLate
  /\ ticks' = Wrap(ticks + 1)
  /\ circq' = MOVEBUCKETS(circq, ticks')
  /\ softpend' = (softpend \/ circq'[TODO] # <<>>)
  /\ UNCHANGED <<to_time, to_flags, softclock, running>>

-----------------------------------------------------------------------------
(* softclock(): start; then take the head of the worklist and either put   *)
(* it in its bucket or, if it is due, call its function without the mutex. *)
SoftclockStart ==
  /\ softclock = "idle" /\ softpend
  /\ softclock' = "loop" /\ softpend' = FALSE
  /\ UNCHANGED <<ticks, to_time, to_flags, circq, running>>

first == Head(circq[TODO])
unlinked == [circq EXCEPT ![TODO] = Tail(@)]

SoftclockRebucket ==
  /\ softclock = "loop" /\ circq[TODO] # <<>>
  /\ distance(first) > 0
  /\ circq' = CIRCQ_INSERT(unlinked, first,
                           BUCKET(distance(first), to_time[first]))
  /\ UNCHANGED <<ticks, to_time, to_flags, softpend, softclock, running>>

(* Fault: a timeout runs one tick early. *)
SoftclockFire_early ==
  /\ softclock = "loop" /\ circq[TODO] # <<>>
  /\ distance(first) <= 1
  /\ circq' = unlinked
  /\ to_flags' = [to_flags EXCEPT ![first] = (@ \ {"ONQUEUE"}) \cup {"TRIGGERED"}]
  /\ softclock' = "call" /\ running' = first
  /\ UNCHANGED <<ticks, to_time, softpend>>

SoftclockFire ==
  /\ softclock = "loop" /\ circq[TODO] # <<>>
  /\ distance(first) <= 0
  /\ circq' = unlinked
  /\ to_flags' = [to_flags EXCEPT ![first] = (@ \ {"ONQUEUE"}) \cup {"TRIGGERED"}]
  /\ softclock' = "call" /\ running' = first
  /\ UNCHANGED <<ticks, to_time, softpend>>

SoftclockReturn ==
  /\ softclock = "call"
  /\ softclock' = "loop" /\ running' = NoTimeout
  /\ UNCHANGED <<ticks, to_time, to_flags, circq, softpend>>

SoftclockDone ==
  /\ softclock = "loop" /\ circq[TODO] = <<>>
  /\ softclock' = "idle"
  /\ UNCHANGED <<ticks, to_time, to_flags, circq, softpend, running>>

Softclock == \/ SoftclockStart \/ SoftclockRebucket \/ SoftclockFire
             \/ SoftclockReturn \/ SoftclockDone

Next ==
  \/ \E t \in Timeouts : timeout_set(t) \/ TimeoutAdd(t) \/ timeout_del(t)
  \/ timeout_hardclock_update
  \/ Softclock

Spec == Init /\ [][Next]_vars

(* A clock interrupt held off by the mutex stays pending and is taken when *)
(* the mutex is released; a requested softclock runs on.                   *)
FairSpec == Spec /\ SF_vars(timeout_hardclock_update) /\ WF_vars(Softclock)
-----------------------------------------------------------------------------
(* Every queued timeout is on one queue, once, and ONQUEUE is set exactly  *)
(* while it is: timeout_add, timeout_del, softclock and the moves of       *)
(* hardclock relink the same to_list, whichever of them comes first.       *)
QueuedOnce ==
  /\ \A b, c \in Queues : \A i \in DOMAIN circq[b], j \in DOMAIN circq[c] :
       circq[b][i] = circq[c][j] => b = c /\ i = j
  /\ \A t \in Timeouts :
       pending(t) <=> \E b \in Queues : \E i \in DOMAIN circq[b] : circq[b][i] = t

(* Nothing that is due waits in a wheel: hardclock has moved it to the     *)
(* worklist by the tick it is due, however far ahead it was bucketed and   *)
(* however often timeout_add left it in place.                             *)
DueOnTodo ==
  \A b \in Buckets : \A i \in DOMAIN circq[b] : distance(circq[b][i]) > 0

(* The timeouts behave as timers that count ticks down and are called, one *)
(* at a time, when the count is used up: the wheels, the wrapping of ticks *)
(* and to_time and the timeouts left in place by timeout_add do not show.  *)
(* Each timer's count is the signed distance the comment at                *)
(* kern_timeout.c:120 speaks of.                                           *)
T == INSTANCE Timers WITH
       Timers <- Timeouts, NoTimer <- NoTimeout,
       Delays <- Delays,
       armed <- {t \in Timeouts : pending(t)},
       left <- [t \in Timeouts |-> IF pending(t) THEN distance(t) ELSE 0],
       called <- running

TimersImplemented == T!Spec

(* Under the fairness of the clock and of the soft interrupt, time passes  *)
(* and every timeout that is due is called, unless it is deleted or added  *)
(* again first; a function that adds itself again with no delay does not   *)
(* starve the others.                                                      *)
DueTimeoutsFire == T!Fairness
=============================================================================
