------------------------------ MODULE MCTimeout ------------------------------
(***************************************************************************)
(* Instances of Timeout: one timeout on wheels of 2 bits (8-bit ints, with *)
(* intervals on both sides of every wheel boundary), and two timeouts on   *)
(* wheels of 1 bit (4-bit ints).                                           *)
(***************************************************************************)
EXTENDS Timeout, TLC

CONSTANTS t1, t2

One == {t1}
Two == {t1, t2}

\* hz = 4 and tick = 5: 1 second is the boundary of wheel 0, 4 of wheel 1,
\* 16 of wheel 2; 32 seconds are clamped to INT_MAX = 127.
BoundarySecs == {0, 1, 4, 16, 32}
BoundaryUsecs == {0, 5}

\* hz = 2 and tick = 1: no delay, one on the second wheel, and one clamped
\* to INT_MAX = 7
FewSecs == {0, 1, 4}
FewUsecs == {0}

\* to_time is dead while a timeout is not pending: timeout_add reads it only
\* if ONQUEUE is set, and softclock only from a queue.
LiveState ==
  <<ticks, [t \in Timeouts |-> IF pending(t) THEN to_time[t] ELSE 0],
    to_flags, circq, softpend, softclock, running>>
==============================================================================
