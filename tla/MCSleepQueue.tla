---------------------------- MODULE MCSleepQueue -----------------------------
(***************************************************************************)
(* Instances of SleepQueue with two processes: sleeps on one channel that  *)
(* a wakeup, a signal or the timeout may end, mixed with sleeps that only  *)
(* a wakeup ends; and msleep() on two channels of the same hash chain.     *)
(***************************************************************************)
EXTENDS SleepQueue

CONSTANTS p1, p2, c1, c2

MCProcs == {p1, p2}
MCIdents == {c1, c2}
OneIdent == {c1}
Never == {FALSE}
MixedSleeps == {[catch |-> b, timo |-> b, mtx |-> FALSE] : b \in BOOLEAN}
MutexSleeps == {[catch |-> TRUE, timo |-> FALSE, mtx |-> TRUE]}
==============================================================================
