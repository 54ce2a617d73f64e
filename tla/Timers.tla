------------------------------- MODULE Timers -------------------------------
(***************************************************************************)
(* What sys/timeout.h promises of a set of timeouts: each is armed or not, *)
(* an armed one counts clock ticks down, its function is called once, not  *)
(* before the count is used up, and sooner or later after that; functions  *)
(* run one at a time.                                                      *)
(***************************************************************************)
EXTENDS Integers

CONSTANTS
  Timers, NoTimer,
  Delays,      \* the delays they can be armed with, in ticks: naturals
  MaxLate      \* ticks by which a timer may fire late

VARIABLES
  armed,       \* the timers that will fire
  left,        \* the ticks each armed timer still has to wait
  called       \* the timer whose function runs

vars == <<armed, left, called>>

Init == armed = {} /\ left = [t \in Timers |-> 0] /\ called = NoTimer

Arm(t, n) == /\ armed' = armed \cup {t}
             /\ left' = [left EXCEPT ![t] = n]
             /\ UNCHANGED called

Idle(t) == /\ armed' = armed \ {t}
           /\ left' = [left EXCEPT ![t] = 0]

Disarm(t) == Idle(t) /\ UNCHANGED called

Due(t) == t \in armed /\ left[t] <= 0

Fire(t) == /\ Due(t)
           /\ called = NoTimer /\ called' = t
           /\ Idle(t)

Return == /\ called # NoTimer /\ called' = NoTimer
          /\ UNCHANGED <<armed, left>>

Tick == /\ \A t \in armed : left[t] > -MaxLate
        /\ left' = [t \in Timers |-> IF t \in armed THEN left[t] - 1 ELSE 0]
        /\ UNCHANGED <<armed, called>>

Next ==
  \/ \E t \in Timers : Disarm(t) \/ Fire(t) \/ \E n \in Delays : Arm(t, n)
  \/ Tick \/ Return

Spec == Init /\ [][Next]_vars

(* Time passes, functions return, and no timer stays due for ever. *)
Fairness == /\ WF_vars(Tick) /\ WF_vars(Return)
            /\ \A t \in Timers : []<>~Due(t)

FairSpec == Spec /\ Fairness
=============================================================================
