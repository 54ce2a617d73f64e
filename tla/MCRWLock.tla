------------------------------ MODULE MCRWLock ------------------------------
(* RWLock for TLC: one process passes flags, the other two pass none. *)
EXTENDS RWLock

CONSTANTS p1, p2, p3

MCProcs == {p1, p2, p3}

MCFlags ==
  [p \in Procs |-> IF p = p1 THEN {{"INTR"}, {"SLEEPFAIL"}, {"NOSLEEP"}} ELSE {{}}]
=============================================================================
