------------------------------- MODULE MCWorkq -------------------------------
(***************************************************************************)
(* An instance of Workq: three tasks, and three threads to be forked for a *)
(* queue of two.                                                           *)
(***************************************************************************)
EXTENDS Workq, TLC

CONSTANTS h1, h2, h3, w1, w2, w3

MCThreads == {h1, h2, h3}
MCTasks == {w1, w2, w3}
==============================================================================
