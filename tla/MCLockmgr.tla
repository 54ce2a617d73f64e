------------------------------ MODULE MCLockmgr ------------------------------
(***************************************************************************)
(* An instance of Lockmgr.  Four processes, one of which also drains, give *)
(* a holder, a waiter in each ACQUIRE and a fourth to come in between.     *)
(***************************************************************************)
EXTENDS Lockmgr, TLC

CONSTANTS p1, p2, p3, p4

MCPrios == {"PINOD", "PCATCH"}
MCProcs == {p1, p2, p3, p4}
==============================================================================
