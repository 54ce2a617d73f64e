------------------------------- MODULE MCLockf -------------------------------
(***************************************************************************)
(* Instances of Lockf: two threads of one process and another process, or  *)
(* one thread in each of two processes.                                    *)
(***************************************************************************)
EXTENDS Lockf

CONSTANTS p1, p2, p3, d1, d2, f1, f2

ThreeThreads == {p1, p2, p3}
Shared == p1 :> d1 @@ p2 :> d1 @@ p3 :> d2

TwoThreads == {p1, p2}
Apart == p1 :> d1 @@ p2 :> d2

MCFiledescs == {d1, d2}
MCFiles == {f1, f2}

(* With these, and the pieces left by splitting them, a lock and an own    *)
(* lock overlap in each of the ways that lf_findoverlap() tells apart.     *)
Pieces == [start : {0, 1}, end : {1, EOF}]

(* The other thread of p1's process locks all; the other process locks one *)
(* byte in the middle.                                                     *)
MCRanges == p1 :> Pieces @@ p2 :> {Whole} @@ p3 :> {[start |-> 1, end |-> 1]}
AllPieces == [p \in Procs |-> Pieces]

(* With 1, an unlock is refused; with 3, two owners of a shared flock()    *)
(* lock can both ask for an exclusive one.                                 *)
MCLimits == {1, 3}
HighLimit == {4}

Symmetry == Permutations(MCFiles)
==============================================================================
