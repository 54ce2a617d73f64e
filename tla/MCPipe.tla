------------------------------- MODULE MCPipe --------------------------------
(***************************************************************************)
(* Instances of Pipe: a buffer of 3 bytes that can grow to 4, and writes   *)
(* of up to 2 bytes atomic.                                                *)
(***************************************************************************)
EXTENDS Pipe, TLC

CONSTANTS r1, w1, w2

OneReader == {r1}
TwoWriters == {w1, w2}

\* atomic; larger than the buffer
MixedWrites == {2, 4}
Read2 == {2}

EINTR == {"EINTR"}
AllFailures == {"EINTR", "EAGAIN", "EFAULT"}

\* Bytes of the buffer that are neither to be read nor being written are dead.
live == IF readable THEN {(out + i) % size : i \in 0 .. cnt - 1} \cup
                         (IF \E p \in Writers : pc[p] = "wcopy2" THEN in .. size - 1 ELSE {})
                    ELSE {}

\* So is the uio of a call that only has to unlock, count itself out and return.
liveuio == [p \in Procs |-> IF pc[p] \in {"rdone", "rout", "rsel", "wout", "wsel", "werror", "return"}
                              THEN NoUio ELSE uio[p]]

LiveState ==
  <<[i \in live |-> buffer[i]], in, out, cnt, size, pipe_state, pipe_busy, nbigpipe,
    endvars, pc, liveuio, asleep, curproc, selecting, sent>>

Symmetry == Permutations(Readers) \cup Permutations(Writers)
==============================================================================
