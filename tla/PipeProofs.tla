----------------------------- MODULE PipeProofs -----------------------------
(***************************************************************************)
(* The pipe's lock, its count of users and its sleepers, for any number of *)
(* readers and writers.  PipeDataProofs goes on to what the circular       *)
(* buffer holds, and concludes.                                            *)
(*                                                                         *)
(* A call moves one process from one place in the code to another.  What a *)
(* move does to the lock and to the count depends only on whether the two  *)
(* places are under the lock and whether they are counted (MoveKeeps).     *)
(***************************************************************************)
EXTENDS Pipe, FiniteSetTheorems, TLAPS

ReadPcs == {"idle", "rlock0", "rloop", "rcopy", "rwait", "rsleep", "rlock", "rdone",
            "rout", "rsel", "return"}
WritePcs == {"idle", "wbig", "wresize", "werror", "wloop", "wlock", "wlocked", "wcopy",
             "wcopy2", "wwait", "wsleep", "wout", "wsel", "return"}
Holds == {"rloop", "rcopy", "rwait", "rdone", "wresize", "wlocked", "wcopy", "wcopy2"}
Counted == InRead \cup InWrite
Sleepable == Locking \cup {"rsleep", "wsleep", "closing"}
Users == {p \in Procs : pc[p] \in Counted}

Legal(p, l) ==
  /\ p \in Readers => l \in ReadPcs
  /\ p \in Writers => l \in WritePcs
  /\ p = Closer => l \in {"idle", "closing"}

LockInv ==
  /\ pc \in [Procs -> ReadPcs \cup WritePcs \cup {"closing"}]
  /\ \A p \in Procs : Legal(p, pc[p])
  /\ pipe_state \subseteq Flags
  /\ \A p, q \in Procs : pc[p] \in Holds /\ pc[q] \in Holds => p = q
  /\ "LOCK" \in pipe_state <=> \E p \in Procs : pc[p] \in Holds
  /\ asleep \subseteq Procs /\ \A p \in asleep : pc[p] \in Sleepable
  /\ curproc \in Procs \cup {NoProc} /\ curproc \notin asleep
  /\ readable \in BOOLEAN
  /\ pc[Closer] = "closing" => readable /\ \A p \in Readers : pc[p] = "idle"
  /\ ~readable => \A p \in Procs : pc[p] \notin Counted \cup {"rlock0"}
-----------------------------------------------------------------------------
(* Process p goes from pc[p] to b, and the lock, the count and the         *)
(* sleepers follow.                                                        *)
Move(p, b) ==
  /\ p \in Procs /\ Legal(p, b) /\ b \in ReadPcs \cup WritePcs \cup {"closing"}
  /\ pc' = [pc EXCEPT ![p] = b]
  /\ pipe_state' \subseteq Flags
  /\ IF pc[p] \in Holds <=> b \in Holds
       THEN "LOCK" \in pipe_state' <=> "LOCK" \in pipe_state
       ELSE IF b \in Holds THEN "LOCK" \notin pipe_state /\ "LOCK" \in pipe_state'
                           ELSE "LOCK" \notin pipe_state'
  /\ pipe_busy' = IF pc[p] \in Counted
                    THEN IF b \in Counted THEN pipe_busy ELSE pipe_busy - 1
                    ELSE IF b \in Counted THEN pipe_busy + 1 ELSE pipe_busy
  /\ asleep' \subseteq asleep \cup {p} /\ (p \in asleep' => b \in Sleepable)
  /\ curproc' \in Procs \cup {NoProc} /\ curproc' \notin asleep'
  /\ readable' = readable
  /\ pc[p] = "idle" /\ b # "idle" =>
       /\ readable
       /\ p \in Readers => pc[Closer] = "idle"
       /\ p = Closer => \A q \in Readers : pc[q] = "idle"
  /\ b \in Counted \cup {"rlock0"} => pc[p] \in Counted \cup {"rlock0", "idle"}

LEMMA MoveKeeps ==
  ASSUME LockInv, NEW p, NEW b, Move(p, b)
  PROVE  LockInv'
<1>1. p \in Procs /\ pc'[p] = b /\ \A q \in Procs \ {p} : pc'[q] = pc[q]
  BY Zenon DEF Move, LockInv
<1>2. pc' \in [Procs -> ReadPcs \cup WritePcs \cup {"closing"}] /\ \A q \in Procs : Legal(q, pc[q])'
  BY <1>1, Zenon DEF Move, LockInv, Legal
<1>3. /\ \A q, r \in Procs : pc'[q] \in Holds /\ pc'[r] \in Holds => q = r
      /\ "LOCK" \in pipe_state' <=> \E q \in Procs : pc'[q] \in Holds
  BY <1>1 DEF Move, LockInv
<1>5. asleep' \subseteq Procs /\ \A q \in asleep' : pc'[q] \in Sleepable
  BY <1>1, Zenon DEF Move, LockInv
<1>6. pc'[Closer] = "closing" => readable' /\ \A q \in Readers : pc'[q] = "idle"
  <2> SUFFICES ASSUME pc'[Closer] = "closing" PROVE readable' /\ \A q \in Readers : pc'[q] = "idle"
    OBVIOUS
  <2>0. Closer \in Procs /\ \A q \in Readers : q \in Procs /\ q # Closer
    BY PipeAssumption, Zenon DEF Procs
  <2>1. CASE p = Closer
    BY <1>1, <2>0, <2>1, Zenon DEF Move, LockInv, Legal
  <2>2. CASE p # Closer
    BY <1>1, <2>0, <2>2, Zenon DEF Move, LockInv
  <2> QED BY <2>1, <2>2, Zenon
<1>7. ~readable' => \A q \in Procs : pc'[q] \notin Counted \cup {"rlock0"}
  <2>1. "idle" \notin Counted \cup {"rlock0"}
    BY Zenon DEF Counted, InRead, InWrite
  <2> QED BY <1>1, <2>1, Zenon DEF Move, LockInv
<1> QED BY <1>2, <1>3, <1>5, <1>6, <1>7, Zenon DEF Move, LockInv

(* Nobody moves. *)
Stay ==
  /\ pc' = pc /\ pipe_state' \subseteq Flags
  /\ "LOCK" \in pipe_state' <=> "LOCK" \in pipe_state
  /\ pipe_busy' = pipe_busy
  /\ asleep' \subseteq Procs /\ \A p \in asleep' : pc[p] \in Sleepable
  /\ curproc' \in Procs \cup {NoProc} /\ curproc' \notin asleep' /\ readable' = readable

LEMMA StayKeeps ==
  ASSUME LockInv, Stay
  PROVE  LockInv'
BY Zenon DEF Stay, LockInv, Legal
-----------------------------------------------------------------------------
LEMMA ProcFacts ==
  /\ Closer \in Procs /\ NoProc \notin Procs
  /\ \A p \in Readers : p \in Procs /\ p \notin Writers /\ p # Closer
  /\ \A p \in Writers : p \in Procs /\ p \notin Readers /\ p # Closer
BY PipeAssumption, Zenon DEF Procs

(* One step of a read is a move. *)
LEMMA ReadMoves ==
  ASSUME LockInv, NEW p \in Readers, read(p)
  PROVE  \E b : Move(p, b)
<1> USE DEF ReadPcs, Legal, Holds, Counted, InRead, InWrite, Sleepable, Locking
<1>p. /\ p \in Procs /\ p \notin Writers /\ p # Closer /\ p # NoProc /\ Closer # NoProc
      /\ pipe_state \subseteq Flags /\ asleep \subseteq Procs /\ curproc \in Procs \cup {NoProc}
      /\ curproc \notin asleep /\ NoProc \notin asleep
      /\ \A q \in asleep : pc[q] \in Sleepable
  BY ProcFacts, Zenon DEF LockInv
<1>1. pipe_read(p) => Move(p, "rlock0")
  BY <1>p, Zenon DEF pipe_read, Move, Goto, pipevars, endvars
<1>2. ReadSome(p) => Move(p, "rcopy")
  BY <1>p, Zenon DEF ReadSome, Move, Goto, At, pipevars, endvars
<1>3. ReadCopied(p) => Move(p, "rloop")
  BY <1>p, Zenon DEF ReadCopied, Move, Goto, endvars
<1>4. ReadFault(p) => Move(p, "rdone")
  BY <1>p, Zenon DEF ReadFault, Move, Goto, pipevars, endvars
<1>5. ReadEnough(p) => Move(p, "rdone")
  BY <1>p, Zenon DEF ReadEnough, Move, Goto, At, pipevars, endvars
<1>6. ReadEmpty(p) => Move(p, "rdone") \/ Move(p, "rwait")
  BY <1>p, Zenon DEF ReadEmpty, Move, Goto, At, endvars, WakeIf, Flag, wakeup
<1>7. ReadWait(p) => Move(p, "rout") \/ Move(p, "rsleep")
  <2>1. ReadWait(p) /\ pipeunlock({}) /\ Goto(p, "rout") /\ UNCHANGED curproc => Move(p, "rout")
    BY <1>p, Zenon DEF ReadWait, Move, Goto, At, endvars, pipeunlock, Flag
  <2>2. ASSUME ReadWait(p), Goto(p, "rsleep") PROVE Move(p, "rsleep")
    <3>1. /\ pc[p] = "rwait" /\ pc' = [pc EXCEPT ![p] = "rsleep"]
          /\ pipe_busy' = pipe_busy /\ readable' = readable
      BY <2>2, Zenon DEF ReadWait, At, Goto, endvars
    <3>2. /\ curproc' = NoProc /\ pipe_state' = (pipe_state \ {"LOCK", "LWANT"}) \cup {"WANTR"}
          /\ asleep' \subseteq asleep \cup {p}
      <4>1. "rsleep" # "rout" /\ pc \in [Procs -> ReadPcs \cup WritePcs \cup {"closing"}]
        BY Zenon DEF LockInv
      <4> QED BY <1>p, <2>2, <4>1, Zenon DEF ReadWait, Goto, Flag
    <3> QED BY <1>p, <3>1, <3>2, Zenon DEF Move, Flags
  <2> QED BY <2>1, <2>2, Zenon DEF ReadWait
<1>8. ReadAgain(p) => Move(p, "rlock")
  BY <1>p, Zenon DEF ReadAgain, Move, Goto, At, pipevars, endvars
<1>9. ReadDone(p) => Move(p, "rout")
  BY <1>p, Zenon DEF ReadDone, Move, Goto, At, endvars, pipeunlock, Flag
<1>10. ReadOut(p) => Move(p, "rsel")
  BY <1>p, Zenon DEF ReadOut, Move, Goto, At, endvars, WakeIf, Flag, wakeup
<1>11. ReadSel(p) => Move(p, "return")
  BY <1>p, Zenon DEF ReadSel, Move, Goto, At, endvars, pipeselwakeup, Flag
<1> QED BY <1>1, <1>2, <1>3, <1>4, <1>5, <1>6, <1>7, <1>8, <1>9, <1>10, <1>11, Zenon DEF read

(* One step of a write is one. *)
LEMMA WriteMoves ==
  ASSUME LockInv, NEW p \in Writers, write(p)
  PROVE  \E b : Move(p, b)
<1> USE DEF WritePcs, Legal, Holds, Counted, InRead, InWrite, Sleepable, Locking
<1>p. /\ p \in Procs /\ p \notin Readers /\ p # Closer /\ p # NoProc /\ Closer # NoProc
      /\ pipe_state \subseteq Flags /\ asleep \subseteq Procs /\ curproc \in Procs \cup {NoProc}
      /\ curproc \notin asleep /\ NoProc \notin asleep
      /\ \A q \in asleep : pc[q] \in Sleepable
  BY ProcFacts, Zenon DEF LockInv
<1>1. pipe_write(p) => Move(p, "wbig") \/ Move(p, "wloop")
  BY <1>p, Zenon DEF pipe_write, Move, Goto, endvars
<1>2. WriteResize(p) => Move(p, "wloop")
  BY <1>p, Zenon DEF WriteResize, Move, Goto, At, endvars, pipeunlock, Flag
<1>3. WriteError(p) => Move(p, "return")
  BY <1>p, Zenon DEF WriteError, Move, Goto, At, endvars, WakeIf, Flag, wakeup
<1>4. WriteEnough(p) => Move(p, "wout")
  BY <1>p, Zenon DEF WriteEnough, Move, Goto, At, pipevars, endvars
<1>5. WriteSome(p) => Move(p, "wlock")
  BY <1>p, Zenon DEF WriteSome, Move, Goto, At, pipevars, endvars
<1>6. WriteLocked(p) => Move(p, "wloop") \/ Move(p, "wcopy")
  BY <1>p DEF WriteLocked, Move, Goto, At, endvars, pipeunlock, Flag
<1>7. WriteCopied(p) => Move(p, "wcopy2")
  BY <1>p, Zenon DEF WriteCopied, Move, Goto, endvars
<1>8. WriteCommit(p) => Move(p, "wloop")
  BY <1>p, Zenon DEF WriteCommit, Move, Goto, endvars, pipeunlock, Flag
<1>9. WriteFault(p) => Move(p, "wout")
  BY <1>p, Zenon DEF WriteFault, Move, Goto, endvars, pipeunlock, Flag
<1>10. WriteFull(p) => Move(p, "wout") \/ Move(p, "wwait")
  BY <1>p, Zenon DEF WriteFull, Move, Goto, At, endvars, WakeIf, Flag, wakeup
<1>11. WriteWait(p) => Move(p, "wsleep")
  BY <1>p, Zenon DEF WriteWait, Move, Goto, At, endvars, tsleep, Flag, Flags
<1>12. WriteAgain(p) => Move(p, "wloop")
  BY <1>p, Zenon DEF WriteAgain, Move, Goto, At, pipevars, endvars
<1>13. WriteOut(p) => Move(p, "wsel")
  BY <1>p, Zenon DEF WriteOut, Move, Goto, At, endvars, WakeIf, Flag, wakeup
<1>14. WriteSel(p) => Move(p, "return")
  BY <1>p, Zenon DEF WriteSel, Move, Goto, At, endvars, pipeselwakeup, Flag
<1> QED BY Zenon, <1>1, <1>2, <1>3, <1>4, <1>5, <1>6, <1>7, <1>8, <1>9, <1>10, <1>11, <1>12, <1>13,
           <1>14 DEF write

(* pipelock(), the scheduler, signals, returns and closes. *)
LEMMA OtherMoves ==
  ASSUME LockInv, NEW p \in Procs,
         \/ Resume(p) \/ pipelock(p) \/ Return(p) \/ Interrupt(p)
         \/ p = Closer /\ (CloseWait \/ pipeclose \/ ClosePeer)
         \/ \E e \in {"in", "out"} : pipe_poll(e)
  PROVE  Stay \/ \E b : Move(p, b)
<1> USE DEF Counted, InRead, InWrite, Sleepable, Locking
<1>a. /\ pipe_state \subseteq Flags /\ asleep \subseteq Procs /\ curproc \in Procs \cup {NoProc}
      /\ curproc \notin asleep /\ NoProc \notin asleep /\ NoProc # p /\ NoProc # Closer
      /\ \A q \in asleep : pc[q] \in Sleepable
      /\ Closer \in Procs /\ Legal(p, pc[p])
      /\ (p \in Readers \/ p \in Writers \/ p = Closer)
  BY ProcFacts, Zenon DEF LockInv, Procs
<1>1. Resume(p) => Stay
  BY <1>a, Zenon DEF Resume, Stay, pipevars, endvars
<1>2. ASSUME pipelock(p), "LOCK" \in pipe_state PROVE Stay
  <2>1. /\ pc' = pc /\ pipe_busy' = pipe_busy /\ readable' = readable /\ pc[p] \in Locking
        /\ pipe_state' = pipe_state \cup {"LWANT"} /\ asleep' = asleep \cup {p} /\ curproc' = NoProc
    BY <1>2, Zenon DEF pipelock, Flag, tsleep, endvars
  <2> QED BY <1>a, <2>1, Zenon DEF Stay, Flags
<1>3. ASSUME pipelock(p), "LOCK" \notin pipe_state PROVE Move(p, locked(pc[p]))
  <2>1. /\ pc[p] \in Locking /\ pc[p] \notin Holds /\ locked(pc[p]) \in Holds \cap Counted
        /\ pc[p] \in Counted \cup {"rlock0"} /\ (pc[p] \in Counted <=> pc[p] # "rlock0")
    BY <1>3, Zenon DEF pipelock, locked, Holds
  <2>2. Legal(p, locked(pc[p])) /\ locked(pc[p]) \in ReadPcs \cup WritePcs
    BY <1>a, <2>1, Zenon DEF Legal, locked, ReadPcs, WritePcs
  <2>3. /\ pc' = [pc EXCEPT ![p] = locked(pc[p])] /\ readable' = readable
        /\ pipe_state' = pipe_state \cup {"LOCK"} /\ asleep' = asleep /\ curproc' = curproc
        /\ pipe_busy' = IF pc[p] = "rlock0" THEN pipe_busy + 1 ELSE pipe_busy
        /\ p \notin asleep /\ pc[p] # "idle"
    BY <1>3, <1>a, Zenon DEF pipelock, Flag, Goto, endvars
  <2> QED BY ONLY <1>a, <1>3, <2>1, <2>2, <2>3, p \in Procs, Zenon DEF Move, Flags
<1>4. Return(p) => Move(p, "idle")
  BY <1>a, Zenon DEF Return, Move, Goto, At, Legal, ReadPcs, WritePcs, Holds, pipevars, endvars
<1>5. ASSUME Interrupt(p) PROVE Move(p, interrupted(pc[p]))
  <2>1. p \in asleep /\ p # Closer /\ pc[p] \in Sleepable \ {"closing"}
    BY <1>5, <1>a, Zenon DEF Interrupt, Legal, ReadPcs, WritePcs
  <2>2. /\ interrupted(pc[p]) \in {"return", "rout", "werror", "wout"}
        /\ Legal(p, interrupted(pc[p]))
        /\ pc[p] # "rlock0" => interrupted(pc[p]) # "return"
        /\ pc[p] = "rlock0" => interrupted(pc[p]) = "return"
    BY <1>a, <2>1, Zenon DEF interrupted, Legal, ReadPcs, WritePcs
  <2> QED BY <1>5, <1>a, <2>1, <2>2, Zenon
          DEF Interrupt, Move, Goto, ReadPcs, WritePcs, Holds, pipevars, endvars
<1>6. CloseWait => Stay
  BY <1>a, Zenon DEF CloseWait, Stay, At, Flag, Flags, endvars
<1>7. p = Closer /\ pipeclose => Move(p, "closing")
  BY <1>a, ProcFacts, Zenon DEF pipeclose, Move, Legal, Holds, Goto, Flag, Flags, endvars
<1>8. ClosePeer => Stay
  <2>1. ClosePeer => /\ pipe_state' \subseteq pipe_state \cup {"EOF"} /\ asleep' \subseteq asleep
                     /\ pipe_state \ {"SEL"} \subseteq pipe_state'
    BY Zenon DEF ClosePeer, Flag, wakeup
  <2>2. ClosePeer => /\ pc' = pc /\ pipe_busy' = pipe_busy /\ readable' = readable
                     /\ curproc' = curproc
    BY Zenon DEF ClosePeer
  <2>3. ClosePeer => /\ pipe_state' \subseteq Flags /\ asleep' \subseteq asleep
                     /\ "LOCK" \in pipe_state' <=> "LOCK" \in pipe_state
    BY <2>1, <1>a, Zenon DEF Flags
  <2> QED BY <2>2, <2>3, <1>a, Zenon DEF Stay
<1>9. (\E e \in {"in", "out"} : pipe_poll(e)) => Stay
  BY <1>a, Zenon DEF pipe_poll, Stay, Flag, Flags, endvars
<1> QED BY <1>1, <1>2, <1>3, <1>4, <1>5, <1>6, <1>7, <1>8, <1>9, Zenon

(* Every step moves one process, moves nobody, or frees the pipe. *)
LEMMA NextMoves ==
  ASSUME LockInv, [Next]_vars
  PROVE  Stay \/ (\E p, b : Move(p, b)) \/ CloseFree
<1>1. CASE UNCHANGED vars
  BY <1>1, Zenon DEF Stay, vars, pipevars, endvars, LockInv
<1>2. ASSUME NEW p \in Procs, Step(p) \/ Interrupt(p)
      PROVE  Stay \/ (\E b : Move(p, b)) \/ CloseFree
  BY <1>2, ReadMoves, WriteMoves, OtherMoves, Zenon DEF Step
<1>3. CASE pipeclose \/ ClosePeer \/ \E e \in {"in", "out"} : pipe_poll(e)
  BY <1>3, OtherMoves, ProcFacts, Zenon
<1> QED BY <1>1, <1>2, <1>3, Zenon DEF Next

(* pipe_busy is zero when no call is counted, and only then. *)
Counts == pipe_busy \in Nat /\ (pipe_busy = 0 <=> Users = {})

(* The pipe is freed: nobody is counted, and no reader is on its way in. *)
LEMMA FreeKeeps ==
  ASSUME LockInv, Counts, CloseFree
  PROVE  LockInv'
<1>1. /\ pc[Closer] = "closing" /\ readable' = FALSE
      /\ pc' = [pc EXCEPT ![Closer] = "idle"] /\ curproc' = NoProc /\ curproc = Closer
      /\ pipe_state' = pipe_state /\ asleep' = asleep /\ Users = {}
  BY Zenon DEF CloseFree, At, Goto, Counts
<1>2. /\ \A q \in Readers : pc[q] = "idle" /\ q # Closer
      /\ Closer \in Procs /\ NoProc \notin asleep /\ Closer \notin asleep
  BY <1>1, ProcFacts, Zenon DEF LockInv
<1>3. \A q \in Procs : pc[q] \notin Counted \cup {"rlock0"}
  BY <1>1, <1>2, Zenon DEF Users, LockInv, Legal, WritePcs, Procs
<1>4. "idle" \notin Counted \cup Holds \cup {"rlock0"} /\ "closing" \notin Counted \cup Holds
  BY Zenon DEF Counted, InRead, InWrite, Holds
<1>5. pc'[Closer] = "idle" /\ \A q \in Procs \ {Closer} : pc'[q] = pc[q]
  BY <1>1, <1>2, Zenon DEF LockInv
<1>6. /\ pc' \in [Procs -> ReadPcs \cup WritePcs \cup {"closing"}]
      /\ \A q \in Procs : Legal(q, pc[q])'
  BY <1>1, <1>5, Zenon DEF LockInv, Legal, ReadPcs, WritePcs
<1>7. /\ \A q, r \in Procs : pc'[q] \in Holds /\ pc'[r] \in Holds => q = r
      /\ "LOCK" \in pipe_state' <=> \E q \in Procs : pc'[q] \in Holds
      /\ \A q \in asleep' : pc'[q] \in Sleepable
  BY <1>1, <1>2, <1>4, <1>5 DEF LockInv
<1>8. \A q \in Procs : pc'[q] \notin Counted \cup {"rlock0"}
  BY <1>3, <1>4, <1>5, Zenon
<1> QED BY <1>1, <1>2, <1>5, <1>6, <1>7, <1>8, Zenon DEF LockInv

LEMMA LockInvInit == Init => LockInv
<1> SUFFICES ASSUME Init PROVE LockInv
  OBVIOUS
<1>1. \A p \in Procs : pc[p] = "idle"
  BY Zenon DEF Init
<1>2. "idle" \notin Counted \cup Holds \cup {"rlock0"}
  BY Zenon DEF Counted, InRead, InWrite, Holds
<1>3. \A p \in Procs : Legal(p, pc[p])
  BY <1>1, Zenon DEF Legal, ReadPcs, WritePcs
<1> QED BY <1>1, <1>2, <1>3, ProcFacts, Zenon DEF Init, LockInv, ReadPcs

LEMMA LockInvNext ==
  ASSUME LockInv, Counts, [Next]_vars
  PROVE  LockInv'
BY NextMoves, StayKeeps, MoveKeeps, FreeKeeps, Zenon

-----------------------------------------------------------------------------
(* pipe_busy is the number of calls under way. *)
Counting == pipe_busy = Cardinality(Users)

LEMMA UsersFinite == IsFiniteSet(Users) /\ Cardinality(Users) \in Nat
<1>1. IsFiniteSet(Readers \cup Writers)
  BY PipeAssumption, FS_Union, Zenon
<1>2. IsFiniteSet(Procs)
  BY <1>1, FS_AddElement, Zenon DEF Procs
<1>3. Users \subseteq Procs
  BY Zenon DEF Users
<1> QED BY <1>2, <1>3, FS_Subset, FS_CardinalityType

LEMMA CountingCounts == Counting => Counts
BY UsersFinite, FS_EmptySet DEF Counting, Counts

LEMMA CountingNext ==
  ASSUME LockInv, Counting, [Next]_vars
  PROVE  Counting'
<1>1. pipe_busy = Cardinality(Users) /\ pipe_busy \in Nat /\ IsFiniteSet(Users)
  BY UsersFinite, Zenon DEF Counting
<1>2. CASE Stay
  BY <1>2, Zenon DEF Stay, Counting, Users
<1>3. ASSUME NEW p, NEW b, Move(p, b) PROVE Counting'
  <2>1. /\ p \in Procs /\ pc'[p] = b /\ \A q \in Procs \ {p} : pc'[q] = pc[q]
        /\ p \in Users <=> pc[p] \in Counted
    BY <1>3 DEF Move, LockInv, Users
  <2>2. CASE b \in Counted
    <3>1. Users' = Users \cup {p}
      BY <2>1, <2>2 DEF Users
    <3>2. Cardinality(Users') = IF p \in Users THEN Cardinality(Users) ELSE Cardinality(Users) + 1
      BY <1>1, <3>1, FS_AddElement
    <3> QED BY <1>1, <1>3, <2>1, <2>2, <3>2 DEF Move, Counting
  <2>3. CASE b \notin Counted
    <3>1. Users' = Users \ {p}
      BY <2>1, <2>3 DEF Users
    <3>2. Cardinality(Users') = IF p \in Users THEN Cardinality(Users) - 1 ELSE Cardinality(Users)
      BY <1>1, <3>1, FS_RemoveElement
    <3> QED BY <1>1, <1>3, <2>1, <2>3, <3>2 DEF Move, Counting
  <2> QED BY <2>2, <2>3, Zenon
<1>4. CASE CloseFree
  <2>1. pipe_busy' = pipe_busy /\ pc' = [pc EXCEPT ![Closer] = "idle"] /\ pc[Closer] = "closing"
    BY <1>4, Zenon DEF CloseFree, At, Goto
  <2>2. Users' = Users
    BY <2>1, ProcFacts DEF LockInv, Users, Counted, InRead, InWrite
  <2> QED BY <2>1, <2>2, Zenon DEF Counting
<1> QED BY <1>2, <1>3, <1>4, NextMoves

LEMMA CountingInit == Init => Counting
<1> SUFFICES ASSUME Init PROVE Counting
  OBVIOUS
<1>1. Users = {}
  BY Zenon DEF Init, Users, Counted, InRead, InWrite
<1> QED BY <1>1, FS_EmptySet, Zenon DEF Init, Counting

(* PIPE_LOCK is held by the one process between pipelock() and             *)
(* pipeunlock(), pipe_busy counts the calls, and a freed pipe has none.    *)
THEOREM LockExact == Spec => []LockAndBusy
<1>1. LockInv /\ Counting => LockAndBusy
  <2> SUFFICES ASSUME LockInv, Counting PROVE LockAndBusy
    OBVIOUS
  <2> DEFINE holders == {p \in Procs : pc[p] \in Holds}
  <2>1. Cardinality(holders) = IF "LOCK" \in pipe_state THEN 1 ELSE 0
    <3>1. CASE "LOCK" \notin pipe_state
      <4>1. holders = {}
        BY <3>1, Zenon DEF LockInv
      <4> QED BY <3>1, <4>1, FS_EmptySet
    <3>2. CASE "LOCK" \in pipe_state
      <4>1. PICK p \in Procs : pc[p] \in Holds
        BY <3>2, Zenon DEF LockInv
      <4>2. holders = {p}
        BY <4>1, Zenon DEF LockInv
      <4> QED BY <3>2, <4>2, FS_Singleton, Zenon
    <3> QED BY <3>1, <3>2, Zenon
  <2>2. /\ holders = {p \in Procs : pc[p] \in {"rloop", "rcopy", "rwait", "rdone", "wresize",
                                               "wlocked", "wcopy", "wcopy2"}}
        /\ Users = {p \in Procs : pc[p] \in InRead \cup InWrite}
    BY Zenon DEF Holds, Users, Counted
  <2> HIDE DEF holders
  <2>3. pipe_busy = Cardinality({p \in Procs : pc[p] \in InRead \cup InWrite})
    BY <2>2, Zenon DEF Counting
  <2>4. ~readable => \A p \in Procs : pc[p] \notin InRead \cup InWrite \cup {"rlock0"}
    BY Zenon DEF LockInv, Counted
  <2> QED BY <2>1, <2>2, <2>3, <2>4 DEF LockAndBusy
<1>2. LockInv /\ Counting /\ [Next]_vars => (LockInv /\ Counting)'
  BY CountingCounts, LockInvNext, CountingNext
<1> QED BY <1>1, <1>2, LockInvInit, CountingInit, PTL DEF Spec

(***************************************************************************)
(* Sleepers.  Each sleeps for a reason that has left a flag for the        *)
(* process that will wake it (Reason).  When the reason is gone, there is  *)
(* such a process, at a place in the code from where it will run the       *)
(* wakeup before it sleeps or returns (ReadersTold, WritersTold, InTold,   *)
(* OutTold).  A step keeps this when those it leaves asleep are told of    *)
(* what it did (Tell, TellKeeps).                                          *)
(***************************************************************************)
(* Why a process sleeps, and the flag that will have it woken. *)
Reason(p) ==
  \/ pc[p] \in Locking /\ "LOCK" \in pipe_state /\ "LWANT" \in pipe_state
  \/ pc[p] = "rsleep" /\ "WANTR" \in pipe_state
  \/ pc[p] = "wsleep" /\ "WANTW" \in pipe_state
  \/ pc[p] = "closing" /\ "WANT" \in pipe_state /\ pipe_busy > 0

Sleeping(l) == \E p \in asleep : pc[p] = l

(* A process about to sleep, or in a transfer. *)
Poised(p) ==
  /\ pc[p] = "rwait" => curproc = p /\ cnt = 0 /\ "EOF" \notin pipe_state
  /\ pc[p] = "wwait" => curproc = p /\ cnt >= MINPIPESIZE /\ "EOF" \notin pipe_state
  /\ pc[p] = "rcopy" => uio[p].size > 0

(* The end of file is told to everybody at once. *)
EofTold ==
  /\ pc[Closer] = "closing" => "EOF" \in pipe_state
  /\ "EOF" \in pipe_state => selecting = {}
  /\ "EOF" \in pipe_state =>
       At(Closer, "closing") \/ (~Sleeping("rsleep") /\ ~Sleeping("wsleep"))
  /\ selecting # {} => "SEL" \in pipe_state

(* Writers that will wake the readers, and select(), before they sleep or  *)
(* return; and readers that will wake the writers.                         *)
WakesReaders == {"wloop", "wlock", "wlocked", "wcopy", "wcopy2", "wout"}
WakesIn == WakesReaders \cup {"wwait", "wsel"}
WakesWriters == {"rloop", "rcopy", "rdone", "rout"}
WakesOut(q) == \/ pc[q] \in {"rdone", "rout", "rsel"}
               \/ pc[q] \in {"rloop", "rcopy"} /\ uio[q].orig > 0

ReadersTold ==
  cnt > 0 /\ Sleeping("rsleep") => \E q \in Writers : pc[q] \in WakesReaders
WritersTold ==
  ~dropped /\ cnt < MINPIPESIZE /\ Sleeping("wsleep") => \E q \in Readers : pc[q] \in WakesWriters
InTold == cnt > 0 /\ "in" \in selecting => \E q \in Writers : pc[q] \in WakesIn
OutTold ==
  ~dropped /\ size - cnt >= PIPE_BUF /\ "out" \in selecting => \E q \in Readers : WakesOut(q)

Waits ==
  /\ \A p \in asleep : Reason(p)
  /\ \A p \in Procs : Poised(p)
  /\ EofTold /\ ReadersTold /\ WritersTold /\ InTold /\ OutTold

(* What PipeDataProofs shows of sizes. *)
Sane ==
  /\ TypeOK
  /\ \A p \in Writers :
       pc[p] = "wloop" /\ uio[p].orig <= PIPE_BUF => uio[p].resid <= PIPE_BUF

Room == size - cnt >= PIPE_BUF
Low == ~dropped /\ cnt < MINPIPESIZE

(* The flags that will have the sleepers woken stay. *)
FlagsStay ==
  /\ \A f \in {"WANTR", "WANTW", "WANT"} : f \in pipe_state => f \in pipe_state'
  /\ {"LOCK", "LWANT"} \subseteq pipe_state => {"LOCK", "LWANT"} \subseteq pipe_state'
  /\ "WANT" \in pipe_state /\ pipe_busy > 0 => pipe_busy' > 0

(* Reader or writer p takes a step, and those that it leaves asleep are    *)
(* told.                                                                   *)
Tell(p) ==
  /\ \A q \in Procs \ {p} : pc'[q] = pc[q] /\ uio'[q] = uio[q]
  /\ curproc = p \/ curproc = NoProc \/ (curproc' = curproc /\ cnt' = cnt)
  /\ asleep' \subseteq asleep \cup {p} /\ selecting' \subseteq selecting
  /\ asleep' \subseteq {p} \/ FlagsStay
  /\ p \in asleep' => Reason(p)'
  /\ Poised(p)'
  /\ "EOF" \in pipe_state' <=> "EOF" \in pipe_state
  /\ selecting' # {} /\ "SEL" \in pipe_state => "SEL" \in pipe_state'
  /\ dropped => dropped'
  /\ cnt' > 0 => cnt > 0 \/ (p \in Writers /\ pc'[p] \in WakesReaders)
  /\ Low' => Low \/ (p \in Readers /\ pc'[p] \in WakesWriters)
  /\ Room' => Room \/ dropped' \/ (p \in Readers /\ WakesOut(p)')
  /\ p \in asleep' /\ pc'[p] = "rsleep" => "EOF" \notin pipe_state /\ cnt' = 0
  /\ p \in asleep' /\ pc'[p] = "wsleep" => "EOF" \notin pipe_state /\ ~Low'
  /\ p \in Writers /\ pc[p] \in WakesReaders /\ pc'[p] \notin WakesReaders =>
       cnt' = 0 \/ ~Sleeping("rsleep")'
  /\ p \in Readers /\ pc[p] \in WakesWriters /\ pc'[p] \notin WakesWriters =>
       ~Low' \/ ~Sleeping("wsleep")'
  /\ p \in Writers /\ pc[p] \in WakesIn /\ pc'[p] \notin WakesIn => cnt' = 0 \/ selecting' = {}
  /\ p \in Readers /\ WakesOut(p) /\ ~WakesOut(p)' => ~Room' \/ selecting' = {}

LEMMA TellKeeps ==
  ASSUME LockInv, Waits, NEW p \in Readers \cup Writers, Tell(p)
  PROVE  Waits'
<1>1. /\ p \in Procs /\ p # Closer /\ Closer # NoProc /\ Closer \in Procs
      /\ (p \in Readers => p \notin Writers)
      /\ \A q \in Readers \cup Writers : q \in Procs
      /\ \A q \in Procs : q # NoProc
      /\ \A q \in asleep : q \in Procs
  BY ProcFacts, Zenon DEF LockInv
<1>2. \A q \in Procs : Poised(q)'
  BY <1>1, Zenon DEF Tell, Waits, Poised
<1>3. \A q \in asleep' : Reason(q)'
  <2> SUFFICES ASSUME NEW q \in asleep', q # p PROVE Reason(q)'
    BY Zenon DEF Tell
  <2>1. Reason(q) /\ pc'[q] = pc[q] /\ FlagsStay
    BY <1>1, Zenon DEF Tell, Waits
  <2> QED BY <2>1, Zenon DEF Reason, FlagsStay
<1>4. ASSUME NEW l, l # pc'[p] \/ p \notin asleep', Sleeping(l)' PROVE Sleeping(l)
  BY <1>1, <1>4, Zenon DEF Tell, Sleeping
<1>5. EofTold'
  <2>1. ASSUME "EOF" \in pipe_state', ~At(Closer, "closing")'
        PROVE  ~Sleeping("rsleep")' /\ ~Sleeping("wsleep")'
    <3>1. "EOF" \in pipe_state /\ ~At(Closer, "closing")
      BY <1>1, <2>1, Zenon DEF Tell, At
    <3>2. ~Sleeping("rsleep") /\ ~Sleeping("wsleep")
      BY <3>1, Zenon DEF Waits, EofTold
    <3> QED BY <1>4, <3>1, <3>2, Zenon DEF Tell
  <2> QED BY <1>1, <2>1, Zenon DEF Tell, Waits, EofTold
<1>6. ReadersTold'
  <2> SUFFICES ASSUME cnt' > 0, Sleeping("rsleep")' PROVE \E q \in Writers : pc'[q] \in WakesReaders
    BY Zenon DEF ReadersTold
  <2>1. Sleeping("rsleep")
    BY <1>4 DEF Tell
  <2> QED BY <1>1, <2>1 DEF Tell, Waits, ReadersTold
<1>7. WritersTold'
  <2> SUFFICES ASSUME Low', Sleeping("wsleep")' PROVE \E q \in Readers : pc'[q] \in WakesWriters
    BY Zenon DEF WritersTold, Low
  <2>1. Sleeping("wsleep")
    BY <1>4, Zenon DEF Tell
  <2>2. Low => \E q \in Readers : pc[q] \in WakesWriters
    BY <2>1, Zenon DEF Waits, WritersTold, Low
  <2> QED BY <1>1, <2>2, Zenon DEF Tell
<1>8. InTold'
  BY <1>1 DEF Tell, Waits, InTold, WakesIn
<1>9. OutTold'
  <2> SUFFICES ASSUME ~dropped', Room', "out" \in selecting' PROVE \E q \in Readers : WakesOut(q)'
    BY Zenon DEF OutTold, Room
  <2>1. /\ ~dropped /\ "out" \in selecting
        /\ Room \/ (p \in Readers /\ WakesOut(p)')
    BY Zenon DEF Tell
  <2>2. CASE Room
    <3>1. PICK q \in Readers : WakesOut(q)
      BY <2>1, <2>2, Zenon DEF Waits, OutTold, Room
    <3>2. q # p => WakesOut(q)'
      BY <1>1, <3>1, Zenon DEF Tell, WakesOut
    <3> QED BY <3>1, <3>2, Zenon DEF Tell
  <2> QED BY <2>1, <2>2, Zenon
<1> QED BY <1>2, <1>3, <1>5, <1>6, <1>7, <1>8, <1>9, Zenon DEF Waits

LEMMA MinPositive ==
  ASSUME NEW a \in Nat \ {0}, NEW b \in Nat \ {0}, NEW c \in Nat \ {0}
  PROVE  Min({a, b, c}) > 0
<1>1. \E x \in {a, b, c} : \A y \in {a, b, c} : x <= y
  OBVIOUS
<1>2. Min({a, b, c}) \in {a, b, c}
  BY <1>1, Zenon DEF Min
<1> QED BY <1>2

LEMMA SizeNat ==
  ASSUME TypeOK
  PROVE  cnt \in Nat /\ size \in Nat /\ pipe_busy \in Nat /\ MINPIPESIZE \in Nat \ {0}
<1>1. PIPE_SIZE \div 3 \in Nat \ {0}
  BY PipeAssumption
<1> QED BY <1>1, PipeAssumption DEF TypeOK, MINPIPESIZE

(* What is known of a reader or a writer before its step. *)
Known(p) ==
  /\ p \in Procs /\ p # Closer /\ p # NoProc /\ (p \in Readers <=> p \notin Writers)
  /\ p \in asleep => pc[p] \in Sleepable
  /\ curproc \notin asleep /\ \A q \in asleep : q \in Procs
  /\ uio \in [Procs -> [resid : Nat, orig : Nat, space : Nat, size : Nat, seg : Nat]]
  /\ pc \in [Procs -> ReadPcs \cup WritePcs \cup {"closing"}]
  /\ cnt \in Nat /\ size \in Nat /\ pipe_busy \in Nat /\ MINPIPESIZE \in Nat \ {0}
  /\ "WANTW" \notin pipe_state => ~Sleeping("wsleep")
  /\ "WANTR" \notin pipe_state => ~Sleeping("rsleep")
  /\ "SEL" \notin pipe_state => selecting = {}

LEMMA KnownFacts ==
  ASSUME LockInv, Sane, Waits, NEW p \in Readers \cup Writers
  PROVE  Known(p)
<1>1. /\ p \in Procs /\ p # Closer /\ p # NoProc /\ (p \in Readers <=> p \notin Writers)
      /\ p \in asleep => pc[p] \in Sleepable
      /\ curproc \notin asleep /\ \A q \in asleep : q \in Procs
  BY ProcFacts, Zenon DEF LockInv
<1>2. /\ uio \in [Procs -> [resid : Nat, orig : Nat, space : Nat, size : Nat, seg : Nat]]
      /\ pc \in [Procs -> ReadPcs \cup WritePcs \cup {"closing"}]
  BY Zenon DEF LockInv, Sane, TypeOK
<1>3. cnt \in Nat /\ size \in Nat /\ pipe_busy \in Nat /\ MINPIPESIZE \in Nat \ {0}
  BY SizeNat, Zenon DEF Sane
<1>4. /\ "WANTW" \notin pipe_state => ~Sleeping("wsleep")
      /\ "WANTR" \notin pipe_state => ~Sleeping("rsleep")
      /\ "SEL" \notin pipe_state => selecting = {}
  BY Zenon DEF Waits, EofTold, Reason, Sleeping, Locking
<1> QED BY <1>1, <1>2, <1>3, <1>4, Zenon DEF Known

LEMMA QuietReads ==
  ASSUME LockInv, Sane, Waits, NEW p \in Readers,
         \/ pipe_read(p) \/ ReadSome(p) \/ ReadFault(p) \/ ReadEnough(p) \/ ReadAgain(p)
  PROVE  Tell(p)
<1> USE DEF WakesWriters, WakesOut, Sleepable, Locking, Goto, At
<1>a. Known(p)
  BY KnownFacts, Zenon
<1>b. /\ UNCHANGED <<pipe_state, pipe_busy, cnt, size, dropped, asleep, selecting>>
      /\ curproc \in {p, NoProc} /\ \A q \in Procs \ {p} : pc'[q] = pc[q] /\ uio'[q] = uio[q]
      /\ Low' = Low /\ Room' = Room /\ FlagsStay
      /\ p \in Readers /\ p \notin Writers /\ p \in Procs /\ curproc \notin asleep
      /\ p \in asleep => pc[p] \in Sleepable
  BY <1>a DEF Known, pipe_read, ReadSome, ReadFault, ReadEnough, ReadAgain,
     pipevars, endvars, Low, Room, FlagsStay, MINPIPESIZE
<1>1. pipe_read(p) => pc[p] = "idle" /\ pc'[p] = "rlock0"
  BY <1>a, Zenon DEF Known, pipe_read
<1>2. ReadSome(p) => /\ pc[p] = "rloop" /\ pc'[p] = "rcopy" /\ uio'[p].orig = uio[p].orig
                     /\ uio'[p].size > 0
  <2> SUFFICES ASSUME ReadSome(p)
               PROVE  /\ pc[p] = "rloop" /\ pc'[p] = "rcopy" /\ uio'[p].orig = uio[p].orig
                      /\ uio'[p].size > 0
    OBVIOUS
  <2>1. /\ pc[p] = "rloop" /\ pc'[p] = "rcopy" /\ uio'[p].orig = uio[p].orig
        /\ uio'[p].size = Min({size - out, cnt, uio[p].resid})
        /\ uio[p].resid \in Nat \ {0} /\ cnt \in Nat \ {0}
    BY <1>a DEF Known, ReadSome
  <2>2. size - out \in Nat \ {0}
    BY <1>a DEF Known, Sane, TypeOK
  <2> QED BY <2>1, <2>2, MinPositive, Zenon
<1>3. ReadFault(p) => pc[p] = "rcopy" /\ pc'[p] = "rdone"
  BY <1>a, Zenon DEF Known, ReadFault
<1>4. ReadEnough(p) => pc[p] = "rloop" /\ pc'[p] = "rdone"
  BY <1>a, Zenon DEF Known, ReadEnough
<1>5. ReadAgain(p) => pc[p] = "rsleep" /\ pc'[p] = "rlock" /\ curproc = p
  BY <1>a, Zenon DEF Known, ReadAgain
<1> QED BY ONLY Zenon, <1>b, <1>1, <1>2, <1>3, <1>4, <1>5,
                pipe_read(p) \/ ReadSome(p) \/ ReadFault(p) \/ ReadEnough(p) \/ ReadAgain(p)
        DEF Tell, Poised

LEMMA Readings ==
  ASSUME LockInv, Sane, Waits, NEW p \in Readers,
         \/ ReadCopied(p) \/ ReadEmpty(p) \/ ReadWait(p) \/ ReadDone(p) \/ ReadOut(p) \/ ReadSel(p)
  PROVE  Tell(p)
<1> USE DEF WakesWriters, WakesOut, Sleepable, Locking, Goto, At
<1>a. Known(p) /\ Poised(p) /\ p \notin Writers
  BY KnownFacts, Zenon DEF Known, Waits
<1>b. /\ size' = size /\ dropped' = dropped
      /\ curproc \in {p, NoProc} /\ \A q \in Procs \ {p} : pc'[q] = pc[q] /\ uio'[q] = uio[q]
  BY <1>a, Zenon DEF Known, ReadCopied, ReadEmpty, ReadWait, ReadDone, ReadOut, ReadSel, nobuf, endvars
<1>1. CASE ReadCopied(p)
  <2>1. /\ pc[p] = "rcopy" /\ pc'[p] = "rloop" /\ cnt' = cnt - uio[p].size
        /\ uio'[p].orig = uio[p].orig + uio[p].size
        /\ UNCHANGED <<pipe_state, pipe_busy, asleep, selecting>>
        /\ uio[p].size \in Nat \ {0} /\ uio[p].orig \in Nat
    BY <1>1, <1>a DEF Known, Poised, ReadCopied, NoUio
  <2>2. cnt' < cnt /\ uio'[p].orig > 0 /\ (cnt' > 0 => cnt > 0)
    BY <2>1, <1>a DEF Known
  <2> QED BY <2>1, <2>2, <1>a, <1>b, Zenon DEF Known, Tell, Poised, FlagsStay
<1>2. CASE ReadEmpty(p)
  <2>1. /\ pc[p] = "rloop" /\ pc'[p] = (IF uio[p].orig > 0 THEN "rdone" ELSE "rwait")
        /\ cnt = 0 /\ "EOF" \notin pipe_state /\ curproc = p
        /\ UNCHANGED <<pipe_busy, selecting, cnt, uio, curproc>>
        /\ \/ "WANTW" \in pipe_state /\ pipe_state' = pipe_state \ {"WANTW"} /\ asleep' = {}
           \/ "WANTW" \notin pipe_state /\ pipe_state' = pipe_state /\ asleep' = asleep
    BY <1>2, <1>a, Zenon DEF Known, ReadEmpty, nobuf, WakeIf, Flag, wakeup
  <2>2. ~Sleeping("wsleep")'
    BY <2>1, <1>a, <1>b, Zenon DEF Known, Sleeping
  <2> QED BY <2>1, <2>2, <1>a, <1>b, Zenon DEF Known, Tell, Poised, Low, Room, MINPIPESIZE, FlagsStay
<1>3. CASE ReadWait(p)
  <2>1. /\ pc[p] = "rwait" /\ cnt = 0 /\ "EOF" \notin pipe_state /\ curproc = p
        /\ UNCHANGED <<pipe_busy, selecting, cnt, uio>>
        /\ \/ /\ pc'[p] = "rout" /\ pipe_state' = pipe_state \ {"LOCK", "LWANT"}
              /\ asleep' = IF "LWANT" \in pipe_state THEN {} ELSE asleep
           \/ /\ pc'[p] = "rsleep" /\ pipe_state' = (pipe_state \ {"LOCK", "LWANT"}) \cup {"WANTR"}
              /\ asleep' = {p} \cup IF "LWANT" \in pipe_state THEN {} ELSE asleep
    BY <1>3, <1>a, Zenon DEF Known, ReadWait, nobuf, Poised, pipeunlock, Flag
  <2>2. (asleep' \subseteq {p} \/ FlagsStay) /\ asleep' \subseteq asleep \cup {p}
    BY <2>1, Zenon DEF FlagsStay
  <2> QED BY <2>1, <2>2, <1>a, <1>b, Zenon DEF Known, Tell, Poised, Low, Room, MINPIPESIZE, Reason
<1>4. CASE ReadDone(p)
  <2>1. /\ pc[p] = "rdone" /\ pc'[p] = "rout" /\ curproc = p
        /\ UNCHANGED <<pipe_busy, selecting, cnt, uio>>
        /\ pipe_state' = pipe_state \ {"LOCK", "LWANT"}
        /\ asleep' = IF "LWANT" \in pipe_state THEN {} ELSE asleep
    BY <1>4, <1>a, Zenon DEF Known, ReadDone, nobuf, pipeunlock, Flag
  <2> QED BY <2>1, <1>a, <1>b, Zenon DEF Known, Tell, Poised, Low, Room, MINPIPESIZE, FlagsStay
<1>5. CASE ReadOut(p)
  <2>1. /\ pc[p] = "rout" /\ pc'[p] = "rsel" /\ curproc = p
        /\ UNCHANGED <<selecting, cnt, uio>> /\ pipe_busy' = pipe_busy - 1
        /\ \/ asleep' = {} /\ pipe_state' \in {pipe_state \ {"WANT", "WANTW"}, pipe_state \ {"WANTW"}}
           \/ /\ asleep' = asleep /\ pipe_state' = pipe_state
              /\ cnt < MINPIPESIZE => "WANTW" \notin pipe_state
              /\ "WANT" \in pipe_state => pipe_busy' # 0
    BY <1>5, <1>a, Zenon DEF Known, ReadOut, nobuf, WakeIf, Flag, wakeup
  <2>2. /\ cnt < MINPIPESIZE => ~Sleeping("wsleep")'
        /\ Low' = Low /\ Room' = Room /\ (Low => cnt < MINPIPESIZE)
    BY <2>1, <1>a, <1>b, Zenon DEF Known, Sleeping, Low, Room, MINPIPESIZE
  <2>3. asleep' = {} \/ FlagsStay
    BY <2>1, <1>a DEF Known, FlagsStay
  <2> QED BY <2>1, <2>2, <2>3, <1>a, <1>b, Zenon DEF Known, Tell, Poised
<1>6. CASE ReadSel(p)
  <2>1. /\ pc[p] = "rsel" /\ pc'[p] = "return" /\ curproc = p
        /\ UNCHANGED <<cnt, uio, asleep, pipe_busy>>
        /\ \/ selecting' = {} /\ pipe_state' = pipe_state \ {"SEL"}
           \/ UNCHANGED <<selecting, pipe_state>> /\ (~Room \/ "SEL" \notin pipe_state)
    BY <1>6, <1>a, Zenon DEF Known, ReadSel, nobuf, pipeselwakeup, Flag, Room
  <2>2. Low' = Low /\ Room' = Room
    BY <2>1, <1>b, Zenon DEF Low, Room, MINPIPESIZE
  <2> QED BY <2>1, <2>2, <1>a, <1>b, Zenon DEF Known, Tell, Poised, FlagsStay
<1> QED BY <1>1, <1>2, <1>3, <1>4, <1>5, <1>6, Zenon

LEMMA QuietWrites ==
  ASSUME LockInv, Sane, Waits, NEW p \in Writers,
         WriteEnough(p) \/ WriteSome(p) \/ WriteCopied(p) \/ WriteAgain(p)
  PROVE  Tell(p)
<1> USE DEF WakesReaders, WakesIn, Sleepable, Locking, Goto, At
<1>a. Known(p) /\ p \notin Readers
  BY KnownFacts, Zenon DEF Known
<1>b. /\ UNCHANGED <<pipe_state, pipe_busy, cnt, size, dropped, asleep, selecting>>
      /\ curproc \in {p, NoProc} /\ \A q \in Procs \ {p} : pc'[q] = pc[q] /\ uio'[q] = uio[q]
      /\ Low' = Low /\ Room' = Room /\ FlagsStay
      /\ p \in Writers /\ p \notin Readers /\ p \in Procs /\ curproc \notin asleep
      /\ p \in asleep => pc[p] \in Sleepable
  BY <1>a DEF Known, WriteEnough, WriteSome, WriteCopied, WriteAgain, pipevars, endvars,
     Low, Room, FlagsStay, MINPIPESIZE
<1>1. WriteEnough(p) => pc[p] = "wloop" /\ pc'[p] = "wout"
  BY <1>a, Zenon DEF Known, WriteEnough
<1>2. WriteSome(p) => pc[p] = "wloop" /\ pc'[p] = "wlock" /\ curproc = p
  BY <1>a, Zenon DEF Known, WriteSome
<1>3. WriteCopied(p) => pc[p] = "wcopy" /\ pc'[p] = "wcopy2"
  BY <1>a, Zenon DEF Known, WriteCopied
<1>4. WriteAgain(p) => pc[p] = "wsleep" /\ pc'[p] = "wloop" /\ curproc = p
  BY <1>a, Zenon DEF Known, WriteAgain
<1> QED BY ONLY Zenon, <1>b, <1>1, <1>2, <1>3, <1>4,
                WriteEnough(p) \/ WriteSome(p) \/ WriteCopied(p) \/ WriteAgain(p)
        DEF Tell, Poised

LEMMA Writings ==
  ASSUME LockInv, Sane, Waits, NEW p \in Writers,
         \/ pipe_write(p) \/ WriteResize(p) \/ WriteLocked(p) \/ WriteCommit(p) \/ WriteFault(p)
  PROVE  Tell(p)
<1> USE DEF WakesReaders, WakesIn, Sleepable, Locking, Goto, At
<1>a. Known(p) /\ p \notin Readers
  BY KnownFacts, Zenon DEF Known
<1>b. /\ curproc \in {p, NoProc} /\ selecting' = selecting
      /\ \A q \in Procs \ {p} : pc'[q] = pc[q] /\ uio'[q] = uio[q]
  BY <1>a, Zenon DEF Known, pipe_write, WriteResize, WriteLocked, WriteCommit, WriteFault
<1>c. pipeunlock({}) /\ pipe_busy' = pipe_busy =>
        /\ pipe_state' = pipe_state \ {"LOCK", "LWANT"} /\ asleep' \subseteq asleep
        /\ asleep' = {} \/ FlagsStay
  BY Zenon DEF pipeunlock, Flag, FlagsStay
<1>d. /\ UNCHANGED <<cnt, size, dropped>> => Low' = Low /\ Room' = Room
      /\ UNCHANGED <<pipe_state, pipe_busy>> => FlagsStay
  BY DEF Low, Room, MINPIPESIZE, FlagsStay
<1>1. CASE pipe_write(p)
  <2>1. /\ pc[p] = "idle" /\ pc'[p] \in {"wbig", "wloop"} /\ pipe_busy' = pipe_busy + 1
        /\ UNCHANGED <<pipe_state, asleep, cnt, size, dropped>>
    BY <1>1, <1>a, Zenon DEF Known, pipe_write, nobuf, endvars
  <2> QED BY <2>1, <1>a, <1>b, <1>d DEF Known, Tell, Poised, FlagsStay
<1>2. CASE WriteResize(p)
  <2>1. /\ pc[p] = "wresize" /\ pc'[p] = "wloop" /\ pipe_busy' = pipe_busy /\ pipeunlock({})
        /\ curproc = p
        /\ \/ UNCHANGED <<cnt, size, dropped>>
           \/ cnt' = 0 /\ size' = BIG_PIPE_SIZE /\ dropped' = (dropped \/ cnt > 0)
    BY <1>2, <1>a, Zenon DEF Known, WriteResize, pipespace
  <2>2. /\ dropped => dropped'
        /\ cnt' > 0 => cnt > 0
        /\ Low' => Low
        /\ Room' => Room \/ dropped'
    <3>1. CASE cnt' = 0 /\ size' = BIG_PIPE_SIZE /\ dropped' = (dropped \/ cnt > 0)
      <4>1. cnt = 0 => Room
        BY PipeAssumption, SizeNat DEF Sane, TypeOK, MINPIPESIZE, Room
      <4>2. ~dropped' => ~dropped /\ ~(cnt > 0)
        BY ONLY <3>1, Zenon
      <4>3. ~(cnt > 0) => cnt = 0
        BY <1>a DEF Known
      <4> QED BY <3>1, <4>1, <4>2, <4>3, Zenon DEF Low, MINPIPESIZE
    <3> QED BY <2>1, <3>1, <1>d
  <2> QED BY <2>1, <2>2, <1>a, <1>b, <1>c, Zenon DEF Known, Tell, Poised
<1>3. CASE WriteLocked(p)
  <2>1. /\ pc[p] = "wlocked" /\ curproc = p /\ pipe_busy' = pipe_busy
        /\ UNCHANGED <<cnt, size, dropped>> /\ pc'[p] \in {"wloop", "wcopy"}
        /\ pipeunlock({}) \/ UNCHANGED <<pipe_state, asleep>>
    BY <1>3, <1>a, Zenon DEF Known, WriteLocked, nobuf, endvars
  <2> QED BY <2>1, <1>a, <1>b, <1>c, <1>d DEF Known, Tell, Poised
<1>4. CASE WriteCommit(p)
  <2>1. /\ pc[p] \in {"wcopy", "wcopy2"} /\ pc'[p] = "wloop" /\ pipe_busy' = pipe_busy
        /\ pipeunlock({}) /\ size' = size /\ dropped' = dropped /\ cnt' = cnt + uio[p].size
        /\ uio[p].size \in Nat
    BY <1>4, <1>a, Zenon DEF Known, WriteCommit, endvars
  <2>2. (Low' => Low) /\ (Room' => Room)
    BY <2>1, <1>a, PipeAssumption DEF Known, Low, Room, MINPIPESIZE
  <2> QED BY <2>1, <2>2, <1>a, <1>b, <1>c, Zenon DEF Known, Tell, Poised
<1>5. CASE WriteFault(p)
  <2>1. /\ pc[p] \in {"wcopy", "wcopy2"} /\ pc'[p] = "wout" /\ pipe_busy' = pipe_busy
        /\ pipeunlock({}) /\ UNCHANGED <<cnt, size, dropped>>
    BY <1>5, <1>a, Zenon DEF Known, WriteFault, nobuf, endvars
  <2> QED BY <2>1, <1>a, <1>b, <1>c, <1>d DEF Known, Tell, Poised
<1> QED BY <1>1, <1>2, <1>3, <1>4, <1>5, Zenon

LEMMA WritersLeave ==
  ASSUME LockInv, Sane, Waits, NEW p \in Writers,
         \/ WriteError(p) \/ WriteFull(p) \/ WriteWait(p) \/ WriteOut(p) \/ WriteSel(p)
  PROVE  Tell(p)
<1> USE DEF WakesReaders, WakesIn, Goto, At
<1>a. Known(p) /\ p \notin Readers /\ Poised(p)
  BY KnownFacts, Zenon DEF Known, Waits
<1>b. /\ curproc = p /\ UNCHANGED <<cnt, size, dropped, uio>> /\ Low' = Low /\ Room' = Room
      /\ \A q \in Procs \ {p} : pc'[q] = pc[q] /\ uio'[q] = uio[q]
  <2>1. curproc = p /\ UNCHANGED <<cnt, size, dropped, uio>> /\ \E l : pc' = [pc EXCEPT ![p] = l]
    BY Zenon DEF WriteError, WriteFull, WriteWait, WriteOut, WriteSel, nobuf, endvars
  <2>2. Low' = Low /\ Room' = Room
    BY <2>1, Zenon DEF Low, Room, MINPIPESIZE
  <2> QED BY <2>1, <2>2, <1>a, Zenon DEF Known
<1>1. CASE WriteError(p)
  <2>1. /\ pc[p] = "werror" /\ pc'[p] = "return" /\ pipe_busy' = pipe_busy - 1
        /\ selecting' = selecting
        /\ \/ asleep' = {} /\ pipe_state' = pipe_state \ {"WANT", "WANTR"}
           \/ /\ UNCHANGED <<pipe_state, asleep>>
              /\ "WANT" \in pipe_state => pipe_busy' # 0
    BY <1>1, <1>a, Zenon DEF Known, WriteError, WakeIf, Flag, wakeup
  <2> QED BY <2>1, <1>a, <1>b DEF Known, Tell, Poised, FlagsStay
<1>2. CASE WriteFull(p)
  <2>1. /\ pc[p] = "wloop" /\ pc'[p] \in {"wout", "wwait"} /\ "EOF" \notin pipe_state
        /\ UNCHANGED <<pipe_busy, selecting, curproc>> /\ space(p) = 0 /\ uio[p].resid > 0
        /\ \/ asleep' = {} /\ pipe_state' = pipe_state \ {"WANTR"}
           \/ UNCHANGED <<pipe_state, asleep>> /\ "WANTR" \notin pipe_state
    BY <1>2, <1>a, Zenon DEF Known, WriteFull, WakeIf, Flag, wakeup
  <2>2. ~Sleeping("rsleep")'
    BY <2>1, <1>a, <1>b, Zenon DEF Known, Sleeping
  <2>3. cnt >= MINPIPESIZE
    <3>1. /\ PIPE_BUF + MINPIPESIZE <= PIPE_SIZE /\ PIPE_BUF \in Nat /\ PIPE_SIZE \in Nat
          /\ PIPE_SIZE <= size
      BY PipeAssumption DEF MINPIPESIZE, Sane, TypeOK
    <3>2. uio[p].resid \in Nat /\ uio[p].orig \in Nat
      BY <1>a, Zenon DEF Known
    <3>3. uio[p].orig <= PIPE_BUF => uio[p].resid <= PIPE_BUF
      BY <2>1, Zenon DEF Sane
    <3> QED BY <2>1, <3>1, <3>2, <3>3, <1>a DEF Known, space
  <2> QED BY <2>1, <2>2, <2>3, <1>a, <1>b, Zenon DEF Known, Tell, Poised, MINPIPESIZE, FlagsStay
<1>3. CASE WriteWait(p)
  <2>1. /\ pc[p] = "wwait" /\ pc'[p] = "wsleep" /\ pipe_busy' = pipe_busy
        /\ selecting' = {} /\ pipe_state' = (pipe_state \ {"SEL"}) \cup {"WANTW"}
        /\ asleep' = asleep \cup {p} /\ "EOF" \notin pipe_state /\ ~Low
    BY <1>3, <1>a DEF Known, Poised, WriteWait, Flag, tsleep, Low
  <2> QED BY <2>1, <1>a, <1>b, Zenon DEF Known, Tell, Poised, Reason, FlagsStay
<1>4. CASE WriteOut(p)
  <2>1. /\ pc[p] = "wout" /\ pc'[p] = "wsel" /\ pipe_busy' = pipe_busy - 1
        /\ selecting' = selecting
        /\ \/ asleep' = {} /\ pipe_state' \in {pipe_state \ {"WANT", "WANTR"}, pipe_state \ {"WANTR"}}
           \/ /\ UNCHANGED <<pipe_state, asleep>>
              /\ cnt > 0 => "WANTR" \notin pipe_state
              /\ "WANT" \in pipe_state => pipe_busy' # 0
    BY <1>4, <1>a, Zenon DEF Known, WriteOut, WakeIf, Flag, wakeup
  <2>2. cnt > 0 => ~Sleeping("rsleep")'
    BY <2>1, <1>a, <1>b, Zenon DEF Known, Sleeping
  <2>3. asleep' = {} \/ FlagsStay
    BY <2>1, <1>a DEF Known, FlagsStay
  <2> QED BY <2>1, <2>2, <2>3, <1>a, <1>b DEF Known, Tell, Poised
<1>5. CASE WriteSel(p)
  <2>1. /\ pc[p] = "wsel" /\ pc'[p] = "return" /\ UNCHANGED <<asleep, pipe_busy>>
        /\ \/ selecting' = {} /\ pipe_state' = pipe_state \ {"SEL"}
           \/ UNCHANGED <<selecting, pipe_state>> /\ (~(cnt > 0) \/ "SEL" \notin pipe_state)
    BY <1>5, <1>a, Zenon DEF Known, WriteSel, pipeselwakeup, Flag
  <2> QED BY <2>1, <1>a, <1>b DEF Known, Tell, Poised, FlagsStay
<1> QED BY <1>1, <1>2, <1>3, <1>4, <1>5, Zenon

(* pipelock(), the scheduler, signals and returns, of a reader or writer. *)
LEMMA CallersGoOn ==
  ASSUME LockInv, Sane, Waits, NEW p \in Readers \cup Writers,
         Resume(p) \/ pipelock(p) \/ Return(p) \/ Interrupt(p)
  PROVE  Tell(p)
<1> USE DEF WakesReaders, WakesIn, WakesWriters, WakesOut
<1>a. Known(p) /\ Poised(p) /\ Legal(p, pc[p])
  BY KnownFacts, Zenon DEF Known, Waits, LockInv
<1>b. /\ UNCHANGED <<cnt, size, dropped, selecting>> /\ Low' = Low /\ Room' = Room
      /\ \A q \in Procs \ {p} : pc'[q] = pc[q] /\ uio'[q] = uio[q]
  <2>1. /\ UNCHANGED <<cnt, size, dropped, selecting>>
        /\ pc' = pc \/ \E l : pc' = [pc EXCEPT ![p] = l]
        /\ uio' = uio \/ \E u : uio' = [uio EXCEPT ![p] = u]
    BY Zenon DEF Resume, pipelock, Return, Interrupt, Goto, nobuf, pipevars, endvars
  <2>2. Low' = Low /\ Room' = Room
    BY <2>1, Zenon DEF Low, Room, MINPIPESIZE
  <2> QED BY <2>1, <2>2, <1>a, Zenon DEF Known
<1>1. CASE Resume(p)
  <2>1. /\ pc' = pc /\ uio' = uio /\ UNCHANGED <<asleep, pipe_state, pipe_busy>> /\ curproc = NoProc
        /\ p \notin asleep
    BY <1>1, Zenon DEF Resume, pipevars
  <2> QED BY <2>1, <1>a, <1>b, Zenon DEF Known, Tell, Poised, FlagsStay
<1>2. CASE Return(p)
  <2>1. /\ pc[p] = "return" /\ pc'[p] = "idle" /\ UNCHANGED <<asleep, pipe_state, pipe_busy>>
        /\ curproc = p
    BY <1>2, <1>a, Zenon DEF Known, Return, At, Goto, pipevars
  <2> QED BY <2>1, <1>a, <1>b, Zenon DEF Known, Tell, Poised, FlagsStay
<1>3. CASE Interrupt(p)
  <2>1. /\ p \in asleep /\ pc'[p] = interrupted(pc[p]) /\ asleep' = asleep \ {p}
        /\ UNCHANGED <<pipe_state, pipe_busy, curproc, uio>>
    BY <1>3, <1>a, Zenon DEF Known, Interrupt, Goto, pipevars
  <2>2. pc[p] \in {"rlock0", "rlock", "rsleep", "wbig", "wlock", "wsleep"}
    BY <2>1, <1>a, Zenon DEF Known, Sleepable, Locking, Legal, ReadPcs, WritePcs
  <2>3. pc'[p] \in {"return", "rout", "werror", "wout"} /\ (pc[p] = "wlock" => pc'[p] = "wout")
    BY <2>1, <2>2, Zenon DEF interrupted
  <2> QED BY <2>1, <2>2, <2>3, <1>a, <1>b, Zenon DEF Known, Tell, Poised, FlagsStay
<1>4. CASE pipelock(p)
  <2>1. CASE "LOCK" \in pipe_state
    <3>1. /\ pc'[p] = pc[p] /\ pipe_state' = pipe_state \cup {"LWANT"} /\ asleep' = asleep \cup {p}
          /\ pipe_busy' = pipe_busy /\ uio' = uio /\ curproc = p /\ pc[p] \in Locking
      BY <1>4, <2>1, Zenon DEF pipelock, Flag, tsleep
    <3> QED BY <2>1, <3>1, <1>a, <1>b, Zenon DEF Known, Tell, Poised, Reason, Locking, FlagsStay
  <2>2. CASE "LOCK" \notin pipe_state
    <3>1. /\ pc'[p] = locked(pc[p]) /\ pipe_state' = pipe_state \cup {"LOCK"} /\ asleep' = asleep
          /\ (pipe_busy' = pipe_busy \/ pipe_busy' = pipe_busy + 1) /\ uio' = uio
          /\ curproc = p /\ pc[p] \in Locking
      BY <1>4, <2>2, <1>a, Zenon DEF Known, pipelock, Flag, Goto
    <3>2. pc'[p] \in {"rloop", "wresize", "wlocked"} /\ (pc[p] = "wlock" => pc'[p] = "wlocked")
      BY <3>1, Zenon DEF locked, Locking
    <3> QED BY <2>2, <3>1, <3>2, <1>a, <1>b DEF Known, Tell, Poised, Locking, FlagsStay
  <2> QED BY <2>1, <2>2, Zenon
<1> QED BY <1>1, <1>2, <1>3, <1>4, Zenon

(* The closes and select(): the readers and writers stay where they are. *)
LEMMA CallersStay ==
  ASSUME LockInv, LockInv', Waits, UNCHANGED <<cnt, size, dropped, uio>>,
         \A q \in Readers \cup Writers : pc'[q] = pc[q], curproc = NoProc \/ curproc = Closer,
         asleep' \subseteq asleep \cup {Closer}, \A q \in asleep' : Reason(q)', EofTold',
         "in" \in selecting' => "in" \in selecting \/ ~(cnt > 0),
         "out" \in selecting' => "out" \in selecting \/ ~Room
  PROVE  Waits'
<1>1. /\ Closer \in Procs /\ pc'[Closer] \in {"idle", "closing"}
      /\ Procs = Readers \cup Writers \cup {Closer} /\ asleep \subseteq Procs
      /\ \A q \in Readers \cup Writers : q # NoProc /\ q # Closer
  BY ProcFacts, Zenon DEF LockInv, Legal, Procs
<1>2. \A q \in Procs : Poised(q)'
  BY <1>1, Zenon DEF Waits, Poised
<1>3. \A l \in {"rsleep", "wsleep"} : Sleeping(l)' => Sleeping(l)
  BY <1>1, Zenon DEF Sleeping
<1>4. ReadersTold' /\ InTold'
  BY <1>1, <1>3, Zenon DEF Waits, ReadersTold, InTold
<1>5. WritersTold' /\ OutTold'
  BY <1>1, <1>3, Zenon DEF Waits, WritersTold, OutTold, WakesOut, Room, MINPIPESIZE
<1> QED BY <1>2, <1>4, <1>5, Zenon DEF Waits

LEMMA Closings ==
  ASSUME LockInv, LockInv', Counts, Sane, Waits,
         \/ Resume(Closer) \/ CloseWait \/ CloseFree \/ pipeclose \/ ClosePeer
         \/ \E e \in {"in", "out"} : pipe_poll(e)
  PROVE  Waits'
<1>a. /\ Closer \in Procs /\ NoProc \notin Procs
      /\ \A q \in Readers \cup Writers : q \in Procs /\ q # Closer
      /\ Procs = Readers \cup Writers \cup {Closer} /\ asleep \subseteq Procs
      /\ pc \in [Procs -> ReadPcs \cup WritePcs \cup {"closing"}] /\ curproc \notin asleep
      /\ EofTold /\ \A q \in asleep : Reason(q)
  BY ProcFacts, Zenon DEF LockInv, Procs, Waits
<1>b. /\ UNCHANGED <<cnt, size, dropped, uio, pipe_busy>>
      /\ \A q \in Procs \ {Closer} : pc'[q] = pc[q]
      /\ curproc = NoProc \/ curproc = Closer
  <2>1. /\ UNCHANGED <<cnt, size, dropped, uio, pipe_busy>>
        /\ pc' = pc \/ \E l : pc' = [pc EXCEPT ![Closer] = l]
        /\ curproc = NoProc \/ curproc = Closer
    BY Zenon DEF Resume, CloseWait, CloseFree, pipeclose, ClosePeer, pipe_poll, Goto, At, nobuf,
           pipevars, endvars
  <2> QED BY <2>1, <1>a, Zenon
<1>1. CASE Resume(Closer)
  <2>1. UNCHANGED <<pc, asleep, selecting, pipe_state>> /\ curproc = NoProc
    BY <1>1, Zenon DEF Resume, pipevars
  <2>2. \A q \in asleep' : Reason(q)'
    BY <2>1, <1>a, <1>b, Zenon DEF Reason
  <2>3. EofTold'
    BY <2>1, <1>a, Zenon DEF Waits, EofTold, Sleeping, At
  <2> QED BY <2>1, <2>2, <2>3, <1>a, <1>b, CallersStay, Zenon
<1>2. CASE CloseWait
  <2>1. /\ pc[Closer] = "closing" /\ UNCHANGED <<pc, selecting>> /\ pipe_busy > 0
        /\ asleep' = {Closer} /\ pipe_state' = pipe_state \cup {"WANT"}
    BY <1>2, Zenon DEF CloseWait, At, Flag
  <2>2. \A q \in asleep' : Reason(q)'
    BY <2>1, <1>b, Zenon DEF Reason
  <2>3. EofTold'
    BY <2>1, <1>a, Zenon DEF Waits, EofTold, Sleeping, At
  <2> QED BY <2>1, <2>2, <2>3, <1>a, <1>b, CallersStay, Zenon
<1>3. CASE CloseFree
  <2>1. UNCHANGED <<pipe_state, asleep, selecting>> /\ pipe_busy = 0 /\ curproc = Closer
        /\ pc'[Closer] = "idle"
    BY <1>3, <1>a, Zenon DEF CloseFree, At, Goto
  <2>2. Users = {}
    BY <2>1, Zenon DEF Counts
  <2>3. \A q \in asleep : pc[q] \notin {"rsleep", "wsleep"} /\ pc'[q] = pc[q]
    BY <2>1, <2>2, <1>a, <1>b, Zenon DEF Users, Counted, InRead, InWrite
  <2>4. \A q \in asleep' : Reason(q)'
    BY <2>1, <2>3, <1>a, <1>b, Zenon DEF Reason
  <2>5. EofTold'
    BY <2>1, <2>3, <1>a, Zenon DEF Waits, EofTold, Sleeping
  <2> QED BY <2>1, <2>4, <2>5, <1>a, <1>b, CallersStay, Zenon
<1>4. CASE pipeclose
  <2>1. /\ pc' = [pc EXCEPT ![Closer] = "closing"] /\ curproc' = Closer /\ asleep' = asleep
        /\ pc[Closer] = "idle" /\ selecting' = {} /\ pipe_state' = (pipe_state \ {"SEL"}) \cup {"EOF"}
    BY <1>4, Zenon DEF pipeclose, Goto, Flag
  <2>2. Closer \notin asleep
    BY <2>1, <1>a, Zenon DEF Reason, Locking
  <2>3. \A q \in asleep' : Reason(q)'
    BY <2>1, <2>2, <1>a, <1>b, Zenon DEF Reason
  <2>4. EofTold'
    BY <2>1, <1>a, Zenon DEF EofTold, At
  <2> QED BY <2>1, <2>3, <2>4, <1>a, <1>b, CallersStay, Zenon
<1>5. CASE ClosePeer
  <2>1. /\ pc' = pc /\ curproc' = curproc
        /\ \/ asleep' = {} /\ selecting' = {} /\ "EOF" \in pipe_state'
           \/ UNCHANGED <<pipe_state, asleep, selecting>>
    BY <1>5, Zenon DEF ClosePeer, wakeup, Flag
  <2>2. \A q \in asleep' : Reason(q)'
    BY <2>1, <1>a, <1>b, Zenon DEF Reason
  <2>3. EofTold'
    BY <2>1, <1>a, Zenon DEF Waits, EofTold, Sleeping, At
  <2> QED BY <2>1, <2>2, <2>3, <1>a, <1>b, CallersStay, Zenon
<1>6. ASSUME NEW e \in {"in", "out"}, pipe_poll(e) PROVE Waits'
  <2>1. /\ UNCHANGED <<pc, asleep, curproc>> /\ selecting' = selecting \cup {e}
        /\ pipe_state' = pipe_state \cup {"SEL"} /\ "EOF" \notin pipe_state
        /\ e = "in" => ~(cnt > 0)
        /\ e = "out" => ~Room
    BY <1>6, Zenon DEF pipe_poll, Flag, ready, Room
  <2>2. \A q \in asleep' : Reason(q)'
    BY <2>1, <1>a, <1>b, Zenon DEF Reason
  <2>3. EofTold'
    BY <2>1, <1>a, Zenon DEF EofTold
  <2> QED BY <2>1, <2>2, <2>3, <1>a, <1>b, CallersStay, Zenon
<1> QED BY <1>1, <1>2, <1>3, <1>4, <1>5, <1>6, Zenon

LEMMA WaitsNext ==
  ASSUME LockInv, Counts, Sane, Waits, [Next]_vars
  PROVE  Waits'
<1>1. LockInv'
  BY LockInvNext, Zenon
<1>2. CASE UNCHANGED vars
  <2>1. UNCHANGED <<pc, uio, asleep, curproc, selecting, cnt, size, pipe_state, pipe_busy, dropped>>
    BY <1>2, Zenon DEF vars, pipevars, endvars
  <2> QED BY <2>1, Zenon DEF Waits, Reason, Poised, EofTold, At, Sleeping, ReadersTold, WritersTold,
                      InTold, OutTold, WakesOut, MINPIPESIZE
<1>3. ASSUME NEW p \in Readers, Step(p) \/ Interrupt(p) PROVE Waits'
  BY <1>3, ProcFacts, QuietReads, Readings, CallersGoOn, TellKeeps, Zenon DEF Step, read
<1>4. ASSUME NEW p \in Writers, Step(p) \/ Interrupt(p) PROVE Waits'
  BY <1>4, ProcFacts, QuietWrites, Writings, WritersLeave, CallersGoOn, TellKeeps, Zenon DEF Step, write
<1>5. CASE Step(Closer) \/ Interrupt(Closer)
  <2>1. Closer \notin Readers /\ Closer \notin Writers /\ ~pipelock(Closer) /\ ~Return(Closer)
    BY ProcFacts, Zenon DEF LockInv, Legal, pipelock, Locking, Return, At
  <2> QED BY <1>1, <1>5, <2>1, Closings, Zenon DEF Step, Interrupt
<1>6. CASE pipeclose \/ ClosePeer \/ \E e \in {"in", "out"} : pipe_poll(e)
  BY <1>1, <1>6, Closings, Zenon
<1> QED BY <1>2, <1>3, <1>4, <1>5, <1>6, Zenon DEF Next, Procs

LEMMA WaitsInit == Init => Waits
<1> SUFFICES ASSUME Init PROVE Waits
  OBVIOUS
<1>1. \A p \in Procs : pc[p] = "idle"
  BY Zenon DEF Init
<1>2. asleep = {} /\ selecting = {}
  BY Zenon DEF Init
<1>3. \A p \in Procs : Poised(p)
  BY <1>1, Zenon DEF Poised
<1>4. pc[Closer] # "closing"
  BY <1>1, ProcFacts, Zenon
<1> QED
  BY <1>2, <1>3, <1>4, Zenon DEF Waits, EofTold, Sleeping, ReadersTold, WritersTold, InTold, OutTold

(* When all that are in the pipe code sleep, none of them waits for the    *)
(* lock, which would have a holder; nor for what another will tell.        *)
LEMMA WaitsSuffice ==
  ASSUME LockInv, Counts, TypeOK, Waits
  PROVE  NoStandoff
<1> SUFFICES ASSUME \A p \in Procs : pc[p] # "idle" => p \in asleep
             PROVE  /\ Closer \notin asleep
                    /\ ~dropped =>
                         /\ (\E p \in Readers : p \in asleep) => cnt = 0 /\ "EOF" \notin pipe_state
                         /\ (\E p \in Writers : p \in asleep) =>
                              cnt >= MINPIPESIZE /\ "EOF" \notin pipe_state
                         /\ \A e \in selecting : ~ready(e)
  <2>1. Max({MINPIPESIZE, 1}) = MINPIPESIZE
    <3>1. MINPIPESIZE \in {MINPIPESIZE, 1} /\ \A x \in {MINPIPESIZE, 1} : MINPIPESIZE >= x
      BY SizeNat
    <3>2. \A m \in {MINPIPESIZE, 1} : (\A x \in {MINPIPESIZE, 1} : m >= x) => m = MINPIPESIZE
      BY SizeNat
    <3> QED BY <3>1, <3>2, Zenon DEF Max
  <2> QED BY <2>1, Zenon DEF NoStandoff, SomebodyActive, Inside
<1>1. \A p \in Procs : pc[p] # "idle" => pc[p] \in Sleepable /\ Reason(p)
  BY Zenon DEF LockInv, Waits
<1>2. "LOCK" \notin pipe_state
  <2>1. \A p \in Procs : pc[p] \notin Holds
    BY <1>1, Zenon DEF Sleepable, Locking, Holds
  <2> QED BY <2>1, Zenon DEF LockInv
<1>3. \A p \in Procs : pc[p] \in {"idle", "rsleep", "wsleep", "closing"}
  BY <1>1, <1>2, Zenon DEF Reason
<1>4. ~At(Closer, "closing")
  BY ProcFacts, Zenon DEF At, LockInv
<1>5. Closer \notin asleep
  <2> SUFFICES ASSUME Closer \in asleep PROVE FALSE
    OBVIOUS
  <2>1. /\ Closer \in Procs /\ Procs = Readers \cup Writers \cup {Closer}
        /\ \A q \in Readers \cup Writers : q # Closer
    BY ProcFacts, Zenon DEF Procs
  <2>2. pc[Closer] = "closing" /\ pipe_busy > 0
    BY <2>1, Zenon DEF LockInv, Legal, Waits, Reason, Locking
  <2>3. Users # {}
    BY <2>2 DEF Counts
  <2>4. PICK q \in Procs : pc[q] \in Counted
    BY <2>3, Zenon DEF Users
  <2>5. pc[q] = "wsleep" /\ q \in asleep
    <3>1. q # Closer /\ q \notin Readers /\ pc[q] # "idle"
      BY <2>1, <2>2, <2>4, Zenon DEF LockInv, Counted, InRead, InWrite
    <3> QED BY <1>3, <2>1, <3>1, Zenon DEF LockInv, Legal, WritePcs
  <2> QED BY <1>4, <2>2, <2>5, Zenon DEF Waits, EofTold, Sleeping
<1>6. /\ \A q \in Writers : pc[q] \notin WakesIn \cup WakesReaders
      /\ \A q \in Readers : pc[q] \notin WakesWriters /\ ~WakesOut(q)
  BY <1>3, Zenon DEF WakesIn, WakesReaders, WakesWriters, WakesOut, Procs
<1>7. cnt \in Nat /\ size \in Nat /\ PIPE_BUF \in Nat /\ MINPIPESIZE \in Nat
  BY SizeNat, PipeAssumption, Zenon DEF TypeOK
<1>8. ASSUME NEW p \in Readers, p \in asleep PROVE cnt = 0 /\ "EOF" \notin pipe_state
  <2>1. Sleeping("rsleep")
    BY <1>3, <1>8, Zenon DEF LockInv, Legal, ReadPcs, Sleepable, Locking, Sleeping, Procs
  <2> QED BY <1>4, <1>6, <1>7, <2>1 DEF Waits, EofTold, ReadersTold
<1>9. ASSUME NEW p \in Writers, p \in asleep, ~dropped
      PROVE  cnt >= MINPIPESIZE /\ "EOF" \notin pipe_state
  <2>1. Sleeping("wsleep")
    BY <1>3, <1>9, Zenon DEF LockInv, Legal, WritePcs, Sleepable, Locking, Sleeping, Procs
  <2> QED BY <1>4, <1>6, <1>7, <1>9, <2>1 DEF Waits, EofTold, WritersTold
<1>10. ASSUME NEW e \in selecting, ~dropped PROVE ~ready(e)
  <2>1. "EOF" \notin pipe_state /\ e \in {"in", "out"}
    BY <1>10, Zenon DEF Waits, EofTold, TypeOK
  <2>2. CASE e = "in"
    BY <1>6, <1>7, <2>1, <2>2, Zenon DEF Waits, InTold, ready
  <2>3. CASE e = "out"
    BY <1>6, <1>7, <1>10, <2>1, <2>3, Zenon DEF Waits, OutTold, ready
  <2> QED BY <2>1, <2>2, <2>3, Zenon
<1> QED BY <1>5, <1>8, <1>9, <1>10, Zenon
=============================================================================
