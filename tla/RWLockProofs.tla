---------------------------- MODULE RWLockProofs ----------------------------
(***************************************************************************)
(* Safety of the reader/writer lock, for any number of processes and any   *)
(* flags.  The inductive invariant adds to the properties what makes each  *)
(* compare-and-swap preserve them: the word never counts readers and names *)
(* a writer at once, RWLOCK_WRWANT never stands without RWLOCK_WAIT, and   *)
(* at every label the process's hold and its copy of the word are what     *)
(* the code there relies on.                                               *)
(***************************************************************************)
EXTENDS RWLock, FiniteSetTheorems, TLAPS

(* Readers and a writer never share the word, and the waiter bits are      *)
(* coherent.                                                               *)
WordInv ==
  /\ owner.wr # NoProc => owner.rd = 0
  /\ owner.wrwant => owner.wait
  /\ FreeWordIsZero

Outside == {"out", "enter_read", "wait", "stopped", "dozing", "sleep",
            "wakeup"}

(* What p holds, and whether it may be queued, at each label. *)
ModeInv(p) ==
  /\ p \in slpq => pc[p] \in {"stopped", "dozing", "sleep"}
  /\ pc[p] \in Outside => mode[p] = "none"
  /\ pc[p] \in {"enter", "cas"} =>
       mode[p] = IF op[p] = "RW_DOWNGRADE" THEN "write" ELSE "none"
  /\ pc[p] \in {"wait", "stopped", "dozing", "sleep"} => op[p] # "RW_DOWNGRADE"
  /\ pc[p] \in {"downgraded", "exit_read"} => mode[p] = "read"
  /\ pc[p] \in {"held", "exit"} => mode[p] # "none"
  /\ pc[p] = "exit_write" => mode[p] = "write"
  /\ pc[p] \in {"exit_load", "exit_cas"} =>
       mode[p] = IF op[p] = "RW_WRITE" THEN "write" ELSE "read"

(* What p knows of its copy of the word at each label. *)
CopyInv(p) ==
  /\ pc[p] = "enter_read" => o[p].wr = NoProc
  /\ pc[p] = "cas" => ~check(op[p], o[p])
  /\ pc[p] \in {"wait", "stopped", "dozing"} => check(op[p], o[p])
  /\ pc[p] \in {"exit_read", "exit_write"} => ~o[p].wait

IInv ==
  /\ TypeOK
  /\ WordMatchesHolders
  /\ WordInv
  /\ \A p \in Procs : ModeInv(p) /\ CopyInv(p)
  /\ NoLostWakeup
-----------------------------------------------------------------------------
Modes == {"none", "read", "write"}

(* What the operators on words yield, field by field.  Beyond these lemmas *)
(* words are opaque to the proofs.                                         *)
LEMMA WordFacts ==
  /\ Zero \in Word /\ Zero.wr = NoProc /\ Zero.rd = 0 /\ ~Zero.wait /\ ~Zero.wrwant
  /\ \A w \in Word :
       /\ w.wr \in Procs \cup {NoProc} /\ w.rd \in Nat
       /\ w.wait \in BOOLEAN /\ w.wrwant \in BOOLEAN
       /\ w.wr = NoProc /\ w.rd = 0 /\ ~w.wait /\ ~w.wrwant => w = Zero
BY DEF Word, Zero

LEMMA CheckFacts ==
  \A w : /\ check("RW_WRITE", w) <=> w # Zero
         /\ check("RW_READ", w) <=> w.wr # NoProc
         /\ ~check("RW_DOWNGRADE", w)
BY Zenon DEF check

LEMMA IncFacts ==
  ASSUME NEW p \in Procs, NEW w \in Word
  PROVE  /\ LET n == inc("RW_WRITE", p, w)
            IN  n \in Word /\ n.wr = p /\ n.rd = w.rd
                /\ n.wait = w.wait /\ n.wrwant = w.wrwant
         /\ LET n == inc("RW_READ", p, w)
            IN  n \in Word /\ n.wr = w.wr /\ n.rd = w.rd + 1
                /\ n.wait = w.wait /\ n.wrwant = w.wrwant
         /\ LET n == inc("RW_DOWNGRADE", p, w)
            IN  n \in Word /\ n.wr = NoProc /\ n.rd = w.rd + 1
                /\ n.wait = w.wait /\ n.wrwant = w.wrwant
<1> DEFINE a == [w EXCEPT !.wr = p]
           b == [w EXCEPT !.rd = w.rd + 1]
           c == [w EXCEPT !.wr = NoProc, !.rd = w.rd + 1]
<1>1. inc("RW_WRITE", p, w) = a /\ inc("RW_READ", p, w) = b /\ inc("RW_DOWNGRADE", p, w) = c
  BY Zenon DEF inc
<1>2. a \in Word /\ a.wr = p /\ a.rd = w.rd /\ a.wait = w.wait /\ a.wrwant = w.wrwant
  BY Zenon DEF Word
<1>0. w.rd + 1 \in Nat
  BY DEF Word
<1>3. b \in Word /\ b.wr = w.wr /\ b.rd = w.rd + 1 /\ b.wait = w.wait /\ b.wrwant = w.wrwant
  BY <1>0, Zenon DEF Word
<1>4. c \in Word /\ c.wr = NoProc /\ c.rd = w.rd + 1 /\ c.wait = w.wait /\ c.wrwant = w.wrwant
  BY <1>0, Zenon DEF Word
<1> QED BY <1>1, <1>2, <1>3, <1>4, Zenon

LEMMA WaitSetFacts ==
  ASSUME NEW k \in {"RW_READ", "RW_WRITE"}, NEW w \in Word
  PROVE  LET n == wait_set(k, w)
         IN  n \in Word /\ n.wr = w.wr /\ n.rd = w.rd /\ n.wait
BY Zenon DEF Word, wait_set

LEMMA ExitFacts ==
  ASSUME NEW w \in Word, w.rd # 0
  PROVE  /\ LET n == less_reader(w)
            IN  n \in Word /\ n.wr = w.wr /\ n.rd = w.rd - 1
                /\ n.wait = w.wait /\ n.wrwant = w.wrwant
         /\ LET n == exit_set("RW_READ", w)
            IN  n \in Word /\ n.wr = w.wr /\ n.rd = w.rd - 1
                /\ ~n.wait /\ ~n.wrwant
         /\ exit_set("RW_WRITE", w) = Zero
<1>1. less_reader(w) = [w EXCEPT !.rd = w.rd - 1] /\ w.rd - 1 \in Nat
  BY DEF less_reader, Word
<1>2. exit_set("RW_READ", w) =
        [[w EXCEPT !.rd = w.rd - 1] EXCEPT !.wait = FALSE, !.wrwant = FALSE]
  BY <1>1, Zenon DEF exit_set
<1>3. exit_set("RW_WRITE", w) = Zero
  BY Zenon DEF exit_set
<1> QED BY <1>1, <1>2, <1>3, Zenon DEF Word

(* The number of readers follows the change of one process's mode. *)
LEMMA ReaderCount ==
  ASSUME mode \in [Procs -> Modes], NEW p \in Procs, NEW m \in Modes,
         mode' = [mode EXCEPT ![p] = m]
  PROVE  /\ mode[p] = "read" /\ m # "read" =>
              Cardinality(Readers') = Cardinality(Readers) - 1
         /\ mode[p] # "read" /\ m = "read" =>
              Cardinality(Readers') = Cardinality(Readers) + 1
         /\ (mode[p] = "read" <=> m = "read") =>
              Cardinality(Readers') = Cardinality(Readers)
<1>1. IsFiniteSet(Readers) /\ Cardinality(Readers) \in Nat
  BY FS_Subset, FS_CardinalityType, ProcsAssumption, Zenon DEF Readers
<1>2. ASSUME mode[p] = "read", m # "read"
      PROVE  Cardinality(Readers') = Cardinality(Readers) - 1
  <2>1. Readers' = Readers \ {p} /\ p \in Readers
    BY <1>2, Zenon DEF Readers, Modes
  <2> QED BY <2>1, <1>1, FS_RemoveElement, Zenon
<1>3. ASSUME mode[p] # "read", m = "read"
      PROVE  Cardinality(Readers') = Cardinality(Readers) + 1
  <2>1. Readers' = Readers \cup {p} /\ p \notin Readers
    BY <1>3, Zenon DEF Readers, Modes
  <2> QED BY <2>1, <1>1, FS_AddElement, Zenon
<1>4. ASSUME mode[p] = "read" <=> m = "read"
      PROVE  Cardinality(Readers') = Cardinality(Readers)
  <2>1. Readers' = Readers
    BY <1>4, Zenon DEF Readers, Modes
  <2> QED BY <2>1, Zenon
<1> QED BY <1>2, <1>3, <1>4, Zenon

(* What a holder may conclude about the word. *)
LEMMA HolderFacts ==
  ASSUME TypeOK, WordMatchesHolders, WordInv, NEW p \in Procs
  PROVE  /\ mode[p] = "read" => owner.rd # 0 /\ owner.wr = NoProc
         /\ mode[p] = "write" <=> owner.wr = p
<1>1. IsFiniteSet(Readers)
  BY FS_Subset, ProcsAssumption, Zenon DEF Readers
<1>2. mode[p] = "read" => Cardinality(Readers) # 0
  BY <1>1, FS_EmptySet, Zenon DEF Readers
<1> QED BY <1>2, Zenon DEF WordMatchesHolders, WordInv

(* The changes of word and mode that keep them in agreement: a reader or a *)
(* writer enters, a writer becomes a reader, a reader or a writer leaves.  *)
LEMMA WordStep ==
  ASSUME TypeOK, WordMatchesHolders, WordInv, owner' \in Word,
         NEW p \in Procs, NEW m \in Modes, mode' = [mode EXCEPT ![p] = m],
         \/ /\ mode[p] = "none" /\ m = "read" /\ owner.wr = NoProc
            /\ owner'.wr = NoProc /\ owner'.rd = owner.rd + 1
            /\ owner'.wait = owner.wait /\ owner'.wrwant = owner.wrwant
         \/ /\ mode[p] = "none" /\ m = "write" /\ owner = Zero
            /\ owner'.wr = p /\ owner'.rd = 0 /\ ~owner'.wrwant
         \/ /\ mode[p] = "write" /\ m = "read"
            /\ owner'.wr = NoProc /\ owner'.rd = owner.rd + 1
            /\ owner'.wait = owner.wait /\ owner'.wrwant = owner.wrwant
         \/ /\ mode[p] = "read" /\ m = "none"
            /\ owner'.wr = owner.wr /\ owner'.rd = owner.rd - 1
            /\ ~owner'.wait /\ ~owner'.wrwant
         \/ mode[p] = "write" /\ m = "none" /\ owner' = Zero
  PROVE  WordMatchesHolders' /\ WordInv'
<1> USE ProcsAssumption, WordFacts
<1>1. owner.rd \in Nat /\ owner'.rd \in Nat
  BY Zenon DEF TypeOK
<1>2. owner'.rd = Cardinality(Readers')
  <2>1. mode \in [Procs -> Modes] /\ owner.rd = Cardinality(Readers)
    BY Zenon DEF TypeOK, Modes, WordMatchesHolders
  <2>2. mode[p] = "write" => owner.rd = 0
    BY HolderFacts, Zenon DEF WordInv
  <2>3. /\ mode[p] = "read" /\ m # "read" => Cardinality(Readers') = owner.rd - 1
        /\ mode[p] # "read" /\ m = "read" => Cardinality(Readers') = owner.rd + 1
        /\ mode[p] # "read" /\ m # "read" => Cardinality(Readers') = owner.rd
    BY <2>1, ReaderCount, Zenon
  <2> QED BY <1>1, <2>2, <2>3, Zenon
<1>3. ASSUME NEW q \in Procs PROVE owner'.wr = q <=> mode'[q] = "write"
  BY <1>3, HolderFacts DEF TypeOK, Modes, WordMatchesHolders
<1>4. WordInv'
  BY <1>1, HolderFacts DEF TypeOK, WordInv, FreeWordIsZero
<1> QED BY <1>2, <1>3, <1>4, Zenon DEF WordMatchesHolders

(* A jump keeps the types of a process's program counter and locals, and   *)
(* touches nobody else's.                                                  *)
LEMMA GotoFacts ==
  ASSUME TypeOK, NEW p \in Procs, NEW l \in Labels, Goto(p, l)
  PROVE  /\ pc' \in [Procs -> Labels] /\ op' \in [Procs -> Ops] /\ o' \in [Procs -> Word]
         /\ flags' \in [Procs -> SUBSET {"INTR", "SLEEPFAIL", "NOSLEEP"}]
         /\ pc'[p] = l /\ o'[p] = Zero
         /\ \A q \in Procs : q # p => pc'[q] = pc[q] /\ op'[q] = op[q] /\ o'[q] = o[q]
<1>1. pc' \in [Procs -> Labels] /\ pc'[p] = l /\ \A q \in Procs : q # p => pc'[q] = pc[q]
  BY Zenon DEF TypeOK, Goto
<1>2. o' \in [Procs -> Word] /\ o'[p] = Zero /\ \A q \in Procs : q # p => o'[q] = o[q]
  BY WordFacts, Zenon DEF TypeOK, Goto
<1>3. /\ op' \in [Procs -> Ops] /\ \A q \in Procs : q # p => op'[q] = op[q]
      /\ flags' \in [Procs -> SUBSET {"INTR", "SLEEPFAIL", "NOSLEEP"}]
  BY Zenon DEF TypeOK, Goto, Ops
<1> QED
  BY <1>1, <1>2, <1>3, Zenon

(* Wherever control moves, the copy and the request keep their types. *)
Moved ==
  /\ pc' \in [Procs -> Labels] /\ o' \in [Procs -> Word]
  /\ op' \in [Procs -> Ops]
  /\ flags' \in [Procs -> SUBSET {"INTR", "SLEEPFAIL", "NOSLEEP"}]

LEMMA MoveFacts ==
  ASSUME TypeOK, NEW p \in Procs
  PROVE  /\ \A l \in Labels : Goto(p, l) \/ Load(p, l) => Moved
         /\ \A k \in Ops : call_rw_enter(p, k, {}) => Moved
<1>1. ASSUME NEW l \in Labels, Goto(p, l) PROVE Moved
  BY <1>1, GotoFacts, Zenon DEF Moved
<1>2. ASSUME NEW l \in Labels, Load(p, l) PROVE Moved
  BY <1>2, Zenon DEF TypeOK, Load, Moved
<1>3. ASSUME NEW k \in Ops, call_rw_enter(p, k, {}) PROVE Moved
  BY <1>3, WordFacts, Zenon DEF TypeOK, call_rw_enter, Moved, Labels
<1> QED BY <1>1, <1>2, <1>3, Zenon

LEMMA InitInv == Init => IInv
<1> SUFFICES ASSUME Init PROVE IInv
  OBVIOUS
<1>1. TypeOK
  BY WordFacts, Zenon DEF Init, TypeOK, Labels, Ops
<1>2. WordMatchesHolders
  <2>1. Readers = {}
    BY Zenon DEF Init, Readers
  <2> QED BY <2>1, WordFacts, FS_EmptySet, ProcsAssumption, Zenon DEF Init, WordMatchesHolders
<1>3. WordInv
  BY WordFacts, Zenon DEF Init, WordInv, FreeWordIsZero
<1>4. \A p \in Procs : ModeInv(p) /\ CopyInv(p)
  BY Zenon DEF Init, ModeInv, CopyInv, Outside
<1>5. NoLostWakeup
  BY Zenon DEF Init, NoLostWakeup
<1> QED BY <1>1, <1>2, <1>3, <1>4, <1>5, Zenon DEF IInv

LEMMA NextInv == IInv /\ [Next]_vars => IInv'
<1> SUFFICES ASSUME IInv, [Next]_vars PROVE IInv'
  OBVIOUS
<1> USE ProcsAssumption
<1>u. CASE UNCHANGED vars
  BY <1>u DEF IInv, TypeOK, WordMatchesHolders, Readers, WordInv, FreeWordIsZero,
     ModeInv, CopyInv, NoLostWakeup, vars
<1>n. ASSUME NEW p \in Procs, Call(p) \/ Enter(p) \/ Stop(p) \/ Exit(p) PROVE IInv'
  <2>1. CASE RwEnter(p)
    <3>1. owner' = owner /\ mode' = mode
      BY <2>1, Zenon DEF RwEnter
    <3>2. WordMatchesHolders' /\ WordInv'
      BY <3>1, Zenon DEF IInv, WordMatchesHolders, Readers, WordInv, FreeWordIsZero
    <3>3. TypeOK'
      BY <2>1, <3>1, WordFacts, FlagsAssumption DEF IInv, TypeOK, RwEnter,
         call_rw_enter, Labels, Ops
    <3>4. ASSUME NEW q \in Procs PROVE ModeInv(q)' /\ CopyInv(q)'
      BY <2>1 DEF IInv, TypeOK, RwEnter, call_rw_enter, ModeInv, CopyInv, Outside
    <3>5. NoLostWakeup'
      BY <2>1 DEF IInv, TypeOK, RwEnter, call_rw_enter, NoLostWakeup
    <3> QED BY <3>2, <3>3, <3>4, <3>5, Zenon DEF IInv
  <2>2. CASE RwEnterRead(p)
    <3>1. owner' = owner /\ mode' = mode
      BY <2>2, Zenon DEF RwEnterRead
    <3>2. WordMatchesHolders' /\ WordInv'
      BY <3>1, Zenon DEF IInv, WordMatchesHolders, Readers, WordInv, FreeWordIsZero
    <3>3. TypeOK'
      <4>1. CASE call_rw_enter(p, "RW_READ", {})
        BY <2>2, <3>1, <4>1, WordFacts, Zenon DEF IInv, TypeOK, RwEnterRead, call_rw_enter,
           Labels, Ops
      <4>2. CASE Load(p, "enter_read")
        BY <2>2, <3>1, <4>2, Zenon DEF IInv, TypeOK, RwEnterRead, Load, Labels
      <4> QED BY <2>2, <4>1, <4>2, Zenon DEF RwEnterRead
    <3>4. ASSUME NEW q \in Procs PROVE ModeInv(q)' /\ CopyInv(q)'
      BY <2>2 DEF IInv, TypeOK, RwEnterRead, call_rw_enter, Load, ModeInv, CopyInv,
         Outside
    <3>5. NoLostWakeup'
      BY <2>2 DEF IInv, TypeOK, RwEnterRead, call_rw_enter, Load, NoLostWakeup
    <3> QED BY <3>2, <3>3, <3>4, <3>5, Zenon DEF IInv
  <2>3. CASE RwEnterWrite(p)
    <3>1. \/ owner' = owner /\ mode' = mode
          \/ owner = Zero /\ mode' = [mode EXCEPT ![p] = "write"] /\ mode[p] = "none"
                  /\ owner' = inc("RW_WRITE", p, Zero)
      BY <2>3, Zenon DEF IInv, TypeOK, RwEnterWrite, rw_cas, call_rw_enter, Goto, ModeInv,
         CopyInv, Outside
    <3>2. owner' \in Word /\ WordMatchesHolders' /\ WordInv'
      <4>1. CASE owner' = owner /\ mode' = mode
        BY <4>1, Zenon DEF IInv, TypeOK, WordMatchesHolders, Readers, WordInv, FreeWordIsZero
      <4>2. CASE ~(owner' = owner /\ mode' = mode)
        <5>1. owner' \in Word
          BY <3>1, <4>2, WordFacts, HolderFacts, IncFacts DEF IInv, TypeOK
        <5>2. owner'.wr = p /\ owner'.rd = 0 /\ ~owner'.wrwant
          BY <3>1, <4>2, <5>1, WordFacts, HolderFacts, IncFacts DEF IInv, TypeOK,
             WordInv
        <5> QED BY <3>1, <4>2, <5>1, <5>2, WordStep, Zenon DEF IInv, Modes
      <4> QED BY <4>1, <4>2, Zenon
    <3>3. TypeOK'
      <4>1. Moved
        BY <2>3, MoveFacts, Zenon DEF IInv, RwEnterWrite, rw_cas, Labels, Ops
      <4>2. slpq' \subseteq Procs /\ mode' \in [Procs -> {"none", "read", "write"}]
        BY <2>3, Zenon DEF IInv, TypeOK, RwEnterWrite, rw_cas
      <4> QED BY <3>2, <4>1, <4>2 DEF IInv, TypeOK, Moved
    <3>4. ASSUME NEW q \in Procs PROVE ModeInv(q)' /\ CopyInv(q)'
      BY <2>3 DEF IInv, TypeOK, RwEnterWrite, rw_cas, call_rw_enter, Goto, ModeInv,
         CopyInv, Outside
    <3>5. NoLostWakeup'
      BY <2>3, <3>1, WordFacts, HolderFacts, IncFacts DEF IInv, TypeOK, RwEnterWrite,
         rw_cas, call_rw_enter, Goto, NoLostWakeup
    <3> QED BY <3>2, <3>3, <3>4, <3>5, Zenon DEF IInv
  <2>4. CASE EnterLoad(p)
    <3>1. owner' = owner /\ mode' = mode
      BY <2>4, Zenon DEF EnterLoad
    <3>2. WordMatchesHolders' /\ WordInv'
      BY <3>1, Zenon DEF IInv, WordMatchesHolders, Readers, WordInv, FreeWordIsZero
    <3>3. TypeOK'
      <4>1. Moved
        BY <2>4, MoveFacts, Zenon DEF IInv, EnterLoad, Labels, Ops
      <4>2. slpq' \subseteq Procs /\ mode' \in [Procs -> {"none", "read", "write"}]
        BY <2>4, Zenon DEF IInv, TypeOK, EnterLoad
      <4> QED BY <3>1, <4>1, <4>2, Zenon DEF IInv, TypeOK, Moved
    <3>4. ASSUME NEW q \in Procs PROVE ModeInv(q)' /\ CopyInv(q)'
      BY <2>4, CheckFacts DEF IInv, TypeOK, EnterLoad, Load, Goto, ModeInv, CopyInv,
         Outside
    <3>5. NoLostWakeup'
      BY <2>4 DEF IInv, TypeOK, EnterLoad, Load, Goto, NoLostWakeup
    <3> QED BY <3>2, <3>3, <3>4, <3>5, Zenon DEF IInv
  <2>5. CASE EnterSleep(p)
    <3>1. \/ owner' = owner
          \/ owner = o[p] /\ owner' = wait_set(op[p], owner) /\ check(op[p], owner)
      BY <2>5, Zenon DEF IInv, EnterSleep, announce, Goto, CopyInv
    <3>2. owner' \in Word /\ WordMatchesHolders' /\ WordInv'
      <4>1. mode' = mode /\ op[p] \in {"RW_READ", "RW_WRITE"}
        BY <2>5, Zenon DEF EnterSleep, IInv, TypeOK, ModeInv, Ops
      <4>0. check(op[p], owner) => owner # Zero
        BY <4>1, WordFacts, CheckFacts, Zenon
      <4>2. owner' \in Word /\ owner'.wr = owner.wr /\ owner'.rd = owner.rd
            /\ (owner' = owner \/ (owner'.wait /\ owner # Zero))
        <5>1. CASE owner' = owner
          BY <5>1, Zenon DEF IInv, TypeOK
        <5>2. CASE owner' = wait_set(op[p], owner) /\ check(op[p], owner)
          BY <4>0, <4>1, <5>2, WaitSetFacts DEF IInv, TypeOK
        <5> QED BY <3>1, <5>1, <5>2, Zenon
      <4>3. WordMatchesHolders'
        BY <4>1, <4>2, Zenon DEF IInv, WordMatchesHolders, Readers
      <4>4. WordInv'
        BY <4>2, Zenon DEF IInv, WordInv, FreeWordIsZero
      <4> QED BY <4>2, <4>3, <4>4, Zenon
    <3>3. TypeOK'
      <4>1. Moved
        BY <2>5, MoveFacts, Zenon DEF IInv, EnterSleep, Labels, Ops
      <4>2. slpq' \subseteq Procs /\ mode' \in [Procs -> {"none", "read", "write"}]
        BY <2>5, Zenon DEF IInv, TypeOK, EnterSleep
      <4> QED BY <3>2, <4>1, <4>2, Zenon DEF IInv, TypeOK, Moved
    <3>4. ASSUME NEW q \in Procs PROVE ModeInv(q)' /\ CopyInv(q)'
      BY <2>5 DEF IInv, TypeOK, EnterSleep, announce, Goto, ModeInv, CopyInv, Outside
    <3>5. NoLostWakeup'
      <4>1. (owner = o[p] => owner'.wait) /\ (owner.wait => owner'.wait)
        BY <2>5, <3>1, WaitSetFacts DEF IInv, TypeOK, ModeInv, Ops, EnterSleep, announce
      <4>2. \A q \in Procs : pc'[q] = "sleep" /\ q \in slpq' =>
              (q = p /\ owner = o[p]) \/ (pc[q] = "sleep" /\ q \in slpq)
        <5>1. \A q \in Procs : q # p => pc'[q] = pc[q]
          BY <2>5, Zenon DEF IInv, TypeOK, EnterSleep, Goto
        <5>2. slpq' = slpq \/ (slpq' = slpq \cup {p} /\ owner = o[p])
          BY <2>5, Zenon DEF EnterSleep
        <5>3. p \notin slpq
          BY <2>5, Zenon DEF IInv, ModeInv, EnterSleep
        <5> QED BY <5>1, <5>2, <5>3
      <4>3. \A q \in Procs : pc[q] \in {"wakeup", "downgraded"} => pc'[q] = pc[q]
        BY <2>5, Zenon DEF IInv, TypeOK, EnterSleep, announce, Goto
      <4> QED BY <4>1, <4>2, <4>3, Zenon DEF IInv, NoLostWakeup
    <3> QED BY <3>2, <3>3, <3>4, <3>5, Zenon DEF IInv
  <2>6. CASE EnterWoken(p)
    <3>1. owner' = owner /\ mode' = mode
      BY <2>6, Zenon DEF EnterWoken
    <3>2. WordMatchesHolders' /\ WordInv'
      BY <3>1, Zenon DEF IInv, WordMatchesHolders, Readers, WordInv, FreeWordIsZero
    <3>3. TypeOK'
      <4>1. PICK l \in {"out", "enter"} : Goto(p, l)
        BY <2>6, Zenon DEF EnterWoken, waited
      <4> QED BY <2>6, <3>1, <4>1, WordFacts DEF IInv, TypeOK, EnterWoken, Goto, Labels,
         Ops
    <3>4. ASSUME NEW q \in Procs PROVE ModeInv(q)' /\ CopyInv(q)'
      BY <2>6 DEF IInv, TypeOK, EnterWoken, waited, Goto, ModeInv, CopyInv, Outside
    <3>5. NoLostWakeup'
      BY <2>6, Zenon DEF IInv, TypeOK, EnterWoken, waited, Goto, NoLostWakeup
    <3> QED BY <3>2, <3>3, <3>4, <3>5, Zenon DEF IInv
  <2>7. CASE EnterCas(p)
    <3>1. \/ owner' = owner /\ mode' = mode
          \/ /\ owner = o[p] /\ owner' = inc(op[p], p, owner) /\ ~check(op[p], owner)
             /\ mode' = [mode EXCEPT ![p] = IF op[p] = "RW_WRITE" THEN "write" ELSE "read"]
             /\ mode[p] = IF op[p] = "RW_DOWNGRADE" THEN "write" ELSE "none"
      BY <2>7, Zenon DEF IInv, EnterCas, rw_cas, held_by, Goto, ModeInv, CopyInv
    <3>2. owner' \in Word /\ WordMatchesHolders' /\ WordInv'
      <4>1. CASE owner' = owner /\ mode' = mode
        BY <4>1, Zenon DEF IInv, TypeOK, WordMatchesHolders, Readers, WordInv, FreeWordIsZero
      <4>2. CASE ~(owner' = owner /\ mode' = mode)
        <5>1. CASE op[p] = "RW_WRITE"
          BY <3>1, <4>2, <5>1, WordStep, WordFacts, IncFacts, CheckFacts DEF IInv,
             TypeOK, Modes
        <5>2. CASE op[p] = "RW_READ"
          <6>1. /\ owner' \in Word /\ owner'.wr = NoProc /\ owner'.rd = owner.rd + 1
                /\ owner'.wait = owner.wait /\ owner'.wrwant = owner.wrwant
                /\ mode' = [mode EXCEPT ![p] = "read"]
                /\ mode[p] = "none" /\ owner.wr = NoProc
            BY <3>1, <4>2, <5>2, IncFacts, CheckFacts DEF IInv, TypeOK
          <6> QED BY <6>1, WordStep, Zenon DEF IInv, Modes
        <5>3. CASE op[p] = "RW_DOWNGRADE"
          <6>1. /\ owner' \in Word /\ owner'.wr = NoProc /\ owner'.rd = owner.rd + 1
                /\ owner'.wait = owner.wait /\ owner'.wrwant = owner.wrwant
                /\ mode' = [mode EXCEPT ![p] = "read"]
                /\ mode[p] = "write"
            BY <3>1, <4>2, <5>3, IncFacts, CheckFacts DEF IInv, TypeOK
          <6> QED BY <6>1, WordStep, Zenon DEF IInv, Modes
        <5> QED BY <5>1, <5>2, <5>3, Zenon DEF IInv, TypeOK, Ops
      <4> QED BY <4>1, <4>2, Zenon
    <3>3. TypeOK'
      <4>1. Moved
        BY <2>7, MoveFacts, Zenon DEF IInv, EnterCas, rw_cas, Labels, Ops
      <4>2. slpq' \subseteq Procs /\ mode' \in [Procs -> {"none", "read", "write"}]
        BY <2>7, Zenon DEF IInv, TypeOK, EnterCas, rw_cas, held_by
      <4> QED BY <3>2, <4>1, <4>2, Zenon DEF IInv, TypeOK, Moved
    <3>4. ASSUME NEW q \in Procs PROVE ModeInv(q)' /\ CopyInv(q)'
      <4>1. CASE q # p
        BY <2>7, <4>1 DEF IInv, TypeOK, EnterCas, rw_cas, held_by, Goto, ModeInv,
           CopyInv, Outside
      <4>2. CASE q = p
        <5>1. owner = o[p] /\ o[p].wr # NoProc /\ o[p].wait => op[p] = "RW_DOWNGRADE"
          BY <2>7, CheckFacts, WordFacts DEF IInv, TypeOK, EnterCas, CopyInv, Ops
        <5>2. /\ pc'[p] \in {"downgraded", "held", "enter"}
              /\ pc'[p] = "enter" => mode' = mode /\ op' = op
              /\ pc'[p] # "enter" => mode'[p] = IF op[p] = "RW_WRITE" THEN "write" ELSE "read"
              /\ pc'[p] = "downgraded" => op[p] = "RW_DOWNGRADE"
          BY <2>7, <5>1 DEF IInv, TypeOK, EnterCas, rw_cas, held_by, Goto
        <5> QED BY <2>7, <4>2, <5>2 DEF IInv, EnterCas, ModeInv, CopyInv, Outside
      <4> QED BY <4>1, <4>2, Zenon
    <3>5. NoLostWakeup'
      <4>1. owner'.wait = owner.wait
        BY <3>1, IncFacts DEF IInv, TypeOK, Ops
      <4> QED BY <2>7, <4>1, Zenon DEF IInv, TypeOK, EnterCas, rw_cas, held_by, Goto,
         NoLostWakeup
    <3> QED BY <3>2, <3>3, <3>4, <3>5, Zenon DEF IInv
  <2>8. CASE EnterWakeup(p)
    <3>1. owner' = owner /\ mode' = mode
      BY <2>8, Zenon DEF EnterWakeup
    <3>2. WordMatchesHolders' /\ WordInv'
      BY <3>1, Zenon DEF IInv, WordMatchesHolders, Readers, WordInv, FreeWordIsZero
    <3>3. TypeOK'
      BY <2>8, <3>1, WordFacts DEF IInv, TypeOK, EnterWakeup, Goto, Labels, Ops
    <3>4. ASSUME NEW q \in Procs PROVE ModeInv(q)' /\ CopyInv(q)'
      BY <2>8 DEF IInv, TypeOK, EnterWakeup, Goto, ModeInv, CopyInv, Outside
    <3>5. NoLostWakeup'
      BY <2>8, Zenon DEF IInv, TypeOK, EnterWakeup, Goto, NoLostWakeup
    <3> QED BY <3>2, <3>3, <3>4, <3>5, Zenon DEF IInv
  <2>9. CASE RwEnterReadCas(p)
    <3>1. \/ owner' = owner /\ mode' = mode
          \/ owner = o[p] /\ mode' = [mode EXCEPT ![p] = "read"] /\ mode[p] = "none"
                  /\ owner.wr = NoProc /\ owner' = inc("RW_READ", p, owner)
      BY <2>9, Zenon DEF IInv, TypeOK, RwEnterReadCas, rw_cas, call_rw_enter, Goto, ModeInv,
         CopyInv, Outside
    <3>2. owner' \in Word /\ WordMatchesHolders' /\ WordInv'
      <4>1. CASE owner' = owner /\ mode' = mode
        BY <4>1, Zenon DEF IInv, TypeOK, WordMatchesHolders, Readers, WordInv, FreeWordIsZero
      <4>2. CASE ~(owner' = owner /\ mode' = mode)
        <5>1. owner' \in Word
          BY <3>1, <4>2, WordFacts, HolderFacts, IncFacts DEF IInv, TypeOK
        <5>2. owner'.wr = NoProc /\ owner'.rd = owner.rd + 1
              /\ owner'.wait = owner.wait /\ owner'.wrwant = owner.wrwant
          BY <3>1, <4>2, <5>1, WordFacts, HolderFacts, IncFacts DEF IInv, TypeOK,
             WordInv
        <5> QED BY <3>1, <4>2, <5>1, <5>2, WordStep, Zenon DEF IInv, Modes
      <4> QED BY <4>1, <4>2, Zenon
    <3>3. TypeOK'
      <4>1. Moved
        BY <2>9, MoveFacts, Zenon DEF IInv, RwEnterReadCas, rw_cas, Labels, Ops
      <4>2. slpq' \subseteq Procs /\ mode' \in [Procs -> {"none", "read", "write"}]
        BY <2>9, Zenon DEF IInv, TypeOK, RwEnterReadCas, rw_cas
      <4> QED BY <3>2, <4>1, <4>2, Zenon DEF IInv, TypeOK, Moved
    <3>4. ASSUME NEW q \in Procs PROVE ModeInv(q)' /\ CopyInv(q)'
      BY <2>9 DEF IInv, TypeOK, RwEnterReadCas, rw_cas, call_rw_enter, Goto, ModeInv,
         CopyInv, Outside
    <3>5. NoLostWakeup'
      BY <2>9, <3>1, WordFacts, HolderFacts, IncFacts DEF IInv, TypeOK, RwEnterReadCas,
         rw_cas, call_rw_enter, Goto, NoLostWakeup
    <3> QED BY <3>2, <3>3, <3>4, <3>5, Zenon DEF IInv
  <2>10. CASE EnterStop(p)
    <3>1. owner' = owner /\ mode' = mode
      BY <2>10, Zenon DEF EnterStop
    <3>2. WordMatchesHolders' /\ WordInv'
      BY <3>1, Zenon DEF IInv, WordMatchesHolders, Readers, WordInv, FreeWordIsZero
    <3>3. TypeOK'
      BY <2>10, <3>1, WordFacts, Zenon DEF IInv, TypeOK, EnterStop, Labels, Ops
    <3>4. ASSUME NEW q \in Procs PROVE ModeInv(q)' /\ CopyInv(q)'
      BY <2>10 DEF IInv, TypeOK, EnterStop, ModeInv, CopyInv, Outside
    <3>5. NoLostWakeup'
      BY <2>10, Zenon DEF IInv, TypeOK, EnterStop, NoLostWakeup
    <3> QED BY <3>2, <3>3, <3>4, <3>5, Zenon DEF IInv
  <2>11. CASE EnterContinue(p)
    <3>1. \/ owner' = owner
          \/ owner = o[p] /\ owner' = wait_set(op[p], owner) /\ check(op[p], owner)
      BY <2>11, Zenon DEF IInv, EnterContinue, announce, waited, Goto, CopyInv
    <3>2. owner' \in Word /\ WordMatchesHolders' /\ WordInv'
      <4>1. mode' = mode /\ op[p] \in {"RW_READ", "RW_WRITE"}
        BY <2>11, Zenon DEF EnterContinue, IInv, TypeOK, ModeInv, Ops
      <4>0. check(op[p], owner) => owner # Zero
        BY <4>1, WordFacts, CheckFacts, Zenon
      <4>2. owner' \in Word /\ owner'.wr = owner.wr /\ owner'.rd = owner.rd
            /\ (owner' = owner \/ (owner'.wait /\ owner # Zero))
        <5>1. CASE owner' = owner
          BY <5>1, Zenon DEF IInv, TypeOK
        <5>2. CASE owner' = wait_set(op[p], owner) /\ check(op[p], owner)
          BY <4>0, <4>1, <5>2, WaitSetFacts DEF IInv, TypeOK
        <5> QED BY <3>1, <5>1, <5>2, Zenon
      <4>3. WordMatchesHolders'
        BY <4>1, <4>2, Zenon DEF IInv, WordMatchesHolders, Readers
      <4>4. WordInv'
        BY <4>2, Zenon DEF IInv, WordInv, FreeWordIsZero
      <4> QED BY <4>2, <4>3, <4>4, Zenon
    <3>3. TypeOK'
      <4>1. Moved
        BY <2>11, MoveFacts, Zenon DEF IInv, EnterContinue, waited, Labels, Ops
      <4>2. slpq' \subseteq Procs /\ mode' \in [Procs -> {"none", "read", "write"}]
        BY <2>11, Zenon DEF IInv, TypeOK, EnterContinue
      <4> QED BY <3>2, <4>1, <4>2, Zenon DEF IInv, TypeOK, Moved
    <3>4. ASSUME NEW q \in Procs PROVE ModeInv(q)' /\ CopyInv(q)'
      BY <2>11 DEF IInv, TypeOK, EnterContinue, announce, waited, Goto, ModeInv,
         CopyInv, Outside
    <3>5. NoLostWakeup'
      <4>1. (owner = o[p] => owner'.wait) /\ (owner.wait => owner'.wait)
        BY <2>11, <3>1, WaitSetFacts DEF IInv, TypeOK, ModeInv, Ops, EnterContinue,
           announce
      <4>2. \A q \in Procs : pc'[q] = "sleep" /\ q \in slpq' => pc[q] = "sleep" /\ q \in slpq
        BY <2>11 DEF IInv, TypeOK, EnterContinue, announce, waited, Goto
      <4>3. \A q \in Procs : pc[q] \in {"wakeup", "downgraded"} => pc'[q] = pc[q]
        BY <2>11, Zenon DEF IInv, TypeOK, EnterContinue, announce, waited, Goto
      <4> QED BY <4>1, <4>2, <4>3, Zenon DEF IInv, NoLostWakeup
    <3> QED BY <3>2, <3>3, <3>4, <3>5, Zenon DEF IInv
  <2>12. CASE Signal(p)
    <3>1. owner' = owner /\ mode' = mode
      BY <2>12, Zenon DEF Signal
    <3>2. WordMatchesHolders' /\ WordInv'
      BY <3>1, Zenon DEF IInv, WordMatchesHolders, Readers, WordInv, FreeWordIsZero
    <3>3. TypeOK'
      BY <2>12, <3>1, Zenon DEF IInv, TypeOK, Signal, Labels
    <3>4. ASSUME NEW q \in Procs PROVE ModeInv(q)' /\ CopyInv(q)'
      BY <2>12 DEF IInv, TypeOK, Signal, ModeInv, CopyInv, Outside
    <3>5. NoLostWakeup'
      BY <2>12, Zenon DEF IInv, TypeOK, Signal, NoLostWakeup
    <3> QED BY <3>2, <3>3, <3>4, <3>5, Zenon DEF IInv
  <2>13. CASE RwExitRead(p)
    <3>1. owner' = owner /\ mode' = mode
      BY <2>13, Zenon DEF RwExitRead
    <3>2. WordMatchesHolders' /\ WordInv'
      BY <3>1, Zenon DEF IInv, WordMatchesHolders, Readers, WordInv, FreeWordIsZero
    <3>3. TypeOK'
      <4>1. Moved
        BY <2>13, MoveFacts, Zenon DEF IInv, RwExitRead, Labels, Ops
      <4>2. slpq' \subseteq Procs /\ mode' \in [Procs -> {"none", "read", "write"}]
        BY <2>13, Zenon DEF IInv, TypeOK, RwExitRead
      <4> QED BY <3>1, <4>1, <4>2, Zenon DEF IInv, TypeOK, Moved
    <3>4. ASSUME NEW q \in Procs PROVE ModeInv(q)' /\ CopyInv(q)'
      <4>1. CASE q # p
        <5>1. /\ pc'[q] = pc[q] /\ op'[q] = op[q] /\ o'[q] = o[q] /\ mode'[q] = mode[q]
              /\ slpq' = slpq
          BY <2>13, <4>1, Zenon DEF IInv, TypeOK, RwExitRead, Goto, Load
        <5> QED BY <5>1 DEF IInv, ModeInv, CopyInv
      <4>2. CASE q = p
        <5>1. ModeInv(q)'
          BY <2>13, <4>2 DEF IInv, TypeOK, RwExitRead, Goto, Load, ModeInv, Outside
        <5>2. CopyInv(q)'
          BY <2>13, <4>2 DEF IInv, TypeOK, RwExitRead, Goto, Load, CopyInv
        <5> QED BY <5>1, <5>2, Zenon
      <4> QED BY <4>1, <4>2, Zenon
    <3>5. NoLostWakeup'
      BY <2>13, Zenon DEF IInv, TypeOK, RwExitRead, Goto, Load, NoLostWakeup
    <3> QED BY <3>2, <3>3, <3>4, <3>5, Zenon DEF IInv
  <2>14. CASE RwExitReadCas(p)
    <3>1. \/ owner' = owner /\ mode' = mode
          \/ owner = o[p] /\ mode' = [mode EXCEPT ![p] = "none"] /\ mode[p] = "read"
                  /\ ~owner.wait /\ owner' = less_reader(owner)
      BY <2>14 DEF IInv, TypeOK, RwExitReadCas, rw_cas, Goto, ModeInv, CopyInv, Outside
    <3>2. owner' \in Word /\ WordMatchesHolders' /\ WordInv'
      <4>1. CASE owner' = owner /\ mode' = mode
        BY <4>1, Zenon DEF IInv, TypeOK, WordMatchesHolders, Readers, WordInv, FreeWordIsZero
      <4>2. CASE ~(owner' = owner /\ mode' = mode)
        <5>1. owner' \in Word
          BY <3>1, <4>2, WordFacts, HolderFacts, ExitFacts DEF IInv, TypeOK
        <5>2. owner'.wr = owner.wr /\ owner'.rd = owner.rd - 1
              /\ ~owner'.wait /\ ~owner'.wrwant
          BY <3>1, <4>2, <5>1, WordFacts, HolderFacts, ExitFacts DEF IInv, TypeOK,
             WordInv
        <5> QED BY <3>1, <4>2, <5>1, <5>2, WordStep, Zenon DEF IInv, Modes
      <4> QED BY <4>1, <4>2, Zenon
    <3>3. TypeOK'
      <4>1. PICK l \in {"out", "exit"} : Goto(p, l)
        BY <2>14, Zenon DEF RwExitReadCas, rw_cas
      <4>2. l \in Labels
        BY Zenon DEF Labels
      <4>3. mode' \in [Procs -> {"none", "read", "write"}] /\ slpq' \subseteq Procs
        BY <2>14, <3>1, Zenon DEF IInv, TypeOK, RwExitReadCas
      <4> QED BY <3>2, <4>1, <4>2, <4>3, GotoFacts, Zenon DEF IInv, TypeOK
    <3>4. ASSUME NEW q \in Procs PROVE ModeInv(q)' /\ CopyInv(q)'
      <4>1. PICK l \in {"out", "exit"} : Goto(p, l)
        BY <2>14, Zenon DEF RwExitReadCas, rw_cas
      <4>2. l \in Labels
        BY Zenon DEF Labels
      <4>3. slpq' = slpq
        BY <2>14, Zenon DEF RwExitReadCas
      <4>4. CASE q # p
        <5>1. pc'[q] = pc[q] /\ op'[q] = op[q] /\ o'[q] = o[q]
          BY <4>1, <4>2, <4>4, GotoFacts, Zenon DEF IInv
        <5>2. mode'[q] = mode[q]
          BY <3>1, <4>4, Zenon DEF IInv, TypeOK
        <5>3. ModeInv(q)'
          BY <4>3, <5>1, <5>2, Zenon DEF IInv, ModeInv
        <5>4. CopyInv(q)'
          BY <5>1, Zenon DEF IInv, CopyInv, check
        <5> QED BY <5>3, <5>4, Zenon
      <4>5. CASE q = p
        <5>1. /\ pc'[p] = "out" \/ pc'[p] = "exit"
              /\ pc'[p] = "out" => mode'[p] = "none"
              /\ pc'[p] = "exit" => mode'[p] # "none"
          BY <2>14, Zenon DEF IInv, TypeOK, RwExitReadCas, rw_cas, Goto, ModeInv
        <5>2. p \notin slpq
          BY <2>14, Zenon DEF IInv, ModeInv, RwExitReadCas
        <5> QED BY <4>3, <4>5, <5>1, <5>2, Zenon DEF ModeInv, CopyInv, Outside
      <4> QED BY <4>4, <4>5, Zenon
    <3>5. NoLostWakeup'
      <4>1. owner'.wait = owner.wait
        <5>1. CASE owner' = owner
          BY <5>1, Zenon
        <5>2. CASE owner' # owner
          <6>1. mode[p] = "read" /\ owner' = less_reader(owner)
            BY <3>1, <5>2, Zenon
          <6> QED BY <6>1, ExitFacts, HolderFacts, Zenon DEF IInv, TypeOK
        <5> QED BY <5>1, <5>2, Zenon
      <4>2. pc[p] = "exit_read" /\ slpq' = slpq /\ pc'[p] \in {"out", "exit"}
            /\ \A q \in Procs : q # p => pc'[q] = pc[q]
        BY <2>14, Zenon DEF IInv, TypeOK, RwExitReadCas, rw_cas, Goto
      <4> QED BY <4>1, <4>2, Zenon DEF IInv, NoLostWakeup
    <3> QED BY <3>2, <3>3, <3>4, <3>5, Zenon DEF IInv
  <2>15. CASE RwExitWrite(p)
    <3>1. owner' = owner /\ mode' = mode
      BY <2>15, Zenon DEF RwExitWrite
    <3>2. WordMatchesHolders' /\ WordInv'
      BY <3>1, Zenon DEF IInv, WordMatchesHolders, Readers, WordInv, FreeWordIsZero
    <3>3. TypeOK'
      <4>1. Moved
        BY <2>15, MoveFacts, Zenon DEF IInv, RwExitWrite, Labels, Ops
      <4>2. slpq' \subseteq Procs /\ mode' \in [Procs -> {"none", "read", "write"}]
        BY <2>15, Zenon DEF IInv, TypeOK, RwExitWrite
      <4> QED BY <3>1, <4>1, <4>2, Zenon DEF IInv, TypeOK, Moved
    <3>4. ASSUME NEW q \in Procs PROVE ModeInv(q)' /\ CopyInv(q)'
      <4>1. CASE q # p
        <5>1. /\ pc'[q] = pc[q] /\ op'[q] = op[q] /\ o'[q] = o[q] /\ mode'[q] = mode[q]
              /\ slpq' = slpq
          BY <2>15, <4>1, Zenon DEF IInv, TypeOK, RwExitWrite, Goto, Load
        <5> QED BY <5>1, Zenon DEF IInv, ModeInv, CopyInv
      <4>2. CASE q = p
        <5>1. ModeInv(q)'
          BY <2>15, <4>2 DEF IInv, TypeOK, RwExitWrite, Goto, Load, ModeInv, Outside
        <5>2. CopyInv(q)'
          BY <2>15, <4>2 DEF IInv, TypeOK, RwExitWrite, Goto, Load, CopyInv
        <5> QED BY <5>1, <5>2, Zenon
      <4> QED BY <4>1, <4>2, Zenon
    <3>5. NoLostWakeup'
      BY <2>15, Zenon DEF IInv, TypeOK, RwExitWrite, Goto, Load, NoLostWakeup
    <3> QED BY <3>2, <3>3, <3>4, <3>5, Zenon DEF IInv
  <2>16. CASE RwExitWriteCas(p)
    <3>1. \/ owner' = owner /\ mode' = mode
          \/ owner = o[p] /\ mode' = [mode EXCEPT ![p] = "none"] /\ mode[p] = "write"
                  /\ ~owner.wait /\ owner' = Zero
      BY <2>16 DEF IInv, TypeOK, RwExitWriteCas, rw_cas, Goto, ModeInv, CopyInv, Outside
    <3>2. owner' \in Word /\ WordMatchesHolders' /\ WordInv'
      <4>1. CASE owner' = owner /\ mode' = mode
        BY <4>1, Zenon DEF IInv, TypeOK, WordMatchesHolders, Readers, WordInv, FreeWordIsZero
      <4>2. CASE ~(owner' = owner /\ mode' = mode)
        <5>1. owner' \in Word
          BY <3>1, <4>2, WordFacts, HolderFacts, Zenon DEF IInv, TypeOK
        <5>2. owner' = Zero
          BY <3>1, <4>2, <5>1, WordFacts, HolderFacts, Zenon DEF IInv, TypeOK, WordInv
        <5> QED BY <3>1, <4>2, <5>1, <5>2, WordStep, Zenon DEF IInv, Modes
      <4> QED BY <4>1, <4>2, Zenon
    <3>3. TypeOK'
      <4>1. Moved
        BY <2>16, MoveFacts, Zenon DEF IInv, RwExitWriteCas, rw_cas, Labels, Ops
      <4>2. slpq' \subseteq Procs /\ mode' \in [Procs -> {"none", "read", "write"}]
        BY <2>16, Zenon DEF IInv, TypeOK, RwExitWriteCas, rw_cas
      <4> QED BY <3>2, <4>1, <4>2, Zenon DEF IInv, TypeOK, Moved
    <3>4. ASSUME NEW q \in Procs PROVE ModeInv(q)' /\ CopyInv(q)'
      <4>1. CASE q # p
        <5>1. /\ pc'[q] = pc[q] /\ op'[q] = op[q] /\ o'[q] = o[q] /\ mode'[q] = mode[q]
              /\ slpq' = slpq
          BY <2>16, <4>1 DEF IInv, TypeOK, RwExitWriteCas, rw_cas, Goto
        <5> QED BY <5>1 DEF IInv, ModeInv, CopyInv
      <4>2. CASE q = p
        <5>1. ModeInv(q)'
          BY <2>16, <4>2 DEF IInv, TypeOK, RwExitWriteCas, rw_cas, Goto, ModeInv, Outside
        <5>2. CopyInv(q)'
          BY <2>16, <4>2 DEF IInv, TypeOK, RwExitWriteCas, rw_cas, Goto, CopyInv
        <5> QED BY <5>1, <5>2, Zenon
      <4> QED BY <4>1, <4>2, Zenon
    <3>5. NoLostWakeup'
      BY <2>16, <3>1, WordFacts, HolderFacts DEF IInv, TypeOK, RwExitWriteCas, rw_cas,
         Goto, NoLostWakeup
    <3> QED BY <3>2, <3>3, <3>4, <3>5, Zenon DEF IInv
  <2>17. CASE RwExit(p)
    <3>1. owner' = owner /\ mode' = mode
      BY <2>17, Zenon DEF RwExit
    <3>2. WordMatchesHolders' /\ WordInv'
      BY <3>1, Zenon DEF IInv, WordMatchesHolders, Readers, WordInv, FreeWordIsZero
    <3>3. TypeOK'
      BY <2>17, <3>1, WordFacts, Zenon DEF IInv, TypeOK, RwExit, Goto, Labels, Ops
    <3>4. ASSUME NEW q \in Procs PROVE ModeInv(q)' /\ CopyInv(q)'
      BY <2>17 DEF IInv, TypeOK, RwExit, Goto, ModeInv, CopyInv, Outside
    <3>5. NoLostWakeup'
      BY <2>17, Zenon DEF IInv, TypeOK, RwExit, Goto, NoLostWakeup
    <3> QED BY <3>2, <3>3, <3>4, <3>5, Zenon DEF IInv
  <2>18. CASE ExitKind(p)
    <3>1. owner' = owner /\ mode' = mode
      BY <2>18, Zenon DEF ExitKind
    <3>2. WordMatchesHolders' /\ WordInv'
      BY <3>1, Zenon DEF IInv, WordMatchesHolders, Readers, WordInv, FreeWordIsZero
    <3>3. TypeOK'
      BY <2>18, <3>1, WordFacts, Zenon DEF IInv, TypeOK, ExitKind, Labels, Ops
    <3>4. ASSUME NEW q \in Procs PROVE ModeInv(q)' /\ CopyInv(q)'
      <4>1. CASE q # p
        BY <2>18, <4>1 DEF IInv, TypeOK, ExitKind, ModeInv, CopyInv, Outside
      <4>2. CASE q = p
        BY <2>18, <4>2, HolderFacts DEF IInv, TypeOK, ExitKind, ModeInv, CopyInv, Outside
      <4> QED BY <4>1, <4>2, Zenon
    <3>5. NoLostWakeup'
      BY <2>18, Zenon DEF IInv, TypeOK, ExitKind, NoLostWakeup
    <3> QED BY <3>2, <3>3, <3>4, <3>5, Zenon DEF IInv
  <2>19. CASE ExitLoad(p)
    <3>1. owner' = owner /\ mode' = mode
      BY <2>19, Zenon DEF ExitLoad
    <3>2. WordMatchesHolders' /\ WordInv'
      BY <3>1, Zenon DEF IInv, WordMatchesHolders, Readers, WordInv, FreeWordIsZero
    <3>3. TypeOK'
      BY <2>19, <3>1, WordFacts, Zenon DEF IInv, TypeOK, ExitLoad, Load, Labels, Ops
    <3>4. ASSUME NEW q \in Procs PROVE ModeInv(q)' /\ CopyInv(q)'
      BY <2>19 DEF IInv, TypeOK, ExitLoad, Load, ModeInv, CopyInv, Outside
    <3>5. NoLostWakeup'
      BY <2>19, Zenon DEF IInv, TypeOK, ExitLoad, Load, NoLostWakeup
    <3> QED BY <3>2, <3>3, <3>4, <3>5, Zenon DEF IInv
  <2>20. CASE ExitCas(p)
    <3>1. \/ owner' = owner /\ mode' = mode
          \/ /\ owner = o[p] /\ owner' = exit_set(op[p], owner)
             /\ mode' = [mode EXCEPT ![p] = "none"]
             /\ mode[p] = IF op[p] = "RW_WRITE" THEN "write" ELSE "read"
      BY <2>20, Zenon DEF IInv, ExitCas, rw_cas, Goto, ModeInv
    <3>2. owner' \in Word /\ WordMatchesHolders' /\ WordInv'
      <4>1. CASE owner' = owner /\ mode' = mode
        BY <4>1, Zenon DEF IInv, TypeOK, WordMatchesHolders, Readers, WordInv, FreeWordIsZero
      <4>2. CASE ~(owner' = owner /\ mode' = mode)
        <5>1. CASE op[p] = "RW_WRITE"
          <6>1. owner' = Zero
            BY <3>1, <4>2, <5>1, Zenon DEF exit_set
          <6> QED BY <3>1, <4>2, <5>1, <6>1, WordStep, WordFacts, Zenon DEF IInv, TypeOK, Modes
        <5>2. CASE op[p] # "RW_WRITE"
          <6>1. owner' = exit_set("RW_READ", owner) /\ owner.rd # 0
            BY <3>1, <4>2, <5>2, HolderFacts, Zenon DEF exit_set, IInv
          <6> QED BY <3>1, <4>2, <5>2, <6>1, WordStep, WordFacts, ExitFacts, Zenon DEF IInv,
             TypeOK, Modes
        <5> QED BY <5>1, <5>2, Zenon
      <4> QED BY <4>1, <4>2, Zenon
    <3>3. TypeOK'
      <4>1. PICK l \in {"out", "wakeup", "exit_load"} : Goto(p, l)
        BY <2>20, Zenon DEF ExitCas, rw_cas
      <4>2. l \in Labels
        BY Zenon DEF Labels
      <4>3. mode' \in [Procs -> {"none", "read", "write"}] /\ slpq' \subseteq Procs
        BY <2>20, <3>1, Zenon DEF IInv, TypeOK, ExitCas
      <4> QED BY <3>2, <4>1, <4>2, <4>3, GotoFacts, Zenon DEF IInv, TypeOK
    <3>4. ASSUME NEW q \in Procs PROVE ModeInv(q)' /\ CopyInv(q)'
      <4>1. PICK l \in {"out", "wakeup", "exit_load"} : Goto(p, l)
        BY <2>20, Zenon DEF ExitCas, rw_cas
      <4>2. l \in Labels
        BY Zenon DEF Labels
      <4>3. slpq' = slpq
        BY <2>20, Zenon DEF ExitCas
      <4>4. CASE q # p
        <5>1. pc'[q] = pc[q] /\ op'[q] = op[q] /\ o'[q] = o[q]
          BY <4>1, <4>2, <4>4, GotoFacts, Zenon DEF IInv
        <5>2. mode'[q] = mode[q]
          BY <3>1, <4>4, Zenon DEF IInv, TypeOK
        <5>3. ModeInv(q)'
          BY <4>3, <5>1, <5>2, Zenon DEF IInv, ModeInv
        <5>4. CopyInv(q)'
          BY <5>1, Zenon DEF IInv, CopyInv, check
        <5> QED BY <5>3, <5>4, Zenon
      <4>5. CASE q = p
        <5>1. /\ pc'[p] \in {"out", "wakeup", "exit_load"}
              /\ pc'[p] \in {"out", "wakeup"} => mode'[p] = "none"
              /\ pc'[p] = "exit_load" => mode'[p] = mode[p] /\ op'[p] = op[p]
          BY <2>20, Zenon DEF IInv, TypeOK, ExitCas, rw_cas, Goto
        <5>2. p \notin slpq /\ mode[p] = IF op[p] = "RW_WRITE" THEN "write" ELSE "read"
          BY <2>20, Zenon DEF IInv, ModeInv, ExitCas
        <5> QED BY <4>3, <4>5, <5>1, <5>2, Zenon DEF ModeInv, CopyInv, Outside
      <4> QED BY <4>4, <4>5, Zenon
    <3>5. NoLostWakeup'
      BY <2>20 DEF IInv, TypeOK, ExitCas, rw_cas, Goto, NoLostWakeup
    <3> QED BY <3>2, <3>3, <3>4, <3>5, Zenon DEF IInv
  <2>21. CASE ExitWakeup(p)
    <3>1. owner' = owner /\ mode' = mode
      BY <2>21, Zenon DEF ExitWakeup
    <3>2. WordMatchesHolders' /\ WordInv'
      BY <3>1, Zenon DEF IInv, WordMatchesHolders, Readers, WordInv, FreeWordIsZero
    <3>3. TypeOK'
      BY <2>21, <3>1, WordFacts DEF IInv, TypeOK, ExitWakeup, Goto, Labels, Ops
    <3>4. ASSUME NEW q \in Procs PROVE ModeInv(q)' /\ CopyInv(q)'
      BY <2>21 DEF IInv, TypeOK, ExitWakeup, Goto, ModeInv, CopyInv, Outside
    <3>5. NoLostWakeup'
      BY <2>21, Zenon DEF IInv, TypeOK, ExitWakeup, Goto, NoLostWakeup
    <3> QED BY <3>2, <3>3, <3>4, <3>5, Zenon DEF IInv
  <2>22. CASE SigCont(p)
    <3>1. owner' = owner /\ mode' = mode
      BY <2>22, Zenon DEF SigCont
    <3>2. WordMatchesHolders' /\ WordInv'
      BY <3>1, Zenon DEF IInv, WordMatchesHolders, Readers, WordInv, FreeWordIsZero
    <3>3. TypeOK'
      BY <2>22, <3>1, Zenon DEF IInv, TypeOK, SigCont, Labels
    <3>4. ASSUME NEW q \in Procs PROVE ModeInv(q)' /\ CopyInv(q)'
      BY <2>22 DEF IInv, TypeOK, SigCont, ModeInv, CopyInv, Outside
    <3>5. NoLostWakeup'
      BY <2>22, Zenon DEF IInv, TypeOK, SigCont, NoLostWakeup
    <3> QED BY <3>2, <3>3, <3>4, <3>5, Zenon DEF IInv
  <2>23. CASE SigStop(p)
    <3>1. owner' = owner /\ mode' = mode
      BY <2>23, Zenon DEF SigStop
    <3>2. WordMatchesHolders' /\ WordInv'
      BY <3>1, Zenon DEF IInv, WordMatchesHolders, Readers, WordInv, FreeWordIsZero
    <3>3. TypeOK'
      BY <2>23, <3>1, Zenon DEF IInv, TypeOK, SigStop, Labels
    <3>4. ASSUME NEW q \in Procs PROVE ModeInv(q)' /\ CopyInv(q)'
      BY <2>23 DEF IInv, TypeOK, SigStop, ModeInv, CopyInv, Outside
    <3>5. NoLostWakeup'
      BY <2>23, Zenon DEF IInv, TypeOK, SigStop, NoLostWakeup
    <3> QED BY <3>2, <3>3, <3>4, <3>5, Zenon DEF IInv
  <2> QED BY <1>n, <2>1, <2>2, <2>3, <2>4, <2>5, <2>6, <2>7, <2>8, <2>9, <2>10, <2>11,
     <2>12, <2>13, <2>14, <2>15, <2>16, <2>17, <2>18, <2>19, <2>20, <2>21,
     <2>22, <2>23 DEF Call, Enter, Stop, Exit
<1> QED BY <1>u, <1>n DEF Next

LEMMA Invariance == Spec => []IInv
BY InitInv, NextInv, PTL DEF Spec

-----------------------------------------------------------------------------
(* Every variable keeps its type: in particular the reader count never     *)
(* goes below zero, however exits race.                                    *)
THEOREM TypeCorrect == Spec => []TypeOK
<1>1. IInv => TypeOK
  BY Zenon DEF IInv
<1> QED BY <1>1, Invariance, PTL

(* A writer excludes every other holder, for any set of processes, any     *)
(* mix of rw_enter(), the fast paths, downgrades, signals and stops.       *)
THEOREM MutualExclusion == Spec => []Exclusion
<1>1. IInv => Exclusion
  <2> SUFFICES ASSUME IInv, NEW p \in Procs, NEW q \in Procs,
                      mode[p] = "write", p # q
               PROVE  mode[q] = "none"
    BY Zenon DEF Exclusion
  <2>1. owner.wr = p
    BY HolderFacts, Zenon DEF IInv
  <2>2. mode[q] # "read" /\ mode[q] # "write"
    BY <2>1, HolderFacts, ProcsAssumption, Zenon DEF IInv
  <2> QED BY <2>2, Zenon DEF IInv, TypeOK
<1> QED BY <1>1, Invariance, PTL

(* The word's count and owner are the processes that hold the lock, and a  *)
(* lock nobody holds is the word 0, so that rw_enter_write()'s             *)
(* compare-and-swap with 0 can succeed.                                    *)
THEOREM WordAgreement == Spec => []WordTellsTruth
<1>1. IInv => WordTellsTruth
  BY Zenon DEF IInv, WordInv, WordTellsTruth
<1> QED BY <1>1, Invariance, PTL

(* Nobody who went to sleep by sleep_finish() is left without a wakeup     *)
(* owed by the word or by a process on its way out.  This says nothing of  *)
(* those that a SIGCONT put to sleep in sleep_setup_signal().              *)
THEOREM NoWakeupIsLost == Spec => []NoLostWakeup
<1>1. IInv => NoLostWakeup
  BY Zenon DEF IInv
<1> QED BY <1>1, Invariance, PTL

(* Where nobody passes RW_INTR, no signal stops a waiter. *)
Uninterruptible == \A p \in Procs : \A f \in Flags[p] : "INTR" \notin f

Unstopped(p) == "INTR" \notin flags[p] /\ pc[p] \notin {"stopped", "dozing"}

LEMMA NeverStopped ==
  ASSUME Uninterruptible
  PROVE  Spec => [](\A p \in Procs : Unstopped(p))
<1> DEFINE J == \A p \in Procs : Unstopped(p)
<1>1. Init => J
  BY Zenon DEF Init, Unstopped
<1>2. TypeOK /\ J /\ [Next]_vars => J'
  <2> SUFFICES ASSUME TypeOK, J, [Next]_vars, NEW q \in Procs PROVE Unstopped(q)'
    BY Zenon
  <2>u. CASE UNCHANGED vars
    BY <2>u, Zenon DEF vars, Unstopped
  <2>n. ASSUME NEW p \in Procs, Call(p) \/ Enter(p) \/ Stop(p) \/ Exit(p)
        PROVE  Unstopped(q)'
    <3>0. Unstopped(p) /\ Unstopped(q)
      BY Zenon
    <3>1. CASE \E l \in Labels \ {"stopped", "dozing"} : Goto(p, l) \/ Load(p, l)
      BY <3>0, <3>1 DEF TypeOK, Goto, Load, Unstopped
    <3>2. CASE \E k \in Ops : call_rw_enter(p, k, {})
      BY <3>0, <3>2, Zenon DEF TypeOK, call_rw_enter, Unstopped
    <3>3. CASE RwEnter(p)
      <4>1. PICK k \in Ops, f \in Flags[p] : call_rw_enter(p, k, f)
        BY <3>3, Zenon DEF RwEnter
      <4>2. "INTR" \notin f
        BY Uninterruptible, Zenon DEF Uninterruptible
      <4> QED BY <3>0, <4>1, <4>2, Zenon DEF TypeOK, call_rw_enter, Unstopped
    <3>4. CASE EnterStop(p) \/ SigCont(p) \/ SigStop(p) \/ Signal(p) \/ EnterContinue(p)
      BY <3>0, <3>4, Zenon DEF EnterStop, SigCont, SigStop, Signal, EnterContinue, Unstopped
    <3>5. CASE ExitKind(p)
      BY <3>0, <3>5, Zenon DEF TypeOK, ExitKind, Unstopped
    <3>6. \/ \E l \in Labels \ {"stopped", "dozing"} : Goto(p, l) \/ Load(p, l)
          \/ \E k \in Ops : call_rw_enter(p, k, {})
          \/ RwEnter(p) \/ ExitKind(p)
          \/ EnterStop(p) \/ SigCont(p) \/ SigStop(p) \/ Signal(p) \/ EnterContinue(p)
      <4>1. Call(p) => RwEnter(p) \/ RwEnterRead(p) \/ RwEnterWrite(p)
        BY Zenon DEF Call
      <4> QED BY <2>n, <4>1 DEF Enter, Stop, Exit, RwEnterRead, RwEnterWrite,
         RwEnterReadCas, rw_cas, EnterLoad, EnterSleep, EnterCas, EnterWakeup,
         EnterWoken, waited, RwExitRead, RwExitReadCas, RwExitWrite, RwExitWriteCas,
         RwExit, ExitLoad, ExitCas, ExitWakeup, Labels, Ops
    <3> QED BY <3>1, <3>2, <3>3, <3>4, <3>5, <3>6, Zenon
  <2> QED BY <2>u, <2>n, Zenon DEF Next
<1> QED BY <1>1, <1>2, TypeCorrect, PTL DEF Spec

(* Without RW_INTR every sleeper has announced itself, and nobody is       *)
(* asleep for a free lock with no wakeup to come: the gap between joining  *)
(* the sleep queue and setting RWLOCK_WAIT opens only in                   *)
(* sleep_setup_signal().                                                   *)
THEOREM ReadyWithoutSignals ==
  ASSUME Uninterruptible
  PROVE  Spec => []ReadyForSleep
<1>1. IInv /\ (\A p \in Procs : Unstopped(p)) => ReadyForSleep
  <2> SUFFICES ASSUME IInv, \A p \in Procs : Unstopped(p), owner = Zero,
                      NEW p \in Procs, pc[p] \in {"dozing", "sleep"}, p \in slpq
               PROVE  \E q \in Procs : pc[q] = "wakeup"
    BY Zenon DEF ReadyForSleep
  <2>1. PICK q \in Procs : pc[q] \in {"wakeup", "downgraded"}
    BY WordFacts, Zenon DEF IInv, NoLostWakeup, Unstopped
  <2>2. pc[q] # "downgraded"
    BY WordFacts, HolderFacts, Zenon DEF IInv, ModeInv
  <2> QED BY <2>1, <2>2, Zenon
<1> QED BY <1>1, Invariance, NeverStopped, PTL

(* The assertions of the exit routines hold whenever they are evaluated.   *)
THEOREM ExitAssertions == Spec => []AssertionsHold
<1>1. IInv => AssertionsHold
  <2> SUFFICES ASSUME IInv, NEW p \in Procs
               PROVE  /\ pc[p] = "exit_read" => rw_assert_rdlock
                      /\ pc[p] = "exit_write" => rw_assert_wrlock(p)
                      /\ pc[p] \in {"exit_load", "exit_cas"} =>
                           IF op[p] = "RW_WRITE" THEN rw_assert_wrlock(p)
                                                 ELSE rw_assert_rdlock
    BY Zenon DEF AssertionsHold
  <2>1. ModeInv(p)
    BY Zenon DEF IInv
  <2> QED BY <2>1, HolderFacts, Zenon DEF IInv, ModeInv, rw_assert_rdlock, rw_assert_wrlock
<1> QED BY <1>1, Invariance, PTL
=============================================================================
