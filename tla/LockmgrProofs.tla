--------------------------- MODULE LockmgrProofs ----------------------------
(***************************************************************************)
(* The lock manager's safety properties, for any number of processes and   *)
(* any depth of recursion.                                                 *)
(*                                                                         *)
(* The argument: LK_HAVE_EXCL says that there is an exclusive lock, and    *)
(* then there are no shared ones; LK_WANT_EXCL says that one process, and  *)
(* only one, waits in the second ACQUIRE of an exclusive request; the two  *)
(* flags are never set together.  A process inside lockmgr() that has not  *)
(* slept yet, or has been woken, sees the lock l it would see if it had    *)
(* not been counted (Ready); from such a state it goes back to sleep or    *)
(* returns, and each of the two ends keeps the invariant (SleepKeeps,      *)
(* ReturnKeeps).                                                           *)
(***************************************************************************)
EXTENDS Lockmgr, FiniteSetTheorems, TLAPS

Waits == Sleeps \ {"drain"}
Waiters == {p \in Procs : pc[p] \in Waits}
DrainFlags == {"DRAINING", "DRAINED"}

(* What the counts and the flags of the lock l say when the processes hold *)
(* the locks sh and ex.                                                    *)
SharedOf(sh) == UNION {{p} \X (1 .. sh[p]) : p \in Procs}

Counts(l, sh, ex) ==
  /\ IsFiniteSet(SharedOf(sh)) /\ l.sharecount = Cardinality(SharedOf(sh))
  /\ \A p \in Procs : ex[p] = IF l.lockholder = p THEN l.exclusivecount ELSE 0
  /\ l.lockholder = LK_NOPROC <=> l.exclusivecount = 0
  /\ "HAVE_EXCL" \in l.flags <=> l.exclusivecount # 0
  /\ "HAVE_EXCL" \in l.flags => l.sharecount = 0 /\ "WANT_EXCL" \notin l.flags

(* A lock being drained or drained is nobody's but the drainer's. *)
Draining(l) ==
  /\ l.flags \cap DrainFlags # {} => l.sharecount = 0 /\ l.waitcount = 0
  /\ "DRAINING" \in l.flags => l.exclusivecount = 1
  /\ "DRAINED" \in l.flags => l.exclusivecount = 0

(* Who is where in lockmgr(). *)
Places ==
  /\ \A p \in Procs : pc[p] # "panic" /\ (pc[p] = "drain" => p = Drainer)
  /\ \A p, q \in Procs : pc[p] = "excl" /\ pc[q] = "excl" => p = q
  /\ \A p \in asleep \cup failed : pc[p] \in Sleeps
  /\ asleep \cap failed = {}
  /\ lk.prio = "PINOD" => failed = {}

IInv ==
  /\ TypeOK /\ Places /\ Counts(lk, shares, excls) /\ Draining(lk)
  /\ lk.waitcount = Cardinality(Waiters)
  /\ "WANT_EXCL" \in lk.flags <=> \E p \in Procs : pc[p] = "excl"
  /\ lk.flags \cap DrainFlags # {} => \A p \in Procs : pc[p] = "idle"
  /\ (\E p \in asleep : pc[p] = "drain") => "WAITDRAIN" \in lk.flags
  /\ NoLostWakeup
-----------------------------------------------------------------------------
LockType == [flags : SUBSET IntFlags, sharecount : Nat, waitcount : Nat,
             exclusivecount : Nat, lockholder : Procs \cup {LK_NOPROC}, prio : Prios]

(* The lock l is as the invariant asks, apart from the process p: p is not *)
(* counted as a waiter, and LK_WANT_EXCL may be p's own (want).            *)
Fit(p, l, want, sh, ex) ==
  /\ l \in LockType /\ l.prio = lk.prio
  /\ sh \in [Procs -> Nat] /\ ex \in [Procs -> Nat]
  /\ Counts(l, sh, ex) /\ Draining(l)
  /\ l.waitcount = Cardinality(Waiters \ {p})
  /\ "WANT_EXCL" \in l.flags <=> want \/ \E q \in Procs \ {p} : pc[q] = "excl"
  /\ want => \A q \in Procs \ {p} : pc[q] # "excl"
  /\ l.flags \cap DrainFlags # {} => \A q \in Procs \ {p} : pc[q] = "idle"
  /\ (\E q \in asleep : pc[q] = "drain") => "WAITDRAIN" \in l.flags

(* The sleepers in S, but for a drainer, have something to wait for. *)
Undisturbed(l, S) ==
  lk.prio = "PINOD" => \A q \in S : pc[q] # "drain" => Wanted(pc[q], l)

Ready(p, l, want) ==
  /\ p \in Procs /\ p \notin asleep \cup failed
  /\ Fit(p, l, want, shares, excls) /\ Undisturbed(l, asleep)
  /\ l.flags \cap DrainFlags = {}
-----------------------------------------------------------------------------
LEMMA WaitersFinite ==
  /\ IsFiniteSet(Waiters)
  /\ \A p : IsFiniteSet(Waiters \ {p}) /\ Cardinality(Waiters \ {p}) \in Nat
<1>1. IsFiniteSet(Waiters)
  BY ProcsAssumption, FS_Subset, Zenon DEF Waiters
<1> QED BY <1>1, FS_RemoveElement, FS_CardinalityType, Zenon

LEMMA InSharedOf ==
  ASSUME NEW sh
  PROVE  \A x : x \in SharedOf(sh) <=> \E q \in Procs : \E i \in 1 .. sh[q] : x = <<q, i>>
BY DEF SharedOf

(* One more and one less shared lock. *)
LEMMA SharedAdd ==
  ASSUME NEW sh \in [Procs -> Nat], NEW p \in Procs, IsFiniteSet(SharedOf(sh))
  PROVE  LET more == [sh EXCEPT ![p] = @ + 1]
         IN  /\ IsFiniteSet(SharedOf(more))
             /\ Cardinality(SharedOf(more)) = Cardinality(SharedOf(sh)) + 1
<1> DEFINE more == [sh EXCEPT ![p] = @ + 1]
<1>1. sh[p] \in Nat /\ more[p] = sh[p] + 1 /\ \A q \in Procs \ {p} : more[q] = sh[q]
  OBVIOUS
<1> HIDE DEF more
<1>2. <<p, sh[p] + 1>> \notin SharedOf(sh)
  BY <1>1, InSharedOf
<1>3. SharedOf(more) = SharedOf(sh) \cup {<<p, sh[p] + 1>>}
  <2>1. ASSUME NEW x, x \in SharedOf(more)
        PROVE  x \in SharedOf(sh) \cup {<<p, sh[p] + 1>>}
    <3>0. PICK q \in Procs : \E i \in 1 .. more[q] : x = <<q, i>>
      BY <2>1, InSharedOf
    <3>1. PICK i \in 1 .. more[q] : x = <<q, i>>
      BY <3>0, Zenon
    <3>2. CASE q = p /\ i = sh[p] + 1
      BY <3>1, <3>2, Zenon
    <3>3. CASE ~(q = p /\ i = sh[p] + 1)
      <4>1. i \in 1 .. sh[q]
        BY <1>1, <3>1, <3>3
      <4> QED BY <3>1, <4>1, InSharedOf, Zenon
    <3> QED BY <3>2, <3>3, Zenon
  <2>2. ASSUME NEW x, x \in SharedOf(sh) \cup {<<p, sh[p] + 1>>}
        PROVE  x \in SharedOf(more)
    <3>1. CASE x \in SharedOf(sh)
      <4>0. PICK q \in Procs : \E i \in 1 .. sh[q] : x = <<q, i>>
        BY <3>1, InSharedOf
      <4>1. PICK i \in 1 .. sh[q] : x = <<q, i>>
        BY <4>0, Zenon
      <4>2. i \in 1 .. more[q]
        BY <1>1, <4>1
      <4> QED BY <4>1, <4>2, InSharedOf, Zenon
    <3>2. CASE x = <<p, sh[p] + 1>>
      <4>1. sh[p] + 1 \in 1 .. more[p]
        BY <1>1
      <4> QED BY <3>2, <4>1, InSharedOf, Zenon
    <3> QED BY <2>2, <3>1, <3>2, Zenon
  <2> QED BY <2>1, <2>2, Zenon
<1>4. /\ IsFiniteSet(SharedOf(more))
      /\ Cardinality(SharedOf(more)) = Cardinality(SharedOf(sh)) + 1
  BY <1>2, <1>3, FS_AddElement
<1> QED BY <1>4, Zenon DEF more

LEMMA SharedRemove ==
  ASSUME NEW sh \in [Procs -> Nat], NEW p \in Procs, IsFiniteSet(SharedOf(sh)), sh[p] > 0
  PROVE  LET less == [sh EXCEPT ![p] = @ - 1]
         IN  /\ less \in [Procs -> Nat]
             /\ IsFiniteSet(SharedOf(less))
             /\ Cardinality(SharedOf(sh)) = Cardinality(SharedOf(less)) + 1
<1> DEFINE less == [sh EXCEPT ![p] = @ - 1]
<1>0. less \in [Procs -> Nat] /\ less[p] = sh[p] - 1 /\ sh[p] = less[p] + 1
  OBVIOUS
<1>1. sh = [less EXCEPT ![p] = @ + 1]
  BY <1>0, Zenon
<1>2. \A q \in Procs : less[q] <= sh[q] /\ less[q] \in Nat /\ sh[q] \in Nat
  OBVIOUS
<1> HIDE DEF less
<1>3. SharedOf(less) \subseteq SharedOf(sh)
  <2> SUFFICES ASSUME NEW x \in SharedOf(less) PROVE x \in SharedOf(sh)
    OBVIOUS
  <2>0. PICK q \in Procs : \E i \in 1 .. less[q] : x = <<q, i>>
    BY InSharedOf
  <2>1. PICK i \in 1 .. less[q] : x = <<q, i>>
    BY <2>0, Zenon
  <2>2. i \in 1 .. sh[q]
    BY <1>2, <2>1
  <2> QED BY <2>1, <2>2, InSharedOf, Zenon
<1>4. IsFiniteSet(SharedOf(less))
  BY <1>3, FS_Subset, Zenon
<1>5. Cardinality(SharedOf(sh)) = Cardinality(SharedOf(less)) + 1
  BY <1>0, <1>1, <1>4, SharedAdd, Zenon
<1> QED BY <1>0, <1>4, <1>5, Zenon DEF less

(* No shared locks, and the shared locks of one process alone. *)
LEMMA SharedNone ==
  ASSUME NEW sh \in [Procs -> Nat], IsFiniteSet(SharedOf(sh))
  PROVE  Cardinality(SharedOf(sh)) = 0 <=> \A p \in Procs : sh[p] = 0
<1>1. Cardinality(SharedOf(sh)) = 0 <=> SharedOf(sh) = {}
  BY FS_EmptySet, Zenon
<1>2. ASSUME NEW p \in Procs, sh[p] # 0 PROVE SharedOf(sh) # {}
  <2>1. 1 \in 1 .. sh[p]
    BY <1>2
  <2>2. <<p, 1>> \in SharedOf(sh)
    BY <2>1, InSharedOf, Zenon
  <2> QED BY <2>2, Zenon
<1>3. ASSUME \A p \in Procs : sh[p] = 0 PROVE SharedOf(sh) = {}
  <2>1. \A p \in Procs : \A i \in 1 .. sh[p] : FALSE
    BY <1>3
  <2> QED BY <2>1, InSharedOf, Zenon
<1> QED BY <1>1, <1>2, <1>3, Zenon

LEMMA SharedAlone ==
  ASSUME NEW sh \in [Procs -> Nat], NEW p \in Procs, \A q \in Procs \ {p} : sh[q] = 0
  PROVE  IsFiniteSet(SharedOf(sh)) /\ Cardinality(SharedOf(sh)) = sh[p]
<1>1. SharedOf(sh) = {p} \X (1 .. sh[p])
  <2>1. \A q \in Procs : \A i \in 1 .. sh[q] : q = p
    BY SMT
  <2>2. \A x : x \in {p} \X (1 .. sh[p]) <=> \E i \in 1 .. sh[p] : x = <<p, i>>
    OBVIOUS
  <2> QED BY <2>1, <2>2, InSharedOf
<1>2. IsFiniteSet({p}) /\ Cardinality({p}) = 1
  BY FS_Singleton, Zenon
<1>3. sh[p] \in Nat
  OBVIOUS
<1>4. IsFiniteSet(1 .. sh[p]) /\ Cardinality(1 .. sh[p]) = sh[p]
  BY <1>3, FS_Interval
<1>5. /\ IsFiniteSet({p} \X (1 .. sh[p]))
      /\ Cardinality({p} \X (1 .. sh[p])) = Cardinality({p}) * Cardinality(1 .. sh[p])
  BY <1>2, <1>4, FS_Product, Zenon
<1>6. Cardinality({p}) * Cardinality(1 .. sh[p]) = sh[p]
  BY <1>2, <1>3, <1>4
<1> QED BY <1>1, <1>5, <1>6, Zenon
-----------------------------------------------------------------------------
(* lockmgr() returns, leaving a lock that fits. *)
LEMMA ReturnKeeps ==
  ASSUME IInv, NEW p \in Procs, p \notin asleep, NEW m, NEW wake,
         Fit(p, m, FALSE, shares', excls'),
         Undisturbed(m, asleep \ woken_by(m, wake)),
         Return(p, m, wake)
  PROVE  IInv'
<1>1. /\ pc \in [Procs -> Sleeps \cup {"idle", "panic"}]
      /\ asleep \subseteq Procs /\ failed \subseteq Procs /\ Places
  BY Zenon DEF IInv, TypeOK
<1>2. /\ pc' \in [Procs -> Sleeps \cup {"idle", "panic"}]
      /\ pc'[p] = "idle" /\ \A q \in Procs \ {p} : pc'[q] = pc[q]
  BY <1>1, Zenon DEF Return
<1>3. /\ asleep' \subseteq asleep /\ p \notin asleep' /\ asleep' \subseteq Procs
      /\ failed' \subseteq failed /\ p \notin failed'
  BY <1>1, Zenon DEF Return
<1>4. /\ lk' \in LockType /\ lk'.prio = lk.prio
      /\ lk'.sharecount = m.sharecount /\ lk'.waitcount = m.waitcount
      /\ lk'.exclusivecount = m.exclusivecount /\ lk'.lockholder = m.lockholder
      /\ \A f : f # "WAITDRAIN" => (f \in lk'.flags <=> f \in m.flags)
  BY Zenon DEF Return, Fit, LockType
<1>5. TypeOK'
  BY <1>1, <1>2, <1>3, <1>4, Zenon DEF TypeOK, LockType, Fit
<1>6. Places'
  BY <1>1, <1>2, <1>3, <1>4 DEF Places, Sleeps
<1>7. Counts(lk, shares, excls)'
  BY <1>4 DEF Fit, Counts, SharedOf
<1>8. Draining(lk)'
  BY <1>4, Zenon DEF Fit, Draining, DrainFlags
<1>9. (lk.waitcount = Cardinality(Waiters))'
  <2>1. Waiters' = Waiters \ {p}
    BY <1>1, <1>2, Zenon DEF Waiters, Waits, Sleeps
  <2> QED BY <1>4, <2>1, Zenon DEF Fit
<1>10. ("WANT_EXCL" \in lk.flags <=> \E q \in Procs : pc[q] = "excl")'
  BY <1>2, <1>4, Zenon DEF Fit
<1>11. (lk.flags \cap DrainFlags # {} => \A q \in Procs : pc[q] = "idle")'
  BY <1>2, <1>4, Zenon DEF Fit, DrainFlags
<1>12. Active(m) <=> Active(lk')
  BY <1>4, Zenon DEF Active, Busy
<1>13. ASSUME NEW q \in asleep', pc'[q] = "drain"
       PROVE  "WAITDRAIN" \in lk'.flags /\ Active(lk')
  <2>1. q \in asleep /\ q # p /\ pc[q] = "drain" /\ q \notin woken_by(m, wake)
    BY <1>1, <1>2, <1>3, <1>13, Zenon DEF Return
  <2>2. "WAITDRAIN" \in m.flags /\ ~drained(m)
    BY <2>1, Zenon DEF woken_by, Fit
  <2>3. lk' = m /\ Active(m)
    BY <2>2, Zenon DEF Return, drained
  <2> QED BY <2>2, <2>3, Zenon
<1>14. ASSUME lk'.prio = "PINOD", NEW q \in asleep'
       PROVE  Wanted(pc'[q], lk')
  <2>1. q \in asleep /\ q \in Procs \ {p} /\ q \notin woken_by(m, wake) /\ pc'[q] = pc[q]
    BY <1>1, <1>2, <1>3, <1>14 DEF Return
  <2>2. CASE pc[q] = "drain"
    BY <1>13, <1>14, <2>1, <2>2, Zenon DEF Wanted
  <2>3. CASE pc[q] # "drain"
    <3>1. Wanted(pc[q], m)
      BY <1>4, <1>14, <2>1, <2>3, Zenon DEF Undisturbed
    <3> QED BY <1>1, <1>4, <2>1, <2>3, <3>1, Zenon DEF Wanted, Busy, Places, Sleeps
  <2> QED BY <2>2, <2>3, Zenon
<1>15. NoLostWakeup'
  BY <1>14, Zenon DEF NoLostWakeup, Wanted, Active, Busy
<1> QED BY <1>5, <1>6, <1>7, <1>8, <1>9, <1>10, <1>11, <1>13, <1>15, Zenon DEF IInv

(* ACQUIRE goes to sleep for what the process has found wanting. *)
LEMMA SleepKeeps ==
  ASSUME IInv, NEW p, NEW l, NEW where \in Sleeps, Ready(p, l, where = "excl"),
         Wanted(where, l), where = "drain" => p = Drainer, Sleep(p, l, where)
  PROVE  IInv'
<1>1. /\ pc \in [Procs -> Sleeps \cup {"idle", "panic"}] /\ p \in Procs
      /\ asleep \subseteq Procs /\ failed \subseteq Procs /\ Places
      /\ p \notin asleep \cup failed /\ Fit(p, l, where = "excl", shares, excls)
  BY Zenon DEF IInv, TypeOK, Ready
<1>2. /\ pc' \in [Procs -> Sleeps \cup {"idle", "panic"}]
      /\ pc'[p] = where /\ \A q \in Procs \ {p} : pc'[q] = pc[q]
  BY <1>1, Zenon DEF Sleep
<1>3. asleep' = asleep \cup {p} /\ failed' = failed /\ shares' = shares /\ excls' = excls
  BY Zenon DEF Sleep
<1>4. /\ lk' \in LockType /\ lk'.prio = lk.prio
      /\ lk'.sharecount = l.sharecount
      /\ lk'.exclusivecount = l.exclusivecount /\ lk'.lockholder = l.lockholder
      /\ \A f : f # "WAITDRAIN" => (f \in lk'.flags <=> f \in l.flags)
      /\ "WAITDRAIN" \in l.flags \/ where = "drain" => "WAITDRAIN" \in lk'.flags
      /\ lk'.waitcount = IF where = "drain" THEN l.waitcount ELSE l.waitcount + 1
  <2>1. l \in LockType /\ l.prio = lk.prio
    BY <1>1, Zenon DEF Fit
  <2>2. CASE where = "drain"
    <3>1. lk' = [l EXCEPT !.flags = @ \cup {"WAITDRAIN"}]
      BY <2>2, Zenon DEF Sleep
    <3> QED BY <2>1, <2>2, <3>1, Zenon DEF LockType, IntFlags
  <2>3. CASE where # "drain"
    <3>1. lk' = [l EXCEPT !.waitcount = @ + 1]
      BY <2>3, Zenon DEF Sleep
    <3> QED BY <2>1, <2>3, <3>1 DEF LockType
  <2> QED BY <2>2, <2>3, Zenon
<1>5. TypeOK'
  BY <1>1, <1>2, <1>3, <1>4, Zenon DEF TypeOK, LockType, Fit
<1>6. Places'
  <2>1. where # "panic" /\ where \in Sleeps
    BY Zenon DEF Sleeps
  <2>2. where = "excl" => \A q \in Procs \ {p} : pc[q] # "excl"
    BY <1>1, Zenon DEF Fit
  <2> QED BY <1>1, <1>2, <1>3, <1>4, <2>1, <2>2 DEF Places
<1>7. Counts(lk, shares, excls)'
  BY <1>1, <1>3, <1>4 DEF Fit, Counts, SharedOf
<1>8. lk'.flags \cap DrainFlags = {}
  BY <1>4, Zenon DEF Ready, DrainFlags
<1>9. Draining(lk)'
  BY <1>8, Zenon DEF Draining, DrainFlags
<1>10. (lk.waitcount = Cardinality(Waiters))'
  <2>1. CASE where = "drain"
    <3>1. Waiters' = Waiters \ {p}
      BY <1>1, <1>2, <2>1, Zenon DEF Waiters, Waits
    <3> QED BY <1>1, <1>4, <2>1, <3>1, Zenon DEF Fit
  <2>2. CASE where # "drain"
    <3>1. Waiters' = (Waiters \ {p}) \cup {p}
      BY <1>1, <1>2, <2>2, Zenon DEF Waiters, Waits
    <3>2. Cardinality(Waiters') = Cardinality(Waiters \ {p}) + 1
      BY <3>1, WaitersFinite, FS_AddElement, Zenon
    <3> QED BY <1>1, <1>4, <2>2, <3>2, Zenon DEF Fit
  <2> QED BY <2>1, <2>2, Zenon
<1>11. ("WANT_EXCL" \in lk.flags <=> \E q \in Procs : pc[q] = "excl")'
  BY <1>1, <1>2, <1>4, Zenon DEF Fit
<1>12. ASSUME NEW q \in asleep', pc'[q] = "drain" PROVE "WAITDRAIN" \in lk'.flags
  BY <1>1, <1>2, <1>3, <1>4, <1>12, Zenon DEF Fit
<1>13. ASSUME lk'.prio = "PINOD", NEW q \in asleep' PROVE Wanted(pc'[q], lk')
  <2>1. l.waitcount \in Nat
    BY <1>1, Zenon DEF Fit, LockType
  <2>2. CASE q = p
    <3>1. pc'[q] = where
      BY <1>2, <2>2, Zenon
    <3> QED BY <1>4, <2>1, <3>1, Zenon DEF Wanted, Active, Busy, Sleeps
  <2>3. CASE q # p
    <3>1. q \in asleep /\ pc'[q] = pc[q] /\ pc[q] \in Sleeps
      BY <1>1, <1>2, <1>3, <1>13, <2>3, Zenon DEF Places
    <3>2. CASE pc[q] = "drain"
      <4>1. where # "drain"
        BY <1>1, <2>3, <3>1, <3>2, Zenon DEF Places
      <4>2. lk'.waitcount # 0
        BY <1>4, <2>1, <4>1
      <4> QED BY <3>1, <3>2, <4>2, Zenon DEF Wanted, Active
    <3>3. CASE pc[q] # "drain"
      <4>1. Wanted(pc[q], l)
        BY <1>4, <1>13, <3>1, <3>3, Zenon DEF Ready, Undisturbed
      <4> QED BY <1>4, <3>1, <3>3, <4>1, Zenon DEF Wanted, Busy, Sleeps
    <3> QED BY <3>2, <3>3, Zenon
  <2> QED BY <2>2, <2>3, Zenon
<1>14. NoLostWakeup'
  BY <1>13, Zenon DEF NoLostWakeup, Wanted, Active, Busy
<1> QED BY <1>5, <1>6, <1>7, <1>8, <1>9, <1>10, <1>11, <1>12, <1>14, Zenon DEF IInv
-----------------------------------------------------------------------------
(* A process that calls lockmgr(), and one whose tsleep() has returned. *)
LEMMA Enter ==
  ASSUME IInv, NEW p \in Procs, pc[p] = "idle", lk.flags \cap DrainFlags = {}
  PROVE  Ready(p, lk, FALSE)
<1>1. Waiters \ {p} = Waiters
  BY Zenon DEF Waiters, Waits, Sleeps
<1>2. p \notin asleep \cup failed
  BY Zenon DEF IInv, Places, Sleeps
<1>3. Fit(p, lk, FALSE, shares, excls)
  BY <1>1, Zenon DEF IInv, Fit, TypeOK, LockType
<1>4. Undisturbed(lk, asleep)
  BY Zenon DEF IInv, NoLostWakeup, Undisturbed
<1> QED BY <1>2, <1>3, <1>4, Zenon DEF Ready

LEMMA Awake ==
  ASSUME IInv, NEW p \in Procs, pc[p] \in Sleeps
  PROVE  /\ Fit(p, slept(p), pc[p] = "excl", shares, excls)
         /\ Undisturbed(slept(p), asleep)
         /\ slept(p).flags \cap DrainFlags = {}
<1> DEFINE l == slept(p)
<1>1. lk \in LockType /\ Places
  BY Zenon DEF IInv, TypeOK, LockType
<1>2. /\ l \in LockType /\ l.prio = lk.prio /\ l.flags = lk.flags
      /\ l.sharecount = lk.sharecount /\ l.exclusivecount = lk.exclusivecount
      /\ l.lockholder = lk.lockholder /\ l.waitcount = Cardinality(Waiters \ {p})
  <2>1. CASE pc[p] = "drain"
    <3>1. Waiters \ {p} = Waiters
      BY <2>1, Zenon DEF Waiters, Waits
    <3> QED BY <1>1, <2>1, <3>1, Zenon DEF slept, IInv
  <2>2. CASE pc[p] # "drain"
    <3>1. p \in Waiters
      BY <2>2, Zenon DEF Waiters, Waits
    <3>2. Cardinality(Waiters \ {p}) = lk.waitcount - 1 /\ Cardinality(Waiters \ {p}) \in Nat
      BY <3>1, WaitersFinite, FS_RemoveElement, Zenon DEF IInv
    <3>3. l = [lk EXCEPT !.waitcount = @ - 1]
      BY <2>2, Zenon DEF slept
    <3> QED BY <1>1, <3>2, <3>3, Zenon DEF LockType
  <2> QED BY <2>1, <2>2, Zenon
<1> HIDE DEF l
<1>3. l.flags \cap DrainFlags = {}
  BY <1>2, Zenon DEF IInv, Sleeps
<1>4. Counts(l, shares, excls) /\ Draining(l)
  BY <1>2, <1>3 DEF IInv, Counts, Draining, DrainFlags
<1>5. Fit(p, l, pc[p] = "excl", shares, excls)
  BY <1>1, <1>2, <1>3, <1>4, Zenon DEF IInv, TypeOK, Fit, Places
<1>6. Undisturbed(l, asleep)
  BY <1>1, <1>2, Zenon DEF IInv, NoLostWakeup, Undisturbed, Wanted, Busy, Places, Sleeps
<1> QED BY <1>3, <1>5, <1>6, Zenon DEF l

(* A request that fails. *)
LEMMA FailKeeps ==
  ASSUME IInv, NEW p \in Procs, p \notin asleep, NEW l,
         Fit(p, l, FALSE, shares, excls), Undisturbed(l, asleep), Fail(p, l)
  PROVE  IInv'
<1>1. Return(p, l, FALSE) /\ shares' = shares /\ excls' = excls
  BY Zenon DEF Fail
<1>2. Fit(p, l, FALSE, shares', excls')
  BY <1>1, Zenon
<1>3. Undisturbed(l, asleep \ woken_by(l, FALSE))
  BY Zenon DEF Undisturbed
<1> QED BY <1>1, <1>2, <1>3, ReturnKeeps, Zenon

(* From an ACQUIRE on. *)
LEMMA GetSharedKeeps ==
  ASSUME IInv, NEW p, NEW l, Ready(p, l, FALSE), GetShared(p, l)
  PROVE  IInv'
<1>1. CASE Wanted("shared", l) /\ Sleep(p, l, "shared")
  <2>1. Ready(p, l, "shared" = "excl")
    OBVIOUS
  <2> QED BY <1>1, <2>1, SleepKeeps, Zenon DEF Sleeps
<1>2. CASE ~Wanted("shared", l)
  <2> DEFINE m == [l EXCEPT !.sharecount = @ + 1]
  <2>1. /\ Return(p, m, FALSE) /\ excls' = excls /\ ~Busy(l)
        /\ shares' = [shares EXCEPT ![p] = @ + 1]
    BY <1>2, Zenon DEF GetShared, Wanted
  <2>2. p \in Procs /\ p \notin asleep /\ Fit(p, l, FALSE, shares, excls)
    BY Zenon DEF Ready
  <2>3. /\ m \in LockType /\ m.prio = l.prio /\ m.flags = l.flags
        /\ m.sharecount = l.sharecount + 1 /\ m.exclusivecount = l.exclusivecount
        /\ m.lockholder = l.lockholder /\ m.waitcount = l.waitcount
    BY <2>2 DEF Fit, LockType
  <2> HIDE DEF m
  <2>4. shares' \in [Procs -> Nat]
    BY <2>1, <2>2 DEF Fit
  <2>5. IsFiniteSet(SharedOf(shares')) /\ m.sharecount = Cardinality(SharedOf(shares'))
    <3>1. IsFiniteSet(SharedOf(shares)) /\ l.sharecount = Cardinality(SharedOf(shares))
      BY <2>2, Zenon DEF Fit, Counts
    <3> QED BY <2>1, <2>2, <2>3, <3>1, SharedAdd, Zenon DEF Fit
  <2>6. Counts(m, shares', excls')
    BY <2>1, <2>2, <2>3, <2>5, Zenon DEF Fit, Counts, Busy
  <2>7. Draining(m)
    BY <2>3, Zenon DEF Ready, Draining, DrainFlags
  <2>8. Fit(p, m, FALSE, shares', excls')
    BY <2>1, <2>2, <2>3, <2>4, <2>6, <2>7, Zenon DEF Fit
  <2>9. Undisturbed(m, asleep \ woken_by(m, FALSE))
    <3>1. ASSUME lk.prio = "PINOD", NEW q \in asleep, pc[q] # "drain"
          PROVE  Wanted(pc[q], m)
      <4>1. Wanted(pc[q], l) /\ pc[q] \in Sleeps /\ l.sharecount \in Nat
        BY <2>2, <3>1, Zenon DEF Ready, Undisturbed, IInv, Places, Fit, LockType
      <4>2. m.sharecount # 0 /\ (Busy(m) <=> Busy(l))
        BY <2>3, <4>1 DEF Busy
      <4> QED BY <3>1, <4>1, <4>2, Zenon DEF Wanted, Sleeps
    <3> QED BY <3>1, Zenon DEF Undisturbed
  <2> QED BY <2>1, <2>2, <2>8, <2>9, ReturnKeeps, Zenon
<1> QED BY <1>1, <1>2, Zenon DEF GetShared

LEMMA GetExclKeeps ==
  ASSUME IInv, NEW p, NEW l, Ready(p, l, TRUE), GetExcl(p, l)
  PROVE  IInv'
<1>1. CASE Wanted("excl", l) /\ Sleep(p, l, "excl")
  <2>1. Ready(p, l, "excl" = "excl")
    OBVIOUS
  <2> QED BY <1>1, <2>1, SleepKeeps, Zenon DEF Sleeps
<1>2. CASE ~Wanted("excl", l)
  <2> DEFINE m == [l EXCEPT !.flags = (@ \ {"WANT_EXCL"}) \cup {"HAVE_EXCL"},
                            !.lockholder = p, !.exclusivecount = 1]
  <2>1. p \in Procs /\ p \notin asleep /\ Fit(p, l, TRUE, shares, excls)
    BY Zenon DEF Ready
  <2>2. /\ "WANT_EXCL" \in l.flags /\ "HAVE_EXCL" \notin l.flags
        /\ l.exclusivecount = 0 /\ l.sharecount = 0 /\ p # LK_NOPROC
    BY <1>2, <2>1, ProcsAssumption, Zenon DEF Fit, Counts, Wanted
  <2>3. Return(p, m, FALSE) /\ shares' = shares /\ excls' = [excls EXCEPT ![p] = 1]
    BY <1>2, <2>2, Zenon DEF GetExcl
  <2>4. /\ m \in LockType /\ m.prio = l.prio /\ m.sharecount = 0 /\ m.exclusivecount = 1
        /\ m.flags = (l.flags \ {"WANT_EXCL"}) \cup {"HAVE_EXCL"}
        /\ m.lockholder = p /\ m.waitcount = l.waitcount
    BY <2>1, <2>2, Zenon DEF Fit, LockType, IntFlags
  <2> HIDE DEF m
  <2>5. excls' \in [Procs -> Nat] /\ excls'[p] = 1 /\ \A q \in Procs \ {p} : excls'[q] = 0
    BY <2>1, <2>2, <2>3, ProcsAssumption DEF Fit, Counts
  <2>6. Counts(m, shares', excls')
    <3>1. IsFiniteSet(SharedOf(shares')) /\ m.sharecount = Cardinality(SharedOf(shares'))
      BY <2>1, <2>2, <2>3, <2>4, Zenon DEF Fit, Counts
    <3>2. "HAVE_EXCL" \in m.flags /\ "WANT_EXCL" \notin m.flags
      BY <2>4, Zenon
    <3> QED BY <2>2, <2>4, <2>5, <3>1, <3>2 DEF Counts
  <2>7. Draining(m) /\ m.flags \cap DrainFlags = {}
    BY <2>4, Zenon DEF Ready, Draining, DrainFlags
  <2>8. Fit(p, m, FALSE, shares', excls')
    BY <2>1, <2>3, <2>4, <2>5, <2>6, <2>7, Zenon DEF Fit
  <2>9. Undisturbed(m, asleep \ woken_by(m, FALSE))
    <3>1. ASSUME NEW q \in asleep, pc[q] # "drain" PROVE Wanted(pc[q], m)
      <4>1. pc[q] \in {"shared", "want"}
        BY <2>1, <3>1, Zenon DEF IInv, TypeOK, Places, Fit, Sleeps
      <4> QED BY <2>4, <4>1, Zenon DEF Wanted, Busy
    <3> QED BY <3>1, Zenon DEF Undisturbed
  <2> QED BY <2>1, <2>3, <2>8, <2>9, ReturnKeeps, Zenon
<1> QED BY <1>1, <1>2, Zenon DEF GetExcl

LEMMA GetWantKeeps ==
  ASSUME IInv, NEW p, NEW l, Ready(p, l, FALSE), GetWant(p, l)
  PROVE  IInv'
<1>1. CASE Wanted("want", l) /\ Sleep(p, l, "want")
  <2>1. Ready(p, l, "want" = "excl")
    OBVIOUS
  <2> QED BY <1>1, <2>1, SleepKeeps, Zenon DEF Sleeps
<1>2. CASE ~Wanted("want", l)
  <2> DEFINE m == [l EXCEPT !.flags = @ \cup {"WANT_EXCL"}]
  <2>1. GetExcl(p, m) /\ ~Busy(l)
    BY <1>2, Zenon DEF GetWant, Wanted
  <2>2. Fit(p, l, FALSE, shares, excls)
    BY Zenon DEF Ready
  <2>3. /\ m \in LockType /\ m.prio = l.prio /\ m.flags = l.flags \cup {"WANT_EXCL"}
        /\ m.sharecount = l.sharecount /\ m.exclusivecount = l.exclusivecount
        /\ m.lockholder = l.lockholder /\ m.waitcount = l.waitcount
    BY <2>2, Zenon DEF Fit, LockType, IntFlags
  <2> HIDE DEF m
  <2>4. Counts(m, shares, excls)
    BY <2>1, <2>2, <2>3, Zenon DEF Fit, Counts, Busy
  <2>5. m.flags \cap DrainFlags = {} /\ Draining(m)
    BY <2>3, Zenon DEF Ready, Draining, DrainFlags
  <2>6. \A q \in Procs \ {p} : pc[q] # "excl"
    BY <2>1, <2>2, Zenon DEF Fit, Busy
  <2>7. Fit(p, m, TRUE, shares, excls)
    BY <2>2, <2>3, <2>4, <2>5, <2>6, Zenon DEF Fit
  <2>8. Undisturbed(m, asleep)
    <3>1. ASSUME lk.prio = "PINOD", NEW q \in asleep, pc[q] # "drain"
          PROVE  Wanted(pc[q], m)
      <4>1. Wanted(pc[q], l) /\ pc[q] \in Sleeps
        BY <3>1, Zenon DEF Ready, Undisturbed, IInv, Places
      <4> QED BY <2>3, <3>1, <4>1, Zenon DEF Wanted, Busy, Sleeps
    <3> QED BY <3>1, Zenon DEF Undisturbed
  <2>9. Ready(p, m, TRUE)
    BY <2>5, <2>7, <2>8, Zenon DEF Ready
  <2> QED BY <2>1, <2>9, GetExclKeeps, Zenon
<1> QED BY <1>1, <1>2, Zenon DEF GetWant

LEMMA GetDrainedKeeps ==
  ASSUME IInv, NEW p, NEW l, Ready(p, l, FALSE), p = Drainer, GetDrained(p, l)
  PROVE  IInv'
<1>1. CASE Wanted("drain", l) /\ Sleep(p, l, "drain")
  <2>1. Ready(p, l, "drain" = "excl")
    OBVIOUS
  <2> QED BY <1>1, <2>1, SleepKeeps, Zenon DEF Sleeps
<1>2. CASE ~Wanted("drain", l)
  <2> DEFINE m == [l EXCEPT !.flags = @ \cup {"DRAINING", "HAVE_EXCL"},
                            !.lockholder = p, !.exclusivecount = 1]
  <2>1. /\ Return(p, m, FALSE) /\ ~Active(l)
        /\ shares' = shares /\ excls' = [excls EXCEPT ![p] = 1]
    BY <1>2, Zenon DEF GetDrained, Wanted
  <2>2. p \in Procs /\ p \notin asleep /\ Fit(p, l, FALSE, shares, excls)
    BY Zenon DEF Ready
  <2>3. /\ "WANT_EXCL" \notin l.flags /\ l.sharecount = 0 /\ l.waitcount = 0
        /\ l.exclusivecount = 0 /\ p # LK_NOPROC
    BY <2>1, <2>2, ProcsAssumption, Zenon DEF Fit, Counts, Active, Busy
  <2>4. /\ m \in LockType /\ m.prio = l.prio /\ m.sharecount = 0 /\ m.exclusivecount = 1
        /\ m.flags = l.flags \cup {"DRAINING", "HAVE_EXCL"}
        /\ m.lockholder = p /\ m.waitcount = 0
    BY <2>2, <2>3, Zenon DEF Fit, LockType, IntFlags
  <2> HIDE DEF m
  <2>5. \A q \in Procs \ {p} : pc[q] = "idle"
    <3>1. Waiters \ {p} = {}
      BY <2>2, <2>3, WaitersFinite, FS_EmptySet, Zenon DEF Fit
    <3> QED BY <3>1, Zenon DEF Waiters, Waits, Sleeps, IInv, TypeOK, Places
  <2>6. excls' \in [Procs -> Nat] /\ excls'[p] = 1 /\ \A q \in Procs \ {p} : excls'[q] = 0
    BY <2>1, <2>2, <2>3, ProcsAssumption DEF Fit, Counts
  <2>7. Counts(m, shares', excls')
    <3>1. IsFiniteSet(SharedOf(shares')) /\ m.sharecount = Cardinality(SharedOf(shares'))
      BY <2>1, <2>2, <2>3, <2>4, Zenon DEF Fit, Counts
    <3>2. "HAVE_EXCL" \in m.flags /\ "WANT_EXCL" \notin m.flags
      BY <2>3, <2>4, Zenon
    <3> QED BY <2>3, <2>4, <2>6, <3>1, <3>2 DEF Counts
  <2>8. Draining(m)
    BY <2>4, Zenon DEF Ready, Draining, DrainFlags
  <2>9. Fit(p, m, FALSE, shares', excls')
    BY <2>1, <2>2, <2>3, <2>4, <2>5, <2>6, <2>7, <2>8, Zenon DEF Fit
  <2>10. asleep = {}
    BY <2>2, <2>5 DEF IInv, TypeOK, Places, Sleeps
  <2>11. Undisturbed(m, asleep \ woken_by(m, FALSE))
    BY <2>10, Zenon DEF Undisturbed
  <2> QED BY <2>1, <2>2, <2>9, <2>11, ReturnKeeps, Zenon
<1> QED BY <1>1, <1>2, Zenon DEF GetDrained

-----------------------------------------------------------------------------
(* The exclusive holder is alone. *)
LEMMA HolderAlone ==
  ASSUME IInv
  PROVE  /\ lk.exclusivecount # 0 =>
              /\ lk.sharecount = 0 /\ \A q \in Procs : shares[q] = 0
              /\ "HAVE_EXCL" \in lk.flags /\ "WANT_EXCL" \notin lk.flags
         /\ \A p \in Procs : (lk.lockholder = p => lk.exclusivecount # 0)
                             /\ (excls[p] > 0 => lk.lockholder = p)
         /\ lk.exclusivecount \in Nat
<1>1. lk.exclusivecount # 0 => lk.sharecount = 0 /\ "HAVE_EXCL" \in lk.flags
                               /\ "WANT_EXCL" \notin lk.flags
  BY Zenon DEF IInv, Counts
<1>2. lk.sharecount = 0 => \A q \in Procs : shares[q] = 0
  BY SharedNone, Zenon DEF IInv, Counts, TypeOK
<1>3. \A p \in Procs : (lk.lockholder = p => lk.exclusivecount # 0)
                       /\ (excls[p] > 0 => lk.lockholder = p)
  BY ProcsAssumption DEF IInv, Counts
<1> QED BY <1>1, <1>2, <1>3, Zenon DEF IInv, TypeOK

(* wakeup() by a release or a downgrade reaches all who wait. *)
LEMMA AllWoken ==
  ASSUME IInv, NEW m, m.waitcount = lk.waitcount
  PROVE  Undisturbed(m, asleep \ woken_by(m, TRUE))
<1> SUFFICES ASSUME NEW q \in asleep, pc[q] # "drain" PROVE q \in woken_by(m, TRUE)
  BY Zenon DEF Undisturbed
<1>1. q \in Waiters
  BY Zenon DEF IInv, TypeOK, Places, Waiters, Waits
<1>2. Cardinality(Waiters) # 0
  BY <1>1, WaitersFinite, FS_EmptySet, Zenon
<1> QED BY <1>2, Zenon DEF IInv, woken_by

LEMMA DowngradeKeeps ==
  ASSUME IInv, NEW p \in Procs, LkDowngrade(p)
  PROVE  IInv'
<1> DEFINE n == lk.exclusivecount + 1
           m == [lk EXCEPT !.sharecount = @ + n, !.exclusivecount = 0,
                           !.flags = @ \ {"HAVE_EXCL"}, !.lockholder = LK_NOPROC]
<1>1. /\ pc[p] = "idle" /\ lk.flags \cap DrainFlags = {} /\ lk.lockholder = p
  BY Zenon DEF LkDowngrade, MayRequest, WEHOLDIT, DrainFlags
<1>2. /\ lk.exclusivecount # 0 /\ lk.exclusivecount \in Nat /\ lk.sharecount = 0
      /\ \A q \in Procs : shares[q] = 0
      /\ "HAVE_EXCL" \in lk.flags /\ "WANT_EXCL" \notin lk.flags
  BY <1>1, HolderAlone, Zenon
<1>3. /\ Return(p, m, TRUE) /\ excls' = [excls EXCEPT ![p] = 0]
      /\ shares' = [shares EXCEPT ![p] = @ + n]
  BY <1>2, Zenon DEF LkDowngrade
<1>4. p \notin asleep /\ Fit(p, lk, FALSE, shares, excls)
  BY <1>1, Enter, Zenon DEF Ready
<1>n. n \in Nat /\ 0 + n = n
  BY <1>2
<1> HIDE DEF n
<1>5. /\ m \in LockType /\ m.prio = lk.prio /\ m.sharecount = n /\ m.exclusivecount = 0
      /\ m.flags = lk.flags \ {"HAVE_EXCL"}
      /\ m.lockholder = LK_NOPROC /\ m.waitcount = lk.waitcount
  BY <1>2, <1>4, <1>n, Zenon DEF Fit, LockType
<1>6. /\ shares' \in [Procs -> Nat] /\ shares'[p] = n
      /\ \A q \in Procs \ {p} : shares'[q] = 0
  BY <1>2, <1>3, <1>4, <1>n, Zenon DEF Fit
<1> HIDE DEF m
<1>7. excls' \in [Procs -> Nat] /\ \A q \in Procs : excls'[q] = 0
  BY <1>1, <1>3, <1>4, Zenon DEF Fit, Counts
<1>8. IsFiniteSet(SharedOf(shares')) /\ m.sharecount = Cardinality(SharedOf(shares'))
  BY <1>5, <1>6, SharedAlone, Zenon
<1>9. Counts(m, shares', excls')
  BY <1>5, <1>7, <1>8, ProcsAssumption, Zenon DEF Counts
<1>10. Draining(m) /\ m.flags \cap DrainFlags = {}
  BY <1>1, <1>5, Zenon DEF Draining, DrainFlags
<1>11. Fit(p, m, FALSE, shares', excls')
  BY <1>2, <1>4, <1>5, <1>6, <1>7, <1>9, <1>10, Zenon DEF Fit
<1>12. Undisturbed(m, asleep \ woken_by(m, TRUE))
  BY <1>5, AllWoken, Zenon
<1> QED BY <1>3, <1>4, <1>11, <1>12, ReturnKeeps, Zenon

LEMMA RecurseKeeps ==
  ASSUME IInv, NEW p \in Procs, NEW ext, LkRecurse(p, ext)
  PROVE  IInv'
<1>1. Ready(p, lk, FALSE) /\ lk.lockholder = p /\ lk.flags \cap DrainFlags = {}
  BY Enter, Zenon DEF LkRecurse, MayRequest, WEHOLDIT, DrainFlags
<1>2. CASE Fail(p, lk)
  BY <1>1, <1>2, FailKeeps, Zenon DEF Ready
<1>3. CASE Return(p, [lk EXCEPT !.exclusivecount = @ + 1], FALSE)
           /\ excls' = [excls EXCEPT ![p] = @ + 1] /\ UNCHANGED shares
  <2> DEFINE m == [lk EXCEPT !.exclusivecount = @ + 1]
  <2>1. Fit(p, lk, FALSE, shares, excls) /\ p \notin asleep
    BY <1>1, Zenon DEF Ready
  <2>2. /\ m \in LockType /\ m.prio = lk.prio /\ m.flags = lk.flags
        /\ m.sharecount = lk.sharecount /\ m.exclusivecount = lk.exclusivecount + 1
        /\ m.lockholder = lk.lockholder /\ m.waitcount = lk.waitcount
    BY <2>1 DEF Fit, LockType
  <2>3. Return(p, m, FALSE)
    BY <1>3, Zenon
  <2> HIDE DEF m
  <2>4. lk.exclusivecount # 0 /\ lk.exclusivecount \in Nat /\ m.exclusivecount # 0
    BY <1>1, <2>2, HolderAlone
  <2>5. /\ excls' \in [Procs -> Nat]
        /\ \A q \in Procs : excls'[q] = IF m.lockholder = q THEN m.exclusivecount ELSE 0
    BY <1>1, <1>3, <2>1, <2>2 DEF Fit, Counts
  <2>6. Counts(m, shares', excls')
    BY <1>3, <2>1, <2>2, <2>4, <2>5, Zenon DEF Fit, Counts
  <2>7. Draining(m)
    BY <1>1, <2>2, Zenon DEF Draining, DrainFlags
  <2>8. Fit(p, m, FALSE, shares', excls')
    BY <1>3, <2>1, <2>2, <2>5, <2>6, <2>7, Zenon DEF Fit
  <2>9. Undisturbed(m, asleep \ woken_by(m, FALSE))
    BY <1>1, <2>2, Zenon DEF Ready, Undisturbed, Wanted, Busy, IInv, Places, Sleeps
  <2> QED BY <2>1, <2>3, <2>8, <2>9, ReturnKeeps, Zenon
<1> QED BY <1>2, <1>3, Zenon DEF LkRecurse

(* A release: of one of several exclusive locks, of the last, perhaps of a *)
(* drained lock, or of a shared one.                                       *)
LEMMA ReleaseKeeps ==
  ASSUME IInv, NEW p \in Procs, LkRelease(p)
  PROVE  IInv'
<1> DEFINE d == decommissioned(lk)
           m == released(d)
<1>1. /\ pc[p] = "idle" /\ shares[p] + excls[p] > 0 /\ Return(p, m, TRUE)
  BY Zenon DEF LkRelease
<1>2. /\ lk \in LockType /\ shares \in [Procs -> Nat] /\ excls \in [Procs -> Nat]
      /\ Counts(lk, shares, excls) /\ Draining(lk)
      /\ lk.flags \cap DrainFlags # {} => \A q \in Procs : pc[q] = "idle"
  BY Zenon DEF IInv, TypeOK, LockType
<1>3. p \notin asleep /\ Waiters \ {p} = Waiters
  BY <1>1, Zenon DEF IInv, Places, Sleeps, Waiters, Waits
<1>4. /\ d \in LockType /\ d.prio = lk.prio
      /\ d.sharecount = lk.sharecount /\ d.exclusivecount = lk.exclusivecount
      /\ d.lockholder = lk.lockholder /\ d.waitcount = lk.waitcount
      /\ \A f : f \notin DrainFlags => (f \in d.flags <=> f \in lk.flags)
      /\ d.flags \cap DrainFlags # {} => lk.flags \cap DrainFlags # {}
      /\ "DRAINING" \notin d.flags
  BY <1>2, Zenon DEF decommissioned, LockType, IntFlags, DrainFlags
<1> HIDE DEF d
(* What holds of the lock that is left, whichever release it is. *)
<1>5. ASSUME m \in LockType, m.prio = lk.prio, m.waitcount = lk.waitcount,
             \A f : f # "HAVE_EXCL" => (f \in m.flags <=> f \in d.flags),
             shares' \in [Procs -> Nat], excls' \in [Procs -> Nat],
             Counts(m, shares', excls'), Draining(m)
      PROVE  IInv'
  <2>1. m.waitcount = Cardinality(Waiters \ {p})
    BY <1>3, <1>5, Zenon DEF IInv
  <2>2. "WANT_EXCL" \in m.flags <=> FALSE \/ \E q \in Procs \ {p} : pc[q] = "excl"
    BY <1>1, <1>4, <1>5, Zenon DEF IInv, DrainFlags
  <2>3. m.flags \cap DrainFlags # {} => \A q \in Procs \ {p} : pc[q] = "idle"
    BY <1>2, <1>4, <1>5, Zenon DEF DrainFlags
  <2>4. (\E q \in asleep : pc[q] = "drain") => "WAITDRAIN" \in m.flags
    BY <1>4, <1>5, Zenon DEF IInv, DrainFlags
  <2> HIDE DEF m
  <2>5. Fit(p, m, FALSE, shares', excls')
    BY <1>5, <2>1, <2>2, <2>3, <2>4, Zenon DEF Fit
  <2>6. Undisturbed(m, asleep \ woken_by(m, TRUE))
    BY <1>5, AllWoken, Zenon
  <2> QED BY <1>1, <1>3, <2>5, <2>6, ReturnKeeps, Zenon
<1>6. CASE lk.exclusivecount # 0
  <2>1. /\ lk.sharecount = 0 /\ shares[p] = 0 /\ lk.lockholder = p
        /\ "HAVE_EXCL" \in lk.flags /\ "WANT_EXCL" \notin lk.flags
    BY <1>1, <1>2, <1>6, HolderAlone
  <2>2. /\ excls' = [excls EXCEPT ![p] = @ - 1] /\ shares' = shares
        /\ excls[p] = lk.exclusivecount /\ lk.exclusivecount \in Nat
    BY <1>2, <1>6, <2>1, Zenon DEF LkRelease, Counts, LockType
  <2>3. /\ excls' \in [Procs -> Nat] /\ excls'[p] = lk.exclusivecount - 1
        /\ \A q \in Procs \ {p} : excls'[q] = 0
    BY <1>2, <1>6, <2>1, <2>2 DEF Counts
  <2>4. CASE lk.exclusivecount > 1
    <3>1. m = [d EXCEPT !.exclusivecount = @ - 1]
      BY <1>4, <2>4 DEF released
    <3>2. /\ m \in LockType /\ m.prio = d.prio /\ m.flags = d.flags
          /\ m.sharecount = d.sharecount /\ m.exclusivecount = d.exclusivecount - 1
          /\ m.lockholder = d.lockholder /\ m.waitcount = d.waitcount
      BY <1>4, <2>2, <2>4, <3>1 DEF LockType
    <3>3. m.exclusivecount # 0
      BY <1>4, <2>2, <2>4, <3>2
    <3> HIDE DEF m
    <3>4. Counts(m, shares', excls')
      BY <1>2, <1>4, <2>1, <2>2, <2>3, <3>2, <3>3 DEF Counts, DrainFlags
    <3>5. d.flags \cap DrainFlags = {}
      BY <1>2, <1>4, <2>1, <2>4 DEF Draining, DrainFlags
    <3>6. Draining(m)
      BY <3>2, <3>5, Zenon DEF Draining, DrainFlags
    <3> QED BY <1>2, <1>4, <1>5, <2>2, <2>3, <3>2, <3>4, <3>6 DEF m
  <2>5. CASE lk.exclusivecount = 1
    <3>1. m = [d EXCEPT !.exclusivecount = 0, !.flags = @ \ {"HAVE_EXCL"},
                        !.lockholder = LK_NOPROC]
      BY <1>4, <2>5 DEF released
    <3>2. /\ m \in LockType /\ m.prio = d.prio /\ m.flags = d.flags \ {"HAVE_EXCL"}
          /\ m.sharecount = d.sharecount /\ m.exclusivecount = 0
          /\ m.lockholder = LK_NOPROC /\ m.waitcount = d.waitcount
      <4>1. d \in LockType /\ d.flags \ {"HAVE_EXCL"} \in SUBSET IntFlags
        BY <1>4, Zenon DEF LockType
      <4> HIDE DEF m
      <4> QED BY <3>1, <4>1, Zenon DEF LockType
    <3> HIDE DEF m
    <3>3. \A q \in Procs : excls'[q] = 0
      BY <2>3, <2>5
    <3>4. Counts(m, shares', excls')
      BY <1>2, <1>4, <2>2, <3>2, <3>3, ProcsAssumption, Zenon DEF Counts
    <3>5. Draining(m)
      BY <1>2, <1>4, <3>2, Zenon DEF Draining, DrainFlags
    <3> QED BY <1>2, <1>4, <1>5, <2>2, <2>3, <3>2, <3>4, <3>5 DEF m
  <2> QED BY <1>6, <2>2, <2>4, <2>5
<1>7. CASE lk.exclusivecount = 0
  <2>1. m = [d EXCEPT !.sharecount = @ - 1]
    BY <1>4, <1>7 DEF released
  <2>2. excls[p] = 0 /\ shares[p] > 0
    BY <1>1, <1>2, <1>7 DEF Counts
  <2>3. shares' = [shares EXCEPT ![p] = @ - 1] /\ excls' = excls
    BY <1>7, Zenon DEF LkRelease
  <2>4. /\ shares' \in [Procs -> Nat] /\ IsFiniteSet(SharedOf(shares'))
        /\ lk.sharecount = Cardinality(SharedOf(shares')) + 1
    BY <1>2, <2>2, <2>3, SharedRemove, Zenon DEF Counts
  <2>5. /\ lk.sharecount - 1 \in Nat /\ lk.sharecount # 0
        /\ lk.sharecount - 1 = Cardinality(SharedOf(shares'))
    BY <2>4, FS_CardinalityType
  <2>6. /\ m \in LockType /\ m.prio = d.prio /\ m.flags = d.flags
        /\ m.sharecount = lk.sharecount - 1 /\ m.exclusivecount = d.exclusivecount
        /\ m.lockholder = d.lockholder /\ m.waitcount = d.waitcount
    BY <1>4, <2>1, <2>5 DEF LockType
  <2> HIDE DEF m
  <2>7. Counts(m, shares', excls')
    BY <1>2, <1>4, <1>7, <2>3, <2>4, <2>5, <2>6 DEF Counts, DrainFlags
  <2>8. Draining(m)
    BY <1>2, <1>4, <2>5, <2>6, Zenon DEF Draining, DrainFlags
  <2> QED BY <1>2, <1>4, <1>5, <2>3, <2>4, <2>6, <2>7, <2>8 DEF m
<1> QED BY <1>6, <1>7, Zenon

LEMMA ReinitKeeps ==
  ASSUME IInv, Reinit
  PROVE  IInv'
<1>1. PICK prio \in Prios : lk' = lockinit(prio)
  BY Zenon DEF Reinit
<1>2. /\ "DRAINED" \in lk.flags /\ \A p \in Procs : pc[p] = "idle"
      /\ pc' = pc /\ asleep' = asleep /\ failed' = failed /\ shares' = shares /\ excls' = excls
  BY Zenon DEF Reinit
<1>3. /\ lk' \in LockType /\ lk'.flags = {} /\ lk'.sharecount = 0 /\ lk'.waitcount = 0
      /\ lk'.exclusivecount = 0 /\ lk'.lockholder = LK_NOPROC
  BY <1>1, Zenon DEF lockinit, LockType
<1>4. asleep = {} /\ failed = {}
  BY <1>2, Zenon DEF IInv, TypeOK, Places, Sleeps
<1>5. lk.sharecount = 0 /\ lk.exclusivecount = 0
  BY <1>2, Zenon DEF IInv, Draining, DrainFlags
<1>6. \A p \in Procs : excls[p] = 0
  BY <1>5, ProcsAssumption, Zenon DEF IInv, Counts
<1>7. TypeOK' /\ Places'
  BY <1>2, <1>3, <1>4, Zenon DEF IInv, TypeOK, Places, LockType
<1>8. Counts(lk, shares, excls)'
  BY <1>2, <1>3, <1>5, <1>6, ProcsAssumption DEF IInv, Counts, SharedOf
<1>9. Draining(lk)'
  BY <1>3, Zenon DEF Draining
<1>10. (lk.waitcount = Cardinality(Waiters))'
  <2>1. Waiters' = {}
    BY <1>2, Zenon DEF Waiters, Waits, Sleeps
  <2> QED BY <1>3, <2>1, FS_EmptySet, Zenon
<1>11. NoLostWakeup'
  BY <1>2, <1>4, Zenon DEF NoLostWakeup
<1> QED BY <1>2, <1>3, <1>4, <1>7, <1>8, <1>9, <1>10, <1>11, Zenon DEF IInv

LEMMA InterruptKeeps ==
  ASSUME IInv, NEW p \in Procs, Interrupt(p)
  PROVE  IInv'
<1>1. /\ lk.prio = "PCATCH" /\ p \in asleep
      /\ asleep' = asleep \ {p} /\ failed' = failed \cup {p}
      /\ lk' = lk /\ pc' = pc /\ shares' = shares /\ excls' = excls
  BY Zenon DEF Interrupt
<1>2. TypeOK'
  BY <1>1 DEF IInv, TypeOK
<1>3. Places'
  BY <1>1, Zenon DEF IInv, Places
<1>4. Counts(lk, shares, excls)' /\ Draining(lk)'
  BY <1>1, Zenon DEF IInv, Counts, Draining, SharedOf
<1>5. Waiters' = Waiters
  BY <1>1, Zenon DEF Waiters
<1>6. NoLostWakeup'
  BY <1>1, Zenon DEF NoLostWakeup
<1> QED BY <1>1, <1>2, <1>3, <1>4, <1>5, <1>6, Zenon DEF IInv

LEMMA ResumeFailedKeeps ==
  ASSUME IInv, NEW p \in Procs, ResumeFailed(p)
  PROVE  IInv'
<1> DEFINE s == slept(p)
           l == IF pc[p] = "excl" THEN [s EXCEPT !.flags = @ \ {"WANT_EXCL"}] ELSE s
<1>1. pc[p] \in Sleeps /\ p \in failed /\ Fail(p, l)
  BY Zenon DEF ResumeFailed
<1>2. p \notin asleep /\ lk.prio # "PINOD"
  BY <1>1, Zenon DEF IInv, Places
<1>3. Fit(p, s, pc[p] = "excl", shares, excls) /\ s.flags \cap DrainFlags = {}
  BY <1>1, Awake, Zenon
<1> HIDE DEF s
<1>4. Fit(p, l, FALSE, shares, excls)
  <2>1. CASE pc[p] # "excl"
    BY <1>3, <2>1, Zenon DEF Fit
  <2>2. CASE pc[p] = "excl"
    <3>1. l = [s EXCEPT !.flags = @ \ {"WANT_EXCL"}]
      BY <2>2, Zenon
    <3> HIDE DEF l
    <3>2. /\ l \in LockType /\ l.prio = s.prio /\ l.flags = s.flags \ {"WANT_EXCL"}
          /\ l.sharecount = s.sharecount /\ l.exclusivecount = s.exclusivecount
          /\ l.lockholder = s.lockholder /\ l.waitcount = s.waitcount
      BY <1>3, <3>1, Zenon DEF Fit, LockType
    <3>3. Counts(l, shares, excls)
      BY <1>3, <3>2, Zenon DEF Fit, Counts
    <3>4. Draining(l) /\ l.flags \cap DrainFlags = {}
      BY <1>3, <3>2, Zenon DEF Draining, DrainFlags
    <3> QED BY <1>3, <2>2, <3>2, <3>3, <3>4, Zenon DEF Fit
  <2> QED BY <2>1, <2>2, Zenon
<1>5. Undisturbed(l, asleep)
  BY <1>2, Zenon DEF Undisturbed
<1> HIDE DEF l
<1> QED BY <1>1, <1>2, <1>4, <1>5, FailKeeps, Zenon

LEMMA ResumeKeeps ==
  ASSUME IInv, NEW p \in Procs, Resume(p)
  PROVE  IInv'
<1>1. pc[p] \in Sleeps /\ p \notin asleep \cup failed
  BY Zenon DEF Resume
<1>2. Ready(p, slept(p), pc[p] = "excl")
  BY <1>1, Awake, Zenon DEF Ready
<1>3. CASE pc[p] = "excl" /\ GetExcl(p, slept(p))
  BY <1>2, <1>3, GetExclKeeps, Zenon
<1>4. ASSUME pc[p] # "excl" PROVE Ready(p, slept(p), FALSE)
  BY <1>2, <1>4, Zenon
<1>5. CASE pc[p] = "shared" /\ GetShared(p, slept(p))
  BY <1>4, <1>5, GetSharedKeeps, Zenon
<1>6. CASE pc[p] = "want" /\ GetWant(p, slept(p))
  BY <1>4, <1>6, GetWantKeeps, Zenon
<1>7. CASE pc[p] = "drain" /\ GetDrained(p, slept(p))
  <2>1. p = Drainer
    BY <1>7, Zenon DEF IInv, Places
  <2> QED BY <1>4, <1>7, <2>1, GetDrainedKeeps, Zenon
<1> QED BY <1>3, <1>5, <1>6, <1>7, Zenon DEF Resume

LEMMA RequestKeeps ==
  ASSUME IInv, NEW p \in Procs, Request(p)
  PROVE  IInv'
<1>1. PICK ext : LkShared(p, ext) \/ LkExclusive(p, ext) \/ LkRecurse(p, ext) \/ LkDrain(p, ext)
  BY Zenon DEF Request
<1>2. CASE LkRecurse(p, ext)
  BY <1>2, RecurseKeeps, Zenon
<1>3. CASE LkShared(p, ext) \/ LkExclusive(p, ext) \/ LkDrain(p, ext)
  <2>1. Ready(p, lk, FALSE)
    BY <1>3, Enter, Zenon DEF LkShared, LkExclusive, LkDrain, MayRequest, DrainFlags
  <2>2. CASE Fail(p, lk)
    BY <2>1, <2>2, FailKeeps, Zenon DEF Ready
  <2>3. CASE GetShared(p, lk)
    BY <2>1, <2>3, GetSharedKeeps, Zenon
  <2>4. CASE GetWant(p, lk)
    BY <2>1, <2>4, GetWantKeeps, Zenon
  <2>5. CASE p = Drainer /\ GetDrained(p, lk)
    BY <2>1, <2>5, GetDrainedKeeps, Zenon
  <2> QED BY <1>3, <2>2, <2>3, <2>4, <2>5, Zenon DEF LkShared, LkExclusive, LkDrain
<1> QED BY <1>1, <1>2, <1>3, Zenon

LEMMA InitInv == Init => IInv
<1> SUFFICES ASSUME Init PROVE IInv
  OBVIOUS
<1>1. PICK prio \in Prios : lk = lockinit(prio)
  BY Zenon DEF Init
<1>2. /\ lk \in LockType /\ lk.flags = {} /\ lk.sharecount = 0 /\ lk.waitcount = 0
      /\ lk.exclusivecount = 0 /\ lk.lockholder = LK_NOPROC
  BY <1>1, Zenon DEF lockinit, LockType
<1>3. TypeOK /\ Places
  BY <1>2, Zenon DEF Init, TypeOK, Places, LockType
<1>4. Waiters = {} /\ Cardinality(Waiters) = 0
  BY FS_EmptySet, Zenon DEF Init, Waiters, Waits, Sleeps
<1>5. SharedOf(shares) = {}
  <2>1. \A p \in Procs : \A i \in 1 .. shares[p] : FALSE
    BY DEF Init
  <2> QED BY <2>1, InSharedOf, Zenon
<1>6. IsFiniteSet(SharedOf(shares)) /\ Cardinality(SharedOf(shares)) = 0
  BY <1>5, FS_EmptySet, Zenon
<1>7. Counts(lk, shares, excls) /\ Draining(lk)
  BY <1>2, <1>6, ProcsAssumption, Zenon DEF Init, Counts, Draining
<1>8. NoLostWakeup
  BY Zenon DEF Init, NoLostWakeup
<1> QED BY <1>2, <1>3, <1>4, <1>7, <1>8, Zenon DEF Init, IInv

LEMMA NextInv ==
  ASSUME IInv, [Next]_vars
  PROVE  IInv'
<1>1. CASE UNCHANGED vars
  <2>1. Waiters' = Waiters /\ NoLostWakeup'
    BY <1>1, Zenon DEF vars, Waiters, IInv, NoLostWakeup, Wanted, Active, Busy
  <2> QED BY <1>1, <2>1 DEF vars, IInv, TypeOK, Places, Counts, Draining, SharedOf
<1>2. ASSUME NEW p \in Procs,
             \/ Request(p) \/ LkDowngrade(p) \/ LkRelease(p)
             \/ Interrupt(p) \/ ResumeFailed(p) \/ Resume(p)
      PROVE  IInv'
  BY <1>2, RequestKeeps, DowngradeKeeps, ReleaseKeeps, InterruptKeeps, ResumeFailedKeeps, ResumeKeeps, Zenon
<1>3. CASE Reinit
  BY <1>3, ReinitKeeps, Zenon
<1> QED BY <1>1, <1>2, <1>3 DEF Next

LEMMA Invariance == Spec => []IInv
BY InitInv, NextInv, PTL DEF Spec
-----------------------------------------------------------------------------
(* The lock's fields keep their types, and lockmgr() its program points;   *)
(* no count goes below zero (they are ints, and would).                    *)
THEOREM TypeCorrect == Spec => []TypeOK
<1>1. IInv => TypeOK
  BY Zenon DEF IInv
<1> QED BY <1>1, Invariance, PTL

(* lk_sharecount, lk_exclusivecount, lk_lockholder and lk_waitcount count  *)
(* what is held and who waits, and lockmgr() reaches no panic.             *)
THEOREM CountsHold == Spec => []CountsMatch
<1>1. IInv => CountsMatch
  <2> SUFFICES ASSUME IInv PROVE CountsMatch
    BY Zenon DEF IInv
  <2>1. SharedLocks = SharedOf(shares)
    BY Zenon DEF SharedLocks, SharedOf
  <2>2. {p \in Procs : pc[p] \in Sleeps \ {"drain"}} = Waiters
    BY Zenon DEF Waiters, Waits
  <2> QED BY <2>1, <2>2, Zenon DEF IInv, Places, Counts, CountsMatch
<1> QED BY <1>1, Invariance, PTL

(* An exclusive lock excludes all locks of others, and a drained lock has  *)
(* no holder and nobody inside lockmgr().                                  *)
THEOREM Excludes == Spec => []Exclusion
<1>1. IInv => Exclusion
  <2> SUFFICES ASSUME IInv PROVE Exclusion
    OBVIOUS
  <2>1. ASSUME NEW p \in Procs, NEW q \in Procs, excls[p] > 0
        PROVE  shares[q] = 0 /\ (p # q => excls[q] = 0)
    <3>1. lk.lockholder = p /\ lk.exclusivecount # 0 /\ shares[q] = 0
      BY <2>1, HolderAlone, Zenon
    <3> QED BY <3>1, Zenon DEF IInv, Counts
  <2>2. ASSUME "DRAINED" \in lk.flags PROVE ~Active(lk) /\ \A p \in Procs : pc[p] = "idle"
    <3>1. /\ lk.sharecount = 0 /\ lk.waitcount = 0 /\ lk.exclusivecount = 0
          /\ \A p \in Procs : pc[p] = "idle"
      BY <2>2, Zenon DEF IInv, Draining, DrainFlags
    <3>2. "HAVE_EXCL" \notin lk.flags /\ "WANT_EXCL" \notin lk.flags
      BY <3>1, Zenon DEF IInv, Counts
    <3> QED BY <3>1, <3>2, Zenon DEF Active, Busy
  <2> QED BY <2>1, <2>2, Zenon DEF Exclusion
<1> QED BY <1>1, Invariance, PTL

(* On an uninterruptible lock nobody sleeps for a condition that is false. *)
THEOREM WakeupsArrive == Spec => []NoLostWakeup
<1>1. IInv => NoLostWakeup
  BY Zenon DEF IInv
<1> QED BY <1>1, Invariance, PTL

(* While a process waits with LK_WANT_EXCL set, no other gets a lock. *)
THEOREM WantRespected == Spec => WantStopsOthers
<1> DEFINE Holdback ==
      \A p \in Procs : pc[p] = "excl" /\ pc'[p] = "excl"
        => \A q \in Procs : shares'[q] <= shares[q] /\ excls'[q] <= excls[q]
<1>1. IInv /\ [Next]_vars => [Holdback]_vars
  <2> SUFFICES ASSUME IInv, Next, NEW p \in Procs, pc[p] = "excl", pc'[p] = "excl",
                      NEW q \in Procs
               PROVE  shares'[q] <= shares[q] /\ excls'[q] <= excls[q]
    OBVIOUS
  <2>1. /\ "WANT_EXCL" \in lk.flags /\ Busy(lk)
        /\ lk.exclusivecount = 0 /\ \A r \in Procs : lk.lockholder # r
    <3>1. "WANT_EXCL" \in lk.flags
      BY Zenon DEF IInv
    <3> QED BY <3>1, HolderAlone, Zenon DEF Busy
  <2>2. /\ shares \in [Procs -> Nat] /\ excls \in [Procs -> Nat]
        /\ shares[q] <= shares[q] /\ excls[q] <= excls[q]
    BY DEF IInv, TypeOK
  <2>3. ASSUME shares' = shares, excls' = excls
        PROVE  shares'[q] <= shares[q] /\ excls'[q] <= excls[q]
    BY <2>2, <2>3, Zenon
  <2>4. ASSUME NEW l, l.flags = lk.flags, NEW r,
               GetShared(r, l) \/ GetWant(r, l) \/ GetDrained(r, l)
        PROVE  shares' = shares /\ excls' = excls
    BY <2>1, <2>4, Zenon DEF GetShared, GetWant, GetDrained, Wanted, Active, Busy, Sleep
  <2>5. ASSUME NEW r \in Procs, Request(r) PROVE shares' = shares /\ excls' = excls
    BY <2>1, <2>4, <2>5, Zenon DEF Request, LkShared, LkExclusive, LkRecurse, LkDrain, WEHOLDIT, Fail
  <2>6. ASSUME NEW r \in Procs, LkDowngrade(r) PROVE FALSE
    BY <2>1, <2>6, Zenon DEF LkDowngrade, WEHOLDIT
  <2>7. ASSUME NEW r \in Procs, LkRelease(r)
        PROVE  shares'[q] <= shares[q] /\ excls'[q] <= excls[q]
    BY <2>1, <2>2, <2>7 DEF LkRelease
  <2>8. ASSUME NEW r \in Procs, Resume(r) PROVE shares' = shares /\ excls' = excls
    <3>1. slept(r).flags = lk.flags
      BY Zenon DEF slept, IInv, TypeOK
    <3>2. CASE pc[r] = "excl" /\ GetExcl(r, slept(r))
      <4>1. r = p
        BY <3>2, Zenon DEF IInv, Places
      <4>2. CASE Sleep(r, slept(r), "excl")
        BY <4>2, Zenon DEF Sleep
      <4>3. CASE ~Wanted("excl", slept(r))
        <5>1. pc'[p] \in {"idle", "panic"}
          BY <3>2, <4>1, <4>3 DEF GetExcl, Return, IInv, TypeOK
        <5> QED BY <5>1, Zenon
      <4> QED BY <3>2, <4>2, <4>3, Zenon DEF GetExcl
    <3> QED BY <2>4, <2>8, <3>1, <3>2, Zenon DEF Resume
  <2>9. ASSUME NEW r \in Procs, Interrupt(r) \/ ResumeFailed(r)
        PROVE  shares' = shares /\ excls' = excls
    BY <2>9, Zenon DEF Interrupt, ResumeFailed, Fail
  <2>10. CASE Reinit
    BY <2>3, <2>10, Zenon DEF Reinit
  <2> QED BY <2>3, <2>5, <2>6, <2>7, <2>8, <2>9, <2>10, Zenon DEF Next
<1> QED BY <1>1, Invariance, PTL DEF Spec, WantStopsOthers
=============================================================================
