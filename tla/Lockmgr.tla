------------------------------ MODULE Lockmgr -------------------------------
(***************************************************************************)
(* The lock manager of kern/kern_lock.c: shared and exclusive locks with   *)
(* recursion, downgrading and draining, used for vnodes.                   *)
(*                                                                         *)
(* lockmgr() runs under the kernel lock, so it is atomic from its call, or *)
(* from its return from tsleep(), to its return or its next tsleep().      *)
(***************************************************************************)
EXTENDS Naturals, FiniteSets

CONSTANTS
  Procs,         \* processes that use the lock
  LK_NOPROC,
  Drainer,       \* the process that drains it: VXLOCK lets only one do so
  Prios,         \* the priorities locks are initialised with
  MaxRecurse     \* bound: exclusive locks one process takes

ASSUME ProcsAssumption ==
  /\ IsFiniteSet(Procs) /\ LK_NOPROC \notin Procs /\ Drainer \in Procs
  /\ Prios \subseteq {"PINOD", "PCATCH"} /\ MaxRecurse \in Nat \ {0}

VARIABLES
  lk,       \* the struct lock
  pc,       \* the tsleep() of lockmgr() a process is in, or "idle"
  asleep,   \* the processes that tsleep() has not been woken for
  failed,   \* the processes whose tsleep() returns an error
  shares,   \* shared locks each process got and has not released
  excls     \* exclusive ones

vars == <<lk, pc, asleep, failed, shares, excls>>

IntFlags == {"WANT_EXCL", "HAVE_EXCL", "WAITDRAIN", "DRAINING", "DRAINED"}
ExtFlags == SUBSET {"NOWAIT", "CANRECURSE", "RECURSEFAIL"}
Sleeps == {"shared", "want", "excl", "drain"}

TypeOK ==
  /\ lk \in [flags : SUBSET IntFlags, sharecount : Nat, waitcount : Nat,
             exclusivecount : Nat, lockholder : Procs \cup {LK_NOPROC}, prio : Prios]
  /\ pc \in [Procs -> Sleeps \cup {"idle", "panic"}]
  /\ asleep \subseteq Procs /\ failed \subseteq Procs
  /\ shares \in [Procs -> Nat] /\ excls \in [Procs -> Nat]

(* "PCATCH" stands for a lk_prio with PCATCH or a lk_timo other than 0. *)
lockinit(prio) == [flags |-> {}, sharecount |-> 0, waitcount |-> 0,
                   exclusivecount |-> 0, lockholder |-> LK_NOPROC, prio |-> prio]

Init ==
  /\ \E prio \in Prios : lk = lockinit(prio)
  /\ pc = [p \in Procs |-> "idle"]
  /\ asleep = {} /\ failed = {}
  /\ shares = [p \in Procs |-> 0] /\ excls = [p \in Procs |-> 0]

-----------------------------------------------------------------------------
WEHOLDIT(p) == lk.lockholder = p

(* Fault: a request looks for a holder of the lock only. *)
Busy_have(l) == "HAVE_EXCL" \in l.flags

Busy(l) == l.flags \cap {"HAVE_EXCL", "WANT_EXCL"} # {}

Active(l) == Busy(l) \/ l.sharecount # 0 \/ l.waitcount # 0

(* Fault: an exclusive request does not wait for the shared locks. *)
Wanted_excl(where, l) ==
  CASE where \in {"shared", "want"} -> Busy(l)
    [] where = "excl"  -> FALSE
    [] where = "drain" -> Active(l)

(* The condition "wanted" of each ACQUIRE. *)
Wanted(where, l) ==
  CASE where \in {"shared", "want"} -> Busy(l)
    [] where = "excl"  -> l.sharecount # 0
    [] where = "drain" -> Active(l)

(* The end of lockmgr(): whether to wake those waiting for it to drain. *)
drained(l) == "WAITDRAIN" \in l.flags /\ ~Active(l)

(* Fault: a release that wakes nobody while a writer wants the lock. *)
woken_by_unwanted(l, wake) ==
  {q \in asleep : IF pc[q] = "drain" THEN drained(l) ELSE wake /\ "WANT_EXCL" \notin l.flags}

woken_by(l, wake) ==
  {q \in asleep : IF pc[q] = "drain" THEN drained(l) ELSE wake /\ l.waitcount # 0}

(* lockmgr() returns with the lock l, having called wakeup(lkp) if wake. *)
Return(p, l, wake) ==
  /\ lk' = IF drained(l) THEN [l EXCEPT !.flags = @ \ {"WAITDRAIN"}] ELSE l
  /\ asleep' = asleep \ woken_by(l, wake)
  /\ failed' = failed \ {p}
  /\ pc' = [pc EXCEPT ![p] = "idle"]

(* ACQUIRE goes to sleep. *)
Sleep(p, l, where) ==
  /\ lk' = IF where = "drain" THEN [l EXCEPT !.flags = @ \cup {"WAITDRAIN"}]
                              ELSE [l EXCEPT !.waitcount = @ + 1]
  /\ asleep' = asleep \cup {p}
  /\ pc' = [pc EXCEPT ![p] = where]
  /\ UNCHANGED <<failed, shares, excls>>

Fail(p, l) == Return(p, l, FALSE) /\ UNCHANGED <<shares, excls>>

-----------------------------------------------------------------------------
(* The rest of LK_SHARED, LK_EXCLUSIVE and LK_DRAIN from an ACQUIRE on,    *)
(* for a process that finds the lock in state l.                           *)
GetShared(p, l) ==
  \/ Wanted("shared", l) /\ Sleep(p, l, "shared")
  \/ /\ ~Wanted("shared", l)
     /\ Return(p, [l EXCEPT !.sharecount = @ + 1], FALSE)
     /\ shares' = [shares EXCEPT ![p] = @ + 1]
     /\ UNCHANGED excls

GetExcl(p, l) ==
  \/ Wanted("excl", l) /\ Sleep(p, l, "excl")
  \/ /\ ~Wanted("excl", l)
     /\ LET m == [l EXCEPT !.flags = (@ \ {"WANT_EXCL"}) \cup {"HAVE_EXCL"},
                           !.lockholder = p, !.exclusivecount = 1]
        IN  IF l.exclusivecount # 0
              THEN pc' = [pc EXCEPT ![p] = "panic"] /\ UNCHANGED <<lk, asleep, failed>>
              ELSE Return(p, m, FALSE)
     /\ excls' = [excls EXCEPT ![p] = 1]
     /\ UNCHANGED shares

GetWant(p, l) ==
  \/ Wanted("want", l) /\ Sleep(p, l, "want")
  \/ ~Wanted("want", l) /\ GetExcl(p, [l EXCEPT !.flags = @ \cup {"WANT_EXCL"}])

GetDrained(p, l) ==
  \/ Wanted("drain", l) /\ Sleep(p, l, "drain")
  \/ /\ ~Wanted("drain", l)
     /\ Return(p, [l EXCEPT !.flags = @ \cup {"DRAINING", "HAVE_EXCL"},
                            !.lockholder = p, !.exclusivecount = 1], FALSE)
     /\ excls' = [excls EXCEPT ![p] = 1]
     /\ UNCHANGED shares

-----------------------------------------------------------------------------
(* A process calls lockmgr() when it is in none of its own calls, not for  *)
(* a lock that is drained (only the release that follows is legal then),   *)
(* and holding a shared lock it only releases: what it would wait for      *)
(* could be itself.                                                        *)
MayRequest(p) ==
  /\ pc[p] = "idle" /\ shares[p] = 0
  /\ lk.flags \cap {"DRAINING", "DRAINED"} = {}

LkShared(p, ext) ==
  /\ MayRequest(p) /\ ~WEHOLDIT(p)
  /\ IF "NOWAIT" \in ext /\ Busy(lk) THEN Fail(p, lk) ELSE GetShared(p, lk)

(* Fault: a downgrade counts the new shared lock only. *)
LkDowngrade_one(p) ==
  /\ MayRequest(p) /\ WEHOLDIT(p)
  /\ Return(p, [lk EXCEPT !.sharecount = @ + 1, !.exclusivecount = 0,
                          !.flags = @ \ {"HAVE_EXCL"}, !.lockholder = LK_NOPROC], TRUE)
  /\ shares' = [shares EXCEPT ![p] = @ + lk.exclusivecount + 1]
  /\ excls' = [excls EXCEPT ![p] = 0]

(* LK_SHARED by the exclusive holder: its exclusive locks become shared,   *)
(* and it gets one more.                                                   *)
LkDowngrade(p) ==
  /\ MayRequest(p) /\ WEHOLDIT(p)
  /\ LET n == lk.exclusivecount + 1
         m == [lk EXCEPT !.sharecount = @ + n, !.exclusivecount = 0,
                         !.flags = @ \ {"HAVE_EXCL"}, !.lockholder = LK_NOPROC]
     IN  /\ IF lk.exclusivecount = 0
              THEN pc' = [pc EXCEPT ![p] = "panic"] /\ UNCHANGED <<lk, asleep, failed>>
              ELSE Return(p, m, TRUE)
         /\ shares' = [shares EXCEPT ![p] = @ + n]
  /\ excls' = [excls EXCEPT ![p] = 0]

LkExclusive(p, ext) ==
  /\ MayRequest(p) /\ ~WEHOLDIT(p)
  /\ IF "NOWAIT" \in ext /\ (Busy(lk) \/ lk.sharecount # 0)
       THEN Fail(p, lk) ELSE GetWant(p, lk)

(* LK_EXCLUSIVE by the holder: it asks for one of LK_CANRECURSE and        *)
(* LK_RECURSEFAIL, as vn_lock() does.                                      *)
LkRecurse(p, ext) ==
  /\ MayRequest(p) /\ WEHOLDIT(p)
  /\ \/ /\ "CANRECURSE" \in ext
        /\ excls[p] < MaxRecurse
        /\ Return(p, [lk EXCEPT !.exclusivecount = @ + 1], FALSE)
        /\ excls' = [excls EXCEPT ![p] = @ + 1]
        /\ UNCHANGED shares
     \/ "CANRECURSE" \notin ext /\ "RECURSEFAIL" \in ext /\ Fail(p, lk)

LkDrain(p, ext) ==
  /\ p = Drainer /\ MayRequest(p) /\ ~WEHOLDIT(p)
  /\ IF "NOWAIT" \in ext /\ Active(lk) THEN Fail(p, lk) ELSE GetDrained(p, lk)

(* The first access to a drained lock, its release, decommissions it. *)
decommissioned(l) ==
  IF "DRAINING" \in l.flags THEN [l EXCEPT !.flags = (@ \ {"DRAINING"}) \cup {"DRAINED"}] ELSE l

released(l) ==
  CASE l.exclusivecount > 1 -> [l EXCEPT !.exclusivecount = @ - 1]
    [] l.exclusivecount = 1 -> [l EXCEPT !.exclusivecount = 0, !.flags = @ \ {"HAVE_EXCL"},
                                         !.lockholder = LK_NOPROC]
    [] OTHER                -> [l EXCEPT !.sharecount = @ - 1]

LkRelease(p) ==
  /\ pc[p] = "idle" /\ shares[p] + excls[p] > 0
  /\ Return(p, released(decommissioned(lk)), TRUE)
  /\ IF lk.exclusivecount # 0
       THEN excls' = [excls EXCEPT ![p] = @ - 1] /\ UNCHANGED shares
       ELSE shares' = [shares EXCEPT ![p] = @ - 1] /\ UNCHANGED excls

(* The memory of a decommissioned lock is used again. *)
Reinit ==
  /\ "DRAINED" \in lk.flags /\ \A p \in Procs : pc[p] = "idle"
  /\ \E prio \in Prios : lk' = lockinit(prio)
  /\ UNCHANGED <<pc, asleep, failed, shares, excls>>

-----------------------------------------------------------------------------
(* A signal or a timeout ends a sleep. *)
Interrupt(p) ==
  /\ lk.prio = "PCATCH" /\ p \in asleep
  /\ asleep' = asleep \ {p} /\ failed' = failed \cup {p}
  /\ UNCHANGED <<lk, pc, shares, excls>>

slept(p) == IF pc[p] = "drain" THEN lk ELSE [lk EXCEPT !.waitcount = @ - 1]

(* Fault: an interrupted request stays in lk_waitcount. *)
ResumeFailed_counted(p) ==
  /\ pc[p] \in Sleeps /\ p \in failed
  /\ Fail(p, IF pc[p] = "excl" THEN [lk EXCEPT !.flags = @ \ {"WANT_EXCL"}] ELSE lk)

ResumeFailed(p) ==
  /\ pc[p] \in Sleeps /\ p \in failed
  /\ Fail(p, IF pc[p] = "excl" THEN [slept(p) EXCEPT !.flags = @ \ {"WANT_EXCL"}]
                               ELSE slept(p))

Resume(p) ==
  /\ pc[p] \in Sleeps /\ p \notin asleep \cup failed
  /\ \/ pc[p] = "shared" /\ GetShared(p, slept(p))
     \/ pc[p] = "want"   /\ GetWant(p, slept(p))
     \/ pc[p] = "excl"   /\ GetExcl(p, slept(p))
     \/ pc[p] = "drain"  /\ GetDrained(p, slept(p))

Request(p) == \E ext \in ExtFlags : \/ LkShared(p, ext) \/ LkExclusive(p, ext)
                                    \/ LkRecurse(p, ext) \/ LkDrain(p, ext)

Next ==
  \/ \E p \in Procs : \/ Request(p) \/ LkDowngrade(p) \/ LkRelease(p)
                      \/ Interrupt(p) \/ ResumeFailed(p) \/ Resume(p)
  \/ Reinit

Spec == Init /\ [][Next]_vars

(* Woken processes run, and holders release what they hold. *)
FairSpec ==
  /\ Spec
  /\ \A p \in Procs : WF_vars(Resume(p) \/ ResumeFailed(p)) /\ WF_vars(LkRelease(p))

-----------------------------------------------------------------------------
(* An exclusive lock excludes every other lock of any other process, as    *)
(* lockmgr() returned success for them, across recursion and downgrades.   *)
(* A drained lock excludes everyone: nobody holds it or is inside          *)
(* lockmgr() with it when its memory may be freed.                         *)
Exclusion ==
  /\ \A p, q \in Procs : excls[p] > 0 => shares[q] = 0 /\ (p # q => excls[q] = 0)
  /\ "DRAINED" \in lk.flags => ~Active(lk) /\ \A p \in Procs : pc[p] = "idle"

(* The shared locks that are held: each process has so many. *)
SharedLocks == UNION {{p} \X (1 .. shares[p]) : p \in Procs}

(* lk_sharecount, lk_exclusivecount and lk_lockholder count what the       *)
(* processes hold, so that each release finds its lock and lockmgr() does  *)
(* not panic on them; lk_waitcount is the number of processes between its  *)
(* increment and decrement around tsleep(), interrupted ones included,     *)
(* which a drain waits for.                                                *)
CountsMatch ==
  /\ \A p \in Procs : pc[p] # "panic"
  /\ lk.waitcount = Cardinality({p \in Procs : pc[p] \in Sleeps \ {"drain"}})
  /\ lk.sharecount = Cardinality(SharedLocks)
  /\ \A p \in Procs : excls[p] = IF lk.lockholder = p THEN lk.exclusivecount ELSE 0
  /\ lk.lockholder = LK_NOPROC <=> lk.exclusivecount = 0

(* Nobody sleeps for what has come about: whenever the condition of an     *)
(* ACQUIRE turns false its sleeper has been woken, on the uninterruptible  *)
(* locks that every lockinit() in the tree asks for.                       *)
NoLostWakeup == lk.prio = "PINOD" => \A p \in asleep : Wanted(pc[p], lk)

(* "Exclusive requests set the LK_WANT_EXCL flag (preventing further       *)
(* shared locks)": while one process wants the lock, no other gets one.    *)
WantStopsOthers ==
  [][\A p \in Procs :
       pc[p] = "excl" /\ pc'[p] = "excl"
         => \A q \in Procs : shares'[q] <= shares[q] /\ excls'[q] <= excls[q]]_vars

(* An exclusive request that has set LK_WANT_EXCL is granted once the      *)
(* shared locks are released, whoever else keeps asking; on an             *)
(* interruptible lock it is granted or fails.                              *)
WantGranted ==
  \A p \in Procs : pc[p] = "excl" ~> pc[p] = "idle" /\ (excls[p] > 0 \/ lk.prio = "PCATCH")
=============================================================================
