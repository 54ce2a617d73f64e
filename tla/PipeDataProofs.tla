--------------------------- MODULE PipeDataProofs ---------------------------
(***************************************************************************)
(* The pipe's buffer.  Only the process with the lock moves the pointers,  *)
(* so the transfer it has worked out still fits when uiomove() is done;    *)
(* and where a transfer of n bytes fits, it continues the ring (Ring).     *)
(***************************************************************************)
EXTENDS PipeProofs

UioType == [resid : Nat, orig : Nat, space : Nat, size : Nat, seg : Nat]

(* The position x, counted on past the end of the buffer. *)
wrap(x) == IF x < size THEN x ELSE x - size

Ring ==
  /\ size \in {PIPE_SIZE, BIG_PIPE_SIZE} /\ cnt \in 0 .. size
  /\ in \in 0 .. size - 1 /\ out \in 0 .. size - 1
  /\ buffer \in [0 .. size - 1 -> Writers \cup {NoProc}]
  /\ in = wrap(out + cnt)
  /\ sent \in Seq(Writers) /\ Len(sent) = cnt
  /\ \A i \in 1 .. cnt : sent[i] = buffer[wrap(out + i - 1)]

Budget == nbigpipe = IF readable /\ size = BIG_PIPE_SIZE THEN 1 ELSE 0

(* What a transfer in progress may rely on: process p is at l with uio u.  *)
Fits(p, l, u) ==
  /\ l = "rcopy" => u.size <= cnt /\ u.size <= size - out /\ u.size <= u.resid
  /\ l \in {"wcopy", "wcopy2"} =>
       /\ u.size <= size - cnt /\ u.size <= u.resid
       /\ u.seg = IF u.size <= size - in THEN u.size ELSE size - in
  /\ l = "wcopy2" => u.seg < u.size /\ \A i \in in .. size - 1 : buffer[i] = p

(* A small write has its data in the buffer all or not at all, and once it *)
(* has found space it has found enough.                                    *)
Whole(p, l, u) ==
  p \in Writers /\ u.orig <= PIPE_BUF =>
    /\ l \in {"wbig", "wresize", "wloop", "wwait", "wsleep"} => u.resid \in {0, u.orig}
    /\ l \in {"wlock", "wlocked"} => u.resid = u.orig /\ u.orig <= u.space
    /\ l \in {"wcopy", "wcopy2"} => u.size = u.orig /\ u.resid = u.orig

DataInv ==
  /\ Ring /\ Budget /\ uio \in [Procs -> UioType] /\ selecting \subseteq {"in", "out"}
  /\ \A p \in Procs : Fits(p, pc[p], uio[p]) /\ Whole(p, pc[p], uio[p])

LEMMA ModSmall ==
  ASSUME NEW s \in Nat \ {0}, NEW n \in Nat, n < s + s
  PROVE  n % s = IF n < s THEN n ELSE n - s
BY Z3

LEMMA SizeFacts ==
  PIPE_SIZE \in Nat \ {0} /\ BIG_PIPE_SIZE \in Nat \ {0} /\ PIPE_SIZE < BIG_PIPE_SIZE
BY PipeAssumption

LEMMA MinOfTwo ==
  ASSUME NEW a \in Nat, NEW b \in Nat
  PROVE  Min({a, b}) = IF a <= b THEN a ELSE b
<1>1. \E x \in {a, b} : \A y \in {a, b} : x <= y
  OBVIOUS
<1>2. Min({a, b}) \in {a, b} /\ \A y \in {a, b} : Min({a, b}) <= y
  BY <1>1, Zenon DEF Min
<1> QED BY <1>2

LEMMA MinOfThree ==
  ASSUME NEW a \in Nat, NEW b \in Nat, NEW c \in Nat, NEW m, m = Min({a, b, c})
  PROVE  m \in Nat /\ m <= a /\ m <= b /\ m <= c
<1>1. \E x \in {a, b, c} : \A y \in {a, b, c} : x <= y
  OBVIOUS
<1>2. Min({a, b, c}) \in {a, b, c} /\ \A y \in {a, b, c} : Min({a, b, c}) <= y
  BY <1>1, Zenon DEF Min
<1> QED BY <1>2, Zenon

(* Process p goes on; the pointers stay, or p has the lock. *)
LEMMA DataKeeps ==
  ASSUME LockInv, DataInv, NEW p \in Procs,
         \A q \in Procs \ {p} : pc'[q] = pc[q] /\ uio'[q] = uio[q],
         uio' \in [Procs -> UioType], selecting' \subseteq {"in", "out"},
         Ring', Budget', Fits(p, pc[p], uio[p])', Whole(p, pc[p], uio[p])',
         pc[p] \in Holds \/ UNCHANGED <<buffer, in, out, cnt, size>>
  PROVE  DataInv'
<1> SUFFICES ASSUME NEW q \in Procs \ {p}
             PROVE  Fits(q, pc[q], uio[q])' /\ Whole(q, pc[q], uio[q])'
  BY Zenon DEF DataInv
<1>1. Fits(q, pc[q], uio[q]) /\ Whole(q, pc[q], uio[q])
  BY Zenon DEF DataInv
<1>2. Whole(q, pc[q], uio[q])'
  BY <1>1, Zenon DEF Whole
<1>3. CASE UNCHANGED <<buffer, in, out, cnt, size>>
  BY <1>1, <1>2, <1>3, Zenon DEF Fits
<1>4. CASE pc[p] \in Holds
  <2>1. pc[q] \notin Holds
    BY <1>4, Zenon DEF LockInv
  <2> QED BY <1>1, <1>2, <2>1, Zenon DEF Fits, Holds
<1> QED BY <1>3, <1>4, Zenon

(* The pointers and the buffer stay. *)
LEMMA RingStays ==
  ASSUME DataInv, UNCHANGED <<buffer, in, out, cnt, size, sent, nbigpipe>>, readable' = readable
  PROVE  Ring' /\ Budget'
BY Zenon DEF DataInv, Ring, Budget, wrap

(* A read takes n bytes, which do not go past the end of the buffer. *)
LEMMA RingRead ==
  ASSUME Ring, NEW n \in Nat, n <= cnt, n <= size - out,
         cnt' = cnt - n, out' = (IF cnt' = 0 \/ out + n >= size THEN 0 ELSE out + n),
         in' = (IF cnt' = 0 THEN 0 ELSE in), sent' = SubSeq(sent, n + 1, Len(sent)),
         buffer' = buffer, size' = size
  PROVE  Ring'
<1>1. /\ size \in Nat \ {0} /\ cnt \in 0 .. size /\ in \in 0 .. size - 1 /\ out \in 0 .. size - 1
      /\ sent \in Seq(Writers) /\ Len(sent) = cnt /\ in = wrap(out + cnt)
  BY SizeFacts, Zenon DEF Ring
<1>2. /\ sent' \in Seq(Writers) /\ Len(sent') = cnt - n
      /\ \A i \in 1 .. cnt - n : sent'[i] = sent[n + i]
  BY <1>1
<1>3. cnt' \in 0 .. size' /\ in' \in 0 .. size' - 1 /\ out' \in 0 .. size' - 1
  BY <1>1
<1>4. in' = wrap(out + cnt)'
  BY <1>1 DEF wrap
<1>5. ASSUME NEW i \in 1 .. cnt' PROVE sent'[i] = buffer'[wrap(out + i - 1)']
  <2>1. n + i \in 1 .. cnt /\ cnt' # 0
    BY <1>1
  <2>2. sent'[i] = buffer[wrap(out + (n + i) - 1)]
    BY <1>2, <2>1, Zenon DEF Ring
  <2>3. wrap(out + (n + i) - 1) = wrap(out + i - 1)'
    BY <1>1, <2>1 DEF wrap
  <2> QED BY <2>2, <2>3, Zenon
<1> QED BY <1>2, <1>3, <1>4, <1>5, Zenon DEF Ring

LEMMA SeqExtend ==
  ASSUME NEW S, NEW q \in Seq(S), NEW n \in Nat, NEW x \in S
  PROVE  LET w == q \o [i \in 1 .. n |-> x]
         IN  /\ w \in Seq(S) /\ Len(w) = Len(q) + n
             /\ \A i \in 1 .. Len(q) + n : w[i] = IF i <= Len(q) THEN q[i] ELSE x
OBVIOUS

(* A write of n bytes of p that fit, seg of them before the end. *)
LEMMA RingWrite ==
  ASSUME Ring, NEW p \in Writers, NEW n \in Nat, n <= size - cnt, NEW seg,
         seg = (IF n <= size - in THEN n ELSE size - in),
         buffer' \in [0 .. size - 1 -> Writers \cup {NoProc}],
         \A i \in 1 .. cnt : buffer'[wrap(out + i - 1)] = buffer[wrap(out + i - 1)],
         \A j \in 1 .. n : buffer'[wrap(in + j - 1)] = p,
         in' = advanced(n, seg), cnt' = cnt + n, sent' = sent \o [i \in 1 .. n |-> p],
         out' = out, size' = size
  PROVE  Ring'
<1>1. /\ size \in Nat \ {0} /\ cnt \in 0 .. size /\ in \in 0 .. size - 1 /\ out \in 0 .. size - 1
      /\ sent \in Seq(Writers) /\ Len(sent) = cnt /\ in = wrap(out + cnt)
  BY SizeFacts, Zenon DEF Ring
<1>2. /\ sent' \in Seq(Writers) /\ Len(sent') = cnt + n
      /\ \A i \in 1 .. cnt + n : sent'[i] = IF i <= cnt THEN sent[i] ELSE p
  <2> DEFINE w == sent \o [i \in 1 .. n |-> p]
  <2>1. sent \in Seq(Writers) /\ sent' = w
    BY <1>1, Zenon
  <2>2. /\ w \in Seq(Writers) /\ Len(w) = Len(sent) + n
        /\ \A i \in 1 .. Len(sent) + n : w[i] = IF i <= Len(sent) THEN sent[i] ELSE p
    BY <2>1, SeqExtend
  <2> HIDE DEF w
  <2> QED BY <1>1, <2>1, <2>2, Zenon
<1>3. in' = (IF in + n >= size THEN in + n - size ELSE in + n)
  BY <1>1 DEF advanced
<1>4. cnt' \in 0 .. size' /\ in' \in 0 .. size' - 1 /\ out' \in 0 .. size' - 1
  <2>1. n \in Nat /\ n <= size - cnt /\ cnt' = cnt + n /\ out' = out /\ size' = size
    OBVIOUS
  <2> QED BY ONLY <1>1, <1>3, <2>1
<1>5. in' = wrap(out + cnt)'
  BY <1>1, <1>3 DEF wrap
<1>6. ASSUME NEW i \in 1 .. cnt' PROVE sent'[i] = buffer'[wrap(out + i - 1)']
  <2>0. wrap(out + i - 1)' = wrap(out + i - 1)
    BY Zenon DEF wrap
  <2>1. CASE i <= cnt
    <3>1. i \in 1 .. cnt /\ sent'[i] = sent[i]
      BY <1>1, <1>2, <1>6, <2>1
    <3> QED BY <2>0, <3>1 DEF Ring
  <2>2. CASE i > cnt
    <3>1. i - cnt \in 1 .. n /\ sent'[i] = p
      BY <1>1, <1>2, <1>6, <2>2, SMTT(30)
    <3>2. wrap(in + (i - cnt) - 1) = wrap(out + i - 1)
      BY <1>1, <3>1 DEF wrap
    <3> QED BY <2>0, <3>1, <3>2, Zenon
  <2>3. i <= cnt \/ i > cnt
    BY ONLY <1>1, <1>6
  <2> QED BY <2>1, <2>2, <2>3, Zenon
<1>7. /\ size' \in {PIPE_SIZE, BIG_PIPE_SIZE}
      /\ buffer' \in [0 .. size' - 1 -> Writers \cup {NoProc}]
  BY Zenon DEF Ring
<1> QED BY <1>2, <1>4, <1>5, <1>6, <1>7 DEF Ring

(* Where the bytes to be read are, and where the bytes to be written go. *)
LEMMA LiveAndFree ==
  ASSUME Ring, NEW n \in Nat, n <= size - cnt
  PROVE  /\ \A i \in 1 .. cnt : /\ wrap(out + i - 1) \in 0 .. size - 1
                                /\ wrap(out + i - 1) \notin in .. in + n - 1
                                /\ in + n > size => wrap(out + i - 1) \notin 0 .. in + n - size - 1
         /\ \A j \in 1 .. n : wrap(in + j - 1) \in 0 .. size - 1
<1>1. /\ size \in Nat \ {0} /\ cnt \in 0 .. size /\ in \in 0 .. size - 1 /\ out \in 0 .. size - 1
      /\ in = wrap(out + cnt)
  BY SizeFacts, Zenon DEF Ring
<1> QED BY <1>1 DEF wrap
-----------------------------------------------------------------------------
(* Process p goes to b with uio u, and the buffer is left alone. *)
LEMMA FrameKeeps ==
  ASSUME LockInv, DataInv, NEW p \in Procs, NEW b, NEW u \in UioType,
         pc' = [pc EXCEPT ![p] = b], uio' = [uio EXCEPT ![p] = u],
         selecting' \subseteq {"in", "out"},
         UNCHANGED <<buffer, in, out, cnt, size, sent, nbigpipe>>, readable' = readable,
         Fits(p, b, u), Whole(p, b, u)
  PROVE  DataInv'
<1>1. /\ pc'[p] = b /\ uio'[p] = u /\ uio' \in [Procs -> UioType]
      /\ \A q \in Procs \ {p} : pc'[q] = pc[q] /\ uio'[q] = uio[q]
  BY Zenon DEF LockInv, DataInv
<1>2. Ring' /\ Budget'
  BY RingStays, Zenon
<1>3. Fits(p, pc[p], uio[p])' /\ Whole(p, pc[p], uio[p])'
  BY <1>1, Zenon DEF Fits, Whole
<1> QED BY <1>1, <1>2, <1>3, DataKeeps

(* The same, with the uio that p has, to a place where no transfer is on.  *)
LEMMA GotoKeeps ==
  ASSUME LockInv, DataInv, NEW p \in Procs, NEW b, b \notin {"rcopy", "wcopy", "wcopy2"},
         pc' = [pc EXCEPT ![p] = b], uio' = uio, selecting' \subseteq {"in", "out"},
         UNCHANGED <<buffer, in, out, cnt, size, sent, nbigpipe>>, readable' = readable,
         Whole(p, b, uio[p])
  PROVE  DataInv'
<1>1. uio[p] \in UioType /\ uio' = [uio EXCEPT ![p] = uio[p]]
  BY Zenon DEF DataInv
<1>2. Fits(p, b, uio[p])
  BY Zenon DEF Fits
<1> QED BY <1>1, <1>2, FrameKeeps, Zenon

(* Nobody moves, or only the closer does. *)
LEMMA StillKeeps ==
  ASSUME DataInv, UNCHANGED <<buffer, in, out, cnt, size, sent>>, uio' = uio, Budget',
         selecting' \subseteq {"in", "out"},
         \A p \in Procs : pc'[p] = pc[p] \/ pc'[p] \in {"idle", "closing"}
  PROVE  DataInv'
<1>1. Ring'
  BY Zenon DEF DataInv, Ring, wrap
<1>2. ASSUME NEW p \in Procs PROVE Fits(p, pc[p], uio[p])' /\ Whole(p, pc[p], uio[p])'
  <2>1. Fits(p, pc[p], uio[p]) /\ Whole(p, pc[p], uio[p])
    BY Zenon DEF DataInv
  <2>2. CASE pc'[p] = pc[p]
    BY <2>1, <2>2, Zenon DEF Fits, Whole
  <2>3. CASE pc'[p] \in {"idle", "closing"}
    BY <2>3, Zenon DEF Fits, Whole
  <2> QED BY <2>2, <2>3, Zenon
<1> QED BY <1>1, <1>2, Zenon DEF DataInv

LEMMA ReadData ==
  ASSUME LockInv, DataInv, NEW p \in Readers, read(p)
  PROVE  DataInv'
<1>p. p \in Procs /\ p \notin Writers
  BY ProcFacts, Zenon
<1>w. \A l, u : Whole(p, l, u)
  BY <1>p, Zenon DEF Whole
<1>d. /\ Ring /\ uio[p] \in UioType /\ selecting \subseteq {"in", "out"}
      /\ size \in Nat \ {0} /\ cnt \in 0 .. size /\ out \in 0 .. size - 1
      /\ Fits(p, pc[p], uio[p])
  BY <1>p, SizeFacts, Zenon DEF DataInv, Ring
<1>1. CASE pipe_read(p)
  <2>1. PICK n \in ReadSizes : uio' = [uio EXCEPT ![p] = [NoUio EXCEPT !.resid = n]]
    BY <1>1, Zenon DEF pipe_read
  <2> DEFINE u == [NoUio EXCEPT !.resid = n]
  <2>2. u \in UioType
    BY PipeAssumption, Zenon DEF NoUio, UioType
  <2> HIDE DEF u
  <2>3. Fits(p, "rlock0", u)
    BY Zenon DEF Fits
  <2>4. /\ pc' = [pc EXCEPT ![p] = "rlock0"] /\ uio' = [uio EXCEPT ![p] = u]
        /\ selecting' = selecting /\ readable' = readable
        /\ UNCHANGED <<buffer, in, out, cnt, size, sent, nbigpipe>>
    BY <1>1, <2>1, Zenon DEF pipe_read, Goto, pipevars, endvars, u
  <2> QED BY <1>p, <1>w, <1>d, <2>2, <2>3, <2>4, FrameKeeps, Zenon
<1>2. CASE ReadSome(p)
  <2> DEFINE n == Min({size - out, cnt, uio[p].resid})
             u == [uio[p] EXCEPT !.size = n]
  <2>1. size - out \in Nat /\ cnt \in Nat /\ uio[p].resid \in Nat
    BY <1>d DEF UioType
  <2>2. n \in Nat /\ n <= size - out /\ n <= cnt /\ n <= uio[p].resid
    <3>1. PICK a \in Nat : a = size - out
      BY <2>1, Zenon
    <3>2. PICK c \in Nat : c = uio[p].resid
      BY <2>1, Zenon
    <3>3. n = Min({a, cnt, c})
      BY <3>1, <3>2, Zenon
    <3> HIDE DEF n
    <3> QED BY <2>1, <3>1, <3>2, <3>3, MinOfThree
  <2>3. /\ pc' = [pc EXCEPT ![p] = "rcopy"] /\ uio' = [uio EXCEPT ![p] = u]
        /\ selecting' = selecting /\ readable' = readable
        /\ UNCHANGED <<buffer, in, out, cnt, size, sent, nbigpipe>>
    BY <1>2, Zenon DEF ReadSome, Goto, pipevars, endvars
  <2> HIDE DEF n
  <2>4. u \in UioType /\ u.size = n /\ u.resid = uio[p].resid
    BY <1>d, <2>2, Zenon DEF UioType
  <2> HIDE DEF u
  <2>5. Fits(p, "rcopy", u)
    BY <2>2, <2>4, Zenon DEF Fits
  <2> QED BY <1>p, <1>w, <1>d, <2>3, <2>4, <2>5, FrameKeeps, Zenon
<1>3. CASE ReadCopied(p)
  <2> DEFINE n == uio[p].size
             u == [NoUio EXCEPT !.resid = uio[p].resid - n, !.orig = uio[p].orig + n]
  <2>1. /\ n \in Nat /\ n <= cnt /\ n <= size - out /\ n <= uio[p].resid
        /\ uio[p].resid \in Nat /\ pc[p] = "rcopy"
    BY <1>3, <1>d, Zenon DEF ReadCopied, Fits, UioType
  <2>2. u \in UioType
    <3>1. uio[p].resid - n \in Nat /\ uio[p].orig + n \in Nat
      BY <1>d, <2>1 DEF UioType
    <3> HIDE DEF n
    <3> QED BY <3>1, Zenon DEF UioType, NoUio
  <2>u. uio' = [uio EXCEPT ![p] = u]
    BY <1>3, <1>p, Zenon DEF ReadCopied, DataInv
  <2> HIDE DEF u
  <2>3. /\ pc' = [pc EXCEPT ![p] = "rloop"] /\ uio' = [uio EXCEPT ![p] = u]
        /\ selecting' = selecting /\ readable' = readable /\ nbigpipe' = nbigpipe
        /\ cnt' = cnt - n /\ out' = (IF cnt' = 0 \/ out + n >= size THEN 0 ELSE out + n)
        /\ in' = (IF cnt' = 0 THEN 0 ELSE in) /\ sent' = SubSeq(sent, n + 1, Len(sent))
        /\ buffer' = buffer /\ size' = size
    BY <1>3, <2>u, Zenon DEF ReadCopied, Goto, endvars
  <2> HIDE DEF n
  <2>4. Ring'
    BY <1>d, <2>1, <2>3, RingRead
  <2>5. Budget'
    BY <2>3, Zenon DEF DataInv, Budget
  <2>6. /\ pc'[p] = "rloop" /\ uio' \in [Procs -> UioType]
        /\ \A q \in Procs \ {p} : pc'[q] = pc[q] /\ uio'[q] = uio[q]
    BY <1>p, <2>2, <2>3, Zenon DEF LockInv, DataInv
  <2>7. Fits(p, pc[p], uio[p])' /\ Whole(p, pc[p], uio[p])'
    BY <1>p, <2>6, Zenon DEF Fits, Whole
  <2> QED BY <1>p, <1>d, <2>1, <2>3, <2>4, <2>5, <2>6, <2>7, DataKeeps DEF Holds
<1>4. CASE ReadSel(p)
  <2>1. selecting' \subseteq {"in", "out"}
    BY <1>4, <1>d, Zenon DEF ReadSel, pipeselwakeup
  <2> QED BY <1>4, <1>p, <1>w, <2>1, GotoKeeps, Zenon DEF ReadSel, Goto, nobuf, endvars
<1>5. ASSUME NEW b, b \notin {"rcopy", "wcopy", "wcopy2", "wbig", "wresize"},
             pc' = [pc EXCEPT ![p] = b], uio' = uio, selecting' = selecting,
             UNCHANGED <<buffer, in, out, cnt, size, sent, nbigpipe>>, readable' = readable
      PROVE  DataInv'
  BY <1>p, <1>w, <1>d, <1>5, GotoKeeps, Zenon
<1>6. CASE ReadFault(p) \/ ReadEnough(p) \/ ReadAgain(p)
  BY <1>5, <1>6, Zenon DEF ReadFault, ReadEnough, ReadAgain, Goto, pipevars, endvars
<1>7. CASE ReadEmpty(p) \/ ReadWait(p) \/ ReadDone(p) \/ ReadOut(p)
  BY <1>5, <1>7, Zenon DEF ReadEmpty, ReadWait, ReadDone, ReadOut, Goto, nobuf, endvars
<1> QED BY <1>1, <1>2, <1>3, <1>4, <1>6, <1>7 DEF read

(* The buffer with n bytes of p stored from position at. *)
LEMMA StoredFacts ==
  ASSUME Ring, NEW p \in Writers, NEW at \in Nat, NEW n \in Nat
  PROVE  /\ stored(p, at, n) \in [0 .. size - 1 -> Writers \cup {NoProc}]
         /\ \A i \in 0 .. size - 1 :
              stored(p, at, n)[i] = IF i \in at .. at + n - 1 THEN p ELSE buffer[i]
<1>1. DOMAIN buffer = 0 .. size - 1
  BY Zenon DEF Ring
<1> QED BY <1>1, Zenon DEF stored, Ring

(* The first part of a write that wraps fills the buffer up to its end. *)
LEMMA CopiedData ==
  ASSUME LockInv, DataInv, NEW p \in Writers, WriteCopied(p)
  PROVE  DataInv'
<1>1. /\ p \in Procs /\ Ring /\ uio[p] \in UioType /\ selecting \subseteq {"in", "out"}
      /\ size \in Nat \ {0} /\ cnt \in 0 .. size /\ in \in 0 .. size - 1
      /\ Fits(p, pc[p], uio[p]) /\ Whole(p, pc[p], uio[p])
  BY ProcFacts, SizeFacts, Zenon DEF DataInv, Ring
<1> DEFINE n == uio[p].size
           seg == uio[p].seg
<1>2. /\ pc[p] = "wcopy" /\ seg < n /\ buffer' = stored(p, in, seg)
      /\ pc' = [pc EXCEPT ![p] = "wcopy2"] /\ uio' = uio
      /\ selecting' = selecting /\ readable' = readable
      /\ UNCHANGED <<in, out, cnt, size, sent, nbigpipe>>
  BY Zenon DEF WriteCopied, Goto, endvars
<1>3. n \in Nat /\ seg \in Nat /\ n <= size - cnt /\ n <= uio[p].resid /\ seg = size - in
  <2>1. n \in Nat /\ seg \in Nat
    BY <1>1, Zenon DEF UioType
  <2>2. n <= size - cnt /\ n <= uio[p].resid /\ seg = IF n <= size - in THEN n ELSE size - in
    BY <1>1, <1>2, Zenon DEF Fits
  <2>3. size \in Nat /\ in \in 0 .. size - 1 /\ seg < n
    BY <1>1, <1>2, Zenon
  <2> HIDE DEF n, seg
  <2> QED BY ONLY <2>1, <2>2, <2>3
<1> HIDE DEF n, seg
<1>4. /\ buffer' \in [0 .. size - 1 -> Writers \cup {NoProc}]
      /\ \A i \in 0 .. size - 1 : buffer'[i] = IF i \in in .. in + seg - 1 THEN p ELSE buffer[i]
  <2>1. Ring /\ in \in Nat /\ seg \in Nat
    BY <1>1, <1>3
  <2>2. /\ stored(p, in, seg) \in [0 .. size - 1 -> Writers \cup {NoProc}]
        /\ \A i \in 0 .. size - 1 :
             stored(p, in, seg)[i] = IF i \in in .. in + seg - 1 THEN p ELSE buffer[i]
    BY ONLY <2>1, StoredFacts, p \in Writers, Zenon
  <2> QED BY ONLY <1>2, <2>2, Zenon
<1>5. Ring'
  <2>1. ASSUME NEW i \in 1 .. cnt
        PROVE  buffer'[wrap(out + i - 1)] = buffer[wrap(out + i - 1)]
    <3>1. wrap(out + i - 1) \in 0 .. size - 1 /\ wrap(out + i - 1) \notin in .. in + n - 1
      BY <1>1, <1>3, LiveAndFree, Zenon
    <3>2. wrap(out + i - 1) \notin in .. in + seg - 1
      BY <1>1, <1>2, <1>3, <3>1
    <3> QED BY <1>4, <3>1, <3>2
  <2>2. \A i \in 1 .. cnt : wrap(out + i - 1)' = wrap(out + i - 1)
    BY <1>2, Zenon DEF wrap
  <2>3. in' = wrap(out + cnt)'
    BY <1>1, <1>2, Zenon DEF Ring, wrap
  <2> QED BY <1>1, <1>2, <1>4, <2>1, <2>2, <2>3, Zenon DEF Ring
<1>6. Budget'
  BY <1>2, Zenon DEF DataInv, Budget
<1>7. /\ pc'[p] = "wcopy2" /\ uio' \in [Procs -> UioType]
      /\ \A q \in Procs \ {p} : pc'[q] = pc[q] /\ uio'[q] = uio[q]
  BY <1>1, <1>2, Zenon DEF LockInv, DataInv
<1>8. \A i \in in' .. size' - 1 : buffer'[i] = p
  <2>1. /\ size \in Nat /\ in \in 0 .. size - 1 /\ seg = size - in
        /\ in' = in /\ size' = size
    BY <1>1, <1>2, <1>3
  <2> QED BY ONLY <1>4, <2>1
<1>9. Fits(p, pc[p], uio[p])'
  BY <1>1, <1>2, <1>7, <1>8 DEF Fits, n, seg
<1>10. Whole(p, pc[p], uio[p])'
  BY <1>1, <1>2, <1>7, Zenon DEF Whole
<1> QED BY <1>1, <1>2, <1>5, <1>6, <1>7, <1>9, <1>10, DataKeeps DEF Holds

(* The last part, and the move of the pointers. *)
LEMMA CommitData ==
  ASSUME LockInv, DataInv, NEW p \in Writers, WriteCommit(p)
  PROVE  DataInv'
<1>1. /\ p \in Procs /\ Ring /\ uio[p] \in UioType /\ selecting \subseteq {"in", "out"}
      /\ size \in Nat \ {0} /\ cnt \in 0 .. size /\ in \in 0 .. size - 1
      /\ Fits(p, pc[p], uio[p]) /\ Whole(p, pc[p], uio[p])
  BY ProcFacts, SizeFacts, Zenon DEF DataInv, Ring
<1> DEFINE n == uio[p].size
           seg == uio[p].seg
           u == [NoUio EXCEPT !.resid = uio[p].resid - n, !.orig = uio[p].orig]
<1>2. /\ pc[p] \in {"wcopy", "wcopy2"} /\ pc' = [pc EXCEPT ![p] = "wloop"]
      /\ uio' = [uio EXCEPT ![p] = u]
      /\ selecting' = selecting /\ readable' = readable
      /\ in' = advanced(n, seg) /\ cnt' = cnt + n /\ sent' = sent \o [i \in 1 .. n |-> p]
      /\ UNCHANGED <<out, size, nbigpipe>>
  BY Zenon DEF WriteCommit, Goto, endvars
<1>3. /\ n \in Nat /\ seg \in Nat /\ n <= size - cnt /\ n <= uio[p].resid
      /\ seg = IF n <= size - in THEN n ELSE size - in
      /\ uio[p].resid \in Nat /\ uio[p].orig \in Nat
  BY <1>1, <1>2 DEF Fits, UioType
<1>4. u \in UioType /\ u.resid = uio[p].resid - n /\ u.orig = uio[p].orig
  <2>1. uio[p].resid - n \in Nat
    BY <1>3
  <2> HIDE DEF n
  <2> QED BY <1>3, <2>1, Zenon DEF UioType, NoUio
<1> HIDE DEF u
<1>5. /\ buffer' \in [0 .. size - 1 -> Writers \cup {NoProc}]
      /\ \A i \in 1 .. cnt : buffer'[wrap(out + i - 1)] = buffer[wrap(out + i - 1)]
      /\ \A j \in 1 .. n : buffer'[wrap(in + j - 1)] = p
  <2>1. CASE pc[p] = "wcopy"
    <3>1. seg = n /\ buffer' = stored(p, in, n)
      BY <2>1 DEF WriteCommit
    <3> HIDE DEF n, seg
    <3>2. /\ buffer' \in [0 .. size - 1 -> Writers \cup {NoProc}]
          /\ \A i \in 0 .. size - 1 : buffer'[i] = IF i \in in .. in + n - 1 THEN p ELSE buffer[i]
      <4>1. Ring /\ in \in Nat /\ n \in Nat
        BY <1>1, <1>3
      <4>2. /\ stored(p, in, n) \in [0 .. size - 1 -> Writers \cup {NoProc}]
            /\ \A i \in 0 .. size - 1 :
                 stored(p, in, n)[i] = IF i \in in .. in + n - 1 THEN p ELSE buffer[i]
        BY ONLY <4>1, StoredFacts, p \in Writers
      <4> QED BY ONLY <3>1, <4>2, Zenon
    <3>3. \A i \in 1 .. cnt : wrap(out + i - 1) \in (0 .. size - 1) \ (in .. in + n - 1)
      BY <1>1, <1>3, LiveAndFree
    <3>4. \A j \in 1 .. n : wrap(in + j - 1) \in 0 .. size - 1 /\ wrap(in + j - 1) \in in .. in + n - 1
      BY <1>1, <1>3, <3>1 DEF wrap
    <3> QED BY <3>2, <3>3, <3>4, Zenon
  <2>2. CASE pc[p] = "wcopy2"
    <3>1. /\ buffer' = stored(p, 0, n - seg) /\ seg < n /\ seg = size - in
          /\ \A i \in in .. size - 1 : buffer[i] = p
      BY <1>1, <1>3, <2>2 DEF WriteCommit, Fits
    <3> HIDE DEF n, seg
    <3>2. n - seg \in Nat /\ n - seg = in + n - size /\ in + n > size
      BY <1>1, <1>3, <3>1
    <3>3. /\ buffer' \in [0 .. size - 1 -> Writers \cup {NoProc}]
          /\ \A i \in 0 .. size - 1 :
               buffer'[i] = IF i \in 0 .. 0 + (n - seg) - 1 THEN p ELSE buffer[i]
      <4>1. Ring /\ 0 \in Nat /\ n - seg \in Nat
        BY <1>1, <3>2
      <4>2. /\ stored(p, 0, n - seg) \in [0 .. size - 1 -> Writers \cup {NoProc}]
            /\ \A i \in 0 .. size - 1 :
                 stored(p, 0, n - seg)[i] = IF i \in 0 .. 0 + (n - seg) - 1 THEN p ELSE buffer[i]
        BY ONLY <4>1, StoredFacts, p \in Writers
      <4> QED BY ONLY <3>1, <4>2
    <3>4. \A i \in 0 .. size - 1 : buffer'[i] = IF i \in 0 .. in + n - size - 1 THEN p ELSE buffer[i]
      <4>1. 0 + (n - seg) - 1 = in + n - size - 1
        BY <1>1, <1>3, <3>2
      <4> QED BY ONLY <3>3, <4>1, Zenon
    <3>5. \A i \in 1 .. cnt : wrap(out + i - 1) \in (0 .. size - 1) \ (0 .. in + n - size - 1)
      BY <1>1, <1>3, <3>2, LiveAndFree, Zenon
    <3>6. \A j \in 1 .. n : /\ wrap(in + j - 1) \in 0 .. size - 1
                            /\ wrap(in + j - 1) \in (in .. size - 1) \cup (0 .. in + n - size - 1)
      BY <1>1, <1>3, <3>2 DEF wrap
    <3> QED BY <3>1, <3>3, <3>4, <3>5, <3>6
  <2> QED BY <1>2, <2>1, <2>2
<1>6. Ring'
  <2> HIDE DEF n, seg
  <2> QED BY <1>1, <1>2, <1>3, <1>5, RingWrite, Zenon
<1>7. Budget'
  BY <1>2, Zenon DEF DataInv, Budget
<1>8. /\ pc'[p] = "wloop" /\ uio'[p] = u /\ uio' \in [Procs -> UioType]
      /\ \A q \in Procs \ {p} : pc'[q] = pc[q] /\ uio'[q] = uio[q]
  BY <1>1, <1>2, <1>4 DEF LockInv, DataInv
<1>9. Fits(p, pc[p], uio[p])'
  BY <1>8, Zenon DEF Fits
<1>10. Whole(p, pc[p], uio[p])'
  <2>1. uio[p].orig <= PIPE_BUF => uio[p].resid - n = 0
    BY <1>1, <1>2, <1>3 DEF Whole
  <2> QED BY <1>4, <1>8, <2>1 DEF Whole
<1> QED BY <1>1, <1>2, <1>6, <1>7, <1>8, <1>9, <1>10, DataKeeps DEF Holds

LEMMA WriteData ==
  ASSUME LockInv, DataInv, NEW p \in Writers, write(p)
  PROVE  DataInv'
<1>p. p \in Procs /\ PIPE_BUF \in Nat
  BY ProcFacts, PipeAssumption, Zenon
<1>d. /\ Ring /\ Budget /\ uio[p] \in UioType /\ selecting \subseteq {"in", "out"}
      /\ size \in Nat \ {0} /\ cnt \in 0 .. size /\ in \in 0 .. size - 1
      /\ Fits(p, pc[p], uio[p]) /\ Whole(p, pc[p], uio[p])
  BY <1>p, SizeFacts, Zenon DEF DataInv, Ring
<1>n. /\ uio[p].resid \in Nat /\ uio[p].orig \in Nat /\ uio[p].space \in Nat
      /\ uio[p].size \in Nat /\ uio[p].seg \in Nat
  BY <1>d, Zenon DEF UioType
<1>5. ASSUME NEW b, b \notin {"rcopy", "wcopy", "wcopy2", "wbig", "wresize"},
             pc' = [pc EXCEPT ![p] = b], uio' = uio, selecting' \subseteq {"in", "out"},
             UNCHANGED <<buffer, in, out, cnt, size, sent, nbigpipe>>, readable' = readable,
             b \in {"wloop", "wwait", "wsleep", "wlock", "wlocked"} =>
               b \in {"wloop", "wwait", "wsleep"} /\ pc[p] \in {"wloop", "wwait", "wsleep"}
      PROVE  DataInv'
  <2>1. Whole(p, b, uio[p])
    BY <1>d, <1>5, Zenon DEF Whole
  <2> QED BY <1>p, <1>5, <2>1, GotoKeeps, Zenon
<1>1. CASE pipe_write(p)
  <2>1. PICK n \in WriteSizes, others \in BigElsewhere :
          /\ uio' = [uio EXCEPT ![p] = [NoUio EXCEPT !.resid = n, !.orig = n]]
          /\ Goto(p, IF resizes(n, others) THEN "wbig" ELSE "wloop")
    BY <1>1, Zenon DEF pipe_write
  <2> DEFINE u == [NoUio EXCEPT !.resid = n, !.orig = n]
             b == IF resizes(n, others) THEN "wbig" ELSE "wloop"
  <2>2. u \in UioType /\ u.resid = u.orig
    BY PipeAssumption, Zenon DEF NoUio, UioType
  <2>3. Fits(p, b, u)
    BY Zenon DEF Fits
  <2>4. Whole(p, b, u)
    BY <2>2, Zenon DEF Whole
  <2>5. /\ pc' = [pc EXCEPT ![p] = b] /\ uio' = [uio EXCEPT ![p] = u]
        /\ selecting' = selecting /\ readable' = readable
        /\ UNCHANGED <<buffer, in, out, cnt, size, sent, nbigpipe>>
    BY <1>1, <2>1, Zenon DEF pipe_write, Goto, nobuf, endvars
  <2> HIDE DEF u, b
  <2> QED BY <1>p, <1>d, <2>2, <2>3, <2>4, <2>5, FrameKeeps, Zenon
<1>2. CASE WriteResize(p)
  <2>1. /\ pc[p] = "wresize" /\ pc' = [pc EXCEPT ![p] = "wloop"] /\ uio' = uio
        /\ selecting' = selecting /\ readable' = readable
    BY <1>2, Zenon DEF WriteResize, At, Goto
  <2>2. readable
    BY <1>p, <2>1 DEF LockInv, Counted, InWrite
  <2>3. Ring' /\ Budget'
    <3>1. CASE UNCHANGED <<buffer, in, out, cnt, size, nbigpipe, sent>>
      BY <2>1, <3>1, RingStays
    <3>2. CASE pipespace /\ sent' = <<>>
      <4>1. Ring'
        BY <3>2, SizeFacts DEF pipespace, Ring, wrap
      <4>2. Budget'
        BY <1>d, <2>1, <2>2, <3>2, SizeFacts DEF pipespace, Budget, Ring
      <4> QED BY <4>1, <4>2, Zenon
    <3> QED BY <1>2, <3>1, <3>2 DEF WriteResize
  <2>4. /\ pc'[p] = "wloop" /\ uio'[p] = uio[p] /\ uio' \in [Procs -> UioType]
        /\ \A q \in Procs \ {p} : pc'[q] = pc[q] /\ uio'[q] = uio[q]
    BY <1>p, <2>1 DEF LockInv, DataInv
  <2>5. Fits(p, pc[p], uio[p])' /\ Whole(p, pc[p], uio[p])'
    BY <1>d, <2>1, <2>4, Zenon DEF Fits, Whole
  <2> QED BY <1>p, <1>d, <2>1, <2>3, <2>4, <2>5, DataKeeps DEF Holds
<1>3. CASE WriteSome(p)
  <2> DEFINE u == [uio[p] EXCEPT !.space = space(p)]
  <2>1. /\ pc[p] = "wloop" /\ pc' = [pc EXCEPT ![p] = "wlock"]
        /\ uio' = [uio EXCEPT ![p] = u] /\ uio[p].resid > 0 /\ space(p) > 0
        /\ selecting' = selecting /\ readable' = readable
        /\ UNCHANGED <<buffer, in, out, cnt, size, sent, nbigpipe>>
    BY <1>3, Zenon DEF WriteSome, At, Goto, pipevars, endvars
  <2>2. space(p) \in Nat /\ (uio[p].orig <= PIPE_BUF => uio[p].resid <= space(p))
    BY <1>d, <1>n, <2>1 DEF space
  <2>3. /\ u \in UioType /\ u.resid = uio[p].resid /\ u.orig = uio[p].orig
        /\ u.space = space(p)
    BY <1>d, <2>2, Zenon DEF UioType
  <2> HIDE DEF u
  <2>4. Fits(p, "wlock", u)
    BY Zenon DEF Fits
  <2>5. Whole(p, "wlock", u)
    <3>1. uio[p].orig <= PIPE_BUF =>
            uio[p].resid = uio[p].orig /\ uio[p].orig <= space(p)
      BY <1>d, <1>n, <2>1, <2>2 DEF Whole
    <3> QED BY ONLY <2>3, <3>1, Zenon DEF Whole
  <2> QED BY <1>p, <1>d, <2>1, <2>3, <2>4, <2>5, FrameKeeps, Zenon
<1>4. CASE WriteLocked(p)
  <2>1. /\ pc[p] = "wlocked" /\ selecting' = selecting /\ readable' = readable
        /\ UNCHANGED <<buffer, in, out, cnt, size, sent, nbigpipe>>
    BY <1>4, Zenon DEF WriteLocked, At, nobuf, endvars
  <2>2. CASE uio[p].space > size - cnt
    <3> DEFINE u == [uio[p] EXCEPT !.space = 0]
    <3>1. pc' = [pc EXCEPT ![p] = "wloop"] /\ uio' = [uio EXCEPT ![p] = u]
      BY <1>4, <2>2, Zenon DEF WriteLocked, Goto
    <3>2. u \in UioType /\ u.resid = uio[p].resid /\ u.orig = uio[p].orig
      BY <1>d, Zenon DEF UioType
    <3> HIDE DEF u
    <3>3. Fits(p, "wloop", u) /\ Whole(p, "wloop", u)
      BY <1>d, <2>1, <3>2, Zenon DEF Fits, Whole
    <3> QED BY <1>p, <1>d, <2>1, <3>1, <3>2, <3>3, FrameKeeps, Zenon
  <2>3. CASE ~(uio[p].space > size - cnt)
    <3> DEFINE n == Min({uio[p].space, uio[p].resid})
               seg == Min({size - in, n})
               u == [uio[p] EXCEPT !.size = n, !.seg = seg]
    <3>1. pc' = [pc EXCEPT ![p] = "wcopy"] /\ uio' = [uio EXCEPT ![p] = u]
      BY <1>4, <1>p, <2>3, Zenon DEF WriteLocked, Goto, DataInv
    <3>2. n = IF uio[p].space <= uio[p].resid THEN uio[p].space ELSE uio[p].resid
      BY <1>n, MinOfTwo, Zenon
    <3>3. n \in Nat /\ n <= size - cnt /\ n <= uio[p].resid
      BY <1>d, <1>n, <2>3, <3>2
    <3> HIDE DEF n
    <3>4. seg = (IF n <= size - in THEN n ELSE size - in) /\ seg \in Nat
      <4>1. PICK a \in Nat : a = size - in
        BY <1>d
      <4>2. seg = IF a <= n THEN a ELSE n
        BY <3>3, <4>1, MinOfTwo
      <4> QED BY <3>3, <4>1, <4>2
    <3> HIDE DEF seg
    <3>5. /\ u \in UioType /\ u.resid = uio[p].resid /\ u.orig = uio[p].orig
          /\ u.size = n /\ u.seg = seg
      BY <1>d, <3>3, <3>4, Zenon DEF UioType
    <3> HIDE DEF u
    <3>6. Fits(p, "wcopy", u)
      BY <3>3, <3>4, <3>5 DEF Fits
    <3>7. Whole(p, "wcopy", u)
      <4>1. p \in Writers /\ uio[p].orig <= PIPE_BUF =>
              uio[p].resid = uio[p].orig /\ uio[p].orig <= uio[p].space
        BY <1>d, <2>1, Zenon DEF Whole
      <4>2. p \in Writers /\ uio[p].orig <= PIPE_BUF => n = uio[p].orig
        BY ONLY <1>n, <3>2, <4>1
      <4> QED BY ONLY <3>5, <4>1, <4>2 DEF Whole
    <3> QED BY <1>p, <1>d, <2>1, <3>1, <3>5, <3>6, <3>7, FrameKeeps, Zenon
  <2> QED BY <2>2, <2>3
<1>6. CASE WriteCopied(p) \/ WriteCommit(p)
  BY <1>6, CopiedData, CommitData
<1>7. CASE WriteError(p) \/ WriteEnough(p) \/ WriteFault(p) \/ WriteAgain(p) \/ WriteOut(p)
  BY <1>5, <1>7, <1>d, Zenon
  DEF WriteError, WriteEnough, WriteFault, WriteAgain, WriteOut, At, Goto, nobuf, pipevars, endvars
<1>8. CASE WriteFull(p) \/ WriteWait(p)
  BY <1>5, <1>8, <1>d, Zenon DEF WriteFull, WriteWait, At, Goto, nobuf, endvars
<1>9. CASE WriteSel(p)
  <2>1. selecting' \subseteq {"in", "out"}
    BY <1>9, <1>d, Zenon DEF WriteSel, pipeselwakeup
  <2> QED BY <1>5, <1>9, <2>1, Zenon DEF WriteSel, Goto, nobuf, endvars
<1> QED BY <1>1, <1>2, <1>3, <1>4, <1>6, <1>7, <1>8, <1>9 DEF write

LEMMA OtherData ==
  ASSUME LockInv, DataInv, NEW p \in Procs,
         \/ Resume(p) \/ pipelock(p) \/ Return(p) \/ Interrupt(p)
         \/ p = Closer /\ (CloseWait \/ pipeclose \/ ClosePeer)
         \/ \E e \in {"in", "out"} : pipe_poll(e)
  PROVE  DataInv'
<1>d. /\ uio[p] \in UioType /\ selecting \subseteq {"in", "out"} /\ Closer \in Procs
      /\ Fits(p, pc[p], uio[p]) /\ Whole(p, pc[p], uio[p])
      /\ Legal(p, pc[p]) /\ pc \in [Procs -> ReadPcs \cup WritePcs \cup {"closing"}]
  BY ProcFacts, Zenon DEF DataInv, LockInv
<1>s. ASSUME pc' = pc \/ pc' = [pc EXCEPT ![Closer] = "closing"], uio' = uio,
             UNCHANGED <<buffer, in, out, cnt, size, sent, nbigpipe>>, readable' = readable,
             selecting' \subseteq {"in", "out"}
      PROVE  DataInv'
  <2>1. Budget'
    BY <1>s, RingStays
  <2>2. \A q \in Procs : pc'[q] = pc[q] \/ pc'[q] \in {"idle", "closing"}
    BY <1>s, <1>d, Zenon
  <2> QED BY <1>s, <2>1, <2>2, StillKeeps
<1>1. CASE Resume(p)
  BY <1>1, <1>d, <1>s DEF Resume, pipevars, endvars
<1>2. CASE pipelock(p)
  <2>1. /\ uio' = uio /\ selecting' = selecting /\ readable' = readable /\ pc[p] \in Locking
        /\ UNCHANGED <<buffer, in, out, cnt, size, sent, nbigpipe>>
    BY <1>2, Zenon DEF pipelock, nobuf, endvars
  <2>2. CASE "LOCK" \in pipe_state
    BY <1>2, <1>d, <1>s, <2>1, <2>2 DEF pipelock
  <2>3. CASE "LOCK" \notin pipe_state
    <3>1. pc' = [pc EXCEPT ![p] = locked(pc[p])]
      BY <1>2, <2>3, Zenon DEF pipelock, Goto
    <3>2. /\ locked(pc[p]) \in {"rloop", "wresize", "wlocked"}
          /\ locked(pc[p]) = "wresize" => pc[p] = "wbig"
          /\ locked(pc[p]) = "wlocked" => pc[p] = "wlock"
      BY <2>1, Zenon DEF locked, Locking
    <3>3. Whole(p, locked(pc[p]), uio[p])
      BY <1>d, <3>2, Zenon DEF Whole
    <3> QED BY <1>d, <2>1, <3>1, <3>2, <3>3, GotoKeeps, Zenon
  <2> QED BY <2>2, <2>3, Zenon
<1>3. CASE Return(p)
  <2>1. /\ pc' = [pc EXCEPT ![p] = "idle"] /\ uio' = [uio EXCEPT ![p] = NoUio]
        /\ selecting' = selecting /\ readable' = readable
        /\ UNCHANGED <<buffer, in, out, cnt, size, sent, nbigpipe>>
    BY <1>3, Zenon DEF Return, Goto, pipevars, endvars
  <2>2. NoUio \in UioType
    BY Zenon DEF NoUio, UioType
  <2>3. Fits(p, "idle", NoUio) /\ Whole(p, "idle", NoUio)
    BY Zenon DEF Fits, Whole
  <2> QED BY <1>d, <2>1, <2>2, <2>3, FrameKeeps, Zenon
<1>4. CASE Interrupt(p)
  <2>1. /\ pc' = [pc EXCEPT ![p] = interrupted(pc[p])] /\ uio' = uio
        /\ selecting' = selecting /\ readable' = readable /\ p \in asleep /\ p # Closer
        /\ UNCHANGED <<buffer, in, out, cnt, size, sent, nbigpipe>>
    BY <1>4, Zenon DEF Interrupt, Goto, pipevars, endvars
  <2>2. pc[p] \in Sleepable \ {"closing"}
    BY <1>d, <2>1 DEF LockInv, Legal, ReadPcs, WritePcs, Procs
  <2>3. interrupted(pc[p]) \in {"return", "rout", "werror", "wout"}
    BY <2>2, Zenon DEF interrupted, Sleepable, Locking
  <2>4. Whole(p, interrupted(pc[p]), uio[p])
    BY <2>3, Zenon DEF Whole
  <2> QED BY <1>d, <2>1, <2>3, <2>4, GotoKeeps, Zenon
<1>5. CASE p = Closer /\ CloseWait
  BY <1>5, <1>d, <1>s, Zenon DEF CloseWait, nobuf, endvars
<1>6. CASE pipeclose
  BY <1>6, <1>s, Zenon DEF pipeclose, Goto, nobuf, endvars
<1>7. CASE ClosePeer
  <2>1. selecting' \subseteq {"in", "out"}
    BY <1>7, <1>d, Zenon DEF ClosePeer
  <2> QED BY <1>7, <1>s, <2>1, Zenon DEF ClosePeer, nobuf
<1>8. CASE \E e \in {"in", "out"} : pipe_poll(e)
  BY <1>8, <1>d, <1>s DEF pipe_poll, endvars
<1> QED BY <1>1, <1>2, <1>3, <1>4, <1>5, <1>6, <1>7, <1>8

(* The pipe is freed: a big buffer is given back. *)
LEMMA FreeData ==
  ASSUME LockInv, DataInv, CloseFree
  PROVE  DataInv'
<1>1. /\ pc[Closer] = "closing" /\ readable' = FALSE /\ uio' = uio /\ selecting' = selecting
      /\ pc' = [pc EXCEPT ![Closer] = "idle"]
      /\ nbigpipe' = (IF size > PIPE_SIZE THEN nbigpipe - 1 ELSE nbigpipe)
      /\ UNCHANGED <<buffer, in, out, cnt, size, sent>>
  BY Zenon DEF CloseFree, At, Goto
<1>2. Closer \in Procs /\ "closing" # "idle"
  BY ProcFacts, Zenon
<1>3. readable
  BY <1>1, <1>2, Zenon DEF LockInv
<1>4. Budget'
  <2>1. size \in {PIPE_SIZE, BIG_PIPE_SIZE}
    BY Zenon DEF DataInv, Ring
  <2>2. nbigpipe = IF size = BIG_PIPE_SIZE THEN 1 ELSE 0
    BY <1>3, Zenon DEF DataInv, Budget
  <2>3. nbigpipe' = 0
    BY ONLY <1>1, <2>1, <2>2, SizeFacts
  <2> QED BY ONLY <1>1, <2>1, <2>3 DEF Budget
<1>5. \A q \in Procs : pc'[q] = pc[q] \/ pc'[q] \in {"idle", "closing"}
  BY <1>1, <1>2, Zenon DEF LockInv
<1>6. selecting' \subseteq {"in", "out"}
  BY <1>1, Zenon DEF DataInv
<1> QED BY <1>1, <1>4, <1>5, <1>6, StillKeeps

LEMMA DataInvInit == Init => DataInv
<1> SUFFICES ASSUME Init PROVE DataInv
  OBVIOUS
<1>1. Ring
  BY SizeFacts DEF Init, Ring, wrap
<1>2. Budget
  BY SizeFacts DEF Init, Budget
<1>3. uio \in [Procs -> UioType]
  BY Zenon DEF Init, UioType, NoUio
<1>4. \A p \in Procs : pc[p] = "idle"
  BY Zenon DEF Init
<1>5. \A p \in Procs : Fits(p, pc[p], uio[p]) /\ Whole(p, pc[p], uio[p])
  BY <1>4, Zenon DEF Fits, Whole
<1> QED BY <1>1, <1>2, <1>3, <1>5 DEF Init, DataInv

LEMMA DataInvNext ==
  ASSUME LockInv, DataInv, [Next]_vars
  PROVE  DataInv'
<1>1. CASE UNCHANGED vars
  <2>1. Budget'
    BY <1>1, RingStays, Zenon DEF vars, pipevars, endvars
  <2>2. selecting' \subseteq {"in", "out"}
    BY <1>1, Zenon DEF vars, DataInv
  <2> QED BY <1>1, <2>1, <2>2, StillKeeps DEF vars, pipevars
<1>2. ASSUME NEW p \in Procs, Step(p) \/ Interrupt(p) PROVE DataInv'
  BY <1>2, ReadData, WriteData, OtherData, FreeData DEF Step
<1>3. CASE pipeclose \/ ClosePeer \/ \E e \in {"in", "out"} : pipe_poll(e)
  <2>1. Closer \in Procs
    BY ProcFacts, Zenon
  <2> QED BY <1>3, <2>1, OtherData
<1> QED BY <1>1, <1>2, <1>3 DEF Next

-----------------------------------------------------------------------------
LEMMA InvTypes == LockInv /\ Counting /\ DataInv => TypeOK
<1> SUFFICES ASSUME LockInv, Counting, DataInv PROVE TypeOK
  OBVIOUS
<1>1. pipe_busy \in Nat
  BY UsersFinite, Zenon DEF Counting
<1>2. nbigpipe \in Nat
  BY DEF DataInv, Budget
<1> QED BY <1>1, <1>2, Zenon DEF LockInv, DataInv, Ring, UioType, TypeOK

LEMMA SizesSane == LockInv /\ Counting /\ DataInv => Sane
<1> SUFFICES ASSUME LockInv, Counting, DataInv PROVE Sane
  OBVIOUS
<1>1. TypeOK
  BY InvTypes, Zenon
<1>2. ASSUME NEW p \in Writers, pc[p] = "wloop", uio[p].orig <= PIPE_BUF
      PROVE  uio[p].resid <= PIPE_BUF
  <2>1. p \in Procs /\ Whole(p, pc[p], uio[p])
    BY ProcFacts, Zenon DEF DataInv
  <2>2. uio[p].resid \in {0, uio[p].orig}
    BY <1>2, <2>1, Zenon DEF Whole
  <2> QED BY <1>2, <2>2, PipeAssumption
<1> QED BY <1>1, <1>2 DEF Sane

(* All of it together is inductive. *)
LEMMA Invariance == Spec => [](LockInv /\ Counting /\ DataInv /\ Waits)
<1> DEFINE Inv == LockInv /\ Counting /\ DataInv /\ Waits
<1>1. Init => Inv
  BY LockInvInit, CountingInit, DataInvInit, WaitsInit
<1>2. Inv /\ [Next]_vars => Inv'
  BY CountingCounts, LockInvNext, CountingNext, DataInvNext, SizesSane, WaitsNext
<1> QED BY <1>1, <1>2, PTL DEF Spec

(* The pointers stay inside the buffer, whatever transfers are under way,  *)
(* and the counters do not go below 0.                                     *)
THEOREM TypeCorrect == Spec => []TypeOK
BY Invariance, InvTypes, PTL

(* A pipe is counted in nbigpipe once while it has a big buffer, however   *)
(* many writers found it small and resized it, and no longer once it is    *)
(* freed; whatever other pipes add to nbigpipe meanwhile.                  *)
THEOREM CountedOnce == Spec => []BigPipesCounted
<1>1. DataInv => BigPipesCounted
  BY SizeFacts DEF DataInv, Ring, Budget, BigPipesCounted
<1> QED BY <1>1, Invariance, PTL

(* Whatever the sizes of the buffers and of the transfers, and however     *)
(* many processes block in uiomove(), the circular buffer is the queue of  *)
(* the bytes written and not yet read.                                     *)
THEOREM Fifo == Spec => []BufferIsFifo
<1>1. DataInv => BufferIsFifo
  <2> SUFFICES ASSUME DataInv
               PROVE  sent = [i \in 1 .. cnt |-> buffer[(out + i - 1) % size]]
    BY Zenon DEF BufferIsFifo
  <2>1. /\ size \in Nat \ {0} /\ cnt \in 0 .. size /\ out \in 0 .. size - 1
        /\ sent \in Seq(Writers) /\ Len(sent) = cnt
        /\ \A i \in 1 .. cnt : sent[i] = buffer[wrap(out + i - 1)]
    BY SizeFacts, Zenon DEF DataInv, Ring
  <2>2. ASSUME NEW i \in 1 .. cnt PROVE wrap(out + i - 1) = (out + i - 1) % size
    <3>1. PICK x \in Nat : x = out + i - 1
      BY <2>1
    <3>2. x < size + size
      BY <2>1, <3>1
    <3> QED BY <2>1, <3>1, <3>2, ModSmall, Zenon DEF wrap
  <2>3. sent = [i \in 1 .. cnt |-> sent[i]]
    BY <2>1
  <2> QED BY <2>1, <2>2, <2>3, Zenon
<1> QED BY <1>1, Invariance, PTL

(* A write of at most PIPE_BUF bytes is one transfer, although the space   *)
(* it needs was looked up before it had the lock.                          *)
THEOREM SmallWrites == Spec => []SmallWritesAtomic
<1>1. DataInv => SmallWritesAtomic
  BY ProcFacts, Zenon DEF DataInv, Whole, SmallWritesAtomic
<1> QED BY <1>1, Invariance, PTL

(* However many readers and writers there are: no sleeper waits for what   *)
(* is there already, readers and writers do not wait for each other, and   *)
(* pipeclose() does not wait for calls that nobody wakes.                  *)
THEOREM NobodyStranded == Spec => []NoStandoff
<1>1. LockInv /\ Counting /\ DataInv /\ Waits => NoStandoff
  BY CountingCounts, InvTypes, WaitsSuffice, Zenon
<1> QED BY <1>1, Invariance, PTL
=============================================================================
