---------------------------- MODULE TimeoutProofs ----------------------------
(***************************************************************************)
(* Proofs about Timeout, for any set of timeouts, any width of the wheels  *)
(* and of int, and any intervals: the queues and ONQUEUE agree, and the    *)
(* timeouts implement Timers.                                              *)
(***************************************************************************)
EXTENDS Timeout, TLAPS

(* Every queue is a sequence of timeouts, and no pending timeout is later  *)
(* than the bound.                                                         *)
IInv ==
  /\ TypeOK
  /\ QueuedOnce
  /\ \A t \in Timeouts : pending(t) => distance(t) >= -MaxLate

(* Only softclock calls a function. *)
CallInv == running # NoTimeout => softclock = "call"

-----------------------------------------------------------------------------
(* int arithmetic: the result is an int, and subtracting the clock from a  *)
(* time computed by adding to it gives back what was added.                *)
LEMMA WrapType ==
  ASSUME NEW n \in Int, n >= -2 * (INT_MAX + 1), n <= 2 * INT_MAX + 1
  PROVE  Wrap(n) \in Ints
  BY WheelAssumption DEF Wrap, Ints

LEMMA WrapAdd ==
  ASSUME NEW n \in 0 .. INT_MAX, NEW c \in Ints
  PROVE  Wrap(n + c) \in Ints /\ Wrap(Wrap(n + c) - c) = n
  BY WheelAssumption DEF Wrap, Ints

(* A tick brings every time one closer, whether or not ticks wraps. *)
LEMMA WrapTick ==
  ASSUME NEW c \in Ints, NEW x \in Ints, Wrap(x - c) > -MaxLate
  PROVE  Wrap(c + 1) \in Ints /\ Wrap(x - Wrap(c + 1)) = Wrap(x - c) - 1
  BY WheelAssumption, ClockAssumption DEF Wrap, Ints

LEMMA WrapSub ==
  ASSUME NEW c \in Ints, NEW x \in Ints
  PROVE  Wrap(x - c) \in Ints
  BY WheelAssumption DEF Wrap, Ints

(* The intervals are never negative and fit in an int: timeout_add never   *)
(* panics on what the conversions give it.                                 *)
LEMMA DelayType == Delays \subseteq 0 .. INT_MAX
<1> SUFFICES ASSUME NEW s \in Secs, NEW u \in Usecs PROVE to_ticks(s, u) \in 0 .. INT_MAX
  BY DEF Delays
<1>1. s \in Nat /\ u \in Nat
  BY ClockAssumption
<1>2. hz * s \in Nat
  BY <1>1, ClockAssumption
<1>3. u \div tick \in Nat
  BY <1>1, ClockAssumption
<1> QED
  BY <1>2, <1>3, WheelAssumption DEF to_ticks

LEMMA MaskType ==
  ASSUME NEW w \in 0 .. 3, NEW x \in Ints
  PROVE  MASKWHEEL(w, x) \in 0 .. WHEELSIZE - 1
<1>1. 2^(w * WHEELBITS) \in Nat \ {0}
  BY WheelAssumption
<1> DEFINE d == 2^(w * WHEELBITS)
<1>2. x \in Int
  BY WheelAssumption DEF Ints
<1> HIDE DEF d
<1>3. x \div d \in Int
  BY <1>1, <1>2 DEF d
<1>4. (x \div d) % WHEELSIZE \in 0 .. WHEELSIZE - 1
  BY <1>3, WheelAssumption
<1> QED
  BY <1>4 DEF MASKWHEEL, d

LEMMA BucketType ==
  ASSUME NEW r \in Ints, NEW x \in Ints
  PROVE  BUCKET(r, x) \in Buckets
<1>1. wheel_of(r) \in 0 .. 3
  BY DEF wheel_of
<1> QED
  BY <1>1, MaskType DEF BUCKET, Buckets

-----------------------------------------------------------------------------
(* Queues are well formed when no timeout is on them twice. *)
Queued(q, t) == \E b \in Queues : \E i \in DOMAIN q[b] : q[b][i] = t

WellFormed(q) ==
  /\ q \in [Queues -> Seq(Timeouts)]
  /\ \A b, c \in Queues : \A i \in DOMAIN q[b], j \in DOMAIN q[c] :
       q[b][i] = q[c][j] => b = c /\ i = j

(* CIRCQ_INSERT links an element that is on no queue. *)
LEMMA InsertFacts ==
  ASSUME NEW q, WellFormed(q), NEW t \in Timeouts, ~Queued(q, t), NEW b \in Queues
  PROVE  /\ WellFormed(CIRCQ_INSERT(q, t, b))
         /\ \A u : Queued(CIRCQ_INSERT(q, t, b), u) <=> Queued(q, u) \/ u = t
<1> DEFINE r == CIRCQ_INSERT(q, t, b)
<1>1. r \in [Queues -> Seq(Timeouts)]
  BY DEF WellFormed, CIRCQ_INSERT
<1>2. /\ \A c \in Queues : c # b => r[c] = q[c]
      /\ r[b] = Append(q[b], t)
  BY DEF WellFormed, CIRCQ_INSERT
<1>3. /\ DOMAIN r[b] = 1 .. Len(q[b]) + 1
      /\ DOMAIN q[b] = 1 .. Len(q[b]) /\ Len(q[b]) \in Nat
      /\ r[b][Len(q[b]) + 1] = t
      /\ \A i \in 1 .. Len(q[b]) : r[b][i] = q[b][i]
  BY <1>2 DEF WellFormed
<1> HIDE DEF r
<1>4. ASSUME NEW c \in Queues, NEW i \in DOMAIN r[c]
      PROVE  \/ i \in DOMAIN q[c] /\ r[c][i] = q[c][i]
             \/ c = b /\ i = Len(q[b]) + 1 /\ r[c][i] = t
  <2>1. CASE c # b
    BY <1>2, <1>4, <2>1
  <2>2. CASE c = b
    <3>1. i \in 1 .. Len(q[b]) \/ i = Len(q[b]) + 1
      BY <1>3, <1>4, <2>2
    <3> QED BY <1>3, <2>2, <3>1
  <2> QED BY <2>1, <2>2
<1>5. ASSUME NEW c \in Queues, NEW i \in DOMAIN q[c]
      PROVE  i \in DOMAIN r[c] /\ r[c][i] = q[c][i]
  BY <1>2, <1>3
<1>6. WellFormed(r)
  <2>1. ASSUME NEW c \in Queues, NEW d \in Queues, NEW i \in DOMAIN r[c],
               NEW j \in DOMAIN r[d], r[c][i] = r[d][j]
        PROVE  c = d /\ i = j
    <3>1. CASE i \in DOMAIN q[c] /\ r[c][i] = q[c][i]
      <4>1. r[d][j] # t
        BY <2>1, <3>1 DEF Queued
      <4>2. j \in DOMAIN q[d] /\ q[c][i] = q[d][j]
        BY <2>1, <3>1, <4>1, <1>4
      <4> QED
        BY <3>1, <4>2 DEF WellFormed
    <3>2. CASE c = b /\ i = Len(q[b]) + 1 /\ r[c][i] = t
      <4>1. ~(j \in DOMAIN q[d] /\ r[d][j] = q[d][j])
        BY <2>1, <3>2 DEF Queued
      <4> QED
        BY <3>2, <4>1, <1>4
    <3> QED
      BY <3>1, <3>2, <1>4
  <2> QED
    BY <1>1, <2>1 DEF WellFormed
<1>7. ASSUME NEW u PROVE Queued(r, u) <=> Queued(q, u) \/ u = t
  BY <1>3, <1>4, <1>5 DEF Queued
<1> QED
  BY <1>6, <1>7 DEF r

(* CIRCQ_APPEND moves the elements of a bucket to the worklist. *)
LEMMA AppendFacts ==
  ASSUME NEW q, WellFormed(q), NEW b \in Buckets
  PROVE  /\ WellFormed(CIRCQ_APPEND(q, b))
         /\ \A u : Queued(CIRCQ_APPEND(q, b), u) <=> Queued(q, u)
<1> DEFINE r == CIRCQ_APPEND(q, b)
           n == Len(q[TODO])
<1>0. b \in Queues /\ TODO \in Queues /\ b # TODO
  BY DEF Queues, Buckets, TODO
<1>1. r \in [Queues -> Seq(Timeouts)]
  <2>1. q \in [Queues -> Seq(Timeouts)]
    BY DEF WellFormed
  <2>2. q[TODO] \o q[b] \in Seq(Timeouts) /\ <<>> \in Seq(Timeouts)
    BY <2>1, <1>0
  <2> QED
    BY <2>1, <2>2, <1>0 DEF CIRCQ_APPEND
<1>2. /\ \A c \in Queues : c # b /\ c # TODO => r[c] = q[c]
      /\ r[TODO] = q[TODO] \o q[b]
      /\ r[b] = <<>>
  <2>1. DOMAIN q = Queues
    BY DEF WellFormed
  <2> QED
    BY <1>0, <2>1 DEF CIRCQ_APPEND
<1>9. \A c, d \in Queues : \A i \in DOMAIN q[c], j \in DOMAIN q[d] :
        q[c][i] = q[d][j] => c = d /\ i = j
  BY DEF WellFormed
<1>3. /\ n \in Nat /\ DOMAIN q[TODO] = 1 .. n
      /\ Len(q[b]) \in Nat /\ DOMAIN q[b] = 1 .. Len(q[b])
      /\ DOMAIN r[TODO] = 1 .. n + Len(q[b])
      /\ DOMAIN r[b] = {}
      /\ \A i \in 1 .. n : r[TODO][i] = q[TODO][i]
      /\ \A i \in 1 .. Len(q[b]) : r[TODO][n + i] = q[b][i]
  BY <1>0, <1>2 DEF WellFormed
<1> HIDE DEF r, n
<1>4. ASSUME NEW c \in Queues, NEW i \in DOMAIN r[c]
      PROVE  \/ c # b /\ i \in DOMAIN q[c] /\ r[c][i] = q[c][i] /\ (c = TODO => i <= n)
             \/ /\ c = TODO /\ i > n /\ i - n \in DOMAIN q[b]
                /\ r[c][i] = q[b][i - n] /\ i \in Int
  <2>1. CASE c = TODO /\ i > n
    <3>1. i \in 1 .. n + Len(q[b])
      BY <1>3, <2>1
    <3>2. i - n \in 1 .. Len(q[b]) /\ n + (i - n) = i
      BY <3>1, <2>1, <1>3
    <3> QED
      BY <3>1, <3>2, <2>1, <1>3
  <2>2. CASE c = TODO /\ ~(i > n)
    BY <1>0, <1>3, <2>2
  <2>3. CASE c # TODO
    BY <1>2, <1>3, <2>3
  <2> QED
    BY <2>1, <2>2, <2>3
<1>5. ASSUME NEW c \in Queues, NEW i \in DOMAIN q[c]
      PROVE  \/ c # b /\ i \in DOMAIN r[c] /\ r[c][i] = q[c][i]
             \/ c = b /\ n + i \in DOMAIN r[TODO] /\ r[TODO][n + i] = q[b][i]
  <2>1. CASE c = b
    <3>1. i \in 1 .. Len(q[b])
      BY <2>1, <1>3
    <3>2. n + i \in 1 .. n + Len(q[b])
      BY <3>1, <1>3
    <3> QED
      BY <2>1, <3>1, <3>2, <1>3
  <2>2. CASE c = TODO
    <3>1. i \in 1 .. n /\ i \in 1 .. n + Len(q[b])
      BY <2>2, <1>3
    <3> QED
      BY <2>2, <3>1, <1>0, <1>3
  <2>3. CASE c # b /\ c # TODO
    BY <2>3, <1>2
  <2> QED
    BY <2>1, <2>2, <2>3
<1>6. ASSUME NEW c \in Queues, NEW d \in Queues, NEW i \in DOMAIN r[c],
             NEW j \in DOMAIN r[d], r[c][i] = r[d][j]
      PROVE  c = d /\ i = j
  <2>1. CASE c # b /\ i \in DOMAIN q[c] /\ r[c][i] = q[c][i] /\ (c = TODO => i <= n)
    <3>1. CASE d # b /\ j \in DOMAIN q[d] /\ r[d][j] = q[d][j] /\ (d = TODO => j <= n)
      <4>1. q[c][i] = q[d][j]
        BY <2>1, <3>1, <1>6
      <4> QED
        BY <4>1, <2>1, <3>1, <1>9
    <3>2. CASE /\ d = TODO /\ j > n /\ j - n \in DOMAIN q[b]
               /\ r[d][j] = q[b][j - n] /\ j \in Int
      <4>1. q[c][i] = q[b][j - n]
        BY <2>1, <3>2, <1>6
      <4>2. c = b
        BY <4>1, <2>1, <3>2, <1>0, <1>9
      <4> QED
        BY <4>2, <2>1
    <3> QED
      BY <3>1, <3>2, <1>4
  <2>2. CASE /\ c = TODO /\ i > n /\ i - n \in DOMAIN q[b]
             /\ r[c][i] = q[b][i - n] /\ i \in Int
    <3>1. CASE d # b /\ j \in DOMAIN q[d] /\ r[d][j] = q[d][j] /\ (d = TODO => j <= n)
      <4>1. q[b][i - n] = q[d][j]
        BY <2>2, <3>1, <1>6
      <4>2. b = d
        BY <4>1, <2>2, <3>1, <1>0, <1>9
      <4> QED
        BY <4>2, <3>1
    <3>2. CASE /\ d = TODO /\ j > n /\ j - n \in DOMAIN q[b]
               /\ r[d][j] = q[b][j - n] /\ j \in Int
      <4>1. i - n = j - n
        <5>1. q[b][i - n] = q[b][j - n]
          BY <2>2, <3>2, <1>6
        <5> QED
          BY <5>1, <2>2, <3>2, <1>0, <1>9
      <4> QED
        BY <4>1, <2>2, <3>2, <1>3
    <3> QED
      BY <3>1, <3>2, <1>4
  <2> QED
    BY <2>1, <2>2, <1>4
<1>7. WellFormed(r)
  BY <1>1, <1>6 DEF WellFormed
<1>8. ASSUME NEW u PROVE Queued(r, u) <=> Queued(q, u)
  <2>1. ASSUME Queued(r, u) PROVE Queued(q, u)
    BY <2>1, <1>0, <1>4 DEF Queued
  <2>2. ASSUME Queued(q, u) PROVE Queued(r, u)
    BY <2>2, <1>0, <1>5 DEF Queued
  <2> QED
    BY <2>1, <2>2
<1> QED
  BY <1>7, <1>8 DEF r
(* A tick of the clock moves timeouts between queues and loses none. *)
LEMMA MoveFacts ==
  ASSUME NEW q, WellFormed(q), NEW x \in Ints
  PROVE  /\ WellFormed(MOVEBUCKETS(q, x))
         /\ \A u : Queued(MOVEBUCKETS(q, x), u) <=> Queued(q, u)
<1>1. ASSUME NEW s, WellFormed(s), NEW w \in 0 .. 3
      PROVE  /\ WellFormed(MOVEBUCKET(s, w, x))
             /\ \A u : Queued(MOVEBUCKET(s, w, x), u) <=> Queued(s, u)
  <2>1. <<w, MASKWHEEL(w, x)>> \in Buckets
    BY MaskType DEF Buckets
  <2> QED
    BY <1>1, <2>1, AppendFacts DEF MOVEBUCKET
<1> DEFINE q0 == MOVEBUCKET(q, 0, x)
           q1 == MOVEBUCKET(q0, 1, x)
           q2 == MOVEBUCKET(q1, 2, x)
           q3 == MOVEBUCKET(q2, 3, x)
<1> HIDE DEF q0, q1, q2, q3
<1>2. WellFormed(q0) /\ \A u : Queued(q0, u) <=> Queued(q, u)
  BY <1>1 DEF q0
<1>3. WellFormed(q1) /\ \A u : Queued(q1, u) <=> Queued(q, u)
  BY <1>1, <1>2 DEF q1
<1>4. WellFormed(q2) /\ \A u : Queued(q2, u) <=> Queued(q, u)
  BY <1>1, <1>3 DEF q2
<1>5. WellFormed(q3) /\ \A u : Queued(q3, u) <=> Queued(q, u)
  BY <1>1, <1>4 DEF q3
<1>6. MOVEBUCKETS(q, x) = q3
  BY DEF MOVEBUCKETS, q0, q1, q2, q3
<1> QED
  BY <1>5, <1>6

(* Every element of a sequence without t is one of the sequence, in order; *)
(* index gives its place there.                                            *)
LEMMA WithoutFacts ==
  ASSUME NEW s \in Seq(Timeouts), NEW t,
         \A i, j \in DOMAIN s : s[i] = s[j] => i = j
  PROVE  /\ without(s, t) \in Seq(Timeouts)
         /\ \A u : (\E k \in DOMAIN without(s, t) : without(s, t)[k] = u)
                     <=> u # t /\ \E i \in DOMAIN s : s[i] = u
         /\ \A k, l \in DOMAIN without(s, t) :
              without(s, t)[k] = without(s, t)[l] => k = l
<1>1. CASE ~\E i \in DOMAIN s : s[i] = t
  <2>1. without(s, t) = s
    BY <1>1 DEF without
  <2> QED
    BY <1>1, <2>1
<1>2. CASE \E i \in DOMAIN s : s[i] = t
  <2> DEFINE m == CHOOSE i \in DOMAIN s : s[i] = t
             r == [j \in 1 .. Len(s) - 1 |-> IF j < m THEN s[j] ELSE s[j + 1]]
             n == Len(s)
  <2>1. m \in DOMAIN s /\ s[m] = t
    BY <1>2
  <2>2. without(s, t) = r
    BY <1>2 DEF without
  <2>3. n \in Nat /\ DOMAIN s = 1 .. n /\ \A i \in 1 .. n : s[i] \in Timeouts
    OBVIOUS
  <2>4. DOMAIN r = 1 .. n - 1
    OBVIOUS
  <2>5. \A j \in 1 .. n - 1 : r[j] = IF j < m THEN s[j] ELSE s[j + 1]
    OBVIOUS
  <2>6. m \in 1 .. n
    BY <2>1, <2>3
  <2> HIDE DEF m, n
  <2>7. r \in Seq(Timeouts)
    <3>1. \A j \in 1 .. n - 1 : r[j] \in Timeouts
      BY <2>3, <2>5, <2>6
    <3>2. n - 1 \in Nat
      BY <2>3, <2>6
    <3>3. r \in [1 .. n - 1 -> Timeouts]
      BY <3>1 DEF n
    <3> QED
      BY <3>2, <3>3
  <2> HIDE DEF r
  <2>8. ASSUME NEW k \in 1 .. n - 1
        PROVE  (k < m /\ r[k] = s[k]) \/ (k >= m /\ r[k] = s[k + 1])
    BY <2>5, <2>6, <2>3
  <2>9. ASSUME NEW k \in 1 .. n - 1 PROVE r[k] # t /\ \E i \in DOMAIN s : s[i] = r[k]
    BY <2>8, <2>1, <2>3, <2>6
  <2>10. ASSUME NEW i \in 1 .. n, s[i] # t PROVE \E k \in 1 .. n - 1 : r[k] = s[i]
    <3>1. i # m
      BY <2>1, <2>10
    <3>2. CASE i < m
      <4>1. i \in 1 .. n - 1 /\ r[i] = s[i]
        BY <3>2, <2>3, <2>5, <2>6
      <4> QED
        BY <4>1
    <3>3. CASE i > m
      <4>1. i - 1 \in 1 .. n - 1 /\ ~(i - 1 < m) /\ (i - 1) + 1 = i
        BY <3>3, <2>3, <2>6
      <4>2. r[i - 1] = s[i]
        BY <4>1, <2>5
      <4> QED
        BY <4>1, <4>2
    <3> QED
      BY <3>1, <3>2, <3>3, <2>3, <2>6
  <2>11. ASSUME NEW k \in 1 .. n - 1, NEW l \in 1 .. n - 1, r[k] = r[l] PROVE k = l
    <3>1. (k < m /\ s[k] = r[k]) \/ (k >= m /\ s[k + 1] = r[k])
      BY <2>8
    <3>2. (l < m /\ s[l] = r[l]) \/ (l >= m /\ s[l + 1] = r[l])
      BY <2>8
    <3>3. k \in DOMAIN s /\ k + 1 \in DOMAIN s /\ l \in DOMAIN s /\ l + 1 \in DOMAIN s
      BY <2>3, <2>6
    <3>4. CASE k < m /\ l < m
      BY <3>1, <3>2, <3>3, <3>4, <2>11, <2>6, <2>3
    <3>5. CASE k < m /\ l >= m
      <4>1. s[k] = s[l + 1]
        BY <3>1, <3>2, <3>5, <2>11, <2>6, <2>3
      <4>2. k = l + 1
        BY <4>1, <3>3
      <4> QED
        BY <4>2, <3>5, <2>3, <2>6
    <3>6. CASE k >= m /\ l < m
      <4>1. s[k + 1] = s[l]
        BY <3>1, <3>2, <3>6, <2>11, <2>6, <2>3
      <4>2. k + 1 = l
        BY <4>1, <3>3
      <4> QED
        BY <4>2, <3>6, <2>3, <2>6
    <3>7. CASE k >= m /\ l >= m
      <4>1. s[k + 1] = s[l + 1]
        BY <3>1, <3>2, <3>7, <2>11, <2>6, <2>3
      <4>2. k + 1 = l + 1
        BY <4>1, <3>3
      <4> QED
        BY <4>2
    <3> QED
      BY <3>4, <3>5, <3>6, <3>7, <2>3, <2>6
  <2>12. ASSUME NEW u
         PROVE  (\E k \in DOMAIN r : r[k] = u) <=> u # t /\ \E i \in DOMAIN s : s[i] = u
    <3>1. ASSUME NEW k \in DOMAIN r, r[k] = u PROVE u # t /\ \E i \in DOMAIN s : s[i] = u
      BY <3>1, <2>4, <2>9
    <3>2. ASSUME u # t, NEW i \in DOMAIN s, s[i] = u PROVE \E k \in DOMAIN r : r[k] = u
      BY <3>2, <2>3, <2>4, <2>10
    <3> QED
      BY <3>1, <3>2
  <2>13. \A k, l \in DOMAIN r : r[k] = r[l] => k = l
    BY <2>4, <2>11
  <2> QED
    BY <2>2, <2>7, <2>12, <2>13
<1> QED
  BY <1>1, <1>2

(* CIRCQ_REMOVE takes t off the queue it is on, and only t. *)
LEMMA RemoveFacts ==
  ASSUME NEW q, WellFormed(q), NEW t
  PROVE  /\ WellFormed(CIRCQ_REMOVE(q, t))
         /\ \A u : Queued(CIRCQ_REMOVE(q, t), u) <=> Queued(q, u) /\ u # t
<1> DEFINE r == CIRCQ_REMOVE(q, t)
<1>1. ASSUME NEW b \in Queues
      PROVE  /\ q[b] \in Seq(Timeouts)
             /\ \A i, j \in DOMAIN q[b] : q[b][i] = q[b][j] => i = j
  BY DEF WellFormed
<1>2. ASSUME NEW b \in Queues PROVE r[b] = without(q[b], t)
  BY DEF CIRCQ_REMOVE
<1>3. DOMAIN r = Queues /\ r = [b \in Queues |-> r[b]]
  BY DEF CIRCQ_REMOVE
<1> HIDE DEF r
<1>4. ASSUME NEW b \in Queues
      PROVE  /\ r[b] \in Seq(Timeouts)
             /\ \A u : (\E k \in DOMAIN r[b] : r[b][k] = u)
                         <=> u # t /\ \E i \in DOMAIN q[b] : q[b][i] = u
             /\ \A k, l \in DOMAIN r[b] : r[b][k] = r[b][l] => k = l
  <2> DEFINE s == q[b]
  <2>1. s \in Seq(Timeouts) /\ \A i, j \in DOMAIN s : s[i] = s[j] => i = j
    BY <1>1
  <2> HIDE DEF s
  <2>2. /\ without(s, t) \in Seq(Timeouts)
        /\ \A u : (\E k \in DOMAIN without(s, t) : without(s, t)[k] = u)
                    <=> u # t /\ \E i \in DOMAIN s : s[i] = u
        /\ \A k, l \in DOMAIN without(s, t) :
             without(s, t)[k] = without(s, t)[l] => k = l
    BY <2>1, WithoutFacts
  <2>3. r[b] = without(s, t)
    BY <1>2 DEF s
  <2> QED
    BY <2>2, <2>3 DEF s
<1>5. r \in [Queues -> Seq(Timeouts)]
  BY <1>3, <1>4
<1>6. ASSUME NEW b \in Queues, NEW c \in Queues, NEW i \in DOMAIN r[b],
             NEW j \in DOMAIN r[c], r[b][i] = r[c][j]
      PROVE  b = c /\ i = j
  <2>1. PICK k \in DOMAIN q[b] : q[b][k] = r[b][i]
    BY <1>4
  <2>2. PICK l \in DOMAIN q[c] : q[c][l] = r[c][j]
    BY <1>4
  <2>3. b = c
    <3>1. q[b][k] = q[c][l]
      BY <2>1, <2>2, <1>6
    <3> QED
      BY <3>1 DEF WellFormed
  <2> QED
    BY <2>3, <1>4, <1>6
<1>7. WellFormed(r)
  BY <1>5, <1>6 DEF WellFormed
<1>8. ASSUME NEW u PROVE Queued(r, u) <=> Queued(q, u) /\ u # t
  BY <1>4 DEF Queued
<1> QED
  BY <1>7, <1>8 DEF r

(* Taking the first element off the worklist. *)
LEMMA UnlinkFacts ==
  ASSUME NEW q, WellFormed(q), q[TODO] # <<>>
  PROVE  /\ Head(q[TODO]) \in Timeouts
         /\ Queued(q, Head(q[TODO]))
         /\ WellFormed([q EXCEPT ![TODO] = Tail(@)])
         /\ \A u : Queued([q EXCEPT ![TODO] = Tail(@)], u)
                     <=> Queued(q, u) /\ u # Head(q[TODO])
<1> DEFINE r == [q EXCEPT ![TODO] = Tail(@)]
           n == Len(q[TODO])
<1>0. TODO \in Queues /\ q \in [Queues -> Seq(Timeouts)] /\ q[TODO] \in Seq(Timeouts)
  BY DEF Queues, WellFormed
<1>9. \A c, d \in Queues : \A i \in DOMAIN q[c], j \in DOMAIN q[d] :
        q[c][i] = q[d][j] => c = d /\ i = j
  BY DEF WellFormed
<1>1. /\ Head(q[TODO]) = q[TODO][1] /\ q[TODO][1] \in Timeouts /\ 1 \in DOMAIN q[TODO]
      /\ n \in Nat \ {0} /\ DOMAIN q[TODO] = 1 .. n
  BY <1>0
<1>2. /\ \A c \in Queues : c # TODO => r[c] = q[c]
      /\ r[TODO] = Tail(q[TODO])
      /\ DOMAIN r = Queues
  BY <1>0
<1>3. /\ r[TODO] \in Seq(Timeouts) /\ DOMAIN r[TODO] = 1 .. n - 1
      /\ \A i \in 1 .. n - 1 : r[TODO][i] = q[TODO][i + 1]
  BY <1>0, <1>1, <1>2
<1>4. r \in [Queues -> Seq(Timeouts)]
  BY <1>0, <1>3
<1> HIDE DEF r, n
<1>5. ASSUME NEW c \in Queues, NEW i \in DOMAIN r[c]
      PROVE  \/ c # TODO /\ i \in DOMAIN q[c] /\ r[c][i] = q[c][i]
             \/ c = TODO /\ i \in 1 .. n - 1 /\ i + 1 \in DOMAIN q[c] /\ r[c][i] = q[c][i + 1]
  <2>1. CASE c # TODO
    BY <2>1, <1>2
  <2>2. CASE c = TODO
    <3>1. i \in 1 .. n - 1
      BY <2>2, <1>3
    <3>2. i + 1 \in 1 .. n
      BY <3>1, <1>1
    <3> QED
      BY <2>2, <3>1, <3>2, <1>1, <1>3
  <2> QED
    BY <2>1, <2>2
<1>6. ASSUME NEW c \in Queues, NEW d \in Queues, NEW i \in DOMAIN r[c],
             NEW j \in DOMAIN r[d], r[c][i] = r[d][j]
      PROVE  c = d /\ i = j
  <2>1. CASE c # TODO /\ d # TODO
    <3>1. q[c][i] = q[d][j] /\ i \in DOMAIN q[c] /\ j \in DOMAIN q[d]
      BY <2>1, <1>5, <1>6
    <3> QED
      BY <3>1, <1>9
  <2>2. CASE c = TODO /\ d # TODO
    <3>1. q[c][i + 1] = q[d][j] /\ i + 1 \in DOMAIN q[c] /\ j \in DOMAIN q[d]
      BY <2>2, <1>5, <1>6
    <3> QED
      BY <3>1, <2>2, <1>9
  <2>3. CASE c # TODO /\ d = TODO
    <3>1. q[c][i] = q[d][j + 1] /\ i \in DOMAIN q[c] /\ j + 1 \in DOMAIN q[d]
      BY <2>3, <1>5, <1>6
    <3> QED
      BY <3>1, <2>3, <1>9
  <2>4. CASE c = TODO /\ d = TODO
    <3>1. q[c][i + 1] = q[d][j + 1] /\ i + 1 \in DOMAIN q[c] /\ j + 1 \in DOMAIN q[d]
      BY <2>4, <1>5, <1>6
    <3>2. i + 1 = j + 1
      BY <3>1, <1>9
    <3> QED
      BY <3>2, <2>4, <1>5, <1>1
  <2> QED
    BY <2>1, <2>2, <2>3, <2>4
<1>7. WellFormed(r)
  BY <1>4, <1>6 DEF WellFormed
<1>8. ASSUME NEW u PROVE Queued(r, u) <=> Queued(q, u) /\ u # q[TODO][1]
  <2>1. ASSUME NEW c \in Queues, NEW i \in DOMAIN r[c]
        PROVE  Queued(q, r[c][i]) /\ r[c][i] # q[TODO][1]
    <3>1. CASE c # TODO
      BY <3>1, <1>0, <1>1, <1>5, <1>9 DEF Queued
    <3>2. CASE c = TODO
      <4>1. i \in 1 .. n - 1 /\ i + 1 \in DOMAIN q[c] /\ r[c][i] = q[c][i + 1]
        BY <3>2, <1>5
      <4>2. i + 1 # 1
        BY <4>1
      <4>3. q[TODO][i + 1] # q[TODO][1]
        BY <4>1, <4>2, <3>2, <1>0, <1>1, <1>9
      <4> QED
        BY <4>1, <4>3, <3>2, <1>0 DEF Queued
    <3> QED
      BY <3>1, <3>2
  <2>2. ASSUME NEW c \in Queues, NEW i \in DOMAIN q[c], q[c][i] # q[TODO][1]
        PROVE  Queued(r, q[c][i])
    <3>1. CASE c # TODO
      BY <3>1, <1>2 DEF Queued
    <3>2. CASE c = TODO
      <4>1. i \in 1 .. n /\ i # 1
        BY <3>2, <2>2, <1>1
      <4>2. i - 1 \in 1 .. n - 1 /\ (i - 1) + 1 = i
        BY <4>1, <1>1
      <4>3. r[TODO][i - 1] = q[c][i] /\ i - 1 \in DOMAIN r[TODO]
        BY <4>2, <3>2, <1>3
      <4> QED
        BY <4>3, <1>0 DEF Queued
    <3> QED
      BY <3>1, <3>2
  <2> QED
    BY <2>1, <2>2 DEF Queued
<1>10. Queued(q, q[TODO][1])
  BY <1>0, <1>1 DEF Queued
<1> QED
  BY <1>1, <1>7, <1>8, <1>10 DEF r
-----------------------------------------------------------------------------
(* The invariant, in terms of the lemmas above. *)
LEMMA InvFacts ==
  IInv <=> /\ TypeOK
           /\ WellFormed(circq)
           /\ \A t \in Timeouts : pending(t) <=> Queued(circq, t)
           /\ \A t \in Timeouts : pending(t) => distance(t) >= -MaxLate
BY DEF IInv, QueuedOnce, WellFormed, Queued, TypeOK

LEMMA InitInv == Init => IInv
<1> SUFFICES ASSUME Init PROVE IInv
  OBVIOUS
<1>1. TypeOK
  <2>1. 0 \in Ints
    BY WheelAssumption DEF Ints
  <2>2. circq \in [Queues -> Seq(Timeouts)]
    BY DEF Init
  <2> QED
    BY <2>1, <2>2 DEF Init, TypeOK
<1>2. \A b \in Queues : DOMAIN circq[b] = {}
  BY DEF Init
<1>3. \A t \in Timeouts : ~pending(t)
  BY DEF Init, pending
<1> QED
  BY <1>1, <1>2, <1>3 DEF IInv, QueuedOnce

(* What every step does to the timers; the steps of Timers follow. *)
Armed == {t \in Timeouts : pending(t)}
Left == [t \in Timeouts |-> IF pending(t) THEN distance(t) ELSE 0]

Stutters == Armed' = Armed /\ Left' = Left

LEMMA SetStep ==
  ASSUME IInv, NEW t \in Timeouts, timeout_set(t)
  PROVE  IInv' /\ Stutters
<1>1. TypeOK'
  BY DEF IInv, TypeOK, timeout_set, Flags
<1>2. /\ \A u \in Timeouts : pending(u)' <=> pending(u)
      /\ \A u \in Timeouts : distance(u)' = distance(u)
  BY DEF IInv, TypeOK, timeout_set, pending, distance, Wrap
<1>3. circq' = circq
  BY DEF timeout_set
<1>4. QueuedOnce'
  BY <1>2, <1>3 DEF IInv, QueuedOnce
<1> QED
  BY <1>1, <1>2, <1>4 DEF IInv, Stutters, Armed, Left

LEMMA AddStep ==
  ASSUME IInv, NEW t \in Timeouts, NEW n \in Delays, timeout_add(t, n)
  PROVE  /\ IInv'
         /\ Armed' = Armed \cup {t} /\ Left' = [Left EXCEPT ![t] = n]
<1> USE InvFacts
<1>1. n \in 0 .. INT_MAX /\ ticks \in Ints
  BY DelayType DEF TypeOK
<1>2. Wrap(n + ticks) \in Ints /\ Wrap(Wrap(n + ticks) - ticks) = n
  BY <1>1, WrapAdd
<1>3. /\ \A u \in Timeouts : pending(u)' <=> pending(u) \/ u = t
      /\ \A u \in Timeouts : u # t => distance(u)' = distance(u)
      /\ distance(t)' = n
  <2>1. to_flags \in [Timeouts -> SUBSET Flags] /\ to_time \in [Timeouts -> Ints]
    BY DEF TypeOK
  <2> QED
    BY <2>1, <1>2 DEF timeout_add, pending, distance
<1>4. WellFormed(circq') /\ \A u \in Timeouts : Queued(circq', u) <=> pending(u) \/ u = t
  <2>1. TODO \in Queues
    BY DEF Queues
  <2>2. CASE ~pending(t)
    <3>1. circq' = CIRCQ_INSERT(circq, t, TODO)
      BY <2>2 DEF timeout_add
    <3> QED
      BY <2>1, <2>2, <3>1, InsertFacts
  <2>3. CASE pending(t) /\ circq' = CIRCQ_INSERT(CIRCQ_REMOVE(circq, t), t, TODO)
    <3> DEFINE r == CIRCQ_REMOVE(circq, t)
    <3>1. WellFormed(r) /\ \A u : Queued(r, u) <=> Queued(circq, u) /\ u # t
      BY RemoveFacts
    <3> HIDE DEF r
    <3>2. /\ WellFormed(CIRCQ_INSERT(r, t, TODO))
          /\ \A u : Queued(CIRCQ_INSERT(r, t, TODO), u) <=> Queued(r, u) \/ u = t
      BY <2>1, <3>1, InsertFacts
    <3>3. circq' = CIRCQ_INSERT(r, t, TODO)
      BY <2>3 DEF r
    <3> QED
      BY <2>3, <3>1, <3>2, <3>3
  <2>4. CASE pending(t) /\ circq' = circq
    BY <2>4
  <2> QED
    BY <2>2, <2>3, <2>4 DEF timeout_add
<1>5. TypeOK'
  <2>1. circq' \in [Queues -> Seq(Timeouts)]
    BY <1>4 DEF WellFormed
  <2> QED
    BY <2>1, <1>2 DEF TypeOK, timeout_add, Flags
<1>6. \A u \in Timeouts : pending(u)' => distance(u)' >= -MaxLate
  BY <1>1, <1>3, ClockAssumption
<1>7. IInv'
  <2>1. \A u \in Timeouts : pending(u)' <=> Queued(circq', u)
    BY <1>3, <1>4
  <2>2. QueuedOnce'
    BY <2>1, <1>4 DEF QueuedOnce, WellFormed, Queued
  <2> QED
    BY <2>2, <1>5, <1>6 DEF IInv
<1>8. Armed' = Armed \cup {t}
  BY <1>3 DEF Armed
<1>9. Left' = [Left EXCEPT ![t] = n]
  BY <1>3 DEF Left
<1> QED
  BY <1>7, <1>8, <1>9
(* A step that leaves the clock alone and takes t off its queue. *)
LEMMA DisarmStep ==
  ASSUME IInv, TypeOK', NEW t \in Timeouts, WellFormed(circq'),
         \A u : Queued(circq', u) <=> Queued(circq, u) /\ u # t,
         \A u \in Timeouts : pending(u)' <=> pending(u) /\ u # t,
         UNCHANGED <<ticks, to_time>>
  PROVE  /\ IInv'
         /\ Armed' = Armed \ {t} /\ Left' = [Left EXCEPT ![t] = 0]
<1>1. \A u \in Timeouts : distance(u)' = distance(u)
  BY DEF distance, Wrap
<1>2. \A u \in Timeouts : pending(u)' <=> Queued(circq', u)
  BY InvFacts
<1>3. QueuedOnce'
  BY <1>2 DEF QueuedOnce, WellFormed, Queued
<1>4. IInv'
  BY <1>1, <1>3 DEF IInv
<1>5. Armed' = Armed \ {t}
  BY DEF Armed
<1>6. Left' = [Left EXCEPT ![t] = 0]
  BY <1>1 DEF Left
<1> QED
  BY <1>4, <1>5, <1>6

LEMMA DelStep ==
  ASSUME IInv, NEW t \in Timeouts, timeout_del(t)
  PROVE  /\ IInv'
         /\ Armed' = Armed \ {t} /\ Left' = [Left EXCEPT ![t] = 0]
<1>1. WellFormed(circq') /\ \A u : Queued(circq', u) <=> Queued(circq, u) /\ u # t
  <2>1. CASE pending(t)
    BY <2>1, InvFacts, RemoveFacts DEF timeout_del
  <2>2. CASE ~pending(t)
    BY <2>2, InvFacts DEF timeout_del
  <2> QED
    BY <2>1, <2>2
<1>2. \A u \in Timeouts : pending(u)' <=> pending(u) /\ u # t
  BY DEF IInv, TypeOK, timeout_del, pending
<1>3. TypeOK'
  <2>1. circq' \in [Queues -> Seq(Timeouts)]
    BY <1>1 DEF WellFormed
  <2> QED
    BY <2>1 DEF IInv, TypeOK, timeout_del, Flags
<1>4. UNCHANGED <<ticks, to_time>>
  BY DEF timeout_del
<1> QED
  BY <1>1, <1>2, <1>3, <1>4, DisarmStep

LEMMA TickStep ==
  ASSUME IInv, timeout_hardclock_update
  PROVE  /\ IInv'
         /\ \A t \in Timeouts : pending(t) => distance(t) > -MaxLate
         /\ Armed' = Armed
         /\ Left' = [t \in Timeouts |-> IF pending(t) THEN distance(t) - 1 ELSE 0]
<1> USE InvFacts
<1>1. ticks \in Ints /\ ticks' = Wrap(ticks + 1) /\ to_time' = to_time
  BY DEF TypeOK, timeout_hardclock_update
<1>2. ticks' \in Ints
  BY <1>1, WrapType, WheelAssumption DEF Ints
<1>3. WellFormed(circq') /\ \A u : Queued(circq', u) <=> Queued(circq, u)
  BY <1>2, MoveFacts DEF timeout_hardclock_update
<1>4. \A u \in Timeouts : pending(u)' <=> pending(u)
  BY DEF timeout_hardclock_update, pending
<1>5. \A u \in Timeouts : pending(u) => distance(u) > -MaxLate
  BY DEF timeout_hardclock_update
<1>6. ASSUME NEW u \in Timeouts, pending(u)
      PROVE  distance(u)' = distance(u) - 1 /\ distance(u) \in Int
  <2>1. to_time[u] \in Ints
    BY DEF TypeOK
  <2>2. Wrap(to_time[u] - ticks) > -MaxLate
    BY <1>5, <1>6 DEF distance
  <2>3. Wrap(to_time[u] - Wrap(ticks + 1)) = Wrap(to_time[u] - ticks) - 1
    BY <1>1, <2>1, <2>2, WrapTick
  <2>4. Wrap(to_time[u] - ticks) \in Ints
    BY <1>1, <2>1, WrapSub
  <2> QED
    BY <1>1, <2>3, <2>4, WheelAssumption DEF distance, Ints
<1>7. TypeOK'
  <2>1. circq' \in [Queues -> Seq(Timeouts)]
    BY <1>3 DEF WellFormed
  <2>2. softpend' \in BOOLEAN
    BY DEF TypeOK, timeout_hardclock_update
  <2> QED
    BY <2>1, <2>2, <1>2 DEF TypeOK, timeout_hardclock_update
<1>8. \A u \in Timeouts : pending(u)' => distance(u)' >= -MaxLate
  BY <1>4, <1>5, <1>6, ClockAssumption
<1>9. QueuedOnce'
  <2>1. \A u \in Timeouts : pending(u)' <=> Queued(circq', u)
    BY <1>3, <1>4
  <2> QED
    BY <2>1, <1>3 DEF QueuedOnce, WellFormed, Queued
<1>10. IInv'
  BY <1>7, <1>8, <1>9 DEF IInv
<1>11. Armed' = Armed
  BY <1>4 DEF Armed
<1>12. Left' = [t \in Timeouts |-> IF pending(t) THEN distance(t) - 1 ELSE 0]
  BY <1>4, <1>6 DEF Left
<1> QED
  BY <1>5, <1>10, <1>11, <1>12

LEMMA RebucketStep ==
  ASSUME IInv, SoftclockRebucket
  PROVE  IInv' /\ Stutters
<1> USE InvFacts
<1> DEFINE b == BUCKET(distance(first), to_time[first])
<1>1. /\ first \in Timeouts /\ Queued(circq, first)
      /\ WellFormed(unlinked)
      /\ \A u : Queued(unlinked, u) <=> Queued(circq, u) /\ u # first
  BY UnlinkFacts DEF first, unlinked, SoftclockRebucket
<1>2. b \in Queues
  <2>1. ticks \in Ints /\ to_time[first] \in Ints
    BY <1>1 DEF TypeOK
  <2>2. distance(first) \in Ints
    BY <2>1, WrapSub DEF distance
  <2> QED
    BY <2>1, <2>2, BucketType DEF Queues
<1>3. circq' = CIRCQ_INSERT(unlinked, first, b)
  BY DEF SoftclockRebucket
<1> HIDE DEF b
<1>4. WellFormed(circq') /\ \A u : Queued(circq', u) <=> Queued(circq, u)
  BY <1>1, <1>2, <1>3, InsertFacts
<1>5. \A u \in Timeouts : (pending(u)' <=> pending(u)) /\ distance(u)' = distance(u)
  BY DEF SoftclockRebucket, pending, distance, Wrap
<1>6. TypeOK'
  <2>1. circq' \in [Queues -> Seq(Timeouts)]
    BY <1>4 DEF WellFormed
  <2> QED
    BY <2>1 DEF TypeOK, SoftclockRebucket
<1>7. QueuedOnce'
  <2>1. \A u \in Timeouts : pending(u)' <=> Queued(circq', u)
    BY <1>4, <1>5
  <2> QED
    BY <2>1, <1>4 DEF QueuedOnce, WellFormed, Queued
<1>8. IInv'
  BY <1>5, <1>6, <1>7 DEF IInv
<1> QED
  BY <1>5, <1>8 DEF Stutters, Armed, Left

LEMMA FireStep ==
  ASSUME IInv, SoftclockFire
  PROVE  /\ IInv'
         /\ first \in Timeouts /\ pending(first) /\ distance(first) <= 0
         /\ Armed' = Armed \ {first} /\ Left' = [Left EXCEPT ![first] = 0]
<1>1. /\ first \in Timeouts /\ Queued(circq, first)
      /\ WellFormed(unlinked)
      /\ \A u : Queued(unlinked, u) <=> Queued(circq, u) /\ u # first
  BY InvFacts, UnlinkFacts DEF first, unlinked, SoftclockFire
<1>2. circq' = unlinked
  BY DEF SoftclockFire
<1>3. \A u \in Timeouts : pending(u)' <=> pending(u) /\ u # first
  BY <1>1 DEF IInv, TypeOK, SoftclockFire, pending
<1>4. TypeOK'
  <2>1. circq' \in [Queues -> Seq(Timeouts)]
    BY <1>1, <1>2 DEF WellFormed
  <2> QED
    BY <2>1, <1>1 DEF IInv, TypeOK, SoftclockFire, Flags
<1>5. UNCHANGED <<ticks, to_time>>
  BY DEF SoftclockFire
<1>6. pending(first) /\ distance(first) <= 0
  BY <1>1, InvFacts DEF SoftclockFire
<1> HIDE DEF first
<1> QED
  BY <1>1, <1>2, <1>3, <1>4, <1>5, <1>6, DisarmStep

(* Steps of softclock that touch neither the queues nor the timeouts. *)
LEMMA IdleStep ==
  ASSUME IInv,
         \/ SoftclockStart \/ SoftclockReturn \/ SoftclockDone
         \/ UNCHANGED vars
  PROVE  IInv' /\ Stutters
<1>1. UNCHANGED <<ticks, to_time, to_flags, circq>>
  BY DEF SoftclockStart, SoftclockReturn, SoftclockDone, vars
<1>2. TypeOK'
  BY DEF IInv, TypeOK, SoftclockStart, SoftclockReturn, SoftclockDone, vars
<1>3. \A u \in Timeouts : (pending(u)' <=> pending(u)) /\ distance(u)' = distance(u)
  BY <1>1 DEF pending, distance, Wrap
<1>4. QueuedOnce'
  BY <1>1, <1>3 DEF IInv, QueuedOnce
<1>5. IInv'
  BY <1>2, <1>3, <1>4 DEF IInv
<1> QED
  BY <1>3, <1>5 DEF Stutters, Armed, Left

-----------------------------------------------------------------------------
(* Every step keeps the invariant and is a step of Timers, or none. *)
LEMMA CallStep ==
  ASSUME CallInv, [Next]_vars
  PROVE  CallInv'
BY DEF CallInv, Next, vars, Softclock, timeout_set, TimeoutAdd, timeout_add,
       timeout_del, timeout_hardclock_update, SoftclockStart, SoftclockRebucket,
       SoftclockFire, SoftclockReturn, SoftclockDone

LEMMA NextStep ==
  ASSUME IInv, CallInv, [Next]_vars
  PROVE  IInv' /\ [T!Next]_(T!vars)
<1>0. ASSUME Stutters, running' = running PROVE UNCHANGED T!vars
  BY <1>0 DEF Stutters, Armed, Left, T!vars
<1>1. ASSUME NEW t \in Timeouts, timeout_set(t) PROVE IInv' /\ [T!Next]_(T!vars)
  <2>1. running' = running
    BY <1>1 DEF timeout_set
  <2> QED
    BY <1>1, <1>0, <2>1, SetStep
<1>2. ASSUME NEW t \in Timeouts, TimeoutAdd(t) PROVE IInv' /\ [T!Next]_(T!vars)
  <2>1. PICK n \in Delays : timeout_add(t, n)
    BY <1>2 DEF TimeoutAdd
  <2>2. IInv' /\ Armed' = Armed \cup {t} /\ Left' = [Left EXCEPT ![t] = n]
    BY <2>1, AddStep
  <2>3. T!Arm(t, n)
    <3>1. running' = running
      BY <2>1 DEF timeout_add
    <3> QED
      BY <2>2, <3>1 DEF T!Arm, Armed, Left
  <2> QED
    BY <2>2, <2>3 DEF T!Next
<1>3. ASSUME NEW t \in Timeouts, timeout_del(t) PROVE IInv' /\ [T!Next]_(T!vars)
  <2>1. IInv' /\ Armed' = Armed \ {t} /\ Left' = [Left EXCEPT ![t] = 0]
    BY <1>3, DelStep
  <2>2. T!Disarm(t)
    <3>1. running' = running
      BY <1>3 DEF timeout_del
    <3> QED
      BY <2>1, <3>1 DEF T!Disarm, T!Idle, Armed, Left
  <2> QED
    BY <2>1, <2>2 DEF T!Next
<1>4. ASSUME timeout_hardclock_update PROVE IInv' /\ [T!Next]_(T!vars)
  <2>1. /\ IInv'
        /\ \A t \in Timeouts : pending(t) => distance(t) > -MaxLate
        /\ Armed' = Armed
        /\ Left' = [t \in Timeouts |-> IF pending(t) THEN distance(t) - 1 ELSE 0]
    BY <1>4, TickStep
  <2>2. T!Tick
    <3>1. running' = running
      BY <1>4 DEF timeout_hardclock_update
    <3> QED
      BY <2>1, <3>1 DEF T!Tick, Armed, Left
  <2> QED
    BY <2>1, <2>2 DEF T!Next
<1>5. ASSUME SoftclockRebucket PROVE IInv' /\ [T!Next]_(T!vars)
  <2>1. running' = running
    BY <1>5 DEF SoftclockRebucket
  <2> QED
    BY <1>5, <1>0, <2>1, RebucketStep
<1>6. ASSUME SoftclockFire PROVE IInv' /\ [T!Next]_(T!vars)
  <2>1. /\ IInv'
        /\ first \in Timeouts /\ pending(first) /\ distance(first) <= 0
        /\ Armed' = Armed \ {first} /\ Left' = [Left EXCEPT ![first] = 0]
    BY <1>6, FireStep
  <2>2. running = NoTimeout /\ running' = first
    BY <1>6 DEF SoftclockFire, CallInv
  <2> HIDE DEF first
  <2>3. T!Fire(first)
    BY <2>1, <2>2 DEF T!Fire, T!Due, T!Idle, Armed, Left
  <2> QED
    BY <2>1, <2>3 DEF T!Next
<1>7. ASSUME SoftclockStart \/ SoftclockDone \/ UNCHANGED vars
      PROVE  IInv' /\ [T!Next]_(T!vars)
  <2>1. running' = running
    BY <1>7 DEF SoftclockStart, SoftclockDone, vars
  <2> QED
    BY <1>7, <1>0, <2>1, IdleStep
<1>8. ASSUME SoftclockReturn PROVE IInv' /\ [T!Next]_(T!vars)
  <2>1. IInv' /\ Stutters /\ running' = NoTimeout
    BY <1>8, IdleStep DEF SoftclockReturn
  <2>2. CASE running = NoTimeout
    BY <2>1, <2>2, <1>0
  <2>3. CASE running # NoTimeout
    <3>1. T!Return
      BY <2>1, <2>3 DEF T!Return, Stutters, Armed, Left
    <3> QED
      BY <2>1, <3>1 DEF T!Next
  <2> QED
    BY <2>2, <2>3
<1> QED
  BY <1>1, <1>2, <1>3, <1>4, <1>5, <1>6, <1>7, <1>8 DEF Next, Softclock

LEMMA Invariance == Spec => [](IInv /\ CallInv)
<1>1. Init => CallInv
  BY DEF Init, CallInv
<1>2. IInv /\ CallInv /\ [Next]_vars => IInv' /\ CallInv'
  BY NextStep, CallStep
<1> QED
  BY InitInv, <1>1, <1>2, PTL DEF Spec

(* The clock, the times and the flags keep their types; in particular      *)
(* ticks and to_time stay ints.                                            *)
THEOREM TypeCorrect == Spec => []TypeOK
<1>1. IInv => TypeOK
  BY DEF IInv
<1> QED
  BY Invariance, <1>1, PTL

(* However timeout_add, timeout_del, hardclock and softclock interleave,   *)
(* ONQUEUE says truly whether a timeout is linked, and it is linked once.  *)
THEOREM FlagsMatchQueues == Spec => []QueuedOnce
<1>1. IInv => QueuedOnce
  BY DEF IInv
<1> QED
  BY Invariance, <1>1, PTL

(* The timing wheels implement count-down timers: for any width of int, no *)
(* timeout's function is called before its delay has passed, and wrapping  *)
(* of ticks never changes how long a timeout has to wait.                  *)
THEOREM WheelsImplementTimers == Spec => TimersImplemented
<1>1. Init => T!Init
  BY DEF Init, T!Init, pending
<1>2. IInv /\ CallInv /\ [Next]_vars => [T!Next]_(T!vars)
  BY NextStep
<1> QED
  BY <1>1, <1>2, Invariance, PTL DEF Spec, TimersImplemented, T!Spec
==============================================================================
