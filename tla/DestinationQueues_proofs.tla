----------------------- MODULE DestinationQueues_proofs -----------------------
(****************************************************************************)
(* Proofs about DestinationQueues.  QueueInv says how the numbers and       *)
(* counters of one queue go together; the rest of the inductive invariant   *)
(* IInv says where the indications are that were handed out, and who holds  *)
(* the lock of the table.                                                   *)
(****************************************************************************)
EXTENDS DestinationQueues, SequenceTheorems, FiniteSetTheorems, TLAPS

-----------------------------------------------------------------------------
(* A queue in order.                                                        *)

\* Numbers are given out in order and never used again: what was delivered
\* (acked) comes before what is handed out, which comes before what waits, and
\* the next number comes after all.
Ordered(waiting, handed, acked, next) ==
    /\ \A j, k \in 1..Len(waiting) : j < k => waiting[j].seq < waiting[k].seq
    /\ \A j \in 1..Len(waiting) :
           /\ waiting[j].seq < next
           /\ handed # <<>> => handed[1].seq < waiting[j].seq
    /\ handed # <<>> => handed[1].seq < next
    /\ \A n \in acked :
           /\ n < next
           /\ handed # <<>> => n < handed[1].seq
           /\ \A j \in 1..Len(waiting) : n < waiting[j].seq

Total(acked, handed, waiting, full, expired, exceeded, unsubscribed) ==
    acked + handed + waiting + full + expired + exceeded + unsubscribed

Accounted(q) ==
    q.next = Total(Cardinality(q.acked), Len(q.handed), Len(q.waiting),
                   q.full, q.expired, q.exceeded, q.unsubscribed)

Limited(q) == Len(q.waiting) <= q.max /\ q.max <= MaxQueueSize

QueueInv(q) ==
    /\ q \in DestinationQueue
    /\ IsFiniteSet(q.acked)
    /\ Len(q.handed) <= 1
    /\ q.status = "pending" <=> q.handed # <<>>
    /\ Ordered(q.waiting, q.handed, q.acked, q.next)
    /\ Accounted(q)
    /\ Limited(q)

\* The limits are natural numbers.
LEMMA Limits ==
    /\ RetryInterval \in Nat /\ RetryInterval > 0
    /\ LifetimeFactor \in Nat
    /\ MinQueueSize \in Nat /\ MaxQueueSize \in Nat
    /\ MinQueueSize <= MaxQueueSize
    /\ MaxAge \in Nat
BY LimitsAssumption

-----------------------------------------------------------------------------
(* What the operations of a queue keep.                                     *)

\* A new queue has given out no number.
LEMMA NewQueueKeeps ==
    ASSUME NEW n \in Nat
    PROVE  QueueInv(NewQueue(n)) /\ NewQueue(n).status = "fail"
<1> DEFINE q == NewQueue(n)
<1>1. q \in DestinationQueue
  BY Limits, EmptySeq DEF NewQueue, DestinationQueue
<1>2. /\ q.handed = <<>> /\ q.waiting = <<>> /\ q.status = "fail"
      /\ q.acked = {} /\ q.max = MaxQueueSize
      /\ q.next = 0 /\ q.full = 0 /\ q.expired = 0 /\ q.exceeded = 0
      /\ q.unsubscribed = 0
  BY DEF NewQueue
<1>3. Len(<<>>) = 0
  OBVIOUS
<1> HIDE DEF q
<1>4. IsFiniteSet(q.acked) /\ Accounted(q)
  BY <1>2, <1>3, FS_EmptySet DEF Accounted, Total
<1>5. Ordered(q.waiting, q.handed, q.acked, q.next) /\ Limited(q)
  BY <1>2, <1>3, Limits DEF Ordered, Limited
<1>6. QueueInv(q)
  BY <1>1, <1>2, <1>3, <1>4, <1>5 DEF QueueInv
<1> QED
  BY <1>2, <1>6 DEF q

\* The fields of a queue that count.
LEMMA Counters ==
    ASSUME NEW q \in DestinationQueue
    PROVE  /\ q.next \in Nat /\ q.next + 1 \in Nat /\ q.max \in Nat
           /\ q.full \in Nat /\ q.full + 1 \in Nat
           /\ q.exceeded \in Nat /\ q.exceeded + 1 \in Nat
           /\ q.expired \in Nat /\ q.unsubscribed \in Nat
           /\ q.waiting \in Seq(Indication) /\ Len(q.waiting) \in Nat
           /\ q.handed \in Seq(Indication) /\ Len(q.handed) \in Nat
           /\ DOMAIN q.waiting = 1..Len(q.waiting)
           /\ DOMAIN q.handed = 1..Len(q.handed)
<1>1. /\ q.next \in Nat /\ q.max \in Nat /\ q.full \in Nat
      /\ q.exceeded \in Nat /\ q.expired \in Nat /\ q.unsubscribed \in Nat
      /\ q.waiting \in Seq(Indication) /\ q.handed \in Seq(Indication)
  BY DEF DestinationQueue
<1> QED
  BY <1>1, LenProperties

\* A queue gave out a number for each indication that waits.
LEMMA TotalBound ==
    ASSUME NEW a \in Nat, NEW b \in Nat, NEW c \in Nat, NEW d \in Nat,
           NEW e \in Nat, NEW f \in Nat, NEW g \in Nat
    PROVE  c <= Total(a, b, c, d, e, f, g)
BY DEF Total

\* A number given out and a new limit leave a queue a queue.
LEMMA LimitSet ==
    ASSUME NEW q \in DestinationQueue, NEW x \in Nat, NEW l \in Nat
    PROVE  [q EXCEPT !.next = x, !.max = l, !.calcMax = FALSE]
               \in DestinationQueue
BY DEF DestinationQueue

\* getSequenceNumber gives out the next number; the new limit is not below the
\* number of indications that wait, because every one of them has arrived.
LEMMA NumberedEffect ==
    ASSUME NEW q, QueueInv(q)
    PROVE  LET n == Numbered(q) IN
           /\ n \in DestinationQueue
           /\ n.next = q.next + 1
           /\ n.waiting = q.waiting /\ n.handed = q.handed
           /\ n.status = q.status /\ n.acked = q.acked
           /\ n.full = q.full /\ n.expired = q.expired
           /\ n.exceeded = q.exceeded /\ n.unsubscribed = q.unsubscribed
           /\ Limited(n)
<1> DEFINE recalculate == q.calcMax /\ q.age >= Lifetime
           n == Numbered(q)
<1>1. q \in DestinationQueue
  BY DEF QueueInv
<1>2. Within(q.next) \in Nat /\ Within(q.next) <= MaxQueueSize
      /\ \A l \in Nat : l <= q.next /\ l <= MaxQueueSize => l <= Within(q.next)
  BY <1>1, Counters, Limits DEF Within
<1>3. /\ Len(q.waiting) <= q.next
      /\ Len(q.waiting) <= q.max /\ q.max <= MaxQueueSize
  <2>1. Cardinality(q.acked) \in Nat
    BY FS_CardinalityType DEF QueueInv
  <2>2. /\ q.next \in Nat /\ Len(q.handed) \in Nat /\ Len(q.waiting) \in Nat
        /\ q.full \in Nat /\ q.expired \in Nat /\ q.exceeded \in Nat
        /\ q.unsubscribed \in Nat
    BY <1>1, Counters
  <2>3. Accounted(q)
    BY DEF QueueInv
  <2>4. Len(q.waiting) <= q.next
    <3>1. Len(q.waiting) <=
              Total(Cardinality(q.acked), Len(q.handed), Len(q.waiting),
                    q.full, q.expired, q.exceeded, q.unsubscribed)
      BY <2>1, <2>2, TotalBound, Zenon
    <3> QED
      BY <2>3, <3>1, Zenon DEF Accounted
  <2> QED
    BY <2>4 DEF QueueInv, Limited
<1>4. CASE recalculate
  <2>1. n = [q EXCEPT !.next = @ + 1, !.max = Within(q.next), !.calcMax = FALSE]
    BY <1>4 DEF Numbered
  <2>2. n \in DestinationQueue
    <3>1. q.next + 1 \in Nat /\ Within(q.next) \in Nat
      BY <1>1, <1>2, Counters
    <3>2. [q EXCEPT !.next = q.next + 1, !.max = Within(q.next),
                    !.calcMax = FALSE] \in DestinationQueue
      BY <1>1, <3>1, LimitSet, Zenon
    <3> QED
      BY <2>1, <3>2, Zenon
  <2>3. /\ n.next = q.next + 1 /\ n.max = Within(q.next)
        /\ n.waiting = q.waiting /\ n.handed = q.handed
        /\ n.status = q.status /\ n.acked = q.acked
        /\ n.full = q.full /\ n.expired = q.expired
        /\ n.exceeded = q.exceeded /\ n.unsubscribed = q.unsubscribed
    BY <1>1, <2>1 DEF DestinationQueue
  <2> HIDE DEF n
  <2>4. Len(q.waiting) <= Within(q.next)
    BY <1>1, <1>2, <1>3, Counters, Limits
  <2> QED
    BY <1>2, <2>2, <2>3, <2>4 DEF Limited, n
<1>5. CASE ~recalculate
  <2>1. n = [q EXCEPT !.next = @ + 1]
    BY <1>5 DEF Numbered
  <2>2. n \in DestinationQueue
    BY <1>1, <2>1, Counters DEF DestinationQueue
  <2>3. /\ n.next = q.next + 1 /\ n.max = q.max
        /\ n.waiting = q.waiting /\ n.handed = q.handed
        /\ n.status = q.status /\ n.acked = q.acked
        /\ n.full = q.full /\ n.expired = q.expired
        /\ n.exceeded = q.exceeded /\ n.unsubscribed = q.unsubscribed
    BY <1>1, <2>1 DEF DestinationQueue
  <2> HIDE DEF n
  <2> QED
    BY <1>3, <2>2, <2>3 DEF Limited, n
<1> QED
  BY <1>4, <1>5

-----------------------------------------------------------------------------
(* The order of the numbers.                                                *)

\* A new indication at the end has the highest number.
LEMMA OrderedAppend ==
    ASSUME NEW w \in Seq(Indication), NEW h \in Seq(Indication),
           NEW a \in SUBSET Nat, NEW n \in Nat, Ordered(w, h, a, n),
           h # <<>> => h[1].seq \in Nat,
           NEW i \in Indication, i.seq = n
    PROVE  Ordered(Append(w, i), h, a, n + 1)
<1> DEFINE v == Append(w, i)
<1>1. Len(w) \in Nat /\ Len(v) = Len(w) + 1
  BY AppendProperties, LenProperties
<1>2. v[Len(w) + 1].seq = n
  BY AppendProperties
<1>3. \A j \in 1..Len(w) : v[j] = w[j] /\ w[j].seq \in Nat
  <2>1. \A j \in 1..Len(w) : v[j] = w[j]
    BY AppendProperties
  <2>2. \A j \in 1..Len(w) : w[j] \in Indication
    BY ElementOfSeq
  <2> HIDE DEF v
  <2> QED
    BY <2>1, <2>2 DEF Indication
<1>4. \A j \in 1..Len(v) : j \in 1..Len(w) \/ j = Len(w) + 1
  BY <1>1
<1> HIDE DEF v
<1>5. \A j, k \in 1..Len(v) : j < k => v[j].seq < v[k].seq
  <2> SUFFICES ASSUME NEW j \in 1..Len(v), NEW k \in 1..Len(v), j < k
               PROVE  v[j].seq < v[k].seq
    OBVIOUS
  <2>1. j \in 1..Len(w)
    BY <1>1
  <2>2. CASE k \in 1..Len(w)
    BY <1>3, <2>1, <2>2 DEF Ordered
  <2>3. CASE k = Len(w) + 1
    BY <1>2, <1>3, <2>1, <2>3 DEF Ordered
  <2> QED
    BY <1>4, <2>2, <2>3
<1>6. \A j \in 1..Len(v) :
          /\ v[j].seq < n + 1
          /\ h # <<>> => h[1].seq < v[j].seq
  BY <1>1, <1>2, <1>3, <1>4 DEF Ordered
<1>7. \A m \in a :
          /\ m < n + 1
          /\ h # <<>> => m < h[1].seq
          /\ \A j \in 1..Len(v) : m < v[j].seq
  BY <1>1, <1>2, <1>3, <1>4 DEF Ordered
<1>8. h # <<>> => h[1].seq < n + 1
  BY DEF Ordered
<1> QED
  BY <1>5, <1>6, <1>7, <1>8 DEF Ordered, v

\* Indications that keep their order after others are gone keep their numbers
\* in order.
LEMMA OrderedKept ==
    ASSUME NEW w \in Seq(Indication), NEW h, NEW a, NEW n,
           NEW v \in Seq(Indication), Ordered(w, h, a, n),
           NEW f \in [1..Len(v) -> 1..Len(w)],
           \A j, k \in 1..Len(v) : j < k => f[j] < f[k],
           \A j \in 1..Len(v) : v[j].seq = w[f[j]].seq
    PROVE  Ordered(v, h, a, n)
<1>1. \A j \in 1..Len(v) : f[j] \in 1..Len(w)
  OBVIOUS
<1> QED
  BY <1>1 DEF Ordered

\* ... in particular those that stay when some of the front are gone.
LEMMA OrderedFront ==
    ASSUME NEW w \in Seq(Indication), NEW h, NEW a, NEW n, NEW k \in 0..Len(w),
           Ordered(w, h, a, n)
    PROVE  Ordered(SubSeq(w, k + 1, Len(w)), h, a, n)
<1> DEFINE v == SubSeq(w, k + 1, Len(w))
           f == [j \in 1..Len(v) |-> j + k]
<1>1. Len(w) \in Nat /\ v \in Seq(Indication) /\ Len(v) = Len(w) - k
  BY LenProperties, SubSeqProperties
<1>2. \A j \in 1..Len(v) : v[j] = w[j + k] /\ j + k \in 1..Len(w)
  BY <1>1, SubSeqProperties
<1> HIDE DEF v
<1>3. f \in [1..Len(v) -> 1..Len(w)]
  BY <1>2
<1>4. \A i, j \in 1..Len(v) : i < j => f[i] < f[j]
  BY <1>1
<1>5. \A j \in 1..Len(v) : v[j].seq = w[f[j]].seq
  BY <1>2
<1> HIDE DEF f
<1> QED
  BY <1>1, <1>3, <1>4, <1>5, OrderedKept DEF v

\* The first of the waiting indications is handed out.
LEMMA OrderedHandOut ==
    ASSUME NEW w \in Seq(Indication), w # <<>>, NEW a, NEW n,
           Ordered(w, <<>>, a, n), NEW i, i.seq = w[1].seq
    PROVE  Ordered(Tail(w), <<i>>, a, n)
<1>1. Len(w) \in Nat /\ Len(w) > 0 /\ Len(Tail(w)) = Len(w) - 1
  BY EmptySeq, HeadTailProperties
<1>2. \A j \in 1..Len(Tail(w)) :
          Tail(w)[j] = w[j + 1] /\ j + 1 \in 1..Len(w) /\ 1 < j + 1
  BY <1>1, HeadTailProperties
<1>3. Tail(w) = SubSeq(w, 2, Len(w))
  BY TailIsSubSeq
<1>4. Ordered(Tail(w), <<>>, a, n)
  <2>1. 1 \in 0..Len(w) /\ 1 + 1 = 2
    BY <1>1
  <2>2. Ordered(SubSeq(w, 1 + 1, Len(w)), <<>>, a, n)
    BY <2>1, OrderedFront
  <2> QED
    BY <1>3, <2>1, <2>2
<1>5. <<i>>[1].seq = w[1].seq /\ 1 \in 1..Len(w)
  BY <1>1
<1> QED
  BY <1>1, <1>2, <1>4, <1>5 DEF Ordered

\* The indication that was handed out is delivered,
LEMMA OrderedDelivered ==
    ASSUME NEW w, NEW h, h # <<>>, NEW a, NEW n, Ordered(w, h, a, n)
    PROVE  Ordered(w, <<>>, a \cup {h[1].seq}, n)
BY DEF Ordered

\* ... dropped,
LEMMA OrderedDropped ==
    ASSUME NEW w, NEW h, NEW a, NEW n, Ordered(w, h, a, n)
    PROVE  Ordered(w, <<>>, a, n)
BY DEF Ordered

\* ... or comes back.
LEMMA OrderedBack ==
    ASSUME NEW w \in Seq(Indication), NEW h, h # <<>>, NEW a, NEW n,
           Ordered(w, h, a, n), NEW i \in Indication, i.seq = h[1].seq
    PROVE  Ordered(<<i>> \o w, <<>>, a, n)
<1> DEFINE v == <<i>> \o w
<1>1. <<i>> \in Seq(Indication) /\ Len(<<i>>) = 1 /\ <<i>>[1] = i
  OBVIOUS
<1>2. Len(w) \in Nat /\ Len(v) = Len(w) + 1
  BY <1>1, ConcatProperties, LenProperties
<1>3. v[1].seq = h[1].seq
  BY <1>1, <1>2, ConcatProperties
<1>4. \A j \in 1..Len(v) :
          j # 1 => j - 1 \in 1..Len(w) /\ v[j] = w[j - 1]
  <2> SUFFICES ASSUME NEW j \in 1..Len(v), j # 1
               PROVE  j - 1 \in 1..Len(w) /\ v[j] = w[j - 1]
    OBVIOUS
  <2>1. j \in 1..(Len(<<i>>) + Len(w)) /\ ~(j <= Len(<<i>>))
    BY <1>1, <1>2
  <2>2. v[j] = w[j - Len(<<i>>)]
    BY <1>1, <2>1, ConcatProperties
  <2> QED
    BY <1>1, <1>2, <2>2
<1> HIDE DEF v
<1>5. \A j, k \in 1..Len(v) : j < k => v[j].seq < v[k].seq
  <2> SUFFICES ASSUME NEW j \in 1..Len(v), NEW k \in 1..Len(v), j < k
               PROVE  v[j].seq < v[k].seq
    OBVIOUS
  <2>1. k - 1 \in 1..Len(w) /\ v[k] = w[k - 1]
    BY <1>2, <1>4
  <2>2. CASE j = 1
    BY <1>3, <2>1, <2>2 DEF Ordered
  <2>3. CASE j - 1 \in 1..Len(w) /\ v[j] = w[j - 1]
    BY <1>2, <2>1, <2>3 DEF Ordered
  <2> QED
    BY <1>4, <2>2, <2>3
<1>6. \A j \in 1..Len(v) : v[j].seq < n
  BY <1>3, <1>4 DEF Ordered
<1>7. \A m \in a : m < n /\ \A j \in 1..Len(v) : m < v[j].seq
  BY <1>3, <1>4 DEF Ordered
<1> QED
  BY <1>5, <1>6, <1>7 DEF Ordered, v

-----------------------------------------------------------------------------
(* Every operation keeps the invariant of its queue.                        *)

\* The counts of a queue are natural numbers.
LEMMA Counts ==
    ASSUME NEW q, QueueInv(q)
    PROVE  /\ Cardinality(q.acked) \in Nat /\ Len(q.handed) \in Nat
           /\ Len(q.waiting) \in Nat /\ q.full \in Nat /\ q.expired \in Nat
           /\ q.exceeded \in Nat /\ q.unsubscribed \in Nat /\ q.next \in Nat
           /\ q.next = Total(Cardinality(q.acked), Len(q.handed),
                             Len(q.waiting), q.full, q.expired, q.exceeded,
                             q.unsubscribed)
<1>1. q \in DestinationQueue /\ IsFiniteSet(q.acked) /\ Accounted(q)
  BY DEF QueueInv
<1> QED
  BY <1>1, Counters, FS_CardinalityType DEF Accounted

\* How the numbers that a queue gave out add up when one indication more waits
\* or is dropped, when some expire, when some stay, when one is handed out, and
\* when the one that was handed out is delivered, comes back or is dropped.
LEMMA Totals ==
    ASSUME NEW q, QueueInv(q)
    PROVE  LET a == Cardinality(q.acked)
               b == Len(q.handed)
               c == Len(q.waiting)
               d == q.full
               e == q.expired
               f == q.exceeded
               g == q.unsubscribed
           IN /\ q.next + 1 = Total(a, b, c + 1, d, e, f, g)
              /\ q.next + 1 = Total(a, b, c, d + 1, e, f, g)
              /\ \A k \in 0..c : q.next = Total(a, b, c - k, d, e + k, f, g)
              /\ \A k \in 0..c : q.next = Total(a, b, k, d, e, f, g + c - k)
              /\ b = 0 /\ c > 0 => q.next = Total(a, 1, c - 1, d, e, f, g)
              /\ b = 1 => q.next = Total(a + 1, 0, c, d, e, f, g)
              /\ b = 1 => q.next = Total(a, 0, c + 1, d, e, f, g)
              /\ b = 1 => q.next = Total(a, 0, c, d + 1, e, f, g)
              /\ b = 1 => q.next = Total(a, 0, c, d, e, f + 1, g)
<1> DEFINE a == Cardinality(q.acked)
           b == Len(q.handed)
           c == Len(q.waiting)
           d == q.full
           e == q.expired
           f == q.exceeded
           g == q.unsubscribed
           m == q.next
<1>1. /\ a \in Nat /\ b \in Nat /\ c \in Nat /\ d \in Nat /\ e \in Nat
      /\ f \in Nat /\ g \in Nat /\ m = Total(a, b, c, d, e, f, g)
  BY Counts
<1> HIDE DEF a, b, c, d, e, f, g, m
<1>2. /\ m + 1 = Total(a, b, c + 1, d, e, f, g)
      /\ m + 1 = Total(a, b, c, d + 1, e, f, g)
      /\ \A k \in 0..c : m = Total(a, b, c - k, d, e + k, f, g)
      /\ \A k \in 0..c : m = Total(a, b, k, d, e, f, g + c - k)
      /\ b = 0 /\ c > 0 => m = Total(a, 1, c - 1, d, e, f, g)
      /\ b = 1 => m = Total(a + 1, 0, c, d, e, f, g)
      /\ b = 1 => m = Total(a, 0, c + 1, d, e, f, g)
      /\ b = 1 => m = Total(a, 0, c, d + 1, e, f, g)
      /\ b = 1 => m = Total(a, 0, c, d, e, f + 1, g)
  BY ONLY <1>1 DEF Total
<1> QED
  BY <1>2 DEF a, b, c, d, e, f, g, m

\* enqueue gives the indication the next number and puts it last.
LEMMA EnqueuedKeeps ==
    ASSUME NEW q, QueueInv(q), NEW s \in Subscriptions
    PROVE  /\ QueueInv(Enqueued(q, s))
           /\ Enqueued(q, s).status = q.status
           /\ Enqueued(q, s).handed = q.handed
<1> DEFINE i == [seq |-> q.next, sub |-> s, age |-> 0, idle |-> 0,
                 tried |-> FALSE, tries |-> 0]
           all == Append(q.waiting, i)
           n == Numbered(q)
           r == Enqueued(q, s)
<1>1. /\ q \in DestinationQueue /\ IsFiniteSet(q.acked) /\ Len(q.handed) <= 1
      /\ q.status = "pending" <=> q.handed # <<>>
      /\ Ordered(q.waiting, q.handed, q.acked, q.next)
      /\ q.acked \in SUBSET Nat
  BY DEF QueueInv, DestinationQueue
<1>2. /\ q.next \in Nat /\ q.next + 1 \in Nat
      /\ q.waiting \in Seq(Indication) /\ Len(q.waiting) \in Nat
      /\ q.handed \in Seq(Indication)
      /\ q.full \in Nat /\ q.full + 1 \in Nat
  BY <1>1, Counters
<1>3. i \in Indication /\ i.seq = q.next
  BY <1>2 DEF Indication
<1>4. /\ n \in DestinationQueue
      /\ n.next = q.next + 1
      /\ n.waiting = q.waiting /\ n.handed = q.handed
      /\ n.status = q.status /\ n.acked = q.acked
      /\ n.full = q.full /\ n.expired = q.expired
      /\ n.exceeded = q.exceeded /\ n.unsubscribed = q.unsubscribed
      /\ Limited(n)
  BY NumberedEffect
<1>5. r = IF Len(all) > n.max
          THEN [n EXCEPT !.waiting = Tail(all), !.full = n.full + 1]
          ELSE [n EXCEPT !.waiting = all]
  BY DEF Enqueued
<1> HIDE DEF i, n, r
<1>6. /\ all \in Seq(Indication) /\ all # <<>>
      /\ Len(all) = Len(q.waiting) + 1
  BY <1>2, <1>3, AppendProperties
<1>7. Ordered(all, q.handed, q.acked, q.next + 1)
  <2>1. q.handed # <<>> => q.handed[1].seq \in Nat
    <3>1. q.handed # <<>> => 1 \in 1..Len(q.handed)
      BY <1>2, EmptySeq
    <3>2. q.handed # <<>> => q.handed[1] \in Indication
      BY <1>2, <3>1, ElementOfSeq
    <3> QED
      BY <3>2 DEF Indication
  <2> QED
    BY <1>1, <1>2, <1>3, <2>1, OrderedAppend, Zenon
<1> HIDE DEF all
<1>8. /\ q.next + 1 = Total(Cardinality(q.acked), Len(q.handed),
                            Len(q.waiting) + 1, q.full, q.expired, q.exceeded,
                            q.unsubscribed)
      /\ q.next + 1 = Total(Cardinality(q.acked), Len(q.handed),
                            Len(q.waiting), q.full + 1, q.expired, q.exceeded,
                            q.unsubscribed)
  BY Totals, Zenon
<1>10. CASE Len(all) > n.max
  <2>1. /\ Tail(all) \in Seq(Indication)
        /\ Len(Tail(all)) = Len(q.waiting)
    BY <1>2, <1>6, HeadTailProperties
  <2>2. Ordered(Tail(all), q.handed, q.acked, q.next + 1)
    <3>1. 1 \in 0..Len(all) /\ 1 + 1 = 2 /\ Tail(all) = SubSeq(all, 2, Len(all))
      BY <1>2, <1>6, TailIsSubSeq
    <3>2. Ordered(SubSeq(all, 1 + 1, Len(all)), q.handed, q.acked, q.next + 1)
      BY <1>6, <1>7, <3>1, OrderedFront, Zenon
    <3> QED
      BY <3>1, <3>2
  <2>3. r = [n EXCEPT !.waiting = Tail(all), !.full = n.full + 1]
    BY <1>5, <1>10
  <2>8. /\ n.full + 1 \in Nat /\ n.full + 1 = q.full + 1
    BY <1>2, <1>4
  <2>9. /\ r \in DestinationQueue
        /\ r.waiting = Tail(all) /\ r.handed = n.handed /\ r.acked = n.acked
        /\ r.next = n.next /\ r.max = n.max /\ r.status = n.status
        /\ r.full = n.full + 1 /\ r.expired = n.expired
        /\ r.exceeded = n.exceeded /\ r.unsubscribed = n.unsubscribed
    <3> DEFINE v == Tail(all)
               x == n.full + 1
    <3>1. n \in DestinationQueue /\ v \in Seq(Indication) /\ x \in Nat
      BY <1>4, <2>1, <2>8
    <3>2. r = [n EXCEPT !.waiting = v, !.full = x]
      BY <2>3
    <3> HIDE DEF v, x
    <3>3. /\ r \in DestinationQueue
          /\ r.waiting = v /\ r.handed = n.handed /\ r.acked = n.acked
          /\ r.next = n.next /\ r.max = n.max /\ r.status = n.status
          /\ r.full = x /\ r.expired = n.expired
          /\ r.exceeded = n.exceeded /\ r.unsubscribed = n.unsubscribed
      BY <3>1, <3>2 DEF DestinationQueue
    <3> QED
      BY <3>3 DEF v, x
  <2>4. /\ r \in DestinationQueue
        /\ r.waiting = Tail(all) /\ r.handed = q.handed /\ r.acked = q.acked
        /\ r.next = q.next + 1 /\ r.max = n.max /\ r.status = q.status
        /\ r.full = q.full + 1 /\ r.expired = q.expired
        /\ r.exceeded = q.exceeded /\ r.unsubscribed = q.unsubscribed
    BY <1>4, <2>8, <2>9, Zenon
  <2>5. Accounted(r)
    BY <1>8, <2>1, <2>4, Zenon DEF Accounted
  <2>6. Limited(r)
    BY <1>4, <2>1, <2>4 DEF Limited
  <2>7. QueueInv(r)
    BY <1>1, <2>2, <2>4, <2>5, <2>6, Zenon DEF QueueInv
  <2> QED
    BY <2>4, <2>7 DEF r
<1>11. CASE ~(Len(all) > n.max)
  <2>3. r = [n EXCEPT !.waiting = all]
    BY <1>5, <1>11
  <2>9. /\ r \in DestinationQueue
        /\ r.waiting = all /\ r.handed = n.handed /\ r.acked = n.acked
        /\ r.next = n.next /\ r.max = n.max /\ r.status = n.status
        /\ r.full = n.full /\ r.expired = n.expired
        /\ r.exceeded = n.exceeded /\ r.unsubscribed = n.unsubscribed
    BY <1>4, <1>6, <2>3 DEF DestinationQueue
  <2>4. /\ r \in DestinationQueue
        /\ r.waiting = all /\ r.handed = q.handed /\ r.acked = q.acked
        /\ r.next = q.next + 1 /\ r.max = n.max /\ r.status = q.status
        /\ r.full = q.full /\ r.expired = q.expired
        /\ r.exceeded = q.exceeded /\ r.unsubscribed = q.unsubscribed
    BY <1>4, <2>9, Zenon
  <2>5. Accounted(r)
    BY <1>6, <1>8, <2>4, Zenon DEF Accounted
  <2>6. Limited(r)
    <3>1. n.max \in Nat
      BY <1>4, Counters
    <3> QED
      BY <1>2, <1>4, <1>6, <1>11, <2>4, <3>1 DEF Limited
  <2>7. QueueInv(r)
    BY <1>1, <1>7, <2>4, <2>5, <2>6, Zenon DEF QueueInv
  <2> QED
    BY <2>4, <2>7 DEF r
<1> QED
  BY <1>10, <1>11

\* The parts of a queue.
LEMMA Parts ==
    ASSUME NEW q, QueueInv(q)
    PROVE  /\ q \in DestinationQueue /\ IsFiniteSet(q.acked)
           /\ Len(q.handed) <= 1
           /\ q.status = "pending" <=> q.handed # <<>>
           /\ Ordered(q.waiting, q.handed, q.acked, q.next)
           /\ q.waiting \in Seq(Indication) /\ Len(q.waiting) \in Nat
           /\ q.handed \in Seq(Indication)
           /\ q.acked \in SUBSET Nat /\ q.max \in Nat
           /\ Len(q.waiting) <= q.max /\ q.max <= MaxQueueSize
<1>1. q \in DestinationQueue
  BY DEF QueueInv
<1>2. q.acked \in SUBSET Nat
  BY <1>1 DEF DestinationQueue
<1> QED
  BY <1>1, <1>2, Counters DEF QueueInv, Limited

\* Expired indications leave at the front.
LEMMA WithoutFrontKeeps ==
    ASSUME NEW q, QueueInv(q), NEW k \in 0..Len(q.waiting)
    PROVE  /\ QueueInv(WithoutFront(q, k))
           /\ WithoutFront(q, k).status = q.status
           /\ WithoutFront(q, k).handed = q.handed
<1> DEFINE w == SubSeq(q.waiting, k + 1, Len(q.waiting))
           e == q.expired + k
           r == WithoutFront(q, k)
<1>1. w \in Seq(Indication) /\ Len(w) = Len(q.waiting) - k
  BY Parts, SubSeqProperties
<1>2. Ordered(w, q.handed, q.acked, q.next)
  BY Parts, OrderedFront, Zenon
<1>3. e \in Nat
  BY Counts
<1>4. q.next = Total(Cardinality(q.acked), Len(q.handed), Len(q.waiting) - k,
                     q.full, e, q.exceeded, q.unsubscribed)
  BY Totals, Zenon
<1>5. r = [q EXCEPT !.waiting = w, !.expired = e]
  BY DEF WithoutFront
<1>6. q \in DestinationQueue
  BY Parts
<1> HIDE DEF w, e, r
<1>7. /\ r \in DestinationQueue
      /\ r.waiting = w /\ r.handed = q.handed /\ r.acked = q.acked
      /\ r.next = q.next /\ r.max = q.max /\ r.status = q.status
      /\ r.full = q.full /\ r.expired = e
      /\ r.exceeded = q.exceeded /\ r.unsubscribed = q.unsubscribed
  BY <1>1, <1>3, <1>5, <1>6 DEF DestinationQueue
<1>8. Accounted(r)
  BY <1>1, <1>4, <1>7, Zenon DEF Accounted
<1>9. Limited(r)
  BY <1>1, <1>7, Parts DEF Limited
<1>10. QueueInv(r)
  BY <1>2, <1>7, <1>8, <1>9, Parts, Zenon DEF QueueInv
<1> QED
  BY <1>7, <1>10 DEF r

\* The first indication is handed out.
LEMMA HandOutKeeps ==
    ASSUME NEW q, QueueInv(q), q.status # "pending", q.waiting # <<>>,
           attempts \in Nat
    PROVE  /\ QueueInv(HandOut(q))
           /\ HandOut(q).status = "pending"
<1> DEFINE i == HandedOut(Head(q.waiting))
           w == Tail(q.waiting)
           r == HandOut(q)
           h == <<i>>
<1>1. q.handed = <<>> /\ Len(q.handed) = 0
  BY Parts, EmptySeq
<1>2. /\ Head(q.waiting) \in Indication
      /\ w \in Seq(Indication) /\ Len(w) = Len(q.waiting) - 1
      /\ Len(q.waiting) > 0
  BY Parts, HeadTailProperties, EmptySeq
<1>3. i \in Indication /\ i.seq = q.waiting[1].seq
  <2> DEFINE f == Head(q.waiting)
             elapsed == (IF f.tried THEN f.idle ELSE f.age) \div RetryInterval
  <2>1. f \in Indication /\ f = q.waiting[1]
    BY <1>2, Parts
  <2>2. f.idle \in Nat /\ f.age \in Nat /\ f.tries \in Nat
    BY <2>1 DEF Indication
  <2>3. elapsed \in Nat
    BY <2>2, Limits
  <2> DEFINE tries == IF elapsed > 0 THEN f.tries + elapsed - 1 ELSE f.tries
  <2> HIDE DEF elapsed
  <2>4. tries \in Nat
    BY <2>2, <2>3
  <2>5. i = [f EXCEPT !.tries = tries]
    BY DEF HandedOut, elapsed
  <2> HIDE DEF f, tries, i
  <2>6. i \in Indication /\ i.seq = f.seq
    BY <2>1, <2>4, <2>5 DEF Indication
  <2> QED
    BY <2>1, <2>6
<1>4. Ordered(w, h, q.acked, q.next)
  BY <1>1, <1>3, Parts, OrderedHandOut
<1>5. q.next = Total(Cardinality(q.acked), 1, Len(q.waiting) - 1,
                     q.full, q.expired, q.exceeded, q.unsubscribed)
  BY <1>1, <1>2, Totals, Zenon
<1>6. r = [q EXCEPT !.status = "pending", !.handed = h, !.waiting = w]
  BY DEF HandOut
<1>7. q \in DestinationQueue
  BY Parts
<1>8. h \in Seq(Indication) /\ h # <<>> /\ Len(h) = 1 /\ Len(h) <= 1
  BY <1>3
<1> HIDE DEF w, h, r
<1>9. /\ r \in DestinationQueue
      /\ r.waiting = w /\ r.handed = h /\ r.acked = q.acked
      /\ r.next = q.next /\ r.max = q.max /\ r.status = "pending"
      /\ r.full = q.full /\ r.expired = q.expired
      /\ r.exceeded = q.exceeded /\ r.unsubscribed = q.unsubscribed
  BY <1>2, <1>6, <1>7, <1>8 DEF DestinationQueue
<1>10. Accounted(r)
  BY <1>2, <1>5, <1>8, <1>9, Zenon DEF Accounted
<1>11. Limited(r)
  BY <1>2, <1>9, Parts DEF Limited
<1>12. Len(r.handed) <= 1
  BY <1>8, <1>9, Zenon
<1>13. QueueInv(r)
  BY <1>4, <1>8, <1>9, <1>10, <1>11, <1>12, Parts, Zenon DEF QueueInv
<1> QED
  BY <1>9, <1>13 DEF r

\* The queue whose indication is out.
LEMMA Handed ==
    ASSUME NEW q, QueueInv(q), q.status = "pending"
    PROVE  /\ q.handed # <<>> /\ Len(q.handed) = 1
           /\ q.handed[1] \in Indication /\ q.handed[1].seq \in Nat
           /\ q.handed[1].seq \notin q.acked
<1>1. q.handed # <<>> /\ Len(q.handed) \in Nat \ {0} /\ Len(q.handed) <= 1
  BY Parts, EmptySeq
<1>2. Len(q.handed) = 1
  <2> DEFINE l == Len(q.handed)
  <2>1. l \in Nat \ {0} /\ l <= 1
    BY <1>1
  <2> HIDE DEF l
  <2>2. l = 1
    BY <2>1
  <2> QED
    BY <2>2 DEF l
<1>3. q.handed[1] \in Indication
  BY <1>2, Parts, ElementOfSeq
<1>4. q.handed[1].seq \in Nat
  BY <1>3 DEF Indication
<1>5. \A n \in q.acked : n < q.handed[1].seq
  BY <1>1, Parts DEF Ordered
<1> QED
  BY <1>1, <1>2, <1>3, <1>4, <1>5

\* The indication is delivered,
LEMMA DeliveredKeeps ==
    ASSUME NEW q, QueueInv(q), q.status = "pending"
    PROVE  /\ QueueInv(Delivered(q))
           /\ Delivered(q).status = "success"
<1> DEFINE n == q.handed[1].seq
           a == q.acked \cup {n}
           r == Delivered(q)
<1>1. Ordered(q.waiting, <<>>, a, q.next)
  BY Handed, Parts, OrderedDelivered
<1>2. n \in Nat /\ a \in SUBSET Nat
  BY Handed, Parts
<1>3. IsFiniteSet(a) /\ Cardinality(a) = Cardinality(q.acked) + 1
  <2>1. IsFiniteSet(q.acked) /\ n \notin q.acked
    BY Handed, Parts
  <2> HIDE DEF n
  <2> QED
    BY <2>1, FS_AddElement
<1>4. q.next = Total(Cardinality(q.acked) + 1, 0, Len(q.waiting),
                     q.full, q.expired, q.exceeded, q.unsubscribed)
  BY Handed, Totals, Zenon
<1>5. r = [q EXCEPT !.status = "success", !.handed = <<>>, !.acked = a]
  BY DEF Delivered
<1>6. q \in DestinationQueue /\ <<>> \in Seq(Indication) /\ Len(<<>>) = 0
      /\ Len(<<>>) <= 1
  BY Parts, EmptySeq
<1> HIDE DEF a, r
<1>7. /\ r \in DestinationQueue
      /\ r.waiting = q.waiting /\ r.handed = <<>> /\ r.acked = a
      /\ r.next = q.next /\ r.max = q.max /\ r.status = "success"
      /\ r.full = q.full /\ r.expired = q.expired
      /\ r.exceeded = q.exceeded /\ r.unsubscribed = q.unsubscribed
  BY <1>2, <1>5, <1>6 DEF DestinationQueue
<1>8. Accounted(r)
  BY <1>3, <1>4, <1>6, <1>7, Zenon DEF Accounted
<1>9. Limited(r) /\ r.status # "pending"
  BY <1>7, Parts DEF Limited
<1>10. QueueInv(r)
  BY <1>1, <1>3, <1>6, <1>7, <1>8, <1>9, Zenon DEF QueueInv
<1> QED
  BY <1>7, <1>10 DEF r

\* ... or it comes back, or is dropped because the queue is full or because it
\* was tried too often.
LEMMA NotDeliveredKeeps ==
    ASSUME NEW q, QueueInv(q), q.status = "pending", attempts \in Nat
    PROVE  /\ QueueInv(NotDelivered(q))
           /\ NotDelivered(q).status = "fail"
<1> DEFINE tries == q.handed[1].tries + 1
           i == [q.handed[1] EXCEPT !.tries = @ + 1, !.tried = TRUE, !.idle = 0]
           f == [q EXCEPT !.status = "fail", !.handed = <<>>]
           r == NotDelivered(q)
<1>1. i \in Indication /\ i.seq = q.handed[1].seq
  <2>1. q.handed[1] \in Indication
    BY Handed
  <2>2. tries \in Nat
    BY <2>1 DEF Indication
  <2>3. i = [q.handed[1] EXCEPT !.tries = tries, !.tried = TRUE, !.idle = 0]
    OBVIOUS
  <2> HIDE DEF tries, i
  <2> QED
    BY <2>1, <2>2, <2>3 DEF Indication
<1>2. q \in DestinationQueue /\ <<>> \in Seq(Indication) /\ Len(<<>>) = 0
      /\ Len(<<>>) <= 1
  BY Parts, EmptySeq
<1>3. /\ f \in DestinationQueue
      /\ f.waiting = q.waiting /\ f.handed = <<>> /\ f.acked = q.acked
      /\ f.next = q.next /\ f.max = q.max /\ f.status = "fail"
      /\ f.full = q.full /\ f.expired = q.expired
      /\ f.exceeded = q.exceeded /\ f.unsubscribed = q.unsubscribed
  BY <1>2 DEF DestinationQueue
<1>4. r = IF i.tries >= attempts + 1 THEN [f EXCEPT !.exceeded = f.exceeded + 1]
          ELSE IF Len(q.waiting) >= q.max THEN [f EXCEPT !.full = f.full + 1]
          ELSE [f EXCEPT !.waiting = <<i>> \o f.waiting]
  BY DEF NotDelivered
<1> HIDE DEF tries, i, f, r
<1>5. CASE i.tries >= attempts + 1
  <2> DEFINE x == f.exceeded + 1
  <2>1. x \in Nat /\ x = q.exceeded + 1
    BY <1>3, Counts
  <2>2. r = [f EXCEPT !.exceeded = x]
    BY <1>4, <1>5
  <2> HIDE DEF x
  <2>3. /\ r \in DestinationQueue
        /\ r.waiting = f.waiting /\ r.handed = f.handed /\ r.acked = f.acked
        /\ r.next = f.next /\ r.max = f.max /\ r.status = f.status
        /\ r.full = f.full /\ r.expired = f.expired
        /\ r.exceeded = x /\ r.unsubscribed = f.unsubscribed
    BY <1>3, <2>1, <2>2 DEF DestinationQueue
  <2>4. q.next = Total(Cardinality(q.acked), 0, Len(q.waiting), q.full,
                       q.expired, q.exceeded + 1, q.unsubscribed)
    BY Handed, Totals, Zenon
  <2>5. Accounted(r)
    BY <1>2, <1>3, <2>1, <2>3, <2>4, Zenon DEF Accounted
  <2>6. Ordered(q.waiting, <<>>, q.acked, q.next)
    BY Parts, OrderedDropped, Zenon
  <2>7. Limited(r) /\ r.status = "fail" /\ r.status # "pending"
    BY <1>3, <2>3, Parts DEF Limited
  <2>8. QueueInv(r)
    BY <1>2, <1>3, <2>3, <2>5, <2>6, <2>7, Parts, Zenon DEF QueueInv
  <2> QED
    BY <2>7, <2>8 DEF r
<1>6. CASE ~(i.tries >= attempts + 1) /\ Len(q.waiting) >= q.max
  <2> DEFINE x == f.full + 1
  <2>1. x \in Nat /\ x = q.full + 1
    BY <1>3, Counts
  <2>2. r = [f EXCEPT !.full = x]
    BY <1>4, <1>6
  <2> HIDE DEF x
  <2>3. /\ r \in DestinationQueue
        /\ r.waiting = f.waiting /\ r.handed = f.handed /\ r.acked = f.acked
        /\ r.next = f.next /\ r.max = f.max /\ r.status = f.status
        /\ r.full = x /\ r.expired = f.expired
        /\ r.exceeded = f.exceeded /\ r.unsubscribed = f.unsubscribed
    BY <1>3, <2>1, <2>2 DEF DestinationQueue
  <2>4. q.next = Total(Cardinality(q.acked), 0, Len(q.waiting), q.full + 1,
                       q.expired, q.exceeded, q.unsubscribed)
    BY Handed, Totals, Zenon
  <2>5. Accounted(r)
    BY <1>2, <1>3, <2>1, <2>3, <2>4, Zenon DEF Accounted
  <2>6. Ordered(q.waiting, <<>>, q.acked, q.next)
    BY Parts, OrderedDropped, Zenon
  <2>7. Limited(r) /\ r.status = "fail" /\ r.status # "pending"
    BY <1>3, <2>3, Parts DEF Limited
  <2>8. QueueInv(r)
    BY <1>2, <1>3, <2>3, <2>5, <2>6, <2>7, Parts, Zenon DEF QueueInv
  <2> QED
    BY <2>7, <2>8 DEF r
<1>7. CASE ~(i.tries >= attempts + 1) /\ ~(Len(q.waiting) >= q.max)
  <2> DEFINE w == <<i>> \o f.waiting
  <2>1. w \in Seq(Indication) /\ Len(w) = Len(q.waiting) + 1
        /\ w = <<i>> \o q.waiting
    <3>1. <<i>> \in Seq(Indication) /\ Len(<<i>>) = 1
      BY <1>1
    <3> QED
      BY <1>3, <3>1, Parts, ConcatProperties
  <2>2. r = [f EXCEPT !.waiting = w]
    BY <1>4, <1>7
  <2>3. Ordered(w, <<>>, q.acked, q.next)
    BY <1>1, <2>1, Handed, Parts, OrderedBack, Zenon
  <2> HIDE DEF w
  <2>4. /\ r \in DestinationQueue
        /\ r.waiting = w /\ r.handed = f.handed /\ r.acked = f.acked
        /\ r.next = f.next /\ r.max = f.max /\ r.status = f.status
        /\ r.full = f.full /\ r.expired = f.expired
        /\ r.exceeded = f.exceeded /\ r.unsubscribed = f.unsubscribed
    BY <1>3, <2>1, <2>2 DEF DestinationQueue
  <2>5. q.next = Total(Cardinality(q.acked), 0, Len(q.waiting) + 1, q.full,
                       q.expired, q.exceeded, q.unsubscribed)
    BY Handed, Totals, Zenon
  <2>6. Accounted(r)
    BY <1>2, <1>3, <2>1, <2>4, <2>5, Zenon DEF Accounted
  <2>7. Limited(r) /\ r.status = "fail" /\ r.status # "pending"
    BY <1>3, <1>7, <2>1, <2>4, Parts DEF Limited
  <2>8. QueueInv(r)
    BY <1>2, <1>3, <2>3, <2>4, <2>6, <2>7, Parts, Zenon DEF QueueInv
  <2> QED
    BY <2>7, <2>8 DEF r
<1> QED
  BY <1>5, <1>6, <1>7

\* A function from 1..n is a sequence.
LEMMA SequenceOf ==
    ASSUME NEW S, NEW n \in Nat, NEW s \in [1..n -> S]
    PROVE  s \in Seq(S) /\ Len(s) = n
OBVIOUS

\* The indications of one subscription are deleted.
LEMMA WithoutKeeps ==
    ASSUME NEW q, QueueInv(q), NEW s, NEW n \in 0..Len(q.waiting),
           NEW f \in [1..n -> 1..Len(q.waiting)], KeepsOthers(q, s, f)
    PROVE  /\ QueueInv(Without(q, f))
           /\ Without(q, f).status = q.status
           /\ Without(q, f).handed = q.handed
<1> DEFINE w == [j \in DOMAIN f |-> q.waiting[f[j]]]
           g == q.unsubscribed + Len(q.waiting) - Len(f)
           r == Without(q, f)
<1>1. /\ q \in DestinationQueue /\ Len(q.waiting) \in Nat
      /\ q.waiting \in Seq(Indication)
  BY Parts
<1>2. n \in Nat /\ n <= Len(q.waiting) /\ DOMAIN f = 1..n /\ Len(f) = n
  BY <1>1, SequenceOf
<1>3. \A j \in 1..n : q.waiting[f[j]] \in Indication
  BY <1>1, ElementOfSeq
<1>4. w \in [1..n -> Indication]
  BY <1>2, <1>3
<1>5. w \in Seq(Indication) /\ Len(w) = n
  BY <1>2, <1>4, SequenceOf, Zenon
<1>6. \A j \in 1..n : w[j].seq = q.waiting[f[j]].seq
  BY <1>2
<1>7. g \in Nat
  BY <1>1, <1>2, Counts
<1>8. r = [q EXCEPT !.waiting = w, !.unsubscribed = g]
  BY DEF Without
<1>9. q.next = Total(Cardinality(q.acked), Len(q.handed), Len(f), q.full,
                     q.expired, q.exceeded, g)
  BY <1>2, Totals, Zenon
<1> HIDE DEF w, g, r
<1>10. Ordered(w, q.handed, q.acked, q.next)
  <2>1. \A j, k \in 1..n : j < k => f[j] < f[k]
    BY <1>2 DEF KeepsOthers
  <2>2. Ordered(q.waiting, q.handed, q.acked, q.next)
    BY Parts
  <2> QED
    BY <1>1, <1>5, <1>6, <2>1, <2>2, OrderedKept
<1>11. /\ r \in DestinationQueue
       /\ r.waiting = w /\ r.handed = q.handed /\ r.acked = q.acked
       /\ r.next = q.next /\ r.max = q.max /\ r.status = q.status
       /\ r.full = q.full /\ r.expired = q.expired
       /\ r.exceeded = q.exceeded /\ r.unsubscribed = g
  BY <1>1, <1>5, <1>7, <1>8 DEF DestinationQueue
<1>12. Accounted(r)
  BY <1>2, <1>5, <1>9, <1>11, Zenon DEF Accounted
<1>13. Limited(r)
  BY <1>1, <1>2, <1>5, <1>11, Parts DEF Limited
<1>14. QueueInv(r)
  BY <1>10, <1>11, <1>12, <1>13, Parts, Zenon DEF QueueInv
<1> QED
  BY <1>11, <1>14 DEF r

\* A time stays a natural number,
LEMMA LaterType ==
    ASSUME NEW n \in Nat
    PROVE  Later(n) \in Nat
BY DEF Later

\* ... an indication that grows older keeps its number,
LEMMA AgedEffect ==
    ASSUME NEW w \in Seq(Indication)
    PROVE  /\ Aged(w) \in Seq(Indication) /\ Len(Aged(w)) = Len(w)
           /\ \A j \in 1..Len(w) : Aged(w)[j].seq = w[j].seq
           /\ Aged(w) = <<>> <=> w = <<>>
<1>1. Len(w) \in Nat /\ DOMAIN w = 1..Len(w)
  BY LenProperties
<1>2. \A j \in 1..Len(w) :
          LET i == [w[j] EXCEPT !.age = Later(@), !.idle = Later(@)]
          IN i \in Indication /\ i.seq = w[j].seq
  <2> SUFFICES ASSUME NEW j \in 1..Len(w)
               PROVE  LET i == [w[j] EXCEPT !.age = Later(@), !.idle = Later(@)]
                      IN i \in Indication /\ i.seq = w[j].seq
    OBVIOUS
  <2> DEFINE v == w[j]
             x == Later(v.age)
             y == Later(v.idle)
             i == [v EXCEPT !.age = x, !.idle = y]
  <2>1. v \in Indication
    BY ElementOfSeq
  <2>2. v.age \in Nat /\ v.idle \in Nat
    BY <2>1 DEF Indication
  <2>3. x \in Nat /\ y \in Nat
    BY <2>2, LaterType
  <2> HIDE DEF x, y, v
  <2>4. i \in Indication /\ i.seq = v.seq
    BY <2>1, <2>3 DEF Indication
  <2> QED
    BY <2>4 DEF x, y, v
<1>3. Aged(w) \in [1..Len(w) -> Indication]
  BY <1>1, <1>2 DEF Aged
<1>4. Aged(w) \in Seq(Indication) /\ Len(Aged(w)) = Len(w)
  BY <1>1, <1>3, SequenceOf, Zenon
<1>5. \A j \in 1..Len(w) : Aged(w)[j].seq = w[j].seq
  BY <1>1, <1>2 DEF Aged
<1>6. \A s \in Seq(Indication) : s = <<>> <=> Len(s) = 0
  BY EmptySeq
<1> QED
  BY <1>4, <1>5, <1>6

\* ... and a queue its order.
LEMMA AgedKeeps ==
    ASSUME NEW q, QueueInv(q)
    PROVE  /\ QueueInv(AgedQueue(q))
           /\ AgedQueue(q).status = q.status
           /\ AgedQueue(q).handed = <<>> <=> q.handed = <<>>
<1> DEFINE w == Aged(q.waiting)
           h == Aged(q.handed)
           x == Later(q.age)
           r == AgedQueue(q)
<1>1. /\ w \in Seq(Indication) /\ Len(w) = Len(q.waiting)
      /\ \A j \in 1..Len(w) : w[j].seq = q.waiting[j].seq
      /\ h \in Seq(Indication) /\ Len(h) = Len(q.handed)
      /\ \A j \in 1..Len(h) : h[j].seq = q.handed[j].seq
      /\ h = <<>> <=> q.handed = <<>>
  BY Parts, AgedEffect
<1>2. q.handed # <<>> => h[1].seq = q.handed[1].seq
  <2>1. q.handed # <<>> => 1 \in 1..Len(q.handed)
    BY Parts, EmptySeq
  <2> QED
    BY <1>1, <2>1
<1>3. q \in DestinationQueue
  BY Parts
<1>4. x \in Nat
  BY <1>3, LaterType DEF DestinationQueue
<1>5. r = [q EXCEPT !.waiting = w, !.handed = h, !.age = x]
  BY DEF AgedQueue
<1> HIDE DEF w, h, x, r
<1>6. Ordered(w, h, q.acked, q.next)
  BY <1>1, <1>2, Parts DEF Ordered
<1>7. /\ r \in DestinationQueue
      /\ r.waiting = w /\ r.handed = h /\ r.acked = q.acked
      /\ r.next = q.next /\ r.max = q.max /\ r.status = q.status
      /\ r.full = q.full /\ r.expired = q.expired
      /\ r.exceeded = q.exceeded /\ r.unsubscribed = q.unsubscribed
  BY <1>1, <1>3, <1>4, <1>5 DEF DestinationQueue
<1>8. Accounted(r)
  <2>1. q.next = Total(Cardinality(q.acked), Len(q.handed), Len(q.waiting),
                       q.full, q.expired, q.exceeded, q.unsubscribed)
    BY Counts, Zenon
  <2>2. /\ Len(r.waiting) = Len(q.waiting) /\ Len(r.handed) = Len(q.handed)
        /\ Cardinality(r.acked) = Cardinality(q.acked)
    BY <1>1, <1>7, Zenon
  <2> QED
    BY <1>7, <2>1, <2>2, Zenon DEF Accounted
<1>9. Limited(r) /\ Len(r.handed) <= 1
  BY <1>1, <1>7, Parts DEF Limited
<1>10. QueueInv(r)
  BY <1>1, <1>6, <1>7, <1>8, <1>9, Parts, Zenon DEF QueueInv
<1> QED
  BY <1>1, <1>7, <1>10 DEF r

-----------------------------------------------------------------------------
(* The inductive invariant.                                                 *)

Pending(d) == queue[d].status = "pending"

\* Every queue is in order, and one that waits for a delivery is in the table.
QueuesInv ==
    /\ queue \in [Destinations -> DestinationQueue]
    /\ \A d \in Destinations : QueueInv(queue[d])
    /\ \A d \in Destinations : Pending(d) => d \in table

\* The dispatcher passes over the queues of the table, which nobody cleans up
\* meanwhile; one worker cleans up at a time; workers know what they handle.
LocksInv ==
    /\ dispatcher.pc = "scanning" =>
           writer = NoOne /\ dispatcher.toScan \subseteq table
    /\ \A w \in Workers :
           worker[w].pc \in {"sweeping", "dropping", "closing"} <=> w = writer
    /\ \A w \in Workers :
           /\ worker[w].pc \in {"enqueueing", "creating"} =>
                  worker[w].sub \in Subscriptions
           /\ worker[w].pc \in {"enqueueing", "creating", "dropping", "closing"}
                  => worker[w].dest \in Destinations

\* Exactly the pending queues have an indication out, each in one place.
PlacesInv ==
    /\ \A d \in Destinations :
           Pending(d) <=>
               \/ \E j \in 1..Len(deliveryQueue) : deliveryQueue[j] = d
               \/ \E t \in DeliveryThreads : thread[t] = d
    /\ \A j, k \in 1..Len(deliveryQueue) :
           deliveryQueue[j] = deliveryQueue[k] => j = k
    /\ \A t, u \in DeliveryThreads :
           thread[t] = thread[u] /\ thread[t] \in Destinations => t = u
    /\ \A j \in 1..Len(deliveryQueue), t \in DeliveryThreads :
           deliveryQueue[j] # thread[t]

IInv == TypeOK /\ QueuesInv /\ LocksInv /\ PlacesInv

-----------------------------------------------------------------------------
(* The initial states.                                                      *)

LEMMA InitInv == Init => IInv
<1> SUFFICES ASSUME Init PROVE IInv
  OBVIOUS
<1> USE DEF Init
<1>1. QueuesInv
  <2>1. QueueInv(NewQueue(0)) /\ NewQueue(0).status = "fail"
    BY NewQueueKeeps
  <2>2. NewQueue(0) \in DestinationQueue
    BY <2>1 DEF QueueInv
  <2> QED
    BY <2>1, <2>2 DEF QueuesInv, Pending
<1>2. TypeOK
  <2>1. IdleWorker \in WorkerStates
    BY DEF IdleWorker, WorkerStates
  <2>2. deliveryQueue \in Seq(Destinations)
    OBVIOUS
  <2>3. attempts \in RetryAttempts
    OBVIOUS
  <2> QED
    BY <1>1, <2>1, <2>2, <2>3 DEF TypeOK, QueuesInv
<1>3. LocksInv
  BY NamesAssumption DEF LocksInv, IdleWorker
<1>4. PlacesInv
  <2>1. Len(deliveryQueue) = 0
    OBVIOUS
  <2>2. \A t \in DeliveryThreads : thread[t] = "off" /\ "off" \notin Destinations
    BY NamesAssumption
  <2>3. \A d \in Destinations : ~Pending(d)
    BY NewQueueKeeps DEF Pending
  <2> QED
    BY <2>1, <2>2, <2>3 DEF PlacesInv
<1> QED
  BY <1>1, <1>2, <1>3, <1>4 DEF IInv

-----------------------------------------------------------------------------
(* The queues stay in order.                                                *)

\* One queue is replaced by a queue in order.
LEMMA QueueReplaced ==
    ASSUME QueuesInv, NEW d \in Destinations, NEW r, QueueInv(r),
           queue' = [queue EXCEPT ![d] = r],
           r.status = "pending" => d \in table',
           \A e \in table : e # d => e \in table'
    PROVE  QueuesInv'
<1>1. r \in DestinationQueue
  BY DEF QueueInv
<1>2. queue' \in [Destinations -> DestinationQueue]
  BY <1>1 DEF QueuesInv
<1>3. \A e \in Destinations : queue'[e] = IF e = d THEN r ELSE queue[e]
  BY DEF QueuesInv
<1>4. \A e \in Destinations : QueueInv(queue'[e])
  BY <1>3 DEF QueuesInv
<1>5. \A e \in Destinations : queue'[e].status = "pending" => e \in table'
  BY <1>3 DEF QueuesInv, Pending
<1> QED
  BY <1>2, <1>4, <1>5 DEF QueuesInv, Pending

LEMMA QueuesUnchanged ==
    ASSUME QueuesInv, UNCHANGED <<table, queue>>
    PROVE  QueuesInv'
BY DEF QueuesInv, Pending

\* attempts is a natural number.
LEMMA AttemptsType ==
    ASSUME TypeOK
    PROVE  attempts \in Nat
BY LimitsAssumption DEF TypeOK

\* A queue is emptied and deleted.
LEMMA QueueDeleted ==
    ASSUME QueuesInv, NEW d \in Destinations, DeleteQueue(d)
    PROVE  QueuesInv'
<1>1. QueueInv(NewQueue(0)) /\ NewQueue(0).status # "pending"
  BY NewQueueKeeps
<1>2. queue' = [queue EXCEPT ![d] = NewQueue(0)]
      /\ \A e \in table : e # d => e \in table'
  BY DEF DeleteQueue
<1> QED
  BY <1>1, <1>2, QueueReplaced

\* Every step keeps the queues in order.
LEMMA QueuesStep ==
    ASSUME TypeOK, QueuesInv, LocksInv, PlacesInv, Next
    PROVE  QueuesInv'
<1>0. QueuesInv
  OBVIOUS
<1>1. ASSUME NEW w \in Workers, Enqueue(w)
      PROVE  QueuesInv'
  <2> DEFINE d == worker[w].dest
  <2>1. worker[w].pc = "enqueueing"
    BY <1>1 DEF Enqueue
  <2>2. d \in Destinations /\ worker[w].sub \in Subscriptions
    BY <2>1 DEF LocksInv
  <2>3. CASE d \notin table
    <3>1. UNCHANGED <<table, queue>>
      BY <1>1, <2>3 DEF Enqueue
    <3> QED
      BY <3>1, QueuesUnchanged
  <2>4. CASE d \in table
    <3> DEFINE r == Enqueued(queue[d], worker[w].sub)
    <3>1. queue' = [queue EXCEPT ![d] = r] /\ table' = table
      BY <1>1, <2>4 DEF Enqueue
    <3>2. QueueInv(queue[d])
      BY <2>2 DEF QueuesInv
    <3>3. QueueInv(r)
      BY <2>2, <3>2, EnqueuedKeeps, Zenon
    <3> HIDE DEF r
    <3> QED
      BY <1>0, <2>2, <2>4, <3>1, <3>3, QueueReplaced
  <2> QED
    BY <2>3, <2>4
<1>2. ASSUME NEW w \in Workers, CreateAndEnqueue(w)
      PROVE  QueuesInv'
  <2> DEFINE d == worker[w].dest
             q == IF d \in table THEN queue[d] ELSE NewQueue(worker[w].context)
             r == Enqueued(q, worker[w].sub)
  <2>1. worker[w].pc = "creating"
    BY <1>2 DEF CreateAndEnqueue
  <2>2. d \in Destinations /\ worker[w].sub \in Subscriptions
    BY <2>1 DEF LocksInv
  <2>3. queue' = [queue EXCEPT ![d] = r] /\ table' = table \cup {d}
    BY <1>2 DEF CreateAndEnqueue
  <2>4. worker[w].context \in Nat
    BY DEF TypeOK, WorkerStates
  <2>5. QueueInv(q)
    BY <2>2, <2>4, NewQueueKeeps DEF QueuesInv
  <2>6. QueueInv(r)
    BY <2>2, <2>5, EnqueuedKeeps, Zenon
  <2> HIDE DEF r
  <2> QED
    BY <1>0, <2>2, <2>3, <2>6, QueueReplaced
<1>3. ASSUME NEW w \in Workers, NEW d \in Destinations, SweepQueue(w, d)
      PROVE  QueuesInv'
  <2>1. DeleteQueue(d)
    BY <1>3 DEF SweepQueue
  <2> QED
    BY <1>0, <2>1, QueueDeleted
<1>4. ASSUME NEW w \in Workers, DeleteMatchedIndications(w)
      PROVE  QueuesInv'
  <2> DEFINE d == worker[w].dest
  <2>1. worker[w].pc = "dropping"
    BY <1>4 DEF DeleteMatchedIndications
  <2>2. d \in Destinations
    BY <2>1 DEF LocksInv
  <2>3. CASE d \notin table
    <3>1. UNCHANGED <<table, queue>>
      BY <1>4, <2>3 DEF DeleteMatchedIndications
    <3> QED
      BY <3>1, QueuesUnchanged
  <2>4. CASE d \in table
    <3>1. PICK n \in 0..Len(queue[d].waiting) :
          \E f \in [1..n -> 1..Len(queue[d].waiting)] :
              /\ KeepsOthers(queue[d], worker[w].sub, f)
              /\ queue' = [queue EXCEPT ![d] = Without(queue[d], f)]
      BY <1>4, <2>4 DEF DeleteMatchedIndications
    <3>2. PICK f \in [1..n -> 1..Len(queue[d].waiting)] :
              /\ KeepsOthers(queue[d], worker[w].sub, f)
              /\ queue' = [queue EXCEPT ![d] = Without(queue[d], f)]
      BY <3>1
    <3> DEFINE r == Without(queue[d], f)
    <3>3. QueueInv(queue[d])
      BY <2>2 DEF QueuesInv
    <3>4. QueueInv(r)
      BY <3>2, <3>3, WithoutKeeps, Zenon
    <3>5. queue' = [queue EXCEPT ![d] = r] /\ table' = table
      BY <1>4, <3>2 DEF DeleteMatchedIndications
    <3> HIDE DEF r
    <3> QED
      BY <1>0, <2>2, <2>4, <3>4, <3>5, QueueReplaced
  <2> QED
    BY <2>3, <2>4
<1>5. ASSUME NEW w \in Workers, CloseQueue(w)
      PROVE  QueuesInv'
  <2> DEFINE d == worker[w].dest
  <2>1. worker[w].pc = "closing"
    BY <1>5 DEF CloseQueue
  <2>2. d \in Destinations
    BY <2>1 DEF LocksInv
  <2>3. DeleteQueue(d) \/ UNCHANGED <<table, queue>>
    BY <1>5 DEF CloseQueue
  <2> QED
    BY <1>0, <2>2, <2>3, QueueDeleted, QueuesUnchanged
<1>6. ASSUME NEW d \in Destinations, ScanQueue(d)
      PROVE  QueuesInv'
  <2>1. d \in table /\ table' = table
    BY <1>6 DEF ScanQueue, LocksInv
  <2>2. QueueInv(queue[d])
    BY DEF QueuesInv
  <2>3. CASE queue[d].status = "pending"
    <3>1. UNCHANGED <<table, queue>>
      BY <1>6, <2>3 DEF ScanQueue
    <3> QED
      BY <3>1, QueuesUnchanged
  <2>4. CASE queue[d].status # "pending"
    <3>1. PICK k \in 0..Len(queue[d].waiting) :
            LET q == WithoutFront(queue[d], k)
            IN /\ ExpiredAtFront(queue[d].waiting, k)
               /\ IF q.waiting # <<>> /\ Due(Head(q.waiting))
                  THEN /\ queue' = [queue EXCEPT ![d] = HandOut(q)]
                       /\ deliveryQueue' = Append(deliveryQueue, d)
                       /\ MayStartThread
                  ELSE /\ queue' = [queue EXCEPT ![d] = q]
                       /\ UNCHANGED <<deliveryQueue, thread>>
      BY <1>6, <2>4 DEF ScanQueue
    <3> DEFINE q == WithoutFront(queue[d], k)
    <3>2. QueueInv(q) /\ q.status = queue[d].status
      BY <2>2, WithoutFrontKeeps, Zenon
    <3>3. \/ queue' = [queue EXCEPT ![d] = q]
          \/ q.waiting # <<>> /\ queue' = [queue EXCEPT ![d] = HandOut(q)]
      BY <3>1
    <3> HIDE DEF q
    <3>4. CASE queue' = [queue EXCEPT ![d] = q]
      BY <1>0, <2>1, <3>2, <3>4, QueueReplaced
    <3>5. CASE q.waiting # <<>> /\ queue' = [queue EXCEPT ![d] = HandOut(q)]
      <4> DEFINE r == HandOut(q)
      <4>1. QueueInv(r)
        BY <2>4, <3>2, <3>5, AttemptsType, HandOutKeeps, Zenon
      <4>2. queue' = [queue EXCEPT ![d] = r]
        BY <3>5
      <4> HIDE DEF r
      <4> QED
        BY <1>0, <2>1, <4>1, <4>2, QueueReplaced
    <3> QED
      BY <3>3, <3>4, <3>5
  <2> QED
    BY <2>3, <2>4
<1>7. ASSUME NEW t \in DeliveryThreads, DeliverIndication(t)
      PROVE  QueuesInv'
  <2> DEFINE d == thread[t]
  <2>1. d \in Destinations /\ table' = table
    BY <1>7 DEF DeliverIndication
  <2>2. QueueInv(queue[d]) /\ queue[d].status = "pending"
    BY <2>1 DEF QueuesInv, PlacesInv, Pending
  <2>3. attempts \in Nat
    BY AttemptsType
  <2>4. PICK r : /\ QueueInv(r) /\ r.status # "pending"
                 /\ queue' = [queue EXCEPT ![d] = r]
    <3>1. \/ queue' = [queue EXCEPT ![d] = Delivered(queue[d])]
          \/ queue' = [queue EXCEPT ![d] = NotDelivered(queue[d])]
      BY <1>7 DEF DeliverIndication
    <3>2. /\ QueueInv(Delivered(queue[d]))
          /\ Delivered(queue[d]).status # "pending"
      BY <2>2, DeliveredKeeps
    <3>3. /\ QueueInv(NotDelivered(queue[d]))
          /\ NotDelivered(queue[d]).status # "pending"
      BY <2>2, <2>3, NotDeliveredKeeps
    <3> QED
      BY <3>1, <3>2, <3>3
  <2> QED
    BY <1>0, <2>1, <2>4, QueueReplaced
<1>8. CASE Tick
  <2>1. queue' = [d \in Destinations |->
                     IF d \in table THEN AgedQueue(queue[d]) ELSE queue[d]]
        /\ table' = table
    BY <1>8 DEF Tick
  <2>2. \A d \in Destinations :
            /\ QueueInv(queue'[d])
            /\ queue'[d].status = queue[d].status
    BY <2>1, AgedKeeps DEF QueuesInv
  <2>3. \A d \in Destinations : queue'[d] \in DestinationQueue
    BY <2>2 DEF QueueInv
  <2>4. queue' \in [Destinations -> DestinationQueue]
    BY <2>1, <2>3
  <2> QED
    BY <2>1, <2>2, <2>4 DEF QueuesInv, Pending
<1>9. ASSUME NEW w \in Workers,
             \/ MarkForCleanup(w) \/ DeliverDirectly(w) \/ BeginSweep(w)
             \/ EndSweep(w) \/ Request(w)
      PROVE  UNCHANGED <<table, queue>>
  BY <1>9 DEF MarkForCleanup, DeliverDirectly, BeginSweep, EndSweep, Request,
              HandleIndication, SubscriptionNotActive, ListenerNotActive,
              SetRetryAttempts, DeleteService
<1>10. ASSUME BeginPass \/ EndPass \/ StopDispatcher
       PROVE  UNCHANGED <<table, queue>>
  BY <1>10 DEF BeginPass, EndPass, StopDispatcher
<1>11. ASSUME NEW t \in DeliveryThreads, FetchIndication(t) \/ EndThread(t)
       PROVE  UNCHANGED <<table, queue>>
  BY <1>11 DEF FetchIndication, EndThread
<1>12. ASSUME NEW w \in Workers, Work(w) \/ Request(w)
       PROVE  QueuesInv'
  BY <1>0, <1>1, <1>2, <1>3, <1>4, <1>5, <1>9, <1>12, QueuesUnchanged DEF Work
<1>13. ASSUME Dispatch \/ StopDispatcher
       PROVE  QueuesInv'
  BY <1>0, <1>6, <1>10, <1>13, QueuesUnchanged DEF Dispatch
<1>14. ASSUME NEW t \in DeliveryThreads, Deliver(t)
       PROVE  QueuesInv'
  BY <1>0, <1>7, <1>11, <1>14, QueuesUnchanged DEF Deliver
<1> QED
  BY <1>8, <1>12, <1>13, <1>14 DEF Next

-----------------------------------------------------------------------------
(* The types.                                                               *)

\* A worker goes on: to another point, to the start, or to the clean-up.
LEMMA WorkerMoves ==
    ASSUME worker \in [Workers -> WorkerStates], NEW w \in Workers,
           NEW pc \in {"marking", "creating", "sweepWait", "sweeping"}
    PROVE  /\ [worker EXCEPT ![w].pc = pc] \in [Workers -> WorkerStates]
           /\ [worker EXCEPT ![w] = IdleWorker] \in [Workers -> WorkerStates]
           /\ [worker EXCEPT ![w] = [IdleWorker EXCEPT !.pc = "sweepWait"]]
                  \in [Workers -> WorkerStates]
<1>1. IdleWorker \in WorkerStates
  BY DEF IdleWorker, WorkerStates
<1>2. [IdleWorker EXCEPT !.pc = "sweepWait"] \in WorkerStates
  BY DEF IdleWorker, WorkerStates
<1>3. [worker[w] EXCEPT !.pc = pc] \in WorkerStates
  BY DEF WorkerStates
<1> QED
  BY <1>1, <1>2, <1>3

\* What is left of TypeOK when the queues are in order.
RestTypeOK ==
    /\ table \subseteq Destinations
    /\ deliveryQueue \in Seq(Destinations)
    /\ thread \in [DeliveryThreads ->
                       Destinations \cup {"off", "fetching", "ending"}]
    /\ dispatcher \in [pc : {"waiting", "scanning", "stopped", "gone"},
                       toScan : SUBSET Destinations]
    /\ writer \in Workers \cup {NoOne}
    /\ attempts \in RetryAttempts
    /\ needCleanup \in BOOLEAN
    /\ listener \in [Destinations -> Nat]
    /\ arrivals \in Nat

\* Every step of a worker keeps the types.
LEMMA WorkerTypes ==
    ASSUME TypeOK, QueuesInv, LocksInv, NEW w \in Workers, Work(w) \/ Request(w)
    PROVE  RestTypeOK' /\ worker' \in [Workers -> WorkerStates]
<1>1. RestTypeOK /\ worker \in [Workers -> WorkerStates]
  BY DEF TypeOK, RestTypeOK
<1>2. CASE \E s \in Subscriptions : HandleIndication(w, s)
  <2> PICK s \in Subscriptions : HandleIndication(w, s)
    BY <1>2
  <2> DEFINE pc == IF attempts > 0 THEN "enqueueing" ELSE "direct"
             new == [pc |-> pc, sub |-> s, dest |-> DestinationOf[s],
                     context |-> listener[DestinationOf[s]]]
  <2>1. pc \in {"enqueueing", "direct"}
    OBVIOUS
  <2>2. /\ DestinationOf[s] \in Destinations
        /\ listener[DestinationOf[s]] \in Nat
    BY <1>1, NamesAssumption DEF RestTypeOK
  <2> HIDE DEF pc
  <2>3. new \in WorkerStates
    BY <2>1, <2>2 DEF WorkerStates
  <2>4. worker' = [worker EXCEPT ![w] = new] /\ arrivals' = arrivals + 1
    BY DEF HandleIndication, pc
  <2> HIDE DEF new
  <2>5. worker' \in [Workers -> WorkerStates] /\ arrivals' \in Nat
    BY <1>1, <2>3, <2>4 DEF RestTypeOK
  <2> QED
    BY <1>1, <2>5 DEF HandleIndication, RestTypeOK
<1>3. CASE Enqueue(w)
  <2>1. UNCHANGED <<table, deliveryQueue, thread, dispatcher, writer,
                    attempts, needCleanup, listener, arrivals>>
    BY <1>3 DEF Enqueue
  <2>2. \/ worker' = [worker EXCEPT ![w].pc = "marking"]
        \/ worker' = [worker EXCEPT ![w].pc = "creating"]
    BY <1>3 DEF Enqueue
  <2>3. worker' \in [Workers -> WorkerStates]
    BY <1>1, <2>2, WorkerMoves
  <2>4. RestTypeOK'
    BY <1>1, <2>1 DEF RestTypeOK
  <2> QED
    BY <2>3, <2>4
<1>4. CASE CreateAndEnqueue(w)
  <2>1. worker[w].dest \in Destinations
    BY <1>4 DEF CreateAndEnqueue, LocksInv
  <2>2. UNCHANGED <<deliveryQueue, thread, dispatcher, writer, attempts,
                    needCleanup, listener, arrivals>>
        /\ table' = table \cup {worker[w].dest}
        /\ worker' = [worker EXCEPT ![w].pc = "marking"]
    BY <1>4 DEF CreateAndEnqueue
  <2> QED
    BY <1>1, <2>1, <2>2, WorkerMoves DEF RestTypeOK
<1>5. CASE MarkForCleanup(w) \/ DeliverDirectly(w) \/ BeginSweep(w) \/ EndSweep(w)
  <2>1. /\ UNCHANGED <<table, deliveryQueue, thread, dispatcher, attempts,
                       listener, arrivals>>
        /\ needCleanup' \in {needCleanup, TRUE, FALSE}
        /\ writer' \in {writer, w, NoOne}
    BY <1>5 DEF MarkForCleanup, DeliverDirectly, BeginSweep, EndSweep
  <2>2. \/ worker' = [worker EXCEPT ![w] = IdleWorker]
        \/ worker' = [worker EXCEPT ![w] = [IdleWorker EXCEPT !.pc = "sweepWait"]]
        \/ worker' = [worker EXCEPT ![w].pc = "sweeping"]
    <3>1. CASE MarkForCleanup(w) \/ EndSweep(w)
      BY <3>1 DEF MarkForCleanup, EndSweep
    <3>2. CASE DeliverDirectly(w)
      BY <3>2 DEF DeliverDirectly
    <3>3. CASE BeginSweep(w)
      BY <3>3 DEF BeginSweep
    <3> QED
      BY <1>5, <3>1, <3>2, <3>3
  <2>3. worker' \in [Workers -> WorkerStates]
    BY <1>1, <2>2, WorkerMoves
  <2>4. RestTypeOK'
    BY <1>1, <2>1 DEF RestTypeOK
  <2> QED
    BY <2>3, <2>4
<1>6. CASE \E d \in Destinations : SweepQueue(w, d)
  <2> PICK d \in Destinations : SweepQueue(w, d)
    BY <1>6
  <2>1. table' = table \ {d}
    BY DEF SweepQueue, DeleteQueue
  <2> QED
    BY <1>1, <2>1 DEF SweepQueue, RestTypeOK
<1>7. CASE DeleteMatchedIndications(w)
  <2>1. UNCHANGED <<table, deliveryQueue, thread, dispatcher, attempts,
                    needCleanup, listener, arrivals>>
        /\ writer' = NoOne /\ worker' = [worker EXCEPT ![w] = IdleWorker]
    BY <1>7 DEF DeleteMatchedIndications
  <2> QED
    BY <1>1, <2>1, WorkerMoves DEF RestTypeOK
<1>8. CASE CloseQueue(w)
  <2> DEFINE d == worker[w].dest
  <2>1. d \in Destinations
    BY <1>8 DEF CloseQueue, LocksInv
  <2>2. table' \subseteq Destinations
    <3>1. CASE d \in table
      <4>1. DeleteQueue(d)
        BY <1>8, <3>1 DEF CloseQueue
      <4> QED
        BY <1>1, <4>1 DEF DeleteQueue, RestTypeOK
    <3>2. CASE d \notin table
      BY <1>1, <1>8, <3>2 DEF CloseQueue, RestTypeOK
    <3> QED
      BY <3>1, <3>2
  <2>3. UNCHANGED <<deliveryQueue, thread, dispatcher, attempts, needCleanup,
                    arrivals>>
        /\ writer' = NoOne /\ worker' = [worker EXCEPT ![w] = IdleWorker]
        /\ listener' = [listener EXCEPT ![d] = @ + 1]
    BY <1>8 DEF CloseQueue
  <2>4. listener' \in [Destinations -> Nat]
    <3>1. listener[d] + 1 \in Nat
      BY <1>1, <2>1 DEF RestTypeOK
    <3> QED
      BY <1>1, <2>3, <3>1 DEF RestTypeOK
  <2> QED
    BY <1>1, <2>2, <2>3, <2>4, WorkerMoves DEF RestTypeOK
<1>9. CASE \E s \in Subscriptions : SubscriptionNotActive(w, s)
  <2> PICK s \in Subscriptions : SubscriptionNotActive(w, s)
    BY <1>9
  <2> DEFINE new == [pc |-> "dropping", sub |-> s, dest |-> DestinationOf[s],
                     context |-> 0]
  <2>1. new \in WorkerStates
    BY NamesAssumption DEF WorkerStates
  <2>2. worker' = [worker EXCEPT ![w] = new]
    BY DEF SubscriptionNotActive
  <2> HIDE DEF new
  <2>3. worker' \in [Workers -> WorkerStates]
    BY <1>1, <2>1, <2>2
  <2> QED
    BY <1>1, <2>3 DEF SubscriptionNotActive, RestTypeOK
<1>10. CASE \E d \in Destinations : ListenerNotActive(w, d)
  <2> PICK d \in Destinations : ListenerNotActive(w, d)
    BY <1>10
  <2> DEFINE new == [pc |-> "closing", sub |-> NoOne, dest |-> d, context |-> 0]
  <2>1. new \in WorkerStates
    BY DEF WorkerStates
  <2>2. worker' = [worker EXCEPT ![w] = new]
    BY DEF ListenerNotActive
  <2> HIDE DEF new
  <2>3. worker' \in [Workers -> WorkerStates]
    BY <1>1, <2>1, <2>2
  <2> QED
    BY <1>1, <2>3 DEF ListenerNotActive, RestTypeOK
<1>11. CASE \E n \in RetryAttempts : SetRetryAttempts(w, n)
  BY <1>1, <1>11 DEF SetRetryAttempts, RestTypeOK
<1>12. CASE DeleteService(w)
  <2>1. worker' \in [Workers -> WorkerStates]
    BY <1>1, <1>12, WorkerMoves DEF DeleteService
  <2>2. dispatcher' \in [pc : {"waiting", "scanning", "stopped", "gone"},
                         toScan : SUBSET Destinations]
    BY <1>1, <1>12 DEF DeleteService, RestTypeOK
  <2> QED
    BY <1>1, <1>12, <2>1, <2>2 DEF DeleteService, RestTypeOK
<1> QED
  BY <1>2, <1>3, <1>4, <1>5, <1>6, <1>7, <1>8, <1>9, <1>10, <1>11, <1>12
     DEF Work, Request

\* ... and every step of the other threads and of the clock.
LEMMA ThreadTypes ==
    ASSUME TypeOK, QueuesInv, LocksInv,
           \/ Dispatch \/ StopDispatcher
           \/ \E t \in DeliveryThreads : Deliver(t)
           \/ Tick
    PROVE  RestTypeOK' /\ worker' \in [Workers -> WorkerStates]
<1>1. RestTypeOK /\ worker \in [Workers -> WorkerStates]
  BY DEF TypeOK, RestTypeOK
<1>2. CASE BeginPass \/ EndPass \/ StopDispatcher
  <2>1. /\ dispatcher.toScan \in SUBSET Destinations
        /\ table \in SUBSET Destinations
        /\ dispatcher \in [pc : {"waiting", "scanning", "stopped", "gone"},
                           toScan : SUBSET Destinations]
    BY <1>1 DEF RestTypeOK
  <2>2. dispatcher' \in [pc : {"waiting", "scanning", "stopped", "gone"},
                         toScan : SUBSET Destinations]
    <3>1. CASE BeginPass
      BY <2>1, <3>1 DEF BeginPass
    <3>2. CASE EndPass
      BY <2>1, <3>2 DEF EndPass
    <3>3. CASE StopDispatcher
      BY <2>1, <3>3 DEF StopDispatcher
    <3> QED
      BY <1>2, <3>1, <3>2, <3>3
  <2>3. UNCHANGED <<table, deliveryQueue, thread, worker, writer, attempts,
                    needCleanup, listener, arrivals>>
    BY <1>2 DEF BeginPass, EndPass, StopDispatcher
  <2> QED
    BY <1>1, <2>2, <2>3 DEF RestTypeOK
<1>3. CASE \E d \in Destinations : ScanQueue(d)
  <2> PICK d \in Destinations : ScanQueue(d)
    BY <1>3
  <2>1. /\ \/ UNCHANGED <<deliveryQueue, thread>>
           \/ deliveryQueue' = Append(deliveryQueue, d) /\ MayStartThread
    BY DEF ScanQueue
  <2>2. /\ dispatcher' = [dispatcher EXCEPT !.toScan = @ \ {d}]
        /\ UNCHANGED <<table, worker, writer, attempts, needCleanup, listener,
                       arrivals>>
    BY DEF ScanQueue
  <2>3. dispatcher' \in [pc : {"waiting", "scanning", "stopped", "gone"},
                         toScan : SUBSET Destinations]
    BY <1>1, <2>2 DEF RestTypeOK
  <2>4. deliveryQueue' \in Seq(Destinations)
    <3>1. deliveryQueue \in Seq(Destinations)
      BY <1>1 DEF RestTypeOK
    <3>2. Append(deliveryQueue, d) \in Seq(Destinations)
      BY <3>1, AppendProperties
    <3> QED
      BY <2>1, <3>1, <3>2
  <2>5. thread' \in [DeliveryThreads ->
                         Destinations \cup {"off", "fetching", "ending"}]
    BY <1>1, <2>1 DEF RestTypeOK, MayStartThread
  <2> QED
    BY <1>1, <2>2, <2>3, <2>4, <2>5 DEF RestTypeOK
<1>4. CASE \E t \in DeliveryThreads : Deliver(t)
  <2> PICK t \in DeliveryThreads : Deliver(t)
    BY <1>4
  <2>1. CASE FetchIndication(t)
    <3>1. CASE deliveryQueue = <<>>
      BY <1>1, <2>1, <3>1 DEF FetchIndication, RestTypeOK
    <3>2. CASE deliveryQueue # <<>>
      <4>1. /\ Head(deliveryQueue) \in Destinations
            /\ Tail(deliveryQueue) \in Seq(Destinations)
        BY <1>1, <3>2, HeadTailProperties DEF RestTypeOK
      <4> QED
        BY <1>1, <2>1, <3>2, <4>1 DEF FetchIndication, RestTypeOK
    <3> QED
      BY <3>1, <3>2
  <2>2. CASE DeliverIndication(t)
    BY <1>1, <2>2 DEF DeliverIndication, RestTypeOK
  <2>3. CASE EndThread(t)
    BY <1>1, <2>3 DEF EndThread, RestTypeOK
  <2> QED
    BY <2>1, <2>2, <2>3 DEF Deliver
<1>5. CASE Tick
  BY <1>1, <1>5 DEF Tick, RestTypeOK
<1> QED
  BY <1>2, <1>3, <1>4, <1>5 DEF Dispatch

-----------------------------------------------------------------------------
(* The lock of the table.                                                   *)

\* Every step keeps the lock of the table with its holder.
LEMMA LocksStep ==
    ASSUME TypeOK, QueuesInv, LocksInv, Next
    PROVE  LocksInv'
<1>1. /\ worker \in [Workers -> WorkerStates] /\ NoOne \notin Workers
      /\ table \subseteq Destinations
      /\ dispatcher \in [pc : {"waiting", "scanning", "stopped", "gone"},
                         toScan : SUBSET Destinations]
  BY NamesAssumption DEF TypeOK
<1>2. ASSUME NEW w \in Workers, NEW s \in Subscriptions, HandleIndication(w, s)
      PROVE  LocksInv'
  <2> DEFINE pc == IF attempts > 0 THEN "enqueueing" ELSE "direct"
             new == [pc |-> pc, sub |-> s, dest |-> DestinationOf[s],
                     context |-> listener[DestinationOf[s]]]
  <2>1. /\ new.pc \in {"enqueueing", "direct"} /\ new.sub \in Subscriptions
        /\ new.dest \in Destinations
    BY NamesAssumption
  <2>2. /\ worker' = [worker EXCEPT ![w] = new] /\ worker[w].pc = "idle"
        /\ UNCHANGED <<table, dispatcher, writer>>
    BY <1>2 DEF HandleIndication
  <2> HIDE DEF new
  <2>3. \A v \in Workers : worker'[v] = IF v = w THEN new ELSE worker[v]
    BY <1>1, <2>2
  <2> QED
    BY <2>1, <2>2, <2>3 DEF LocksInv
<1>3. ASSUME NEW w \in Workers, Enqueue(w)
      PROVE  LocksInv'
  <2>1. PICK pc \in {"marking", "creating"} :
            worker' = [worker EXCEPT ![w].pc = pc]
    BY <1>3 DEF Enqueue
  <2>2. \A v \in Workers :
            /\ worker'[v].pc = IF v = w THEN pc ELSE worker[v].pc
            /\ worker'[v].sub = worker[v].sub
            /\ worker'[v].dest = worker[v].dest
    BY <1>1, <2>1 DEF WorkerStates
  <2>3. worker[w].pc = "enqueueing" /\ UNCHANGED <<table, dispatcher, writer>>
    BY <1>3 DEF Enqueue
  <2> QED
    BY <2>2, <2>3 DEF LocksInv
<1>4. ASSUME NEW w \in Workers, CreateAndEnqueue(w)
      PROVE  LocksInv'
  <2>1. worker' = [worker EXCEPT ![w].pc = "marking"]
    BY <1>4 DEF CreateAndEnqueue
  <2>2. \A v \in Workers :
            /\ worker'[v].pc = IF v = w THEN "marking" ELSE worker[v].pc
            /\ worker'[v].sub = worker[v].sub
            /\ worker'[v].dest = worker[v].dest
    BY <1>1, <2>1 DEF WorkerStates
  <2>3. /\ worker[w].pc = "creating" /\ NoReader
        /\ UNCHANGED <<dispatcher, writer>>
    BY <1>4 DEF CreateAndEnqueue
  <2> QED
    BY <2>2, <2>3 DEF LocksInv, NoReader
<1>5. ASSUME NEW w \in Workers, MarkForCleanup(w) \/ DeliverDirectly(w)
      PROVE  LocksInv'
  <2>1. PICK new : worker' = [worker EXCEPT ![w] = new]
                   /\ new.pc \in {"idle", "sweepWait"}
    BY <1>5 DEF MarkForCleanup, DeliverDirectly, IdleWorker
  <2>2. \A v \in Workers : worker'[v] = IF v = w THEN new ELSE worker[v]
    BY <1>1, <2>1
  <2>3. /\ worker[w].pc \in {"marking", "direct"}
        /\ UNCHANGED <<table, dispatcher, writer>>
    BY <1>5 DEF MarkForCleanup, DeliverDirectly
  <2> QED
    BY <2>1, <2>2, <2>3 DEF LocksInv
<1>6. ASSUME NEW w \in Workers, BeginSweep(w)
      PROVE  LocksInv'
  <2>1. worker' = [worker EXCEPT ![w].pc = "sweeping"]
    BY <1>6 DEF BeginSweep
  <2>2. \A v \in Workers :
            /\ worker'[v].pc = IF v = w THEN "sweeping" ELSE worker[v].pc
            /\ worker'[v].sub = worker[v].sub
            /\ worker'[v].dest = worker[v].dest
    BY <1>1, <2>1 DEF WorkerStates
  <2>3. /\ writer = NoOne /\ writer' = w /\ NoReader
        /\ UNCHANGED <<table, dispatcher>>
    BY <1>6 DEF BeginSweep
  <2> QED
    BY <1>1, <2>2, <2>3 DEF LocksInv, NoReader
<1>7. ASSUME NEW w \in Workers, NEW d \in Destinations, SweepQueue(w, d)
      PROVE  LocksInv'
  BY <1>1, <1>7 DEF SweepQueue, LocksInv
<1>8. ASSUME NEW w \in Workers,
             EndSweep(w) \/ DeleteMatchedIndications(w) \/ CloseQueue(w)
      PROVE  LocksInv'
  <2>1. /\ worker' = [worker EXCEPT ![w] = IdleWorker]
        /\ writer = w /\ writer' = NoOne /\ UNCHANGED dispatcher
    BY <1>8 DEF EndSweep, DeleteMatchedIndications, CloseQueue
  <2>2. \A v \in Workers : worker'[v] = IF v = w THEN IdleWorker ELSE worker[v]
    BY <1>1, <2>1
  <2>3. dispatcher.pc # "scanning"
    BY <1>1, <2>1 DEF LocksInv
  <2> QED
    BY <1>1, <2>1, <2>2, <2>3 DEF LocksInv, IdleWorker
<1>9. ASSUME NEW w \in Workers,
             \/ \E s \in Subscriptions : SubscriptionNotActive(w, s)
             \/ \E d \in Destinations : ListenerNotActive(w, d)
      PROVE  LocksInv'
  <2>1. PICK new : /\ worker' = [worker EXCEPT ![w] = new]
                   /\ new.pc \in {"dropping", "closing"}
                   /\ new.dest \in Destinations
    <3>1. CASE \E s \in Subscriptions : SubscriptionNotActive(w, s)
      <4> PICK s \in Subscriptions : SubscriptionNotActive(w, s)
        BY <3>1
      <4> WITNESS [pc |-> "dropping", sub |-> s, dest |-> DestinationOf[s],
                   context |-> 0]
      <4> QED
        BY NamesAssumption DEF SubscriptionNotActive
    <3>2. CASE \E d \in Destinations : ListenerNotActive(w, d)
      <4> PICK d \in Destinations : ListenerNotActive(w, d)
        BY <3>2
      <4> WITNESS [pc |-> "closing", sub |-> NoOne, dest |-> d, context |-> 0]
      <4> QED
        BY DEF ListenerNotActive
    <3> QED
      BY <1>9, <3>1, <3>2
  <2>2. \A v \in Workers : worker'[v] = IF v = w THEN new ELSE worker[v]
    BY <1>1, <2>1
  <2>3. /\ writer = NoOne /\ writer' = w /\ NoReader
        /\ UNCHANGED <<table, dispatcher>>
    BY <1>9 DEF SubscriptionNotActive, ListenerNotActive
  <2> QED
    BY <1>1, <2>1, <2>2, <2>3 DEF LocksInv, NoReader
<1>10. ASSUME NEW w \in Workers, NEW n \in RetryAttempts, SetRetryAttempts(w, n)
       PROVE  LocksInv'
  BY <1>10 DEF SetRetryAttempts, LocksInv
<1>11. ASSUME NEW w \in Workers, DeleteService(w)
       PROVE  LocksInv'
  <2>1. PICK new : worker' = [worker EXCEPT ![w] = new]
                   /\ new.pc \in {"idle", "sweepWait"}
    <3> WITNESS IF needCleanup THEN [IdleWorker EXCEPT !.pc = "sweepWait"]
                ELSE IdleWorker
    <3> QED
      BY <1>11 DEF DeleteService, IdleWorker
  <2>2. \A v \in Workers : worker'[v] = IF v = w THEN new ELSE worker[v]
    BY <1>1, <2>1
  <2>3. /\ worker[w].pc = "idle" /\ dispatcher'.pc = "gone"
        /\ UNCHANGED <<table, writer>>
    BY <1>1, <1>11 DEF DeleteService
  <2> QED
    BY <2>1, <2>2, <2>3 DEF LocksInv
<1>12. ASSUME BeginPass
       PROVE  LocksInv'
  BY <1>12 DEF BeginPass, LocksInv
<1>13. ASSUME NEW d \in Destinations, ScanQueue(d)
       PROVE  LocksInv'
  <2>1. dispatcher'.pc = dispatcher.pc
        /\ dispatcher'.toScan = dispatcher.toScan \ {d}
        /\ UNCHANGED <<table, worker, writer>>
    BY <1>1, <1>13 DEF ScanQueue
  <2> QED
    BY <2>1 DEF LocksInv
<1>14. ASSUME EndPass \/ StopDispatcher
       PROVE  LocksInv'
  <2>1. dispatcher'.pc # "scanning" /\ UNCHANGED <<table, worker, writer>>
    BY <1>1, <1>14 DEF EndPass, StopDispatcher
  <2> QED
    BY <2>1 DEF LocksInv
<1>15. ASSUME \/ Tick \/ \E t \in DeliveryThreads : Deliver(t)
       PROVE  LocksInv'
  <2>1. UNCHANGED <<table, dispatcher, worker, writer>>
    BY <1>15 DEF Tick, Deliver, FetchIndication, DeliverIndication, EndThread
  <2> QED
    BY <2>1 DEF LocksInv
<1>16. ASSUME NEW w \in Workers, Work(w)
       PROVE  LocksInv'
  BY <1>3, <1>4, <1>5, <1>6, <1>7, <1>8, <1>16 DEF Work
<1>17. ASSUME NEW w \in Workers, Request(w)
       PROVE  LocksInv'
  BY <1>2, <1>9, <1>10, <1>11, <1>17 DEF Request
<1>18. ASSUME Dispatch \/ StopDispatcher
       PROVE  LocksInv'
  BY <1>12, <1>13, <1>14, <1>18 DEF Dispatch
<1> QED
  BY <1>15, <1>16, <1>17, <1>18 DEF Next

-----------------------------------------------------------------------------
(* Where the indications are that were handed out.                          *)

\* Nothing is handed out, taken or given back.
LEMMA PlacesUnchanged ==
    ASSUME PlacesInv, UNCHANGED <<deliveryQueue, thread>>,
           \A d \in Destinations :
               queue'[d].status = "pending" <=> queue[d].status = "pending"
    PROVE  PlacesInv'
BY DEF PlacesInv, Pending

\* One queue changes, and is pending as before.
LEMMA PlacesReplaced ==
    ASSUME PlacesInv, QueuesInv, UNCHANGED <<deliveryQueue, thread>>,
           NEW d \in Destinations, NEW r, queue' = [queue EXCEPT ![d] = r],
           r.status = "pending" <=> queue[d].status = "pending"
    PROVE  PlacesInv'
<1>1. \A e \in Destinations : queue'[e] = IF e = d THEN r ELSE queue[e]
  BY DEF QueuesInv
<1> QED
  BY <1>1, PlacesUnchanged

\* No step of a worker hands out, takes or gives back an indication.
LEMMA WorkerPlaces ==
    ASSUME TypeOK, QueuesInv, LocksInv, PlacesInv,
           NEW w \in Workers, Work(w) \/ Request(w)
    PROVE  PlacesInv'
<1> DEFINE d == worker[w].dest
<1>0. QueuesInv /\ PlacesInv
  OBVIOUS
<1>1. UNCHANGED <<deliveryQueue, thread>>
  <2>1. CASE Work(w)
    BY <2>1 DEF Work, Enqueue, CreateAndEnqueue, MarkForCleanup,
                DeliverDirectly, BeginSweep, EndSweep, SweepQueue,
                DeleteMatchedIndications, CloseQueue
  <2>2. CASE Request(w)
    BY <2>2 DEF Request, HandleIndication, SubscriptionNotActive,
                ListenerNotActive, SetRetryAttempts, DeleteService
  <2> QED
    BY <2>1, <2>2
<1>2. CASE Enqueue(w)
  <2>1. d \in Destinations /\ worker[w].sub \in Subscriptions
    BY <1>2 DEF Enqueue, LocksInv
  <2>2. CASE d \in table
    <3> DEFINE r == Enqueued(queue[d], worker[w].sub)
    <3>1. queue' = [queue EXCEPT ![d] = r]
      BY <1>2, <2>2 DEF Enqueue
    <3>2. QueueInv(queue[d])
      BY <2>1 DEF QueuesInv
    <3>3. r.status = queue[d].status
      BY <2>1, <3>2, EnqueuedKeeps, Zenon
    <3> HIDE DEF r
    <3> QED
      BY <1>0, <1>1, <2>1, <3>1, <3>3, PlacesReplaced
  <2>3. CASE d \notin table
    <3>1. UNCHANGED queue
      BY <1>2, <2>3 DEF Enqueue
    <3> QED
      BY <1>0, <1>1, <3>1, PlacesUnchanged
  <2> QED
    BY <2>2, <2>3
<1>3. CASE CreateAndEnqueue(w)
  <2> DEFINE q == IF d \in table THEN queue[d] ELSE NewQueue(worker[w].context)
             r == Enqueued(q, worker[w].sub)
  <2>1. d \in Destinations /\ worker[w].sub \in Subscriptions
    BY <1>3 DEF CreateAndEnqueue, LocksInv
  <2>2. queue' = [queue EXCEPT ![d] = r]
    BY <1>3 DEF CreateAndEnqueue
  <2>3. worker[w].context \in Nat
    BY DEF TypeOK, WorkerStates
  <2>4. QueueInv(q)
    BY <2>1, <2>3, NewQueueKeeps DEF QueuesInv
  <2>5. r.status = q.status
    BY <2>1, <2>4, EnqueuedKeeps, Zenon
  <2>6. q.status = "pending" <=> queue[d].status = "pending"
    BY <2>1, <2>3, NewQueueKeeps DEF QueuesInv, Pending
  <2> HIDE DEF r, q
  <2> QED
    BY <1>0, <1>1, <2>1, <2>2, <2>5, <2>6, PlacesReplaced
<1>4. ASSUME NEW e \in Destinations, e \in table, Settled(e), DeleteQueue(e)
      PROVE  PlacesInv'
  <2> DEFINE r == NewQueue(0)
  <2>1. queue' = [queue EXCEPT ![e] = r]
    BY <1>4 DEF DeleteQueue
  <2>2. r.status # "pending" /\ queue[e].status # "pending"
    BY <1>4, NewQueueKeeps DEF Settled
  <2> HIDE DEF r
  <2> QED
    BY <1>0, <1>1, <2>1, <2>2, PlacesReplaced
<1>5. CASE \E e \in Destinations : SweepQueue(w, e)
  BY <1>4, <1>5 DEF SweepQueue
<1>6. CASE DeleteMatchedIndications(w)
  <2>1. d \in Destinations
    BY <1>6 DEF DeleteMatchedIndications, LocksInv
  <2>2. CASE d \in table
    <3>1. PICK n \in 0..Len(queue[d].waiting) :
          \E f \in [1..n -> 1..Len(queue[d].waiting)] :
              /\ KeepsOthers(queue[d], worker[w].sub, f)
              /\ queue' = [queue EXCEPT ![d] = Without(queue[d], f)]
      BY <1>6, <2>2 DEF DeleteMatchedIndications
    <3>2. PICK f \in [1..n -> 1..Len(queue[d].waiting)] :
              /\ KeepsOthers(queue[d], worker[w].sub, f)
              /\ queue' = [queue EXCEPT ![d] = Without(queue[d], f)]
      BY <3>1
    <3> DEFINE r == Without(queue[d], f)
    <3>3. QueueInv(queue[d])
      BY <2>1 DEF QueuesInv
    <3>4. r.status = queue[d].status
      BY <3>2, <3>3, WithoutKeeps, Zenon
    <3>5. queue' = [queue EXCEPT ![d] = r]
      BY <3>2
    <3> HIDE DEF r
    <3> QED
      BY <1>0, <1>1, <2>1, <3>4, <3>5, PlacesReplaced
  <2>3. CASE d \notin table
    <3>1. UNCHANGED queue
      BY <1>6, <2>3 DEF DeleteMatchedIndications
    <3> QED
      BY <1>0, <1>1, <3>1, PlacesUnchanged
  <2> QED
    BY <2>2, <2>3
<1>7. CASE CloseQueue(w)
  <2>1. d \in Destinations /\ Settled(d)
    BY <1>7 DEF CloseQueue, LocksInv
  <2>2. CASE d \in table
    <3>1. DeleteQueue(d)
      BY <1>7, <2>2 DEF CloseQueue
    <3> QED
      BY <1>4, <2>1, <2>2, <3>1
  <2>3. CASE d \notin table
    <3>1. UNCHANGED queue
      BY <1>7, <2>3 DEF CloseQueue
    <3> QED
      BY <1>0, <1>1, <3>1, PlacesUnchanged
  <2> QED
    BY <2>2, <2>3
<1>8. CASE \/ MarkForCleanup(w) \/ DeliverDirectly(w) \/ BeginSweep(w)
           \/ EndSweep(w) \/ Request(w)
  <2>1. UNCHANGED queue
    BY <1>8 DEF MarkForCleanup, DeliverDirectly, BeginSweep, EndSweep, Request,
                HandleIndication, SubscriptionNotActive, ListenerNotActive,
                SetRetryAttempts, DeleteService
  <2> QED
    BY <1>0, <1>1, <2>1, PlacesUnchanged
<1> QED
  BY <1>2, <1>3, <1>5, <1>6, <1>7, <1>8 DEF Work

\* A pass over one queue hands out at most its first indication, and only if
\* none is out.
LEMMA ScanPlaces ==
    ASSUME TypeOK, QueuesInv, LocksInv, PlacesInv,
           NEW d \in Destinations, ScanQueue(d)
    PROVE  PlacesInv'
<1>0. QueuesInv /\ PlacesInv
  OBVIOUS
<1>1. QueueInv(queue[d]) /\ attempts \in Nat
  BY AttemptsType DEF QueuesInv
<1>2. CASE queue[d].status = "pending"
  <2>1. UNCHANGED <<queue, deliveryQueue, thread>>
    BY <1>2 DEF ScanQueue
  <2> QED
    BY <1>0, <2>1, PlacesUnchanged
<1>3. CASE queue[d].status # "pending"
  <2>1. PICK k \in 0..Len(queue[d].waiting) :
          LET q == WithoutFront(queue[d], k)
          IN /\ ExpiredAtFront(queue[d].waiting, k)
             /\ IF q.waiting # <<>> /\ Due(Head(q.waiting))
                THEN /\ queue' = [queue EXCEPT ![d] = HandOut(q)]
                     /\ deliveryQueue' = Append(deliveryQueue, d)
                     /\ MayStartThread
                ELSE /\ queue' = [queue EXCEPT ![d] = q]
                     /\ UNCHANGED <<deliveryQueue, thread>>
    BY <1>3 DEF ScanQueue
  <2> DEFINE q == WithoutFront(queue[d], k)
             r == HandOut(q)
  <2>2. QueueInv(q) /\ q.status = queue[d].status
    BY <1>1, WithoutFrontKeeps, Zenon
  <2>3. \/ queue' = [queue EXCEPT ![d] = q] /\ UNCHANGED <<deliveryQueue, thread>>
        \/ /\ q.waiting # <<>> /\ queue' = [queue EXCEPT ![d] = r]
           /\ deliveryQueue' = Append(deliveryQueue, d) /\ MayStartThread
    BY <2>1
  <2> HIDE DEF q
  <2>4. q.waiting # <<>> => r.status = "pending"
    BY <1>1, <1>3, <2>2, HandOutKeeps, Zenon
  <2> HIDE DEF r
  <2>5. CASE /\ queue' = [queue EXCEPT ![d] = q]
             /\ UNCHANGED <<deliveryQueue, thread>>
    BY <1>0, <2>2, <2>5, PlacesReplaced
  <2>6. CASE /\ q.waiting # <<>> /\ queue' = [queue EXCEPT ![d] = r]
             /\ deliveryQueue' = Append(deliveryQueue, d) /\ MayStartThread
    <3>1. \A e \in Destinations : queue'[e] = IF e = d THEN r ELSE queue[e]
      BY <2>6 DEF QueuesInv
    <3>2. \A e \in Destinations : Pending(e)' <=> Pending(e) \/ e = d
      BY <2>4, <2>6, <3>1 DEF Pending
    <3>3. /\ deliveryQueue \in Seq(Destinations) /\ Len(deliveryQueue) \in Nat
          /\ Len(deliveryQueue') = Len(deliveryQueue) + 1
          /\ \A j \in 1..Len(deliveryQueue) : deliveryQueue'[j] = deliveryQueue[j]
          /\ deliveryQueue'[Len(deliveryQueue) + 1] = d
      <4>1. deliveryQueue \in Seq(Destinations)
        BY DEF TypeOK
      <4> QED
        BY <2>6, <4>1, AppendProperties, LenProperties
    <3>4. \A t \in DeliveryThreads :
              \/ thread'[t] = thread[t]
              \/ thread'[t] \notin Destinations /\ thread[t] \notin Destinations
      BY <2>6, NamesAssumption DEF MayStartThread, TypeOK
    <3>5. /\ \A j \in 1..Len(deliveryQueue) : deliveryQueue[j] # d
          /\ \A t \in DeliveryThreads : thread[t] # d
      BY <1>3 DEF PlacesInv, Pending
    <3>6. \A j \in 1..Len(deliveryQueue') :
              /\ j \in 1..Len(deliveryQueue) \/ j = Len(deliveryQueue) + 1
              /\ deliveryQueue'[j] \in Destinations
      BY <3>3, ElementOfSeq
    <3>7. \A e \in Destinations :
              (\E t \in DeliveryThreads : thread'[t] = e) <=>
                  \E t \in DeliveryThreads : thread[t] = e
      BY <3>4
    <3>8. \A e \in Destinations :
              (\E j \in 1..Len(deliveryQueue') : deliveryQueue'[j] = e) <=>
                  e = d \/ \E j \in 1..Len(deliveryQueue) : deliveryQueue[j] = e
      <4>1. /\ Len(deliveryQueue) + 1 \in 1..Len(deliveryQueue')
            /\ \A j \in 1..Len(deliveryQueue) : j \in 1..Len(deliveryQueue')
        BY <3>3
      <4> QED
        BY <3>3, <3>6, <4>1
    <3>9. \A e \in Destinations :
              Pending(e)' <=>
                  \/ \E j \in 1..Len(deliveryQueue') : deliveryQueue'[j] = e
                  \/ \E t \in DeliveryThreads : thread'[t] = e
      BY <3>2, <3>7, <3>8 DEF PlacesInv
    <3>10. \A j, l \in 1..Len(deliveryQueue') :
               deliveryQueue'[j] = deliveryQueue'[l] => j = l
      BY <3>3, <3>5, <3>6 DEF PlacesInv
    <3>11. \A t, u \in DeliveryThreads :
               thread'[t] = thread'[u] /\ thread'[t] \in Destinations => t = u
      BY <3>4 DEF PlacesInv
    <3>12. \A j \in 1..Len(deliveryQueue'), t \in DeliveryThreads :
               deliveryQueue'[j] # thread'[t]
      BY <3>3, <3>4, <3>5, <3>6 DEF PlacesInv
    <3> QED
      BY <3>9, <3>10, <3>11, <3>12 DEF PlacesInv
  <2> QED
    BY <2>3, <2>5, <2>6
<1> QED
  BY <1>2, <1>3

\* A thread takes the first indication that was handed out.
LEMMA FetchPlaces ==
    ASSUME TypeOK, QueuesInv, PlacesInv,
           NEW t \in DeliveryThreads, FetchIndication(t)
    PROVE  PlacesInv'
<1>1. /\ deliveryQueue \in Seq(Destinations) /\ Len(deliveryQueue) \in Nat
      /\ thread \in [DeliveryThreads ->
                         Destinations \cup {"off", "fetching", "ending"}]
      /\ thread[t] = "fetching" /\ UNCHANGED queue
      /\ "fetching" \notin Destinations /\ "ending" \notin Destinations
  BY NamesAssumption, LenProperties DEF TypeOK, FetchIndication
<1>2. \A e \in Destinations : Pending(e)' <=> Pending(e)
  BY <1>1 DEF Pending
<1>3. CASE deliveryQueue = <<>>
  <2>1. deliveryQueue' = deliveryQueue
        /\ thread' = [thread EXCEPT ![t] = "ending"]
    BY <1>3 DEF FetchIndication
  <2>2. \A u \in DeliveryThreads :
            thread'[u] = IF u = t THEN "ending" ELSE thread[u]
    BY <1>1, <2>1
  <2>3. Len(deliveryQueue) = 0
    BY <1>3
  <2> QED
    BY <1>1, <1>2, <2>1, <2>2, <2>3 DEF PlacesInv
<1>4. CASE deliveryQueue # <<>>
  <2> DEFINE d == Head(deliveryQueue)
             n == Len(deliveryQueue)
  <2>1. /\ deliveryQueue' = Tail(deliveryQueue)
        /\ thread' = [thread EXCEPT ![t] = d]
    BY <1>4 DEF FetchIndication
  <2>2. /\ d \in Destinations /\ d = deliveryQueue[1] /\ n \in Nat /\ n > 0
        /\ Len(deliveryQueue') = n - 1
        /\ \A j \in 1..(n - 1) : deliveryQueue'[j] = deliveryQueue[j + 1]
    BY <1>1, <1>4, <2>1, HeadTailProperties, EmptySeq
  <2>3. \A u \in DeliveryThreads : thread'[u] = IF u = t THEN d ELSE thread[u]
    BY <1>1, <2>1
  <2>4. \A j \in 1..n : j = 1 \/ (j - 1 \in 1..(n - 1) /\ (j - 1) + 1 = j)
    BY <2>2
  <2>5. \A j \in 1..(n - 1) : j + 1 \in 1..n /\ j + 1 # 1
    BY <2>2
  <2>6. 1 \in 1..n
    BY <2>2
  <2> HIDE DEF d, n
  <2>7. \A e \in Destinations :
            (\E j \in 1..Len(deliveryQueue) : deliveryQueue[j] = e) <=>
                e = d \/ \E j \in 1..(n - 1) : deliveryQueue'[j] = e
    <3> SUFFICES ASSUME NEW e \in Destinations
                 PROVE  (\E j \in 1..n : deliveryQueue[j] = e) <=>
                            e = d \/ \E j \in 1..(n - 1) : deliveryQueue'[j] = e
      BY DEF n
    <3>1. ASSUME NEW j \in 1..n, deliveryQueue[j] = e
          PROVE  e = d \/ \E k \in 1..(n - 1) : deliveryQueue'[k] = e
      <4>1. CASE j = 1
        BY <2>2, <3>1, <4>1
      <4>2. CASE j - 1 \in 1..(n - 1) /\ (j - 1) + 1 = j
        <5>1. deliveryQueue'[j - 1] = e
          BY <2>2, <3>1, <4>2
        <5> QED
          BY <4>2, <5>1
      <4> QED
        BY <2>4, <4>1, <4>2
    <3>2. ASSUME NEW j \in 1..(n - 1), deliveryQueue'[j] = e
          PROVE  \E k \in 1..n : deliveryQueue[k] = e
      BY <2>2, <2>5, <3>2
    <3>3. e = d => \E k \in 1..n : deliveryQueue[k] = e
      BY <2>2, <2>6
    <3> QED
      BY <3>1, <3>2, <3>3
  <2>8. \A e \in Destinations :
            (\E u \in DeliveryThreads : thread'[u] = e) <=>
                e = d \/ \E u \in DeliveryThreads : thread[u] = e
    BY <1>1, <2>3
  <2>9. \A e \in Destinations :
            Pending(e)' <=>
                \/ \E j \in 1..(n - 1) : deliveryQueue'[j] = e
                \/ \E u \in DeliveryThreads : thread'[u] = e
    BY <1>2, <2>7, <2>8 DEF PlacesInv
  <2>10. \A j, k \in 1..(n - 1) :
             deliveryQueue'[j] = deliveryQueue'[k] => j = k
    <3> SUFFICES ASSUME NEW j \in 1..(n - 1), NEW k \in 1..(n - 1),
                        deliveryQueue'[j] = deliveryQueue'[k]
                 PROVE  j = k
      OBVIOUS
    <3>1. deliveryQueue[j + 1] = deliveryQueue[k + 1]
      BY <2>2
    <3>2. j + 1 = k + 1
      BY <2>5, <3>1 DEF PlacesInv, n
    <3> QED
      BY <2>2, <3>2
  <2>11. \A u \in DeliveryThreads : thread[u] # d
    BY <2>2, <2>6 DEF PlacesInv, n
  <2>12. \A u, v \in DeliveryThreads :
             thread'[u] = thread'[v] /\ thread'[u] \in Destinations => u = v
    BY <2>3, <2>11 DEF PlacesInv
  <2>13. \A j \in 1..(n - 1) : deliveryQueue'[j] # d
    BY <2>2, <2>5, <2>6 DEF PlacesInv, n
  <2>14. \A j \in 1..(n - 1), u \in DeliveryThreads :
             deliveryQueue'[j] # thread'[u]
    BY <2>2, <2>3, <2>5, <2>13 DEF PlacesInv, n
  <2>15. Len(deliveryQueue') = n - 1
    BY <2>2
  <2> QED
    BY <2>9, <2>10, <2>12, <2>14, <2>15 DEF PlacesInv
<1> QED
  BY <1>3, <1>4

\* A thread brings its result, or ends.
LEMMA DeliverPlaces ==
    ASSUME TypeOK, QueuesInv, PlacesInv,
           NEW t \in DeliveryThreads, DeliverIndication(t) \/ EndThread(t)
    PROVE  PlacesInv'
<1>1. /\ thread \in [DeliveryThreads ->
                         Destinations \cup {"off", "fetching", "ending"}]
      /\ Destinations \cap {"off", "fetching", "ending"} = {}
      /\ deliveryQueue' = deliveryQueue
  BY NamesAssumption DEF TypeOK, DeliverIndication, EndThread
<1>2. CASE DeliverIndication(t)
  <2> DEFINE d == thread[t]
  <2>1. d \in Destinations /\ thread' = [thread EXCEPT ![t] = "fetching"]
    BY <1>2 DEF DeliverIndication
  <2>2. QueueInv(queue[d]) /\ queue[d].status = "pending" /\ attempts \in Nat
    BY <2>1, AttemptsType DEF QueuesInv, PlacesInv, Pending
  <2>3. PICK r : /\ r.status # "pending"
                 /\ queue' = [queue EXCEPT ![d] = r]
    <3>1. \/ queue' = [queue EXCEPT ![d] = Delivered(queue[d])]
          \/ queue' = [queue EXCEPT ![d] = NotDelivered(queue[d])]
      BY <1>2 DEF DeliverIndication
    <3>2. Delivered(queue[d]).status # "pending"
      BY <2>2, DeliveredKeeps
    <3>3. NotDelivered(queue[d]).status # "pending"
      BY <2>2, NotDeliveredKeeps
    <3> QED
      BY <3>1, <3>2, <3>3
  <2>4. \A e \in Destinations : Pending(e)' <=> Pending(e) /\ e # d
    BY <2>1, <2>3 DEF QueuesInv, Pending
  <2>5. \A u \in DeliveryThreads :
            thread'[u] = IF u = t THEN "fetching" ELSE thread[u]
    BY <1>1, <2>1
  <2>6. /\ \A u \in DeliveryThreads : thread[u] = d => u = t
        /\ \A j \in 1..Len(deliveryQueue) : deliveryQueue[j] # d
    BY <2>1 DEF PlacesInv
  <2>7. \A e \in Destinations :
            (\E u \in DeliveryThreads : thread'[u] = e) <=>
                e # d /\ \E u \in DeliveryThreads : thread[u] = e
    BY <1>1, <2>5, <2>6
  <2>8. \A e \in Destinations :
            Pending(e)' <=>
                \/ \E j \in 1..Len(deliveryQueue) : deliveryQueue[j] = e
                \/ \E u \in DeliveryThreads : thread'[u] = e
    BY <2>4, <2>6, <2>7 DEF PlacesInv
  <2>9. \A j \in 1..Len(deliveryQueue) : deliveryQueue[j] \in Destinations
    BY ElementOfSeq DEF TypeOK
  <2> QED
    BY <1>1, <2>5, <2>8, <2>9 DEF PlacesInv
<1>3. CASE EndThread(t)
  <2>1. /\ thread' = [thread EXCEPT ![t] = "off"] /\ UNCHANGED queue
        /\ thread[t] \notin Destinations
    BY <1>1, <1>3 DEF EndThread
  <2>2. \A u \in DeliveryThreads :
            thread'[u] = IF u = t THEN "off" ELSE thread[u]
    BY <1>1, <2>1
  <2>3. \A e \in Destinations :
            /\ Pending(e)' <=> Pending(e)
            /\ (\E u \in DeliveryThreads : thread'[u] = e) <=>
                   \E u \in DeliveryThreads : thread[u] = e
    BY <1>1, <2>1, <2>2 DEF Pending
  <2>4. \A j \in 1..Len(deliveryQueue) : deliveryQueue[j] \in Destinations
    BY ElementOfSeq DEF TypeOK
  <2> QED
    BY <1>1, <2>2, <2>3, <2>4 DEF PlacesInv
<1> QED
  BY <1>2, <1>3

\* Every step keeps each indication that is out in one place.
LEMMA PlacesStep ==
    ASSUME TypeOK, QueuesInv, LocksInv, PlacesInv, Next
    PROVE  PlacesInv'
<1>0. QueuesInv /\ PlacesInv /\ TypeOK /\ LocksInv
  OBVIOUS
<1>1. CASE \E w \in Workers : Work(w) \/ Request(w)
  BY <1>0, <1>1, WorkerPlaces
<1>2. CASE \E d \in Destinations : ScanQueue(d)
  BY <1>0, <1>2, ScanPlaces
<1>3. CASE BeginPass \/ EndPass \/ StopDispatcher
  <2>1. UNCHANGED <<queue, deliveryQueue, thread>>
    BY <1>3 DEF BeginPass, EndPass, StopDispatcher
  <2> QED
    BY <1>0, <2>1, PlacesUnchanged
<1>4. CASE \E t \in DeliveryThreads : Deliver(t)
  BY <1>0, <1>4, FetchPlaces, DeliverPlaces DEF Deliver
<1>5. CASE Tick
  <2>1. UNCHANGED <<deliveryQueue, thread>>
        /\ queue' = [d \in Destinations |->
                        IF d \in table THEN AgedQueue(queue[d]) ELSE queue[d]]
    BY <1>5 DEF Tick
  <2>2. \A d \in Destinations : queue'[d].status = queue[d].status
    BY <2>1, AgedKeeps DEF QueuesInv
  <2> QED
    BY <1>0, <2>1, <2>2, PlacesUnchanged
<1> QED
  BY <1>1, <1>2, <1>3, <1>4, <1>5 DEF Next, Dispatch

-----------------------------------------------------------------------------
(* The inductive invariant holds of every behaviour.                        *)

\* Every step keeps the types.
LEMMA TypesStep ==
    ASSUME TypeOK, QueuesInv, LocksInv, PlacesInv, Next
    PROVE  TypeOK'
<1>1. RestTypeOK' /\ worker' \in [Workers -> WorkerStates]
  BY WorkerTypes, ThreadTypes DEF Next
<1>2. queue' \in [Destinations -> DestinationQueue]
  BY QueuesStep DEF QueuesInv
<1> QED
  BY <1>1, <1>2 DEF RestTypeOK, TypeOK

\* Every step keeps the inductive invariant.
LEMMA NextInv == IInv /\ [Next]_vars => IInv'
<1> SUFFICES ASSUME IInv, [Next]_vars PROVE IInv'
  OBVIOUS
<1>1. TypeOK /\ QueuesInv /\ LocksInv /\ PlacesInv
  BY DEF IInv
<1>2. CASE Next
  BY <1>1, <1>2, TypesStep, QueuesStep, LocksStep, PlacesStep DEF IInv
<1>3. CASE UNCHANGED vars
  <2>1. TypeOK'
    BY <1>1, <1>3 DEF vars, TypeOK
  <2>2. QueuesInv'
    BY <1>1, <1>3, QueuesUnchanged DEF vars
  <2>3. LocksInv'
    BY <1>1, <1>3 DEF vars, LocksInv
  <2>4. PlacesInv'
    BY <1>1, <1>3 DEF vars, PlacesInv, Pending
  <2> QED
    BY <2>1, <2>2, <2>3, <2>4 DEF IInv
<1> QED
  BY <1>2, <1>3

\* The inductive invariant holds of every behaviour.
THEOREM InvHolds == Spec => []IInv
BY InitInv, NextInv, PTL DEF Spec

-----------------------------------------------------------------------------
(* What it says.                                                            *)

\* Every variable keeps its type: the type invariant of the model, for every
\* number of destinations, subscriptions and threads and for all limits.
THEOREM TypesHold == Spec => []TypeOK
<1>1. IInv => TypeOK
  BY DEF IInv
<1> QED
  BY <1>1, InvHolds, PTL

\* The indications still to be delivered are the ones handed out, of which
\* there is at most one, and then those that wait.
LEMMA UndeliveredParts ==
    ASSUME NEW q, QueueInv(q)
    PROVE  LET s == Undelivered(q)
               h == Len(q.handed)
           IN /\ h = 0 \/ h = 1
              /\ h = 1 <=> q.handed # <<>>
              /\ Len(q.waiting) \in Nat
              /\ Len(s) = h + Len(q.waiting)
              /\ h = 1 => s[1] = q.handed[1]
              /\ \A j \in 1..Len(s) :
                     (j # 1 \/ h = 0) =>
                         j - h \in 1..Len(q.waiting) /\ s[j] = q.waiting[j - h]
<1> DEFINE a == q.handed
           b == q.waiting
           s == Undelivered(q)
<1>1. a \in Seq(Indication) /\ b \in Seq(Indication) /\ Len(a) <= 1
  BY DEF QueueInv, DestinationQueue
<1>2. Len(a) \in Nat /\ Len(b) \in Nat /\ (Len(a) = 0 <=> a = <<>>)
  BY <1>1, LenProperties, EmptySeq
<1>3. Len(a \o b) = Len(a) + Len(b)
  BY <1>1, ConcatProperties
<1>4. \A j \in 1..(Len(a) + Len(b)) :
          (a \o b)[j] = IF j <= Len(a) THEN a[j] ELSE b[j - Len(a)]
  BY <1>1, ConcatProperties
<1>5. s = a \o b
  BY DEF Undelivered
<1> HIDE DEF a, b, s
<1>6. Len(a) = 0 \/ Len(a) = 1
  <2>1. Len(a) \in Nat /\ Len(a) <= 1
    BY <1>1, <1>2
  <2> QED
    BY ONLY <2>1
<1>7. Len(a) = 1 => s[1] = a[1]
  BY <1>2, <1>4, <1>5
<1>8. \A j \in 1..Len(s) :
          (j # 1 \/ Len(a) = 0) =>
              j - Len(a) \in 1..Len(b) /\ s[j] = b[j - Len(a)]
  BY <1>2, <1>3, <1>4, <1>5, <1>6
<1>9. Len(a) = 1 <=> a # <<>>
  BY <1>2, <1>6
<1>10. Len(s) = Len(a) + Len(b)
  BY <1>3, <1>5
<1> QED
  BY <1>2, <1>6, <1>7, <1>8, <1>9, <1>10, Zenon DEF a, b, s

\* No indication gets lost without being counted: enqueue, expiry, failed
\* deliveries and the deletion of subscriptions account for every number.
THEOREM LosesNothing == Spec => []EveryIndicationAccounted
<1>1. IInv => EveryIndicationAccounted
  <2> SUFFICES ASSUME IInv, NEW d \in Destinations
               PROVE  LET q == queue[d]
                      IN q.next = Cardinality(q.acked) + Len(Undelivered(q))
                             + q.full + q.expired + q.exceeded + q.unsubscribed
    BY DEF EveryIndicationAccounted
  <2> DEFINE q == queue[d]
  <2>1. QueueInv(q)
    BY DEF IInv, QueuesInv
  <2>2. Len(Undelivered(q)) = Len(q.handed) + Len(q.waiting)
    BY <2>1, UndeliveredParts
  <2>3. /\ Cardinality(q.acked) \in Nat /\ Len(q.handed) \in Nat
        /\ Len(q.waiting) \in Nat /\ q.full \in Nat /\ q.expired \in Nat
        /\ q.exceeded \in Nat /\ q.unsubscribed \in Nat
        /\ q.next = Total(Cardinality(q.acked), Len(q.handed),
                          Len(q.waiting), q.full, q.expired, q.exceeded,
                          q.unsubscribed)
    BY <2>1, Counts, Zenon
  <2> DEFINE a == Cardinality(q.acked)
             b == Len(q.handed)
             c == Len(q.waiting)
             u == Len(Undelivered(q))
             e == q.full
             f == q.expired
             g == q.exceeded
             h == q.unsubscribed
             m == q.next
  <2>4. /\ a \in Nat /\ b \in Nat /\ c \in Nat /\ e \in Nat /\ f \in Nat
        /\ g \in Nat /\ h \in Nat /\ m = Total(a, b, c, e, f, g, h)
    BY <2>3, Zenon
  <2>5. u = b + c
    BY <2>2, Zenon
  <2> HIDE DEF a, b, c, u, e, f, g, h, m
  <2>6. m = a + u + e + f + g + h
    BY ONLY <2>4, <2>5 DEF Total
  <2> QED
    BY <2>6, Zenon DEF a, u, e, f, g, h, m
<1> QED
  BY <1>1, InvHolds, PTL

\* Indications are delivered in the order of their arrival, in spite of
\* retries: a failed one goes back to the front of its queue.
THEOREM KeepsOrder == Spec => []DeliveredInOrder
<1>1. IInv => DeliveredInOrder
  <2> SUFFICES ASSUME IInv, NEW d \in Destinations
               PROVE  LET s == Undelivered(queue[d])
                      IN /\ \A j, k \in 1..Len(s) : j < k => s[j].seq < s[k].seq
                         /\ \A n \in queue[d].acked, j \in 1..Len(s) :
                                n < s[j].seq
    BY DEF DeliveredInOrder
  <2> DEFINE q == queue[d]
             s == Undelivered(q)
             h == Len(q.handed)
  <2>1. QueueInv(q)
    BY DEF IInv, QueuesInv
  <2>2. /\ h = 0 \/ h = 1
        /\ h = 1 <=> q.handed # <<>>
        /\ Len(q.waiting) \in Nat
        /\ Len(s) = h + Len(q.waiting)
        /\ h = 1 => s[1] = q.handed[1]
        /\ \A j \in 1..Len(s) :
               (j # 1 \/ h = 0) =>
                   j - h \in 1..Len(q.waiting) /\ s[j] = q.waiting[j - h]
    BY <2>1, UndeliveredParts, Zenon
  <2>3. Ordered(q.waiting, q.handed, q.acked, q.next)
    BY <2>1 DEF QueueInv
  <2> HIDE DEF q, s, h
  <2>4. \A j, k \in 1..Len(s) : j < k => s[j].seq < s[k].seq
    <3> SUFFICES ASSUME NEW j \in 1..Len(s), NEW k \in 1..Len(s), j < k
                 PROVE  s[j].seq < s[k].seq
      OBVIOUS
    <3>0. k # 1
      OBVIOUS
    <3>1. k - h \in 1..Len(q.waiting) /\ s[k] = q.waiting[k - h]
      BY <2>2, <3>0
    <3>2. CASE h = 1 /\ j = 1
      BY <2>2, <2>3, <3>1, <3>2 DEF Ordered
    <3>3. CASE h = 0 \/ j # 1
      <4>1. j - h \in 1..Len(q.waiting) /\ s[j] = q.waiting[j - h]
        BY <2>2, <3>3
      <4>2. j - h < k - h
        BY <2>2
      <4> QED
        BY <2>3, <3>1, <4>1, <4>2 DEF Ordered
    <3> QED
      BY <2>2, <3>2, <3>3
  <2>5. \A n \in q.acked, j \in 1..Len(s) : n < s[j].seq
    BY <2>2, <2>3 DEF Ordered
  <2> QED
    BY <2>4, <2>5 DEF q, s
<1> QED
  BY <1>1, InvHolds, PTL

\* A queue keeps its limit, also right after getSequenceNumber lowered it.
THEOREM KeepsLimit == Spec => []WithinLimit
<1>1. IInv => WithinLimit
  BY DEF IInv, QueuesInv, QueueInv, Limited, WithinLimit
<1> QED
  BY <1>1, InvHolds, PTL

\* Clean-up has the table of queues for itself: the dispatcher does not pass
\* over it, and no second worker cleans up.
THEOREM CleansUpAlone == Spec => []WriterAlone
<1>1. IInv => WriterAlone
  <2> SUFFICES ASSUME IInv, writer # NoOne PROVE WriterAlone
    BY DEF WriterAlone
  <2>1. NoReader
    BY DEF IInv, LocksInv, NoReader
  <2>2. \A w \in Workers :
            worker[w].pc \in {"sweeping", "dropping", "closing"} <=> w = writer
    BY DEF IInv, LocksInv
  <2> QED
    BY <2>1, <2>2 DEF WriterAlone
<1> QED
  BY <1>1, InvHolds, PTL

\* An indication that is handed out is in the delivery queue once or with one
\* thread, and its queue is not deleted meanwhile.
THEOREM HandsOutOnce == Spec => []HandedOutOnce
<1>1. IInv => HandedOutOnce
  <2> SUFFICES ASSUME IInv, NEW d \in Destinations
               PROVE  LET places == {j \in 1..Len(deliveryQueue) :
                                         deliveryQueue[j] = d}
                          threads == {t \in DeliveryThreads : thread[t] = d}
                      IN /\ Cardinality(places) + Cardinality(threads)
                                = Len(queue[d].handed)
                         /\ queue[d].status = "pending"
                                <=> queue[d].handed # <<>>
                         /\ queue[d].handed # <<>> =>
                                d \in table /\ Len(queue[d].handed) = 1
    BY DEF HandedOutOnce
  <2> DEFINE places == {j \in 1..Len(deliveryQueue) : deliveryQueue[j] = d}
             threads == {t \in DeliveryThreads : thread[t] = d}
  <2>1. /\ queue[d].status = "pending" <=> queue[d].handed # <<>>
        /\ queue[d].status = "pending" => d \in table
        /\ QueueInv(queue[d])
    BY DEF IInv, QueuesInv, QueueInv, Pending
  <2>2. PlacesInv
    BY DEF IInv
  <2>3. /\ Len(queue[d].handed) = 0 \/ Len(queue[d].handed) = 1
        /\ Len(queue[d].handed) = 1 <=> queue[d].handed # <<>>
    BY <2>1, UndeliveredParts, Zenon
  <2>4. Cardinality({}) = 0 /\ \A x : Cardinality({x}) = 1
    BY FS_EmptySet, FS_Singleton
  <2>5. CASE queue[d].status # "pending"
    <3>1. places = {} /\ threads = {}
      BY <2>2, <2>5 DEF PlacesInv, Pending
    <3>2. Cardinality(places) + Cardinality(threads) = 0
      BY <2>4, <3>1
    <3>3. Len(queue[d].handed) = 0 /\ ~(queue[d].handed # <<>>)
      BY <2>1, <2>3, <2>5
    <3> QED
      BY <2>1, <2>5, <3>2, <3>3
  <2>6. CASE queue[d].status = "pending"
    <3>1. \/ \E j \in 1..Len(deliveryQueue) : deliveryQueue[j] = d
          \/ \E t \in DeliveryThreads : thread[t] = d
      BY <2>2, <2>6 DEF PlacesInv, Pending
    <3>2. \/ threads = {} /\ \E j : places = {j}
          \/ places = {} /\ \E t : threads = {t}
      <4>1. ASSUME NEW j \in 1..Len(deliveryQueue), deliveryQueue[j] = d
            PROVE  threads = {} /\ places = {j}
        BY <2>2, <4>1 DEF PlacesInv
      <4>2. ASSUME NEW t \in DeliveryThreads, thread[t] = d
            PROVE  places = {} /\ threads = {t}
        BY <2>2, <4>2 DEF PlacesInv
      <4> QED
        BY <3>1, <4>1, <4>2
    <3> HIDE DEF places, threads
    <3>3. Cardinality(places) + Cardinality(threads) = 1
      <4>1. \/ Cardinality(threads) = 0 /\ Cardinality(places) = 1
            \/ Cardinality(places) = 0 /\ Cardinality(threads) = 1
        BY <2>4, <3>2, Zenon
      <4> QED
        BY ONLY <4>1
    <3>4. Len(queue[d].handed) = 1 /\ queue[d].handed # <<>>
      BY <2>1, <2>3, <2>6
    <3> QED
      BY <2>1, <2>6, <3>3, <3>4 DEF places, threads
  <2> QED
    BY <2>5, <2>6
<1> QED
  BY <1>1, InvHolds, PTL

-----------------------------------------------------------------------------
(* No queue is missed by the clean-up.                                      *)

\* No queue is new, the flag stays set, and who is about to set it or cleans
\* up goes on.
LEMMA StillSwept ==
    ASSUME QueuesAreSwept, table' # {} => table # {},
           needCleanup => needCleanup',
           \A v \in Workers : worker[v].pc \in {"marking", "sweeping"} =>
                                  worker'[v].pc \in {"marking", "sweeping"}
    PROVE  QueuesAreSwept'
BY DEF QueuesAreSwept

\* A step of one worker that was neither about to set the flag nor cleaned up.
LEMMA SweptByOthers ==
    ASSUME TypeOK, QueuesAreSwept, NEW w \in Workers, NEW new,
           worker' = [worker EXCEPT ![w] = new],
           worker[w].pc \notin {"marking", "sweeping"},
           table' # {} => table # {}, needCleanup => needCleanup'
    PROVE  QueuesAreSwept'
<1>1. \A v \in Workers : worker'[v] = IF v = w THEN new ELSE worker[v]
  BY DEF TypeOK
<1> QED
  BY <1>1, StillSwept

\* Every step keeps the queues within reach of the clean-up.
LEMMA SweptStep ==
    ASSUME TypeOK, QueuesAreSwept, Next
    PROVE  QueuesAreSwept'
<1>0. TypeOK /\ QueuesAreSwept
  OBVIOUS
<1>1. ASSUME NEW w \in Workers, Enqueue(w) \/ CreateAndEnqueue(w)
      PROVE  QueuesAreSwept'
  <2>1. CASE worker' = [worker EXCEPT ![w].pc = "marking"]
    <3>1. worker'[w].pc = "marking"
      BY <2>1 DEF TypeOK, WorkerStates
    <3> QED
      BY <3>1 DEF QueuesAreSwept
  <2>2. CASE worker' = [worker EXCEPT ![w].pc = "creating"] /\ Enqueue(w)
    <3>1. /\ worker[w].pc = "enqueueing" /\ table' = table
          /\ needCleanup' = needCleanup
          /\ worker' = [worker EXCEPT ![w] =
                            [worker[w] EXCEPT !.pc = "creating"]]
      BY <2>2 DEF Enqueue
    <3> QED
      BY <1>0, <3>1, SweptByOthers
  <2> QED
    BY <1>1, <2>1, <2>2 DEF Enqueue, CreateAndEnqueue
<1>2. ASSUME NEW w \in Workers, MarkForCleanup(w)
      PROVE  QueuesAreSwept'
  BY <1>2 DEF MarkForCleanup, QueuesAreSwept
<1>3. ASSUME NEW w \in Workers, BeginSweep(w)
      PROVE  QueuesAreSwept'
  <2>1. worker'[w].pc = "sweeping"
    BY <1>3 DEF BeginSweep, TypeOK, WorkerStates
  <2> QED
    BY <2>1 DEF QueuesAreSwept
<1>4. ASSUME NEW w \in Workers, EndSweep(w)
      PROVE  QueuesAreSwept'
  BY <1>4 DEF EndSweep, QueuesAreSwept
<1>5. ASSUME NEW w \in Workers, NEW d \in Destinations, SweepQueue(w, d)
      PROVE  QueuesAreSwept'
  BY <1>5 DEF SweepQueue, DeleteQueue, QueuesAreSwept
<1>6. ASSUME NEW w \in Workers,
             \/ DeliverDirectly(w) \/ DeleteMatchedIndications(w)
             \/ CloseQueue(w)
      PROVE  QueuesAreSwept'
  <2>1. /\ worker[w].pc \in {"direct", "dropping", "closing"}
        /\ table' # {} => table # {}
        /\ needCleanup' = needCleanup
        /\ \E new : worker' = [worker EXCEPT ![w] = new]
    BY <1>6 DEF DeliverDirectly, DeleteMatchedIndications, CloseQueue,
                DeleteQueue
  <2>2. PICK new : worker' = [worker EXCEPT ![w] = new]
    BY <2>1
  <2> QED
    BY <1>0, <2>1, <2>2, SweptByOthers
<1>7. ASSUME NEW w \in Workers, Request(w)
      PROVE  QueuesAreSwept'
  <2>1. /\ UNCHANGED <<table, needCleanup>>
        /\ \/ UNCHANGED worker
           \/ /\ worker[w].pc = "idle"
              /\ \E new : worker' = [worker EXCEPT ![w] = new]
    <3>1. CASE \E s \in Subscriptions :
                   HandleIndication(w, s) \/ SubscriptionNotActive(w, s)
      BY <3>1, Zenon DEF HandleIndication, SubscriptionNotActive
    <3>2. CASE \E d \in Destinations : ListenerNotActive(w, d)
      BY <3>2, Zenon DEF ListenerNotActive
    <3>3. CASE \E n \in RetryAttempts : SetRetryAttempts(w, n)
      BY <3>3, Zenon DEF SetRetryAttempts
    <3>4. CASE DeleteService(w)
      BY <3>4, Zenon DEF DeleteService
    <3> QED
      BY <1>7, <3>1, <3>2, <3>3, <3>4 DEF Request
  <2>2. CASE UNCHANGED worker
    BY <1>0, <2>1, <2>2, StillSwept
  <2>3. CASE ~(UNCHANGED worker)
    <3>1. PICK new : worker' = [worker EXCEPT ![w] = new]
      BY <2>1, <2>3
    <3> QED
      BY <1>0, <2>1, <2>3, <3>1, SweptByOthers
  <2> QED
    BY <2>2, <2>3
<1>8. CASE Dispatch \/ StopDispatcher \/ Tick
           \/ \E t \in DeliveryThreads : Deliver(t)
  <2>1. UNCHANGED <<table, worker, needCleanup>>
    BY <1>8 DEF Dispatch, BeginPass, EndPass, ScanQueue, StopDispatcher, Tick,
                Deliver, FetchIndication, DeliverIndication, EndThread
  <2> QED
    BY <1>0, <2>1, StillSwept
<1>9. ASSUME NEW w \in Workers, Work(w)
      PROVE  QueuesAreSwept'
  BY <1>1, <1>2, <1>3, <1>4, <1>5, <1>6, <1>9 DEF Work
<1> QED
  BY <1>7, <1>8, <1>9 DEF Next

\* As long as there are queues, the clean-up that follows when retries are
\* switched off, or the service is deleted, will be asked for, is asked for or
\* is under way: no interleaving of workers that create queues with one that
\* clears the flag leaves a queue behind.
THEOREM MissesNoQueue == Spec => []QueuesAreSwept
<1>1. Init => QueuesAreSwept
  BY DEF Init, QueuesAreSwept
<1>2. TypeOK /\ QueuesAreSwept /\ [Next]_vars => QueuesAreSwept'
  <2>1. UNCHANGED vars /\ QueuesAreSwept => QueuesAreSwept'
    BY DEF vars, QueuesAreSwept
  <2> QED
    BY <2>1, SweptStep
<1> QED
  BY <1>1, <1>2, TypesHold, PTL DEF Spec

-----------------------------------------------------------------------------
(* How long an indication waits.                                            *)

\* An indication that waits and was not tried has no tries; one that was tried
\* waits for at most one interval since, and before its last try at most one
\* interval went by for each of its tries.
WaitingInTime(i, most) ==
    /\ i.age < RetryInterval * (most + 2)
    /\ i.tries <= most
    /\ ~i.tried => i.tries = 0
    /\ i.tried => /\ i.idle <= RetryInterval
                  /\ i.idle <= i.age
                  /\ i.age - i.idle < RetryInterval * (i.tries + 1)

\* ... the try that is under way is not counted yet.
HandedInTime(i, most) ==
    /\ i.age < RetryInterval * (most + 2)
    /\ i.tries <= most
    /\ i.age < RetryInterval * (i.tries + 2)

\* Only the oldest indication of a queue was tried.
InTime(waiting, handed, most) ==
    /\ \A j \in 1..Len(waiting) : WaitingInTime(waiting[j], most)
    /\ \A j \in 1..Len(waiting) : waiting[j].tried => j = 1 /\ handed = <<>>
    /\ \A j, k \in 1..Len(waiting) : j < k => waiting[k].age <= waiting[j].age
    /\ handed # <<>> =>
           /\ HandedInTime(handed[1], most)
           /\ \A j \in 1..Len(waiting) : waiting[j].age <= handed[1].age

QueueInTime(q, most) == InTime(q.waiting, q.handed, most)

\* Multiplication keeps the order,
LEMMA TimesOrder ==
    ASSUME NEW r \in Nat, NEW a \in Nat, NEW b \in Nat, a <= b
    PROVE  r * a <= r * b
OBVIOUS

\* ... one interval more,
LEMMA IntervalMore ==
    ASSUME NEW r \in Nat, NEW a \in Nat, NEW b \in Nat, b = a + 1
    PROVE  r * b = r * a + r
OBVIOUS

\* ... and the intervals that a time holds.
LEMMA Intervals ==
    ASSUME NEW r \in Nat, r > 0, NEW a \in Nat
    PROVE  /\ a \div r \in Nat
           /\ a < r * ((a \div r) + 1)
           /\ \A m \in Nat : a < r * (m + 2) => a \div r <= m + 1
OBVIOUS

\* The fields of an indication.
LEMMA IndicationParts ==
    ASSUME NEW i \in Indication
    PROVE  /\ i.age \in Nat /\ i.idle \in Nat /\ i.tries \in Nat
           /\ i.tried \in BOOLEAN
BY DEF Indication

\* A new indication comes last.
LEMMA InTimeAppend ==
    ASSUME NEW w \in Seq(Indication), NEW h, NEW m \in Nat, InTime(w, h, m),
           h # <<>> => h[1] \in Indication,
           NEW i \in Indication,
           i.age = 0 /\ i.idle = 0 /\ i.tried = FALSE /\ i.tries = 0
    PROVE  InTime(Append(w, i), h, m)
<1> DEFINE v == Append(w, i)
<1>1. Len(w) \in Nat /\ Len(v) = Len(w) + 1
  BY AppendProperties, LenProperties
<1>2. v[Len(w) + 1] = i /\ \A j \in 1..Len(w) : v[j] = w[j]
  BY AppendProperties
<1>3. \A j \in 1..Len(w) : w[j].age \in Nat
  BY ElementOfSeq, IndicationParts
<1>4. WaitingInTime(i, m)
  <2>1. 0 < RetryInterval * (m + 2)
    BY Limits
  <2> QED
    BY <2>1 DEF WaitingInTime
<1> HIDE DEF v
<1>5. \A j \in 1..Len(v) : j \in 1..Len(w) \/ j = Len(w) + 1
  BY <1>1
<1>6. \A j \in 1..Len(v) : WaitingInTime(v[j], m)
  BY <1>2, <1>4, <1>5 DEF InTime
<1>7. \A j \in 1..Len(v) : v[j].tried => j = 1 /\ h = <<>>
  BY <1>2, <1>5 DEF InTime
<1>8. \A j, k \in 1..Len(v) : j < k => v[k].age <= v[j].age
  <2> SUFFICES ASSUME NEW j \in 1..Len(v), NEW k \in 1..Len(v), j < k
               PROVE  v[k].age <= v[j].age
    OBVIOUS
  <2>1. j \in 1..Len(w) /\ v[j].age = w[j].age /\ w[j].age \in Nat
    BY <1>1, <1>2, <1>3
  <2>2. CASE k \in 1..Len(w)
    BY <1>2, <2>1, <2>2 DEF InTime
  <2>3. CASE k = Len(w) + 1
    BY <1>2, <2>1, <2>3
  <2> QED
    BY <1>5, <2>2, <2>3
<1>9. h # <<>> => /\ HandedInTime(h[1], m)
                  /\ \A j \in 1..Len(v) : v[j].age <= h[1].age
  <2>1. h # <<>> => h[1].age \in Nat
    BY IndicationParts
  <2> QED
    BY <1>2, <1>5, <2>1 DEF InTime
<1> QED
  BY <1>6, <1>7, <1>8, <1>9 DEF InTime, v

\* Indications that keep their order after others are gone.
LEMMA InTimeKept ==
    ASSUME NEW w \in Seq(Indication), NEW h, NEW m, NEW v \in Seq(Indication),
           InTime(w, h, m), NEW f \in [1..Len(v) -> 1..Len(w)],
           \A j, k \in 1..Len(v) : j < k => f[j] < f[k],
           \A j \in 1..Len(v) : v[j] = w[f[j]]
    PROVE  InTime(v, h, m)
<1>1. /\ \A j \in 1..Len(v) : f[j] \in 1..Len(w) /\ v[j] = w[f[j]]
      /\ Len(v) \in Nat /\ Len(w) \in Nat
  BY LenProperties
<1>2. \A j \in 1..Len(v) : v[j].tried => j = 1 /\ h = <<>>
  <2> SUFFICES ASSUME NEW j \in 1..Len(v), v[j].tried
               PROVE  j = 1 /\ h = <<>>
    OBVIOUS
  <2>1. f[j] = 1 /\ h = <<>>
    BY <1>1 DEF InTime
  <2>2. 1 \in 1..Len(v) /\ f[1] \in 1..Len(w) /\ (1 < j => f[1] < f[j])
    BY <1>1
  <2> QED
    BY <1>1, <2>1, <2>2
<1>3. \A j \in 1..Len(v) : WaitingInTime(v[j], m)
  BY <1>1 DEF InTime
<1>4. \A j, k \in 1..Len(v) : j < k => v[k].age <= v[j].age
  BY <1>1 DEF InTime
<1>5. h # <<>> => /\ HandedInTime(h[1], m)
                  /\ \A j \in 1..Len(v) : v[j].age <= h[1].age
  BY <1>1 DEF InTime
<1> QED
  BY <1>2, <1>3, <1>4, <1>5 DEF InTime

\* ... when some of the front are gone,
LEMMA InTimeFront ==
    ASSUME NEW w \in Seq(Indication), NEW h, NEW m, NEW k \in 0..Len(w),
           InTime(w, h, m)
    PROVE  InTime(SubSeq(w, k + 1, Len(w)), h, m)
<1> DEFINE v == SubSeq(w, k + 1, Len(w))
           f == [j \in 1..Len(v) |-> j + k]
<1>1. Len(w) \in Nat /\ v \in Seq(Indication) /\ Len(v) = Len(w) - k
  BY LenProperties, SubSeqProperties
<1>2. \A j \in 1..Len(v) : v[j] = w[j + k] /\ j + k \in 1..Len(w)
  BY <1>1, SubSeqProperties
<1> HIDE DEF v
<1>3. f \in [1..Len(v) -> 1..Len(w)]
  BY <1>2
<1>4. \A i, j \in 1..Len(v) : i < j => f[i] < f[j]
  BY <1>1
<1>5. \A j \in 1..Len(v) : v[j] = w[f[j]]
  BY <1>2
<1> HIDE DEF f
<1> QED
  BY <1>1, <1>3, <1>4, <1>5, InTimeKept DEF v

\* ... or the first.
LEMMA InTimeTail ==
    ASSUME NEW w \in Seq(Indication), w # <<>>, NEW h, NEW m, InTime(w, h, m)
    PROVE  InTime(Tail(w), h, m)
<1>1. 1 \in 0..Len(w) /\ 1 + 1 = 2
  BY EmptySeq, LenProperties
<1>2. Tail(w) = SubSeq(w, 2, Len(w))
  BY TailIsSubSeq
<1>3. InTime(SubSeq(w, 1 + 1, Len(w)), h, m)
  BY <1>1, InTimeFront
<1> QED
  BY <1>1, <1>2, <1>3

\* The try of an indication that is due begins in time.
LEMMA HandedOutInTime ==
    ASSUME NEW i \in Indication, NEW m \in Nat, WaitingInTime(i, m), Due(i)
    PROVE  HandedInTime(HandedOut(i), m) /\ HandedOut(i).age = i.age
<1> DEFINE r == RetryInterval
           elapsed == (IF i.tried THEN i.idle ELSE i.age) \div r
           tries == IF elapsed > 0 THEN i.tries + elapsed - 1 ELSE i.tries
           o == HandedOut(i)
<1>1. /\ i.age \in Nat /\ i.idle \in Nat /\ i.tries \in Nat
      /\ i.tried \in BOOLEAN /\ r \in Nat /\ r > 0
  BY IndicationParts, Limits
<1>2. o = [i EXCEPT !.tries = tries]
  BY DEF HandedOut
<1>3. tries <= m /\ i.age < r * (tries + 2) /\ tries \in Nat
  <2>1. CASE i.tried
    <3>1. i.idle = r
      BY <1>1, <2>1 DEF WaitingInTime, Due
    <3>2. elapsed = i.idle \div r
      BY <2>1
    <3>3. r \div r = 1
      BY <1>1
    <3>4. elapsed = 1
      BY <3>1, <3>2, <3>3
    <3> HIDE DEF elapsed
    <3>5. tries = i.tries
      BY <1>1, <3>4
    <3>6. i.tries + 1 \in Nat /\ i.tries + 2 = (i.tries + 1) + 1
          /\ i.tries + 2 \in Nat
      BY <1>1
    <3>7. r * (i.tries + 2) = r * (i.tries + 1) + r
      BY <1>1, <3>6, IntervalMore
    <3>8. i.age - r < r * (i.tries + 1)
      BY <2>1, <3>1 DEF WaitingInTime
    <3>9. r * (i.tries + 1) \in Nat
      BY <1>1
    <3>10. i.age < r * (i.tries + 2)
      BY <1>1, <3>7, <3>8, <3>9
    <3> QED
      BY <1>1, <3>5, <3>10 DEF WaitingInTime
  <2>2. CASE ~i.tried
    <3>1. elapsed = i.age \div r /\ i.tries = 0
      BY <2>2 DEF WaitingInTime
    <3>2. /\ i.age \div r \in Nat /\ i.age < r * ((i.age \div r) + 1)
          /\ \A n \in Nat : i.age < r * (n + 2) => i.age \div r <= n + 1
      BY <1>1, Intervals
    <3>3. i.age < r * (m + 2)
      BY DEF WaitingInTime
    <3>4. elapsed \in Nat /\ elapsed <= m + 1 /\ i.age < r * (elapsed + 1)
      BY <3>1, <3>2, <3>3
    <3> HIDE DEF elapsed
    <3>5. tries \in Nat /\ tries <= m /\ elapsed + 1 <= tries + 2
      BY <1>1, <3>1, <3>4
    <3>6. elapsed + 1 \in Nat /\ tries + 2 \in Nat
      BY <3>4, <3>5
    <3> HIDE DEF tries
    <3>7. r * (elapsed + 1) <= r * (tries + 2)
      BY <1>1, <3>5, <3>6, TimesOrder
    <3>8. r * (elapsed + 1) \in Nat /\ r * (tries + 2) \in Nat
      BY <1>1, <3>6
    <3>9. i.age < r * (tries + 2)
      BY <1>1, <3>4, <3>7, <3>8
    <3> QED
      BY <3>5, <3>9
  <2> QED
    BY <1>1, <2>1, <2>2
<1> HIDE DEF tries, o
<1>4. o.age = i.age /\ o.tries = tries
  BY <1>2 DEF Indication
<1> QED
  BY <1>3, <1>4 DEF HandedInTime, WaitingInTime, o

\* The oldest indication is handed out.
LEMMA InTimeHandOut ==
    ASSUME NEW w \in Seq(Indication), w # <<>>, NEW m \in Nat,
           InTime(w, <<>>, m), Due(Head(w))
    PROVE  InTime(Tail(w), <<HandedOut(Head(w))>>, m)
<1> DEFINE v == Tail(w)
           o == HandedOut(Head(w))
           h == <<o>>
<1>1. /\ Len(w) \in Nat /\ Len(w) > 0 /\ Len(v) = Len(w) - 1
      /\ Head(w) = w[1] /\ 1 \in 1..Len(w)
  BY EmptySeq, HeadTailProperties
<1>2. \A j \in 1..Len(v) :
          v[j] = w[j + 1] /\ j + 1 \in 1..Len(w) /\ 1 < j + 1 /\ j + 1 # 1
  BY <1>1, HeadTailProperties
<1>3. HandedInTime(o, m) /\ o.age = w[1].age
  <2>1. w[1] \in Indication /\ WaitingInTime(w[1], m)
    BY <1>1, ElementOfSeq DEF InTime
  <2> QED
    BY <1>1, <2>1, HandedOutInTime
<1>4. h # <<>> /\ h[1] = o
  OBVIOUS
<1>5. InTime(v, <<>>, m)
  BY InTimeTail
<1> HIDE DEF v, o, h
<1>6. \A j \in 1..Len(v) : v[j].tried => j = 1 /\ h = <<>>
  BY <1>2 DEF InTime
<1>7. \A j \in 1..Len(v) : v[j].age <= h[1].age
  BY <1>1, <1>2, <1>3, <1>4 DEF InTime
<1>8. InTime(v, h, m)
  BY <1>3, <1>4, <1>5, <1>6, <1>7 DEF InTime
<1> QED
  BY <1>8 DEF v, o, h

\* The indication that was handed out is gone,
LEMMA InTimeGone ==
    ASSUME NEW w, NEW h, NEW m, InTime(w, h, m)
    PROVE  InTime(w, <<>>, m)
BY DEF InTime

\* ... or comes back.
LEMMA InTimeBack ==
    ASSUME NEW w \in Seq(Indication), NEW h, h # <<>>, h[1] \in Indication,
           NEW m \in Nat, InTime(w, h, m), NEW i \in Indication,
           i.age = h[1].age /\ i.idle = 0 /\ i.tried = TRUE,
           i.tries = h[1].tries + 1 /\ i.tries <= m
    PROVE  InTime(<<i>> \o w, <<>>, m)
<1> DEFINE v == <<i>> \o w
<1>1. <<i>> \in Seq(Indication) /\ Len(<<i>>) = 1 /\ <<i>>[1] = i
  OBVIOUS
<1>2. Len(w) \in Nat /\ Len(v) = Len(w) + 1
  BY <1>1, ConcatProperties, LenProperties
<1>3. v[1] = i
  BY <1>1, <1>2, ConcatProperties
<1>4. \A j \in 1..Len(v) :
          j # 1 => j - 1 \in 1..Len(w) /\ v[j] = w[j - 1]
  <2> SUFFICES ASSUME NEW j \in 1..Len(v), j # 1
               PROVE  j - 1 \in 1..Len(w) /\ v[j] = w[j - 1]
    OBVIOUS
  <2>1. j \in 1..(Len(<<i>>) + Len(w)) /\ ~(j <= Len(<<i>>))
    BY <1>1, <1>2
  <2>2. v[j] = w[j - Len(<<i>>)]
    BY <1>1, <2>1, ConcatProperties
  <2> QED
    BY <1>1, <1>2, <2>2
<1> HIDE DEF v
<1>5. WaitingInTime(i, m)
  <2>1. /\ h[1].age \in Nat /\ h[1].tries \in Nat
        /\ h[1].age < RetryInterval * (m + 2)
        /\ h[1].age < RetryInterval * (h[1].tries + 2)
    BY IndicationParts DEF InTime, HandedInTime
  <2>2. h[1].tries + 2 = i.tries + 1
    BY <2>1
  <2>3. h[1].age < RetryInterval * (i.tries + 1)
    BY <2>1, <2>2
  <2>4. i.age - i.idle = h[1].age
    BY <2>1
  <2> QED
    BY <2>1, <2>3, <2>4, Limits DEF WaitingInTime
<1>6. \A j \in 1..Len(v) : WaitingInTime(v[j], m)
  BY <1>3, <1>4, <1>5 DEF InTime
<1>7. \A j \in 1..Len(v) : v[j].tried => j = 1
  BY <1>4 DEF InTime
<1>8. \A j, k \in 1..Len(v) : j < k => v[k].age <= v[j].age
  <2> SUFFICES ASSUME NEW j \in 1..Len(v), NEW k \in 1..Len(v), j < k
               PROVE  v[k].age <= v[j].age
    OBVIOUS
  <2>1. k - 1 \in 1..Len(w) /\ v[k] = w[k - 1]
    BY <1>2, <1>4
  <2>2. CASE j = 1
    BY <1>3, <2>1, <2>2 DEF InTime
  <2>3. CASE j - 1 \in 1..Len(w) /\ v[j] = w[j - 1]
    BY <1>2, <2>1, <2>3 DEF InTime
  <2> QED
    BY <1>4, <2>2, <2>3
<1> QED
  BY <1>6, <1>7, <1>8 DEF InTime, v

\* Time goes on for all alike.
LEMMA LaterOrder ==
    ASSUME NEW a \in Nat, NEW b \in Nat, a <= b
    PROVE  /\ Later(a) \in Nat /\ Later(b) \in Nat
           /\ Later(a) <= a + 1 /\ Later(a) <= Later(b)
           /\ Later(b) - Later(a) <= b - a
BY Limits DEF Later

\* An indication that grows older.
LEMMA AgedIndication ==
    ASSUME NEW w \in Seq(Indication), NEW j \in 1..Len(w)
    PROVE  /\ Aged(w)[j].age = Later(w[j].age)
           /\ Aged(w)[j].idle = Later(w[j].idle)
           /\ Aged(w)[j].tried = w[j].tried
           /\ Aged(w)[j].tries = w[j].tries
<1>1. w[j] \in Indication /\ j \in DOMAIN w
  BY ElementOfSeq, LenProperties
<1>2. Aged(w)[j] = [w[j] EXCEPT !.age = Later(@), !.idle = Later(@)]
  BY <1>1 DEF Aged
<1> QED
  BY <1>1, <1>2 DEF Indication

\* One step more within the interval b after the last try.
LEMMA NextInterval ==
    ASSUME NEW a \in Nat, NEW b \in Nat, NEW r \in Nat, NEW x \in Nat,
           NEW y \in Nat, NEW z \in Nat, b < r, b <= a, a - b < x,
           y = x + r, y <= z
    PROVE  a + 1 < z
OBVIOUS

\* The clock goes on while the oldest indication waits for its next try.
LEMMA InTimeAged ==
    ASSUME NEW w \in Seq(Indication), NEW m \in Nat, InTime(w, <<>>, m),
           w # <<>> => ~Due(w[1])
    PROVE  InTime(Aged(w), <<>>, m)
<1> DEFINE v == Aged(w)
           r == RetryInterval
<1>1. Len(v) = Len(w) /\ Len(w) \in Nat
  BY AgedEffect, LenProperties
<1>2. \A j \in 1..Len(w) :
          /\ v[j].age = Later(w[j].age) /\ v[j].idle = Later(w[j].idle)
          /\ v[j].tried = w[j].tried /\ v[j].tries = w[j].tries
  BY AgedIndication
<1>3. \A j \in 1..Len(w) :
          /\ w[j].age \in Nat /\ w[j].idle \in Nat /\ w[j].tries \in Nat
          /\ w[j].tried \in BOOLEAN
  BY ElementOfSeq, IndicationParts
<1>4. r \in Nat /\ r > 0 /\ r * (m + 2) \in Nat
  BY Limits
<1> HIDE DEF v
<1>5. CASE Len(w) = 0
  BY <1>1, <1>5 DEF InTime, v
<1>6. CASE Len(w) > 0
  <2> DEFINE i == w[1]
  <2>1. 1 \in 1..Len(w) /\ w # <<>>
    BY <1>1, <1>6
  <2>2. /\ i.tried /\ i.idle < r /\ i.idle <= i.age
        /\ i.age - i.idle < r * (i.tries + 1) /\ i.tries <= m
    BY <1>3, <1>4, <2>1 DEF InTime, WaitingInTime, Due
  <2>3. i.age + 1 < r * (m + 2)
    <3>1. i.tries + 1 \in Nat /\ i.tries + 2 \in Nat /\ m + 2 \in Nat
          /\ i.tries + 2 = (i.tries + 1) + 1 /\ i.tries + 2 <= m + 2
      BY <1>3, <2>1, <2>2
    <3>2. r * (i.tries + 2) = r * (i.tries + 1) + r
      BY <1>4, <3>1, IntervalMore
    <3>3. r * (i.tries + 2) <= r * (m + 2)
      BY <1>4, <3>1, TimesOrder
    <3>4. r * (i.tries + 1) \in Nat /\ r * (i.tries + 2) \in Nat
      BY <1>4, <3>1
    <3>5. i.age \in Nat /\ i.idle \in Nat
      BY <1>3, <2>1
    <3> QED
      BY <1>4, <2>2, <3>2, <3>3, <3>4, <3>5, NextInterval
  <2>4. \A j \in 1..Len(w) : w[j].age <= i.age
    BY <1>3, <2>1 DEF InTime
  <2>5. \A j \in 1..Len(w) : WaitingInTime(v[j], m)
    <3> SUFFICES ASSUME NEW j \in 1..Len(w)
                 PROVE  WaitingInTime(v[j], m)
      OBVIOUS
    <3>1. v[j].age < r * (m + 2)
      <4>1. Later(w[j].age) \in Nat /\ Later(w[j].age) <= w[j].age + 1
        <5>1. w[j].age \in Nat /\ w[j].age <= w[j].age
          BY <1>3
        <5> QED
          BY <5>1, LaterOrder
      <4>2. w[j].age \in Nat /\ i.age \in Nat /\ w[j].age <= i.age
        BY <1>3, <2>1, <2>4
      <4> QED
        BY <1>2, <1>4, <2>3, <4>1, <4>2
    <3>2. /\ v[j].tries <= m
          /\ ~v[j].tried => v[j].tries = 0
      BY <1>2 DEF InTime, WaitingInTime
    <3>3. CASE v[j].tried
      <4>1. j = 1 /\ v[j].tries = i.tries
        BY <1>2, <3>3 DEF InTime
      <4>2. /\ Later(i.idle) \in Nat /\ Later(i.age) \in Nat
            /\ Later(i.idle) <= i.idle + 1 /\ Later(i.idle) <= Later(i.age)
            /\ Later(i.age) - Later(i.idle) <= i.age - i.idle
        BY <1>3, <2>1, <2>2, LaterOrder
      <4>3. v[j].age = Later(i.age) /\ v[j].idle = Later(i.idle)
        BY <1>2, <4>1
      <4>4. r * (i.tries + 1) \in Nat /\ i.age \in Nat /\ i.idle \in Nat
        BY <1>3, <1>4, <2>1
      <4>5. /\ v[j].idle <= r /\ v[j].idle <= v[j].age
            /\ v[j].age - v[j].idle < r * (v[j].tries + 1)
        BY <1>4, <2>2, <4>1, <4>2, <4>3, <4>4
      <4> QED
        BY <3>1, <3>2, <3>3, <4>5 DEF WaitingInTime
    <3> QED
      BY <3>1, <3>2, <3>3 DEF WaitingInTime
  <2>6. \A j \in 1..Len(w) : v[j].tried => j = 1
    BY <1>2 DEF InTime
  <2>7. \A j, k \in 1..Len(w) : j < k => v[k].age <= v[j].age
    <3> SUFFICES ASSUME NEW j \in 1..Len(w), NEW k \in 1..Len(w), j < k
                 PROVE  v[k].age <= v[j].age
      OBVIOUS
    <3>1. w[k].age <= w[j].age /\ w[k].age \in Nat /\ w[j].age \in Nat
      BY <1>3 DEF InTime
    <3>2. Later(w[k].age) <= Later(w[j].age)
      BY <3>1, LaterOrder
    <3> QED
      BY <1>2, <3>2
  <2>8. InTime(v, <<>>, m)
    BY <1>1, <2>5, <2>6, <2>7 DEF InTime
  <2> QED
    BY <2>8 DEF v
<1> QED
  BY <1>1, <1>5, <1>6

-----------------------------------------------------------------------------
(* Every operation keeps a queue in time.                                   *)

\* A new queue,
LEMMA NewQueueInTime ==
    ASSUME NEW n \in Nat, NEW m
    PROVE  QueueInTime(NewQueue(n), m)
<1>1. NewQueue(n).waiting = <<>> /\ NewQueue(n).handed = <<>>
  BY DEF NewQueue
<1>2. Len(<<>>) = 0
  OBVIOUS
<1> QED
  BY <1>1, <1>2 DEF QueueInTime, InTime

\* ... one more indication,
LEMMA EnqueuedInTime ==
    ASSUME NEW q, QueueInv(q), NEW s \in Subscriptions, NEW m \in Nat,
           QueueInTime(q, m)
    PROVE  QueueInTime(Enqueued(q, s), m)
<1> DEFINE i == [seq |-> q.next, sub |-> s, age |-> 0, idle |-> 0,
                 tried |-> FALSE, tries |-> 0]
           all == Append(q.waiting, i)
           n == Numbered(q)
           r == Enqueued(q, s)
<1>1. q.next \in Nat /\ q.waiting \in Seq(Indication)
  BY Parts, Counters
<1>2. /\ i \in Indication
      /\ i.age = 0 /\ i.idle = 0 /\ i.tried = FALSE /\ i.tries = 0
  BY <1>1 DEF Indication
<1>3. q.handed # <<>> => q.handed[1] \in Indication
  BY Parts, EmptySeq, ElementOfSeq
<1>4. n \in DestinationQueue /\ n.handed = q.handed
  BY NumberedEffect
<1>5. r = IF Len(all) > n.max
          THEN [n EXCEPT !.waiting = Tail(all), !.full = n.full + 1]
          ELSE [n EXCEPT !.waiting = all]
  BY DEF Enqueued
<1> HIDE DEF i, n, r
<1>6. InTime(all, q.handed, m)
  BY <1>1, <1>2, <1>3, InTimeAppend DEF QueueInTime
<1>7. all \in Seq(Indication) /\ all # <<>>
  BY <1>1, <1>2, AppendProperties
<1> HIDE DEF all
<1>8. InTime(Tail(all), q.handed, m)
  BY <1>6, <1>7, InTimeTail
<1>9. r.handed = n.handed /\ r.waiting \in {all, Tail(all)}
  BY <1>4, <1>5 DEF DestinationQueue
<1>10. QueueInTime(r, m)
  BY <1>4, <1>6, <1>8, <1>9 DEF QueueInTime
<1> QED
  BY <1>10 DEF r

\* ... some of the front gone,
LEMMA WithoutFrontInTime ==
    ASSUME NEW q, QueueInv(q), NEW k \in 0..Len(q.waiting), NEW m,
           QueueInTime(q, m)
    PROVE  QueueInTime(WithoutFront(q, k), m)
<1> DEFINE w == SubSeq(q.waiting, k + 1, Len(q.waiting))
<1>1. q.waiting \in Seq(Indication) /\ q \in DestinationQueue
  BY Parts
<1>2. InTime(w, q.handed, m)
  BY <1>1, InTimeFront DEF QueueInTime
<1> HIDE DEF w
<1>3. /\ WithoutFront(q, k).waiting = w
      /\ WithoutFront(q, k).handed = q.handed
  BY <1>1 DEF WithoutFront, DestinationQueue, w
<1> QED
  BY <1>2, <1>3 DEF QueueInTime

\* ... one handed out,
LEMMA HandOutInTime ==
    ASSUME NEW q, QueueInv(q), q.status # "pending", q.waiting # <<>>,
           Due(Head(q.waiting)), NEW m \in Nat, QueueInTime(q, m)
    PROVE  QueueInTime(HandOut(q), m)
<1>1. q.waiting \in Seq(Indication) /\ q \in DestinationQueue /\ q.handed = <<>>
  BY Parts
<1>2. InTime(Tail(q.waiting), <<HandedOut(Head(q.waiting))>>, m)
  BY <1>1, InTimeHandOut DEF QueueInTime
<1>3. /\ HandOut(q).waiting = Tail(q.waiting)
      /\ HandOut(q).handed = <<HandedOut(Head(q.waiting))>>
  BY <1>1 DEF HandOut, DestinationQueue
<1> QED
  BY <1>2, <1>3 DEF QueueInTime

\* ... delivered,
LEMMA DeliveredInTime ==
    ASSUME NEW q, QueueInv(q), NEW m, QueueInTime(q, m)
    PROVE  QueueInTime(Delivered(q), m)
<1>1. Delivered(q).waiting = q.waiting /\ Delivered(q).handed = <<>>
  BY Parts DEF Delivered, DestinationQueue
<1> QED
  BY <1>1, InTimeGone DEF QueueInTime

\* ... or back for its next try, unless that is one too many,
LEMMA NotDeliveredInTime ==
    ASSUME NEW q, QueueInv(q), q.status = "pending", attempts \in Nat,
           NEW m \in Nat, attempts <= m, QueueInTime(q, m)
    PROVE  QueueInTime(NotDelivered(q), m)
<1> DEFINE i == [q.handed[1] EXCEPT !.tries = @ + 1, !.tried = TRUE, !.idle = 0]
           f == [q EXCEPT !.status = "fail", !.handed = <<>>]
           w == <<i>> \o f.waiting
           r == NotDelivered(q)
<1>1. q.handed # <<>> /\ q.handed[1] \in Indication
  BY Handed
<1>2. /\ i \in Indication /\ i.age = q.handed[1].age /\ i.idle = 0
      /\ i.tried = TRUE /\ i.tries = q.handed[1].tries + 1 /\ i.tries \in Nat
  <2> DEFINE h == q.handed[1]
             tries == h.tries + 1
  <2>1. h \in Indication /\ tries \in Nat
    BY <1>1, IndicationParts
  <2>2. i = [h EXCEPT !.tries = tries, !.tried = TRUE, !.idle = 0]
    OBVIOUS
  <2> HIDE DEF h, tries, i
  <2>3. /\ i \in Indication /\ i.age = h.age /\ i.idle = 0
        /\ i.tried = TRUE /\ i.tries = tries
    BY <2>1, <2>2 DEF Indication
  <2> QED
    BY <2>1, <2>3 DEF h, tries
<1>3. /\ q \in DestinationQueue /\ q.waiting \in Seq(Indication)
      /\ <<>> \in Seq(Indication)
  BY Parts
<1>4. f \in DestinationQueue /\ f.waiting = q.waiting /\ f.handed = <<>>
  BY <1>3 DEF DestinationQueue
<1>5. r = IF i.tries >= attempts + 1 THEN [f EXCEPT !.exceeded = f.exceeded + 1]
          ELSE IF Len(q.waiting) >= q.max THEN [f EXCEPT !.full = f.full + 1]
          ELSE [f EXCEPT !.waiting = w]
  BY DEF NotDelivered
<1> HIDE DEF i, f, r
<1>6. CASE i.tries <= m
  <2>1. w = <<i>> \o q.waiting
    BY <1>4
  <2>2. InTime(<<i>> \o q.waiting, <<>>, m)
    BY <1>1, <1>2, <1>3, <1>6, InTimeBack DEF QueueInTime
  <2>3. InTime(w, <<>>, m) /\ InTime(q.waiting, <<>>, m)
    BY <2>1, <2>2, InTimeGone DEF QueueInTime
  <2> HIDE DEF w
  <2>4. r.handed = <<>> /\ r.waiting \in {q.waiting, w}
    BY <1>4, <1>5 DEF DestinationQueue
  <2> QED
    BY <2>3, <2>4 DEF QueueInTime, r
<1>7. CASE ~(i.tries <= m)
  <2>1. i.tries >= attempts + 1
    BY <1>2, <1>7
  <2>2. r.handed = <<>> /\ r.waiting = q.waiting
    BY <1>4, <1>5, <2>1 DEF DestinationQueue
  <2> QED
    BY <2>2, InTimeGone DEF QueueInTime, r
<1> QED
  BY <1>6, <1>7

\* ... the indications of one subscription gone,
LEMMA WithoutInTime ==
    ASSUME NEW q, QueueInv(q), NEW s, NEW n \in 0..Len(q.waiting),
           NEW f \in [1..n -> 1..Len(q.waiting)], KeepsOthers(q, s, f),
           NEW m, QueueInTime(q, m)
    PROVE  QueueInTime(Without(q, f), m)
<1> DEFINE w == [j \in DOMAIN f |-> q.waiting[f[j]]]
<1>1. /\ q \in DestinationQueue /\ Len(q.waiting) \in Nat
      /\ q.waiting \in Seq(Indication)
  BY Parts
<1>2. n \in Nat /\ DOMAIN f = 1..n
  BY <1>1
<1>3. w \in [1..n -> Indication]
  BY <1>1, <1>2, ElementOfSeq
<1>4. w \in Seq(Indication) /\ Len(w) = n
  BY <1>2, <1>3, SequenceOf, Zenon
<1>5. \A j \in 1..n : w[j] = q.waiting[f[j]]
  BY <1>2
<1>6. \A j, k \in 1..n : j < k => f[j] < f[k]
  BY <1>2 DEF KeepsOthers
<1>7. Without(q, f).waiting = w /\ Without(q, f).handed = q.handed
  BY <1>1 DEF Without, DestinationQueue
<1> HIDE DEF w
<1>8. InTime(w, q.handed, m)
  BY <1>1, <1>4, <1>5, <1>6, InTimeKept DEF QueueInTime
<1> QED
  BY <1>7, <1>8 DEF QueueInTime

\* ... or a tick of the clock while nobody has anything to do with it.
LEMMA AgedInTime ==
    ASSUME NEW q, QueueInv(q), q.handed = <<>>, NEW m \in Nat,
           q.waiting # <<>> => ~Due(q.waiting[1]), QueueInTime(q, m)
    PROVE  QueueInTime(AgedQueue(q), m)
<1>1. q \in DestinationQueue /\ q.waiting \in Seq(Indication)
  BY Parts
<1>2. Aged(<<>>) = <<>>
  <2>1. <<>> \in Seq(Indication)
    OBVIOUS
  <2> QED
    BY <2>1, AgedEffect
<1>3. AgedQueue(q).waiting = Aged(q.waiting) /\ AgedQueue(q).handed = <<>>
  BY <1>1, <1>2 DEF AgedQueue, DestinationQueue
<1>4. InTime(Aged(q.waiting), <<>>, m)
  BY <1>1, InTimeAged DEF QueueInTime
<1> QED
  BY <1>3, <1>4 DEF QueueInTime

\* Every queue is in time.
AllInTime(most) == \A d \in Destinations : QueueInTime(queue[d], most)

\* One queue is replaced by a queue in time.
LEMMA InTimeReplaced ==
    ASSUME TypeOK, NEW m, AllInTime(m), NEW d \in Destinations, NEW r,
           QueueInTime(r, m), queue' = [queue EXCEPT ![d] = r]
    PROVE  AllInTime(m)'
<1>1. \A e \in Destinations : queue'[e] = IF e = d THEN r ELSE queue[e]
  BY DEF TypeOK
<1>2. \A e \in Destinations : QueueInTime(queue'[e], m)
  BY <1>1 DEF AllInTime
<1> QED
  BY <1>2 DEF AllInTime

LEMMA InTimeUnchanged ==
    ASSUME NEW m, AllInTime(m), UNCHANGED queue
    PROVE  AllInTime(m)'
BY DEF AllInTime

\* A queue is emptied and deleted.
LEMMA InTimeDeleted ==
    ASSUME TypeOK, NEW m, AllInTime(m), NEW d \in Destinations, DeleteQueue(d)
    PROVE  AllInTime(m)'
<1>1. QueueInTime(NewQueue(0), m)
  BY NewQueueInTime
<1>2. queue' = [queue EXCEPT ![d] = NewQueue(0)]
  BY DEF DeleteQueue
<1> QED
  BY <1>1, <1>2, InTimeReplaced

\* Every step keeps the queues in time when no thread keeps them waiting.
LEMMA InTimeStep ==
    ASSUME Prompt, TypeOK, QueuesInv, LocksInv, PlacesInv, Next,
           NEW m \in Nat, attempts <= m, AllInTime(m)
    PROVE  AllInTime(m)'
<1>0. TypeOK /\ AllInTime(m)
  OBVIOUS
<1>1. ASSUME NEW w \in Workers, Enqueue(w)
      PROVE  AllInTime(m)'
  <2> DEFINE d == worker[w].dest
  <2>1. worker[w].pc = "enqueueing"
    BY <1>1 DEF Enqueue
  <2>2. d \in Destinations /\ worker[w].sub \in Subscriptions
    BY <2>1 DEF LocksInv
  <2>3. CASE d \notin table
    BY <1>0, <1>1, <2>3, InTimeUnchanged DEF Enqueue
  <2>4. CASE d \in table
    <3> DEFINE r == Enqueued(queue[d], worker[w].sub)
    <3>1. queue' = [queue EXCEPT ![d] = r]
      BY <1>1, <2>4 DEF Enqueue
    <3>2. QueueInv(queue[d]) /\ QueueInTime(queue[d], m)
      BY <2>2 DEF QueuesInv, AllInTime
    <3>3. QueueInTime(r, m)
      BY <2>2, <3>2, EnqueuedInTime, Zenon
    <3> HIDE DEF r
    <3> QED
      BY <1>0, <2>2, <3>1, <3>3, InTimeReplaced
  <2> QED
    BY <2>3, <2>4
<1>2. ASSUME NEW w \in Workers, CreateAndEnqueue(w)
      PROVE  AllInTime(m)'
  <2> DEFINE d == worker[w].dest
             q == IF d \in table THEN queue[d] ELSE NewQueue(worker[w].context)
             r == Enqueued(q, worker[w].sub)
  <2>1. worker[w].pc = "creating"
    BY <1>2 DEF CreateAndEnqueue
  <2>2. d \in Destinations /\ worker[w].sub \in Subscriptions
    BY <2>1 DEF LocksInv
  <2>3. queue' = [queue EXCEPT ![d] = r]
    BY <1>2 DEF CreateAndEnqueue
  <2>4. worker[w].context \in Nat
    BY DEF TypeOK, WorkerStates
  <2>5. QueueInv(q) /\ QueueInTime(q, m)
    BY <2>2, <2>4, NewQueueKeeps, NewQueueInTime DEF QueuesInv, AllInTime
  <2> HIDE DEF q
  <2>6. QueueInTime(r, m)
    BY <2>2, <2>5, EnqueuedInTime, Zenon
  <2> HIDE DEF r
  <2> QED
    BY <1>0, <2>2, <2>3, <2>6, InTimeReplaced
<1>3. ASSUME NEW w \in Workers, NEW d \in Destinations, SweepQueue(w, d)
      PROVE  AllInTime(m)'
  <2>1. DeleteQueue(d)
    BY <1>3 DEF SweepQueue
  <2> QED
    BY <1>0, <2>1, InTimeDeleted
<1>4. ASSUME NEW w \in Workers, DeleteMatchedIndications(w)
      PROVE  AllInTime(m)'
  <2> DEFINE d == worker[w].dest
  <2>1. worker[w].pc = "dropping"
    BY <1>4 DEF DeleteMatchedIndications
  <2>2. d \in Destinations
    BY <2>1 DEF LocksInv
  <2>3. CASE d \notin table
    BY <1>0, <1>4, <2>3, InTimeUnchanged DEF DeleteMatchedIndications
  <2>4. CASE d \in table
    <3>1. PICK n \in 0..Len(queue[d].waiting) :
          \E f \in [1..n -> 1..Len(queue[d].waiting)] :
              /\ KeepsOthers(queue[d], worker[w].sub, f)
              /\ queue' = [queue EXCEPT ![d] = Without(queue[d], f)]
      BY <1>4, <2>4 DEF DeleteMatchedIndications
    <3>2. PICK f \in [1..n -> 1..Len(queue[d].waiting)] :
              /\ KeepsOthers(queue[d], worker[w].sub, f)
              /\ queue' = [queue EXCEPT ![d] = Without(queue[d], f)]
      BY <3>1
    <3> DEFINE r == Without(queue[d], f)
    <3>3. QueueInv(queue[d]) /\ QueueInTime(queue[d], m)
      BY <2>2 DEF QueuesInv, AllInTime
    <3>4. QueueInTime(r, m)
      BY <3>2, <3>3, WithoutInTime, Zenon
    <3>5. queue' = [queue EXCEPT ![d] = r]
      BY <3>2
    <3> HIDE DEF r
    <3> QED
      BY <1>0, <2>2, <3>4, <3>5, InTimeReplaced
  <2> QED
    BY <2>3, <2>4
<1>5. ASSUME NEW w \in Workers, CloseQueue(w)
      PROVE  AllInTime(m)'
  <2> DEFINE d == worker[w].dest
  <2>1. worker[w].pc = "closing"
    BY <1>5 DEF CloseQueue
  <2>2. d \in Destinations
    BY <2>1 DEF LocksInv
  <2>3. DeleteQueue(d) \/ UNCHANGED queue
    BY <1>5 DEF CloseQueue
  <2> QED
    BY <1>0, <2>2, <2>3, InTimeDeleted, InTimeUnchanged
<1>6. ASSUME NEW d \in Destinations, ScanQueue(d)
      PROVE  AllInTime(m)'
  <2>1. QueueInv(queue[d]) /\ QueueInTime(queue[d], m)
    BY DEF QueuesInv, AllInTime
  <2>2. CASE queue[d].status = "pending"
    BY <1>0, <1>6, <2>2, InTimeUnchanged DEF ScanQueue
  <2>3. CASE queue[d].status # "pending"
    <3>1. PICK k \in 0..Len(queue[d].waiting) :
            LET q == WithoutFront(queue[d], k)
            IN /\ ExpiredAtFront(queue[d].waiting, k)
               /\ IF q.waiting # <<>> /\ Due(Head(q.waiting))
                  THEN /\ queue' = [queue EXCEPT ![d] = HandOut(q)]
                       /\ deliveryQueue' = Append(deliveryQueue, d)
                       /\ MayStartThread
                  ELSE /\ queue' = [queue EXCEPT ![d] = q]
                       /\ UNCHANGED <<deliveryQueue, thread>>
      BY <1>6, <2>3 DEF ScanQueue
    <3> DEFINE q == WithoutFront(queue[d], k)
    <3>2. QueueInv(q) /\ q.status = queue[d].status
      BY <2>1, WithoutFrontKeeps, Zenon
    <3>3. QueueInTime(q, m)
      BY <2>1, WithoutFrontInTime, Zenon
    <3>4. \/ queue' = [queue EXCEPT ![d] = q]
          \/ /\ q.waiting # <<>> /\ Due(Head(q.waiting))
             /\ queue' = [queue EXCEPT ![d] = HandOut(q)]
      BY <3>1
    <3> HIDE DEF q
    <3>5. CASE queue' = [queue EXCEPT ![d] = q]
      BY <1>0, <3>3, <3>5, InTimeReplaced
    <3>6. CASE /\ q.waiting # <<>> /\ Due(Head(q.waiting))
               /\ queue' = [queue EXCEPT ![d] = HandOut(q)]
      <4> DEFINE r == HandOut(q)
      <4>1. QueueInTime(r, m)
        BY <2>3, <3>2, <3>3, <3>6, HandOutInTime, Zenon
      <4>2. queue' = [queue EXCEPT ![d] = r]
        BY <3>6
      <4> HIDE DEF r
      <4> QED
        BY <1>0, <4>1, <4>2, InTimeReplaced
    <3> QED
      BY <3>4, <3>5, <3>6
  <2> QED
    BY <2>2, <2>3
<1>7. ASSUME NEW t \in DeliveryThreads, DeliverIndication(t)
      PROVE  AllInTime(m)'
  <2> DEFINE d == thread[t]
  <2>1. d \in Destinations
    BY <1>7 DEF DeliverIndication
  <2>2. /\ QueueInv(queue[d]) /\ queue[d].status = "pending"
        /\ QueueInTime(queue[d], m) /\ attempts \in Nat
    BY <2>1, AttemptsType DEF QueuesInv, PlacesInv, Pending, AllInTime
  <2>3. PICK r : /\ QueueInTime(r, m)
                 /\ queue' = [queue EXCEPT ![d] = r]
    <3>1. \/ queue' = [queue EXCEPT ![d] = Delivered(queue[d])]
          \/ queue' = [queue EXCEPT ![d] = NotDelivered(queue[d])]
      BY <1>7 DEF DeliverIndication
    <3>2. QueueInTime(Delivered(queue[d]), m)
      BY <2>2, DeliveredInTime
    <3>3. QueueInTime(NotDelivered(queue[d]), m)
      BY <2>2, NotDeliveredInTime
    <3> QED
      BY <3>1, <3>2, <3>3
  <2> QED
    BY <1>0, <2>1, <2>3, InTimeReplaced
<1>8. CASE Tick
  <2>1. queue' = [d \in Destinations |->
                     IF d \in table THEN AgedQueue(queue[d]) ELSE queue[d]]
        /\ Quiet
    BY <1>8 DEF Tick
  <2>2. ASSUME NEW d \in Destinations, d \in table
        PROVE  QueueInTime(AgedQueue(queue[d]), m)
    <3>1. QueueInv(queue[d]) /\ QueueInTime(queue[d], m)
      BY DEF QueuesInv, AllInTime
    <3>2. queue[d].waiting # <<>> => ~Due(queue[d].waiting[1])
      BY <2>1, <2>2 DEF Quiet
    <3>3. ~Pending(d)
      <4>1. Len(deliveryQueue) = 0 /\ \A t \in DeliveryThreads : thread[t] # d
        BY <2>1, NamesAssumption DEF Quiet
      <4> QED
        BY <4>1 DEF PlacesInv
    <3>4. queue[d].handed = <<>>
      BY <3>1, <3>3, Parts DEF Pending
    <3> QED
      BY <3>1, <3>2, <3>4, AgedInTime, Zenon
  <2>3. \A d \in Destinations : QueueInTime(queue'[d], m)
    BY <2>1, <2>2 DEF AllInTime
  <2> QED
    BY <2>3 DEF AllInTime
<1>9. ASSUME NEW w \in Workers,
             \/ MarkForCleanup(w) \/ DeliverDirectly(w) \/ BeginSweep(w)
             \/ EndSweep(w) \/ Request(w)
      PROVE  UNCHANGED queue
  BY <1>9 DEF MarkForCleanup, DeliverDirectly, BeginSweep, EndSweep, Request,
              HandleIndication, SubscriptionNotActive, ListenerNotActive,
              SetRetryAttempts, DeleteService
<1>10. ASSUME BeginPass \/ EndPass \/ StopDispatcher
       PROVE  UNCHANGED queue
  BY <1>10 DEF BeginPass, EndPass, StopDispatcher
<1>11. ASSUME NEW t \in DeliveryThreads, FetchIndication(t) \/ EndThread(t)
       PROVE  UNCHANGED queue
  BY <1>11 DEF FetchIndication, EndThread
<1>12. ASSUME NEW w \in Workers, Work(w) \/ Request(w)
       PROVE  AllInTime(m)'
  BY <1>0, <1>1, <1>2, <1>3, <1>4, <1>5, <1>9, <1>12, InTimeUnchanged DEF Work
<1>13. ASSUME Dispatch \/ StopDispatcher
       PROVE  AllInTime(m)'
  BY <1>0, <1>6, <1>10, <1>13, InTimeUnchanged DEF Dispatch
<1>14. ASSUME NEW t \in DeliveryThreads, Deliver(t)
       PROVE  AllInTime(m)'
  BY <1>0, <1>7, <1>11, <1>14, InTimeUnchanged DEF Deliver
<1> QED
  BY <1>8, <1>12, <1>13, <1>14 DEF Next

\* Every queue is in time, with the highest number of attempts that is ever
\* set.
TimesInv ==
    Prompt => \A most \in RetryAttempts :
                  (\A n \in RetryAttempts : n <= most) => AllInTime(most)

\* Retries neither go on for longer nor happen more often than configured: the
\* time that goes by while an indication waits behind one that is tried counts
\* as tries of its own (getNextIndicationForDelivery), so that one after the
\* other leaves the queue in time.
THEOREM WaitsNotTooLong == Spec => []WaitsBounded
<1>1. Init => TimesInv
  <2> SUFFICES ASSUME Init PROVE TimesInv
    OBVIOUS
  <2>1. \A d \in Destinations : queue[d] = NewQueue(0)
    BY DEF Init
  <2>2. \A m \in RetryAttempts : AllInTime(m)
    BY <2>1, NewQueueInTime DEF AllInTime
  <2> QED
    BY <2>2 DEF TimesInv
<1>2. IInv /\ TimesInv /\ [Next]_vars => TimesInv'
  <2> SUFFICES ASSUME IInv, TimesInv, [Next]_vars, Prompt,
                      NEW m \in RetryAttempts, \A n \in RetryAttempts : n <= m
               PROVE  AllInTime(m)'
    BY DEF TimesInv
  <2>1. AllInTime(m) /\ m \in Nat
    BY LimitsAssumption DEF TimesInv
  <2>2. TypeOK /\ QueuesInv /\ LocksInv /\ PlacesInv
    BY DEF IInv
  <2>3. attempts <= m
    BY <2>2 DEF TypeOK
  <2>4. CASE Next
    BY <2>1, <2>2, <2>3, <2>4, InTimeStep
  <2>5. CASE UNCHANGED vars
    BY <2>1, <2>5, InTimeUnchanged DEF vars
  <2> QED
    BY <2>4, <2>5
<1>3. IInv /\ TimesInv => WaitsBounded
  <2> SUFFICES ASSUME IInv, TimesInv, Prompt,
                      NEW m \in RetryAttempts, \A n \in RetryAttempts : n <= m,
                      NEW d \in Destinations,
                      NEW j \in 1..Len(Undelivered(queue[d]))
               PROVE  LET i == Undelivered(queue[d])[j]
                      IN i.age < RetryInterval * (m + 2) /\ i.tries <= m
    BY DEF WaitsBounded
  <2> DEFINE q == queue[d]
             s == Undelivered(q)
             h == Len(q.handed)
  <2>1. QueueInv(q) /\ InTime(q.waiting, q.handed, m)
    BY DEF IInv, QueuesInv, TimesInv, AllInTime, QueueInTime
  <2>2. /\ h = 0 \/ h = 1
        /\ h = 1 <=> q.handed # <<>>
        /\ h = 1 => s[1] = q.handed[1]
        /\ (j # 1 \/ h = 0) =>
               j - h \in 1..Len(q.waiting) /\ s[j] = q.waiting[j - h]
    BY <2>1, UndeliveredParts
  <2>3. CASE j = 1 /\ h = 1
    BY <2>1, <2>2, <2>3 DEF InTime, HandedInTime
  <2>4. CASE j # 1 \/ h = 0
    BY <2>1, <2>2, <2>4 DEF InTime, WaitingInTime
  <2> QED
    BY <2>2, <2>3, <2>4
<1> QED
  BY <1>1, <1>2, <1>3, InvHolds, PTL DEF Spec

=============================================================================
