-------------------------- MODULE InputQueueProofs -------------------------
(****************************************************************************)
(* The ring buffer of InputQueue implements the stream of InputStream, for   *)
(* any devices, any sizes that divide the range of an unsigned int and any   *)
(* number of events.  All depends on where the k-th waiting event lies: that *)
(* is an index without remainders, and each operation's effect on the        *)
(* content follows from it by linear arithmetic.                             *)
(****************************************************************************)
EXTENDS InputQueue, SequenceTheorems, TLAPS

(* Remainders of sums of two indices.                                       *)
LEMMA Mod ==
  \A n \in Nat \ {0}, i \in Int :
    0 <= i /\ i < 2 * n => i % n = IF i < n THEN i ELSE i - n
<1> SUFFICES ASSUME NEW n \in Nat \ {0}, NEW i \in Int, 0 <= i, i < 2 * n
             PROVE  i % n = IF i < n THEN i ELSE i - n
  OBVIOUS
<1>1. CASE i < n
  BY <1>1
<1>2. CASE ~(i < n)
  <2>1. i % n = i - n
    BY <1>2
  <2> QED
    BY <1>2, <2>1
<1> QED
  BY <1>1, <1>2

(* The number before a multiple of n.                                       *)
LEMMA ModBefore ==
  ASSUME NEW n \in Nat \ {0, 1}, NEW w \in Nat \ {0}, w % n = 0
  PROVE  (w - 1) % n = n - 1
<1>1. w = n * (w \div n)
  OBVIOUS
<1>2. w \div n \in Nat /\ w \div n > 0
  BY <1>1
<1>3. w - 1 = n * ((w \div n) - 1) + (n - 1)
  BY <1>1, <1>2
<1> QED
  BY <1>1, <1>2, <1>3

(* The sizes of the queue.                                                  *)
LEMMA SizesAreNat ==
  ASSUME NEW n \in Sizes
  PROVE  /\ n \in Nat \ {0, 1} /\ n >= InitialSize /\ n < Word /\ Word % n = 0
         /\ 2 * n <= MaxSize => 2 * n \in Sizes
  BY InputQueueAssumption

(* The bucket before the tail, computed in unsigned arithmetic.             *)
LEMMA Before ==
  ASSUME NEW n \in Sizes, NEW t \in 0..(n - 1)
  PROVE  ((t + Word - 1) % Word) % n = IF t = 0 THEN n - 1 ELSE t - 1
<1>1. n \in Nat \ {0, 1} /\ n < Word /\ Word % n = 0
  BY SizesAreNat
<1>2. Word \in Nat \ {0}
  BY InputQueueAssumption
<1> DEFINE i == t + Word - 1
<1>3. i \in Int /\ 0 <= i /\ i < 2 * Word
  BY <1>1, <1>2
<1>4. i % Word = IF i < Word THEN i ELSE i - Word
  <2> HIDE DEF i
  <2> QED
    BY <1>2, <1>3, Mod
<1>5. i % Word = IF t = 0 THEN Word - 1 ELSE t - 1
  BY <1>1, <1>2, <1>4
<1>6. CASE t = 0
  <2>1. (Word - 1) % n = n - 1
    BY <1>1, <1>2, ModBefore
  <2> QED
    BY <1>5, <1>6, <2>1
<1>7. CASE t # 0
  <2>1. t - 1 \in Int /\ 0 <= t - 1 /\ t - 1 < n
    BY <1>1, <1>7
  <2>2. (t - 1) % n = t - 1
    BY <1>1, <2>1, Mod
  <2> QED
    BY <1>5, <1>7, <2>2
<1> QED
  BY <1>6, <1>7

----------------------------------------------------------------------------
(* What lies between two indices of a ring of n buckets: how many, where the *)
(* k-th lies, and the sequence of them.                                      *)
Count(h, t, n) == IF t >= h THEN t - h ELSE t - h + n

At(k, h, n) == IF h + k - 1 < n THEN h + k - 1 ELSE h + k - 1 - n

Between(b, h, t, n) == [k \in 1..Count(h, t, n) |-> b[At(k, h, n)]]

(* The indices of the events that wait.                                     *)
LEMMA Indices ==
  ASSUME NEW n \in Nat \ {0, 1}, NEW h \in 0..(n - 1), NEW t \in 0..(n - 1)
  PROVE  /\ Count(h, t, n) \in 0..(n - 1)
         /\ h = t <=> Count(h, t, n) = 0
         /\ \A k \in 1..n : At(k, h, n) \in 0..(n - 1)
         /\ \A k \in 1..Count(h, t, n) : At(k, h, n) # t
         /\ At(Count(h, t, n) + 1, h, n) = t
  BY DEF Count, At

(* The code's unsigned arithmetic finds these indices.                      *)
LEMMA ContentIsBetween ==
  ASSUME NEW n \in Nat \ {0, 1}, NEW h \in 0..(n - 1), NEW t \in 0..(n - 1)
  PROVE  /\ Count(h, t, n) = LET m == t - h + n IN IF m >= n THEN m - n ELSE m
         /\ \A k \in 1..n : (h + k - 1) % n = At(k, h, n)
         /\ (h + 1) % n = IF h + 1 < n THEN h + 1 ELSE 0
<1>1. Count(h, t, n) = LET m == t - h + n IN IF m >= n THEN m - n ELSE m
  BY DEF Count
<1>2. ASSUME NEW k \in 1..n
      PROVE  (h + k - 1) % n = At(k, h, n)
  <2> DEFINE i == h + k - 1
  <2>1. i \in Int /\ 0 <= i /\ i < 2 * n
    OBVIOUS
  <2>2. i % n = IF i < n THEN i ELSE i - n
    <3> HIDE DEF i
    <3> QED
      BY <2>1, Mod
  <2> QED
    BY <2>2 DEF At
<1>3. (h + 1) % n = IF h + 1 < n THEN h + 1 ELSE 0
  <2> DEFINE i == h + 1
  <2>1. i \in Int /\ 0 <= i /\ i < 2 * n /\ (i < n \/ i = n)
    OBVIOUS
  <2>2. i % n = IF i < n THEN i ELSE i - n
    <3> HIDE DEF i
    <3> QED
      BY <2>1, Mod
  <2> QED
    BY <2>1, <2>2
<1> QED
  BY <1>1, <1>2, <1>3

(* The sequence between two indices of a ring of events.                   *)
LEMMA BetweenIsSeq ==
  ASSUME NEW n \in Nat \ {0, 1}, NEW h \in 0..(n - 1), NEW t \in 0..(n - 1),
         NEW b, \A k \in 1..Count(h, t, n) : b[At(k, h, n)] \in Event
  PROVE  /\ Between(b, h, t, n) \in Seq(Event)
         /\ Len(Between(b, h, t, n)) = Count(h, t, n)
         /\ \A k \in 1..Count(h, t, n) : Between(b, h, t, n)[k] = b[At(k, h, n)]
<1>1. Count(h, t, n) \in Nat
  BY Indices
<1>2. Between(b, h, t, n) \in [1..Count(h, t, n) -> Event]
  BY DEF Between
<1>3. Between(b, h, t, n) \in Seq(Event)
  BY <1>1, <1>2, SeqDef
<1>4. Len(Between(b, h, t, n)) = Count(h, t, n)
  BY <1>1, <1>2, <1>3, LenProperties
<1> QED
  BY <1>3, <1>4 DEF Between

(* The ring (d, h, u) of n buckets is the ring (b, h, t) with e at its end,  *)
(* or with e instead of its last event.                                      *)
Extends(d, u, b, h, t, n, e) ==
  /\ Count(h, u, n) = Count(h, t, n) + 1
  /\ \A k \in 1..Count(h, t, n) : d[At(k, h, n)] = b[At(k, h, n)]
  /\ d[At(Count(h, t, n) + 1, h, n)] = e
  /\ Between(d, h, u, n) = Append(Between(b, h, t, n), e)

Amends(d, p, b, h, t, n, e) ==
  /\ p \in 0..(n - 1) /\ t = IF p + 1 < n THEN p + 1 ELSE 0
  /\ At(Count(h, t, n), h, n) = p
  /\ \A k \in 1..Count(h, t, n) : d[At(k, h, n)] \in Event
  /\ Between(d, h, t, n) = ReplaceAt(Between(b, h, t, n), Len(Between(b, h, t, n)), e)

(* Writing at the tail appends, unless the ring is full.                    *)
LEMMA PutAtTail ==
  ASSUME NEW n \in Nat \ {0, 1}, NEW h \in 0..(n - 1), NEW t \in 0..(n - 1),
         NEW b, NEW d, NEW e \in Event,
         d[t] = e, \A i \in 0..(n - 1) : i # t => d[i] = b[i],
         \A k \in 1..Count(h, t, n) : b[At(k, h, n)] \in Event,
         Count(h, t, n) + 1 # n,
         NEW u, u = IF t + 1 < n THEN t + 1 ELSE 0
  PROVE  Extends(d, u, b, h, t, n, e)
<1> DEFINE c == Count(h, t, n)
<1>1. u \in 0..(n - 1) /\ Count(h, u, n) = c + 1 /\ c \in 0..(n - 1)
  BY DEF Count
<1>2. /\ \A k \in 1..c : At(k, h, n) \in 0..(n - 1) /\ At(k, h, n) # t
      /\ At(c + 1, h, n) = t
  BY <1>1 DEF Count, At
<1>3. /\ \A k \in 1..c : d[At(k, h, n)] = b[At(k, h, n)]
      /\ d[At(c + 1, h, n)] = e
  BY <1>2
<1>4. \A k \in 1..Count(h, u, n) : d[At(k, h, n)] \in Event
  BY <1>1, <1>3
<1>5. /\ Between(b, h, t, n) \in Seq(Event) /\ Len(Between(b, h, t, n)) = c
      /\ \A k \in 1..c : Between(b, h, t, n)[k] = b[At(k, h, n)]
  BY BetweenIsSeq
<1>6. /\ Between(d, h, u, n) \in Seq(Event) /\ Len(Between(d, h, u, n)) = c + 1
      /\ \A k \in 1..(c + 1) : Between(d, h, u, n)[k] = d[At(k, h, n)]
  <2> HIDE DEF c
  <2> QED
    BY <1>1, <1>4, BetweenIsSeq
<1>7. /\ Append(Between(b, h, t, n), e) \in Seq(Event)
      /\ Len(Append(Between(b, h, t, n), e)) = c + 1
      /\ \A k \in 1..c : Append(Between(b, h, t, n), e)[k] = b[At(k, h, n)]
      /\ Append(Between(b, h, t, n), e)[c + 1] = e
  BY <1>5, AppendProperties
<1>8. \A k \in 1..(c + 1) : Between(d, h, u, n)[k] = Append(Between(b, h, t, n), e)[k]
  <2> TAKE k \in 1..(c + 1)
  <2>1. k \in 1..c \/ k = c + 1
    BY <1>1
  <2> QED
    BY <1>3, <1>6, <1>7, <2>1
<1>9. Between(d, h, u, n) = Append(Between(b, h, t, n), e)
  BY <1>6, <1>7, <1>8, SeqEqual
<1> QED
  BY <1>1, <1>3, <1>9 DEF Extends

(* Writing before the tail replaces the last, unless the ring is empty.     *)
LEMMA PutAtLast ==
  ASSUME NEW n \in Nat \ {0, 1}, NEW h \in 0..(n - 1), NEW t \in 0..(n - 1),
         NEW b, NEW d, NEW e \in Event,
         \A k \in 1..Count(h, t, n) : b[At(k, h, n)] \in Event,
         h # t, NEW p, p = IF t = 0 THEN n - 1 ELSE t - 1,
         d[p] = e, \A i \in 0..(n - 1) : i # p => d[i] = b[i]
  PROVE  Amends(d, p, b, h, t, n, e)
<1> DEFINE c == Count(h, t, n)
           s == Between(b, h, t, n)
<1>1. p \in 0..(n - 1) /\ (t = IF p + 1 < n THEN p + 1 ELSE 0)
  OBVIOUS
<1>2. c \in 1..(n - 1)
  BY DEF Count
<1>3. At(c, h, n) = p /\ \A k \in 1..c : k # c => At(k, h, n) # p
  BY DEF Count, At
<1>4. \A k \in 1..c : At(k, h, n) \in 0..(n - 1)
  BY <1>2 DEF At
<1>5. d[p] = e /\ \A k \in 1..c : d[At(k, h, n)] = IF k = c THEN e ELSE b[At(k, h, n)]
  BY <1>1, <1>3, <1>4
<1>6. \A k \in 1..c : d[At(k, h, n)] \in Event
  BY <1>5
<1>7. /\ s \in Seq(Event) /\ Len(s) = c
      /\ \A k \in 1..c : s[k] = b[At(k, h, n)]
  BY BetweenIsSeq
<1>8. /\ Between(d, h, t, n) \in Seq(Event) /\ Len(Between(d, h, t, n)) = c
      /\ \A k \in 1..c : Between(d, h, t, n)[k] = d[At(k, h, n)]
  <2>1. \A k \in 1..Count(h, t, n) : d[At(k, h, n)] \in Event
    BY <1>6
  <2> QED
    BY <2>1, BetweenIsSeq
<1>9. /\ [s EXCEPT ![c] = e] \in Seq(Event) /\ Len([s EXCEPT ![c] = e]) = c
      /\ \A k \in 1..c : [s EXCEPT ![c] = e][k] = IF k = c THEN e ELSE s[k]
  BY <1>2, <1>7, ExceptSeq
<1>10. \A k \in 1..c : Between(d, h, t, n)[k] = [s EXCEPT ![c] = e][k]
  BY <1>5, <1>7, <1>8, <1>9
<1>11. Between(d, h, t, n) = [s EXCEPT ![c] = e]
  BY <1>8, <1>9, <1>10, SeqEqual
<1> QED
  BY <1>1, <1>3, <1>6, <1>7, <1>11 DEF Amends, ReplaceAt

(* The buckets from h up to t hold events, and the index after h.           *)
EventsFrom(b, h, t, n) == \A k \in 1..Count(h, t, n) : b[At(k, h, n)] \in Event
Following(h, n) == IF h + 1 < n THEN h + 1 ELSE 0

(* Moving the head takes the first, unless the ring is empty.               *)
LEMMA TakeFirst ==
  ASSUME NEW n \in Nat \ {0, 1}, NEW h \in 0..(n - 1), NEW t \in 0..(n - 1),
         NEW b, EventsFrom(b, h, t, n), h # t, NEW g, g = Following(h, n)
  PROVE  /\ g \in 0..(n - 1) /\ Count(g, t, n) = Count(h, t, n) - 1
         /\ Count(h, t, n) > 0
         /\ \A k \in 1..Count(g, t, n) : At(k, g, n) = At(k + 1, h, n)
         /\ Between(b, h, t, n) # <<>>
         /\ b[h] = Head(Between(b, h, t, n))
         /\ Between(b, g, t, n) = Tail(Between(b, h, t, n))
<1> DEFINE c == Count(h, t, n)
           s == Between(b, h, t, n)
<1>1. g \in 0..(n - 1) /\ Count(g, t, n) = c - 1 /\ c \in 1..(n - 1)
  BY DEF Count, Following
<1>2. \A k \in 1..(c - 1) : At(k, g, n) = At(k + 1, h, n)
  BY <1>1 DEF At, Following
<1>3. At(1, h, n) = h
  BY DEF At
<1>4. /\ s \in Seq(Event) /\ Len(s) = c
      /\ \A k \in 1..c : s[k] = b[At(k, h, n)]
  BY BetweenIsSeq, ZenonT(30) DEF EventsFrom
<1>5. s # <<>> /\ s[1] = b[h]
  <2>1. Len(<<>>) = 0
    BY EmptySeq
  <2> QED
    BY <1>1, <1>3, <1>4, <2>1
<1>6. \A k \in 1..Count(g, t, n) : b[At(k, g, n)] \in Event
  <2> TAKE k \in 1..Count(g, t, n)
  <2>1. k \in 1..(c - 1) /\ k + 1 \in 1..c
    BY <1>1
  <2> QED
    BY <1>2, <2>1 DEF EventsFrom
<1>7. /\ Between(b, g, t, n) \in Seq(Event) /\ Len(Between(b, g, t, n)) = c - 1
      /\ \A k \in 1..(c - 1) : Between(b, g, t, n)[k] = b[At(k, g, n)]
  <2>1. /\ Between(b, g, t, n) \in Seq(Event) /\ Len(Between(b, g, t, n)) = Count(g, t, n)
        /\ \A k \in 1..Count(g, t, n) : Between(b, g, t, n)[k] = b[At(k, g, n)]
    <3>1. g \in 0..(n - 1)
      BY <1>1
    <3> QED
      BY ONLY n \in Nat \ {0, 1}, t \in 0..(n - 1), <1>6, <3>1, BetweenIsSeq
  <2> QED
    BY <1>1, <2>1
<1>8. /\ Tail(s) \in Seq(Event) /\ Len(Tail(s)) = c - 1
      /\ \A k \in 1..(c - 1) : Tail(s)[k] = s[k + 1]
  BY <1>4, <1>5, HeadTailProperties
<1>9. \A k \in 1..(c - 1) : Between(b, g, t, n)[k] = Tail(s)[k]
  <2> TAKE k \in 1..(c - 1)
  <2>1. k + 1 \in 1..c
    BY <1>1
  <2> QED
    BY <1>2, <1>4, <1>7, <1>8, <2>1
<1>10. Between(b, g, t, n) = Tail(s)
  BY <1>7, <1>8, <1>9, SeqEqual
<1>11. Head(s) = b[h]
  BY <1>4, <1>5
<1> QED
  BY <1>1, <1>2, <1>5, <1>10, <1>11

----------------------------------------------------------------------------
(* Waiting buckets hold events.                                             *)
Filled ==
  \A k \in 1..Count(head, tail, nevents) : events[At(k, head, nevents)] \in Event

(* lastMotion describes the last of them.                                   *)
LastBucket == events[At(Count(head, tail, nevents), head, nevents)]

LastMotionKnown ==
  head # tail => lastMotion = IF LastBucket.motion THEN LastBucket.dev ELSE NoDevice

Ring == TypeOK /\ Filled /\ LastMotionKnown

Waiting == Between(events, head, tail, nevents)

(* The content of the ring.                                                 *)
LEMMA ContentOf ==
  ASSUME NEW n \in Nat \ {0, 1}, NEW h \in 0..(n - 1), NEW t \in 0..(n - 1), NEW b
  PROVE  LET count == LET m == t - h + n IN IF m >= n THEN m - n ELSE m
         IN [k \in 1..count |-> b[(h + k - 1) % n]] = Between(b, h, t, n)
<1>1. Count(h, t, n) = LET m == t - h + n IN IF m >= n THEN m - n ELSE m
  BY ContentIsBetween
<1>2. \A k \in 1..Count(h, t, n) : k \in 1..n
  BY DEF Count
<1>3. \A k \in 1..Count(h, t, n) : (h + k - 1) % n = At(k, h, n)
  BY <1>2, ContentIsBetween
<1>4. [k \in 1..Count(h, t, n) |-> b[(h + k - 1) % n]] = Between(b, h, t, n)
  BY <1>3 DEF Between
<1> QED
  BY <1>1, <1>4

LEMMA Indexed ==
  TypeOK => /\ nevents \in Nat \ {0, 1} /\ head \in 0..(nevents - 1)
            /\ tail \in 0..(nevents - 1)
            /\ NumEnqueued = Count(head, tail, nevents)
            /\ Content = Waiting
<1> SUFFICES ASSUME TypeOK
             PROVE  /\ nevents \in Nat \ {0, 1} /\ head \in 0..(nevents - 1)
                    /\ tail \in 0..(nevents - 1)
                    /\ NumEnqueued = Count(head, tail, nevents)
                    /\ Content = Waiting
  OBVIOUS
<1>1. nevents \in Nat \ {0, 1} /\ head \in 0..(nevents - 1) /\ tail \in 0..(nevents - 1)
  BY SizesAreNat DEF TypeOK, Index
<1>2. NumEnqueued = Count(head, tail, nevents)
  BY <1>1, ContentIsBetween DEF NumEnqueued
<1>3. Content = Waiting
  BY <1>1, ContentOf DEF Content, NumEnqueued, Waiting
<1> QED
  BY <1>1, <1>2, <1>3

LEMMA IndexedNext ==
  TypeOK' => Content' = Waiting'
<1> SUFFICES ASSUME TypeOK'
             PROVE  Content' = Waiting'
  OBVIOUS
<1>1. /\ nevents' \in Nat \ {0, 1} /\ head' \in 0..(nevents' - 1)
      /\ tail' \in 0..(nevents' - 1)
  BY SizesAreNat DEF TypeOK, Index
<1> QED
  BY <1>1, ContentOf DEF Content, NumEnqueued, Waiting

(* The last waiting event.                                                  *)
LEMMA LastWaits ==
  ASSUME Ring, head # tail
  PROVE  /\ Waiting \in Seq(Event) /\ Waiting # <<>>
         /\ Last(Waiting) = LastBucket
<1>1. /\ nevents \in Nat \ {0, 1} /\ head \in 0..(nevents - 1)
      /\ tail \in 0..(nevents - 1)
  BY Indexed DEF Ring
<1>2. Count(head, tail, nevents) \in 1..(nevents - 1)
  BY <1>1 DEF Count
<1>3. /\ Waiting \in Seq(Event) /\ Len(Waiting) = Count(head, tail, nevents)
      /\ \A k \in 1..Count(head, tail, nevents) :
           Waiting[k] = events[At(k, head, nevents)]
  BY <1>1, BetweenIsSeq, ZenonT(30) DEF Ring, Filled, Waiting
<1>4. Waiting # <<>>
  BY <1>2, <1>3, EmptySeq
<1>5. Last(Waiting) = LastBucket
  BY <1>2, <1>3 DEF Last, LastBucket
<1> QED
  BY <1>3, <1>4, <1>5
----------------------------------------------------------------------------
(* Each operation, on the ring and on the stream.                           *)

(* Taking the event at the head handles the first of the stream.            *)
LEMMA DequeueStep ==
  ASSUME Ring, Dequeue
  PROVE  Ring' /\ Stream!Handle
<1>1. /\ nevents \in Nat \ {0, 1} /\ head \in 0..(nevents - 1)
      /\ tail \in 0..(nevents - 1) /\ Content = Waiting
  BY Indexed DEF Ring
<1>2. /\ head # tail /\ handled' = events[head]
      /\ UNCHANGED <<events, tail, nevents, lastMotion, lastEventTime, sent>>
      /\ head' = IF head + 1 < nevents THEN head + 1 ELSE 0
  BY <1>1, ContentIsBetween DEF Dequeue
<1>3. /\ head' \in 0..(nevents - 1)
      /\ Count(head', tail, nevents) = Count(head, tail, nevents) - 1
      /\ Count(head, tail, nevents) > 0
      /\ \A k \in 1..Count(head', tail, nevents) :
           At(k, head', nevents) = At(k + 1, head, nevents)
      /\ Waiting # <<>>
      /\ events[head] = Head(Waiting)
      /\ Between(events, head', tail, nevents) = Tail(Waiting)
  <2>1. EventsFrom(events, head, tail, nevents)
    BY DEF Ring, Filled, EventsFrom
  <2> DEFINE g == head'
  <2>2. g = Following(head, nevents)
    BY <1>2 DEF Following
  <2> HIDE DEF g
  <2>3. /\ g \in 0..(nevents - 1)
        /\ Count(g, tail, nevents) = Count(head, tail, nevents) - 1
        /\ Count(head, tail, nevents) > 0
        /\ \A k \in 1..Count(g, tail, nevents) : At(k, g, nevents) = At(k + 1, head, nevents)
        /\ Between(events, head, tail, nevents) # <<>>
        /\ events[head] = Head(Between(events, head, tail, nevents))
        /\ Between(events, g, tail, nevents) = Tail(Between(events, head, tail, nevents))
    <3>1. /\ nevents \in Nat \ {0, 1} /\ head \in 0..(nevents - 1)
          /\ tail \in 0..(nevents - 1) /\ head # tail
      BY <1>1, <1>2
    <3> QED
      BY ONLY <2>1, <2>2, <3>1, TakeFirst
  <2> QED
    BY <2>3 DEF g, Waiting
<1>4. Count(head, tail, nevents) \in Nat
  BY <1>1 DEF Count
<1>5. Filled'
  <2> SUFFICES ASSUME NEW k \in 1..Count(head', tail, nevents)
               PROVE  events[At(k, head', nevents)] \in Event
    BY <1>2 DEF Filled
  <2>1. k + 1 \in 1..Count(head, tail, nevents)
    BY <1>3, <1>4
  <2> QED
    BY <1>3, <2>1 DEF Ring, Filled
<1>6. LastMotionKnown'
  <2> SUFFICES ASSUME head' # tail
               PROVE  LastBucket' = LastBucket
    BY <1>2 DEF Ring, LastMotionKnown
  <2>1. Count(head', tail, nevents) > 0
    BY <1>1, <1>3, <1>4, Indices
  <2>2. At(Count(head', tail, nevents), head', nevents)
          = At(Count(head, tail, nevents), head, nevents)
    BY <1>3, <1>4, <2>1
  <2> QED
    BY <1>2, <2>2 DEF LastBucket
<1>7. events[head] \in Event
  <2>1. At(1, head, nevents) = head /\ 1 \in 1..Count(head, tail, nevents)
    BY <1>1, <1>3, <1>4 DEF At
  <2> QED
    BY <2>1 DEF Ring, Filled
<1>8. TypeOK'
  BY <1>2, <1>3, <1>7 DEF Ring, TypeOK, Index
<1>9. Content' = Waiting' /\ Waiting' = Between(events, head', tail, nevents)
  BY <1>2, <1>8, IndexedNext DEF Waiting
<1>10. Stream!Handle
  BY <1>1, <1>2, <1>3, <1>9 DEF Stream!Handle
<1> QED
  BY <1>5, <1>6, <1>8, <1>10 DEF Ring
(* Put at the tail of a ring with room, be it the present one or a larger    *)
(* copy of it.                                                               *)
LEMMA PutStep ==
  ASSUME TypeOK, NEW n \in Sizes, NEW h \in 0..(n - 1), NEW t \in 0..(n - 1),
         NEW b \in [0..(n - 1) -> Event \cup {NoEvent}], NEW e \in Event,
         \A k \in 1..Count(h, t, n) : b[At(k, h, n)] \in Event,
         Count(h, t, n) + 1 # n,
         Put(e, b, t, n), head' = h, handled' = handled, sent' \in 0..MaxEvents
  PROVE  Ring' /\ Content' = Append(Between(b, h, t, n), e)
<1>1. n \in Nat \ {0, 1}
  BY SizesAreNat
<1> DEFINE u == IF t + 1 < n THEN t + 1 ELSE 0
           d == [b EXCEPT ![t] = e]
<1>2. /\ events' = d /\ nevents' = n /\ head' = h
      /\ lastMotion' = IF e.motion THEN e.dev ELSE NoDevice
      /\ lastEventTime' = e.time /\ tail' = (t + 1) % n
  BY DEF Put, Stamp
<1>3. tail' = u
  BY <1>1, <1>2, ContentIsBetween
<1>4. u \in 0..(n - 1)
  BY <1>1
<1>5. /\ Count(h, u, n) = Count(h, t, n) + 1
      /\ \A k \in 1..Count(h, t, n) : d[At(k, h, n)] = b[At(k, h, n)]
      /\ d[At(Count(h, t, n) + 1, h, n)] = e
      /\ Between(d, h, u, n) = Append(Between(b, h, t, n), e)
  <2>1. /\ u = IF t + 1 < n THEN t + 1 ELSE 0
        /\ d[t] = e /\ \A i \in 0..(n - 1) : i # t => d[i] = b[i]
    OBVIOUS
  <2> HIDE DEF d, u
  <2>2. Extends(d, u, b, h, t, n, e)
    BY <1>1, <2>1, PutAtTail
  <2> QED
    BY <2>2 DEF Extends
<1>6. Count(h, t, n) \in Nat
  BY <1>1, Indices
<1>7. Filled'
  <2> SUFFICES ASSUME NEW k \in 1..(Count(h, t, n) + 1)
               PROVE  d[At(k, h, n)] \in Event
    BY <1>2, <1>3, <1>5 DEF Filled
  <2>1. k \in 1..Count(h, t, n) \/ k = Count(h, t, n) + 1
    BY <1>6
  <2> QED
    BY <1>5, <2>1
<1>8. LastMotionKnown'
  <2>1. LastBucket' = e
    BY <1>2, <1>3, <1>5 DEF LastBucket
  <2> QED
    BY <1>2, <2>1 DEF LastMotionKnown
<1>9. TypeOK'
  <2>1. e.dev \in Devices /\ e.time \in Times
    BY DEF Event
  <2>2. d \in [0..(n - 1) -> Event \cup {NoEvent}]
    OBVIOUS
  <2> QED
    BY <1>2, <1>3, <1>4, <2>1, <2>2 DEF TypeOK, Index
<1>10. Content' = Append(Between(b, h, t, n), e)
  BY <1>2, <1>3, <1>5, <1>9, IndexedNext DEF Waiting
<1> QED
  BY <1>7, <1>8, <1>9, <1>10 DEF Ring

(* Storing an event accepts it.                                             *)
LEMMA StoreStep ==
  ASSUME Ring, NEW e \in Event, Store(e), handled' = handled, sent' \in 0..MaxEvents
  PROVE  Ring' /\ Stream!Accept(e)
<1>1. /\ TypeOK /\ nevents \in Sizes /\ head \in 0..(nevents - 1)
      /\ tail \in 0..(nevents - 1) /\ NumEnqueued = Count(head, tail, nevents)
      /\ Content = Waiting /\ events \in [0..(nevents - 1) -> Event \cup {NoEvent}]
  BY Indexed DEF Ring, TypeOK, Index
<1>2. /\ Count(head, tail, nevents) + 1 # nevents /\ Put(e, events, tail, nevents)
      /\ head' = head
  BY <1>1 DEF Store
<1>3. \A k \in 1..Count(head, tail, nevents) : events[At(k, head, nevents)] \in Event
  BY DEF Ring, Filled
<1>4. Ring' /\ Content' = Append(Waiting, e)
  BY <1>1, <1>2, <1>3, PutStep DEF Waiting
<1> QED
  BY <1>1, <1>4 DEF Stream!Accept

(* The larger copy holds what the ring held, from its start.                *)
LEMMA UnwrappedStep ==
  ASSUME Ring, 2 * nevents \in Sizes
  PROVE  LET n == 2 * nevents
             c == Count(head, tail, nevents)
             b == Unwrapped(n)
         IN /\ n \in Sizes /\ 0 \in 0..(n - 1) /\ c \in 0..(n - 1)
            /\ b \in [0..(n - 1) -> Event \cup {NoEvent}]
            /\ Count(0, c, n) = c /\ c + 1 # n
            /\ \A k \in 1..Count(0, c, n) : b[At(k, 0, n)] \in Event
            /\ Between(b, 0, c, n) = Waiting
<1> DEFINE n == 2 * nevents
           c == Count(head, tail, nevents)
           b == Unwrapped(n)
<1>1. /\ nevents \in Nat \ {0, 1} /\ head \in 0..(nevents - 1)
      /\ tail \in 0..(nevents - 1)
      /\ events \in [0..(nevents - 1) -> Event \cup {NoEvent}]
  BY Indexed DEF Ring, TypeOK, Index
<1>2. c \in 0..(nevents - 1) /\ n \in Nat /\ c < n - 1 /\ 0 \in 0..(n - 1) /\ c \in 0..(n - 1)
  BY <1>1 DEF Count
<1>3. Count(0, c, n) = c
  BY <1>2 DEF Count
<1>4. b \in [0..(n - 1) -> Event \cup {NoEvent}]
  BY <1>1 DEF Unwrapped
<1>5. ASSUME NEW k \in 1..c
      PROVE  b[At(k, 0, n)] = events[At(k, head, nevents)]
  <2>1. At(k, 0, n) = k - 1 /\ k - 1 \in 0..(n - 1) /\ k - 1 < nevents
    BY <1>1, <1>2 DEF At
  <2>2. b[k - 1] = IF k - 1 < nevents - head THEN events[head + (k - 1)]
                   ELSE IF k - 1 < nevents THEN events[(k - 1) - (nevents - head)]
                   ELSE NoEvent
    BY <2>1 DEF Unwrapped
  <2>3. CASE head + k - 1 < nevents
    <3>1. k - 1 < nevents - head /\ head + (k - 1) = head + k - 1
      BY <1>1, <2>3
    <3>2. At(k, head, nevents) = head + k - 1
      BY <2>3 DEF At
    <3> QED
      BY <2>1, <2>2, <3>1, <3>2
  <2>4. CASE ~(head + k - 1 < nevents)
    <3>1. ~(k - 1 < nevents - head) /\ (k - 1) - (nevents - head) = head + k - 1 - nevents
      BY <1>1, <2>4
    <3>2. At(k, head, nevents) = head + k - 1 - nevents
      BY <2>4 DEF At
    <3> QED
      BY <2>1, <2>2, <3>1, <3>2
  <2> QED
    BY <2>3, <2>4
<1>6. \A k \in 1..Count(0, c, n) : b[At(k, 0, n)] \in Event
  BY <1>3, <1>5 DEF Ring, Filled
<1>7. Between(b, 0, c, n) = Waiting
  BY <1>3, <1>5 DEF Between, Waiting
<1> QED
  BY <1>2, <1>3, <1>4, <1>6, <1>7

(* Storing an event in a ring that grows accepts it.                        *)
LEMMA GrowStep ==
  ASSUME Ring, NEW e \in Event, Grow(e), handled' = handled, sent' \in 0..MaxEvents
  PROVE  Ring' /\ Stream!Accept(e)
<1> DEFINE n == 2 * nevents
           c == Count(head, tail, nevents)
           b == Unwrapped(n)
<1>1. /\ TypeOK /\ nevents \in Sizes /\ NumEnqueued = c /\ Content = Waiting
  BY Indexed DEF Ring, TypeOK
<1>2. /\ n \in Sizes /\ Put(e, b, c, n) /\ head' = 0
  BY <1>1, SizesAreNat DEF Grow
<1>3. /\ 0 \in 0..(n - 1) /\ c \in 0..(n - 1)
      /\ b \in [0..(n - 1) -> Event \cup {NoEvent}]
      /\ Count(0, c, n) = c /\ c + 1 # n
      /\ \A k \in 1..Count(0, c, n) : b[At(k, 0, n)] \in Event
      /\ Between(b, 0, c, n) = Waiting
  BY <1>2, UnwrappedStep
<1>4. Ring' /\ Content' = Append(Waiting, e)
  <2> HIDE DEF n, c, b
  <2> QED
    BY <1>1, <1>2, <1>3, PutStep
<1> QED
  BY <1>1, <1>4 DEF Stream!Accept

(* Merging a motion supersedes the last event of the stream.                *)
LEMMA MergeStep ==
  ASSUME Ring, NEW e \in Event, Merge(e), handled' = handled, sent' \in 0..MaxEvents
  PROVE  Ring' /\ Stream!Supersede(e)
<1> DEFINE p == IF tail = 0 THEN nevents - 1 ELSE tail - 1
           d == [events EXCEPT ![p] = e]
<1>1. /\ nevents \in Sizes /\ nevents \in Nat \ {0, 1} /\ head \in 0..(nevents - 1)
      /\ tail \in 0..(nevents - 1) /\ Content = Waiting
      /\ events \in [0..(nevents - 1) -> Event \cup {NoEvent}]
  BY Indexed DEF Ring, TypeOK, Index
<1>2. e.motion /\ lastMotion = e.dev /\ tail # head
  BY DEF Merge, Merges
<1>3. /\ events' = d /\ nevents' = nevents /\ head' = head
      /\ lastMotion' = e.dev /\ lastEventTime' = e.time /\ tail' = (p + 1) % nevents
  BY <1>1, <1>2, Before DEF Merge, Put, Stamp
<1>4. \A k \in 1..Count(head, tail, nevents) : events[At(k, head, nevents)] \in Event
  BY DEF Ring, Filled
<1>5. /\ p \in 0..(nevents - 1) /\ (tail = IF p + 1 < nevents THEN p + 1 ELSE 0)
      /\ At(Count(head, tail, nevents), head, nevents) = p
      /\ \A k \in 1..Count(head, tail, nevents) : d[At(k, head, nevents)] \in Event
      /\ d[p] = e
      /\ Between(d, head, tail, nevents) = ReplaceAt(Waiting, Len(Waiting), e)
  <2>1. /\ p = IF tail = 0 THEN nevents - 1 ELSE tail - 1
        /\ d[p] = e /\ \A i \in 0..(nevents - 1) : i # p => d[i] = events[i]
    BY <1>1
  <2> HIDE DEF d, p
  <2>2. Amends(d, p, events, head, tail, nevents, e)
    BY <1>1, <1>2, <1>4, <2>1, PutAtLast
  <2> QED
    BY <2>1, <2>2 DEF Amends, Waiting
<1>6. tail' = tail
  <2> HIDE DEF p
  <2>1. (p + 1) % nevents = IF p + 1 < nevents THEN p + 1 ELSE 0
    BY <1>1, <1>5, ContentIsBetween
  <2> QED
    BY <1>3, <1>5, <2>1
<1>7. TypeOK'
  <2>1. e.dev \in Devices /\ e.time \in Times
    BY DEF Event
  <2>2. d \in [0..(nevents - 1) -> Event \cup {NoEvent}]
    BY <1>1
  <2> HIDE DEF d
  <2> QED
    BY <1>1, <1>3, <1>6, <2>1, <2>2 DEF Ring, TypeOK, Index
<1>8. Filled'
  <2> HIDE DEF d, p
  <2> QED
    BY <1>3, <1>5, <1>6 DEF Filled
<1>9. LastMotionKnown'
  <2> HIDE DEF d, p
  <2>1. LastBucket' = e
    BY <1>3, <1>5, <1>6 DEF LastBucket
  <2> QED
    BY <1>2, <1>3, <2>1 DEF LastMotionKnown
<1>10. Content' = ReplaceAt(Content, Len(Content), e)
  <2> HIDE DEF d, p
  <2> QED
    BY <1>1, <1>3, <1>5, <1>6, <1>7, IndexedNext DEF Waiting
<1>11. Stream!Supersedes(e, Content)
  <2>1. Waiting # <<>> /\ Last(Waiting) = LastBucket
    BY <1>2, LastWaits
  <2>2. e.dev # NoDevice
    BY InputQueueAssumption DEF Event
  <2>3. LastBucket.motion /\ LastBucket.dev = e.dev
    BY <1>2, <2>2 DEF Ring, LastMotionKnown
  <2>4. Content # <<>> /\ Last(Content).motion /\ Last(Content).dev = e.dev
    BY <1>1, <2>1, <2>3, Zenon
  <2> QED
    BY <1>2, <2>4, Zenon DEF Stream!Supersedes, Stream!Last, Last
<1>12. Stream!Supersede(e)
  <2>1. handled' = handled
    OBVIOUS
  <2> QED
    BY <1>10, <1>11, <2>1, Zenon DEF Stream!Supersede, Stream!ReplaceAt, ReplaceAt
<1> QED
  BY <1>7, <1>8, <1>9, <1>12 DEF Ring

(* Tossing an event, with as many waiting as the ring holds.                *)
LEMMA TossStep ==
  ASSUME Ring, NEW e \in Event, TossEvent(e), handled' = handled, sent' \in 0..MaxEvents
  PROVE  Ring' /\ Stream!Toss
<1>1. UNCHANGED <<events, head, tail, nevents, lastMotion, lastEventTime, handled>>
  BY DEF TossEvent
<1>2. Ring'
  BY <1>1 DEF Ring, TypeOK, Index, Filled, LastMotionKnown, LastBucket
<1>3. UNCHANGED Stream!vars
  BY <1>1 DEF Stream!vars, Content, NumEnqueued
<1>4. /\ nevents \in Sizes /\ nevents \in Nat \ {0, 1} /\ head \in 0..(nevents - 1)
      /\ tail \in 0..(nevents - 1) /\ Content = Waiting
      /\ NumEnqueued = Count(head, tail, nevents)
  BY Indexed DEF Ring, TypeOK
<1>5. Len(Waiting) = Count(head, tail, nevents)
  BY <1>4, BetweenIsSeq DEF Ring, Filled, Waiting
<1>6. Count(head, tail, nevents) \in 0..(nevents - 1)
  BY <1>4, Indices
<1>7. InitialSize \in Nat /\ nevents >= InitialSize
  BY <1>4, InputQueueAssumption, SizesAreNat
<1>8. Len(Content) >= InitialSize - 1
  BY <1>4, <1>5, <1>6, <1>7 DEF TossEvent
<1>9. Stream!Toss
  BY <1>3, <1>8 DEF Stream!Toss
<1> QED
  BY <1>2, <1>9

(* An event of a device is accepted, merged or tossed.                      *)
LEMMA EnqueueStep ==
  ASSUME Ring, NEW d \in Devices, NEW m \in BOOLEAN, NEW t \in Times, Enqueue(d, m, t)
  PROVE  Ring' /\ Stream!Next
<1> DEFINE e == [dev |-> d, motion |-> m, id |-> sent + 1, time |-> t]
<1>1. sent' = sent + 1 /\ sent < MaxEvents /\ handled' = handled
  BY DEF Enqueue
<1>2. sent + 1 \in 1..MaxEvents /\ sent' \in 0..MaxEvents
  BY <1>1, InputQueueAssumption DEF Ring, TypeOK
<1>3. e \in Event
  BY <1>2 DEF Event
<1>4. Merge(e) \/ Store(e) \/ Grow(e) \/ TossEvent(e)
  BY DEF Enqueue
<1> HIDE DEF e
<1>5. CASE Merge(e)
  BY <1>1, <1>2, <1>3, <1>5, MergeStep DEF Stream!Next
<1>6. CASE Store(e)
  BY <1>1, <1>2, <1>3, <1>6, StoreStep DEF Stream!Next
<1>7. CASE Grow(e)
  BY <1>1, <1>2, <1>3, <1>7, GrowStep DEF Stream!Next
<1>8. CASE TossEvent(e)
  BY <1>1, <1>2, <1>3, <1>8, TossStep DEF Stream!Next
<1> QED
  BY <1>4, <1>5, <1>6, <1>7, <1>8

----------------------------------------------------------------------------
(* The queue starts as an empty stream.                                     *)
LEMMA RingAtStart == Init => Ring /\ Stream!Init
<1> SUFFICES ASSUME Init
             PROVE  Ring /\ Stream!Init
  OBVIOUS
<1>1. nevents = InitialSize /\ nevents \in Sizes /\ nevents \in Nat \ {0, 1}
  BY InputQueueAssumption, SizesAreNat DEF Init
<1>2. TypeOK
  BY <1>1, InputQueueAssumption DEF Init, TypeOK, Index
<1>3. head = 0 /\ tail = 0 /\ Count(head, tail, nevents) = 0
  BY <1>1 DEF Init, Count
<1>4. Filled /\ LastMotionKnown
  BY <1>3 DEF Filled, LastMotionKnown
<1>5. Content = Waiting
  BY <1>2, Indexed
<1>6. Waiting \in Seq(Event) /\ Len(Waiting) = 0
  BY <1>1, <1>3, <1>4, BetweenIsSeq DEF Filled, Waiting
<1>7. Content = <<>>
  BY <1>5, <1>6, EmptySeq
<1> QED
  BY <1>2, <1>4, <1>7 DEF Ring, Stream!Init, Init

(* Every step keeps the ring in order, and is a step of the stream or none.  *)
LEMMA RingSteps == Ring /\ [Next]_vars => Ring' /\ [Stream!Next]_(Stream!vars)
<1> SUFFICES ASSUME Ring, [Next]_vars
             PROVE  Ring' /\ [Stream!Next]_(Stream!vars)
  OBVIOUS
<1>1. CASE Dequeue
  BY <1>1, DequeueStep DEF Stream!Next
<1>2. ASSUME NEW d \in Devices, NEW m \in BOOLEAN, NEW t \in Times, Enqueue(d, m, t)
      PROVE  Ring' /\ Stream!Next
  BY <1>2, EnqueueStep
<1>3. CASE UNCHANGED vars
  <2>1. Ring'
    BY <1>3 DEF vars, Ring, TypeOK, Index, Filled, LastMotionKnown, LastBucket
  <2>2. UNCHANGED Stream!vars
    BY <1>3 DEF vars, Stream!vars, Content, NumEnqueued
  <2> QED
    BY <2>1, <2>2
<1> QED
  BY <1>1, <1>2, <1>3 DEF Next

(* The ring stays in order.                                                 *)
LEMMA RingInOrder == Spec => []Ring
<1>1. Init => Ring
  BY RingAtStart
<1>2. Ring /\ [Next]_vars => Ring'
  BY RingSteps
<1> QED
  BY <1>1, <1>2, PTL DEF Spec

(* Whatever wraps, merges and grows, mieqEnqueue and mieqProcessInputEvents  *)
(* handle a stream: no event is lost, repeated, reordered or overtaken, but  *)
(* a motion by the next of its device, and none is tossed while the ring has *)
(* room.                                                                     *)
THEOREM RingIsStream == Spec => ImplementsStream
<1>1. Init => Stream!Init
  BY RingAtStart
<1>2. Ring /\ [Next]_vars => [Stream!Next]_(Stream!vars)
  BY RingSteps
<1> QED
  BY <1>1, <1>2, RingInOrder, PTL DEF Spec, ImplementsStream, Stream!Spec

(* lastMotion always describes the event a motion would be merged with, so   *)
(* motions are merged with motions of their device only (mieqEnqueue).       *)
THEOREM LastMotionIsTrue == Spec => []LastMotionTrue
<1>1. Ring => LastMotionTrue
  <2> SUFFICES ASSUME Ring, Content # <<>>
               PROVE  lastMotion = IF Last(Content).motion THEN Last(Content).dev
                                   ELSE NoDevice
    BY DEF LastMotionTrue
  <2>1. /\ nevents \in Nat \ {0, 1} /\ head \in 0..(nevents - 1)
        /\ tail \in 0..(nevents - 1) /\ Content = Waiting
    BY Indexed DEF Ring
  <2>2. /\ Waiting \in Seq(Event) /\ Len(Waiting) = Count(head, tail, nevents)
    BY <2>1, BetweenIsSeq DEF Ring, Filled, Waiting
  <2>3. head # tail
    <3>1. Count(head, tail, nevents) # 0
      BY <2>1, <2>2, EmptySeq
    <3> QED
      BY <2>1, <3>1 DEF Count
  <2>4. Last(Waiting) = LastBucket
    BY <2>3, LastWaits
  <2> QED
    BY <2>1, <2>3, <2>4 DEF Ring, LastMotionKnown
<1> QED
  BY <1>1, RingInOrder, PTL

=============================================================================
