---------------------------- MODULE InputQueue -----------------------------
(****************************************************************************)
(* The input event queue, a ring buffer that grows (mi/mieq.c).  The input   *)
(* lock is held over every operation (see InputThread), so each is a step.   *)
(* Left out: the count of tossed events, which is only logged, and the       *)
(* screens an event is queued and handled for.                               *)
(****************************************************************************)
EXTENDS Integers, Sequences, SequencesExt

CONSTANTS
  Devices,
  Times,         \* time stamps drivers give
  InitialSize,   \* QUEUE_INITIAL_SIZE, 512
  Sizes,         \* sizes the queue may have: InitialSize times powers of 2
  Word,          \* 2^32
  Margin,        \* 10000 ms
  MaxEvents,     \* bound: events ever queued
  MaxSize,       \* bound: allocations beyond this size fail
  NoDevice, NoEvent

Event == [dev : Devices, motion : BOOLEAN, id : 1..MaxEvents, time : Times]

ASSUME InputQueueAssumption ==
  /\ InitialSize \in Sizes /\ Word \in Nat \ {0} /\ MaxSize \in Nat
  /\ \A n \in Sizes :
       /\ n \in Nat \ {0, 1} /\ n >= InitialSize
       /\ n < Word /\ Word % n = 0
       /\ 2 * n <= MaxSize => 2 * n \in Sizes
  /\ MaxEvents \in Nat /\ Margin \in Nat /\ Times \subseteq Nat
  /\ NoDevice \notin Devices /\ NoEvent \notin Event

VARIABLES
  events,         \* the array of buckets
  head, tail,
  nevents,        \* its size
  lastMotion,     \* device of the last event if that was a motion
  lastEventTime,
  handled,        \* the event handled last
  sent            \* events queued so far

vars == <<events, head, tail, nevents, lastMotion, lastEventTime, handled, sent>>

Index == 0..(nevents - 1)

(* mieqNumEnqueued: unsigned arithmetic, so the size is added first.        *)
NumEnqueued ==
  LET n == tail - head + nevents IN IF n >= nevents THEN n - nevents ELSE n

(* Elements from head to tail.                                              *)
Content == [k \in 1..NumEnqueued |-> events[(head + k - 1) % nevents]]

(* mieqGrowQueue copies from head to the end, then from the start to head.  *)
UnwrappedMutantNotTurned(size) ==
  [i \in 0..(size - 1) |-> IF i < nevents THEN events[i] ELSE NoEvent]

Unwrapped(size) ==
  LET firstHunk == nevents - head
  IN [i \in 0..(size - 1) |-> IF i < firstHunk THEN events[head + i]
                              ELSE IF i < nevents THEN events[i - firstHunk]
                              ELSE NoEvent]

Merges(e) == e.motion /\ lastMotion = e.dev /\ tail # head

(* The event is copied into the queue before its time is corrected, and the *)
(* correction goes to the caller's copy.                                    *)
Stamp(e) == lastEventTime' = e.time

PutMutantStaysMotion(e, buckets, at, size) ==
  /\ events' = [buckets EXCEPT ![at] = e]
  /\ tail' = (at + 1) % size
  /\ nevents' = size
  /\ lastMotion' = IF e.motion THEN e.dev ELSE lastMotion
  /\ Stamp(e)

Put(e, buckets, at, size) ==
  /\ events' = [buckets EXCEPT ![at] = e]
  /\ tail' = (at + 1) % size
  /\ nevents' = size
  /\ lastMotion' = IF e.motion THEN e.dev ELSE NoDevice
  /\ Stamp(e)

(* mieqEnqueue                                                              *)
Merge(e) ==
  /\ Merges(e)
  /\ Put(e, events, ((tail + Word - 1) % Word) % nevents, nevents)
  /\ UNCHANGED head

Store(e) ==
  /\ ~Merges(e) /\ NumEnqueued + 1 # nevents
  /\ Put(e, events, tail, nevents)
  /\ UNCHANGED head

Grow(e) ==
  /\ ~Merges(e) /\ NumEnqueued + 1 = nevents /\ 2 * nevents <= MaxSize
  /\ Put(e, Unwrapped(2 * nevents), NumEnqueued, 2 * nevents)
  /\ head' = 0

TossEvent(e) ==
  /\ ~Merges(e) /\ NumEnqueued + 1 = nevents
  /\ UNCHANGED <<events, head, tail, nevents, lastMotion, lastEventTime>>

Enqueue(dev, motion, time) ==
  LET e == [dev |-> dev, motion |-> motion, id |-> sent + 1, time |-> time]
  IN /\ sent < MaxEvents /\ sent' = sent + 1
     /\ Merge(e) \/ Store(e) \/ Grow(e) \/ TossEvent(e)
     /\ UNCHANGED handled

(* mieqProcessInputEvents takes one event.                                  *)
Dequeue ==
  /\ head # tail
  /\ handled' = events[head]
  /\ head' = (head + 1) % nevents
  /\ UNCHANGED <<events, tail, nevents, lastMotion, lastEventTime, sent>>

(* mieqInit                                                                 *)
Init ==
  /\ nevents = InitialSize /\ events = [i \in 0..(InitialSize - 1) |-> NoEvent]
  /\ head = 0 /\ tail = 0 /\ lastMotion = NoDevice /\ lastEventTime \in Times
  /\ handled = NoEvent /\ sent = 0

Next ==
  \/ Dequeue
  \/ \E d \in Devices, m \in BOOLEAN, t \in Times : Enqueue(d, m, t)

Spec == Init /\ [][Next]_vars

----------------------------------------------------------------------------
TypeOK ==
  /\ nevents \in Sizes
  /\ events \in [Index -> Event \cup {NoEvent}]
  /\ head \in Index /\ tail \in Index
  /\ lastMotion \in Devices \cup {NoDevice} /\ lastEventTime \in Times
  /\ handled \in Event \cup {NoEvent} /\ sent \in 0..MaxEvents

(* lastMotion describes the event at the end of the queue, if there is one: *)
(* a motion is merged with no other (mieqEnqueue).                          *)
LastMotionTrue ==
  Content # <<>> =>
    lastMotion = IF Last(Content).motion THEN Last(Content).dev ELSE NoDevice

(* The ring is a stream: nothing is lost, repeated or reordered, whatever   *)
(* wraps, merges and grows (mieqEnqueue, mieqGrowQueue).                    *)
Stream == INSTANCE InputStream WITH stream <- Content, Capacity <- InitialSize - 1
ImplementsStream == Stream!Spec

(* "Make sure that event times don't go backwards", unless by 10 s or more  *)
(* (mieqEnqueue).                                                           *)
TimesNeverGoBack ==
  \A i, j \in 1..Len(Content) :
    i < j /\ Content[j].time < Content[i].time =>
      Content[i].time - Content[j].time >= Margin
=============================================================================
