--------------------------- MODULE MsVblankProofs ---------------------------
(****************************************************************************)
(* The modesetting driver's vblanks and page flips, for any screens, events *)
(* and widths of the counters.                                              *)
(*                                                                          *)
(* Three layers.  State has the types of all fields, but for the references *)
(* of a flip, which may not be negative only because they are counted       *)
(* right.  Tallied is about counters: a sequence number stands for one CRTC *)
(* whoever holds it (Paired), what the driver has not yet seen of a counter *)
(* is little (Close), and so msc_prev and msc_high are the true count       *)
(* (Exact).  It shows that the msc Present is given is exact.               *)
(*                                                                          *)
(* Sound is about entries and framebuffers.  Linked: each entry of the      *)
(* queue has its number with exactly one of a request, a flip under way, an *)
(* event to read and a call, and that is about what the entry is for.       *)
(* Waited: Present waits for what has an entry, and was told of nothing     *)
(* twice.  Framed: there is one flip at a time, between two framebuffers,   *)
(* each CRTC that still shows the old one has an entry or is yet to be      *)
(* asked, and the references are the entries and the call.  From it follow  *)
(* that no framebuffer on the screen is removed and none leaks, that        *)
(* nobody is forgotten, and that Present is told once and in time.          *)
(*                                                                          *)
(* Two premises, no more than the code needs.  CloseCounters: a counter     *)
(* moves less than a quarter turn between two readings.  Cooperates: also   *)
(* the kernel takes all CRTCs of a flip or none, event ids start above 1,   *)
(* and Present asks for no vblank half a counter away.                      *)
(****************************************************************************)
EXTENDS MsVblank, SequenceTheorems, FiniteSetTheorems, WellFoundedInduction, TLAPS

----------------------------------------------------------------------------
(* The types of the state, but that references are counted right. *)
EventRecord == [crtc : Crtcs, seq : Nat, count : Nat, wide : BOOLEAN]
Request == [crtc : Crtcs, msc : Nat, seq : Nat]
Life == {"unused", "waiting", "told", "aborted", "refused"}
Asked == [kind : {"none", "vblank", "flip", "unflip"}, crtc : Crtcs, msc : Nat]
Data == [refs : Int, old : Fbs, msc : Nat, true : Nat]

Counters == [Crtcs -> Nat]
RequestSets == {R \in SUBSET Request : IsFiniteSet(R)}
FlipsOf == [Crtcs -> [seq : Nat, fb : Fbs]]
Shown == [Crtcs -> Fbs]
FbSets == SUBSET Fbs
EventLists == Seq(EventRecord)
Lows == [Crtcs -> 0..(Word - 1)]
Highs == [Crtcs -> 0..(Long - 1)]
Queues == Seq(Entry)
DataOf == [Events -> Data]
Stacks == Seq(Call)
LifeOf == [Events -> Life]
AskedOf == [Events -> Asked]
TellsOf == [Events -> Nat]
Answers == [given : Nat, true : Nat]

State ==
  [count : Counters, requests : RequestSets, flips : FlipsOf, shows : Shown, fbs : FbSets,
   events : EventLists, hasSeq : BOOLEAN, prev : Lows, high : Highs, next : Nat, queue : Queues,
   fb : Fbs, data : DataOf, calls : Stacks, seen : Counters, life : LifeOf, asked : AskedOf,
   tells : TellsOf, answer : Answers]

Living == setup \in Setups

(* What a screen is given with. *)
LEMMA SetupType ==
  ASSUME Living
  PROVE  NumCrtcs \in Nat \ {0} /\ Start \in Nat /\ MaxCount \in Nat /\ Aheads \subseteq Nat
BY MsVblankAssumption DEF Living, NumCrtcs, Start, MaxCount, Aheads

(* The constants. *)
LEMMA Widths ==
  /\ Word \in Nat \ {0} /\ Long \in Nat \ {0} /\ Quarter \in Nat /\ Passed \in Nat
  /\ FirstEvent \in Nat \ {0} /\ LastEvent \in Nat /\ Space \in Nat /\ MaxUnseen \in Nat
  /\ 0 \in Fbs /\ Events \subseteq Fbs
  /\ \A e \in Events : /\ LastEvent + e \in Fbs /\ LastEvent + e \notin Events
                       /\ LastEvent + (LastEvent + e) \in Fbs /\ LastEvent + (LastEvent + e) > 2 * LastEvent
<1>1. /\ Word \in Nat \ {0} /\ Long \in Nat \ {0} /\ Quarter \in Nat /\ Passed \in Nat
      /\ FirstEvent \in Nat \ {0} /\ LastEvent \in Nat /\ Space \in Nat /\ MaxUnseen \in Nat
  BY MsVblankAssumption
<1> QED BY <1>1 DEF Fbs, Events

(* A remainder. *)
LEMMA ModType ==
  ASSUME NEW n \in Int
  PROVE  n % Word \in 0..(Word - 1) /\ n % Long \in 0..(Long - 1)
BY Widths

(* No flip is a flip with the number 0. *)
LEMMA NothingType ==
  Nothing \in [seq : Nat, fb : Fbs]
BY Widths DEF Nothing

(* The fields of a state. *)
LEMMA FieldTypes ==
  ASSUME NEW t \in State
  PROVE  /\ t.count \in [Crtcs -> Nat] /\ t.requests \in SUBSET Request /\ IsFiniteSet(t.requests)
         /\ t.flips \in [Crtcs -> [seq : Nat, fb : Fbs]] /\ t.shows \in [Crtcs -> Fbs]
         /\ t.fbs \in SUBSET Fbs /\ t.events \in Seq(EventRecord) /\ t.hasSeq \in BOOLEAN
         /\ t.prev \in [Crtcs -> 0..(Word - 1)] /\ t.high \in [Crtcs -> 0..(Long - 1)]
         /\ t.next \in Nat /\ t.queue \in Seq(Entry) /\ t.fb \in Fbs
         /\ t.data \in [Events -> Data] /\ t.calls \in Seq(Call) /\ t.seen \in [Crtcs -> Nat]
         /\ t.life \in [Events -> Life] /\ t.asked \in [Events -> Asked]
         /\ t.tells \in [Events -> Nat] /\ t.answer \in [given : Nat, true : Nat]
BY DEF State, Counters, RequestSets, FlipsOf, Shown, FbSets, EventLists, Lows, Highs, Queues,
       DataOf, Stacks, LifeOf, AskedOf, TellsOf, Answers

(* ms_kernel_msc_to_crtc_msc *)
LEMMA ConvertType ==
  ASSUME Living, NEW t \in State, NEW c \in Crtcs, NEW n \in Nat, NEW wide
  PROVE  Convert(t, c, n, wide) \in State /\ Converted(t, c) \in Nat
<1> DEFINE low == n % Word
           base == IF wide THEN n - low
                   ELSE IF low < t.prev[c] - Quarter THEN t.high[c] + Word
                   ELSE IF low > t.prev[c] + Quarter THEN t.high[c] - Word
                   ELSE t.high[c]
           x == base % Long
<1>1. low \in 0..(Word - 1)
  BY ModType
<1>2. t.high[c] \in Nat /\ t.prev[c] \in Nat /\ Word \in Nat
  BY Widths, FieldTypes
<1>3. base \in Int
  BY <1>1, <1>2
<1> HIDE DEF base
<1>4. x \in 0..(Long - 1)
  BY <1>3, ModType
<1> HIDE DEF x, low
<1>5. Convert(t, c, n, wide) = [t EXCEPT !.prev[c] = low, !.high[c] = x, !.seen[c] = n]
  BY DEF Convert, x, base, low
<1>6. Convert(t, c, n, wide) \in State
  <2>1. /\ [t.prev EXCEPT ![c] = low] \in Lows /\ [t.high EXCEPT ![c] = x] \in Highs
        /\ [t.seen EXCEPT ![c] = n] \in Counters
    BY <1>1, <1>4, FieldTypes DEF Lows, Highs, Counters
  <2> QED BY <1>5, <2>1, ZenonT(30) DEF State
<1>7. Converted(t, c) \in Nat
  <2>1. t.high[c] + t.prev[c] \in Int
    BY <1>2
  <2>2. (t.high[c] + t.prev[c]) % Long \in 0..(Long - 1)
    BY <2>1, ModType
  <2> QED BY <2>2, Widths DEF Converted
<1> QED BY <1>6, <1>7

(* ms_get_crtc_ust_msc *)
LEMMA GetMscType ==
  ASSUME Living, NEW t \in State, NEW c \in Crtcs
  PROVE  GetMsc(t, c) \in State
<1> DEFINE u == Convert(t, c, t.count[c], t.hasSeq)
           n == Converted(u, c)
<1>1. t.count[c] \in Nat
  BY FieldTypes
<1>2. u \in State
  BY <1>1, ConvertType
<1> HIDE DEF u
<1>3. n \in Nat
  BY <1>2, ConvertType
<1> HIDE DEF n
<1>4. GetMsc(t, c) = [u EXCEPT !.answer = [given |-> n, true |-> t.count[c]]]
  BY DEF GetMsc, u, n
<1>5. [given |-> n, true |-> t.count[c]] \in Answers
  BY <1>1, <1>3 DEF Answers
<1> QED BY <1>2, <1>4, <1>5 DEF State

(* Any order of a finite set is a list of its elements. *)
On(q) == {q[i] : i \in 1..Len(q)}

(* A list that has a set in some order. *)
LEMMA Ordered ==
  ASSUME NEW S, IsFiniteSet(S), NEW q \in SetToSeqs(S)
  PROVE  q \in Seq(S) /\ On(q) = S
<1> DEFINE n == Cardinality(S)
<1>1. q \in [1..n -> S] /\ \A i, j \in 1..n : i # j => q[i] # q[j]
  BY DEF SetToSeqs
<1>2. n \in Nat
  BY FS_CardinalityType
<1>3. q \in Seq(S) /\ Len(q) = n
  BY <1>1, <1>2, SeqDef
<1>4. q \in Injection(1..n, S)
  BY <1>1 DEF Injection, IsInjective
<1>5. IsFiniteSet(1..n) /\ Cardinality(1..n) = n
  <2>1. IsFiniteSet(1..n) /\ Cardinality(1..n) = IF 1 > n THEN 0 ELSE n - 1 + 1
    BY <1>2, FS_Interval
  <2> QED BY <1>2, <2>1
<1>6. q \in Surjection(1..n, S)
  BY <1>4, <1>5, FS_Injection
<1>7. \A x \in S : \E i \in 1..n : q[i] = x
  BY <1>6 DEF Surjection
<1> QED BY <1>1, <1>3, <1>7 DEF On

(* There is such a list. *)
LEMMA SomeOrder ==
  ASSUME NEW S, IsFiniteSet(S)
  PROVE  SetToSeq(S) \in SetToSeqs(S)
<1> DEFINE n == Cardinality(S)
<1>1. ExistsBijection(1..n, S)
  BY FS_CardinalityType
<1>2. PICK f \in Bijection(1..n, S) : TRUE
  BY <1>1 DEF ExistsBijection
<1>3. f \in [1..n -> S] /\ IsInjective(f)
  BY <1>2 DEF Bijection, Injection
<1>4. SetToSeq(S) \in [1..n -> S] /\ IsInjective(SetToSeq(S))
  BY <1>3 DEF SetToSeq
<1> QED BY <1>4 DEF SetToSeqs, IsInjective

(* One list after another. *)
LEMMA Joined ==
  ASSUME NEW S, NEW p \in Seq(S), NEW q \in Seq(S)
  PROVE  p \o q \in Seq(S) /\ On(p \o q) = On(p) \cup On(q)
<1> DEFINE r == p \o q
<1>1. /\ r \in Seq(S) /\ Len(r) = Len(p) + Len(q)
      /\ \A i \in 1..Len(p) + Len(q) : r[i] = IF i <= Len(p) THEN p[i] ELSE q[i - Len(p)]
  BY ConcatProperties
<1> HIDE DEF r
<1>2. Len(p) \in Nat /\ Len(q) \in Nat
  BY LenProperties
<1>3. ASSUME NEW x \in On(r) PROVE x \in On(p) \cup On(q)
  <2>1. PICK i \in 1..Len(r) : x = r[i]
    BY DEF On
  <2>2. CASE i <= Len(p)
    <3>1. i \in 1..Len(p) /\ r[i] = p[i]
      BY <1>1, <1>2, <2>2
    <3> QED BY <2>1, <3>1 DEF On
  <2>3. CASE ~ (i <= Len(p))
    <3>1. i - Len(p) \in 1..Len(q) /\ r[i] = q[i - Len(p)]
      BY <1>1, <1>2, <2>3
    <3> QED BY <2>1, <3>1 DEF On
  <2> QED BY <2>2, <2>3
<1>4. ASSUME NEW x \in On(p) PROVE x \in On(r)
  <2>1. PICK i \in 1..Len(p) : x = p[i]
    BY DEF On
  <2>2. i \in 1..Len(r) /\ r[i] = p[i]
    BY <1>1, <1>2
  <2> QED BY <2>1, <2>2 DEF On
<1>5. ASSUME NEW x \in On(q) PROVE x \in On(r)
  <2>1. PICK i \in 1..Len(q) : x = q[i]
    BY DEF On
  <2>2. Len(p) + i \in 1..Len(r) /\ ~ (Len(p) + i <= Len(p)) /\ (Len(p) + i) - Len(p) = i
    BY <1>1, <1>2
  <2>3. r[Len(p) + i] = q[i]
    BY <1>1, <2>2
  <2> QED BY <2>1, <2>2, <2>3 DEF On
<1> QED BY <1>1, <1>3, <1>4, <1>5 DEF r

(* A list with something put in front. *)
LEMMA Pushed ==
  ASSUME NEW S, NEW q \in Seq(S), NEW x \in S
  PROVE  /\ <<x>> \o q \in Seq(S) /\ On(<<x>> \o q) = {x} \cup On(q)
         /\ Len(<<x>> \o q) = Len(q) + 1 /\ (<<x>> \o q)[1] = x
         /\ \A i \in 1..Len(q) : (<<x>> \o q)[i + 1] = q[i]
<1> DEFINE p == <<x>>
<1>1. p \in Seq(S) /\ Len(p) = 1 /\ p[1] = x
  OBVIOUS
<1>2. On(p) = {x}
  BY DEF On
<1> HIDE DEF p
<1>3. p \o q \in Seq(S) /\ On(p \o q) = On(p) \cup On(q)
  BY <1>1, Joined
<1>4. /\ Len(p \o q) = Len(p) + Len(q)
      /\ \A i \in 1..Len(p) + Len(q) : (p \o q)[i] = IF i <= Len(p) THEN p[i] ELSE q[i - Len(p)]
  BY <1>1, ConcatProperties
<1>5. Len(q) \in Nat
  BY LenProperties
<1> DEFINE r == p \o q
<1> HIDE DEF r
<1>6. /\ r \in Seq(S) /\ On(r) = {x} \cup On(q) /\ Len(r) = Len(q) + 1
      /\ \A i \in 1..Len(q) + 1 : r[i] = IF i <= 1 THEN x ELSE q[i - 1]
  BY <1>1, <1>2, <1>3, <1>4, <1>5 DEF r
<1>7. r[1] = x
  BY <1>5, <1>6
<1>8. \A i \in 1..Len(q) : r[i + 1] = q[i]
  <2> TAKE i \in 1..Len(q)
  <2>1. i + 1 \in 1..Len(q) + 1 /\ ~ (i + 1 <= 1) /\ (i + 1) - 1 = i
    BY <1>5
  <2> QED BY <1>6, <2>1
<1> QED BY <1>6, <1>7, <1>8 DEF r, p

(* The elements of a list with something put in front. *)
LEMMA OnPushed ==
  ASSUME NEW S, NEW q \in Seq(S), NEW x \in S
  PROVE  On(<<x>> \o q) = {x} \cup On(q)
BY Pushed

(* A list with its first gone. *)
LEMMA Popped ==
  ASSUME NEW S, NEW q \in Seq(S), q # <<>>
  PROVE  /\ Tail(q) \in Seq(S) /\ Head(q) \in S /\ Head(q) = q[1] /\ Head(q) \in On(q)
         /\ On(q) = {Head(q)} \cup On(Tail(q))
         /\ Len(q) \in Nat \ {0} /\ Len(Tail(q)) = Len(q) - 1
         /\ \A i \in 1..Len(Tail(q)) : Tail(q)[i] = q[i + 1]
<1>1. Len(q) \in Nat \ {0} /\ Head(q) = q[1]
  BY EmptySeq
<1>2. /\ Head(q) \in S /\ Tail(q) \in Seq(S) /\ Len(Tail(q)) = Len(q) - 1
      /\ \A i \in 1..Len(Tail(q)) : Tail(q)[i] = q[i + 1]
  BY HeadTailProperties
<1> DEFINE r == Tail(q)
<1> HIDE DEF r
<1>3. /\ r \in Seq(S) /\ Len(r) = Len(q) - 1 /\ \A i \in 1..Len(r) : r[i] = q[i + 1]
  BY <1>2 DEF r
<1>4. \A i \in 1..Len(r) : i + 1 \in 1..Len(q)
  BY <1>1, <1>3
<1>5. \A i \in 1..Len(q) : i = 1 \/ (i - 1 \in 1..Len(r) /\ r[i - 1] = q[i])
  <2> TAKE i \in 1..Len(q)
  <2>1. i # 1 => i - 1 \in 1..Len(r) /\ (i - 1) + 1 = i
    BY <1>1, <1>3
  <2> QED BY <1>3, <2>1
<1>6. ASSUME NEW x \in On(q) PROVE x \in {q[1]} \cup On(r)
  BY <1>5 DEF On
<1>7. On(r) \subseteq On(q)
  BY <1>3, <1>4 DEF On
<1>8. q[1] \in On(q)
  BY <1>1 DEF On
<1> QED BY <1>1, <1>2, <1>6, <1>7, <1>8 DEF r

(* A list with an entry cut out. *)
LEMMA CutOut ==
  ASSUME NEW S, NEW q \in Seq(S), NEW k \in 1..Len(q)
  PROVE  /\ RemoveAt(q, k) \in Seq(S) /\ Len(RemoveAt(q, k)) = Len(q) - 1 /\ q[k] \in S
         /\ \A i \in 1..Len(q) - 1 : RemoveAt(q, k)[i] = IF i < k THEN q[i] ELSE q[i + 1]
         /\ On(RemoveAt(q, k)) = {q[i] : i \in (1..Len(q)) \ {k}}
<1> DEFINE a == SubSeq(q, 1, k - 1)
           b == SubSeq(q, k + 1, Len(q))
<1>1. Len(q) \in Nat /\ \A i \in 1..Len(q) : q[i] \in S
  BY LenProperties
<1>2. /\ a \in Seq(S) /\ Len(a) = k - 1
      /\ \A i \in 1..k - 1 : a[i] = q[i]
  <2>1. 1 \in Int /\ k - 1 \in Int /\ \A i \in 1..k - 1 : q[i] \in S
    BY <1>1
  <2> QED BY <1>1, <2>1, SubSeqProperties
<1>3. /\ b \in Seq(S) /\ Len(b) = Len(q) - k
      /\ \A i \in 1..Len(q) - k : b[i] = q[k + i]
  <2>1. k + 1 \in Int /\ Len(q) \in Int /\ \A i \in k + 1..Len(q) : q[i] \in S
    BY <1>1
  <2>2. /\ b \in Seq(S) /\ Len(b) = IF k + 1 <= Len(q) THEN Len(q) - (k + 1) + 1 ELSE 0
        /\ \A i \in 1..Len(q) - (k + 1) + 1 : b[i] = q[k + 1 + i - 1]
    BY <2>1, SubSeqProperties
  <2> QED BY <1>1, <2>2
<1>4. RemoveAt(q, k) = a \o b
  BY DEF RemoveAt
<1> HIDE DEF a, b
<1> DEFINE r == a \o b
<1>5. /\ r \in Seq(S) /\ Len(r) = Len(a) + Len(b)
      /\ \A i \in 1..Len(a) + Len(b) : r[i] = IF i <= Len(a) THEN a[i] ELSE b[i - Len(a)]
  BY <1>2, <1>3, ConcatProperties
<1> HIDE DEF r
<1>6. \A i \in 1..Len(q) - 1 : r[i] = IF i < k THEN q[i] ELSE q[i + 1]
  <2> TAKE i \in 1..Len(q) - 1
  <2>1. CASE i < k
    <3>1. i \in 1..k - 1 /\ i \in 1..Len(a) + Len(b) /\ i <= Len(a)
      BY <1>1, <1>2, <1>3, <2>1
    <3>2. r[i] = a[i] /\ a[i] = q[i]
      BY <1>2, <1>5, <3>1
    <3> QED BY <2>1, <3>2
  <2>2. CASE i >= k
    <3>1. i - (k - 1) \in 1..Len(q) - k
      BY <1>1, <2>2
    <3>2. b[i - (k - 1)] = q[k + (i - (k - 1))]
      BY <1>3, <3>1
    <3>3. k + (i - (k - 1)) = i + 1
      OBVIOUS
    <3>4. r[i] = b[i - (k - 1)]
      <4>1. i \in 1..Len(a) + Len(b) /\ ~ (i <= Len(a)) /\ Len(a) = k - 1
        BY <1>1, <1>2, <1>3, <2>2
      <4> QED BY <1>5, <4>1
    <3> QED BY <2>2, <3>2, <3>3, <3>4
  <2> QED BY <2>1, <2>2
<1>7. Len(r) = Len(q) - 1
  BY <1>1, <1>2, <1>3, <1>5
<1>8. On(r) = {q[i] : i \in (1..Len(q)) \ {k}}
  <2> DEFINE I == (1..Len(q)) \ {k}
  <2>1. \A i \in 1..Len(r) : \E m \in (1..Len(q)) \ {k} : r[i] = q[m]
    <3> TAKE i \in 1..Len(r)
    <3>1. CASE i < k
      BY <1>1, <1>6, <1>7, <3>1
    <3>2. CASE ~ (i < k)
      <4>1. i + 1 \in (1..Len(q)) \ {k}
        BY <1>1, <1>7, <3>2
      <4> QED BY <1>6, <1>7, <3>2, <4>1
    <3> QED BY <3>1, <3>2
  <2>2. \A m \in (1..Len(q)) \ {k} : \E i \in 1..Len(r) : r[i] = q[m]
    <3> TAKE m \in (1..Len(q)) \ {k}
    <3>1. CASE m < k
      <4>1. m \in 1..Len(r)
        BY <1>1, <1>7, <3>1
      <4> QED BY <1>6, <1>7, <3>1, <4>1
    <3>2. CASE m > k
      <4>1. m - 1 \in 1..Len(r) /\ ~ (m - 1 < k) /\ (m - 1) + 1 = m
        BY <1>1, <1>7, <3>2
      <4> QED BY <1>6, <1>7, <4>1
    <3> QED BY <3>1, <3>2
  <2>3. On(r) = {r[i] : i \in 1..Len(r)}
    BY DEF On
  <2>4. (\A i \in 1..Len(r) : \E m \in I : r[i] = q[m]) /\ \A m \in I : \E i \in 1..Len(r) : r[i] = q[m]
    BY <2>1, <2>2
  <2> HIDE DEF r, I
  <2>5. {r[i] : i \in 1..Len(r)} = {q[m] : m \in I}
    BY <2>4
  <2> QED BY <2>3, <2>5 DEF I
<1> QED BY <1>1, <1>4, <1>5, <1>6, <1>7, <1>8 DEF r

(* The kernel: a vblank passes, a vblank is asked for, a flip takes place. *)
LEMMA DueType ==
  ASSUME Living, NEW t \in State, NEW c \in Crtcs
  PROVE  /\ IsFiniteSet(DueEvents(t, c)) /\ DueEvents(t, c) \subseteq EventRecord
         /\ Due(t, c) \subseteq t.requests
<1> DEFINE D == Due(t, c)
           V == DueEvents(t, c)
           f == [r \in D |-> Sent(c, r.seq, t.count[c] + 1, t.hasSeq)]
<1>1. D \subseteq t.requests /\ t.requests \subseteq Request /\ IsFiniteSet(t.requests)
  BY FieldTypes DEF Due
<1>2. IsFiniteSet(D)
  BY <1>1, FS_Subset
<1>3. V = {Sent(c, r.seq, t.count[c] + 1, t.hasSeq) : r \in D}
  BY DEF DueEvents
<1> HIDE DEF D, V
<1>4. f \in Surjection(D, V)
  BY <1>3 DEF Surjection
<1>5. IsFiniteSet(V)
  BY <1>2, <1>4, FS_Surjection
<1>6. V \subseteq EventRecord
  <2>1. t.count[c] \in Nat /\ t.hasSeq \in BOOLEAN
    BY FieldTypes
  <2>2. \A r \in D : r.seq \in Nat
    BY <1>1 DEF Request
  <2> QED BY <1>3, <2>1, <2>2 DEF Sent, EventRecord
<1> QED BY <1>1, <1>5, <1>6 DEF D, V

(* A vblank keeps the types, and adds the events that are due. *)
LEMMA KernelVblankType ==
  ASSUME Living, NEW t \in State, NEW c \in Crtcs, NEW news \in SetToSeqs(DueEvents(t, c))
  PROVE  /\ KernelVblank(t, c, news) \in State
         /\ On(KernelVblank(t, c, news).events) = On(t.events) \cup DueEvents(t, c)
<1>1. news \in Seq(DueEvents(t, c)) /\ On(news) = DueEvents(t, c)
  BY DueType, Ordered
<1>2. news \in Seq(EventRecord)
  BY <1>1, DueType, SeqMonotonic
<1> DEFINE es == t.events \o news
<1>3. es \in EventLists /\ On(es) = On(t.events) \cup DueEvents(t, c)
  BY <1>1, <1>2, FieldTypes, Joined DEF EventLists
<1> HIDE DEF es
<1>4. [t.count EXCEPT ![c] = @ + 1] \in Counters
  BY FieldTypes DEF Counters
<1>5. t.requests \ Due(t, c) \in RequestSets
  <2>1. t.requests \ Due(t, c) \subseteq t.requests /\ IsFiniteSet(t.requests)
        /\ t.requests \subseteq Request
    BY FieldTypes
  <2>2. IsFiniteSet(t.requests \ Due(t, c))
    BY <2>1, FS_Subset
  <2> QED BY <2>1, <2>2 DEF RequestSets
<1>6. KernelVblank(t, c, news) =
        [t EXCEPT !.count = [t.count EXCEPT ![c] = @ + 1],
                  !.requests = t.requests \ Due(t, c), !.events = es]
  BY DEF KernelVblank, es, State
<1>7. KernelVblank(t, c, news) \in State
  BY <1>3, <1>4, <1>5, <1>6, ZenonT(30) DEF State
<1>8. KernelVblank(t, c, news).events = es
  BY <1>6 DEF State
<1> QED BY <1>3, <1>7, <1>8

(* One more event for the driver to read. *)
LEMMA EventAdded ==
  ASSUME Living, NEW t \in State, NEW v \in EventRecord
  PROVE  Append(t.events, v) \in EventLists /\ On(Append(t.events, v)) = On(t.events) \cup {v}
<1> DEFINE p == <<v>>
<1>1. t.events \in Seq(EventRecord) /\ p \in Seq(EventRecord) /\ On(p) = {v}
  BY FieldTypes DEF On
<1>2. Append(t.events, v) = t.events \o p
  BY <1>1, AppendIsConcat
<1> HIDE DEF p
<1>3. t.events \o p \in Seq(EventRecord) /\ On(t.events \o p) = On(t.events) \cup On(p)
  BY <1>1, Joined
<1> QED BY <1>1, <1>2, <1>3 DEF EventLists

(* The same of an event that is sent. *)
LEMMA EventSent ==
  ASSUME Living, NEW t \in State, NEW c \in Crtcs, NEW seq \in Nat, NEW n \in Nat,
         NEW wide \in BOOLEAN
  PROVE  /\ Append(t.events, Sent(c, seq, n, wide)) \in EventLists
         /\ On(Append(t.events, Sent(c, seq, n, wide))) = On(t.events) \cup {Sent(c, seq, n, wide)}
<1>1. Sent(c, seq, n, wide) \in EventRecord
  BY DEF Sent, EventRecord
<1> QED BY <1>1, EventAdded

(* A vblank asked for. *)
LEMMA KernelAskedType ==
  ASSUME Living, NEW t \in State, NEW c \in Crtcs, NEW msc \in Nat, NEW seq \in Nat
  PROVE  KernelAsked(t, c, msc, seq) \in State
<1> DEFINE m == IF t.hasSeq THEN msc ELSE msc % Word
           r == [crtc |-> c, msc |-> m, seq |-> seq]
           v == Sent(c, seq, t.count[c], t.hasSeq)
           es == Append(t.events, v)
<1>1. m \in Nat
  <2>1. msc % Word \in 0..(Word - 1)
    BY ModType
  <2> QED BY <2>1, Widths
<1> HIDE DEF m
<1>2. r \in Request
  BY <1>1 DEF Request
<1>3. t.count[c] \in Nat /\ t.hasSeq \in BOOLEAN
  BY FieldTypes
<1>4. es \in EventLists
  BY <1>3, EventSent
<1>5. t.requests \cup {r} \in RequestSets
  <2>1. t.requests \subseteq Request /\ IsFiniteSet(t.requests)
    BY FieldTypes
  <2>2. IsFiniteSet(t.requests \cup {r})
    BY <2>1, FS_AddElement
  <2> QED BY <1>2, <2>1, <2>2 DEF RequestSets
<1> DEFINE R == t.requests \cup {r}
<1>6. \/ KernelAsked(t, c, msc, seq) = [t EXCEPT !.events = es]
      \/ KernelAsked(t, c, msc, seq) = [t EXCEPT !.requests = R]
  BY DEF KernelAsked, State, m
<1> HIDE DEF es, R
<1>7. [t EXCEPT !.events = es] \in State
  BY <1>4 DEF State
<1>8. R \in RequestSets
  BY <1>5 DEF R
<1>9. [t EXCEPT !.requests = R] \in State
  BY <1>8 DEF State
<1> QED BY <1>6, <1>7, <1>9

(* A flip that takes place. *)
LEMMA KernelFlipType ==
  ASSUME Living, NEW t \in State, NEW c \in Crtcs
  PROVE  /\ KernelFlip(t, c) \in State
         /\ On(KernelFlip(t, c).events)
              = On(t.events) \cup {Sent(c, t.flips[c].seq, t.count[c], FALSE)}
<1> DEFINE es == Append(t.events, Sent(c, t.flips[c].seq, t.count[c], FALSE))
           sh == [t.shows EXCEPT ![c] = t.flips[c].fb]
           fl == [t.flips EXCEPT ![c] = Nothing]
<1>1. t.flips[c] \in [seq : Nat, fb : Fbs] /\ t.count[c] \in Nat
  BY FieldTypes
<1>2. /\ es \in EventLists
      /\ On(es) = On(t.events) \cup {Sent(c, t.flips[c].seq, t.count[c], FALSE)}
  BY <1>1, EventSent, ZenonT(30)
<1>3. sh \in Shown /\ fl \in FlipsOf
  BY <1>1, FieldTypes, NothingType DEF Shown, FlipsOf
<1>4. KernelFlip(t, c) = [t EXCEPT !.shows = sh, !.flips = fl, !.events = es]
  BY DEF KernelFlip, State
<1> HIDE DEF es, sh, fl
<1>5. KernelFlip(t, c) \in State /\ KernelFlip(t, c).events = es
  BY <1>2, <1>3, <1>4, ZenonT(30) DEF State
<1> QED BY <1>2, <1>5

(* drmModeRmFB *)
LEMMA RemoveFbType ==
  ASSUME NEW t \in State, NEW fb
  PROVE  RemoveFb(t, fb) \in State
<1>1. t.fbs \ {fb} \in FbSets
  BY FieldTypes DEF FbSets
<1> QED BY <1>1 DEF RemoveFb, State

(* present_event_notify *)
LEMMA TellType ==
  ASSUME NEW t \in State, NEW e \in Events
  PROVE  Tell(t, e) \in State
<1> DEFINE l == [t.life EXCEPT ![e] = IF @ = "waiting" THEN "told" ELSE @]
           n == [t.tells EXCEPT ![e] = @ + 1]
<1>1. l \in LifeOf /\ n \in TellsOf
  BY FieldTypes DEF LifeOf, TellsOf, Life
<1>2. Tell(t, e) = [t EXCEPT !.life = l, !.tells = n]
  BY DEF Tell, State
<1> HIDE DEF l, n
<1> QED BY <1>1, <1>2 DEF State

(* The queue. *)
NewEntry(t, c, e, flip, ref) ==
  [seq |-> t.next, crtc |-> c, event |-> e, flip |-> flip, ref |-> ref]

Queued(t, q) == [t EXCEPT !.next = t.next + 1, !.queue = <<q>> \o t.queue]

(* ms_drm_queue_alloc *)
LEMMA QueueAllocType ==
  ASSUME Living, NEW t \in State, NEW c \in Crtcs, NEW e \in Events, NEW flip \in BOOLEAN,
         NEW ref \in BOOLEAN
  PROVE  /\ QueueAlloc(t, c, e, flip, ref) \in State
         /\ QueueAlloc(t, c, e, flip, ref) = Queued(t, NewEntry(t, c, e, flip, ref))
<1> DEFINE q == <<NewEntry(t, c, e, flip, ref)>> \o t.queue
           n == t.next + 1
<1>1. n \in Nat /\ t.next \in Nat
  BY FieldTypes
<1>2. NewEntry(t, c, e, flip, ref) \in Entry
  BY <1>1 DEF NewEntry, Entry
<1>3. q \in Queues
  BY <1>2, FieldTypes, Pushed DEF Queues
<1>4. QueueAlloc(t, c, e, flip, ref) = [t EXCEPT !.next = n, !.queue = q]
  BY DEF QueueAlloc, NewEntry, State
<1> HIDE DEF q, n
<1>5. QueueAlloc(t, c, e, flip, ref) \in State
  BY <1>1, <1>3, <1>4 DEF State
<1> QED BY <1>4, <1>5 DEF q, n, Queued

(* ms_pageflip_free *)
LEMMA PageflipFreeType ==
  ASSUME NEW t \in State, NEW e \in Events
  PROVE  PageflipFree(t, e) \in State
<1> DEFINE r == [t.data[e] EXCEPT !.refs = @ - 1]
           d == [t.data EXCEPT ![e] = r]
<1>1. d \in DataOf
  <2>1. t.data \in [Events -> Data] /\ t.data[e] \in Data
    BY FieldTypes
  <2>2. r \in Data
    BY <2>1 DEF Data
  <2> HIDE DEF r
  <2> QED BY <2>1, <2>2 DEF DataOf
<1>2. PageflipFree(t, e) = [t EXCEPT !.data = d]
  BY DEF PageflipFree, State
<1> HIDE DEF d
<1> QED BY <1>1, <1>2 DEF State

(* The entries of the queue. *)
LEMMA EntryType ==
  ASSUME Living, NEW t \in State, NEW i \in 1..Len(t.queue)
  PROVE  /\ t.queue[i] \in Entry /\ t.queue[i].seq \in Nat /\ t.queue[i].crtc \in Crtcs
         /\ t.queue[i].event \in Events /\ t.queue[i].flip \in BOOLEAN /\ t.queue[i].ref \in BOOLEAN
         /\ DOMAIN t.queue = 1..Len(t.queue) /\ Len(t.queue) \in Nat
         /\ [t EXCEPT !.queue = RemoveAt(@, i)] \in State
<1>1. /\ t.queue[i] \in Entry /\ DOMAIN t.queue = 1..Len(t.queue) /\ Len(t.queue) \in Nat
  BY FieldTypes, LenProperties
<1> DEFINE q == RemoveAt(t.queue, i)
<1>2. q \in Queues
  BY FieldTypes, CutOut DEF Queues
<1> HIDE DEF q
<1>3. [t EXCEPT !.queue = q] \in State
  BY <1>2 DEF State
<1> QED BY <1>1, <1>3 DEF Entry, q, State

(* ms_drm_abort_one *)
LEMMA AbortOneType ==
  ASSUME Living, NEW t \in State, NEW i \in 1..Len(t.queue)
  PROVE  AbortOne(t, i) \in State
<1> DEFINE u == [t EXCEPT !.queue = RemoveAt(@, i)]
<1>1. u \in State /\ t.queue[i].event \in Events
  BY EntryType
<1>2. AbortOne(t, i) = IF t.queue[i].flip THEN PageflipFree(u, t.queue[i].event) ELSE u
  BY DEF AbortOne
<1> HIDE DEF u
<1> QED BY <1>1, <1>2, PageflipFreeType

(* ms_drm_abort_seq *)
LEMMA AbortSeqType ==
  ASSUME Living, NEW t \in State, NEW seq
  PROVE  AbortSeq(t, seq) \in State
<1> DEFINE at == {i \in DOMAIN t.queue : t.queue[i].seq = seq}
           i == CHOOSE i \in at : TRUE
<1>1. DOMAIN t.queue = 1..Len(t.queue)
  BY FieldTypes, LenProperties
<1>2. at # {} => i \in 1..Len(t.queue)
  BY <1>1
<1>3. AbortSeq(t, seq) = IF at = {} THEN t ELSE AbortOne(t, i)
  BY DEF AbortSeq
<1> HIDE DEF at, i
<1> QED BY <1>2, <1>3, AbortOneType

(* Every non-empty set of places in a list has a first. *)
LEMMA FirstPlace ==
  ASSUME NEW n \in Nat, NEW I \in SUBSET (1..n), I # {}
  PROVE  \E i \in I : \A j \in I : i <= j
<1> DEFINE R == {ss \in Nat \X Nat : ss[1] < ss[2]}
<1>1. IsWellFoundedOn(R, Nat)
  BY NatLessThanWellFounded, Zenon DEF OpToRel
<1>2. I \subseteq Nat
  OBVIOUS
<1>3. PICK i \in I : \A j \in I : ~ (<<j, i>> \in R)
  <2> HIDE DEF R
  <2> QED BY <1>1, <1>2, WFMin
<1>4. \A j \in I : ~ (j < i)
  BY <1>2, <1>3
<1> QED BY <1>2, <1>4

(* ms_drm_abort *)
LEMMA AbortMatchType ==
  ASSUME Living, NEW t \in State, NEW e
  PROVE  AbortMatch(t, e) \in State
<1> DEFINE at == {i \in DOMAIN t.queue : Matches(t.queue[i], e)}
           i == CHOOSE i \in at : \A j \in at : i <= j
<1>1. DOMAIN t.queue = 1..Len(t.queue) /\ Len(t.queue) \in Nat
  BY FieldTypes, LenProperties
<1>2. at # {} => i \in 1..Len(t.queue)
  <2>1. at \in SUBSET (1..Len(t.queue))
    BY <1>1
  <2>2. at # {} => \E j \in at : \A k \in at : j <= k
    BY <1>1, <2>1, FirstPlace
  <2> QED BY <2>1, <2>2
<1>3. AbortMatch(t, e) = IF at = {} THEN t ELSE AbortOne(t, i)
  BY DEF AbortMatch
<1> HIDE DEF at, i
<1> QED BY <1>2, <1>3, AbortOneType

(* ms_present_flip_handler *)
LEMMA FlipOverType ==
  ASSUME NEW t \in State, NEW e \in Events
  PROVE  FlipOver(t, e) \in State
<1> DEFINE u == RemoveFb(Tell(t, e), t.data[e].old)
           a == [given |-> t.data[e].msc, true |-> t.data[e].true]
<1>1. u \in State
  BY TellType, RemoveFbType
<1>2. t.data[e] \in Data
  BY FieldTypes
<1>3. a \in Answers
  BY <1>2 DEF Answers, Data
<1>4. FlipOver(t, e) = IF t.asked[e].kind = "unflip" THEN u ELSE [u EXCEPT !.answer = a]
  BY DEF FlipOver
<1> HIDE DEF u, a
<1>5. [u EXCEPT !.answer = a] \in State
  BY <1>1, <1>3 DEF State
<1> QED BY <1>1, <1>4, <1>5

(* What the event of the reference CRTC notes. *)
LEMMA FlipMscType ==
  ASSUME Living, NEW t \in State, NEW q \in Entry, NEW n \in Nat
  PROVE  FlipMsc(t, q, n) \in State
<1>1. q.crtc \in Crtcs /\ q.event \in Events
  BY DEF Entry
<1>2. Converted(t, q.crtc) \in Nat
  BY <1>1, ConvertType
<1> DEFINE r == [t.data[q.event] EXCEPT !.msc = Converted(t, q.crtc), !.true = n]
           d == [t.data EXCEPT ![q.event] = r]
<1>3. d \in DataOf
  <2>1. t.data \in [Events -> Data] /\ t.data[q.event] \in Data
    BY <1>1, FieldTypes
  <2>2. r \in Data
    BY <1>2, <2>1 DEF Data
  <2> HIDE DEF r
  <2> QED BY <1>1, <2>1, <2>2 DEF DataOf
<1>4. FlipMsc(t, q, n) = IF q.ref THEN [t EXCEPT !.data = d] ELSE t
  BY DEF FlipMsc, State
<1> HIDE DEF d
<1> QED BY <1>3, <1>4 DEF State

(* ms_pageflip_handler *)
LEMMA PageflipHandlerType ==
  ASSUME Living, NEW t \in State, NEW q \in Entry, NEW n \in Nat
  PROVE  PageflipHandler(t, q, n) \in State
<1> DEFINE u == FlipMsc(t, q, n)
<1>1. u \in State /\ q.event \in Events
  BY FlipMscType DEF Entry
<1>2. PageflipHandler(t, q, n) =
        PageflipFree(IF u.data[q.event].refs = 1 THEN FlipOver(u, q.event) ELSE u, q.event)
  BY DEF PageflipHandler
<1> HIDE DEF u
<1>3. FlipOver(u, q.event) \in State
  BY <1>1, FlipOverType
<1> QED BY <1>1, <1>2, <1>3, PageflipFreeType

(* ms_drm_sequence_handler *)
LEMMA SequenceHandlerType ==
  ASSUME Living, NEW t \in State, NEW v \in EventRecord
  PROVE  SequenceHandler(t, v) \in State
<1> DEFINE at == {i \in DOMAIN t.queue : t.queue[i].seq = v.seq}
           i == CHOOSE i \in at : TRUE
           q == t.queue[i]
           w == Convert(t, q.crtc, v.count, v.wide)
           u == [w EXCEPT !.queue = RemoveAt(@, i)]
           a == [given |-> Converted(u, q.crtc), true |-> v.count]
<1>1. DOMAIN t.queue = 1..Len(t.queue) /\ v.count \in Nat
  BY FieldTypes, LenProperties DEF EventRecord
<1>2. SequenceHandler(t, v) = IF at = {} THEN t
                              ELSE IF q.flip THEN PageflipHandler(u, q, v.count)
                              ELSE [Tell(u, q.event) EXCEPT !.answer = a]
  BY DEF SequenceHandler
<1>3. CASE at = {}
  BY <1>2, <1>3
<1>4. CASE at # {}
  <2>1. i \in 1..Len(t.queue)
    BY <1>1, <1>4
  <2> HIDE DEF i
  <2>2. q \in Entry /\ q.crtc \in Crtcs /\ q.event \in Events
    BY <2>1, EntryType
  <2>3. w \in State /\ w.queue = t.queue
    <3>1. w \in State
      BY <1>1, <2>2, ConvertType
    <3>2. w.queue = t.queue
      BY DEF Convert, State
    <3> QED BY <3>1, <3>2
  <2> HIDE DEF w
  <2>4. u \in State
    BY <2>1, <2>3, EntryType
  <2> HIDE DEF u, q
  <2>5. PageflipHandler(u, q, v.count) \in State
    BY <1>1, <2>2, <2>4, PageflipHandlerType
  <2>6. a \in Answers
    BY <1>1, <2>2, <2>4, ConvertType DEF Answers
  <2> HIDE DEF a
  <2>7. Tell(u, q.event) \in State
    BY <2>2, <2>4, TellType
  <2>8. [Tell(u, q.event) EXCEPT !.answer = a] \in State
    BY <2>6, <2>7 DEF State
  <2> QED BY <1>2, <1>4, <2>5, <2>8
<1> QED BY <1>3, <1>4

(* The first event is taken off the list. *)
Taken(t) == [t EXCEPT !.events = Tail(@)]

(* An event is read from the file. *)
LEMMA TakenType ==
  ASSUME Living, NEW t \in State, t.events # <<>>
  PROVE  /\ Taken(t) \in State /\ Head(t.events) \in EventRecord
         /\ Head(t.events) \in On(t.events)
         /\ On(t.events) = {Head(t.events)} \cup On(Taken(t).events)
<1> DEFINE es == Tail(t.events)
<1>1. /\ es \in EventLists /\ Head(t.events) \in EventRecord /\ Head(t.events) \in On(t.events)
      /\ On(t.events) = {Head(t.events)} \cup On(es)
  BY FieldTypes, Popped DEF EventLists
<1>2. Taken(t) = [t EXCEPT !.events = es]
  BY DEF Taken, State
<1> HIDE DEF es
<1>3. Taken(t) \in State /\ Taken(t).events = es
  BY <1>1, <1>2 DEF State
<1> QED BY <1>1, <1>3

(* drmHandleEvent *)
LEMMA ReadEventType ==
  ASSUME Living, NEW t \in State, t.events # <<>>
  PROVE  ReadEvent(t) \in State
BY TakenType, SequenceHandlerType DEF ReadEvent, Taken

(* The calls under way. *)
NewCall(kind, e, ref, c, seq) ==
  [kind |-> kind, event |-> e, ref |-> ref, seq |-> seq, crtc |-> c, reentrant |-> FALSE]

Stacked(t, k) == [t EXCEPT !.calls = <<k>> \o t.calls]

(* A call begins. *)
LEMMA PushType ==
  ASSUME Living, NEW t \in State, NEW kind \in {"vblank", "flip", "unflip"}, NEW e \in Events,
         NEW ref \in 0..NumCrtcs, NEW c \in Crtcs, NEW seq \in Nat
  PROVE  /\ Push(t, kind, e, ref, c, seq) \in State
         /\ Push(t, kind, e, ref, c, seq) = Stacked(t, NewCall(kind, e, ref, c, seq))
<1> DEFINE k == <<NewCall(kind, e, ref, c, seq)>> \o t.calls
<1>1. NewCall(kind, e, ref, c, seq) \in Call
  BY DEF NewCall, Call
<1>2. k \in Stacks
  BY <1>1, FieldTypes, Pushed DEF Stacks
<1>3. Push(t, kind, e, ref, c, seq) = [t EXCEPT !.calls = k]
  BY DEF Push, NewCall, State
<1> HIDE DEF k
<1>4. Push(t, kind, e, ref, c, seq) \in State
  BY <1>2, <1>3 DEF State
<1> QED BY <1>3, <1>4 DEF k, Stacked

(* The call that is under way, and its end. *)
LEMMA TopType ==
  ASSUME Living, NEW t \in State, Busy(t)
  PROVE  /\ Pop(t) \in State /\ Top(t) \in Call /\ Top(t).event \in Events
         /\ Top(t).crtc \in Crtcs /\ Top(t).seq \in Nat /\ Top(t).ref \in 0..NumCrtcs
         /\ Top(t).kind \in {"vblank", "flip", "unflip"}
<1> DEFINE k == Tail(t.calls)
<1>1. k \in Stacks /\ Top(t) \in Call
  BY FieldTypes, Popped DEF Stacks, Busy, Top
<1>2. Pop(t) = [t EXCEPT !.calls = k]
  BY DEF Pop, State
<1> HIDE DEF k
<1>3. Pop(t) \in State
  BY <1>1, <1>2 DEF State
<1> QED BY <1>1, <1>3 DEF Call

(* ms_flush_drm_events *)
LEMMA FlushType ==
  ASSUME Living, NEW t \in State, t.events # <<>>, Busy(ReadEvent(t))
  PROVE  Flush(t) \in State
<1> DEFINE u == ReadEvent(t)
           k == [u.calls EXCEPT ![1].reentrant = @ \/ u.tells # t.tells]
<1>1. u \in State
  BY ReadEventType
<1>2. k \in Stacks
  <2>1. u.calls \in Seq(Call) /\ u.calls # <<>>
    BY <1>1, FieldTypes DEF Busy
  <2>2. 1 \in 1..Len(u.calls) /\ u.calls[1] \in Call
    <3> HIDE DEF u
    <3> QED BY <2>1, LenProperties, EmptySeq
  <2> DEFINE r == [u.calls[1] EXCEPT !.reentrant = @ \/ u.tells # t.tells]
  <2>3. r \in Call
    <3> HIDE DEF u
    <3> QED BY <2>2 DEF Call
  <2> HIDE DEF u
  <2>4. k = [u.calls EXCEPT ![1] = r]
    OBVIOUS
  <2> HIDE DEF r
  <2>5. [u.calls EXCEPT ![1] = r] \in Seq(Call)
    BY <2>1, <2>2, <2>3, ExceptSeq
  <2> QED BY <2>4, <2>5 DEF Stacks
<1>3. Flush(t) = [u EXCEPT !.calls = k]
  <2>1. Flush(t) = [u EXCEPT !.calls[1].reentrant = @ \/ u.tells # t.tells]
    BY DEF Flush
  <2> HIDE DEF u
  <2> QED BY <1>1, <2>1 DEF State
<1> HIDE DEF u, k
<1> QED BY <1>1, <1>2, <1>3 DEF State

(* ms_present_queue_vblank, up to the ioctl. *)
VblankQueued(t, c, e, msc) ==
  [t EXCEPT !.next = t.next + 1,
            !.queue = <<NewEntry(t, c, e, FALSE, FALSE)>> \o t.queue,
            !.life = [t.life EXCEPT ![e] = "waiting"],
            !.asked = [t.asked EXCEPT ![e] = [kind |-> "vblank", crtc |-> c, msc |-> msc]],
            !.calls = <<NewCall("vblank", e, 0, c, t.next)>> \o t.calls]

(* ms_present_queue_vblank, in one update of the state. *)
LEMMA QueueVblankType ==
  ASSUME Living, NEW t \in State, NEW c \in Crtcs, NEW e \in Events, NEW msc \in Nat
  PROVE  /\ QueueVblank(t, c, e, msc) \in State
         /\ QueueVblank(t, c, e, msc) = VblankQueued(t, c, e, msc)
<1> DEFINE u == QueueAlloc(t, c, e, FALSE, FALSE)
           l == [t.life EXCEPT ![e] = "waiting"]
           a == [t.asked EXCEPT ![e] = [kind |-> "vblank", crtc |-> c, msc |-> msc]]
           v == [u EXCEPT !.life = l, !.asked = a]
           n == t.next + 1
           q == <<NewEntry(t, c, e, FALSE, FALSE)>> \o t.queue
           k == <<NewCall("vblank", e, 0, c, t.next)>> \o t.calls
<1>1. u \in State /\ u = [t EXCEPT !.next = n, !.queue = q]
  BY QueueAllocType DEF Queued
<1>2. l \in LifeOf
  BY FieldTypes DEF LifeOf, Life
<1>3. a \in AskedOf
  BY FieldTypes DEF AskedOf, Asked
<1>4. u.life = t.life /\ u.asked = t.asked /\ u.calls = t.calls
  <2> HIDE DEF u, n, q
  <2> QED BY <1>1 DEF State
<1>5. [u EXCEPT !.life[e] = "waiting", !.asked[e] = [kind |-> "vblank", crtc |-> c, msc |-> msc]] = v
  <2> HIDE DEF u
  <2> QED BY <1>1, <1>4 DEF State
<1>6. QueueVblank(t, c, e, msc) = Push(v, "vblank", e, 0, c, t.next)
  BY <1>5 DEF QueueVblank
<1> HIDE DEF u, l, a, n, q
<1>7. v \in State /\ v.calls = t.calls
  BY <1>1, <1>2, <1>3, <1>4 DEF State
<1>8. v = [t EXCEPT !.next = n, !.queue = q, !.life = l, !.asked = a]
  BY <1>1 DEF State
<1>9. 0 \in 0..NumCrtcs /\ t.next \in Nat
  BY SetupType, FieldTypes
<1> HIDE DEF v
<1>10. /\ Push(v, "vblank", e, 0, c, t.next) \in State
       /\ Push(v, "vblank", e, 0, c, t.next) = [v EXCEPT !.calls = k]
  <2>1. /\ Push(v, "vblank", e, 0, c, t.next) \in State
        /\ Push(v, "vblank", e, 0, c, t.next) = Stacked(v, NewCall("vblank", e, 0, c, t.next))
    BY <1>7, <1>9, PushType
  <2> QED BY <1>7, <2>1 DEF Stacked
<1> HIDE DEF k
<1>11. [v EXCEPT !.calls = k] =
         [t EXCEPT !.next = n, !.queue = q, !.life = l, !.asked = a, !.calls = k]
  BY <1>8 DEF State
<1> QED BY <1>6, <1>10, <1>11 DEF l, a, n, q, k, VblankQueued

(* The ioctl of ms_queue_vblank succeeds. *)
LEMMA VblankAcceptedType ==
  ASSUME Living, NEW t \in State, Busy(t)
  PROVE  VblankAccepted(t) \in State
<1> DEFINE k == Top(t)
           u == KernelAsked(t, k.crtc, t.asked[k.event].msc, k.seq)
<1>1. k.event \in Events /\ k.crtc \in Crtcs /\ k.seq \in Nat
  BY TopType
<1>2. t.asked[k.event] \in Asked
  BY <1>1, FieldTypes
<1>3. u \in State
  BY <1>1, <1>2, KernelAskedType DEF Asked
<1>4. u.calls = t.calls
  BY DEF KernelAsked, State
<1>5. VblankAccepted(t) = Pop(u)
  BY DEF VblankAccepted
<1> HIDE DEF u
<1> QED BY <1>3, <1>4, <1>5, TopType DEF Busy

(* A list of calls is never touched by what handles entries of the queue. *)
LEMMA AbortSeqCalls ==
  ASSUME NEW t \in State, NEW seq
  PROVE  AbortSeq(t, seq).calls = t.calls
BY DEF AbortSeq, AbortOne, PageflipFree, State

(* The ioctl of ms_queue_vblank fails. *)
LEMMA VblankRefusedType ==
  ASSUME Living, NEW t \in State, Busy(t)
  PROVE  VblankRefused(t) \in State
<1> DEFINE k == Top(t)
           u == AbortSeq(t, k.seq)
           v == Pop(u)
           l == [v.life EXCEPT ![k.event] = "refused"]
<1>1. u \in State /\ u.calls = t.calls
  BY AbortSeqType, AbortSeqCalls
<1>2. VblankRefused(t) = [v EXCEPT !.life = l]
  BY DEF VblankRefused
<1> HIDE DEF u
<1>3. v \in State
  BY <1>1, TopType DEF Busy
<1> HIDE DEF v
<1>4. l \in LifeOf
  BY <1>3, FieldTypes DEF LifeOf, Life
<1> HIDE DEF l
<1> QED BY <1>2, <1>3, <1>4 DEF State

(* queue_flip_on_crtc, up to the ioctl. *)
Held(t, e, n) == [t.data EXCEPT ![e] = [t.data[e] EXCEPT !.refs = n]]

(* References are counted up or down. *)
LEMMA HeldType ==
  ASSUME NEW t \in State, NEW e \in Events, NEW n \in Int
  PROVE  Held(t, e, n) \in DataOf
<1> DEFINE r == [t.data[e] EXCEPT !.refs = n]
<1>1. t.data \in [Events -> Data] /\ t.data[e] \in Data
  BY FieldTypes
<1>2. r \in Data
  BY <1>1 DEF Data
<1>3. Held(t, e, n) = [t.data EXCEPT ![e] = r]
  BY DEF Held
<1> HIDE DEF r
<1> QED BY <1>1, <1>2, <1>3 DEF DataOf

CrtcStarted(t, kind, e, ref, c) ==
  [t EXCEPT !.next = t.next + 1,
            !.queue = <<NewEntry(t, c, e, TRUE, c = ref)>> \o t.queue,
            !.data = Held(t, e, t.data[e].refs + 1),
            !.calls = <<NewCall(kind, e, ref, c, t.next)>> \o t.calls]

(* queue_flip_on_crtc, in one update of the state. *)
LEMMA StartCrtcType ==
  ASSUME Living, NEW t \in State, NEW kind \in {"flip", "unflip"}, NEW e \in Events,
         NEW ref \in 0..NumCrtcs, NEW c \in Crtcs
  PROVE  /\ StartCrtc(t, kind, e, ref, c) \in State
         /\ StartCrtc(t, kind, e, ref, c) = CrtcStarted(t, kind, e, ref, c)
<1> DEFINE u == QueueAlloc(t, c, e, TRUE, c = ref)
           d == Held(t, e, t.data[e].refs + 1)
           v == [u EXCEPT !.data = d]
           n == t.next + 1
           q == <<NewEntry(t, c, e, TRUE, c = ref)>> \o t.queue
           k == <<NewCall(kind, e, ref, c, t.next)>> \o t.calls
<1>1. u \in State /\ u = [t EXCEPT !.next = n, !.queue = q]
  <2> DEFINE b == c = ref
  <2>1. b \in BOOLEAN /\ TRUE \in BOOLEAN
    OBVIOUS
  <2> HIDE DEF b
  <2>2. /\ QueueAlloc(t, c, e, TRUE, b) \in State
        /\ QueueAlloc(t, c, e, TRUE, b) = Queued(t, NewEntry(t, c, e, TRUE, b))
    BY <2>1, QueueAllocType
  <2> QED BY <2>2 DEF b, Queued
<1>2. d \in DataOf
  <2>1. t.data[e] \in Data
    BY FieldTypes
  <2>2. t.data[e].refs + 1 \in Int
    BY <2>1 DEF Data
  <2> QED BY <2>2, HeldType
<1>3. u.data = t.data /\ u.calls = t.calls
  <2> HIDE DEF u, n, q
  <2> QED BY <1>1 DEF State
<1>4. [u EXCEPT !.data[e].refs = @ + 1] = v
  <2>1. [u.data EXCEPT ![e].refs = @ + 1] = d
    <3> HIDE DEF u
    <3> QED BY <1>3 DEF Held
  <2> HIDE DEF u, d
  <2> QED BY <1>1, <2>1 DEF State
<1>5. StartCrtc(t, kind, e, ref, c) = Push(v, kind, e, ref, c, t.next)
  BY <1>4 DEF StartCrtc
<1> HIDE DEF u, d, n, q
<1>6. v \in State /\ v.calls = t.calls
  BY <1>1, <1>2, <1>3 DEF State
<1>7. v = [t EXCEPT !.next = n, !.queue = q, !.data = d]
  BY <1>1 DEF State
<1> HIDE DEF v
<1>8. /\ Push(v, kind, e, ref, c, t.next) \in State
      /\ Push(v, kind, e, ref, c, t.next) = [v EXCEPT !.calls = k]
  <2>1. t.next \in Nat /\ kind \in {"vblank", "flip", "unflip"}
    BY FieldTypes
  <2>2. /\ Push(v, kind, e, ref, c, t.next) \in State
        /\ Push(v, kind, e, ref, c, t.next) = Stacked(v, NewCall(kind, e, ref, c, t.next))
    BY <1>6, <2>1, PushType
  <2> QED BY <1>6, <2>2 DEF Stacked
<1> HIDE DEF k
<1>9. [v EXCEPT !.calls = k] = [t EXCEPT !.next = n, !.queue = q, !.data = d, !.calls = k]
  BY <1>7 DEF State
<1> QED BY <1>5, <1>8, <1>9 DEF d, n, q, k, CrtcStarted

(* ms_do_pageflip, up to the first CRTC. *)
Begun(t, kind, e) ==
  [t EXCEPT !.life = [t.life EXCEPT ![e] = "waiting"],
            !.asked = [t.asked EXCEPT ![e] = [t.asked[e] EXCEPT !.kind = kind]],
            !.data = [t.data EXCEPT ![e] = [refs |-> 1, old |-> t.fb, msc |-> 0, true |-> 0]],
            !.fb = e, !.fbs = t.fbs \cup {e}]

(* ms_do_pageflip, before it asks the first CRTC. *)
LEMMA BegunType ==
  ASSUME Living, NEW t \in State, NEW kind \in {"flip", "unflip"}, NEW e \in Events
  PROVE  Begun(t, kind, e) \in State
<1> DEFINE l == [t.life EXCEPT ![e] = "waiting"]
           r == [t.asked[e] EXCEPT !.kind = kind]
           a == [t.asked EXCEPT ![e] = r]
           m == [refs |-> 1, old |-> t.fb, msc |-> 0, true |-> 0]
           d == [t.data EXCEPT ![e] = m]
           fs == t.fbs \cup {e}
<1>1. l \in LifeOf
  BY FieldTypes DEF LifeOf, Life
<1>2. a \in AskedOf
  <2>1. t.asked \in [Events -> Asked] /\ t.asked[e] \in Asked
    BY FieldTypes
  <2>2. r \in Asked
    BY <2>1 DEF Asked
  <2> HIDE DEF r
  <2> QED BY <2>1, <2>2 DEF AskedOf
<1>3. d \in DataOf
  <2>1. t.data \in [Events -> Data] /\ t.fb \in Fbs
    BY FieldTypes
  <2>2. m \in Data
    BY <2>1 DEF Data
  <2> HIDE DEF m
  <2> QED BY <2>1, <2>2 DEF DataOf
<1>4. e \in Fbs /\ fs \in FbSets
  BY Widths, FieldTypes DEF FbSets
<1>5. Begun(t, kind, e) = [t EXCEPT !.life = l, !.asked = a, !.data = d, !.fb = e, !.fbs = fs]
  BY DEF Begun
<1> HIDE DEF l, a, d, fs
<1> QED BY <1>1, <1>2, <1>3, <1>4, <1>5, ZenonT(30) DEF State

(* ms_do_pageflip, up to the ioctl of the first CRTC. *)
LEMMA DoPageflipType ==
  ASSUME Living, NEW t \in State, NEW kind \in {"flip", "unflip"}, NEW e \in Events,
         NEW ref \in 0..NumCrtcs
  PROVE  /\ DoPageflip(t, kind, e, ref) \in State
         /\ DoPageflip(t, kind, e, ref) = CrtcStarted(Begun(t, kind, e), kind, e, ref, 1)
<1> DEFINE b == [t EXCEPT !.life[e] = "waiting", !.asked[e].kind = kind,
                      !.data[e] = [refs |-> 1, old |-> t.fb, msc |-> 0, true |-> 0],
                      !.fb = e, !.fbs = @ \cup {e}]
<1>1. b = Begun(t, kind, e)
  BY DEF Begun, State
<1>2. DoPageflip(t, kind, e, ref) = StartCrtc(b, kind, e, ref, 1)
  BY DEF DoPageflip
<1> HIDE DEF b
<1>3. 1 \in Crtcs
  BY SetupType DEF Crtcs
<1>4. b \in State
  BY <1>1, BegunType
<1>5. /\ StartCrtc(b, kind, e, ref, 1) \in State
      /\ StartCrtc(b, kind, e, ref, 1) = CrtcStarted(b, kind, e, ref, 1)
  BY <1>3, <1>4, StartCrtcType
<1> QED BY <1>1, <1>2, <1>5

(* The kernel takes the flip of a CRTC. *)
FlipTaken(t) ==
  [t EXCEPT !.flips = [t.flips EXCEPT ![Top(t).crtc] = [seq |-> Top(t).seq, fb |-> t.fb]],
            !.calls = Tail(t.calls)]

(* A flip is under way in the kernel. *)
LEMMA FlipTakenType ==
  ASSUME Living, NEW t \in State, Busy(t)
  PROVE  FlipTaken(t) \in State
<1> DEFINE k == Tail(t.calls)
           r == [seq |-> Top(t).seq, fb |-> t.fb]
           f == [t.flips EXCEPT ![Top(t).crtc] = r]
<1>1. k \in Stacks
  BY FieldTypes, Popped DEF Stacks, Busy
<1>2. r \in [seq : Nat, fb : Fbs]
  BY TopType, FieldTypes
<1>3. f \in FlipsOf
  <2> HIDE DEF r
  <2> QED BY <1>2, TopType, FieldTypes DEF FlipsOf
<1>4. FlipTaken(t) = [t EXCEPT !.flips = f, !.calls = k]
  BY DEF FlipTaken
<1> HIDE DEF f, k
<1> QED BY <1>1, <1>3, <1>4 DEF State

(* ms_do_pageflip, after the ioctl of a CRTC. *)
LEMMA FlipAcceptedType ==
  ASSUME Living, NEW t \in State, Busy(t), Top(t).kind # "vblank"
  PROVE  /\ FlipAccepted(t) \in State
         /\ Top(t).crtc < NumCrtcs =>
              /\ Top(t).crtc + 1 \in Crtcs
              /\ FlipAccepted(t)
                   = CrtcStarted(FlipTaken(t), Top(t).kind, Top(t).event, Top(t).ref, Top(t).crtc + 1)
         /\ ~ (Top(t).crtc < NumCrtcs) => FlipAccepted(t) = PageflipFree(FlipTaken(t), Top(t).event)
<1> DEFINE k == Top(t)
           u == Pop([t EXCEPT !.flips[k.crtc] = [seq |-> k.seq, fb |-> t.fb]])
<1>1. u = FlipTaken(t)
  BY DEF FlipTaken, Pop, State
<1>2. FlipAccepted(t) = IF k.crtc < NumCrtcs
                        THEN StartCrtc(u, k.kind, k.event, k.ref, k.crtc + 1)
                        ELSE PageflipFree(u, k.event)
  BY DEF FlipAccepted
<1> HIDE DEF u
<1>3. /\ k.event \in Events /\ k.crtc \in Crtcs /\ k.ref \in 0..NumCrtcs
      /\ k.kind \in {"flip", "unflip"}
  BY TopType
<1>4. k.crtc < NumCrtcs => k.crtc + 1 \in Crtcs
  BY <1>3, SetupType DEF Crtcs
<1>5. u \in State
  BY <1>1, FlipTakenType
<1> HIDE DEF k
<1>6. k.crtc < NumCrtcs =>
        /\ StartCrtc(u, k.kind, k.event, k.ref, k.crtc + 1) \in State
        /\ StartCrtc(u, k.kind, k.event, k.ref, k.crtc + 1)
             = CrtcStarted(u, k.kind, k.event, k.ref, k.crtc + 1)
  BY <1>3, <1>4, <1>5, StartCrtcType
<1>7. PageflipFree(u, k.event) \in State
  BY <1>3, <1>5, PageflipFreeType
<1> QED BY <1>1, <1>2, <1>4, <1>6, <1>7 DEF k

(* The modes are set: the flips under way are over, and their events come. *)
Late(t) ==
  {Sent(c, t.flips[c].seq, t.count[c], FALSE) : c \in {d \in Crtcs : t.flips[d] # Nothing}}

(* The events of the flips that setting the modes waits for. *)
LEMMA LateType ==
  ASSUME Living, NEW t \in State
  PROVE  IsFiniteSet(Late(t)) /\ Late(t) \subseteq EventRecord
<1> DEFINE D == {d \in Crtcs : t.flips[d] # Nothing}
           V == Late(t)
           f == [c \in D |-> Sent(c, t.flips[c].seq, t.count[c], FALSE)]
<1>1. IsFiniteSet(Crtcs)
  BY SetupType, FS_Interval DEF Crtcs
<1>2. IsFiniteSet(D)
  BY <1>1, FS_Subset
<1>3. V = {Sent(c, t.flips[c].seq, t.count[c], FALSE) : c \in D}
  BY DEF Late
<1>4. D \subseteq Crtcs
  OBVIOUS
<1> HIDE DEF D, V
<1>5. f \in Surjection(D, V)
  BY <1>3 DEF Surjection
<1>6. IsFiniteSet(V)
  BY <1>2, <1>5, FS_Surjection
<1>7. V \subseteq EventRecord
  <2>1. \A c \in D : t.flips[c].seq \in Nat /\ t.count[c] \in Nat /\ c \in Crtcs
    <3> TAKE c \in D
    <3>1. c \in Crtcs
      BY <1>4
    <3>2. t.flips \in [Crtcs -> [seq : Nat, fb : Fbs]] /\ t.count \in [Crtcs -> Nat]
      BY FieldTypes
    <3>3. t.flips[c] \in [seq : Nat, fb : Fbs] /\ t.count[c] \in Nat
      BY <3>1, <3>2
    <3>4. t.flips[c].seq \in Nat
      BY <3>3
    <3> QED BY <3>1, <3>3, <3>4
  <2>2. ASSUME NEW v \in V PROVE v \in EventRecord
    <3>1. PICK c \in D : v = Sent(c, t.flips[c].seq, t.count[c], FALSE)
      BY <1>3
    <3> QED BY <2>1, <3>1 DEF Sent, EventRecord
  <2> QED BY <2>2
<1> QED BY <1>6, <1>7 DEF V

ModesSet(t, e) ==
  [t EXCEPT !.flips = [c \in Crtcs |-> Nothing], !.events = t.events \o SetToSeq(Late(t)),
            !.fbs = (t.fbs \ {t.fb}) \cup {LastEvent + e}, !.fb = LastEvent + e,
            !.shows = [c \in Crtcs |-> IF c = NumCrtcs THEN LastEvent + e
                                      ELSE LastEvent + (LastEvent + e)]]

(* ms_present_unflip, when it sets the modes. *)
LEMMA SetModesType ==
  ASSUME Living, NEW t \in State, NEW e \in Events
  PROVE  /\ SetModes(t, e) \in State /\ ModesSet(t, e) \in State
         /\ SetModes(t, e) = Tell(ModesSet(t, e), e)
         /\ On(ModesSet(t, e).events) = On(t.events) \cup Late(t)
<1> DEFINE o == SetToSeq(Late(t))
           es == t.events \o o
           fl == [c \in Crtcs |-> Nothing]
           new == LastEvent + e
           fs == (t.fbs \ {t.fb}) \cup {new}
           sh == [c \in Crtcs |-> IF c = NumCrtcs THEN new ELSE LastEvent + new]
<1>1. o \in Seq(EventRecord) /\ On(o) = Late(t)
  <2>1. IsFiniteSet(Late(t)) /\ Late(t) \subseteq EventRecord
    BY LateType
  <2>2. o \in SetToSeqs(Late(t))
    BY <2>1, SomeOrder
  <2>3. o \in Seq(Late(t)) /\ On(o) = Late(t)
    BY <2>1, <2>2, Ordered
  <2> QED BY <2>1, <2>3, SeqMonotonic
<1> HIDE DEF o
<1>2. es \in EventLists /\ On(es) = On(t.events) \cup Late(t)
  BY <1>1, FieldTypes, Joined DEF EventLists
<1>3. new \in Fbs /\ LastEvent + new \in Fbs
  BY Widths
<1>4. fl \in FlipsOf /\ fs \in FbSets /\ sh \in Shown
  BY <1>3, NothingType, FieldTypes DEF FlipsOf, FbSets, Shown
<1>5. SetModes(t, e) = Tell(ModesSet(t, e), e)
  BY DEF SetModes, ModesSet, Late, State
<1>6. ModesSet(t, e) = [t EXCEPT !.flips = fl, !.events = es, !.fbs = fs, !.fb = new, !.shows = sh]
  BY DEF ModesSet, o
<1> HIDE DEF fl, es, fs, sh, new
<1>7. ModesSet(t, e) \in State /\ ModesSet(t, e).events = es
  BY <1>2, <1>3, <1>4, <1>6, ZenonT(30) DEF State
<1> QED BY <1>2, <1>5, <1>7, TellType

(* The framebuffer is taken back if nothing else refers to the flip. *)
FlipUndone(t, e) ==
  IF t.data[e].refs = 1 THEN [RemoveFb(t, t.fb) EXCEPT !.fb = t.data[e].old] ELSE t

(* ms_do_pageflip, after the ioctl of a CRTC fails. *)
LEMMA FlipRefusedType ==
  ASSUME Living, NEW t \in State, Busy(t)
  PROVE  /\ FlipRefused(t) \in State
         /\ AbortSeq(Pop(t), Top(t).seq) \in State
         /\ FlipUndone(AbortSeq(Pop(t), Top(t).seq), Top(t).event) \in State
<1> DEFINE e == Top(t).event
           u == AbortSeq(Pop(t), Top(t).seq)
           v == FlipUndone(u, e)
           w == PageflipFree(v, e)
           l == [w.life EXCEPT ![e] = "refused"]
<1>1. e \in Events /\ u \in State
  BY TopType, AbortSeqType
<1>2. FlipRefused(t) = IF Top(t).kind = "unflip" THEN SetModes(w, e) ELSE [w EXCEPT !.life = l]
  BY DEF FlipRefused, FlipUndone
<1> HIDE DEF u, e
<1>3. v \in State
  <2> DEFINE f == u.fbs \ {u.fb}
  <2>1. u.data[e].old \in Fbs
    <3>1. u.data[e] \in Data
      BY <1>1, FieldTypes
    <3> QED BY <3>1 DEF Data
  <2>2. f \in FbSets
    BY <1>1, FieldTypes DEF FbSets
  <2>3. v = IF u.data[e].refs = 1 THEN [u EXCEPT !.fbs = f, !.fb = u.data[e].old] ELSE u
    BY <1>1 DEF FlipUndone, RemoveFb, State
  <2> HIDE DEF f
  <2> QED BY <1>1, <2>1, <2>2, <2>3, ZenonT(30) DEF State
<1> HIDE DEF v
<1>4. w \in State
  BY <1>1, <1>3, PageflipFreeType
<1> HIDE DEF w
<1>5. l \in LifeOf
  BY <1>1, <1>4, FieldTypes DEF LifeOf, Life
<1> HIDE DEF l
<1>6. [w EXCEPT !.life = l] \in State
  BY <1>4, <1>5 DEF State
<1> QED BY <1>1, <1>2, <1>3, <1>4, <1>6, SetModesType DEF u, v, e

----------------------------------------------------------------------------
(* The first state has the types. *)
LEMMA InitTyped ==
  Init => Living /\ s \in State
<1> SUFFICES ASSUME Init PROVE Living /\ s \in State
  OBVIOUS
<1>1. Living
  BY DEF Init, Living
<1>2. PICK seq \in BOOLEAN :
    s = [count |-> [c \in Crtcs |-> Start], requests |-> {},
         flips |-> [c \in Crtcs |-> Nothing], shows |-> [c \in Crtcs |-> 0], fbs |-> {0},
         events |-> <<>>, hasSeq |-> seq, prev |-> [c \in Crtcs |-> 0],
         high |-> [c \in Crtcs |-> 0], next |-> 1, queue |-> <<>>, fb |-> 0,
         data |-> [e \in Events |-> [refs |-> 0, old |-> 0, msc |-> 0, true |-> 0]],
         calls |-> <<>>, seen |-> [c \in Crtcs |-> 0], life |-> [e \in Events |-> "unused"],
         asked |-> [e \in Events |-> [kind |-> "none", crtc |-> 1, msc |-> 0]],
         tells |-> [e \in Events |-> 0], answer |-> [given |-> 0, true |-> 0]]
  BY DEF Init
<1>3. /\ 0 \in 0..(Word - 1) /\ 0 \in 0..(Long - 1) /\ 0 \in Fbs /\ Start \in Nat /\ 1 \in Crtcs
  BY <1>1, Widths, SetupType DEF Crtcs
<1>4. /\ [c \in Crtcs |-> Start] \in Counters /\ [c \in Crtcs |-> 0] \in Counters
      /\ [c \in Crtcs |-> Nothing] \in FlipsOf /\ [c \in Crtcs |-> 0] \in Shown
      /\ {0} \in FbSets /\ [c \in Crtcs |-> 0] \in Lows /\ [c \in Crtcs |-> 0] \in Highs
  BY <1>3, NothingType DEF Counters, FlipsOf, Shown, FbSets, Lows, Highs
<1>5. /\ {} \in RequestSets /\ <<>> \in EventLists /\ <<>> \in Queues /\ <<>> \in Stacks
  BY FS_EmptySet DEF RequestSets, EventLists, Queues, Stacks
<1>6. [e \in Events |-> [refs |-> 0, old |-> 0, msc |-> 0, true |-> 0]] \in DataOf
  BY <1>3 DEF DataOf, Data
<1>7. [e \in Events |-> "unused"] \in LifeOf /\ [e \in Events |-> 0] \in TellsOf
  BY DEF LifeOf, Life, TellsOf
<1>8. [e \in Events |-> [kind |-> "none", crtc |-> 1, msc |-> 0]] \in AskedOf
  BY <1>3 DEF AskedOf, Asked
<1>9. [given |-> 0, true |-> 0] \in Answers
  BY DEF Answers
<1>10. 1 \in Nat
  OBVIOUS
<1> DEFINE c1 == [c \in Crtcs |-> Start]
           c2 == [c \in Crtcs |-> 0]
           c3 == [c \in Crtcs |-> Nothing]
           e1 == [e \in Events |-> [refs |-> 0, old |-> 0, msc |-> 0, true |-> 0]]
           e2 == [e \in Events |-> "unused"]
           e3 == [e \in Events |-> [kind |-> "none", crtc |-> 1, msc |-> 0]]
           e4 == [e \in Events |-> 0]
           a1 == [given |-> 0, true |-> 0]
<1>11. s = [count |-> c1, requests |-> {},
         flips |-> c3, shows |-> c2, fbs |-> {0},
         events |-> <<>>, hasSeq |-> seq, prev |-> c2,
         high |-> c2, next |-> 1, queue |-> <<>>, fb |-> 0,
         data |-> e1, calls |-> <<>>, seen |-> c2, life |-> e2, asked |-> e3,
         tells |-> e4, answer |-> a1]
  BY <1>2
<1> HIDE DEF c1, c2, c3, e1, e2, e3, e4, a1
<1>12. s \in State
  BY <1>3, <1>4, <1>5, <1>6, <1>7, <1>8, <1>9, <1>10, <1>11
     DEF State, c1, c2, c3, e1, e2, e3, e4, a1
<1> QED BY <1>1, <1>12

----------------------------------------------------------------------------
(* What each step of handling an event leaves as it was. *)
KernelSame(u, t) ==
  /\ u.count = t.count /\ u.requests = t.requests /\ u.flips = t.flips /\ u.shows = t.shows
  /\ u.events = t.events /\ u.hasSeq = t.hasSeq
SeenSame(u, t) == u.prev = t.prev /\ u.high = t.high /\ u.seen = t.seen
SeenNow(u, t, c, n) == u.seen = [t.seen EXCEPT ![c] = n]
ListsSame(u, t) == u.next = t.next /\ u.queue = t.queue /\ u.calls = t.calls
BuffersSame(u, t) == u.fbs = t.fbs /\ u.fb = t.fb
ToldSame(u, t) == u.life = t.life /\ u.tells = t.tells
Told(u, t, e) ==
  /\ u.life = [t.life EXCEPT ![e] = IF @ = "waiting" THEN "told" ELSE @]
  /\ u.tells = [t.tells EXCEPT ![e] = @ + 1]

(* Converting a count touches the counters of the driver only. *)
LEMMA ConvertKeeps ==
  ASSUME NEW t \in State, NEW c, NEW n, NEW wide, NEW u, u = Convert(t, c, n, wide)
  PROVE  /\ KernelSame(u, t) /\ ListsSame(u, t) /\ BuffersSame(u, t) /\ ToldSame(u, t)
         /\ u.data = t.data /\ u.asked = t.asked /\ u.answer = t.answer
         /\ SeenNow(u, t, c, n)
BY DEF Convert, State, KernelSame, ListsSame, BuffersSame, ToldSame, SeenNow

(* Dropping a reference touches the data of the flip only. *)
LEMMA PageflipFreeKeeps ==
  ASSUME NEW t \in State, NEW e \in Events, NEW u, u = PageflipFree(t, e)
  PROVE  /\ KernelSame(u, t) /\ SeenSame(u, t) /\ ListsSame(u, t) /\ BuffersSame(u, t)
         /\ ToldSame(u, t) /\ u.asked = t.asked /\ u.answer = t.answer
         /\ u.data = Held(t, e, t.data[e].refs - 1)
BY DEF PageflipFree, State, KernelSame, SeenSame, ListsSame, BuffersSame, ToldSame, Held

(* Telling Present touches what it was told only. *)
LEMMA TellKeeps ==
  ASSUME NEW t \in State, NEW e \in Events, NEW u, u = Tell(t, e)
  PROVE  /\ KernelSame(u, t) /\ SeenSame(u, t) /\ ListsSame(u, t) /\ BuffersSame(u, t)
         /\ u.data = t.data /\ u.asked = t.asked /\ u.answer = t.answer
         /\ Told(u, t, e)
BY DEF Tell, State, KernelSame, SeenSame, ListsSame, BuffersSame, Told

(* The end of a flip: Present is told, and the old framebuffer removed. *)
LEMMA FlipOverKeeps ==
  ASSUME NEW t \in State, NEW e \in Events, NEW u, u = FlipOver(t, e)
  PROVE  /\ KernelSame(u, t) /\ SeenSame(u, t) /\ ListsSame(u, t)
         /\ u.data = t.data /\ u.asked = t.asked /\ u.fb = t.fb
         /\ Told(u, t, e)
         /\ u.fbs = t.fbs \ {t.data[e].old}
         /\ u.answer = IF t.asked[e].kind = "unflip" THEN t.answer
                       ELSE [given |-> t.data[e].msc, true |-> t.data[e].true]
<1> DEFINE w == Tell(t, e)
           v == RemoveFb(w, t.data[e].old)
<1>1. /\ w \in State /\ KernelSame(w, t) /\ SeenSame(w, t) /\ ListsSame(w, t) /\ BuffersSame(w, t)
      /\ w.data = t.data /\ w.asked = t.asked /\ w.answer = t.answer
      /\ Told(w, t, e)
  BY TellType, TellKeeps
<1> HIDE DEF w
<1>2. /\ v \in State /\ KernelSame(v, w) /\ SeenSame(v, w) /\ ListsSame(v, w)
      /\ v.data = w.data /\ v.asked = w.asked /\ v.fb = w.fb /\ v.life = w.life
      /\ v.tells = w.tells /\ v.answer = w.answer /\ v.fbs = w.fbs \ {t.data[e].old}
  <2>1. v \in State
    BY <1>1, RemoveFbType
  <2> QED BY <1>1, <2>1 DEF RemoveFb, State, KernelSame, SeenSame, ListsSame
<1> DEFINE a == [given |-> t.data[e].msc, true |-> t.data[e].true]
<1>3. u = IF t.asked[e].kind = "unflip" THEN v ELSE [v EXCEPT !.answer = a]
  BY DEF FlipOver, v, w
<1> HIDE DEF v, a
<1>4. /\ KernelSame(u, v) /\ SeenSame(u, v) /\ ListsSame(u, v)
      /\ u.data = v.data /\ u.asked = v.asked /\ u.fb = v.fb /\ u.life = v.life
      /\ u.tells = v.tells /\ u.fbs = v.fbs
      /\ u.answer = IF t.asked[e].kind = "unflip" THEN v.answer ELSE a
  BY <1>2, <1>3 DEF State, KernelSame, SeenSame, ListsSame
<1> QED BY <1>1, <1>2, <1>4 DEF KernelSame, SeenSame, ListsSame, BuffersSame, Told, a

(* The data a flip's last event leaves behind. *)
Noted(t, q, n) ==
  IF q.ref
  THEN [t.data EXCEPT ![q.event] = [t.data[q.event] EXCEPT !.msc = Converted(t, q.crtc), !.true = n]]
  ELSE t.data

(* Noting the count touches the data of the flip only. *)
LEMMA FlipMscKeeps ==
  ASSUME NEW t \in State, NEW q \in Entry, NEW n, NEW u, u = FlipMsc(t, q, n)
  PROVE  /\ KernelSame(u, t) /\ SeenSame(u, t) /\ ListsSame(u, t) /\ BuffersSame(u, t)
         /\ ToldSame(u, t) /\ u.asked = t.asked /\ u.answer = t.answer
         /\ u.data = Noted(t, q, n)
BY DEF FlipMsc, State, KernelSame, SeenSame, ListsSame, BuffersSame, ToldSame, Noted

(* References and the old framebuffer are not part of what is noted. *)
LEMMA NotedType ==
  ASSUME Living, NEW t \in State, NEW q \in Entry, NEW n \in Nat
  PROVE  /\ Noted(t, q, n) \in [Events -> Data]
         /\ \A e \in Events : /\ Noted(t, q, n)[e].refs = t.data[e].refs
                              /\ Noted(t, q, n)[e].old = t.data[e].old
                              /\ e # q.event \/ ~q.ref => Noted(t, q, n)[e] = t.data[e]
         /\ q.ref => /\ Noted(t, q, n)[q.event].msc = Converted(t, q.crtc)
                     /\ Noted(t, q, n)[q.event].true = n
<1> DEFINE u == FlipMsc(t, q, n)
<1>1. u \in State /\ u.data = Noted(t, q, n)
  BY FlipMscType, FlipMscKeeps
<1>2. u.data \in [Events -> Data] /\ t.data \in [Events -> Data]
  BY <1>1, FieldTypes
<1>3. q.event \in Events
  BY DEF Entry
<1> QED BY <1>1, <1>2, <1>3 DEF Noted, Data

(* A vblank's event, a flip's event that is not the last, and a flip's last.  *)
Counted(t, q, v) == Convert(t, q.crtc, v.count, v.wide)
Same(u, t) == KernelSame(u, t) /\ u.next = t.next /\ u.calls = t.calls /\ u.asked = t.asked /\ u.fb = t.fb
VblankTold(u, t, q, v) ==
  /\ Told(u, t, q.event) /\ u.data = t.data /\ u.fbs = t.fbs
  /\ u.answer = [given |-> Converted(Counted(t, q, v), q.crtc), true |-> v.count]
DataBy(u, t, q, m, n) ==
  \A e \in Events :
    /\ u.data[e].refs = IF e = q.event THEN t.data[e].refs - 1 ELSE t.data[e].refs
    /\ u.data[e].old = t.data[e].old
    /\ IF e = q.event /\ q.ref
       THEN u.data[e].msc = m /\ u.data[e].true = n
       ELSE u.data[e].msc = t.data[e].msc /\ u.data[e].true = t.data[e].true
DataAfter(u, t, q, v) == DataBy(u, t, q, Converted(Counted(t, q, v), q.crtc), v.count)
FlipEvent(u, t) == ToldSame(u, t) /\ u.fbs = t.fbs /\ u.answer = t.answer
LastFlipEvent(u, t, q) ==
  /\ Told(u, t, q.event) /\ u.fbs = t.fbs \ {t.data[q.event].old}
  /\ u.answer = IF t.asked[q.event].kind = "unflip" THEN t.answer
                ELSE [given |-> u.data[q.event].msc, true |-> u.data[q.event].true]
Handled(u, t, q, v) ==
  /\ Same(u, t) /\ SeenSame(u, Counted(t, q, v))
  /\ ~q.flip => VblankTold(u, t, q, v)
  /\ q.flip => /\ DataAfter(u, t, q, v)
               /\ t.data[q.event].refs # 1 => FlipEvent(u, t)
               /\ t.data[q.event].refs = 1 => LastFlipEvent(u, t, q)

(* What the event of a flip does, the last and the others. *)
LEMMA PageflipHandlerDoes ==
  ASSUME Living, NEW t \in State, NEW q \in Entry, NEW n \in Nat,
         NEW u, u = PageflipHandler(t, q, n)
  PROVE  /\ u \in State /\ Same(u, t) /\ SeenSame(u, t) /\ u.queue = t.queue
         /\ DataBy(u, t, q, Converted(t, q.crtc), n)
         /\ t.data[q.event].refs # 1 => FlipEvent(u, t)
         /\ t.data[q.event].refs = 1 => LastFlipEvent(u, t, q)
<1> DEFINE w == FlipMsc(t, q, n)
           e0 == q.event
           x == FlipOver(w, e0)
           y == IF w.data[e0].refs = 1 THEN x ELSE w
<1>1. e0 \in Events
  BY DEF Entry
<1>2. /\ w \in State /\ KernelSame(w, t) /\ SeenSame(w, t) /\ ListsSame(w, t) /\ BuffersSame(w, t)
      /\ ToldSame(w, t) /\ w.asked = t.asked /\ w.answer = t.answer /\ w.data = Noted(t, q, n)
  BY FlipMscType, FlipMscKeeps
<1>3. u = PageflipFree(y, e0) /\ u \in State
  BY PageflipHandlerType DEF PageflipHandler
<1> HIDE DEF w
<1>4. /\ x \in State /\ KernelSame(x, w) /\ SeenSame(x, w) /\ ListsSame(x, w)
      /\ x.data = w.data /\ x.asked = w.asked /\ x.fb = w.fb /\ Told(x, w, e0)
      /\ x.fbs = w.fbs \ {w.data[e0].old}
      /\ x.answer = IF w.asked[e0].kind = "unflip" THEN w.answer
                    ELSE [given |-> w.data[e0].msc, true |-> w.data[e0].true]
  <2>1. x \in State
    BY <1>1, <1>2, FlipOverType
  <2> QED BY <1>1, <1>2, <2>1, FlipOverKeeps
<1> HIDE DEF x
<1>5. y \in State /\ y.data = w.data
  BY <1>2, <1>4
<1>6. y = IF w.data[e0].refs = 1 THEN x ELSE w
  OBVIOUS
<1> HIDE DEF y
<1>7. /\ KernelSame(u, y) /\ SeenSame(u, y) /\ ListsSame(u, y) /\ BuffersSame(u, y)
      /\ ToldSame(u, y) /\ u.asked = y.asked /\ u.answer = y.answer
      /\ u.data = Held(y, e0, y.data[e0].refs - 1)
  BY <1>1, <1>3, <1>5, PageflipFreeKeeps
<1>8. Same(u, t) /\ SeenSame(u, t) /\ u.queue = t.queue
  BY <1>2, <1>4, <1>6, <1>7 DEF Same, KernelSame, SeenSame, ListsSame, BuffersSame
<1>9. w.data[e0].refs = t.data[e0].refs /\ w.data[e0].old = t.data[e0].old
  BY <1>1, <1>2, NotedType
<1>10. \A e \in Events :
         /\ u.data[e].refs = IF e = e0 THEN w.data[e].refs - 1 ELSE w.data[e].refs
         /\ u.data[e].old = w.data[e].old /\ u.data[e].msc = w.data[e].msc
         /\ u.data[e].true = w.data[e].true
  <2>1. w.data \in [Events -> Data]
    BY <1>2, FieldTypes
  <2> QED BY <1>1, <1>5, <1>7, <2>1 DEF Held, Data
<1>11. \A e \in Events :
         /\ w.data[e].refs = t.data[e].refs /\ w.data[e].old = t.data[e].old
         /\ IF e = e0 /\ q.ref
            THEN w.data[e].msc = Converted(t, q.crtc) /\ w.data[e].true = n
            ELSE w.data[e].msc = t.data[e].msc /\ w.data[e].true = t.data[e].true
  BY <1>1, <1>2, NotedType
<1>12. t.data[e0].refs # 1 => FlipEvent(u, t)
  BY <1>2, <1>6, <1>7, <1>9 DEF FlipEvent, ToldSame, BuffersSame
<1>13. t.data[e0].refs = 1 => LastFlipEvent(u, t, q)
  <2> SUFFICES ASSUME t.data[e0].refs = 1 PROVE LastFlipEvent(u, t, q)
    OBVIOUS
  <2>1. y = x
    BY <1>6, <1>9
  <2>2. Told(u, t, e0)
    BY <1>2, <1>4, <1>7, <2>1 DEF Told, ToldSame
  <2>3. u.fbs = t.fbs \ {t.data[e0].old}
    BY <1>2, <1>4, <1>7, <1>9, <2>1 DEF BuffersSame
  <2>4. u.answer = IF t.asked[e0].kind = "unflip" THEN t.answer
                   ELSE [given |-> u.data[e0].msc, true |-> u.data[e0].true]
    BY <1>1, <1>2, <1>4, <1>7, <1>10, <2>1
  <2> QED BY <2>2, <2>3, <2>4 DEF LastFlipEvent
<1> HIDE DEF e0
<1>14. \A e \in Events :
         /\ u.data[e].refs = IF e = e0 THEN t.data[e].refs - 1 ELSE t.data[e].refs
         /\ u.data[e].old = t.data[e].old
         /\ IF e = e0 /\ q.ref
            THEN u.data[e].msc = Converted(t, q.crtc) /\ u.data[e].true = n
            ELSE u.data[e].msc = t.data[e].msc /\ u.data[e].true = t.data[e].true
  BY <1>10, <1>11
<1> QED BY <1>3, <1>8, <1>12, <1>13, <1>14 DEF e0, DataBy

(* What an event does: it is dropped, or its entry is handled. *)
LEMMA SequenceHandlerDoes ==
  ASSUME Living, NEW t \in State, NEW v \in EventRecord, NEW u, u = SequenceHandler(t, v)
  PROVE  /\ u \in State
         /\ \/ u = t /\ \A i \in 1..Len(t.queue) : t.queue[i].seq # v.seq
            \/ \E i \in 1..Len(t.queue) :
                 /\ t.queue[i].seq = v.seq /\ u.queue = RemoveAt(t.queue, i)
                 /\ Handled(u, t, t.queue[i], v)
<1> DEFINE at == {i \in DOMAIN t.queue : t.queue[i].seq = v.seq}
           i == CHOOSE i \in at : TRUE
           q == t.queue[i]
           w == Counted(t, q, v)
           x == [w EXCEPT !.queue = RemoveAt(@, i)]
           a == [given |-> Converted(x, q.crtc), true |-> v.count]
<1>1. DOMAIN t.queue = 1..Len(t.queue) /\ v.count \in Nat
  BY FieldTypes, LenProperties, SMTT(20) DEF EventRecord
<1>2. u = IF at = {} THEN t
          ELSE IF q.flip THEN PageflipHandler(x, q, v.count)
          ELSE [Tell(x, q.event) EXCEPT !.answer = a]
  BY DEF SequenceHandler, Counted
<1>3. u \in State
  BY SequenceHandlerType
<1>4. CASE at = {}
  BY <1>1, <1>2, <1>3, <1>4
<1>5. CASE at # {}
  <2>1. i \in 1..Len(t.queue) /\ t.queue[i].seq = v.seq
    BY <1>1, <1>5
  <2> HIDE DEF i
  <2>2. q \in Entry /\ q.crtc \in Crtcs /\ q.event \in Events
    BY <2>1, EntryType
  <2>3. /\ w \in State /\ KernelSame(w, t) /\ ListsSame(w, t) /\ BuffersSame(w, t) /\ ToldSame(w, t)
        /\ w.data = t.data /\ w.asked = t.asked /\ w.answer = t.answer
    <3>1. w \in State
      BY <1>1, <2>2, ConvertType DEF Counted
    <3>2. w = Convert(t, q.crtc, v.count, v.wide)
      BY DEF Counted
    <3> HIDE DEF w, q
    <3> QED BY <3>1, <3>2, ConvertKeeps
  <2> HIDE DEF w
  <2>4. /\ x \in State /\ KernelSame(x, t) /\ BuffersSame(x, t) /\ ToldSame(x, t) /\ SeenSame(x, w)
        /\ x.data = t.data /\ x.asked = t.asked /\ x.answer = t.answer
        /\ x.next = t.next /\ x.calls = t.calls /\ x.queue = RemoveAt(t.queue, i)
    <3>1. x \in State
      BY <2>1, <2>3, EntryType DEF ListsSame
    <3>2. w.queue = t.queue
      BY <2>3 DEF ListsSame
    <3> DEFINE r == RemoveAt(t.queue, i)
    <3>3. x = [w EXCEPT !.queue = r]
      BY <2>3, <3>2 DEF State
    <3> HIDE DEF x, r
    <3>4. KernelSame(x, w) /\ BuffersSame(x, w) /\ ToldSame(x, w) /\ SeenSame(x, w)
          /\ x.data = w.data /\ x.asked = w.asked /\ x.answer = w.answer
          /\ x.next = w.next /\ x.calls = w.calls /\ x.queue = r
      BY <2>3, <3>3 DEF State, KernelSame, BuffersSame, ToldSame, SeenSame
    <3> QED BY <2>3, <3>1, <3>4 DEF KernelSame, BuffersSame, ToldSame, ListsSame, r
  <2>5. Converted(x, q.crtc) = Converted(w, q.crtc)
    BY <2>4 DEF Converted, SeenSame
  <2> HIDE DEF x
  <2>6. CASE q.flip
    <3> DEFINE y == PageflipHandler(x, q, v.count)
    <3>1. /\ Same(y, x) /\ SeenSame(y, x) /\ y.queue = x.queue /\ y \in State
          /\ DataBy(y, x, q, Converted(x, q.crtc), v.count)
          /\ x.data[q.event].refs # 1 => FlipEvent(y, x)
          /\ x.data[q.event].refs = 1 => LastFlipEvent(y, x, q)
      BY <1>1, <2>2, <2>4, PageflipHandlerDoes
    <3>2. u = y
      BY <1>2, <1>5, <2>6
    <3> HIDE DEF y
    <3>3. Same(u, t) /\ SeenSame(u, w) /\ u.queue = RemoveAt(t.queue, i)
      BY <2>4, <3>1, <3>2 DEF Same, SeenSame, KernelSame, BuffersSame
    <3>4. DataAfter(u, t, q, v)
      <4>1. DataBy(u, t, q, Converted(w, q.crtc), v.count)
        BY <2>4, <2>5, <3>1, <3>2 DEF DataBy
      <4> QED BY <4>1 DEF DataAfter, w
    <3>5. t.data[q.event].refs # 1 => FlipEvent(u, t)
      BY <2>4, <3>1, <3>2 DEF FlipEvent, ToldSame, BuffersSame
    <3>6. t.data[q.event].refs = 1 => LastFlipEvent(u, t, q)
      BY <2>4, <3>1, <3>2 DEF LastFlipEvent, Told, ToldSame, BuffersSame
    <3>7. Handled(u, t, q, v)
      BY <2>6, <3>3, <3>4, <3>5, <3>6 DEF Handled, w
    <3> QED BY <1>3, <2>1, <3>3, <3>7
  <2>7. CASE ~q.flip
    <3> DEFINE y == Tell(x, q.event)
    <3>1. /\ y \in State /\ KernelSame(y, x) /\ SeenSame(y, x) /\ ListsSame(y, x) /\ BuffersSame(y, x)
          /\ y.data = x.data /\ y.asked = x.asked /\ y.answer = x.answer /\ Told(y, x, q.event)
      BY <2>2, <2>4, TellType, TellKeeps
    <3>2. u = [y EXCEPT !.answer = a]
      BY <1>2, <1>5, <2>7
    <3> HIDE DEF y, a
    <3>3. /\ KernelSame(u, y) /\ SeenSame(u, y) /\ ListsSame(u, y) /\ BuffersSame(u, y)
          /\ u.data = y.data /\ u.asked = y.asked /\ ToldSame(u, y) /\ u.answer = a
      BY <3>1, <3>2 DEF State, KernelSame, SeenSame, ListsSame, BuffersSame, ToldSame
    <3>4. Same(u, t) /\ SeenSame(u, w) /\ u.queue = RemoveAt(t.queue, i)
      BY <2>4, <3>1, <3>3 DEF Same, SeenSame, KernelSame, BuffersSame, ListsSame
    <3>5. VblankTold(u, t, q, v)
      BY <2>4, <2>5, <3>1, <3>3 DEF VblankTold, Told, ToldSame, BuffersSame, a, w
    <3>6. Handled(u, t, q, v)
      BY <2>7, <3>4, <3>5 DEF Handled, w
    <3> QED BY <1>3, <2>1, <3>4, <3>6
  <2> QED BY <2>6, <2>7
<1> QED BY <1>4, <1>5

----------------------------------------------------------------------------
(* Remainders: what a remainder takes off a number is whole turns, and a      *)
(* number moved by whole turns keeps its remainder.                           *)
Rem(n, K) == n % K

(* A remainder is less than a turn, and what it takes off is whole turns. *)
LEMMA Turns ==
  ASSUME NEW K \in Nat, K > 0, NEW n \in Int
  PROVE  Rem(n, K) \in 0..(K - 1) /\ \E q \in Int : n - Rem(n, K) = q * K
<1>1. n % K \in 0..(K - 1)
  OBVIOUS
<1>2. \E q \in Int : n - (n % K) = q * K
  OBVIOUS
<1> QED BY <1>1, <1>2 DEF Rem

(* Less than a turn is no whole turn but none. *)
LEMMA NoTurn ==
  ASSUME NEW K \in Nat, K > 0, NEW q \in Int, -K < q * K, q * K < K
  PROVE  q = 0
<1>1. ASSUME q >= 1 PROVE FALSE
  <2>1. q * K >= K
    BY <1>1
  <2> QED BY <2>1
<1>2. ASSUME q <= -1 PROVE FALSE
  <2>1. q * K <= -K
    BY <1>2
  <2> QED BY <2>1
<1> QED BY <1>1, <1>2

(* Whole turns do not change a remainder. *)
LEMMA TurnsOnly ==
  ASSUME NEW K \in Nat, K > 0, NEW a \in Int, NEW b \in Int, NEW q \in Int, a - b = q * K
  PROVE  Rem(a, K) = Rem(b, K)
<1>1. PICK i \in Int : a - Rem(a, K) = i * K
  BY Turns
<1>2. PICK j \in Int : b - Rem(b, K) = j * K
  BY Turns
<1> DEFINE x == Rem(a, K)
           y == Rem(b, K)
<1>3. x \in 0..(K - 1) /\ y \in 0..(K - 1)
  BY Turns
<1>4. a - x = i * K /\ b - y = j * K
  BY <1>1, <1>2
<1> HIDE DEF x, y
<1>5. x - y = (q - i + j) * K
  BY <1>3, <1>4
<1>6. q - i + j = 0
  <2> DEFINE k == q - i + j
  <2>1. k \in Int /\ -K < k * K /\ k * K < K
    BY <1>3, <1>5
  <2> HIDE DEF k
  <2>2. k = 0
    BY <2>1, NoTurn
  <2> QED BY <2>2 DEF k
<1>7. x = y
  BY <1>3, <1>5, <1>6
<1> QED BY <1>7 DEF x, y

(* The same for 32 bits. *)
LEMMA WordTurns ==
  ASSUME NEW n \in Int
  PROVE  Rem(n, Word) \in 0..(Word - 1) /\ \E q \in Int : n - Rem(n, Word) = q * Word
<1>1. Word \in Nat /\ Word > 0
  BY Widths
<1> QED BY <1>1, Turns

(* And for 64 bits. *)
LEMMA LongTurns ==
  ASSUME NEW n \in Int
  PROVE  Rem(n, Long) \in 0..(Long - 1) /\ \E q \in Int : n - Rem(n, Long) = q * Long
<1>1. Long \in Nat /\ Long > 0
  BY Widths
<1> QED BY <1>1, Turns

(* Whole turns of 64 bits do not change a remainder. *)
LEMMA LongOnly ==
  ASSUME NEW a \in Int, NEW b \in Int, NEW q \in Int, a - b = q * Long
  PROVE  Rem(a, Long) = Rem(b, Long)
<1>1. Long \in Nat /\ Long > 0
  BY Widths
<1> QED BY <1>1, TurnsOnly

(* The counters a driver can follow: what it has not seen is less than the    *)
(* quarter turn it takes for a step back, and the server starts within it.    *)
CloseCounters ==
  /\ MaxUnseen <= Quarter /\ MaxUnseen + Quarter < Word
  /\ \A x \in Setups : x.start <= MaxUnseen

(* msc_prev and msc_high together are the last count converted.               *)
Kept(t, c) == t.prev[c] = t.seen[c] % Word /\ t.high[c] = (t.seen[c] - t.prev[c]) % Long

(* A count close to the last one is converted to itself, in either width.     *)
LEMMA ConvertExact ==
  ASSUME Living, CloseCounters, NEW t \in State, NEW c \in Crtcs, NEW n \in Nat,
         NEW wide \in BOOLEAN, Kept(t, c),
         n - t.seen[c] <= MaxUnseen, t.seen[c] - n <= MaxUnseen,
         NEW u, u = Convert(t, c, n, wide)
  PROVE  /\ Kept(u, c) /\ \A d \in Crtcs : d # c /\ Kept(t, d) => Kept(u, d)
         /\ Converted(u, c) = Rem(n, Long)
<1> DEFINE m == t.seen[c]
           p == Rem(m, Word)
           low == Rem(n, Word)
           base == IF wide THEN n - low
                   ELSE IF low < t.prev[c] - Quarter THEN t.high[c] + Word
                   ELSE IF low > t.prev[c] + Quarter THEN t.high[c] - Word
                   ELSE t.high[c]
           x == Rem(base, Long)
           h == t.high[c]
<1>1. m \in Nat /\ h \in Nat /\ Word \in Nat /\ Word > 0 /\ Long \in Nat /\ Long > 0 /\ Quarter \in Nat
      /\ MaxUnseen \in Nat
  BY Widths, FieldTypes
<1>4. p \in 0..(Word - 1) /\ low \in 0..(Word - 1)
  BY <1>1, WordTurns
<1>5. t.prev[c] = p /\ h = Rem(m - p, Long)
  BY DEF Kept, Rem
<1>6. n - m <= MaxUnseen /\ m - n <= MaxUnseen
  OBVIOUS
<1>7. base = IF wide THEN n - low
             ELSE IF low < p - Quarter THEN h + Word
             ELSE IF low > p + Quarter THEN h - Word
             ELSE h
  BY <1>5
<1>8. /\ u = [t EXCEPT !.prev[c] = low, !.high[c] = x, !.seen[c] = n]
  BY DEF Convert, Rem
<1>19. p = Rem(m, Word) /\ low = Rem(n, Word) /\ x = Rem(base, Long)
  OBVIOUS
<1> HIDE DEF p, low, base, x, m, h
<1>2. PICK a \in Int : m - p = a * Word
  <2>1. m \in Int /\ p = Rem(m, Word)
    BY <1>1, <1>19
  <2>2. \E q \in Int : m - Rem(m, Word) = q * Word
    BY <2>1, WordTurns
  <2> QED BY <2>1, <2>2
<1>3. PICK b \in Int : n - low = b * Word
  <2>1. n \in Int /\ low = Rem(n, Word)
    BY <1>19
  <2>2. \E q \in Int : n - Rem(n, Word) = q * Word
    BY <2>1, WordTurns
  <2> QED BY <2>1, <2>2
<1>9. PICK j \in Int : (m - p) - h = j * Long
  <2> DEFINE y == m - p
  <2>1. y \in Int /\ h = Rem(y, Long)
    BY <1>1, <1>4, <1>5
  <2> HIDE DEF y
  <2>2. \E j \in Int : y - h = j * Long
    BY <2>1, LongTurns
  <2> QED BY <2>2 DEF y
<1>10. h = (a * Word) - (j * Long)
  BY <1>1, <1>2, <1>4, <1>9
<1>11. b = a \/ b = a + 1 \/ b = a - 1
  <2>1. n - m = (b - a) * Word + (low - p)
    BY <1>1, <1>2, <1>3, <1>4
  <2> DEFINE k == b - a
  <2>2. k \in Int /\ n - m = k * Word + (low - p)
    BY <2>1
  <2> HIDE DEF k
  <2>3. ASSUME k >= 2 PROVE FALSE
    <3>1. k * Word >= 2 * Word
      BY <1>1, <2>2, <2>3
    <3> QED BY <1>1, <1>4, <1>6, <2>2, <3>1 DEF CloseCounters
  <2>4. ASSUME k <= -2 PROVE FALSE
    <3>1. k * Word <= -(2 * Word)
      BY <1>1, <2>2, <2>4
    <3> QED BY <1>1, <1>4, <1>6, <2>2, <3>1 DEF CloseCounters
  <2>5. k = 0 \/ k = 1 \/ k = -1
    BY <2>2, <2>3, <2>4
  <2> QED BY <2>5 DEF k
<1>12. \E i \in Int : base - (n - low) = i * Long
  <2>1. CASE wide
    <3>1. base - (n - low) = 0 * Long
      BY <1>1, <1>4, <1>7, <2>1
    <3> QED BY <3>1
  <2>2. CASE ~wide
    <3>1. n - m = (b - a) * Word + (low - p)
      BY <1>1, <1>2, <1>3, <1>4
    <3>2. CASE b = a
      <4>1. n - m = low - p
        BY <1>1, <1>4, <3>1, <3>2
      <4>2. base = h
        BY <1>1, <1>4, <1>6, <1>7, <2>2, <4>1 DEF CloseCounters
      <4>3. base - (n - low) = (-j) * Long
        BY <1>1, <1>3, <1>10, <3>2, <4>2
      <4> QED BY <4>3
    <3>3. CASE b = a + 1
      <4>1. n - m = Word + (low - p)
        BY <1>1, <1>4, <3>1, <3>3
      <4>2. base = h + Word
        BY <1>1, <1>4, <1>6, <1>7, <2>2, <4>1 DEF CloseCounters
      <4>3. b * Word = a * Word + Word
        BY <1>1, <3>3
      <4>4. base - (n - low) = (-j) * Long
        BY <1>1, <1>3, <1>10, <4>2, <4>3
      <4> QED BY <4>4
    <3>4. CASE b = a - 1
      <4>1. n - m = (low - p) - Word
        BY <1>1, <1>4, <3>1, <3>4
      <4>2. base = h - Word
        BY <1>1, <1>4, <1>6, <1>7, <2>2, <4>1 DEF CloseCounters
      <4>3. b * Word = a * Word - Word
        BY <1>1, <3>4
      <4>4. base - (n - low) = (-j) * Long
        BY <1>1, <1>3, <1>10, <4>2, <4>3
      <4> QED BY <4>4
    <3> QED BY <1>11, <3>2, <3>3, <3>4
  <2> QED BY <2>1, <2>2
<1>13. base \in Int
  BY <1>1, <1>4, <1>7
<1>14. x = Rem(n - low, Long)
  <2> DEFINE y == n - low
  <2>1. y \in Int
    BY <1>1, <1>4
  <2>2. \E i \in Int : base - y = i * Long
    BY <1>12
  <2> HIDE DEF y
  <2>3. Rem(base, Long) = Rem(y, Long)
    BY <1>13, <2>1, <2>2, LongOnly
  <2> QED BY <1>19, <2>3 DEF y
<1>15. u.prev[c] = low /\ u.high[c] = x /\ u.seen[c] = n
  BY <1>8, FieldTypes, SMTT(20) DEF State
<1>16. Kept(u, c)
  BY <1>14, <1>15 DEF Kept, low, Rem
<1>17. \A d \in Crtcs : d # c => u.prev[d] = t.prev[d] /\ u.high[d] = t.high[d] /\ u.seen[d] = t.seen[d]
  BY <1>8, FieldTypes DEF State
<1>18. Converted(u, c) = Rem(n, Long)
  <2> DEFINE y == n - low
           z == Rem(y, Long)
  <2>1. y \in Int
    BY <1>1, <1>4
  <2>2. Converted(u, c) = Rem(z + low, Long)
    BY <1>14, <1>15 DEF Converted, Rem
  <2>3. z \in 0..(Long - 1)
    BY <2>1, LongTurns
  <2> HIDE DEF y
  <2>4. PICK i \in Int : y - z = i * Long
    BY <2>1, LongTurns
  <2> HIDE DEF z
  <2> DEFINE w == z + low
  <2>5. w - n = (-i) * Long
    BY <1>1, <1>4, <2>3, <2>4 DEF y
  <2>6. w \in Int /\ n \in Int /\ -i \in Int
    BY <1>1, <1>4, <2>3
  <2> HIDE DEF w
  <2>7. Rem(w, Long) = Rem(n, Long)
    BY <2>5, <2>6, LongOnly
  <2> QED BY <2>2, <2>7 DEF w
<1> QED BY <1>16, <1>17, <1>18 DEF Kept

----------------------------------------------------------------------------
(* A sequence number stands for one CRTC, whoever holds it: a request, a      *)
(* flip, an event or a call.                                                  *)
Holds(t, n, c) ==
  \/ \E r \in t.requests : r.seq = n /\ r.crtc = c
  \/ t.flips[c] # Nothing /\ t.flips[c].seq = n
  \/ \E v \in On(t.events) : v.seq = n /\ v.crtc = c
  \/ \E k \in On(t.calls) : k.seq = n /\ k.crtc = c

Paired(t) ==
  /\ \A q \in On(t.queue) : q.seq < t.next
  /\ \A n \in Nat, c \in Crtcs : Holds(t, n, c) =>
       n < t.next /\ \A q \in On(t.queue) : q.seq = n => q.crtc = c

(* The counts seen and to be read are close to the counters. *)
Close(t) ==
  /\ \A c \in Crtcs : t.seen[c] <= t.count[c] /\ t.count[c] - t.seen[c] <= MaxUnseen
  /\ \A v \in On(t.events) : v.count <= t.count[v.crtc] /\ t.count[v.crtc] - v.count <= MaxUnseen

(* The driver's counters, and what is told of them. *)
Exact(t) ==
  /\ \A c \in Crtcs : Kept(t, c)
  /\ \A e \in Events : t.data[e].msc = Rem(t.data[e].true, Long)
  /\ t.answer.given = Rem(t.answer.true, Long)

Tallied(t) == Paired(t) /\ Close(t) /\ Exact(t)

(* What lets a sequence number go, or hands it on, keeps the pairs. *)
HandsOn(u, t) ==
  /\ u.next = t.next /\ On(u.queue) \subseteq On(t.queue)
  /\ \A n \in Nat, c \in Crtcs : Holds(u, n, c) => Holds(t, n, c)

(* Such a step keeps the pairs. *)
LEMMA PairedLess ==
  ASSUME NEW t \in State, NEW u \in State, Paired(t), HandsOn(u, t)
  PROVE  Paired(u)
BY DEF Paired, HandsOn

(* A new entry has the next number. *)
LEMMA PairedMore ==
  ASSUME NEW t \in State, NEW u \in State, NEW q \in Entry, Paired(t), q.seq = t.next,
         u.next = t.next + 1, On(u.queue) = {q} \cup On(t.queue),
         \A n \in Nat, c \in Crtcs : Holds(u, n, c) => Holds(t, n, c) \/ (n = t.next /\ c = q.crtc)
  PROVE  Paired(u)
<1>1. t.next \in Nat
  BY FieldTypes
<1>2. \A p \in On(u.queue) : p.seq < u.next
  <2>1. \A p \in On(t.queue) : p.seq \in Nat
    <3>1. \A i \in 1..Len(t.queue) : t.queue[i] \in Entry
      BY FieldTypes, LenProperties
    <3> QED BY <3>1 DEF On, Entry
  <2> QED BY <1>1, <2>1 DEF Paired
<1>3. ASSUME NEW n \in Nat, NEW c \in Crtcs, Holds(u, n, c), NEW p \in On(u.queue)
      PROVE  n < u.next /\ (p.seq = n => p.crtc = c)
  <2>1. CASE Holds(t, n, c)
    <3>1. n < t.next
      BY <2>1 DEF Paired
    <3> QED BY <1>1, <2>1, <3>1 DEF Paired
  <2>2. CASE n = t.next /\ c = q.crtc
    BY <1>1, <2>2 DEF Paired
  <2> QED BY <1>3, <2>1, <2>2
<1>4. q \in On(u.queue)
  OBVIOUS
<1> QED BY <1>2, <1>3, <1>4 DEF Paired

(* What leaves the counters and the counts to read alone. *)
CountsSame(u, t) == u.count = t.count /\ u.seen = t.seen /\ On(u.events) \subseteq On(t.events)

(* Such a step keeps the counts close. *)
LEMMA CloseSame ==
  ASSUME NEW t \in State, NEW u \in State, Close(t), CountsSame(u, t)
  PROVE  Close(u)
BY DEF Close, CountsSame

(* What leaves the driver's counters alone. *)
MscsSame(u, t) ==
  /\ SeenSame(u, t) /\ u.answer = t.answer
  /\ \A e \in Events : u.data[e].msc = t.data[e].msc /\ u.data[e].true = t.data[e].true

(* Such a step keeps the counters exact. *)
LEMMA ExactSame ==
  ASSUME NEW t \in State, NEW u \in State, Exact(t), MscsSame(u, t)
  PROVE  Exact(u)
BY DEF Exact, MscsSame, SeenSame, Kept

(* Steps that do all three. *)
LEMMA TalliedSame ==
  ASSUME NEW t \in State, NEW u \in State, Tallied(t), HandsOn(u, t), CountsSame(u, t),
         MscsSame(u, t)
  PROVE  Tallied(u)
BY PairedLess, CloseSame, ExactSame DEF Tallied

(* The counters move on. *)
LEMMA VblankTallied ==
  ASSUME Living, NEW t \in State, NEW c \in Crtcs, NEW news \in SetToSeqs(DueEvents(t, c)),
         Tallied(t), t.count[c] - t.seen[c] < MaxUnseen,
         \A i \in DOMAIN t.events : t.events[i].crtc = c => t.count[c] - t.events[i].count < MaxUnseen
  PROVE  Tallied(KernelVblank(t, c, news))
<1> DEFINE u == KernelVblank(t, c, news)
           n1 == t.count[c] + 1
<1>1. u \in State /\ On(u.events) = On(t.events) \cup DueEvents(t, c)
  BY KernelVblankType
<1>2. /\ u.count = [t.count EXCEPT ![c] = @ + 1] /\ u.requests = t.requests \ Due(t, c)
      /\ u.flips = t.flips /\ u.calls = t.calls /\ u.queue = t.queue /\ u.next = t.next
      /\ u.data = t.data /\ SeenSame(u, t) /\ u.answer = t.answer
  BY DEF KernelVblank, State, SeenSame
<1>3. DueEvents(t, c) = {Sent(c, r.seq, n1, t.hasSeq) : r \in Due(t, c)}
  BY DEF DueEvents
<1>4. \A r \in Due(t, c) : r \in t.requests /\ r.crtc = c
  BY DEF Due
<1> HIDE DEF u
<1>5. HandsOn(u, t)
  <2> SUFFICES ASSUME NEW n \in Nat, NEW d \in Crtcs, Holds(u, n, d) PROVE Holds(t, n, d)
    BY <1>2 DEF HandsOn
  <2>1. CASE \E v \in DueEvents(t, c) : v.seq = n /\ v.crtc = d
    <3>1. PICK r \in Due(t, c) : r.seq = n /\ c = d
      BY <1>3, <2>1 DEF Sent
    <3> QED BY <1>4, <3>1 DEF Holds
  <2>2. CASE ~ \E v \in DueEvents(t, c) : v.seq = n /\ v.crtc = d
    BY <1>1, <1>2, <2>2 DEF Holds
  <2> QED BY <2>1, <2>2
<1>6. Close(u)
  <2>1. t.count \in [Crtcs -> Nat] /\ t.seen \in [Crtcs -> Nat] /\ MaxUnseen \in Nat
    BY Widths, FieldTypes
  <2>2. \A d \in Crtcs : u.seen[d] <= u.count[d] /\ u.count[d] - u.seen[d] <= MaxUnseen
    BY <1>2, <2>1 DEF Tallied, Close, SeenSame
  <2>3. ASSUME NEW v \in On(t.events)
        PROVE  v.count <= u.count[v.crtc] /\ u.count[v.crtc] - v.count <= MaxUnseen
    <3>1. PICK i \in 1..Len(t.events) : v = t.events[i]
      BY DEF On
    <3>2. DOMAIN t.events = 1..Len(t.events) /\ t.events[i] \in EventRecord
      BY FieldTypes, LenProperties
    <3>3. v.count \in Nat /\ v.crtc \in Crtcs
      BY <3>1, <3>2 DEF EventRecord
    <3>4. v.count <= t.count[v.crtc] /\ t.count[v.crtc] - v.count <= MaxUnseen
      BY DEF Tallied, Close
    <3>5. v.crtc = c => t.count[c] - v.count < MaxUnseen
      BY <3>1, <3>2
    <3> QED BY <1>2, <2>1, <3>3, <3>4, <3>5
  <2>4. ASSUME NEW v \in DueEvents(t, c)
        PROVE  v.count <= u.count[v.crtc] /\ u.count[v.crtc] - v.count <= MaxUnseen
    <3>1. v.count = n1 /\ v.crtc = c
      BY <1>3 DEF Sent
    <3>2. u.count[c] = n1 /\ n1 \in Nat
      BY <1>2, <2>1
    <3> QED BY <2>1, <3>1, <3>2
  <2> QED BY <1>1, <2>2, <2>3, <2>4 DEF Close
<1>7. MscsSame(u, t)
  BY <1>2 DEF MscsSame
<1>8. Tallied(u)
  BY <1>1, <1>5, <1>6, <1>7, PairedLess, ExactSame DEF Tallied
<1> QED BY <1>8 DEF u

(* A flip sends an event with the count of now. *)
LEMMA FlipTallied ==
  ASSUME Living, NEW t \in State, NEW c \in Crtcs, Tallied(t), t.flips[c] # Nothing
  PROVE  Tallied(KernelFlip(t, c))
<1> DEFINE u == KernelFlip(t, c)
           v == Sent(c, t.flips[c].seq, t.count[c], FALSE)
<1>1. u \in State /\ On(u.events) = On(t.events) \cup {v}
  BY KernelFlipType
<1>2. /\ u.flips = [t.flips EXCEPT ![c] = Nothing] /\ u.requests = t.requests
      /\ u.count = t.count /\ u.calls = t.calls /\ u.queue = t.queue /\ u.next = t.next
      /\ u.data = t.data /\ SeenSame(u, t) /\ u.answer = t.answer
  BY DEF KernelFlip, State, SeenSame
<1>3. v.crtc = c /\ v.seq = t.flips[c].seq /\ v.count = t.count[c]
  BY DEF Sent
<1> HIDE DEF u, v
<1>4. HandsOn(u, t)
  <2>1. t.flips \in [Crtcs -> [seq : Nat, fb : Fbs]]
    BY FieldTypes
  <2> SUFFICES ASSUME NEW n \in Nat, NEW d \in Crtcs, Holds(u, n, d) PROVE Holds(t, n, d)
    BY <1>2 DEF HandsOn
  <2> QED BY <1>1, <1>2, <1>3, <2>1 DEF Holds
<1>5. Close(u)
  <2>1. t.count \in [Crtcs -> Nat] /\ t.seen \in [Crtcs -> Nat] /\ MaxUnseen \in Nat
    BY Widths, FieldTypes
  <2> QED BY <1>1, <1>2, <1>3, <2>1 DEF Tallied, Close, SeenSame
<1>6. MscsSame(u, t)
  BY <1>2 DEF MscsSame
<1>7. Tallied(u)
  BY <1>1, <1>4, <1>5, <1>6, PairedLess, ExactSame DEF Tallied
<1> QED BY <1>7 DEF u

(* A count is converted, and what is told of it. *)
LEMMA ConvertTallied ==
  ASSUME Living, CloseCounters, NEW t \in State, NEW c \in Crtcs, NEW n \in Nat,
         NEW wide \in BOOLEAN, Close(t), Exact(t),
         n <= t.count[c], t.count[c] - n <= MaxUnseen,
         NEW u, u = Convert(t, c, n, wide)
  PROVE  /\ u \in State /\ Close(u) /\ Exact(u) /\ Converted(u, c) = Rem(n, Long)
<1>1. u \in State
  BY ConvertType
<1>2. /\ KernelSame(u, t) /\ ListsSame(u, t) /\ u.data = t.data /\ u.answer = t.answer
      /\ SeenNow(u, t, c, n)
  BY ConvertKeeps
<1>3. t.count \in [Crtcs -> Nat] /\ t.seen \in [Crtcs -> Nat] /\ MaxUnseen \in Nat
  BY Widths, FieldTypes
<1>4. n - t.seen[c] <= MaxUnseen /\ t.seen[c] - n <= MaxUnseen
  <2>1. t.seen[c] <= t.count[c] /\ t.count[c] - t.seen[c] <= MaxUnseen
    BY DEF Close
  <2>2. t.seen[c] \in Nat /\ t.count[c] \in Nat
    BY <1>3
  <2> QED BY <1>3, <2>1, <2>2
<1>5. Kept(t, c)
  BY DEF Exact
<1>6. Kept(u, c) /\ (\A d \in Crtcs : d # c /\ Kept(t, d) => Kept(u, d)) /\ Converted(u, c) = Rem(n, Long)
  BY <1>4, <1>5, ConvertExact
<1>7. Close(u)
  <2>1. u.seen = [t.seen EXCEPT ![c] = n] /\ u.count = t.count /\ u.events = t.events
    BY <1>2 DEF SeenNow, KernelSame
  <2> QED BY <1>3, <2>1 DEF Close
<1>8. Exact(u)
  BY <1>2, <1>6 DEF Exact
<1> QED BY <1>1, <1>6, <1>7, <1>8

(* A query converts the count of now. *)
LEMMA GetMscTallied ==
  ASSUME Living, CloseCounters, NEW t \in State, NEW c \in Crtcs, Tallied(t)
  PROVE  Tallied(GetMsc(t, c))
<1> DEFINE n == t.count[c]
           w == Convert(t, c, n, t.hasSeq)
           a == [given |-> Converted(w, c), true |-> n]
           u == GetMsc(t, c)
<1>1. n \in Nat /\ t.hasSeq \in BOOLEAN /\ MaxUnseen \in Nat /\ u \in State
  BY Widths, FieldTypes, GetMscType
<1>2. w \in State /\ Close(w) /\ Exact(w) /\ Converted(w, c) = Rem(n, Long)
  BY <1>1, ConvertTallied DEF Tallied
<1>3. KernelSame(w, t) /\ ListsSame(w, t)
  <2>1. t.hasSeq \in BOOLEAN
    BY <1>1
  <2> HIDE DEF w
  <2>2. w = Convert(t, c, n, t.hasSeq)
    BY DEF w
  <2> QED BY <2>2, ConvertKeeps
<1>4. u = [w EXCEPT !.answer = a]
  BY DEF GetMsc
<1> HIDE DEF w, n, u
<1>5. /\ u.next = w.next /\ u.queue = w.queue /\ u.requests = w.requests /\ u.flips = w.flips
      /\ u.events = w.events /\ u.calls = w.calls /\ u.count = w.count /\ SeenSame(u, w)
      /\ u.data = w.data /\ u.answer = a
  BY <1>2, <1>4 DEF State, SeenSame
<1>6. HandsOn(u, t)
  BY <1>3, <1>5 DEF HandsOn, Holds, KernelSame, ListsSame
<1>7. Close(u)
  BY <1>2, <1>5 DEF Close, SeenSame
<1>8. Exact(u)
  BY <1>2, <1>5 DEF Exact, Kept, SeenSame
<1>9. Tallied(u)
  BY <1>1, <1>6, <1>7, <1>8, PairedLess DEF Tallied
<1> QED BY <1>9 DEF u

(* A call of the driver begins: a new entry and the call hold a new number.   *)
LEMMA CalledTallied ==
  ASSUME Living, NEW t \in State, NEW u \in State, NEW q \in Entry, NEW k \in Call, Tallied(t),
         q.seq = t.next, k.seq = t.next, k.crtc = q.crtc, u.next = t.next + 1,
         u.queue = <<q>> \o t.queue, u.calls = <<k>> \o t.calls,
         KernelSame(u, t), MscsSame(u, t)
  PROVE  Tallied(u)
<1>1. On(u.queue) = {q} \cup On(t.queue)
  <2>1. t.queue \in Seq(Entry)
    BY FieldTypes
  <2>2. On(<<q>> \o t.queue) = {q} \cup On(t.queue)
    BY <2>1, OnPushed
  <2> QED BY <2>2
<1>2. On(u.calls) = {k} \cup On(t.calls)
  <2>1. t.calls \in Seq(Call)
    BY FieldTypes
  <2>2. On(<<k>> \o t.calls) = {k} \cup On(t.calls)
    BY <2>1, OnPushed
  <2> QED BY <2>2
<1>3. \A n \in Nat, c \in Crtcs : Holds(u, n, c) => Holds(t, n, c) \/ (n = t.next /\ c = q.crtc)
  BY <1>2 DEF Holds, KernelSame
<1>4. Paired(u)
  BY <1>1, <1>3, PairedMore DEF Tallied
<1>5. CountsSame(u, t)
  BY DEF CountsSame, KernelSame, MscsSame, SeenSame
<1> QED BY <1>4, <1>5, CloseSame, ExactSame DEF Tallied

(* Present asks for a vblank. *)
LEMMA QueueVblankTallied ==
  ASSUME Living, NEW t \in State, NEW c \in Crtcs, NEW e \in Events, NEW msc \in Nat, Tallied(t)
  PROVE  Tallied(QueueVblank(t, c, e, msc))
<1> DEFINE u == QueueVblank(t, c, e, msc)
           q == NewEntry(t, c, e, FALSE, FALSE)
           k == NewCall("vblank", e, 0, c, t.next)
<1>1. u \in State /\ u = VblankQueued(t, c, e, msc) /\ t.next \in Nat /\ 0 \in 0..NumCrtcs
  BY QueueVblankType, FieldTypes, SetupType
<1>2. q \in Entry /\ k \in Call /\ q.seq = t.next /\ k.seq = t.next /\ k.crtc = q.crtc
  BY <1>1 DEF NewEntry, NewCall, Entry, Call
<1> HIDE DEF u
<1>3. /\ u.next = t.next + 1 /\ u.queue = <<q>> \o t.queue /\ u.calls = <<k>> \o t.calls
      /\ KernelSame(u, t) /\ MscsSame(u, t)
  BY <1>1 DEF VblankQueued, State, KernelSame, MscsSame, SeenSame
<1> HIDE DEF q, k
<1>4. Tallied(u)
  BY <1>1, <1>2, <1>3, CalledTallied
<1> QED BY <1>4 DEF u

(* A CRTC is asked to flip. *)
LEMMA CrtcStartedTallied ==
  ASSUME Living, NEW t \in State, NEW kind \in {"flip", "unflip"}, NEW e \in Events,
         NEW ref \in 0..NumCrtcs, NEW c \in Crtcs, Tallied(t)
  PROVE  Tallied(CrtcStarted(t, kind, e, ref, c))
<1> DEFINE u == CrtcStarted(t, kind, e, ref, c)
           q == NewEntry(t, c, e, TRUE, c = ref)
           k == NewCall(kind, e, ref, c, t.next)
           d == Held(t, e, t.data[e].refs + 1)
<1>1. u \in State /\ t.next \in Nat
  BY StartCrtcType, FieldTypes
<1>2. q \in Entry /\ k \in Call /\ q.seq = t.next /\ k.seq = t.next /\ k.crtc = q.crtc
  BY <1>1 DEF NewEntry, NewCall, Entry, Call
<1>3. \A f \in Events : d[f].msc = t.data[f].msc /\ d[f].true = t.data[f].true
  <2>1. t.data \in [Events -> Data]
    BY FieldTypes
  <2> QED BY <2>1 DEF Held, Data
<1> HIDE DEF d
<1>4. /\ u.next = t.next + 1 /\ u.queue = <<q>> \o t.queue /\ u.calls = <<k>> \o t.calls
      /\ u.data = d /\ KernelSame(u, t) /\ SeenSame(u, t) /\ u.answer = t.answer
  BY DEF CrtcStarted, State, KernelSame, SeenSame, d
<1>5. MscsSame(u, t)
  BY <1>3, <1>4 DEF MscsSame
<1> HIDE DEF u, q, k
<1>6. Tallied(u)
  BY <1>1, <1>2, <1>4, <1>5, CalledTallied
<1> QED BY <1>6 DEF u

(* A flip begins. *)
LEMMA BegunTallied ==
  ASSUME Living, NEW t \in State, NEW kind \in {"flip", "unflip"}, NEW e \in Events, Tallied(t)
  PROVE  Tallied(Begun(t, kind, e))
<1> DEFINE u == Begun(t, kind, e)
           d == [t.data EXCEPT ![e] = [refs |-> 1, old |-> t.fb, msc |-> 0, true |-> 0]]
<1>1. u \in State
  BY BegunType
<1>2. /\ KernelSame(u, t) /\ ListsSame(u, t) /\ SeenSame(u, t) /\ u.answer = t.answer /\ u.data = d
  BY DEF Begun, State, KernelSame, ListsSame, SeenSame
<1> HIDE DEF u
<1>3. HandsOn(u, t) /\ CountsSame(u, t)
  BY <1>2 DEF HandsOn, CountsSame, Holds, KernelSame, ListsSame, SeenSame
<1>4. 0 = Rem(0, Long)
  BY Widths DEF Rem
<1>5. Exact(u)
  <2>1. \A f \in Events : u.data[f].msc = Rem(u.data[f].true, Long)
    <3>1. t.data \in [Events -> Data]
      BY FieldTypes
    <3> QED BY <1>2, <1>4, <3>1 DEF Tallied, Exact
  <2> QED BY <1>2, <2>1 DEF Tallied, Exact, Kept, SeenSame
<1>6. Tallied(u)
  BY <1>1, <1>3, <1>5, PairedLess, CloseSame DEF Tallied
<1> QED BY <1>6 DEF u

(* A call comes back. *)
LEMMA PopKeeps ==
  ASSUME Living, NEW t \in State, Busy(t), NEW u, u = Pop(t)
  PROVE  /\ u \in State /\ On(t.calls) = {Top(t)} \cup On(u.calls)
         /\ KernelSame(u, t) /\ SeenSame(u, t) /\ BuffersSame(u, t) /\ ToldSame(u, t)
         /\ u.next = t.next /\ u.queue = t.queue /\ u.data = t.data /\ u.asked = t.asked
         /\ u.answer = t.answer
<1>1. u \in State
  BY TopType
<1> DEFINE k == Tail(t.calls)
<1>2. On(t.calls) = {Head(t.calls)} \cup On(k)
  <2>1. t.calls \in Seq(Call) /\ t.calls # <<>>
    BY FieldTypes DEF Busy
  <2> QED BY <2>1, Popped
<1>3. u = [t EXCEPT !.calls = k]
  BY DEF Pop, State
<1> HIDE DEF k
<1>4. u.calls = k
  BY <1>3 DEF State
<1> QED BY <1>1, <1>2, <1>3, <1>4
        DEF State, KernelSame, SeenSame, BuffersSame, ToldSame, Top

(* The number of a call that comes back is let go. *)
LEMMA PopTallied ==
  ASSUME Living, NEW t \in State, Busy(t), Tallied(t)
  PROVE  Tallied(Pop(t))
<1> DEFINE u == Pop(t)
<1>1. /\ u \in State /\ On(t.calls) = {Top(t)} \cup On(u.calls)
      /\ KernelSame(u, t) /\ SeenSame(u, t)
      /\ u.next = t.next /\ u.queue = t.queue /\ u.data = t.data /\ u.answer = t.answer
  BY PopKeeps
<1> HIDE DEF u
<1>2. HandsOn(u, t)
  BY <1>1 DEF HandsOn, Holds, KernelSame
<1>3. CountsSame(u, t) /\ MscsSame(u, t)
  BY <1>1 DEF CountsSame, MscsSame, KernelSame, SeenSame
<1>4. Tallied(u)
  BY <1>1, <1>2, <1>3, TalliedSame
<1> QED BY <1>4 DEF u

(* An entry is aborted. *)
LEMMA AbortOneKeeps ==
  ASSUME Living, NEW t \in State, NEW i \in 1..Len(t.queue), NEW u, u = AbortOne(t, i)
  PROVE  /\ u \in State /\ u.queue = RemoveAt(t.queue, i)
         /\ KernelSame(u, t) /\ SeenSame(u, t) /\ BuffersSame(u, t) /\ ToldSame(u, t)
         /\ u.next = t.next /\ u.calls = t.calls /\ u.asked = t.asked /\ u.answer = t.answer
         /\ u.data = IF t.queue[i].flip
                     THEN Held(t, t.queue[i].event, t.data[t.queue[i].event].refs - 1)
                     ELSE t.data
<1> DEFINE r == RemoveAt(t.queue, i)
           w == [t EXCEPT !.queue = RemoveAt(@, i)]
           q == t.queue[i]
           y == PageflipFree(w, q.event)
<1>1. w \in State /\ q \in Entry /\ q.event \in Events
  BY EntryType
<1>2. w = [t EXCEPT !.queue = r]
  BY DEF State
<1>3. u = IF q.flip THEN y ELSE w
  BY DEF AbortOne
<1> HIDE DEF w, r
<1>4. /\ KernelSame(w, t) /\ SeenSame(w, t) /\ BuffersSame(w, t) /\ ToldSame(w, t)
      /\ w.next = t.next /\ w.calls = t.calls /\ w.asked = t.asked /\ w.answer = t.answer
      /\ w.data = t.data /\ w.queue = r
  BY <1>2 DEF State, KernelSame, SeenSame, BuffersSame, ToldSame
<1>5. /\ y \in State /\ KernelSame(y, w) /\ SeenSame(y, w) /\ ListsSame(y, w) /\ BuffersSame(y, w)
      /\ ToldSame(y, w) /\ y.asked = w.asked /\ y.answer = w.answer
      /\ y.data = Held(w, q.event, w.data[q.event].refs - 1)
  BY <1>1, PageflipFreeType, PageflipFreeKeeps
<1>6. Held(w, q.event, w.data[q.event].refs - 1) = Held(t, q.event, t.data[q.event].refs - 1)
  BY <1>4 DEF Held
<1> HIDE DEF y, q
<1>7. CASE q.flip
  BY <1>3, <1>4, <1>5, <1>6, <1>7
     DEF KernelSame, SeenSame, ListsSame, BuffersSame, ToldSame, r, q
<1>8. CASE ~q.flip
  BY <1>1, <1>3, <1>4, <1>8 DEF r, q
<1> QED BY <1>7, <1>8

(* So is that of an entry aborted, *)
LEMMA AbortOneTallied ==
  ASSUME Living, NEW t \in State, NEW i \in 1..Len(t.queue), Tallied(t)
  PROVE  Tallied(AbortOne(t, i))
<1> DEFINE u == AbortOne(t, i)
           q == t.queue[i]
           d == Held(t, q.event, t.data[q.event].refs - 1)
<1>1. /\ u \in State /\ u.queue = RemoveAt(t.queue, i)
      /\ KernelSame(u, t) /\ SeenSame(u, t)
      /\ u.next = t.next /\ u.calls = t.calls /\ u.answer = t.answer
      /\ u.data = IF q.flip THEN d ELSE t.data
  <2> DEFINE w == u
  <2>1. w = AbortOne(t, i)
    OBVIOUS
  <2> HIDE DEF w
  <2>2. /\ w \in State /\ w.queue = RemoveAt(t.queue, i)
        /\ KernelSame(w, t) /\ SeenSame(w, t)
        /\ w.next = t.next /\ w.calls = t.calls /\ w.answer = t.answer
        /\ w.data = IF q.flip THEN d ELSE t.data
    BY <2>1, AbortOneKeeps
  <2> QED BY <2>2 DEF w
<1> HIDE DEF u
<1>2. On(u.queue) \subseteq On(t.queue)
  <2>1. t.queue \in Seq(Entry)
    BY FieldTypes
  <2>2. On(RemoveAt(t.queue, i)) = {t.queue[j] : j \in (1..Len(t.queue)) \ {i}}
    BY <2>1, CutOut
  <2>3. {t.queue[j] : j \in (1..Len(t.queue)) \ {i}} \subseteq On(t.queue)
    BY DEF On
  <2> QED BY <1>1, <2>2, <2>3
<1>3. HandsOn(u, t)
  BY <1>1, <1>2 DEF HandsOn, Holds, KernelSame
<1>4. \A f \in Events : d[f].msc = t.data[f].msc /\ d[f].true = t.data[f].true
  <2>1. t.data \in [Events -> Data]
    BY FieldTypes
  <2> QED BY <2>1 DEF Held, Data
<1> HIDE DEF d, q
<1>5. CountsSame(u, t) /\ MscsSame(u, t)
  BY <1>1, <1>4 DEF CountsSame, MscsSame, KernelSame, SeenSame
<1>6. Tallied(u)
  BY <1>1, <1>3, <1>5, TalliedSame
<1> QED BY <1>6 DEF u

(* by its number, *)
LEMMA AbortSeqTallied ==
  ASSUME Living, NEW t \in State, NEW seq, Tallied(t)
  PROVE  Tallied(AbortSeq(t, seq))
<1> DEFINE at == {i \in DOMAIN t.queue : t.queue[i].seq = seq}
           i == CHOOSE i \in at : TRUE
<1>1. DOMAIN t.queue = 1..Len(t.queue)
  BY FieldTypes, LenProperties
<1>2. at # {} => i \in 1..Len(t.queue)
  BY <1>1
<1>3. AbortSeq(t, seq) = IF at = {} THEN t ELSE AbortOne(t, i)
  BY DEF AbortSeq
<1> HIDE DEF at, i
<1> QED BY <1>2, <1>3, AbortOneTallied

(* or by what Present gave. *)
LEMMA AbortMatchTallied ==
  ASSUME Living, NEW t \in State, NEW e, Tallied(t)
  PROVE  Tallied(AbortMatch(t, e))
<1> DEFINE at == {i \in DOMAIN t.queue : Matches(t.queue[i], e)}
           i == CHOOSE i \in at : \A j \in at : i <= j
<1>1. DOMAIN t.queue = 1..Len(t.queue) /\ Len(t.queue) \in Nat
  BY FieldTypes, LenProperties
<1>2. at # {} => i \in 1..Len(t.queue)
  <2>1. at \in SUBSET (1..Len(t.queue))
    BY <1>1
  <2>2. at # {} => \E j \in at : \A k \in at : j <= k
    BY <1>1, <2>1, FirstPlace
  <2> QED BY <2>1, <2>2
<1>3. AbortMatch(t, e) = IF at = {} THEN t ELSE AbortOne(t, i)
  BY DEF AbortMatch
<1> HIDE DEF at, i
<1> QED BY <1>2, <1>3, AbortOneTallied

(* The kernel takes what it is asked for: the call's number is handed on.     *)
LEMMA TopHolds ==
  ASSUME Living, NEW t \in State, Busy(t)
  PROVE  Holds(t, Top(t).seq, Top(t).crtc)
<1>1. Top(t) \in On(t.calls)
  <2>1. t.calls \in Seq(Call) /\ t.calls # <<>>
    BY FieldTypes DEF Busy
  <2> QED BY <2>1, Popped DEF Top
<1> QED BY <1>1 DEF Holds

AskedOfKernel(t, c, msc, seq) ==
  [crtc |-> c, msc |-> IF t.hasSeq THEN msc ELSE msc % Word, seq |-> seq]

SentNow(t, c, seq) == Sent(c, seq, t.count[c], t.hasSeq)

TakenAsEvent(u, t, c, msc, seq) ==
  /\ u.requests = t.requests /\ On(u.events) = On(t.events) \cup {SentNow(t, c, seq)}
  /\ HasPassed(t, AskedOfKernel(t, c, msc, seq), t.count[c])
TakenAsRequest(u, t, c, msc, seq) ==
  u.events = t.events /\ u.requests = t.requests \cup {AskedOfKernel(t, c, msc, seq)}

(* The kernel sends an event at once, or keeps the request. *)
LEMMA KernelAskedKeeps ==
  ASSUME Living, NEW t \in State, NEW c \in Crtcs, NEW msc \in Nat, NEW seq \in Nat,
         NEW u, u = KernelAsked(t, c, msc, seq)
  PROVE  /\ u \in State /\ u.count = t.count /\ u.flips = t.flips /\ u.shows = t.shows
         /\ u.hasSeq = t.hasSeq /\ SeenSame(u, t) /\ BuffersSame(u, t) /\ ToldSame(u, t)
         /\ ListsSame(u, t) /\ u.data = t.data /\ u.asked = t.asked /\ u.answer = t.answer
         /\ TakenAsEvent(u, t, c, msc, seq) \/ TakenAsRequest(u, t, c, msc, seq)
<1> DEFINE r == AskedOfKernel(t, c, msc, seq)
           v == SentNow(t, c, seq)
           es == Append(t.events, v)
           R == t.requests \cup {r}
<1>1. t.count[c] \in Nat /\ t.hasSeq \in BOOLEAN /\ u \in State
  BY FieldTypes, KernelAskedType
<1>2. On(es) = On(t.events) \cup {v}
  <2>1. v \in EventRecord
    BY <1>1 DEF SentNow, Sent, EventRecord
  <2> QED BY <2>1, EventAdded
<1>3. IF HasPassed(t, r, t.count[c]) THEN u = [t EXCEPT !.events = es] ELSE u = [t EXCEPT !.requests = R]
  BY DEF KernelAsked, State, AskedOfKernel, SentNow
<1> HIDE DEF es, R, r, v
<1>4. CASE HasPassed(t, r, t.count[c])
  <2>1. u = [t EXCEPT !.events = es]
    BY <1>3, <1>4
  <2>2. /\ u.count = t.count /\ u.flips = t.flips /\ u.shows = t.shows /\ u.hasSeq = t.hasSeq
        /\ SeenSame(u, t) /\ BuffersSame(u, t) /\ ToldSame(u, t) /\ ListsSame(u, t)
        /\ u.data = t.data /\ u.asked = t.asked /\ u.answer = t.answer
        /\ u.requests = t.requests /\ u.events = es
    BY <2>1 DEF State, SeenSame, BuffersSame, ToldSame, ListsSame
  <2> QED BY <1>1, <1>2, <1>4, <2>2 DEF r, v, TakenAsEvent
<1>5. CASE ~HasPassed(t, r, t.count[c])
  <2>1. u = [t EXCEPT !.requests = R]
    BY <1>3, <1>5
  <2>2. /\ u.count = t.count /\ u.flips = t.flips /\ u.shows = t.shows /\ u.hasSeq = t.hasSeq
        /\ SeenSame(u, t) /\ BuffersSame(u, t) /\ ToldSame(u, t) /\ ListsSame(u, t)
        /\ u.data = t.data /\ u.asked = t.asked /\ u.answer = t.answer
        /\ u.requests = R /\ u.events = t.events
    BY <2>1 DEF State, SeenSame, BuffersSame, ToldSame, ListsSame
  <2> QED BY <1>1, <2>2 DEF r, R, TakenAsRequest
<1> QED BY <1>4, <1>5

(* Either takes over the number of the call. *)
LEMMA KernelAskedTallied ==
  ASSUME Living, NEW t \in State, NEW c \in Crtcs, NEW msc \in Nat, NEW seq \in Nat, Tallied(t),
         Holds(t, seq, c)
  PROVE  Tallied(KernelAsked(t, c, msc, seq))
<1> DEFINE u == KernelAsked(t, c, msc, seq)
           r == AskedOfKernel(t, c, msc, seq)
           v == SentNow(t, c, seq)
<1>1. /\ u \in State /\ u.count = t.count /\ u.flips = t.flips /\ SeenSame(u, t) /\ ListsSame(u, t)
      /\ u.data = t.data /\ u.answer = t.answer
      /\ \/ u.requests = t.requests /\ On(u.events) = On(t.events) \cup {v}
         \/ u.events = t.events /\ u.requests = t.requests \cup {r}
  <2> DEFINE w == u
  <2>1. w = KernelAsked(t, c, msc, seq)
    OBVIOUS
  <2> HIDE DEF w
  <2>2. /\ w \in State /\ w.count = t.count /\ w.flips = t.flips /\ SeenSame(w, t) /\ ListsSame(w, t)
        /\ w.data = t.data /\ w.answer = t.answer
        /\ TakenAsEvent(w, t, c, msc, seq) \/ TakenAsRequest(w, t, c, msc, seq)
    BY <2>1, KernelAskedKeeps
  <2> QED BY <2>2 DEF w, TakenAsEvent, TakenAsRequest
<1>2. r.crtc = c /\ r.seq = seq /\ v.crtc = c /\ v.seq = seq /\ v.count = t.count[c]
  BY DEF Sent, SentNow, AskedOfKernel
<1> HIDE DEF u, r, v
<1>3. HandsOn(u, t)
  BY <1>1, <1>2 DEF HandsOn, Holds, ListsSame
<1>4. Close(u)
  <2>1. t.count \in [Crtcs -> Nat] /\ MaxUnseen \in Nat
    BY Widths, FieldTypes
  <2> QED BY <1>1, <1>2, <2>1 DEF Tallied, Close, SeenSame
<1>5. MscsSame(u, t)
  BY <1>1 DEF MscsSame
<1>6. Tallied(u)
  BY <1>1, <1>3, <1>4, <1>5, PairedLess, ExactSame DEF Tallied
<1> QED BY <1>6 DEF u

(* The kernel takes a request for a vblank. *)
LEMMA VblankAcceptedTallied ==
  ASSUME Living, NEW t \in State, Busy(t), Tallied(t)
  PROVE  Tallied(VblankAccepted(t))
<1> DEFINE k == Top(t)
           m == t.asked[k.event].msc
           u == KernelAsked(t, k.crtc, m, k.seq)
<1>1. k.event \in Events /\ k.crtc \in Crtcs /\ k.seq \in Nat
  BY TopType
<1>2. m \in Nat
  <2>1. t.asked[k.event] \in Asked
    BY <1>1, FieldTypes
  <2> QED BY <2>1 DEF Asked
<1>3. Holds(t, k.seq, k.crtc)
  BY TopHolds
<1>4. VblankAccepted(t) = Pop(u)
  BY DEF VblankAccepted
<1> HIDE DEF m, k
<1>5. Tallied(u)
  BY <1>1, <1>2, <1>3, KernelAskedTallied
<1>6. u \in State /\ u.calls = t.calls
  <2> DEFINE w == u
  <2>1. w = KernelAsked(t, k.crtc, m, k.seq)
    OBVIOUS
  <2> HIDE DEF w
  <2>2. w \in State /\ ListsSame(w, t)
    BY <1>1, <1>2, <2>1, KernelAskedKeeps
  <2> QED BY <2>2 DEF ListsSame, w
<1> HIDE DEF u
<1> QED BY <1>4, <1>5, <1>6, PopTallied DEF Busy

(* The flip takes over the number of the call. *)
LEMMA FlipTakenTallied ==
  ASSUME Living, NEW t \in State, Busy(t), Tallied(t)
  PROVE  Tallied(FlipTaken(t))
<1> DEFINE u == FlipTaken(t)
           k == Top(t)
           f == [t.flips EXCEPT ![k.crtc] = [seq |-> k.seq, fb |-> t.fb]]
<1>1. u \in State
  BY FlipTakenType
<1>2. /\ u.flips = f /\ u.calls = Tail(t.calls) /\ u.count = t.count /\ u.events = t.events
      /\ u.requests = t.requests /\ u.next = t.next /\ u.queue = t.queue
      /\ u.data = t.data /\ SeenSame(u, t) /\ u.answer = t.answer
  BY DEF FlipTaken, State, SeenSame
<1> HIDE DEF u
<1>3. On(u.calls) \subseteq On(t.calls)
  <2>1. t.calls \in Seq(Call) /\ t.calls # <<>>
    BY FieldTypes DEF Busy
  <2>2. On(t.calls) = {Head(t.calls)} \cup On(Tail(t.calls))
    BY <2>1, Popped
  <2> QED BY <1>2, <2>2
<1>4. Holds(t, k.seq, k.crtc)
  BY TopHolds
<1>5. HandsOn(u, t)
  <2>1. t.flips \in [Crtcs -> [seq : Nat, fb : Fbs]]
    BY FieldTypes
  <2> HIDE DEF k
  <2>2. \A c \in Crtcs : u.flips[c] = t.flips[c] \/ (c = k.crtc /\ u.flips[c].seq = k.seq)
    BY <1>2, <2>1
  <2> SUFFICES ASSUME NEW n \in Nat, NEW d \in Crtcs, Holds(u, n, d) PROVE Holds(t, n, d)
    BY <1>2 DEF HandsOn
  <2> QED BY <1>2, <1>3, <1>4, <2>2 DEF Holds
<1>6. CountsSame(u, t) /\ MscsSame(u, t)
  BY <1>2 DEF CountsSame, MscsSame, SeenSame
<1>7. Tallied(u)
  BY <1>1, <1>5, <1>6, TalliedSame
<1> QED BY <1>7 DEF u

(* References are not counters. *)
LEMMA PageflipFreeTallied ==
  ASSUME Living, NEW t \in State, NEW e \in Events, Tallied(t)
  PROVE  Tallied(PageflipFree(t, e))
<1> DEFINE u == PageflipFree(t, e)
           d == Held(t, e, t.data[e].refs - 1)
<1>1. /\ u \in State /\ KernelSame(u, t) /\ SeenSame(u, t) /\ ListsSame(u, t) /\ u.answer = t.answer
      /\ u.data = d
  BY PageflipFreeType, PageflipFreeKeeps
<1>2. \A f \in Events : d[f].msc = t.data[f].msc /\ d[f].true = t.data[f].true
  <2>1. t.data \in [Events -> Data]
    BY FieldTypes
  <2> QED BY <2>1 DEF Held, Data
<1> HIDE DEF u, d
<1>3. HandsOn(u, t)
  BY <1>1 DEF HandsOn, Holds, ListsSame, KernelSame
<1>4. CountsSame(u, t) /\ MscsSame(u, t)
  BY <1>1, <1>2 DEF CountsSame, MscsSame, SeenSame, KernelSame
<1>5. Tallied(u)
  BY <1>1, <1>3, <1>4, TalliedSame
<1> QED BY <1>5 DEF u

(* The kernel takes the flip of a CRTC. *)
LEMMA FlipAcceptedTallied ==
  ASSUME Living, NEW t \in State, Busy(t), Top(t).kind # "vblank", Tallied(t)
  PROVE  Tallied(FlipAccepted(t))
<1> DEFINE k == Top(t)
           u == FlipTaken(t)
<1>1. u \in State /\ Tallied(u)
  BY FlipTakenType, FlipTakenTallied
<1>2. /\ k.event \in Events /\ k.crtc \in Crtcs /\ k.ref \in 0..NumCrtcs
      /\ k.kind \in {"flip", "unflip"}
  BY TopType
<1>3. /\ k.crtc < NumCrtcs =>
           k.crtc + 1 \in Crtcs /\ FlipAccepted(t) = CrtcStarted(u, k.kind, k.event, k.ref, k.crtc + 1)
      /\ ~ (k.crtc < NumCrtcs) => FlipAccepted(t) = PageflipFree(u, k.event)
  BY FlipAcceptedType
<1> HIDE DEF k, u
<1> QED BY <1>1, <1>2, <1>3, CrtcStartedTallied, PageflipFreeTallied

(* A change of life or of the framebuffers touches no counter. *)
LEMMA LifeTallied ==
  ASSUME NEW t \in State, NEW u \in State, Tallied(t), KernelSame(u, t), SeenSame(u, t),
         ListsSame(u, t), u.data = t.data, u.answer = t.answer
  PROVE  Tallied(u)
<1>1. HandsOn(u, t) /\ CountsSame(u, t) /\ MscsSame(u, t)
  BY DEF HandsOn, Holds, CountsSame, MscsSame, KernelSame, SeenSame, ListsSame
<1> QED BY <1>1, TalliedSame

(* Setting the modes sends events with the counts of now. *)
LEMMA ModesSetTallied ==
  ASSUME Living, NEW t \in State, NEW e \in Events, Tallied(t)
  PROVE  Tallied(ModesSet(t, e))
<1> DEFINE u == ModesSet(t, e)
<1>1. u \in State /\ On(u.events) = On(t.events) \cup Late(t)
  BY SetModesType
<1>2. /\ u.flips = [c \in Crtcs |-> Nothing] /\ u.requests = t.requests
      /\ u.count = t.count /\ u.calls = t.calls /\ u.queue = t.queue /\ u.next = t.next
      /\ u.data = t.data /\ SeenSame(u, t) /\ u.answer = t.answer
  BY DEF ModesSet, State, SeenSame
<1> HIDE DEF u
<1>3. \A v \in Late(t) : \E c \in Crtcs :
        v.crtc = c /\ v.seq = t.flips[c].seq /\ v.count = t.count[c] /\ t.flips[c] # Nothing
  BY DEF Late, Sent
<1>4. HandsOn(u, t)
  <2> SUFFICES ASSUME NEW n \in Nat, NEW d \in Crtcs, Holds(u, n, d) PROVE Holds(t, n, d)
    BY <1>2 DEF HandsOn
  <2>1. CASE \E v \in Late(t) : v.seq = n /\ v.crtc = d
    BY <1>3, <2>1 DEF Holds
  <2>2. CASE ~ \E v \in Late(t) : v.seq = n /\ v.crtc = d
    BY <1>1, <1>2, <2>2 DEF Holds
  <2> QED BY <2>1, <2>2
<1>5. Close(u)
  <2>1. t.count \in [Crtcs -> Nat] /\ MaxUnseen \in Nat
    BY Widths, FieldTypes
  <2>2. \A v \in Late(t) : v.count <= u.count[v.crtc] /\ u.count[v.crtc] - v.count <= MaxUnseen
    BY <1>2, <1>3, <2>1
  <2> QED BY <1>1, <1>2, <2>2 DEF Tallied, Close, SeenSame
<1>6. MscsSame(u, t)
  BY <1>2 DEF MscsSame
<1>7. Tallied(u)
  BY <1>1, <1>4, <1>5, <1>6, PairedLess, ExactSame DEF Tallied
<1> QED BY <1>7 DEF u

(* Telling Present changes no counter. *)
LEMMA TellTallied ==
  ASSUME NEW t \in State, NEW e \in Events, Tallied(t)
  PROVE  Tallied(Tell(t, e))
<1> DEFINE u == Tell(t, e)
<1>1. /\ u \in State /\ KernelSame(u, t) /\ SeenSame(u, t) /\ ListsSame(u, t)
      /\ u.data = t.data /\ u.answer = t.answer
  BY TellType, TellKeeps
<1> HIDE DEF u
<1>2. Tallied(u)
  BY <1>1, LifeTallied
<1> QED BY <1>2 DEF u

(* Present is told that it flipped back. *)
LEMMA SetModesTallied ==
  ASSUME Living, NEW t \in State, NEW e \in Events, Tallied(t)
  PROVE  Tallied(SetModes(t, e))
BY ModesSetTallied, SetModesType, TellTallied

(* The kernel refuses to bring a vblank's event. *)
LEMMA VblankRefusedTallied ==
  ASSUME Living, NEW t \in State, Busy(t), Tallied(t)
  PROVE  Tallied(VblankRefused(t))
<1> DEFINE u == AbortSeq(t, Top(t).seq)
           v == Pop(u)
           w == VblankRefused(t)
           l == [v.life EXCEPT ![Top(t).event] = "refused"]
<1>1. u \in State /\ u.calls = t.calls /\ Tallied(u) /\ w \in State
  BY AbortSeqType, AbortSeqCalls, AbortSeqTallied, VblankRefusedType
<1>2. w = [v EXCEPT !.life = l]
  BY DEF VblankRefused
<1> HIDE DEF u, w
<1>3. v \in State /\ Tallied(v)
  BY <1>1, TopType, PopTallied DEF Busy
<1> HIDE DEF v, l
<1>4. /\ KernelSame(w, v) /\ SeenSame(w, v) /\ ListsSame(w, v) /\ w.data = v.data
      /\ w.answer = v.answer
  BY <1>2, <1>3 DEF State, KernelSame, SeenSame, ListsSame
<1>5. Tallied(w)
  BY <1>1, <1>3, <1>4, LifeTallied
<1> QED BY <1>5 DEF w

(* Framebuffers are not counters. *)
LEMMA FlipUndoneTallied ==
  ASSUME NEW t \in State, NEW e \in Events, Tallied(t), FlipUndone(t, e) \in State
  PROVE  Tallied(FlipUndone(t, e))
<1> DEFINE u == FlipUndone(t, e)
<1>1. KernelSame(u, t) /\ SeenSame(u, t) /\ ListsSame(u, t) /\ u.data = t.data /\ u.answer = t.answer
  BY DEF FlipUndone, RemoveFb, State, KernelSame, SeenSame, ListsSame
<1> HIDE DEF u
<1>2. u \in State
  BY DEF u
<1>3. Tallied(u)
  BY <1>1, <1>2, LifeTallied
<1> QED BY <1>3 DEF u

(* The kernel refuses the flip of a CRTC. *)
LEMMA FlipRefusedTallied ==
  ASSUME Living, NEW t \in State, Busy(t), Tallied(t)
  PROVE  Tallied(FlipRefused(t))
<1> DEFINE e == Top(t).event
           p == Pop(t)
           u == AbortSeq(p, Top(t).seq)
           v == FlipUndone(u, e)
           w == PageflipFree(v, e)
           x == FlipRefused(t)
           l == [w.life EXCEPT ![e] = "refused"]
<1>1. /\ e \in Events /\ p \in State /\ Tallied(p) /\ u \in State /\ v \in State /\ x \in State
  BY TopType, PopTallied, FlipRefusedType
<1>2. x = IF Top(t).kind = "unflip" THEN SetModes(w, e) ELSE [w EXCEPT !.life = l]
  BY DEF FlipRefused, FlipUndone
<1>3. Tallied(u)
  <2> HIDE DEF p
  <2> QED BY <1>1, AbortSeqTallied
<1>4. Tallied(v)
  <2> HIDE DEF u, e
  <2> QED BY <1>1, <1>3, FlipUndoneTallied
<1> HIDE DEF v, e
<1>5. w \in State /\ Tallied(w)
  BY <1>1, <1>4, PageflipFreeType, PageflipFreeTallied
<1> HIDE DEF w, x
<1>6. CASE Top(t).kind = "unflip"
  BY <1>1, <1>2, <1>5, <1>6, SetModesTallied DEF x
<1>7. CASE Top(t).kind # "unflip"
  <2>1. x = [w EXCEPT !.life = l]
    BY <1>2, <1>7
  <2> HIDE DEF l
  <2>2. /\ KernelSame(x, w) /\ SeenSame(x, w) /\ ListsSame(x, w) /\ x.data = w.data
        /\ x.answer = w.answer
    BY <1>5, <2>1 DEF State, KernelSame, SeenSame, ListsSame
  <2>3. Tallied(x)
    BY <1>1, <1>5, <2>2, LifeTallied
  <2> QED BY <2>3 DEF x
<1> QED BY <1>6, <1>7

(* An event is read: its count is that of the CRTC of the entry it is for.    *)
LEMMA SequenceHandlerTallied ==
  ASSUME Living, CloseCounters, NEW t \in State, NEW v \in EventRecord, Tallied(t),
         v.count <= t.count[v.crtc], t.count[v.crtc] - v.count <= MaxUnseen,
         \A q \in On(t.queue) : q.seq = v.seq => q.crtc = v.crtc,
         NEW u, u = SequenceHandler(t, v)
  PROVE  u \in State /\ Tallied(u)
<1>1. /\ u \in State
      /\ \/ u = t /\ \A i \in 1..Len(t.queue) : t.queue[i].seq # v.seq
         \/ \E i \in 1..Len(t.queue) :
              /\ t.queue[i].seq = v.seq /\ u.queue = RemoveAt(t.queue, i)
              /\ Handled(u, t, t.queue[i], v)
  BY SequenceHandlerDoes
<1>2. CASE u = t
  BY <1>1, <1>2
<1>3. CASE \E i \in 1..Len(t.queue) :
             /\ t.queue[i].seq = v.seq /\ u.queue = RemoveAt(t.queue, i)
             /\ Handled(u, t, t.queue[i], v)
  <2>1. PICK i \in 1..Len(t.queue) :
          /\ t.queue[i].seq = v.seq /\ u.queue = RemoveAt(t.queue, i)
          /\ Handled(u, t, t.queue[i], v)
    BY <1>3
  <2> DEFINE q == t.queue[i]
             w == Counted(t, q, v)
  <2>2. q \in Entry /\ q.crtc \in Crtcs /\ q.event \in Events /\ q.flip \in BOOLEAN
    BY EntryType
  <2>3. q \in On(t.queue) /\ q.crtc = v.crtc
    BY <2>1 DEF On
  <2>4. v.count \in Nat /\ v.wide \in BOOLEAN
    BY DEF EventRecord
  <2>5. On(u.queue) \subseteq On(t.queue)
    <3>1. t.queue \in Seq(Entry)
      BY FieldTypes
    <3>2. On(RemoveAt(t.queue, i)) = {t.queue[j] : j \in (1..Len(t.queue)) \ {i}}
      BY <3>1, CutOut
    <3>3. {t.queue[j] : j \in (1..Len(t.queue)) \ {i}} \subseteq On(t.queue)
      BY DEF On
    <3> QED BY <2>1, <3>2, <3>3
  <2>6. Handled(u, t, q, v)
    BY <2>1
  <2> HIDE DEF q
  <2>7. w \in State /\ Close(w) /\ Exact(w) /\ Converted(w, q.crtc) = Rem(v.count, Long)
    <3>1. w = Convert(t, q.crtc, v.count, v.wide)
      BY DEF Counted
    <3> HIDE DEF w
    <3> QED BY <2>2, <2>3, <2>4, <3>1, ConvertTallied DEF Tallied
  <2>8. /\ KernelSame(w, t) /\ w.data = t.data /\ w.answer = t.answer
    <3>1. w = Convert(t, q.crtc, v.count, v.wide)
      BY DEF Counted
    <3> HIDE DEF w
    <3> QED BY <3>1, ConvertKeeps
  <2>9. KernelSame(u, t) /\ u.next = t.next /\ u.calls = t.calls /\ SeenSame(u, w)
    BY <2>6 DEF Handled, Same
  <2>10. HandsOn(u, t)
    BY <2>5, <2>9 DEF HandsOn, Holds, KernelSame
  <2>11. Close(u)
    <3> HIDE DEF w
    <3> QED BY <2>7, <2>8, <2>9 DEF Close, KernelSame, SeenSame
  <2>12. \A e \in Events : u.data[e].msc = Rem(u.data[e].true, Long)
    <3> SUFFICES ASSUME NEW e \in Events PROVE u.data[e].msc = Rem(u.data[e].true, Long)
      OBVIOUS
    <3>1. t.data[e].msc = Rem(t.data[e].true, Long)
      BY DEF Tallied, Exact
    <3>2. CASE ~q.flip
      BY <2>6, <3>1, <3>2 DEF Handled, VblankTold
    <3>3. CASE q.flip
      <4>1. IF e = q.event /\ q.ref
            THEN u.data[e].msc = Converted(w, q.crtc) /\ u.data[e].true = v.count
            ELSE u.data[e].msc = t.data[e].msc /\ u.data[e].true = t.data[e].true
        BY <2>6, <3>3 DEF Handled, DataAfter, DataBy
      <4> HIDE DEF w
      <4> QED BY <2>7, <3>1, <4>1
    <3> QED BY <3>2, <3>3
  <2>13. u.answer.given = Rem(u.answer.true, Long)
    <3>1. t.answer.given = Rem(t.answer.true, Long)
      BY DEF Tallied, Exact
    <3>2. CASE ~q.flip
      <4>1. u.answer = [given |-> Converted(w, q.crtc), true |-> v.count]
        BY <2>6, <3>2 DEF Handled, VblankTold
      <4> HIDE DEF w
      <4> QED BY <2>7, <4>1
    <3>3. CASE q.flip
      <4>1. \/ u.answer = t.answer
            \/ u.answer = [given |-> u.data[q.event].msc, true |-> u.data[q.event].true]
        BY <2>6, <3>3 DEF Handled, FlipEvent, LastFlipEvent
      <4> QED BY <2>2, <2>12, <3>1, <4>1
    <3> QED BY <3>2, <3>3
  <2>14. Exact(u)
    <3> HIDE DEF w
    <3> QED BY <2>7, <2>9, <2>12, <2>13 DEF Exact, Kept, SeenSame
  <2>15. Paired(u)
    BY <1>1, <2>10, PairedLess DEF Tallied
  <2> QED BY <1>1, <2>11, <2>14, <2>15 DEF Tallied
<1> QED BY <1>1, <1>2, <1>3

(* Reading an event takes it off the list, and no more. *)
LEMMA TakenKeeps ==
  ASSUME NEW t \in State, NEW u, u = Taken(t)
  PROVE  /\ u.count = t.count /\ u.requests = t.requests /\ u.flips = t.flips /\ u.shows = t.shows
         /\ u.hasSeq = t.hasSeq /\ SeenSame(u, t) /\ ListsSame(u, t) /\ BuffersSame(u, t)
         /\ ToldSame(u, t) /\ u.data = t.data /\ u.asked = t.asked /\ u.answer = t.answer
BY DEF Taken, State, SeenSame, ListsSame, BuffersSame, ToldSame

(* The driver reads an event. *)
LEMMA ReadEventTallied ==
  ASSUME Living, CloseCounters, NEW t \in State, t.events # <<>>, Tallied(t)
  PROVE  Tallied(ReadEvent(t))
<1> DEFINE v == Head(t.events)
           w == Taken(t)
           u == ReadEvent(t)
<1>1. /\ w \in State /\ v \in EventRecord /\ v \in On(t.events)
      /\ On(t.events) = {v} \cup On(w.events)
  BY TakenType
<1>2. u = SequenceHandler(w, v)
  BY DEF ReadEvent, Taken
<1>3. /\ w.count = t.count /\ w.requests = t.requests /\ w.flips = t.flips
      /\ SeenSame(w, t) /\ ListsSame(w, t) /\ w.data = t.data /\ w.answer = t.answer
  <2> DEFINE x == w
  <2>1. x = Taken(t)
    OBVIOUS
  <2> HIDE DEF x
  <2>2. /\ x.count = t.count /\ x.requests = t.requests /\ x.flips = t.flips
        /\ SeenSame(x, t) /\ ListsSame(x, t) /\ x.data = t.data /\ x.answer = t.answer
    BY <2>1, TakenKeeps
  <2> QED BY <2>2 DEF x
<1> HIDE DEF v, w, u
<1>4. HandsOn(w, t)
  BY <1>1, <1>3 DEF HandsOn, Holds, ListsSame
<1>5. CountsSame(w, t) /\ MscsSame(w, t)
  BY <1>1, <1>3 DEF CountsSame, MscsSame, SeenSame
<1>6. Tallied(w)
  BY <1>1, <1>4, <1>5, TalliedSame
<1>7. v.count <= w.count[v.crtc] /\ w.count[v.crtc] - v.count <= MaxUnseen
  BY <1>1, <1>3 DEF Tallied, Close
<1>8. \A q \in On(w.queue) : q.seq = v.seq => q.crtc = v.crtc
  <2>1. v.seq \in Nat /\ v.crtc \in Crtcs
    BY <1>1 DEF EventRecord
  <2>2. Holds(t, v.seq, v.crtc)
    BY <1>1 DEF Holds
  <2> QED BY <1>3, <2>1, <2>2 DEF Tallied, Paired, ListsSame
<1>9. Tallied(u)
  BY <1>1, <1>2, <1>6, <1>7, <1>8, SequenceHandlerTallied
<1> QED BY <1>9 DEF u

(* Reading an event leaves the calls alone. *)
LEMMA ReadEventCalls ==
  ASSUME Living, NEW t \in State, t.events # <<>>
  PROVE  ReadEvent(t).calls = t.calls
<1> DEFINE v == Head(t.events)
           w == Taken(t)
           u == ReadEvent(t)
<1>1. w \in State /\ v \in EventRecord /\ w.calls = t.calls
  BY TakenType DEF Taken, State
<1>2. u = SequenceHandler(w, v)
  BY DEF ReadEvent, Taken
<1> HIDE DEF u, v, w
<1>3. u = w \/ \E i \in 1..Len(w.queue) : Handled(u, w, w.queue[i], v)
  BY <1>1, <1>2, SequenceHandlerDoes
<1>4. u.calls = w.calls
  BY <1>3 DEF Handled, Same
<1> QED BY <1>1, <1>4 DEF u

(* Flushing only notes on the call that Present may call again.               *)
CallsSame(u, t) ==
  /\ Len(u.calls) = Len(t.calls)
  /\ \A i \in 1..Len(t.calls) :
       /\ u.calls[i].kind = t.calls[i].kind /\ u.calls[i].event = t.calls[i].event
       /\ u.calls[i].ref = t.calls[i].ref /\ u.calls[i].seq = t.calls[i].seq
       /\ u.calls[i].crtc = t.calls[i].crtc

(* Flushing is reading an event, and that note. *)
LEMMA FlushKeeps ==
  ASSUME Living, NEW t \in State, t.events # <<>>, Busy(t), NEW u, u = Flush(t)
  PROVE  /\ u \in State /\ ReadEvent(t) \in State
         /\ KernelSame(u, ReadEvent(t)) /\ SeenSame(u, ReadEvent(t))
         /\ BuffersSame(u, ReadEvent(t)) /\ ToldSame(u, ReadEvent(t))
         /\ u.next = ReadEvent(t).next /\ u.queue = ReadEvent(t).queue
         /\ u.data = ReadEvent(t).data /\ u.asked = ReadEvent(t).asked
         /\ u.answer = ReadEvent(t).answer
         /\ CallsSame(u, t)
<1> DEFINE w == ReadEvent(t)
           b == w.tells # t.tells
           k == [w.calls EXCEPT ![1].reentrant = @ \/ b]
<1>1. w \in State /\ w.calls = t.calls /\ u \in State
  BY ReadEventType, ReadEventCalls, FlushType DEF Busy
<1>2. u = [w EXCEPT !.calls[1].reentrant = @ \/ b]
  BY DEF Flush
<1> HIDE DEF w, b
<1>3. u = [w EXCEPT !.calls = k]
  BY <1>1, <1>2 DEF State
<1>4. t.calls \in Seq(Call) /\ Len(t.calls) \in Nat
  BY FieldTypes, LenProperties
<1>5. Len(k) = Len(t.calls)
  BY <1>1, <1>4
<1>6. \A i \in 1..Len(t.calls) :
        /\ k[i].kind = t.calls[i].kind /\ k[i].event = t.calls[i].event
        /\ k[i].ref = t.calls[i].ref /\ k[i].seq = t.calls[i].seq
        /\ k[i].crtc = t.calls[i].crtc
  <2>1. \A i \in 1..Len(t.calls) : t.calls[i] \in Call /\ i \in DOMAIN t.calls
    BY <1>4, LenProperties
  <2> QED BY <1>1, <1>4, <2>1 DEF Call
<1> HIDE DEF k
<1>7. /\ KernelSame(u, w) /\ SeenSame(u, w) /\ BuffersSame(u, w) /\ ToldSame(u, w)
      /\ u.next = w.next /\ u.queue = w.queue /\ u.data = w.data /\ u.asked = w.asked
      /\ u.answer = w.answer /\ u.calls = k
  BY <1>1, <1>3 DEF State, KernelSame, SeenSame, BuffersSame, ToldSame
<1> QED BY <1>1, <1>5, <1>6, <1>7 DEF w, CallsSame

(* A full file is flushed in a call. *)
LEMMA FlushTallied ==
  ASSUME Living, CloseCounters, NEW t \in State, t.events # <<>>, Busy(t), Tallied(t)
  PROVE  Tallied(Flush(t))
<1> DEFINE w == ReadEvent(t)
           u == Flush(t)
<1>1. Tallied(w) /\ w.calls = t.calls
  BY ReadEventTallied, ReadEventCalls
<1>2. /\ u \in State /\ w \in State /\ KernelSame(u, w) /\ SeenSame(u, w)
      /\ u.next = w.next /\ u.queue = w.queue /\ u.data = w.data /\ u.answer = w.answer
      /\ CallsSame(u, t)
  <2> DEFINE x == u
  <2>1. x = Flush(t)
    OBVIOUS
  <2> HIDE DEF x
  <2>2. /\ x \in State /\ w \in State /\ KernelSame(x, w) /\ SeenSame(x, w)
        /\ x.next = w.next /\ x.queue = w.queue /\ x.data = w.data /\ x.answer = w.answer
        /\ CallsSame(x, t)
    BY <2>1, FlushKeeps
  <2> QED BY <2>2 DEF x
<1> HIDE DEF u, w
<1>3. HandsOn(u, w)
  <2>1. ASSUME NEW k \in On(u.calls) PROVE \E j \in On(w.calls) : j.seq = k.seq /\ j.crtc = k.crtc
    <3>1. PICK i \in 1..Len(u.calls) : k = u.calls[i]
      BY DEF On
    <3>2. i \in 1..Len(t.calls) /\ u.calls[i].seq = t.calls[i].seq /\ u.calls[i].crtc = t.calls[i].crtc
      BY <1>2, <3>1 DEF CallsSame
    <3>3. t.calls[i] \in On(w.calls)
      BY <1>1, <3>2 DEF On
    <3> QED BY <3>1, <3>2, <3>3
  <2> QED BY <1>2, <2>1 DEF HandsOn, Holds, KernelSame
<1>4. CountsSame(u, w) /\ MscsSame(u, w)
  BY <1>2 DEF CountsSame, MscsSame, KernelSame, SeenSame
<1>5. Tallied(u)
  BY <1>1, <1>2, <1>3, <1>4, TalliedSame
<1> QED BY <1>5 DEF u

(* Present asks to flip back, and the modes are set. *)
Unflipping(t, e) == [t EXCEPT !.life[e] = "waiting", !.asked[e].kind = "unflip"]

(* Asking to flip back changes no list and no counter. *)
LEMMA UnflippingKeeps ==
  ASSUME NEW t \in State, NEW e \in Events, NEW u, u = Unflipping(t, e)
  PROVE  /\ u \in State /\ KernelSame(u, t) /\ SeenSame(u, t) /\ ListsSame(u, t) /\ BuffersSame(u, t)
         /\ u.data = t.data /\ u.answer = t.answer /\ u.tells = t.tells
<1> DEFINE l == [t.life EXCEPT ![e] = "waiting"]
           r == [t.asked[e] EXCEPT !.kind = "unflip"]
           a == [t.asked EXCEPT ![e] = r]
<1>1. l \in LifeOf
  BY FieldTypes DEF LifeOf, Life
<1>2. a \in AskedOf
  <2>1. t.asked \in [Events -> Asked] /\ t.asked[e] \in Asked
    BY FieldTypes
  <2>2. r \in Asked
    BY <2>1 DEF Asked
  <2> HIDE DEF r
  <2> QED BY <2>1, <2>2 DEF AskedOf
<1>3. u = [t EXCEPT !.life = l, !.asked = a]
  BY DEF Unflipping, State
<1> HIDE DEF l, a
<1> QED BY <1>1, <1>2, <1>3 DEF State, KernelSame, SeenSame, ListsSame, BuffersSame

(* Present asks to abort a vblank. *)
Aborted(t, e) == [AbortMatch(t, e) EXCEPT !.life[e] = "aborted"]

(* What Present takes back is aborted, and noted as such. *)
LEMMA AbortedKeeps ==
  ASSUME Living, NEW t \in State, NEW e \in Events, NEW u, u = Aborted(t, e)
  PROVE  /\ u \in State /\ AbortMatch(t, e) \in State
         /\ KernelSame(u, AbortMatch(t, e)) /\ SeenSame(u, AbortMatch(t, e))
         /\ ListsSame(u, AbortMatch(t, e)) /\ BuffersSame(u, AbortMatch(t, e))
         /\ u.data = AbortMatch(t, e).data /\ u.answer = AbortMatch(t, e).answer
         /\ u.asked = AbortMatch(t, e).asked /\ u.tells = AbortMatch(t, e).tells
<1> DEFINE w == AbortMatch(t, e)
           l == [w.life EXCEPT ![e] = "aborted"]
<1>1. w \in State
  BY AbortMatchType
<1>2. u = [w EXCEPT !.life = l]
  BY DEF Aborted
<1> HIDE DEF w
<1>3. l \in LifeOf
  BY <1>1, FieldTypes DEF LifeOf, Life
<1> HIDE DEF l
<1>4. /\ u \in State /\ KernelSame(u, w) /\ SeenSame(u, w) /\ ListsSame(u, w) /\ BuffersSame(u, w)
      /\ u.data = w.data /\ u.answer = w.answer /\ u.asked = w.asked /\ u.tells = w.tells
  BY <1>1, <1>2, <1>3 DEF State, KernelSame, SeenSame, ListsSame, BuffersSame
<1> QED BY <1>1, <1>4 DEF w

----------------------------------------------------------------------------
(* What each action makes of the state. *)
Acted(u) ==
  \/ \E c \in Crtcs :
       \/ /\ s.count[c] < MaxCount /\ NotUnseen(c)
          /\ \E news \in SetToSeqs(DueEvents(s, c)) : u = KernelVblank(s, c, news)
       \/ s.flips[c] # Nothing /\ u = KernelFlip(s, c)
       \/ ~Busy(s) /\ u = GetMsc(s, c)
  \/ \E c \in Crtcs, e \in Events, n \in Aheads :
       MayCall(s) /\ Fresh(e) /\ u = QueueVblank(s, c, e, s.count[c] + n)
  \/ \E c \in Crtcs, e \in Events :
       MayCall(s) /\ Fresh(e) /\ NoFlip /\ u = DoPageflip(s, "flip", e, c)
  \/ \E e \in Events :
       /\ MayCall(s) /\ Fresh(e) /\ NoFlip
       /\ u = DoPageflip(s, "unflip", e, 0) \/ u = SetModes(Unflipping(s, e), e)
  \/ \E e \in Events :
       ~Busy(s) /\ e \in Kinds("vblank") /\ s.life[e] = "waiting" /\ u = Aborted(s, e)
  \/ Busy(s) /\ Top(s).kind = "vblank" /\ u = VblankAccepted(s)
  \/ Busy(s) /\ Top(s).kind # "vblank" /\ s.flips[Top(s).crtc] = Nothing /\ u = FlipAccepted(s)
  \/ Busy(s) /\ Top(s).kind = "vblank" /\ u = VblankRefused(s)
  \/ /\ Busy(s) /\ Top(s).kind # "vblank" /\ s.events = <<>> /\ (Top(s).crtc = 1 \/ PartialRefusals)
     /\ u = FlipRefused(s)
  \/ Busy(s) /\ s.events # <<>> /\ u = Flush(s)
  \/ ~Busy(s) /\ s.events # <<>> /\ u = ReadEvent(s)

(* These are all the steps of the driver. *)
LEMMA NextActs ==
  Next => Acted(s') /\ setup' = setup
BY DEF Next, Acted, Vblank, FlipDone, AskMsc, AskVblank, AskFlip, AskUnflip, AskAbort, Accepted,
       Refused, FlushEvents, ReadEvents, Unflipping, Aborted

(* Every step keeps the types. *)
LEMMA TypeStep ==
  ASSUME Living, s \in State, NEW u, Acted(u)
  PROVE  u \in State
<1>1. ASSUME NEW c \in Crtcs, NEW news \in SetToSeqs(DueEvents(s, c)), u = KernelVblank(s, c, news)
      PROVE  u \in State
  BY <1>1, KernelVblankType
<1>2. ASSUME NEW c \in Crtcs, u = KernelFlip(s, c) \/ u = GetMsc(s, c) PROVE u \in State
  BY <1>2, KernelFlipType, GetMscType
<1>3. ASSUME NEW c \in Crtcs, NEW e \in Events, NEW n \in Aheads,
             u = QueueVblank(s, c, e, s.count[c] + n)
      PROVE  u \in State
  <2>1. s.count[c] + n \in Nat
    <3>1. n \in Nat /\ s.count[c] \in Nat
      BY SetupType, FieldTypes
    <3> QED BY <3>1
  <2> QED BY <1>3, <2>1, QueueVblankType
<1>4. 0 \in 0..NumCrtcs /\ \A c \in Crtcs : c \in 0..NumCrtcs
  BY SetupType DEF Crtcs
<1>5. ASSUME NEW c \in Crtcs, NEW e \in Events, u = DoPageflip(s, "flip", e, c) PROVE u \in State
  BY <1>4, <1>5, DoPageflipType
<1>6. ASSUME NEW e \in Events, u = DoPageflip(s, "unflip", e, 0) PROVE u \in State
  BY <1>4, <1>6, DoPageflipType
<1>7. ASSUME NEW e \in Events, u = SetModes(Unflipping(s, e), e) PROVE u \in State
  <2>1. Unflipping(s, e) \in State
    BY UnflippingKeeps
  <2> QED BY <1>7, <2>1, SetModesType
<1>8. ASSUME NEW e \in Events, u = Aborted(s, e) PROVE u \in State
  BY <1>8, AbortedKeeps
<1>9. ASSUME Busy(s), u = VblankAccepted(s) \/ u = VblankRefused(s) \/ u = FlipRefused(s)
      PROVE  u \in State
  BY <1>9, VblankAcceptedType, VblankRefusedType, FlipRefusedType
<1>10. ASSUME Busy(s), Top(s).kind # "vblank", u = FlipAccepted(s) PROVE u \in State
  BY <1>10, FlipAcceptedType
<1>11. ASSUME s.events # <<>>, Busy(s), u = Flush(s) PROVE u \in State
  BY <1>11, FlushKeeps
<1>12. ASSUME s.events # <<>>, u = ReadEvent(s) PROVE u \in State
  BY <1>12, ReadEventType
<1> QED BY <1>1, <1>2, <1>3, <1>5, <1>6, <1>7, <1>8, <1>9, <1>10, <1>11, <1>12 DEF Acted

(* Every step keeps the pairs, the counts close and the counters exact. *)
LEMMA TalliedStep ==
  ASSUME Living, CloseCounters, s \in State, Tallied(s), NEW u, Acted(u)
  PROVE  Tallied(u)
<1>1. ASSUME NEW c \in Crtcs, NotUnseen(c), NEW news \in SetToSeqs(DueEvents(s, c)),
             u = KernelVblank(s, c, news)
      PROVE  Tallied(u)
  BY <1>1, VblankTallied DEF NotUnseen
<1>2. ASSUME NEW c \in Crtcs, s.flips[c] # Nothing, u = KernelFlip(s, c) PROVE Tallied(u)
  BY <1>2, FlipTallied
<1>3. ASSUME NEW c \in Crtcs, u = GetMsc(s, c) PROVE Tallied(u)
  BY <1>3, GetMscTallied
<1>4. ASSUME NEW c \in Crtcs, NEW e \in Events, NEW n \in Aheads,
             u = QueueVblank(s, c, e, s.count[c] + n)
      PROVE  Tallied(u)
  <2>1. s.count[c] + n \in Nat
    <3>1. n \in Nat /\ s.count[c] \in Nat
      BY SetupType, FieldTypes
    <3> QED BY <3>1
  <2> QED BY <1>4, <2>1, QueueVblankTallied
<1>5. 0 \in 0..NumCrtcs /\ 1 \in Crtcs /\ \A c \in Crtcs : c \in 0..NumCrtcs
  BY SetupType DEF Crtcs
<1>6. ASSUME NEW e \in Events, NEW kind \in {"flip", "unflip"}, NEW ref \in 0..NumCrtcs,
             u = DoPageflip(s, kind, e, ref)
      PROVE  Tallied(u)
  <2>1. Begun(s, kind, e) \in State /\ Tallied(Begun(s, kind, e))
    BY BegunType, BegunTallied
  <2>2. u = CrtcStarted(Begun(s, kind, e), kind, e, ref, 1)
    BY <1>6, DoPageflipType
  <2> QED BY <1>5, <2>1, <2>2, CrtcStartedTallied
<1>7. ASSUME NEW e \in Events, u = SetModes(Unflipping(s, e), e) PROVE Tallied(u)
  <2> DEFINE w == Unflipping(s, e)
  <2>1. /\ w \in State /\ KernelSame(w, s) /\ SeenSame(w, s) /\ ListsSame(w, s)
        /\ w.data = s.data /\ w.answer = s.answer
    <3> DEFINE x == w
    <3>1. x = Unflipping(s, e)
      OBVIOUS
    <3> HIDE DEF x
    <3>2. /\ x \in State /\ KernelSame(x, s) /\ SeenSame(x, s) /\ ListsSame(x, s)
          /\ x.data = s.data /\ x.answer = s.answer
      BY <3>1, UnflippingKeeps
    <3> QED BY <3>2 DEF x
  <2> HIDE DEF w
  <2>2. Tallied(w)
    BY <2>1, LifeTallied
  <2> QED BY <1>7, <2>1, <2>2, SetModesTallied DEF w
<1>8. ASSUME NEW e \in Events, u = Aborted(s, e) PROVE Tallied(u)
  <2> DEFINE w == AbortMatch(s, e)
  <2>1. /\ u \in State /\ w \in State /\ KernelSame(u, w) /\ SeenSame(u, w) /\ ListsSame(u, w)
        /\ u.data = w.data /\ u.answer = w.answer
    BY <1>8, AbortedKeeps
  <2>2. Tallied(w)
    BY AbortMatchTallied
  <2> HIDE DEF w
  <2> QED BY <2>1, <2>2, LifeTallied
<1>9. ASSUME Busy(s), u = VblankAccepted(s) \/ u = VblankRefused(s) \/ u = FlipRefused(s)
      PROVE  Tallied(u)
  BY <1>9, VblankAcceptedTallied, VblankRefusedTallied, FlipRefusedTallied
<1>10. ASSUME Busy(s), Top(s).kind # "vblank", u = FlipAccepted(s) PROVE Tallied(u)
  BY <1>10, FlipAcceptedTallied
<1>11. ASSUME s.events # <<>>, Busy(s), u = Flush(s) PROVE Tallied(u)
  BY <1>11, FlushTallied
<1>12. ASSUME s.events # <<>>, u = ReadEvent(s) PROVE Tallied(u)
  BY <1>12, ReadEventTallied
<1>13. \A c \in Crtcs, e \in Events : u = DoPageflip(s, "flip", e, c) => Tallied(u)
  BY <1>5, <1>6
<1>14. \A e \in Events : u = DoPageflip(s, "unflip", e, 0) => Tallied(u)
  BY <1>5, <1>6
<1> QED BY <1>1, <1>2, <1>3, <1>4, <1>7, <1>8, <1>9, <1>10, <1>11, <1>12, <1>13, <1>14 DEF Acted

(* The first state. *)
LEMMA InitTallied ==
  ASSUME Init, CloseCounters
  PROVE  Tallied(s)
<1>1. Living /\ s \in State
  BY InitTyped
<1>2. /\ s.requests = {} /\ s.events = <<>> /\ s.queue = <<>> /\ s.calls = <<>>
      /\ s.flips = [c \in Crtcs |-> Nothing] /\ s.count = [c \in Crtcs |-> Start]
      /\ s.seen = [c \in Crtcs |-> 0] /\ s.prev = [c \in Crtcs |-> 0]
      /\ s.high = [c \in Crtcs |-> 0]
  BY DEF Init
<1>3. /\ s.data = [e \in Events |-> [refs |-> 0, old |-> 0, msc |-> 0, true |-> 0]]
      /\ s.answer = [given |-> 0, true |-> 0]
  BY DEF Init
<1>4. On(s.events) = {} /\ On(s.queue) = {} /\ On(s.calls) = {}
  BY <1>2 DEF On
<1>5. Paired(s)
  BY <1>2, <1>4 DEF Paired, Holds
<1>6. Close(s)
  <2>1. Start \in Nat /\ Start <= MaxUnseen
    BY <1>1, SetupType DEF CloseCounters, Living, Start
  <2> QED BY <1>2, <1>4, <2>1 DEF Close
<1>7. 0 = Rem(0, Long) /\ 0 % Word = 0 /\ (0 - 0) % Long = 0
  BY Widths DEF Rem
<1>8. Exact(s)
  BY <1>2, <1>3, <1>7 DEF Exact, Kept
<1> QED BY <1>5, <1>6, <1>8 DEF Tallied

(* Nothing else changes. *)
LEMMA Stutters ==
  ASSUME UNCHANGED vars
  PROVE  s' = s /\ setup' = setup
BY DEF vars

(* The screen is the same from one state to the next. *)
LEMMA StateAfter ==
  ASSUME setup' = setup, Living, s' \in State
  PROVE  (Living /\ s \in State)'
BY DEF Living, State, Counters, RequestSets, FlipsOf, Shown, FbSets, EventLists, Lows, Highs,
       Queues, DataOf, Stacks, LifeOf, AskedOf, TellsOf, Answers, Request, EventRecord, Entry, Call,
       Data, Life, Asked, Crtcs, NumCrtcs, Events, Fbs

(* The same of what is tallied. *)
LEMMA TalliedAfter ==
  ASSUME setup' = setup, Tallied(s')
  PROVE  Tallied(s)'
BY DEF Tallied, Paired, Close, Exact, Kept, Holds, On, Rem, Nothing, Crtcs, NumCrtcs, Events

(* The types hold of every state. *)
LEMMA TypeInvariant ==
  Spec => [](Living /\ s \in State)
<1>1. Init => Living /\ s \in State
  BY InitTyped
<1>2. Living /\ s \in State /\ [Next]_vars => (Living /\ s \in State)'
  <2> SUFFICES ASSUME Living, s \in State, [Next]_vars PROVE (Living /\ s \in State)'
    OBVIOUS
  <2>1. CASE Next
    <3>1. Acted(s') /\ setup' = setup
      BY <2>1, NextActs
    <3>2. s' \in State
      BY <3>1, TypeStep
    <3> QED BY <3>1, <3>2, StateAfter
  <2>2. CASE UNCHANGED vars
    <3>1. s' = s /\ setup' = setup
      BY <2>2, Stutters
    <3>2. s' \in State
      BY <3>1
    <3> QED BY <3>1, <3>2, StateAfter
  <2> QED BY <2>1, <2>2
<1> QED BY <1>1, <1>2, PTL DEF Spec

(* What the driver's counters rest on. *)
LEMMA TalliedInvariant ==
  ASSUME CloseCounters
  PROVE  Spec => []Tallied(s)
<1>1. Init => Tallied(s)
  BY InitTallied
<1>2. Living /\ s \in State /\ Tallied(s) /\ [Next]_vars => Tallied(s)'
  <2> SUFFICES ASSUME Living, s \in State, Tallied(s), [Next]_vars PROVE Tallied(s)'
    OBVIOUS
  <2>1. CASE Next
    <3>1. Acted(s') /\ setup' = setup
      BY <2>1, NextActs
    <3>2. Tallied(s')
      BY <3>1, TalliedStep
    <3> QED BY <3>1, <3>2, TalliedAfter
  <2>2. CASE UNCHANGED vars
    <3>1. s' = s /\ setup' = setup
      BY <2>2, Stutters
    <3>2. Tallied(s')
      BY <3>1
    <3> QED BY <3>1, <3>2, TalliedAfter
  <2> QED BY <2>1, <2>2
<1> QED BY <1>1, <1>2, TypeInvariant, PTL DEF Spec

(* The msc Present is given, by a query or with an event, is the count of     *)
(* that moment, whatever the width and the order the counts come in.          *)
THEOREM MscsExact ==
  ASSUME CloseCounters
  PROVE  Spec => []MscExact
<1>1. Tallied(s) => MscExact
  BY DEF Tallied, Exact, MscExact, Rem
<1> QED BY <1>1, TalliedInvariant, PTL

----------------------------------------------------------------------------
(* Framebuffers and answers.                                                *)
(*                                                                          *)
(* The entries of the queue, the events to read, the calls under way and    *)
(* the flips under way.  Whether Present may call again from a call does    *)
(* not matter here.                                                         *)
Entries(t) == On(t.queue)
Coming(t) == On(t.events)
Claim(k) == [kind |-> k.kind, event |-> k.event, seq |-> k.seq, crtc |-> k.crtc]
Claims(t) == {Claim(t.calls[i]) : i \in 1..Len(t.calls)}
Under(t, c) == t.flips[c] # Nothing
FlipKinds == {"flip", "unflip"}
WaitingFlip(t, e) == t.asked[e].kind \in FlipKinds /\ t.life[e] = "waiting"
ForFlip(k) == k.kind # "vblank"
Calling(t, e) == \E k \in Claims(t) : ForFlip(k) /\ k.event = e
FlipEntries(t, e) == {q \in Entries(t) : q.flip /\ q.event = e}

(* No two entries, and no two calls, have the same number. *)
Distinct(q) == \A i, j \in 1..Len(q) : q[i].seq = q[j].seq => i = j
Unique(t) == Distinct(t.queue) /\ Distinct(t.calls)
Numbered(t) == 1 <= t.next /\ \A q \in Entries(t) : 1 <= q.seq

(* A number is with one of the calls, the flips and the rest. *)
Apart(t) ==
  /\ \A k \in Claims(t) : /\ \A r \in t.requests : r.seq # k.seq
                          /\ \A v \in Coming(t) : v.seq # k.seq
                          /\ \A c \in Crtcs : Under(t, c) => t.flips[c].seq # k.seq
  /\ \A c \in Crtcs : Under(t, c) => /\ \A r \in t.requests : r.seq # t.flips[c].seq
                                     /\ \A v \in Coming(t) : v.seq # t.flips[c].seq

(* Every entry's number is with something that will bring its event. *)
Expects(t, n) ==
  \/ \E r \in t.requests : r.seq = n
  \/ \E c \in Crtcs : Under(t, c) /\ t.flips[c].seq = n
  \/ \E v \in Coming(t) : v.seq = n
  \/ \E k \in Claims(t) : k.seq = n
Expected(t) == \A q \in Entries(t) : Expects(t, q.seq)

(* What has an entry's number is about what the entry is for. *)
Target(t, n) == IF t.hasSeq THEN n ELSE n % Word
RequestsLinked(t) ==
  \A q \in Entries(t), r \in t.requests :
    r.seq = q.seq => ~q.flip /\ r.msc = Target(t, t.asked[q.event].msc)
EventsLinked(t) ==
  \A q \in Entries(t), v \in Coming(t) : v.seq = q.seq =>
    /\ q.flip => t.shows[q.crtc] = q.event
    /\ ~q.flip => t.asked[q.event].msc <= v.count
CallsLinked(t) ==
  \A k \in Claims(t) : \E q \in Entries(t) :
    q.seq = k.seq /\ q.event = k.event /\ (q.flip <=> ForFlip(k))
FlipsLinked(t) ==
  \A c \in Crtcs : Under(t, c) => \E q \in Entries(t) :
    q.seq = t.flips[c].seq /\ q.flip /\ q.crtc = c /\ q.event = t.flips[c].fb

Linked(t) ==
  /\ Unique(t) /\ Numbered(t) /\ Apart(t) /\ Expected(t)
  /\ RequestsLinked(t) /\ EventsLinked(t) /\ CallsLinked(t) /\ FlipsLinked(t)

(* A vblank asked for is not so far ahead that the kernel would take it for   *)
(* passed.                                                                    *)
Near(t) ==
  \A q \in Entries(t) : ~q.flip => t.asked[q.event].msc + Passed < t.count[q.crtc] + Word

(* Present waits for what has an entry, and for nothing else. *)
HasEntry(t, e) == \E q \in Entries(t) : q.event = e
Wanted(t, q) ==
  /\ t.life[q.event] = "waiting"
  /\ q.flip => t.asked[q.event].kind \in FlipKinds
  /\ ~q.flip => /\ t.asked[q.event].kind = "vblank" /\ t.asked[q.event].crtc = q.crtc
                /\ \A p \in Entries(t) : p.event = q.event => p = q
Awaited(t) ==
  /\ \A q \in Entries(t) : Wanted(t, q)
  /\ \A e \in Events : t.life[e] = "waiting" => HasEntry(t, e)
  /\ \A e \in Events : t.life[e] = "unused" <=> t.asked[e].kind = "none"
Answered(t) == \A e \in Events : t.tells[e] = IF t.life[e] = "told" THEN 1 ELSE 0

Waited(t) == Near(t) /\ Awaited(t) /\ Answered(t)

(* One flip at a time, with an entry for each CRTC. *)
OneFlip(t) ==
  /\ \A e, f \in Events : WaitingFlip(t, e) /\ WaitingFlip(t, f) => e = f
  /\ \A p, q \in Entries(t) : p.flip /\ q.flip /\ p.crtc = q.crtc => p = q
  /\ \A j, k \in Claims(t) : ForFlip(j) /\ ForFlip(k) => j = k

(* A CRTC shows a framebuffer that setting the modes of a later one removed.  *)
Dark(shows, c) == c < NumCrtcs /\ shows[c] > 2 * LastEvent
(* A CRTC shows what it did before the flip.                                  *)
Still(shows, c, fb) == shows[c] = fb \/ Dark(shows, c)

(* The framebuffers, with no flip under way and with one: a CRTC that does    *)
(* not show the new one has an entry, or is yet to be asked.                  *)
Used(t, fb) == fb \in Events => t.life[fb] # "unused"
AtRest(t) ==
  /\ Used(t, t.fb)
  /\ (\A e \in Events : ~WaitingFlip(t, e)) =>
       t.fbs = {t.fb} /\ \A c \in Crtcs : Still(t.shows, c, t.fb)
ToFlip(t, e, c) ==
  \/ \E q \in Entries(t) : q.flip /\ q.event = e /\ q.crtc = c
  \/ \E k \in Claims(t) : ForFlip(k) /\ k.crtc < c
BetweenTwo(t, e) ==
  /\ t.fb = e /\ t.data[e].old # e /\ t.fbs = {t.data[e].old, e} /\ Used(t, t.data[e].old)
  /\ \A c \in Crtcs : t.shows[c] = e \/ (Still(t.shows, c, t.data[e].old) /\ ToFlip(t, e, c))
InFlip(t) == \A e \in Events : WaitingFlip(t, e) => BetweenTwo(t, e)
InCall(t) ==
  \A k \in Claims(t) : ForFlip(k) =>
    /\ k.kind = t.asked[k.event].kind
    /\ \A c \in Crtcs : k.crtc <= c => Still(t.shows, c, t.data[k.event].old)
    /\ \A q \in Entries(t) : q.flip => q.crtc <= k.crtc
References(t, e) == Cardinality(FlipEntries(t, e)) + (IF Calling(t, e) THEN 1 ELSE 0)
Referenced(t) == \A e \in Events : t.data[e].refs = References(t, e)

Framed(t) == OneFlip(t) /\ AtRest(t) /\ InFlip(t) /\ InCall(t) /\ Referenced(t)

Sound(t) == Linked(t) /\ Waited(t) /\ Framed(t)

(* The kernel takes all CRTCs of a flip or none, event ids are not 0 or 1     *)
(* (ms_drm_abort would take a flip's data for a vblank's), and Present asks   *)
(* for no vblank as far ahead as a 32-bit counter goes.                       *)
Cooperates ==
  /\ CloseCounters /\ ~PartialRefusals /\ 2 <= FirstEvent
  /\ \A x \in Setups : \A n \in x.aheads : n + Passed < Word

(* The sorts of what the parts of the invariant speak of. *)
LEMMA Sorts ==
  ASSUME NEW t \in State
  PROVE  /\ Entries(t) \subseteq Entry /\ Coming(t) \subseteq EventRecord /\ t.requests \subseteq Request
         /\ \A q \in Entries(t) : q.seq \in Nat /\ q.crtc \in Crtcs /\ q.event \in Events /\ q.flip \in BOOLEAN
         /\ \A k \in Claims(t) : /\ k.seq \in Nat /\ k.crtc \in Crtcs /\ k.event \in Events
                                 /\ k.kind \in {"vblank", "flip", "unflip"}
         /\ \A v \in Coming(t) : v.seq \in Nat /\ v.crtc \in Crtcs /\ v.count \in Nat
         /\ \A r \in t.requests : r.seq \in Nat /\ r.crtc \in Crtcs /\ r.msc \in Nat
<1>1. t.queue \in Seq(Entry) /\ t.events \in Seq(EventRecord) /\ t.calls \in Seq(Call)
  BY FieldTypes
<1>2. Entries(t) \subseteq Entry /\ Coming(t) \subseteq EventRecord
  BY <1>1, LenProperties DEF Entries, Coming, On
<1>3. \A i \in 1..Len(t.calls) : t.calls[i] \in Call
  BY <1>1, LenProperties
<1>4. \A k \in Claims(t) : /\ k.seq \in Nat /\ k.crtc \in Crtcs /\ k.event \in Events
                           /\ k.kind \in {"vblank", "flip", "unflip"}
  BY <1>3 DEF Claims, Claim, Call
<1>5. t.requests \subseteq Request
  BY FieldTypes
<1> QED BY <1>2, <1>4, <1>5 DEF Entry, EventRecord, Request

(* A number names one entry. *)
LEMMA OneEntry ==
  ASSUME NEW t, Distinct(t.queue), NEW p \in Entries(t), NEW q \in Entries(t), p.seq = q.seq
  PROVE  p = q
BY DEF Distinct, Entries, On

(* Cutting an entry out of the queue, and putting a new one in front. *)
LEMMA EntryCut ==
  ASSUME NEW t \in State, NEW i \in 1..Len(t.queue), Distinct(t.queue),
         NEW u, u.queue = RemoveAt(t.queue, i)
  PROVE  /\ Distinct(u.queue) /\ t.queue[i] \in Entries(t)
         /\ Entries(u) = Entries(t) \ {t.queue[i]}
<1> DEFINE q == t.queue
           r == RemoveAt(q, i)
           n == Len(q)
<1>1. q \in Seq(Entry) /\ n \in Nat /\ i \in Nat /\ i \in 1..Len(q)
  BY FieldTypes
<1>2. /\ r \in Seq(Entry) /\ Len(r) = n - 1
      /\ \A j \in 1..n - 1 : r[j] = IF j < i THEN q[j] ELSE q[j + 1]
  <2> HIDE DEF q
  <2> QED BY <1>1, CutOut DEF r, n
<1>3. \A j, k \in 1..n : q[j].seq = q[k].seq => j = k
  BY DEF Distinct
<1>4. u.queue = r
  OBVIOUS
<1> HIDE DEF q, r, n
<1>5. Distinct(r)
  <2> SUFFICES ASSUME NEW j \in 1..n - 1, NEW k \in 1..n - 1, r[j].seq = r[k].seq PROVE j = k
    BY <1>2 DEF Distinct
  <2> DEFINE a == IF j < i THEN j ELSE j + 1
             b == IF k < i THEN k ELSE k + 1
  <2>1. a \in 1..n /\ b \in 1..n /\ r[j] = q[a] /\ r[k] = q[b]
    BY <1>1, <1>2
  <2>2. a = b
    BY <1>3, <2>1
  <2> QED BY <1>1, <2>2
<1>6. q[i] \in On(q) /\ On(r) = On(q) \ {q[i]}
  <2>0. i \in 1..n
    BY DEF n, q
  <2>1. \A j \in (1..n) \ {i} : q[j] # q[i]
    BY <1>3, <2>0
  <2>2. \A j \in 1..n - 1 : \E k \in (1..n) \ {i} : r[j] = q[k]
    <3> TAKE j \in 1..n - 1
    <3>1. CASE j < i
      BY <1>1, <1>2, <2>0, <3>1
    <3>2. CASE ~ (j < i)
      <4>1. j + 1 \in (1..n) \ {i} /\ r[j] = q[j + 1]
        BY <1>1, <1>2, <3>2
      <4> QED BY <4>1
    <3> QED BY <3>1, <3>2
  <2>3. \A k \in (1..n) \ {i} : \E j \in 1..n - 1 : r[j] = q[k]
    <3> TAKE k \in (1..n) \ {i}
    <3>1. CASE k < i
      <4>1. k \in 1..n - 1 /\ r[k] = q[k]
        BY <1>1, <1>2, <2>0, <3>1
      <4> QED BY <4>1
    <3>2. CASE ~ (k < i)
      <4>1. k - 1 \in 1..n - 1 /\ ~ (k - 1 < i) /\ (k - 1) + 1 = k
        BY <1>1, <2>0, <3>2
      <4>2. r[k - 1] = q[k]
        BY <1>2, <4>1
      <4> QED BY <4>1, <4>2
    <3> QED BY <3>1, <3>2
  <2>4. On(q) = {q[j] : j \in 1..n} /\ On(r) = {r[j] : j \in 1..n - 1}
    BY <1>2 DEF On, n
  <2>5. \A x : x \in On(r) <=> \E j \in 1..n - 1 : x = r[j]
    BY <2>4
  <2>6. \A x : x \in On(q) <=> \E j \in 1..n : x = q[j]
    BY <2>4
  <2>7. \A x : x \in On(r) <=> x \in On(q) /\ x # q[i]
    <3> HIDE DEF On
    <3> QED BY <2>0, <2>1, <2>2, <2>3, <2>5, <2>6
  <2> QED BY <2>0, <2>6, <2>7
<1> QED BY <1>4, <1>5, <1>6 DEF Entries, q

(* Numbers stay distinct when a new one is put in front, *)
LEMMA DistinctPushed ==
  ASSUME NEW S, NEW q \in Seq(S), NEW x \in S, Distinct(q), \A i \in 1..Len(q) : q[i].seq # x.seq
  PROVE  Distinct(<<x>> \o q)
<1> DEFINE r == <<x>> \o q
<1>1. Len(r) = Len(q) + 1 /\ r[1] = x /\ \A i \in 1..Len(q) : r[i + 1] = q[i]
  BY Pushed
<1>2. Len(q) \in Nat
  OBVIOUS
<1> HIDE DEF r
<1>3. \A i \in 1..Len(r) : i = 1 \/ (i - 1 \in 1..Len(q) /\ r[i] = q[i - 1])
  <2> TAKE i \in 1..Len(r)
  <2>1. CASE i # 1
    <3>1. i - 1 \in 1..Len(q) /\ (i - 1) + 1 = i
      BY <1>1, <1>2, <2>1
    <3> QED BY <1>1, <3>1
  <2> QED BY <2>1
<1> SUFFICES ASSUME NEW i \in 1..Len(r), NEW j \in 1..Len(r), r[i].seq = r[j].seq PROVE i = j
  BY DEF Distinct, r
<1>4. CASE i = 1 /\ j = 1
  BY <1>4
<1>5. CASE i # 1 /\ j # 1
  <2>1. i - 1 \in 1..Len(q) /\ j - 1 \in 1..Len(q) /\ q[i - 1].seq = q[j - 1].seq
    BY <1>3, <1>5
  <2>2. i - 1 = j - 1
    BY <2>1 DEF Distinct
  <2> QED BY <1>1, <1>2, <2>2
<1>6. CASE i = 1 /\ j # 1
  BY <1>1, <1>3, <1>6
<1>7. CASE i # 1 /\ j = 1
  BY <1>1, <1>3, <1>7
<1> QED BY <1>4, <1>5, <1>6, <1>7

(* in the queue as it gains an entry. *)
LEMMA EntryPushed ==
  ASSUME Living, NEW t \in State, NEW q \in Entry, Distinct(t.queue),
         \A p \in Entries(t) : p.seq # q.seq, NEW u, u.queue = <<q>> \o t.queue
  PROVE  Distinct(u.queue) /\ Entries(u) = Entries(t) \cup {q}
<1>1. t.queue \in Seq(Entry)
  BY FieldTypes
<1>2. \A i \in 1..Len(t.queue) : t.queue[i].seq # q.seq
  BY DEF Entries, On
<1>3. Distinct(<<q>> \o t.queue) /\ On(<<q>> \o t.queue) = {q} \cup On(t.queue)
  BY <1>1, <1>2, DistinctPushed, OnPushed
<1> QED BY <1>3 DEF Entries

(* A call is put on the stack, and taken off. *)
LEMMA CallPushed ==
  ASSUME Living, NEW t \in State, NEW k \in Call, Distinct(t.calls),
         \A j \in Claims(t) : j.seq # k.seq, NEW u, u.calls = <<k>> \o t.calls
  PROVE  Distinct(u.calls) /\ Claims(u) = Claims(t) \cup {Claim(k)}
<1> DEFINE q == t.calls
           r == <<k>> \o q
<1>1. q \in Seq(Call) /\ Len(q) \in Nat
  BY FieldTypes
<1>2. \A i \in 1..Len(q) : q[i].seq # k.seq
  <2>1. \A i \in 1..Len(q) : Claim(q[i]) \in Claims(t) /\ Claim(q[i]).seq = q[i].seq
    BY DEF Claims, Claim
  <2> QED BY <2>1
<1>3. Distinct(r)
  BY <1>1, <1>2, DistinctPushed
<1>4. Len(r) = Len(q) + 1 /\ r[1] = k /\ \A i \in 1..Len(q) : r[i + 1] = q[i]
  BY <1>1, Pushed
<1> HIDE DEF r, q
<1>5. {Claim(r[i]) : i \in 1..Len(r)} = {Claim(q[i]) : i \in 1..Len(q)} \cup {Claim(k)}
  <2>1. \A i \in 1..Len(r) : i = 1 \/ \E j \in 1..Len(q) : r[i] = q[j]
    <3> TAKE i \in 1..Len(r)
    <3>1. CASE i # 1
      <4>1. i - 1 \in 1..Len(q) /\ (i - 1) + 1 = i
        BY <1>1, <1>4, <3>1
      <4> QED BY <1>4, <4>1
    <3> QED BY <3>1
  <2>2. \A j \in 1..Len(q) : j + 1 \in 1..Len(r)
    BY <1>1, <1>4
  <2>3. 1 \in 1..Len(r)
    BY <1>1, <1>4
  <2> HIDE DEF Claim
  <2> QED BY <1>4, <2>1, <2>2, <2>3
<1> QED BY <1>3, <1>5 DEF Claims, q, r

(* The call taken off is the one with its number. *)
LEMMA CallPopped ==
  ASSUME NEW t \in State, Busy(t), Distinct(t.calls), NEW u, u.calls = Tail(t.calls)
  PROVE  /\ Distinct(u.calls) /\ Claim(Top(t)) \in Claims(t)
         /\ Claims(u) = {k \in Claims(t) : k.seq # Top(t).seq}
         /\ \A k \in Claims(t) : k.seq = Top(t).seq => k = Claim(Top(t))
<1> DEFINE q == t.calls
           r == Tail(q)
<1>1. q \in Seq(Call) /\ q # <<>>
  BY FieldTypes DEF Busy
<1>2. /\ Top(t) = q[1] /\ Len(q) \in Nat \ {0} /\ Len(r) = Len(q) - 1
      /\ \A i \in 1..Len(r) : r[i] = q[i + 1]
  BY <1>1, Popped DEF Top
<1>3. \A i, j \in 1..Len(q) : q[i].seq = q[j].seq => i = j
  BY DEF Distinct
<1>4. u.calls = r /\ Claims(t) = {Claim(q[i]) : i \in 1..Len(q)}
  BY DEF Claims
<1> HIDE DEF q, r
<1>5. Distinct(r)
  <2> SUFFICES ASSUME NEW i \in 1..Len(r), NEW j \in 1..Len(r), r[i].seq = r[j].seq PROVE i = j
    BY DEF Distinct
  <2>1. i + 1 \in 1..Len(q) /\ j + 1 \in 1..Len(q) /\ q[i + 1].seq = q[j + 1].seq
    BY <1>2
  <2>2. i + 1 = j + 1
    BY <1>3, <2>1
  <2> QED BY <2>2
<1>6. \A i \in 1..Len(q) : Claim(q[i]).seq = q[i].seq
  BY DEF Claim
<1>7. 1 \in 1..Len(q)
  BY <1>2
<1>8. \A i \in 1..Len(q) : i = 1 \/ (i - 1 \in 1..Len(r) /\ r[i - 1] = q[i])
  <2> TAKE i \in 1..Len(q)
  <2>1. CASE i # 1
    <3>1. i - 1 \in 1..Len(r) /\ (i - 1) + 1 = i
      BY <1>2, <2>1
    <3> QED BY <1>2, <3>1
  <2> QED BY <2>1
<1>9. \A i \in 1..Len(r) : i + 1 \in 1..Len(q) /\ i + 1 # 1
  BY <1>2
<1>10. Claims(u) = {Claim(r[i]) : i \in 1..Len(r)}
  BY <1>4 DEF Claims
<1> HIDE DEF Claim
<1>11. \A k \in Claims(t) : k.seq = Top(t).seq => k = Claim(Top(t))
  BY <1>2, <1>3, <1>4, <1>6, <1>7
<1>12. \A k \in Claims(u) : k \in Claims(t) /\ k.seq # Top(t).seq
  BY <1>2, <1>3, <1>4, <1>6, <1>7, <1>9, <1>10
<1>13. \A k \in Claims(t) : k.seq # Top(t).seq => k \in Claims(u)
  BY <1>2, <1>4, <1>6, <1>8, <1>10
<1> QED BY <1>2, <1>4, <1>5, <1>7, <1>11, <1>12, <1>13

(* A number in use is less than the next, and names one CRTC. *)
LEMMA Pairs ==
  ASSUME NEW t \in State, Paired(t)
  PROVE  /\ \A q \in Entries(t) : q.seq < t.next
         /\ \A k \in Claims(t) : k.seq < t.next /\ \A q \in Entries(t) : q.seq = k.seq => q.crtc = k.crtc
         /\ \A v \in Coming(t) : v.seq < t.next /\ \A q \in Entries(t) : q.seq = v.seq => q.crtc = v.crtc
         /\ \A r \in t.requests :
              r.seq < t.next /\ \A q \in Entries(t) : q.seq = r.seq => q.crtc = r.crtc
         /\ \A c \in Crtcs : Under(t, c) =>
              t.flips[c].seq < t.next /\ \A q \in Entries(t) : q.seq = t.flips[c].seq => q.crtc = c
<1>1. \A k \in Claims(t) : Holds(t, k.seq, k.crtc) /\ k.seq \in Nat /\ k.crtc \in Crtcs
  <2>1. \A k \in Claims(t) : \E j \in On(t.calls) : j.seq = k.seq /\ j.crtc = k.crtc
    BY DEF Claims, Claim, On
  <2> QED BY <2>1, Sorts DEF Holds
<1>2. \A v \in Coming(t) : Holds(t, v.seq, v.crtc) /\ v.seq \in Nat /\ v.crtc \in Crtcs
  BY Sorts DEF Holds, Coming
<1>3. \A r \in t.requests : Holds(t, r.seq, r.crtc) /\ r.seq \in Nat /\ r.crtc \in Crtcs
  BY Sorts DEF Holds
<1>4. \A c \in Crtcs : Under(t, c) => Holds(t, t.flips[c].seq, c)
  BY DEF Holds, Under
<1>5. \A c \in Crtcs : t.flips[c].seq \in Nat
  BY FieldTypes
<1>6. Entries(t) = On(t.queue)
  BY DEF Entries
<1> HIDE DEF Holds
<1> QED BY <1>1, <1>2, <1>3, <1>4, <1>5, <1>6 DEF Paired

(* The entries are finitely many, and their number changes with each. *)
LEMMA Finitely ==
  ASSUME NEW t \in State, NEW e
  PROVE  /\ IsFiniteSet(FlipEntries(t, e)) /\ Cardinality(FlipEntries(t, e)) \in Nat
         /\ Cardinality(FlipEntries(t, e)) = 0 <=> FlipEntries(t, e) = {}
         /\ Cardinality(FlipEntries(t, e)) = 1 => \E q : FlipEntries(t, e) = {q}
<1> DEFINE I == 1..Len(t.queue)
           f == [i \in I |-> t.queue[i]]
<1>1. IsFiniteSet(I)
  <2>1. Len(t.queue) \in Nat
    BY FieldTypes
  <2> QED BY <2>1, FS_Interval
<1>2. f \in Surjection(I, Entries(t))
  BY DEF Surjection, Entries, On
<1>3. IsFiniteSet(Entries(t))
  <2> HIDE DEF f, I
  <2> QED BY <1>1, <1>2, FS_Surjection
<1>4. FlipEntries(t, e) \in SUBSET Entries(t)
  BY DEF FlipEntries
<1>5. IsFiniteSet(FlipEntries(t, e))
  BY <1>3, <1>4, FS_Subset
<1> QED BY <1>5, FS_CardinalityType, FS_EmptySet, FS_Singleton

(* What an event's references depend on. *)
LEMMA Refers ==
  ASSUME NEW t \in State, NEW e
  PROVE  /\ References(t, e) \in Nat
         /\ FlipEntries(t, e) = {} /\ ~Calling(t, e) => References(t, e) = 0
         /\ \A q : FlipEntries(t, e) = {q} => References(t, e) = IF Calling(t, e) THEN 2 ELSE 1
         /\ References(t, e) = 1 /\ FlipEntries(t, e) # {} =>
              ~Calling(t, e) /\ \E q : FlipEntries(t, e) = {q}
<1>1. \A q : FlipEntries(t, e) = {q} => Cardinality(FlipEntries(t, e)) = 1
  BY FS_Singleton
<1> DEFINE n == Cardinality(FlipEntries(t, e))
<1>2. /\ n \in Nat
      /\ n = 0 <=> FlipEntries(t, e) = {}
      /\ n = 1 => \E q : FlipEntries(t, e) = {q}
  <2>1. /\ n \in Nat
        /\ n = 0 <=> FlipEntries(t, e) = {}
    BY Finitely
  <2>2. n = 1 => \E q : FlipEntries(t, e) = {q}
    BY Finitely
  <2> QED BY <2>1, <2>2
<1>3. References(t, e) = n + (IF Calling(t, e) THEN 1 ELSE 0)
  BY DEF References
<1>4. \A q : FlipEntries(t, e) = {q} => n = 1
  BY <1>1
<1> DEFINE r == References(t, e)
           E == FlipEntries(t, e)
<1> HIDE DEF n, r, E
<1>5. r = IF Calling(t, e) THEN n + 1 ELSE n
  BY <1>2, <1>3 DEF r
<1>6. r \in Nat /\ (E = {} /\ ~Calling(t, e) => r = 0)
  BY <1>2, <1>5 DEF E
<1>7. \A q : E = {q} => r = IF Calling(t, e) THEN 2 ELSE 1
  BY <1>4, <1>5 DEF E
<1>8. ASSUME r = 1, E # {} PROVE ~Calling(t, e) /\ \E q : E = {q}
  <2>1. n # 0
    BY <1>2, <1>8 DEF E
  <2>2. ~Calling(t, e) /\ n = 1
    BY <1>2, <1>5, <1>8, <2>1
  <2> QED BY <1>2, <2>2 DEF E
<1> QED BY <1>6, <1>7, <1>8 DEF r, E

(* References that stay as they are, *)
LEMMA RefersSame ==
  ASSUME NEW t, NEW u, NEW e, FlipEntries(u, e) = FlipEntries(t, e), Calling(u, e) <=> Calling(t, e)
  PROVE  References(u, e) = References(t, e)
BY DEF References

(* that grow by an entry, *)
LEMMA RefersMore ==
  ASSUME NEW t \in State, NEW u, NEW e, NEW q, q \notin FlipEntries(t, e),
         FlipEntries(u, e) = FlipEntries(t, e) \cup {q}, Calling(u, e) <=> Calling(t, e)
  PROVE  References(u, e) = References(t, e) + 1
<1> DEFINE n == Cardinality(FlipEntries(t, e))
           m == Cardinality(FlipEntries(u, e))
<1>0. n \in Nat /\ IsFiniteSet(FlipEntries(t, e))
  BY Finitely
<1>1. n \in Nat /\ m = n + 1
  BY <1>0, FS_AddElement
<1>2. References(t, e) = n + (IF Calling(t, e) THEN 1 ELSE 0)
  BY DEF References
<1>3. References(u, e) = m + (IF Calling(u, e) THEN 1 ELSE 0)
  BY DEF References
<1> HIDE DEF n, m
<1> QED BY <1>1, <1>2, <1>3

(* shrink by an entry, *)
LEMMA RefersLess ==
  ASSUME NEW t \in State, NEW u, NEW e, NEW q \in FlipEntries(t, e),
         FlipEntries(u, e) = FlipEntries(t, e) \ {q}, Calling(u, e) <=> Calling(t, e)
  PROVE  References(u, e) = References(t, e) - 1
<1> DEFINE n == Cardinality(FlipEntries(t, e))
           m == Cardinality(FlipEntries(u, e))
<1>0. n \in Nat /\ IsFiniteSet(FlipEntries(t, e))
  BY Finitely
<1>1. n \in Nat /\ m = n - 1
  BY <1>0, FS_RemoveElement
<1>2. References(t, e) = n + (IF Calling(t, e) THEN 1 ELSE 0)
  BY DEF References
<1>3. References(u, e) = m + (IF Calling(u, e) THEN 1 ELSE 0)
  BY DEF References
<1> HIDE DEF n, m
<1> QED BY <1>1, <1>2, <1>3

(* or by the call's own. *)
LEMMA RefersDropped ==
  ASSUME NEW t \in State, NEW u, NEW e,
         FlipEntries(u, e) = FlipEntries(t, e), Calling(t, e), ~Calling(u, e)
  PROVE  References(u, e) = References(t, e) - 1
<1> DEFINE n == Cardinality(FlipEntries(t, e))
<1>1. n \in Nat
  BY Finitely
<1>2. References(t, e) = n + 1
  BY DEF References
<1>3. References(u, e) = n + 0
  BY DEF References
<1> HIDE DEF n
<1> QED BY <1>1, <1>2, <1>3

----------------------------------------------------------------------------
(* A step that touches nothing the invariant speaks of, but may drop events   *)
(* that no entry waits for.                                                   *)
DataSame(u, t) == \A e \in Events : u.data[e].refs = t.data[e].refs /\ u.data[e].old = t.data[e].old
EntriesSame(u, t) ==
  /\ Distinct(u.queue) /\ Distinct(u.calls) /\ u.next = t.next
  /\ Entries(u) = Entries(t) /\ Claims(u) = Claims(t)

(* Such a step keeps what Present waits for, *)
LEMMA WaitedSame ==
  ASSUME NEW t \in State, NEW u \in State, Waited(t), EntriesSame(u, t), ToldSame(u, t),
         u.asked = t.asked, \A c \in Crtcs : t.count[c] <= u.count[c]
  PROVE  Waited(u)
<1>1. Near(u)
  <2> SUFFICES ASSUME NEW q \in Entries(t), ~q.flip
               PROVE  t.asked[q.event].msc + Passed < u.count[q.crtc] + Word
    BY DEF Near, EntriesSame
  <2>1. q.event \in Events /\ q.crtc \in Crtcs
    BY Sorts
  <2>2. /\ t.asked[q.event].msc \in Nat /\ t.count[q.crtc] \in Nat /\ u.count[q.crtc] \in Nat
        /\ Passed \in Nat /\ Word \in Nat
    BY <2>1, FieldTypes, Widths DEF Asked
  <2>3. t.asked[q.event].msc + Passed < t.count[q.crtc] + Word
    BY DEF Waited, Near
  <2>4. t.count[q.crtc] <= u.count[q.crtc]
    BY <2>1
  <2> QED BY <2>2, <2>3, <2>4
<1>2. Awaited(u) /\ Answered(u)
  BY DEF Waited, Awaited, Wanted, HasEntry, Answered, EntriesSame, ToldSame
<1> QED BY <1>1, <1>2 DEF Waited

(* keeps the framebuffers as they are, *)
LEMMA FramedSame ==
  ASSUME NEW t \in State, NEW u \in State, Framed(t), EntriesSame(u, t), DataSame(u, t),
         BuffersSame(u, t), u.life = t.life, u.asked = t.asked, u.shows = t.shows
  PROVE  Framed(u)
<1> USE DEF EntriesSame, BuffersSame
<1>1. OneFlip(u) /\ AtRest(u)
  BY DEF Framed, OneFlip, AtRest, WaitingFlip, Used
<1>2. InFlip(u)
  BY Widths DEF Framed, InFlip, WaitingFlip, BetweenTwo, Used, ToFlip, DataSame
<1>3. InCall(u)
  <2>1. \A k \in Claims(t) : k.event \in Events
    BY Sorts
  <2> QED BY <2>1 DEF Framed, InCall, DataSame
<1>4. Referenced(u)
  BY DEF Framed, Referenced, References, Calling, FlipEntries, DataSame
<1> QED BY <1>1, <1>2, <1>3, <1>4 DEF Framed

(* and keeps the invariant. *)
LEMMA SoundSame ==
  ASSUME NEW t \in State, NEW u \in State, Sound(t), EntriesSame(u, t), DataSame(u, t),
         u.count = t.count, u.requests = t.requests, u.flips = t.flips, u.shows = t.shows,
         u.hasSeq = t.hasSeq, BuffersSame(u, t), ToldSame(u, t), u.asked = t.asked,
         Coming(u) \subseteq Coming(t),
         \A v \in Coming(t) : v \in Coming(u) \/ \A q \in Entries(t) : q.seq # v.seq
  PROVE  Sound(u)
<1> USE DEF EntriesSame
<1>1. Unique(u) /\ Numbered(u)
  BY DEF Sound, Linked, Unique, Numbered
<1>2. Apart(u)
  BY DEF Sound, Linked, Apart, Under
<1>3. Expected(u)
  BY DEF Sound, Linked, Expected, Expects, Under
<1>4. RequestsLinked(u)
  BY DEF Sound, Linked, RequestsLinked, Target
<1>5. EventsLinked(u)
  BY DEF Sound, Linked, EventsLinked
<1>6. CallsLinked(u) /\ FlipsLinked(u)
  BY DEF Sound, Linked, CallsLinked, FlipsLinked, Under
<1>7. Waited(u)
  <2>1. \A c \in Crtcs : t.count[c] <= u.count[c]
    BY FieldTypes
  <2> QED BY <2>1, WaitedSame DEF Sound
<1>8. Framed(u)
  BY FramedSame DEF Sound, ToldSame
<1> QED BY <1>1, <1>2, <1>3, <1>4, <1>5, <1>6, <1>7, <1>8 DEF Sound, Linked

(* Present asks for the count. *)
LEMMA GetMscSound ==
  ASSUME Living, NEW t \in State, NEW c \in Crtcs, Sound(t), NEW u, u = GetMsc(t, c)
  PROVE  Sound(u)
<1> DEFINE w == Convert(t, c, t.count[c], t.hasSeq)
<1>1. u \in State
  BY GetMscType
<1>2. w \in State
  BY ConvertType, FieldTypes
<1>3. /\ KernelSame(w, t) /\ ListsSame(w, t) /\ BuffersSame(w, t) /\ ToldSame(w, t)
      /\ w.data = t.data /\ w.asked = t.asked
  BY ConvertKeeps
<1>4. u = [w EXCEPT !.answer = [given |-> Converted(w, c), true |-> t.count[c]]]
  BY DEF GetMsc
<1> HIDE DEF w
<1>5. /\ KernelSame(u, t) /\ ListsSame(u, t) /\ BuffersSame(u, t) /\ ToldSame(u, t)
      /\ u.data = t.data /\ u.asked = t.asked
  BY <1>2, <1>3, <1>4 DEF State, KernelSame, ListsSame, BuffersSame, ToldSame
<1>6. EntriesSame(u, t) /\ DataSame(u, t) /\ Coming(u) = Coming(t)
  BY <1>5 DEF Sound, Linked, Unique, EntriesSame, DataSame, Entries, Claims, Coming, ListsSame, KernelSame
<1> QED BY <1>1, <1>5, <1>6, SoundSame DEF KernelSame

(* A 32-bit target that is taken for passed has passed, as it is near. *)
LEMMA PassedIsPassed ==
  ASSUME NEW n \in Nat, NEW m \in Nat, m + Passed < n + Word, (n - (m % Word)) % Word <= Passed
  PROVE  m <= n
<1>1. PICK a \in Int : m - Rem(m, Word) = a * Word
  BY WordTurns
<1>2. Rem(m, Word) \in Int
  BY WordTurns
<1> DEFINE d == Rem(n - Rem(m, Word), Word)
<1>3. PICK b \in Int : (n - Rem(m, Word)) - d = b * Word
  BY <1>2, WordTurns
<1>4. d \in Nat /\ d <= Passed
  BY <1>2, WordTurns DEF Rem
<1> HIDE DEF d
<1>5. n - m = ((b - a) * Word) + d
  <2> DEFINE x == a * Word
             y == b * Word
             z == (b - a) * Word
  <2>1. x \in Int /\ y \in Int /\ z = y - x
    BY Widths
  <2> HIDE DEF x, y, z
  <2>2. m - Rem(m, Word) = x /\ (n - Rem(m, Word)) - d = y
    BY <1>1, <1>3 DEF x, y
  <2>3. n - m = z + d
    BY <1>2, <1>4, <2>1, <2>2
  <2> QED BY <2>3 DEF z
<1>6. SUFFICES ASSUME n < m PROVE FALSE
  OBVIOUS
<1> DEFINE q == b - a
<1>7. q \in Int /\ n - m = (q * Word) + d
  BY <1>5
<1> HIDE DEF q
<1>8. q <= -1
  <2>1. SUFFICES ASSUME q >= 0 PROVE FALSE
    BY <1>7
  <2>2. q * Word >= 0
    BY <1>7, <2>1, Widths
  <2>3. q * Word \in Int
    BY <1>7, Widths
  <2> QED BY <1>4, <1>6, <1>7, <2>2, <2>3
<1>9. q * Word \in Int /\ q * Word <= -Word
  BY <1>7, <1>8, Widths
<1> QED BY <1>4, <1>7, <1>9, Widths

(* What the kernel takes for passed has passed. *)
LEMMA TakenPassed ==
  ASSUME NEW t \in State, NEW m \in Nat, NEW n \in Nat, NEW r, r.msc = Target(t, m),
         m + Passed < n + Word, HasPassed(t, r, n)
  PROVE  m <= n
<1>1. CASE t.hasSeq
  BY <1>1 DEF HasPassed, Target
<1>2. CASE ~t.hasSeq
  <2>1. (n - (m % Word)) % Word <= Passed
    BY <1>2 DEF HasPassed, Target
  <2> QED BY <2>1, PassedIsPassed
<1> QED BY <1>1, <1>2

(* A vblank: the requests that are due become events, in time. *)
LEMMA VblankSound ==
  ASSUME Living, NEW t \in State, NEW c \in Crtcs, NEW news \in SetToSeqs(DueEvents(t, c)),
         Sound(t), Paired(t), NEW u, u = KernelVblank(t, c, news)
  PROVE  Sound(u)
<1> DEFINE D == Due(t, c)
           V == DueEvents(t, c)
           n == t.count[c] + 1
<1>1. u \in State /\ Coming(u) = Coming(t) \cup V
  BY KernelVblankType DEF Coming
<1>2. /\ u.count = [t.count EXCEPT ![c] = @ + 1] /\ u.requests = t.requests \ D
      /\ u.flips = t.flips /\ u.shows = t.shows /\ u.hasSeq = t.hasSeq
      /\ BuffersSame(u, t) /\ ToldSame(u, t) /\ ListsSame(u, t)
      /\ u.asked = t.asked /\ u.data = t.data
  BY DEF KernelVblank, State, BuffersSame, ToldSame, ListsSame
<1>3. EntriesSame(u, t) /\ DataSame(u, t)
  BY <1>2 DEF Sound, Linked, Unique, EntriesSame, DataSame, Entries, Claims, ListsSame
<1>4. /\ \A v \in V : \E r \in D : v.seq = r.seq /\ v.count = n
      /\ \A r \in D : \E v \in V : v.seq = r.seq
      /\ \A r \in D : r \in t.requests /\ r.crtc = c /\ HasPassed(t, r, n)
  <2>1. \A v : v \in V <=> \E r \in D : v = Sent(c, r.seq, n, t.hasSeq)
    <3> HIDE DEF D
    <3> QED BY DEF DueEvents, D
  <2>2. \A r \in D : r \in t.requests /\ r.crtc = c /\ HasPassed(t, r, n)
    BY DEF Due
  <2>3. \A seq : Sent(c, seq, n, t.hasSeq).seq = seq /\ Sent(c, seq, n, t.hasSeq).count = n
    BY DEF Sent
  <2> HIDE DEF D, V, n
  <2> QED BY <2>1, <2>2, <2>3
<1>5. t.count[c] \in Nat /\ n \in Nat
  BY FieldTypes
<1> HIDE DEF D, V, n
<1> USE DEF EntriesSame
<1>6. Unique(u) /\ Numbered(u)
  BY <1>3 DEF Sound, Linked, Unique, Numbered
<1>7. Apart(u)
  BY <1>1, <1>2, <1>3, <1>4 DEF Sound, Linked, Apart, Under
<1>8. Expected(u)
  <2> SUFFICES ASSUME NEW q \in Entries(t) PROVE Expects(u, q.seq)
    BY <1>3 DEF Expected
  <2>1. Expects(t, q.seq)
    BY DEF Sound, Linked, Expected
  <2> QED BY <1>1, <1>2, <1>3, <1>4, <2>1 DEF Expects, Under
<1>9. RequestsLinked(u)
  BY <1>2, <1>3 DEF Sound, Linked, RequestsLinked, Target
<1>10. EventsLinked(u)
  <2>1. ASSUME NEW q \in Entries(t), NEW v \in V, v.seq = q.seq
        PROVE  ~q.flip /\ t.asked[q.event].msc <= v.count
    <3>1. PICK r \in D : v.seq = r.seq /\ v.count = n /\ r \in t.requests /\ HasPassed(t, r, n) /\ r.crtc = c
      BY <1>4
    <3>2. ~q.flip /\ r.msc = Target(t, t.asked[q.event].msc)
      BY <2>1, <3>1 DEF Sound, Linked, RequestsLinked
    <3>3. q.crtc = c
      BY <2>1, <3>1, Pairs, ZenonT(30)
    <3>4. q.event \in Events /\ t.asked[q.event].msc \in Nat
      <4>1. q.event \in Events
        BY Sorts
      <4> QED BY <4>1, FieldTypes DEF Asked
    <3>5. t.asked[q.event].msc + Passed < n + Word
      <4>1. t.asked[q.event].msc + Passed < t.count[c] + Word
        BY <3>2, <3>3 DEF Sound, Waited, Near
      <4> QED BY <1>5, <3>4, <4>1, Widths DEF n
    <3>6. t.asked[q.event].msc <= n
      BY <1>5, <3>1, <3>2, <3>4, <3>5, TakenPassed
    <3> QED BY <3>1, <3>2, <3>6
  <2> QED BY <1>1, <1>2, <1>3, <2>1 DEF Sound, Linked, EventsLinked
<1>11. CallsLinked(u) /\ FlipsLinked(u)
  BY <1>2, <1>3 DEF Sound, Linked, CallsLinked, FlipsLinked, Under
<1>12. Waited(u)
  <2>1. \A d \in Crtcs : t.count[d] <= u.count[d]
    BY <1>2, FieldTypes
  <2> QED BY <1>1, <1>2, <1>3, <2>1, WaitedSame DEF Sound
<1>13. Framed(u)
  BY <1>1, <1>2, <1>3, FramedSame DEF Sound, ToldSame
<1> QED BY <1>6, <1>7, <1>8, <1>9, <1>10, <1>11, <1>12, <1>13 DEF Sound, Linked

(* A flip takes place. *)
LEMMA FlipSound ==
  ASSUME Living, NEW t \in State, NEW c \in Crtcs, Under(t, c), Sound(t), Paired(t),
         NEW u, u = KernelFlip(t, c)
  PROVE  Sound(u)
<1> DEFINE n == t.flips[c].seq
           v == Sent(c, n, t.count[c], FALSE)
<1>1. u \in State /\ Coming(u) = Coming(t) \cup {v} /\ v.seq = n
  BY KernelFlipType DEF Coming, Sent
<1>2. /\ u.shows = [t.shows EXCEPT ![c] = t.flips[c].fb] /\ u.flips = [t.flips EXCEPT ![c] = Nothing]
      /\ u.count = t.count /\ u.requests = t.requests /\ u.hasSeq = t.hasSeq
      /\ BuffersSame(u, t) /\ ToldSame(u, t) /\ ListsSame(u, t)
      /\ u.asked = t.asked /\ u.data = t.data
  BY DEF KernelFlip, State, BuffersSame, ToldSame, ListsSame
<1>3. EntriesSame(u, t) /\ DataSame(u, t)
  BY <1>2 DEF Sound, Linked, Unique, EntriesSame, DataSame, Entries, Claims, ListsSame
<1>4. \A d \in Crtcs : Under(u, d) => d # c /\ Under(t, d) /\ u.flips[d] = t.flips[d]
  BY <1>2, FieldTypes DEF Under
<1>5. \A d \in Crtcs : d # c => u.flips[d] = t.flips[d] /\ u.shows[d] = t.shows[d]
  BY <1>2, FieldTypes
<1>6. PICK q \in Entries(t) : q.seq = n /\ q.flip /\ q.crtc = c /\ q.event = t.flips[c].fb
  BY DEF Sound, Linked, FlipsLinked
<1>7. u.shows[c] = q.event
  BY <1>2, <1>6, FieldTypes
<1>8. q.event \in Events /\ WaitingFlip(t, q.event)
  BY <1>6, Sorts DEF Sound, Waited, Awaited, Wanted, WaitingFlip
<1>9. \A p \in Entries(t) : p.flip /\ p.crtc = c => p = q
  BY <1>6 DEF Sound, Framed, OneFlip
<1>10. \A p \in Entries(t) : p.seq = n => p = q
  BY <1>6, OneEntry DEF Sound, Linked, Unique
<1> HIDE DEF v
<1>11. Unique(u) /\ Numbered(u)
  BY <1>3 DEF Sound, Linked, Unique, Numbered, EntriesSame
<1>12. Apart(u)
  <2>1. \A d \in Crtcs : d # c /\ Under(t, d) => t.flips[d].seq # n
    <3> SUFFICES ASSUME NEW d \in Crtcs, d # c, Under(t, d), t.flips[d].seq = n PROVE FALSE
      OBVIOUS
    <3>1. PICK p \in Entries(t) : p.seq = n /\ p.crtc = d
      BY DEF Sound, Linked, FlipsLinked
    <3> QED BY <1>6, <1>10, <3>1
  <2>2. \A k \in Claims(t) : k.seq # n
    BY DEF Sound, Linked, Apart
  <2> QED BY <1>1, <1>2, <1>3, <1>4, <2>1, <2>2 DEF Sound, Linked, Apart, EntriesSame
<1>13. Expected(u)
  <2> SUFFICES ASSUME NEW p \in Entries(t) PROVE Expects(u, p.seq)
    BY <1>3 DEF Expected, EntriesSame
  <2>1. Expects(t, p.seq)
    BY DEF Sound, Linked, Expected
  <2> QED BY <1>1, <1>2, <1>3, <1>5, <2>1 DEF Expects, Under, EntriesSame
<1>14. RequestsLinked(u)
  BY <1>2, <1>3 DEF Sound, Linked, RequestsLinked, Target, EntriesSame
<1>15. EventsLinked(u)
  <2> SUFFICES ASSUME NEW p \in Entries(t), NEW w \in Coming(u), w.seq = p.seq
               PROVE  /\ p.flip => u.shows[p.crtc] = p.event
                      /\ ~p.flip => t.asked[p.event].msc <= w.count
    BY <1>2, <1>3 DEF EventsLinked, EntriesSame
  <2>0. p.crtc \in Crtcs
    BY Sorts
  <2>1. CASE p = q
    BY <1>6, <1>7, <2>1
  <2>2. CASE p # q
    <3>1. w \in Coming(t)
      BY <1>1, <1>10, <2>2
    <3>2. p.flip => p.crtc # c
      BY <1>9, <2>2
    <3> QED BY <1>5, <2>0, <3>1, <3>2 DEF Sound, Linked, EventsLinked
  <2> QED BY <2>1, <2>2
<1>16. CallsLinked(u) /\ FlipsLinked(u)
  BY <1>2, <1>3, <1>4 DEF Sound, Linked, CallsLinked, FlipsLinked, EntriesSame
<1>17. Waited(u)
  <2>1. \A d \in Crtcs : t.count[d] <= u.count[d]
    BY <1>2, FieldTypes
  <2> QED BY <1>1, <1>2, <1>3, <2>1, WaitedSame DEF Sound
<1>18. OneFlip(u)
  BY <1>2, <1>3 DEF Sound, Framed, OneFlip, WaitingFlip, EntriesSame, ToldSame
<1>19. AtRest(u)
  BY <1>2, <1>8 DEF Sound, Framed, AtRest, WaitingFlip, Used, BuffersSame, ToldSame
<1>20. InFlip(u)
  <2> SUFFICES ASSUME NEW e \in Events, WaitingFlip(t, e) PROVE BetweenTwo(u, e)
    BY <1>2 DEF InFlip, WaitingFlip, ToldSame
  <2>1. BetweenTwo(t, e) /\ e = q.event
    BY <1>8 DEF Sound, Framed, InFlip, OneFlip
  <2>2. \A d \in Crtcs : u.shows[d] = e \/ (Still(u.shows, d, t.data[e].old) /\ ToFlip(t, e, d))
    <3> TAKE d \in Crtcs
    <3>1. CASE d = c
      BY <1>7, <2>1, <3>1
    <3>2. CASE d # c
      <4>1. u.shows[d] = t.shows[d]
        BY <1>5, <3>2
      <4> QED BY <2>1, <4>1 DEF BetweenTwo, Still, Dark
    <3> QED BY <3>1, <3>2
  <2> QED BY <1>2, <1>3, <2>1, <2>2 DEF BetweenTwo, ToFlip, Used, BuffersSame, ToldSame, EntriesSame
<1>21. InCall(u)
  <2> SUFFICES ASSUME NEW k \in Claims(t), ForFlip(k)
               PROVE  /\ k.kind = t.asked[k.event].kind
                      /\ \A d \in Crtcs : k.crtc <= d => Still(u.shows, d, t.data[k.event].old)
                      /\ \A p \in Entries(t) : p.flip => p.crtc <= k.crtc
    BY <1>2, <1>3 DEF InCall, EntriesSame
  <2>1. /\ k.kind = t.asked[k.event].kind
        /\ \A d \in Crtcs : k.crtc <= d => Still(t.shows, d, t.data[k.event].old)
        /\ \A p \in Entries(t) : p.flip => p.crtc <= k.crtc
    BY DEF Sound, Framed, InCall
  <2>2. ~ (k.crtc <= c)
    <3>1. SUFFICES ASSUME k.crtc <= c PROVE FALSE
      OBVIOUS
    <3>2. k.crtc = c
      <4>1. c <= k.crtc
        BY <1>6, <2>1
      <4>2. c \in Int /\ k.crtc \in Int
        BY Sorts, SetupType DEF Crtcs
      <4> QED BY <3>1, <4>1, <4>2
    <3>3. PICK p \in Entries(t) : p.seq = k.seq /\ p.flip
      BY DEF Sound, Linked, CallsLinked
    <3>4. p.crtc = c
      BY <3>2, <3>3, Pairs
    <3>5. k.seq = n
      BY <1>6, <1>9, <3>3, <3>4
    <3> QED BY <3>5 DEF Sound, Linked, Apart
  <2>3. \A d \in Crtcs : k.crtc <= d => u.shows[d] = t.shows[d]
    BY <1>5, <2>2
  <2> QED BY <2>1, <2>3 DEF Still, Dark
<1>22. Referenced(u)
  BY <1>2, <1>3 DEF Sound, Framed, Referenced, References, Calling, FlipEntries, EntriesSame
<1> QED BY <1>11, <1>12, <1>13, <1>14, <1>15, <1>16, <1>17, <1>18, <1>19, <1>20, <1>21, <1>22
        DEF Sound, Linked, Framed

(* A new entry has a number that nothing has had. *)
LEMMA NewNumber ==
  ASSUME NEW t \in State, Linked(t), Paired(t)
  PROVE  /\ t.next \in Nat /\ 1 <= t.next
         /\ \A q \in Entries(t) : q.seq # t.next
         /\ \A k \in Claims(t) : k.seq # t.next
         /\ \A v \in Coming(t) : v.seq # t.next
         /\ \A r \in t.requests : r.seq # t.next
         /\ \A c \in Crtcs : Under(t, c) => t.flips[c].seq # t.next
<1>1. t.next \in Nat /\ 1 <= t.next
  BY FieldTypes DEF Linked, Numbered
<1>2. /\ \A q \in Entries(t) : q.seq \in Nat /\ q.seq < t.next
      /\ \A k \in Claims(t) : k.seq \in Nat /\ k.seq < t.next
      /\ \A v \in Coming(t) : v.seq \in Nat /\ v.seq < t.next
      /\ \A r \in t.requests : r.seq \in Nat /\ r.seq < t.next
  BY Pairs, Sorts
<1>3. \A c \in Crtcs : Under(t, c) => t.flips[c].seq \in Nat /\ t.flips[c].seq < t.next
  BY Pairs, FieldTypes
<1> QED BY <1>1, <1>2, <1>3

(* What Present has not asked for yet has no entry, no call and no reference. *)
LEMMA Unasked ==
  ASSUME NEW t \in State, Sound(t), NEW e \in Events, t.life[e] = "unused"
  PROVE  /\ \A q \in Entries(t) : q.event # e
         /\ \A k \in Claims(t) : k.event # e
         /\ \A f \in Events : WaitingFlip(t, f) => f # e /\ t.data[f].old # e
         /\ t.fb # e /\ t.tells[e] = 0
<1>1. \A q \in Entries(t) : q.event # e
  BY DEF Sound, Waited, Awaited, Wanted
<1>2. \A k \in Claims(t) : k.event # e
  BY <1>1 DEF Sound, Linked, CallsLinked
<1>3. \A f \in Events : WaitingFlip(t, f) => f # e /\ t.data[f].old # e
  BY DEF Sound, Framed, InFlip, BetweenTwo, Used, WaitingFlip
<1>4. t.fb # e /\ t.tells[e] = 0
  BY DEF Sound, Framed, AtRest, Used, Waited, Answered
<1> QED BY <1>1, <1>2, <1>3, <1>4

(* The parts that link numbers, when a call puts a new entry in the queue:    *)
(* the call has its number.                                                   *)
LEMMA LinkedMore ==
  ASSUME NEW t \in State, NEW u \in State, Linked(t), Paired(t),
         NEW q \in Entry, NEW k, q.seq = t.next, k.seq = t.next, k.event = q.event,
         q.flip <=> ForFlip(k), t.life[q.event] = "unused" \/ q.flip,
         u.next = t.next + 1, Distinct(u.queue), Distinct(u.calls),
         Entries(u) = Entries(t) \cup {q}, Claims(u) = Claims(t) \cup {k},
         Coming(u) = Coming(t), u.requests = t.requests, u.flips = t.flips, u.shows = t.shows,
         u.hasSeq = t.hasSeq,
         \A e \in Events : HasEntry(t, e) => u.asked[e].msc = t.asked[e].msc
  PROVE  Linked(u)
<1>1. Unique(u) /\ Numbered(u)
  BY NewNumber DEF Linked, Unique, Numbered
<1>2. Apart(u)
  BY NewNumber DEF Linked, Apart, Under
<1>3. Expected(u)
  BY DEF Linked, Expected, Expects, Under
<1>4. \A p \in Entries(t) : p.event \in Events /\ u.asked[p.event].msc = t.asked[p.event].msc
  BY Sorts DEF HasEntry
<1>5. RequestsLinked(u)
  BY <1>4, NewNumber DEF Linked, RequestsLinked, Target
<1>6. EventsLinked(u)
  BY <1>4, NewNumber DEF Linked, EventsLinked
<1>7. CallsLinked(u)
  BY DEF Linked, CallsLinked
<1>8. FlipsLinked(u)
  BY DEF Linked, FlipsLinked, Under
<1> QED BY <1>1, <1>2, <1>3, <1>5, <1>6, <1>7, <1>8 DEF Linked

(* Present asks for a vblank. *)
LEMMA QueueVblankSound ==
  ASSUME Living, NEW t \in State, NEW c \in Crtcs, NEW e \in Events, NEW msc \in Nat,
         Sound(t), Paired(t), t.life[e] = "unused", msc + Passed < t.count[c] + Word,
         NEW u, u = QueueVblank(t, c, e, msc)
  PROVE  Sound(u)
<1> DEFINE q == NewEntry(t, c, e, FALSE, FALSE)
           k == NewCall("vblank", e, 0, c, t.next)
           j == Claim(k)
<1>1. u \in State /\ u = VblankQueued(t, c, e, msc)
  BY QueueVblankType
<1>2. /\ u.next = t.next + 1 /\ u.queue = <<q>> \o t.queue /\ u.calls = <<k>> \o t.calls
      /\ u.life = [t.life EXCEPT ![e] = "waiting"]
      /\ u.asked = [t.asked EXCEPT ![e] = [kind |-> "vblank", crtc |-> c, msc |-> msc]]
      /\ u.events = t.events /\ u.requests = t.requests /\ u.flips = t.flips /\ u.shows = t.shows
      /\ u.hasSeq = t.hasSeq /\ u.count = t.count /\ u.tells = t.tells /\ u.data = t.data
      /\ BuffersSame(u, t)
  BY <1>1 DEF VblankQueued, State, BuffersSame
<1>3. /\ q \in Entry /\ q.seq = t.next /\ q.crtc = c /\ q.event = e /\ q.flip = FALSE
      /\ k \in Call /\ k.seq = t.next
      /\ j.seq = t.next /\ j.crtc = c /\ j.event = e /\ j.kind = "vblank"
  <2>1. t.next \in Nat /\ 0 \in 0..NumCrtcs
    BY FieldTypes, SetupType
  <2>2. q \in Entry /\ q.seq = t.next /\ q.crtc = c /\ q.event = e /\ q.flip = FALSE
    BY <2>1 DEF NewEntry, Entry
  <2>3. k \in Call /\ k.seq = t.next
    BY <2>1 DEF NewCall, Call
  <2>4. j.seq = t.next /\ j.crtc = c /\ j.event = e /\ j.kind = "vblank"
    BY DEF NewCall, Claim
  <2> QED BY <2>2, <2>3, <2>4
<1> HIDE DEF q, k, j
<1>4. /\ Distinct(u.queue) /\ Entries(u) = Entries(t) \cup {q}
      /\ Distinct(u.calls) /\ Claims(u) = Claims(t) \cup {j}
  <2>1. Distinct(u.queue) /\ Entries(u) = Entries(t) \cup {q}
    <3>1. Distinct(t.queue) /\ \A p \in Entries(t) : p.seq # q.seq
      BY <1>3, NewNumber DEF Sound, Linked, Unique
    <3> QED BY <1>2, <1>3, <3>1, EntryPushed, ZenonT(30)
  <2>2. Distinct(u.calls) /\ Claims(u) = Claims(t) \cup {Claim(k)}
    <3>1. Distinct(t.calls) /\ \A i \in Claims(t) : i.seq # k.seq
      BY <1>3, NewNumber DEF Sound, Linked, Unique
    <3> QED BY <1>2, <1>3, <3>1, CallPushed, ZenonT(30)
  <2> QED BY <2>1, <2>2 DEF j
<1>5. Coming(u) = Coming(t)
  BY <1>2 DEF Coming
<1>6. /\ u.life[e] = "waiting" /\ u.asked[e] = [kind |-> "vblank", crtc |-> c, msc |-> msc]
      /\ \A f \in Events : f # e => u.life[f] = t.life[f] /\ u.asked[f] = t.asked[f]
  BY <1>2, FieldTypes
<1>7. /\ \A p \in Entries(t) : p.event \in Events /\ p.event # e
      /\ \A i \in Claims(t) : i.event \in Events /\ i.event # e
  BY Sorts, Unasked
<1>8. Linked(u)
  <2>1. \A f \in Events : HasEntry(t, f) => u.asked[f].msc = t.asked[f].msc
    BY <1>6, <1>7 DEF HasEntry
  <2>2. q.flip <=> ForFlip(j)
    BY <1>3 DEF ForFlip
  <2>3. t.life[q.event] = "unused"
    BY <1>3
  <2>4. q.seq = t.next /\ j.seq = t.next /\ j.event = q.event
    BY <1>3
  <2> QED BY <1>1, <1>2, <1>3, <1>4, <1>5, <2>1, <2>2, <2>3, <2>4, LinkedMore DEF Sound
<1>9. Near(u)
  BY <1>2, <1>3, <1>4, <1>6, <1>7 DEF Sound, Waited, Near
<1>10. Awaited(u)
  <2>1. \A p \in Entries(u) : Wanted(u, p)
    BY <1>3, <1>4, <1>6, <1>7 DEF Sound, Waited, Awaited, Wanted
  <2>2. \A f \in Events : u.life[f] = "waiting" => HasEntry(u, f)
    BY <1>3, <1>4, <1>6 DEF Sound, Waited, Awaited, HasEntry
  <2>3. \A f \in Events : u.life[f] = "unused" <=> u.asked[f].kind = "none"
    BY <1>6 DEF Sound, Waited, Awaited
  <2> QED BY <2>1, <2>2, <2>3 DEF Awaited
<1>11. Answered(u)
  BY <1>2, <1>6 DEF Sound, Waited, Answered
<1>12. \A f \in Events : WaitingFlip(u, f) => f # e /\ WaitingFlip(t, f)
  BY <1>6 DEF WaitingFlip, FlipKinds
<1>13. \A f \in Events : WaitingFlip(t, f) => WaitingFlip(u, f)
  BY <1>6, Unasked DEF WaitingFlip
<1>14. OneFlip(u)
  BY <1>3, <1>4, <1>12 DEF Sound, Framed, OneFlip, ForFlip
<1>15. \A fb : Used(t, fb) => Used(u, fb)
  BY <1>6 DEF Used
<1>16. AtRest(u)
  BY <1>2, <1>13, <1>15 DEF Sound, Framed, AtRest, BuffersSame
<1>17. InFlip(u)
  <2> SUFFICES ASSUME NEW f \in Events, WaitingFlip(t, f) PROVE BetweenTwo(u, f)
    BY <1>12 DEF InFlip
  <2>1. BetweenTwo(t, f)
    BY DEF Sound, Framed, InFlip
  <2>2. \A d \in Crtcs : ToFlip(t, f, d) => ToFlip(u, f, d)
    BY <1>4 DEF ToFlip
  <2> QED BY <1>2, <1>15, <2>1, <2>2 DEF BetweenTwo, BuffersSame
<1>18. InCall(u)
  BY <1>2, <1>3, <1>4, <1>6, <1>7 DEF Sound, Framed, InCall, ForFlip
<1>19. Referenced(u)
  <2>1. \A f \in Events : FlipEntries(u, f) = FlipEntries(t, f)
    BY <1>3, <1>4 DEF FlipEntries
  <2>2. \A f \in Events : Calling(u, f) <=> Calling(t, f)
    BY <1>3, <1>4 DEF Calling, ForFlip
  <2> QED BY <1>2, <2>1, <2>2, RefersSame DEF Sound, Framed, Referenced
<1> QED BY <1>8, <1>9, <1>10, <1>11, <1>14, <1>16, <1>17, <1>18, <1>19 DEF Sound, Waited, Framed

(* The parts that link numbers speak of the lists and of the kernel only. *)
LEMMA LinkedSame ==
  ASSUME NEW t \in State, NEW u \in State, Linked(t), EntriesSame(u, t),
         u.requests = t.requests, u.flips = t.flips, u.shows = t.shows, u.hasSeq = t.hasSeq,
         Coming(u) = Coming(t), \A e \in Events : u.asked[e].msc = t.asked[e].msc
  PROVE  Linked(u)
<1> USE DEF EntriesSame
<1>1. Unique(u) /\ Numbered(u) /\ Apart(u) /\ Expected(u)
  BY DEF Linked, Unique, Numbered, Apart, Expected, Expects, Under
<1>2. RequestsLinked(u) /\ EventsLinked(u)
  <2>1. \A q \in Entries(t) : q.event \in Events
    BY Sorts
  <2> QED BY <2>1 DEF Linked, RequestsLinked, EventsLinked, Target
<1>3. CallsLinked(u) /\ FlipsLinked(u)
  BY DEF Linked, CallsLinked, FlipsLinked, Under
<1> QED BY <1>1, <1>2, <1>3 DEF Linked

(* The framebuffers depend on flips only. *)
FlipsSame(u, t) ==
  /\ \A q : q.flip => (q \in Entries(u) <=> q \in Entries(t))
  /\ \A k : ForFlip(k) => (k \in Claims(u) <=> k \in Claims(t))
  /\ \A e \in Events : /\ WaitingFlip(u, e) <=> WaitingFlip(t, e)
                       /\ t.life[e] # "unused" => u.life[e] # "unused"
                       /\ WaitingFlip(t, e) => u.asked[e].kind = t.asked[e].kind

(* What flips and framebuffers depend on. *)
LEMMA FramedKept ==
  ASSUME NEW t \in State, NEW u \in State, Sound(t), FlipsSame(u, t), DataSame(u, t),
         BuffersSame(u, t), u.shows = t.shows
  PROVE  Framed(u)
<1> USE DEF FlipsSame, BuffersSame
<1>1. OneFlip(u) /\ AtRest(u)
  BY DEF Sound, Framed, OneFlip, AtRest, Used
<1>2. InFlip(u)
  BY Widths DEF Sound, Framed, InFlip, BetweenTwo, Used, ToFlip, DataSame
<1>3. InCall(u)
  <2> SUFFICES ASSUME NEW k \in Claims(t), ForFlip(k)
               PROVE  /\ k.kind = u.asked[k.event].kind
                      /\ \A c \in Crtcs : k.crtc <= c => Still(u.shows, c, u.data[k.event].old)
                      /\ \A q \in Entries(u) : q.flip => q.crtc <= k.crtc
    BY DEF InCall
  <2>1. /\ k.kind = t.asked[k.event].kind
        /\ \A c \in Crtcs : k.crtc <= c => Still(t.shows, c, t.data[k.event].old)
        /\ \A q \in Entries(t) : q.flip => q.crtc <= k.crtc
    BY DEF Sound, Framed, InCall
  <2>2. k.event \in Events
    BY Sorts
  <2>3. WaitingFlip(t, k.event)
    <3>1. PICK q \in Entries(t) : q.event = k.event /\ q.flip
      BY DEF Sound, Linked, CallsLinked
    <3> QED BY <3>1 DEF Sound, Waited, Awaited, Wanted, WaitingFlip
  <2> QED BY <2>1, <2>2, <2>3 DEF DataSame
<1>4. Referenced(u)
  <2>1. \A e \in Events : FlipEntries(u, e) = FlipEntries(t, e)
    BY DEF FlipEntries
  <2>2. \A e \in Events : Calling(u, e) <=> Calling(t, e)
    BY DEF Calling
  <2> QED BY <2>1, <2>2, RefersSame DEF Sound, Framed, Referenced, DataSame
<1> QED BY <1>1, <1>2, <1>3, <1>4 DEF Framed

(* Every call for a flip, every flip under way and every entry for one is for *)
(* the flip that Present waits for.                                           *)
LEMMA FlipsWaited ==
  ASSUME NEW t \in State, Sound(t)
  PROVE  /\ \A q \in Entries(t) : q.flip => WaitingFlip(t, q.event)
         /\ \A k \in Claims(t) : ForFlip(k) => WaitingFlip(t, k.event)
         /\ \A c \in Crtcs : Under(t, c) => WaitingFlip(t, t.flips[c].fb)
<1>1. \A q \in Entries(t) : q.flip => WaitingFlip(t, q.event)
  BY DEF Sound, Waited, Awaited, Wanted, WaitingFlip
<1>2. \A k \in Claims(t) : ForFlip(k) => \E q \in Entries(t) : q.flip /\ q.event = k.event
  BY DEF Sound, Linked, CallsLinked
<1>3. \A c \in Crtcs : Under(t, c) => \E q \in Entries(t) : q.flip /\ q.event = t.flips[c].fb
  BY DEF Sound, Linked, FlipsLinked
<1> QED BY <1>1, <1>2, <1>3

(* Present asks for a flip, and the first CRTC is asked. *)
LEMMA DoPageflipSound ==
  ASSUME Living, NEW t \in State, NEW kind \in {"flip", "unflip"}, NEW e \in Events,
         NEW ref \in 0..NumCrtcs, Sound(t), Tallied(t), t.life[e] = "unused",
         \A f \in Events : ~WaitingFlip(t, f), NEW u, u = DoPageflip(t, kind, e, ref)
  PROVE  Sound(u)
<1> DEFINE v == Begun(t, kind, e)
           q == NewEntry(v, 1, e, TRUE, 1 = ref)
           k == NewCall(kind, e, ref, 1, v.next)
           j == Claim(k)
           d == Held(v, e, v.data[e].refs + 1)
<1>1. u \in State /\ u = CrtcStarted(v, kind, e, ref, 1)
  BY DoPageflipType
<1>2. v \in State /\ Tallied(v)
  BY BegunType, BegunTallied
<1>3. /\ v.life = [t.life EXCEPT ![e] = "waiting"]
      /\ v.asked = [t.asked EXCEPT ![e] = [t.asked[e] EXCEPT !.kind = kind]]
      /\ v.data = [t.data EXCEPT ![e] = [refs |-> 1, old |-> t.fb, msc |-> 0, true |-> 0]]
      /\ v.fb = e /\ v.fbs = t.fbs \cup {e} /\ v.tells = t.tells
      /\ KernelSame(v, t) /\ ListsSame(v, t)
  BY DEF Begun, State, KernelSame, ListsSame
<1> HIDE DEF v
<1>4. 1 \in Crtcs /\ v.next \in Nat
  BY <1>2, FieldTypes, SetupType DEF Crtcs
<1>5. /\ q \in Entry /\ q.seq = v.next /\ q.crtc = 1 /\ q.event = e /\ q.flip = TRUE
      /\ k \in Call /\ k.seq = v.next
      /\ j.seq = v.next /\ j.crtc = 1 /\ j.event = e /\ j.kind = kind
  <2>1. q \in Entry /\ q.seq = v.next /\ q.crtc = 1 /\ q.event = e /\ q.flip = TRUE
    BY <1>4 DEF NewEntry, Entry
  <2>2. k \in Call /\ k.seq = v.next
    BY <1>4 DEF NewCall, Call
  <2>3. j.seq = v.next /\ j.crtc = 1 /\ j.event = e /\ j.kind = kind
    BY DEF NewCall, Claim
  <2> QED BY <2>1, <2>2, <2>3
<1>6. /\ u.next = v.next + 1 /\ u.queue = <<q>> \o v.queue /\ u.calls = <<k>> \o v.calls
      /\ u.data = d /\ KernelSame(u, v) /\ BuffersSame(u, v) /\ ToldSame(u, v) /\ u.asked = v.asked
  BY <1>1, <1>2 DEF CrtcStarted, State, KernelSame, BuffersSame, ToldSame
<1> HIDE DEF q, k, j
<1>7. Linked(v)
  <2>1. EntriesSame(v, t) /\ Coming(v) = Coming(t)
    BY <1>3 DEF Sound, Linked, Unique, EntriesSame, Entries, Claims, Coming, ListsSame, KernelSame
  <2>2. \A f \in Events : v.asked[f].msc = t.asked[f].msc
    <3>1. t.asked \in [Events -> Asked]
      BY FieldTypes
    <3> QED BY <1>3, <3>1 DEF Asked
  <2> QED BY <1>2, <1>3, <2>1, <2>2, LinkedSame DEF Sound, KernelSame
<1>8. Paired(v)
  BY <1>2 DEF Tallied
<1>9. /\ Distinct(u.queue) /\ Entries(u) = Entries(v) \cup {q}
      /\ Distinct(u.calls) /\ Claims(u) = Claims(v) \cup {j}
  <2>1. Distinct(u.queue) /\ Entries(u) = Entries(v) \cup {q}
    <3>1. Distinct(v.queue) /\ \A p \in Entries(v) : p.seq # q.seq
      BY <1>2, <1>5, <1>7, <1>8, NewNumber DEF Linked, Unique
    <3> QED BY <1>2, <1>5, <1>6, <3>1, EntryPushed
  <2>2. Distinct(u.calls) /\ Claims(u) = Claims(v) \cup {Claim(k)}
    <3>1. Distinct(v.calls) /\ \A i \in Claims(v) : i.seq # k.seq
      BY <1>2, <1>5, <1>7, <1>8, NewNumber DEF Linked, Unique
    <3> QED BY <1>2, <1>5, <1>6, <3>1, CallPushed
  <2> QED BY <2>1, <2>2 DEF j
<1>10. Entries(v) = Entries(t) /\ Claims(v) = Claims(t)
  BY <1>3 DEF Entries, Claims, ListsSame
<1>11. Linked(u)
  <2>1. q.flip <=> ForFlip(j)
    BY <1>5 DEF ForFlip
  <2>2. q.seq = v.next /\ j.seq = v.next /\ j.event = q.event /\ q.flip
    BY <1>5
  <2>3. \A f \in Events : u.asked[f].msc = v.asked[f].msc
    BY <1>6
  <2> QED BY <1>1, <1>2, <1>5, <1>6, <1>7, <1>8, <1>9, <2>1, <2>2, <2>3, LinkedMore
          DEF KernelSame, Coming
<1>12. /\ u.life[e] = "waiting" /\ u.asked[e].kind = kind
       /\ \A f \in Events : f # e => u.life[f] = t.life[f] /\ u.asked[f] = t.asked[f]
  <2>1. t.asked \in [Events -> Asked] /\ t.life \in [Events -> Life]
    BY FieldTypes
  <2> QED BY <1>3, <1>6, <2>1 DEF ToldSame, Asked
<1>13. /\ u.data[e].refs = 2 /\ u.data[e].old = t.fb
       /\ \A f \in Events : f # e => u.data[f].refs = t.data[f].refs /\ u.data[f].old = t.data[f].old
  <2>1. t.data \in [Events -> Data] /\ v.data \in [Events -> Data]
    BY <1>2, FieldTypes
  <2>2. v.data[e].refs = 1 /\ v.data[e].old = t.fb /\ \A f \in Events : f # e => v.data[f] = t.data[f]
    BY <1>3, <2>1
  <2>3. /\ d[e].refs = 2 /\ d[e].old = v.data[e].old
        /\ \A f \in Events : f # e => d[f] = v.data[f]
    BY <2>1, <2>2 DEF Held, Data
  <2> QED BY <1>6, <2>2, <2>3
<1>14. /\ \A p \in Entries(t) : p.event \in Events /\ p.event # e /\ ~p.flip
       /\ \A i \in Claims(t) : i.event \in Events /\ i.event # e /\ ~ForFlip(i)
       /\ t.fb # e /\ t.tells[e] = 0
  BY Sorts, Unasked, FlipsWaited
<1>15. ForFlip(j) /\ kind \in FlipKinds
  BY <1>5 DEF ForFlip, FlipKinds
<1>16. u.count = t.count /\ u.shows = t.shows /\ u.tells = t.tells /\ u.fb = e /\ u.fbs = t.fbs \cup {e}
  BY <1>3, <1>6 DEF KernelSame, ToldSame, BuffersSame
<1> HIDE DEF d
<1>17. Near(u)
  BY <1>5, <1>9, <1>10, <1>12, <1>14, <1>16 DEF Sound, Waited, Near
<1>18. Awaited(u)
  <2>1. \A p \in Entries(u) : Wanted(u, p)
    BY <1>5, <1>9, <1>10, <1>12, <1>14, <1>15 DEF Sound, Waited, Awaited, Wanted
  <2>2. \A f \in Events : u.life[f] = "waiting" => HasEntry(u, f)
    BY <1>5, <1>9, <1>10, <1>12 DEF Sound, Waited, Awaited, HasEntry
  <2>3. \A f \in Events : u.life[f] = "unused" <=> u.asked[f].kind = "none"
    BY <1>12 DEF Sound, Waited, Awaited
  <2> QED BY <2>1, <2>2, <2>3 DEF Awaited
<1>19. Answered(u)
  BY <1>12, <1>14, <1>16 DEF Sound, Waited, Answered
<1>20. /\ WaitingFlip(u, e) /\ \A f \in Events : WaitingFlip(u, f) => f = e
       /\ \A fb : Used(t, fb) => Used(u, fb)
  BY <1>12, <1>15 DEF WaitingFlip, Used
<1>21. OneFlip(u)
  BY <1>9, <1>10, <1>14, <1>20 DEF OneFlip
<1>22. t.fbs = {t.fb} /\ Used(t, t.fb) /\ \A c \in Crtcs : Still(t.shows, c, t.fb)
  BY DEF Sound, Framed, AtRest
<1>23. AtRest(u)
  BY <1>12, <1>16, <1>20 DEF AtRest, Used
<1>24. InFlip(u)
  <2>1. \A c \in Crtcs : ToFlip(u, e, c)
    <3> TAKE c \in Crtcs
    <3>1. c = 1 \/ 1 < c
      BY SetupType DEF Crtcs
    <3> QED BY <1>5, <1>9, <1>15, <3>1 DEF ToFlip
  <2>2. BetweenTwo(u, e)
    BY <1>13, <1>14, <1>16, <1>20, <1>22, <2>1 DEF BetweenTwo
  <2> QED BY <1>20, <2>2 DEF InFlip
<1>25. InCall(u)
  BY <1>5, <1>9, <1>10, <1>12, <1>13, <1>14, <1>16, <1>22 DEF InCall
<1>26. Referenced(u)
  <2>1. FlipEntries(u, e) = {q} /\ Calling(u, e)
    BY <1>5, <1>9, <1>10, <1>14, <1>15 DEF FlipEntries, Calling
  <2>2. References(u, e) = 2
    BY <1>1, <2>1, Refers
  <2>3. \A f \in Events : f # e => FlipEntries(u, f) = FlipEntries(t, f) /\ (Calling(u, f) <=> Calling(t, f))
    BY <1>5, <1>9, <1>10 DEF FlipEntries, Calling
  <2>4. \A f \in Events : f # e => References(u, f) = References(t, f)
    BY <2>3, RefersSame
  <2>5. \A f \in Events : t.data[f].refs = References(t, f)
    BY DEF Sound, Framed, Referenced
  <2> QED BY <1>13, <2>2, <2>4, <2>5 DEF Referenced
<1> QED BY <1>11, <1>17, <1>18, <1>19, <1>21, <1>23, <1>24, <1>25, <1>26 DEF Sound, Waited, Framed

(* An entry for a vblank is gone, and so are the call and the event with its  *)
(* number: Present waits for it no longer.                                    *)
LEMMA VblankGone ==
  ASSUME NEW t \in State, NEW u \in State, Sound(t), NEW q \in Entries(t), ~q.flip,
         Distinct(u.queue), Distinct(u.calls), u.next = t.next,
         Entries(u) = Entries(t) \ {q}, Claims(u) = {k \in Claims(t) : k.seq # q.seq},
         Coming(u) \subseteq Coming(t), \A v \in Coming(t) : v \in Coming(u) \/ v.seq = q.seq,
         u.count = t.count, u.requests = t.requests, u.flips = t.flips, u.shows = t.shows,
         u.hasSeq = t.hasSeq, u.asked = t.asked, DataSame(u, t), BuffersSame(u, t),
         u.life[q.event] \in {"told", "aborted", "refused"},
         \A f \in Events : f # q.event => u.life[f] = t.life[f], Answered(u)
  PROVE  Sound(u)
<1>1. Unique(u) /\ Numbered(u)
  BY DEF Sound, Linked, Unique, Numbered
<1>2. Apart(u)
  BY DEF Sound, Linked, Apart, Under
<1>3. \A p \in Entries(u) : p \in Entries(t) /\ p # q /\ p.seq # q.seq
  BY OneEntry DEF Sound, Linked, Unique
<1>4. Expected(u)
  BY <1>3 DEF Sound, Linked, Expected, Expects, Under
<1>5. RequestsLinked(u) /\ EventsLinked(u)
  BY DEF Sound, Linked, RequestsLinked, EventsLinked, Target
<1>6. CallsLinked(u) /\ FlipsLinked(u)
  BY DEF Sound, Linked, CallsLinked, FlipsLinked, Under
<1>7. /\ t.life[q.event] = "waiting" /\ t.asked[q.event].kind = "vblank" /\ q.event \in Events
      /\ \A p \in Entries(t) : p.event = q.event => p = q
  BY Sorts DEF Sound, Waited, Awaited, Wanted
<1>8. Near(u)
  BY DEF Sound, Waited, Near
<1>9. \A p \in Entries(u) : p.event # q.event /\ p.event \in Events
  BY <1>3, <1>7, Sorts
<1>10. Awaited(u)
  <2>1. \A p \in Entries(u) : Wanted(u, p)
    BY <1>3, <1>9 DEF Sound, Waited, Awaited, Wanted
  <2>2. \A f \in Events : u.life[f] = "waiting" => HasEntry(u, f)
    <3> SUFFICES ASSUME NEW f \in Events, u.life[f] = "waiting" PROVE HasEntry(u, f)
      OBVIOUS
    <3>1. f # q.event /\ t.life[f] = "waiting"
      OBVIOUS
    <3> QED BY <3>1 DEF Sound, Waited, Awaited, HasEntry
  <2>3. \A f \in Events : u.life[f] = "unused" <=> u.asked[f].kind = "none"
    BY <1>7 DEF Sound, Waited, Awaited
  <2> QED BY <2>1, <2>2, <2>3 DEF Awaited
<1>11. FlipsSame(u, t)
  <2>1. \A k : ForFlip(k) => (k \in Claims(u) <=> k \in Claims(t))
    <3>1. \A k \in Claims(t) : ForFlip(k) => k.seq # q.seq
      <4> SUFFICES ASSUME NEW k \in Claims(t), ForFlip(k), k.seq = q.seq PROVE FALSE
        OBVIOUS
      <4>1. PICK p \in Entries(t) : p.seq = k.seq /\ p.flip
        BY DEF Sound, Linked, CallsLinked
      <4> QED BY <4>1, OneEntry DEF Sound, Linked, Unique
    <3> QED BY <3>1
  <2>2. \A p : p.flip => (p \in Entries(u) <=> p \in Entries(t))
    OBVIOUS
  <2>3. \A f \in Events : WaitingFlip(u, f) <=> WaitingFlip(t, f)
    BY <1>7 DEF WaitingFlip, FlipKinds
  <2> QED BY <2>1, <2>2, <2>3 DEF FlipsSame
<1>12. Framed(u)
  BY <1>11, FramedKept
<1> QED BY <1>1, <1>2, <1>4, <1>5, <1>6, <1>8, <1>10, <1>12 DEF Sound, Linked, Waited

(* A flip is over, or was taken back, or the modes are set: no flip is left,  *)
(* and one framebuffer.                                                       *)
LEMMA FlipGone ==
  ASSUME NEW t \in State, NEW u \in State, Sound(t), NEW e \in Events,
         \A f \in Events : WaitingFlip(t, f) => f = e,
         \A p \in Entries(t) : p.event = e => p.flip,
         Distinct(u.queue), Distinct(u.calls), u.next = t.next,
         \A p : p \in Entries(u) <=> p \in Entries(t) /\ ~p.flip,
         \A k : k \in Claims(u) <=> k \in Claims(t) /\ ~ForFlip(k),
         Coming(u) \subseteq Coming(t),
         \A v \in Coming(t) : v \in Coming(u) \/ \A p \in Entries(u) : p.seq # v.seq,
         u.count = t.count, u.requests = t.requests, u.hasSeq = t.hasSeq,
         \A c \in Crtcs : ~Under(u, c),
         \A f \in Events : f # e => u.asked[f] = t.asked[f] /\ u.life[f] = t.life[f]
                                    /\ u.data[f].refs = t.data[f].refs,
         u.life[e] \in {"told", "refused"}, u.asked[e].kind \in FlipKinds, u.data[e].refs = 0,
         u.fbs = {u.fb}, Used(u, u.fb), \A c \in Crtcs : Still(u.shows, c, u.fb), Answered(u)
  PROVE  Sound(u)
<1>1. Unique(u) /\ Numbered(u) /\ Apart(u)
  BY DEF Sound, Linked, Unique, Numbered, Apart
<1>2. \A p \in Entries(u) : p \in Entries(t) /\ ~p.flip /\ p.event \in Events /\ p.event # e
  BY Sorts
<1>3. Expected(u)
  <2> SUFFICES ASSUME NEW p \in Entries(u) PROVE Expects(u, p.seq)
    BY DEF Expected
  <2>1. \A q \in Entries(t) : q.seq = p.seq => ~q.flip
    <3> SUFFICES ASSUME NEW q \in Entries(t), q.seq = p.seq PROVE q = p
      BY <1>2
    <3> QED BY <1>2, OneEntry DEF Sound, Linked, Unique
  <2>2. Expects(t, p.seq)
    BY <1>2 DEF Sound, Linked, Expected
  <2>3. ~ \E c \in Crtcs : Under(t, c) /\ t.flips[c].seq = p.seq
    BY <2>1 DEF Sound, Linked, FlipsLinked
  <2>4. \A k \in Claims(t) : k.seq = p.seq => ~ForFlip(k)
    BY <2>1 DEF Sound, Linked, CallsLinked
  <2> QED BY <2>2, <2>3, <2>4 DEF Expects
<1>4. RequestsLinked(u)
  BY <1>2 DEF Sound, Linked, RequestsLinked, Target
<1>5. EventsLinked(u)
  BY <1>2 DEF Sound, Linked, EventsLinked
<1>6. CallsLinked(u)
  BY DEF Sound, Linked, CallsLinked
<1>7. FlipsLinked(u)
  BY DEF FlipsLinked
<1>8. Near(u)
  BY <1>2 DEF Sound, Waited, Near
<1>9. Awaited(u)
  <2>1. \A p \in Entries(u) : Wanted(u, p)
    BY <1>2 DEF Sound, Waited, Awaited, Wanted
  <2>2. ASSUME NEW f \in Events, u.life[f] = "waiting" PROVE HasEntry(u, f)
    <3>1. f # e /\ t.life[f] = "waiting"
      BY <2>2
    <3>2. PICK p \in Entries(t) : p.event = f
      BY <3>1 DEF Sound, Waited, Awaited, HasEntry
    <3>3. ~p.flip
      BY <3>1, <3>2, FlipsWaited
    <3> QED BY <3>2, <3>3 DEF HasEntry
  <2>3. \A f \in Events : u.life[f] = "unused" <=> u.asked[f].kind = "none"
    BY DEF Sound, Waited, Awaited, FlipKinds
  <2> QED BY <2>1, <2>2, <2>3 DEF Awaited
<1>10. \A f \in Events : ~WaitingFlip(u, f)
  BY DEF WaitingFlip
<1>11. OneFlip(u)
  BY <1>2, <1>10 DEF OneFlip
<1>12. AtRest(u) /\ InFlip(u) /\ InCall(u)
  BY <1>10 DEF AtRest, InFlip, InCall
<1>13. Referenced(u)
  <2>1. \A f \in Events : FlipEntries(u, f) = {} /\ ~Calling(u, f)
    BY DEF FlipEntries, Calling
  <2>2. \A f \in Events : f # e => FlipEntries(t, f) = {} /\ ~Calling(t, f)
    BY FlipsWaited DEF FlipEntries, Calling
  <2>3. \A f \in Events : References(u, f) = 0 /\ (f # e => References(t, f) = 0)
    BY <2>1, <2>2, Refers
  <2>4. \A f \in Events : t.data[f].refs = References(t, f)
    BY DEF Sound, Framed, Referenced
  <2> QED BY <2>3, <2>4 DEF Referenced
<1> QED BY <1>1, <1>3, <1>4, <1>5, <1>6, <1>7, <1>8, <1>9, <1>11, <1>12, <1>13
        DEF Sound, Linked, Waited, Framed

(* Present takes back what it waits for: the entry that matches is one for a  *)
(* vblank, as event ids are not those a flip's data begins with.              *)
LEMMA AbortedSound ==
  ASSUME Living, Cooperates, NEW t \in State, NEW e \in Events, Sound(t), ~Busy(t),
         t.asked[e].kind = "vblank", t.life[e] = "waiting", NEW u, u = Aborted(t, e)
  PROVE  Sound(u)
<1> DEFINE at == {i \in DOMAIN t.queue : Matches(t.queue[i], e)}
           i == CHOOSE i \in at : \A j \in at : i <= j
           w == AbortMatch(t, e)
           q == t.queue[i]
<1>1. DOMAIN t.queue = 1..Len(t.queue)
  BY FieldTypes, LenProperties
<1>2. PICK p \in Entries(t) : p.event = e /\ ~p.flip
  <2>1. PICK p \in Entries(t) : p.event = e
    BY DEF Sound, Waited, Awaited, HasEntry
  <2>2. ~p.flip
    BY <2>1 DEF Sound, Waited, Awaited, Wanted, FlipKinds
  <2> QED BY <2>1, <2>2
<1>3. at # {}
  <2>1. PICK k \in 1..Len(t.queue) : p = t.queue[k]
    BY DEF Entries, On
  <2> QED BY <1>1, <1>2, <2>1 DEF Matches
<1>4. i \in at
  <2>1. at \in SUBSET (1..Len(t.queue))
    BY <1>1
  <2>2. Len(t.queue) \in Nat
    BY FieldTypes
  <2> DEFINE S == at
  <2> HIDE DEF at
  <2>3. \E k \in S : \A j \in S : k <= j
    BY <1>3, <2>1, <2>2, FirstPlace
  <2> QED BY <2>3
<1>5. i \in 1..Len(t.queue) /\ Matches(t.queue[i], e)
  BY <1>1, <1>4
<1>6. w = AbortOne(t, i)
  BY <1>3 DEF AbortMatch
<1> HIDE DEF i
<1>7. q \in Entries(t)
  BY <1>5 DEF Entries, On
<1>8. ~q.flip /\ q.event = e
  <2>1. e # 0 /\ e # 1
    BY Widths DEF Cooperates, Events
  <2>2. q.flip \in BOOLEAN
    BY <1>7, Sorts
  <2>3. IF q.flip THEN e = (IF q.ref THEN 1 ELSE 0) ELSE q.event = e
    BY <1>5 DEF Matches
  <2> HIDE DEF q
  <2> QED BY <2>1, <2>2, <2>3
<1> HIDE DEF at
<1>9. /\ w \in State /\ w.queue = RemoveAt(t.queue, i)
      /\ KernelSame(w, t) /\ SeenSame(w, t) /\ BuffersSame(w, t) /\ ToldSame(w, t)
      /\ w.next = t.next /\ w.calls = t.calls /\ w.asked = t.asked /\ w.data = t.data
  <2> DEFINE x == w
  <2>1. x = AbortOne(t, i)
    BY <1>6
  <2> HIDE DEF x
  <2>2. /\ x \in State /\ x.queue = RemoveAt(t.queue, i)
        /\ KernelSame(x, t) /\ SeenSame(x, t) /\ BuffersSame(x, t) /\ ToldSame(x, t)
        /\ x.next = t.next /\ x.calls = t.calls /\ x.asked = t.asked
        /\ x.data = IF q.flip THEN Held(t, q.event, t.data[q.event].refs - 1) ELSE t.data
    BY <1>5, <2>1, AbortOneKeeps
  <2> QED BY <1>8, <2>2 DEF x
<1>10. /\ u \in State /\ KernelSame(u, w) /\ ListsSame(u, w) /\ BuffersSame(u, w)
       /\ u.data = w.data /\ u.asked = w.asked /\ u.tells = w.tells
  BY AbortedKeeps
<1>11. u.life = [w.life EXCEPT ![e] = "aborted"]
  <2>1. u = [w EXCEPT !.life[e] = "aborted"]
    BY DEF Aborted
  <2> HIDE DEF w
  <2> QED BY <1>9, <2>1 DEF State
<1> HIDE DEF w
<1>12. u.life[e] = "aborted" /\ \A f \in Events : f # e => u.life[f] = t.life[f]
  BY <1>9, <1>11, FieldTypes DEF ToldSame
<1>13. u.queue = RemoveAt(t.queue, i) /\ u.calls = t.calls /\ u.next = t.next /\ u.data = t.data
       /\ u.asked = t.asked /\ u.tells = t.tells /\ BuffersSame(u, t) /\ KernelSame(u, t)
  BY <1>9, <1>10 DEF ListsSame, BuffersSame, KernelSame, ToldSame
<1>14. Distinct(u.queue) /\ Entries(u) = Entries(t) \ {q}
  BY <1>5, <1>13, EntryCut DEF Sound, Linked, Unique
<1>15. Distinct(u.calls) /\ Claims(u) = {k \in Claims(t) : k.seq # q.seq}
  <2>1. Claims(t) = {} /\ Claims(u) = {}
    BY <1>13, EmptySeq DEF Busy, Claims
  <2> QED BY <1>13, <2>1 DEF Sound, Linked, Unique
<1>16. Answered(u)
  BY <1>12, <1>13 DEF Sound, Waited, Answered
<1>17. Coming(u) = Coming(t) /\ DataSame(u, t)
  BY <1>13 DEF Coming, KernelSame, DataSame
<1> HIDE DEF q
<1> QED BY <1>7, <1>8, <1>10, <1>12, <1>13, <1>14, <1>15, <1>16, <1>17, VblankGone DEF KernelSame

(* The call's own entry. *)
LEMMA OwnEntry ==
  ASSUME Living, NEW t \in State, Busy(t), Sound(t), Paired(t)
  PROVE  \E q \in Entries(t) :
           /\ q.seq = Top(t).seq /\ q.event = Top(t).event /\ q.crtc = Top(t).crtc
           /\ q.flip <=> Top(t).kind # "vblank"
<1> DEFINE k == Claim(Top(t))
<1>1. k \in Claims(t)
  <2> DEFINE u == Pop(t)
  <2>1. u.calls = Tail(t.calls)
    BY DEF Pop, State
  <2> QED BY <2>1, CallPopped DEF Sound, Linked, Unique
<1>2. k.seq = Top(t).seq /\ k.event = Top(t).event /\ k.crtc = Top(t).crtc /\ k.kind = Top(t).kind
  BY DEF Claim
<1> HIDE DEF k
<1>3. PICK q \in Entries(t) : q.seq = k.seq /\ q.event = k.event /\ (q.flip <=> ForFlip(k))
  BY <1>1 DEF Sound, Linked, CallsLinked
<1>4. q.crtc = k.crtc
  BY <1>1, <1>3, Pairs
<1> QED BY <1>2, <1>3, <1>4 DEF ForFlip

(* The kernel takes the request for a vblank, or sends its event at once.     *)
LEMMA VblankAcceptedSound ==
  ASSUME Living, NEW t \in State, Busy(t), Top(t).kind = "vblank", Sound(t), Paired(t),
         NEW u, u = VblankAccepted(t)
  PROVE  Sound(u)
<1> DEFINE k == Top(t)
           m == t.asked[k.event].msc
           w == KernelAsked(t, k.crtc, m, k.seq)
           n == t.count[k.crtc]
           r == AskedOfKernel(t, k.crtc, m, k.seq)
           v == SentNow(t, k.crtc, k.seq)
<1>1. k.event \in Events /\ k.crtc \in Crtcs /\ k.seq \in Nat
  BY TopType
<1>2. m \in Nat /\ n \in Nat
  <2>1. t.asked[k.event] \in Asked
    BY <1>1, FieldTypes
  <2> QED BY <1>1, <2>1, FieldTypes DEF Asked
<1>3. PICK q \in Entries(t) : q.seq = k.seq /\ q.event = k.event /\ q.crtc = k.crtc /\ ~q.flip
  BY OwnEntry
<1>4. u = Pop(w)
  BY DEF VblankAccepted
<1>5. r.msc = Target(t, m) /\ r.seq = k.seq /\ v.seq = k.seq /\ v.count = n
  BY DEF AskedOfKernel, SentNow, Sent, Target
<1>6. m + Passed < n + Word
  BY <1>3 DEF Sound, Waited, Near
<1> HIDE DEF k, m, n
<1>7. /\ w \in State /\ w.count = t.count /\ w.flips = t.flips /\ w.shows = t.shows
      /\ w.hasSeq = t.hasSeq /\ BuffersSame(w, t) /\ ToldSame(w, t)
      /\ ListsSame(w, t) /\ w.data = t.data /\ w.asked = t.asked
      /\ \/ w.requests = t.requests /\ Coming(w) = Coming(t) \cup {v} /\ m <= n
         \/ Coming(w) = Coming(t) /\ w.requests = t.requests \cup {r}
  <2> DEFINE x == w
  <2>1. x = KernelAsked(t, k.crtc, m, k.seq)
    OBVIOUS
  <2> HIDE DEF x
  <2>2. /\ x \in State /\ x.count = t.count /\ x.flips = t.flips /\ x.shows = t.shows
        /\ x.hasSeq = t.hasSeq /\ BuffersSame(x, t) /\ ToldSame(x, t)
        /\ ListsSame(x, t) /\ x.data = t.data /\ x.asked = t.asked
        /\ TakenAsEvent(x, t, k.crtc, m, k.seq) \/ TakenAsRequest(x, t, k.crtc, m, k.seq)
    BY <1>1, <1>2, <2>1, KernelAskedKeeps
  <2>3. CASE TakenAsEvent(x, t, k.crtc, m, k.seq)
    <3>1. x.requests = t.requests /\ Coming(x) = Coming(t) \cup {v} /\ HasPassed(t, r, n)
      BY <2>3 DEF TakenAsEvent, Coming, n
    <3> HIDE DEF r, v
    <3>2. m <= n
      BY <1>2, <1>5, <1>6, <3>1, TakenPassed
    <3> QED BY <2>2, <3>1, <3>2 DEF x
  <2>4. CASE TakenAsRequest(x, t, k.crtc, m, k.seq)
    <3>1. Coming(x) = Coming(t) /\ x.requests = t.requests \cup {r}
      BY <2>4 DEF TakenAsRequest, Coming
    <3> QED BY <2>2, <3>1 DEF x
  <2> QED BY <2>2, <2>3, <2>4
<1> HIDE DEF w, r, v
<1>8. Busy(w) /\ Top(w) = k
  BY <1>7 DEF Busy, Top, ListsSame, k
<1>9. u \in State /\ u.calls = Tail(t.calls)
  BY <1>4, <1>7, <1>8, TopType DEF Pop, State, ListsSame
<1>10. /\ u.count = t.count /\ u.flips = t.flips /\ u.shows = t.shows
       /\ u.hasSeq = t.hasSeq /\ BuffersSame(u, t) /\ ToldSame(u, t)
       /\ u.next = t.next /\ u.queue = t.queue /\ u.data = t.data /\ u.asked = t.asked
       /\ \/ u.requests = t.requests /\ Coming(u) = Coming(t) \cup {v} /\ m <= n
          \/ Coming(u) = Coming(t) /\ u.requests = t.requests \cup {r}
  <2>1. /\ KernelSame(u, w) /\ BuffersSame(u, w) /\ ToldSame(u, w)
        /\ u.next = w.next /\ u.queue = w.queue /\ u.data = w.data /\ u.asked = w.asked
    BY <1>4, <1>7, <1>8, PopKeeps
  <2> QED BY <1>7, <2>1 DEF KernelSame, BuffersSame, ToldSame, ListsSame, Coming
<1>11. /\ Distinct(u.calls) /\ Claims(u) = {j \in Claims(t) : j.seq # k.seq}
       /\ \A j \in Claims(t) : j.seq = k.seq => j = Claim(k)
       /\ Claim(k) \in Claims(t)
  BY <1>9, CallPopped DEF Sound, Linked, Unique, k
<1>12. Claim(k).seq = k.seq /\ ~ForFlip(Claim(k))
  BY DEF Claim, ForFlip, k
<1>13. Entries(u) = Entries(t) /\ Distinct(u.queue)
  BY <1>10 DEF Sound, Linked, Unique, Entries
<1>14. Unique(u) /\ Numbered(u)
  BY <1>10, <1>11, <1>13 DEF Sound, Linked, Unique, Numbered
<1>15. /\ \A x \in t.requests : x.seq # k.seq
       /\ \A x \in Coming(t) : x.seq # k.seq
       /\ \A c \in Crtcs : Under(t, c) => t.flips[c].seq # k.seq
  BY <1>11, <1>12 DEF Sound, Linked, Apart
<1> DEFINE a == Claim(k)
<1> HIDE DEF a
<1>16. /\ a \in Claims(t) /\ a.seq = k.seq /\ ~ForFlip(a)
       /\ \A j \in Claims(t) : j.seq = k.seq => j = a
  BY <1>11, <1>12 DEF a
<1>17. Apart(u)
  BY <1>5, <1>10, <1>11, <1>15 DEF Sound, Linked, Apart, Under
<1>18. Expected(u)
  BY <1>5, <1>10, <1>11, <1>13 DEF Sound, Linked, Expected, Expects, Under
<1>19. \A p \in Entries(t) : p.seq = k.seq => p = q
  BY <1>3, OneEntry DEF Sound, Linked, Unique
<1>20. RequestsLinked(u)
  <2>1. m = t.asked[q.event].msc
    BY <1>3 DEF m
  <2> QED BY <1>3, <1>5, <1>10, <1>13, <1>19, <2>1 DEF Sound, Linked, RequestsLinked, Target
<1>21. EventsLinked(u)
  <2>1. m = t.asked[q.event].msc
    BY <1>3 DEF m
  <2> QED BY <1>3, <1>5, <1>10, <1>13, <1>19, <2>1 DEF Sound, Linked, EventsLinked
<1>22. CallsLinked(u) /\ FlipsLinked(u)
  BY <1>10, <1>11, <1>13 DEF Sound, Linked, CallsLinked, FlipsLinked, Under
<1>23. Waited(u)
  BY <1>10, <1>13 DEF Sound, Waited, Near, Awaited, Wanted, HasEntry, Answered, ToldSame
<1>24. FlipsSame(u, t) /\ DataSame(u, t)
  BY <1>10, <1>11, <1>13, <1>16 DEF FlipsSame, DataSame, WaitingFlip, ToldSame
<1>25. Framed(u)
  BY <1>9, <1>10, <1>24, FramedKept
<1> QED BY <1>14, <1>17, <1>18, <1>20, <1>21, <1>22, <1>23, <1>25 DEF Sound, Linked

(* An entry is looked up by its number. *)
LEMMA AbortSeqKeeps ==
  ASSUME Living, NEW t \in State, NEW q \in Entries(t), Distinct(t.queue),
         NEW u, u = AbortSeq(t, q.seq)
  PROVE  /\ u \in State /\ Distinct(u.queue) /\ Entries(u) = Entries(t) \ {q}
         /\ KernelSame(u, t) /\ SeenSame(u, t) /\ BuffersSame(u, t) /\ ToldSame(u, t)
         /\ u.next = t.next /\ u.calls = t.calls /\ u.asked = t.asked
         /\ u.data = IF q.flip THEN Held(t, q.event, t.data[q.event].refs - 1) ELSE t.data
<1> DEFINE at == {i \in DOMAIN t.queue : t.queue[i].seq = q.seq}
           i == CHOOSE i \in at : TRUE
<1>1. DOMAIN t.queue = 1..Len(t.queue)
  BY FieldTypes, LenProperties
<1>2. PICK k \in 1..Len(t.queue) : q = t.queue[k]
  BY DEF Entries, On
<1>3. at # {}
  BY <1>1, <1>2
<1>4. i \in 1..Len(t.queue) /\ t.queue[i].seq = q.seq
  BY <1>1, <1>3
<1>5. u = AbortOne(t, i)
  BY <1>3 DEF AbortSeq
<1> HIDE DEF i, at
<1>6. t.queue[i] = q
  BY <1>2, <1>4 DEF Distinct
<1>7. /\ u \in State /\ u.queue = RemoveAt(t.queue, i)
      /\ KernelSame(u, t) /\ SeenSame(u, t) /\ BuffersSame(u, t) /\ ToldSame(u, t)
      /\ u.next = t.next /\ u.calls = t.calls /\ u.asked = t.asked
      /\ u.data = IF t.queue[i].flip
                  THEN Held(t, t.queue[i].event, t.data[t.queue[i].event].refs - 1)
                  ELSE t.data
  BY <1>4, <1>5, AbortOneKeeps
<1>8. Distinct(u.queue) /\ Entries(u) = Entries(t) \ {t.queue[i]}
  BY <1>4, <1>7, EntryCut
<1> QED BY <1>6, <1>7, <1>8

(* The kernel refuses to bring a vblank's event. *)
LEMMA VblankRefusedSound ==
  ASSUME Living, NEW t \in State, Busy(t), Top(t).kind = "vblank", Sound(t), Paired(t),
         NEW u, u = VblankRefused(t)
  PROVE  Sound(u)
<1> DEFINE k == Top(t)
           w == AbortSeq(t, k.seq)
           v == Pop(w)
<1>1. PICK q \in Entries(t) : q.seq = k.seq /\ q.event = k.event /\ q.crtc = k.crtc /\ ~q.flip
  BY OwnEntry
<1>2. q.event \in Events /\ t.life[q.event] = "waiting"
  BY Sorts DEF Sound, Waited, Awaited, Wanted
<1>3. /\ w \in State /\ Distinct(w.queue) /\ Entries(w) = Entries(t) \ {q}
      /\ KernelSame(w, t) /\ BuffersSame(w, t) /\ ToldSame(w, t)
      /\ w.next = t.next /\ w.calls = t.calls /\ w.asked = t.asked /\ w.data = t.data
  <2> DEFINE x == w
  <2>1. x = AbortSeq(t, q.seq)
    BY <1>1
  <2> HIDE DEF x, k
  <2>2. /\ x \in State /\ Distinct(x.queue) /\ Entries(x) = Entries(t) \ {q}
        /\ KernelSame(x, t) /\ BuffersSame(x, t) /\ ToldSame(x, t)
        /\ x.next = t.next /\ x.calls = t.calls /\ x.asked = t.asked
        /\ x.data = IF q.flip THEN Held(t, q.event, t.data[q.event].refs - 1) ELSE t.data
    BY <2>1, AbortSeqKeeps DEF Sound, Linked, Unique
  <2> QED BY <1>1, <2>2 DEF x
<1>4. u = [v EXCEPT !.life[q.event] = "refused"]
  BY <1>1 DEF VblankRefused
<1> HIDE DEF w
<1>5. Busy(w) /\ Top(w) = k
  BY <1>3 DEF Busy, Top
<1>6. /\ v \in State /\ KernelSame(v, w) /\ BuffersSame(v, w) /\ ToldSame(v, w)
      /\ v.next = w.next /\ v.queue = w.queue /\ v.data = w.data /\ v.asked = w.asked
      /\ v.calls = Tail(t.calls)
  <2> DEFINE x == v
  <2>1. x = Pop(w)
    OBVIOUS
  <2>2. x.calls = Tail(t.calls)
    BY <1>3 DEF Pop, State
  <2> HIDE DEF x
  <2>3. /\ x \in State /\ KernelSame(x, w) /\ BuffersSame(x, w) /\ ToldSame(x, w)
        /\ x.next = w.next /\ x.queue = w.queue /\ x.data = w.data /\ x.asked = w.asked
    BY <1>3, <1>5, <2>1, PopKeeps
  <2> QED BY <2>2, <2>3 DEF x
<1> HIDE DEF v
<1>7. u \in State
  BY VblankRefusedType
<1> DEFINE l == [v.life EXCEPT ![q.event] = "refused"]
<1>8. u = [v EXCEPT !.life = l]
  BY <1>4
<1> HIDE DEF l
<1>9. /\ KernelSame(u, v) /\ BuffersSame(u, v) /\ ListsSame(u, v)
      /\ u.data = v.data /\ u.asked = v.asked /\ u.tells = v.tells /\ u.life = l
  BY <1>6, <1>8 DEF State, KernelSame, BuffersSame, ListsSame
<1>10. /\ KernelSame(u, t) /\ BuffersSame(u, t) /\ u.next = t.next /\ u.queue = w.queue
       /\ u.calls = Tail(t.calls) /\ u.data = t.data /\ u.asked = t.asked /\ u.tells = t.tells
  BY <1>3, <1>6, <1>9 DEF KernelSame, BuffersSame, ListsSame, ToldSame
<1>11. u.life[q.event] = "refused" /\ \A f \in Events : f # q.event => u.life[f] = t.life[f]
  <2>1. v.life = t.life /\ t.life \in [Events -> Life]
    BY <1>3, <1>6, FieldTypes DEF ToldSame
  <2> QED BY <1>2, <1>9, <2>1 DEF l
<1>12. Distinct(u.calls) /\ Claims(u) = {j \in Claims(t) : j.seq # q.seq}
  <2>1. Distinct(u.calls) /\ Claims(u) = {j \in Claims(t) : j.seq # Top(t).seq}
    BY <1>10, CallPopped DEF Sound, Linked, Unique
  <2> QED BY <1>1, <2>1
<1>13. Distinct(u.queue) /\ Entries(u) = Entries(t) \ {q} /\ Coming(u) = Coming(t) /\ DataSame(u, t)
  BY <1>3, <1>10 DEF Entries, Coming, KernelSame, DataSame
<1>14. Answered(u)
  BY <1>2, <1>10, <1>11 DEF Sound, Waited, Answered
<1> HIDE DEF k
<1> QED BY <1>1, <1>7, <1>10, <1>11, <1>12, <1>13, <1>14, VblankGone DEF KernelSame

(* The modes are set, when no flip is under way. *)
LEMMA ModesSetKeeps ==
  ASSUME Living, NEW t \in State, NEW e \in Events, \A c \in Crtcs : ~Under(t, c),
         NEW u, u = SetModes(t, e)
  PROVE  /\ u \in State /\ Coming(u) = Coming(t) /\ \A c \in Crtcs : ~Under(u, c)
         /\ ListsSame(u, t) /\ u.count = t.count /\ u.requests = t.requests /\ u.hasSeq = t.hasSeq
         /\ u.data = t.data /\ u.asked = t.asked /\ Told(u, t, e)
         /\ u.fb = LastEvent + e /\ u.fbs = (t.fbs \ {t.fb}) \cup {LastEvent + e}
         /\ \A c \in Crtcs : Still(u.shows, c, u.fb)
<1> DEFINE w == ModesSet(t, e)
           sh == [c \in Crtcs |-> IF c = NumCrtcs THEN LastEvent + e ELSE LastEvent + (LastEvent + e)]
<1>1. /\ u \in State /\ w \in State /\ u = Tell(w, e) /\ On(w.events) = On(t.events) \cup Late(t)
  BY SetModesType
<1>2. /\ w.flips = [c \in Crtcs |-> Nothing] /\ w.shows = sh
      /\ w.fb = LastEvent + e /\ w.fbs = (t.fbs \ {t.fb}) \cup {LastEvent + e}
      /\ ListsSame(w, t) /\ w.count = t.count /\ w.requests = t.requests /\ w.hasSeq = t.hasSeq
      /\ w.data = t.data /\ w.asked = t.asked /\ ToldSame(w, t)
  BY DEF ModesSet, State, ListsSame, ToldSame
<1> HIDE DEF w
<1>3. Late(t) = {}
  BY DEF Late, Under
<1>4. /\ KernelSame(u, w) /\ ListsSame(u, w) /\ BuffersSame(u, w)
      /\ u.data = w.data /\ u.asked = w.asked /\ Told(u, w, e)
  BY <1>1, TellKeeps
<1>5. Coming(u) = Coming(t)
  BY <1>1, <1>3, <1>4 DEF Coming, KernelSame
<1>6. u.flips = [c \in Crtcs |-> Nothing] /\ u.shows = sh /\ u.fb = LastEvent + e
  BY <1>2, <1>4 DEF KernelSame, BuffersSame
<1>7. \A c \in Crtcs : ~Under(u, c) /\ Still(u.shows, c, u.fb)
  <2> TAKE c \in Crtcs
  <2>1. ~Under(u, c)
    BY <1>6 DEF Under
  <2>2. CASE c = NumCrtcs
    BY <1>6, <2>1, <2>2 DEF Still
  <2>3. CASE c # NumCrtcs
    <3>1. c < NumCrtcs
      BY <2>3, SetupType DEF Crtcs
    <3>2. u.shows[c] > 2 * LastEvent
      BY <1>6, <2>3, Widths
    <3> QED BY <2>1, <3>1, <3>2 DEF Still, Dark
  <2> QED BY <2>2, <2>3
<1> QED BY <1>1, <1>2, <1>4, <1>5, <1>7 DEF KernelSame, ListsSame, BuffersSame, Told, ToldSame

(* Present flips back by setting the modes. *)
LEMMA UnflippedSound ==
  ASSUME Living, NEW t \in State, NEW e \in Events, Sound(t), t.life[e] = "unused",
         \A f \in Events : ~WaitingFlip(t, f), NEW u, u = SetModes(Unflipping(t, e), e)
  PROVE  Sound(u)
<1> DEFINE w == Unflipping(t, e)
<1>1. /\ w \in State /\ KernelSame(w, t) /\ ListsSame(w, t) /\ BuffersSame(w, t)
      /\ w.data = t.data /\ w.tells = t.tells
  <2> DEFINE x == w
  <2>1. x = Unflipping(t, e)
    OBVIOUS
  <2> HIDE DEF x
  <2>2. /\ x \in State /\ KernelSame(x, t) /\ ListsSame(x, t) /\ BuffersSame(x, t)
        /\ x.data = t.data /\ x.tells = t.tells
    BY <2>1, UnflippingKeeps
  <2> QED BY <2>2 DEF x
<1>2. /\ w.life = [t.life EXCEPT ![e] = "waiting"]
      /\ w.asked = [t.asked EXCEPT ![e].kind = "unflip"]
  BY DEF Unflipping, State
<1> HIDE DEF w
<1>3. /\ \A p \in Entries(t) : p.event # e /\ ~p.flip
      /\ \A k \in Claims(t) : ~ForFlip(k)
      /\ \A c \in Crtcs : ~Under(t, c)
      /\ t.tells[e] = 0
  <2>1. \A c \in Crtcs : t.flips[c].fb \in Events \/ ~Under(t, c)
    <3>1. \A c \in Crtcs : Under(t, c) => \E q \in Entries(t) : q.event = t.flips[c].fb
      BY DEF Sound, Linked, FlipsLinked
    <3> QED BY <3>1, Sorts
  <2> QED BY <2>1, Sorts, Unasked, FlipsWaited
<1>4. \A c \in Crtcs : ~Under(w, c)
  BY <1>1, <1>3 DEF Under, KernelSame
<1>5. /\ u \in State /\ Coming(u) = Coming(w) /\ \A c \in Crtcs : ~Under(u, c)
      /\ ListsSame(u, w) /\ u.count = w.count /\ u.requests = w.requests /\ u.hasSeq = w.hasSeq
      /\ u.data = w.data /\ u.asked = w.asked /\ Told(u, w, e)
      /\ u.fb = LastEvent + e /\ u.fbs = (w.fbs \ {w.fb}) \cup {LastEvent + e}
      /\ \A c \in Crtcs : Still(u.shows, c, u.fb)
  BY <1>1, <1>4, ModesSetKeeps DEF w
<1>6. /\ ListsSame(u, t) /\ Coming(u) = Coming(t) /\ u.count = t.count /\ u.requests = t.requests
      /\ u.hasSeq = t.hasSeq /\ u.data = t.data
  BY <1>1, <1>5 DEF ListsSame, Coming, KernelSame
<1>7. /\ u.life[e] = "told" /\ u.asked[e].kind = "unflip" /\ u.tells[e] = 1
      /\ \A f \in Events : f # e => u.asked[f] = t.asked[f] /\ u.life[f] = t.life[f]
                                    /\ u.tells[f] = t.tells[f]
  <2>1. t.asked \in [Events -> Asked] /\ t.life \in [Events -> Life] /\ t.tells \in [Events -> Nat]
    BY FieldTypes
  <2>2. /\ w.life[e] = "waiting" /\ w.life \in [Events -> Life]
        /\ \A f \in Events : f # e => w.life[f] = t.life[f]
    BY <1>1, <1>2, <2>1, FieldTypes
  <2>3. w.asked[e].kind = "unflip" /\ \A f \in Events : f # e => w.asked[f] = t.asked[f]
    BY <1>2, <2>1 DEF Asked
  <2>4. u.life = [w.life EXCEPT ![e] = "told"] /\ u.tells = [t.tells EXCEPT ![e] = @ + 1]
    BY <1>1, <1>5, <2>2 DEF Told
  <2> QED BY <1>3, <1>5, <2>1, <2>2, <2>3, <2>4
<1>8. u.fbs = {u.fb} /\ Used(u, u.fb)
  <2>1. w.fbs = {w.fb}
    BY <1>1 DEF Sound, Framed, AtRest, BuffersSame
  <2> QED BY <1>5, <2>1, Widths DEF Used
<1>9. Answered(u)
  BY <1>7 DEF Sound, Waited, Answered
<1>10. u.data[e].refs = 0
  <2>1. FlipEntries(t, e) = {} /\ ~Calling(t, e)
    BY <1>3 DEF FlipEntries, Calling
  <2>2. References(t, e) = 0
    BY <2>1, Refers
  <2> QED BY <1>6, <2>2 DEF Sound, Framed, Referenced
<1>11. Distinct(u.queue) /\ Distinct(u.calls) /\ Entries(u) = Entries(t) /\ Claims(u) = Claims(t)
  BY <1>6 DEF Sound, Linked, Unique, Entries, Claims, ListsSame
<1>12. u.next = t.next
  BY <1>6 DEF ListsSame
<1>13. \A p : p \in Entries(u) <=> p \in Entries(t) /\ ~p.flip
  BY <1>3, <1>11
<1>14. \A k : k \in Claims(u) <=> k \in Claims(t) /\ ~ForFlip(k)
  BY <1>3, <1>11
<1>15. u.life[e] \in {"told", "refused"} /\ u.asked[e].kind \in FlipKinds
  BY <1>7 DEF FlipKinds
<1>16. \A p \in Entries(t) : p.event = e => p.flip
  BY <1>3
<1>17. /\ \A f \in Events : WaitingFlip(t, f) => f = e
       /\ \A f \in Events : f # e => u.asked[f] = t.asked[f] /\ u.life[f] = t.life[f]
                                     /\ u.data[f].refs = t.data[f].refs
  BY <1>6, <1>7
<1>18. \A c \in Crtcs : Still(u.shows, c, u.fb)
  BY <1>5
<1>19. /\ Coming(u) \subseteq Coming(t)
       /\ \A v \in Coming(t) : v \in Coming(u) \/ \A p \in Entries(u) : p.seq # v.seq
  BY <1>6
<1> QED BY <1>5, <1>6, <1>8, <1>9, <1>10, <1>11, <1>12, <1>13, <1>14, <1>15, <1>16, <1>17, <1>18,
           <1>19, FlipGone

(* The kernel refuses the first CRTC of a flip: all that is left of it is the *)
(* call's own reference, and the framebuffer is taken back.                   *)
LEMMA FlipRefusedSound ==
  ASSUME Living, NEW t \in State, Busy(t), Top(t).kind # "vblank", Top(t).crtc = 1,
         Sound(t), Paired(t), NEW u, u = FlipRefused(t)
  PROVE  Sound(u)
<1> DEFINE k == Top(t)
           e == k.event
           p == Pop(t)
           x == AbortSeq(p, k.seq)
           v == FlipUndone(x, e)
           w == PageflipFree(v, e)
<1>1. e \in Events /\ p \in State /\ x \in State /\ v \in State /\ u \in State
  BY TopType, FlipRefusedType
<1>2. PICK q \in Entries(t) : q.seq = k.seq /\ q.event = e /\ q.crtc = 1 /\ q.flip
  BY OwnEntry
<1>3. WaitingFlip(t, e) /\ \A f \in Events : WaitingFlip(t, f) => f = e
  <2>1. WaitingFlip(t, e)
    BY <1>2, FlipsWaited
  <2> QED BY <1>1, <2>1 DEF Sound, Framed, OneFlip
<1> DEFINE j == Claim(k)
<1>4. /\ j \in Claims(t) /\ j.seq = k.seq /\ j.event = e /\ j.crtc = 1 /\ j.kind = k.kind /\ ForFlip(j)
      /\ \A y : y.calls = Tail(t.calls) =>
           Distinct(y.calls) /\ Claims(y) = {i \in Claims(t) : i.seq # k.seq}
  <2>1. j.seq = k.seq /\ j.event = e /\ j.crtc = 1 /\ j.kind = k.kind
    BY DEF Claim
  <2>2. p.calls = Tail(t.calls)
    BY DEF Pop, State
  <2>3. j \in Claims(t)
    BY <2>2, CallPopped DEF Sound, Linked, Unique
  <2>4. \A y : y.calls = Tail(t.calls) =>
           Distinct(y.calls) /\ Claims(y) = {i \in Claims(t) : i.seq # k.seq}
    BY CallPopped DEF Sound, Linked, Unique
  <2> QED BY <2>1, <2>3, <2>4 DEF ForFlip
<1> HIDE DEF j
<1>5. \A i \in Claims(t) : ForFlip(i) <=> i.seq = k.seq
  <2>1. \A i \in Claims(t) : ForFlip(i) => i = j
    BY <1>4 DEF Sound, Framed, OneFlip
  <2>2. \A i \in Claims(t) : i.seq = k.seq => ForFlip(i)
    <3> SUFFICES ASSUME NEW i \in Claims(t), i.seq = k.seq PROVE ForFlip(i)
      OBVIOUS
    <3>1. PICK y \in Entries(t) : y.seq = i.seq /\ (y.flip <=> ForFlip(i))
      BY DEF Sound, Linked, CallsLinked
    <3>2. y = q
      BY <1>2, <3>1, OneEntry DEF Sound, Linked, Unique
    <3> QED BY <1>2, <3>1, <3>2
  <2> QED BY <1>4, <2>1, <2>2
<1>6. \A y \in Entries(t) : y.flip <=> y = q
  <2> SUFFICES ASSUME NEW y \in Entries(t), y.flip PROVE y = q
    BY <1>2
  <2>1. y.crtc <= 1 /\ y.crtc \in Crtcs
    BY <1>4, Sorts DEF Sound, Framed, InCall
  <2>2. y.crtc = 1
    BY <2>1, SetupType DEF Crtcs
  <2> QED BY <1>2, <2>2 DEF Sound, Framed, OneFlip
<1>7. BetweenTwo(t, e)
  BY <1>1, <1>3 DEF Sound, Framed, InFlip
<1>8. \A c \in Crtcs : Still(t.shows, c, t.data[e].old)
  <2>1. \A c \in Crtcs : 1 <= c
    BY SetupType DEF Crtcs
  <2> QED BY <1>4, <2>1 DEF Sound, Framed, InCall
<1>9. t.data[e].refs = 2
  <2>1. FlipEntries(t, e) = {q} /\ Calling(t, e)
    BY <1>2, <1>4, <1>6 DEF FlipEntries, Calling
  <2>2. References(t, e) = 2
    BY <2>1, Refers
  <2> QED BY <1>1, <2>2 DEF Sound, Framed, Referenced
<1>10. \A c \in Crtcs : ~Under(t, c)
  <2> SUFFICES ASSUME NEW c \in Crtcs, Under(t, c) PROVE FALSE
    OBVIOUS
  <2>1. t.flips[c].seq = q.seq
    BY <1>6 DEF Sound, Linked, FlipsLinked
  <2> QED BY <1>2, <1>4, <2>1 DEF Sound, Linked, Apart
<1>11. /\ KernelSame(p, t) /\ BuffersSame(p, t) /\ ToldSame(p, t) /\ p.calls = Tail(t.calls)
       /\ p.next = t.next /\ p.queue = t.queue /\ p.data = t.data /\ p.asked = t.asked
  <2> DEFINE y == p
  <2>1. y = Pop(t) /\ y.calls = Tail(t.calls)
    BY DEF Pop, State
  <2> HIDE DEF y
  <2>2. /\ KernelSame(y, t) /\ BuffersSame(y, t) /\ ToldSame(y, t)
        /\ y.next = t.next /\ y.queue = t.queue /\ y.data = t.data /\ y.asked = t.asked
    BY <2>1, PopKeeps
  <2> QED BY <2>1, <2>2 DEF y
<1> DEFINE refused == [w EXCEPT !.life[e] = "refused"]
<1>12. u = IF k.kind = "unflip" THEN SetModes(w, e) ELSE refused
  BY DEF FlipRefused, FlipUndone
<1> HIDE DEF p
<1>13. /\ Distinct(x.queue) /\ Entries(x) = Entries(t) \ {q}
       /\ KernelSame(x, t) /\ BuffersSame(x, t) /\ ToldSame(x, t) /\ x.calls = Tail(t.calls)
       /\ x.next = t.next /\ x.asked = t.asked /\ x.data = Held(p, e, p.data[e].refs - 1)
  <2> DEFINE y == x
  <2>1. y = AbortSeq(p, q.seq)
    BY <1>2
  <2> HIDE DEF y, k
  <2>2. q \in Entries(p) /\ Distinct(p.queue) /\ Entries(p) = Entries(t)
    BY <1>11 DEF Entries, Sound, Linked, Unique
  <2>3. /\ Distinct(y.queue) /\ Entries(y) = Entries(p) \ {q}
        /\ KernelSame(y, p) /\ BuffersSame(y, p) /\ ToldSame(y, p)
        /\ y.next = p.next /\ y.calls = p.calls /\ y.asked = p.asked
        /\ y.data = IF q.flip THEN Held(p, q.event, p.data[q.event].refs - 1) ELSE p.data
    BY <1>1, <2>1, <2>2, AbortSeqKeeps
  <2> QED BY <1>2, <1>11, <2>2, <2>3 DEF y, KernelSame, BuffersSame, ToldSame
<1> HIDE DEF x
<1>14. /\ x.data[e].refs = 1 /\ x.data[e].old = t.data[e].old
       /\ \A f \in Events : f # e => x.data[f] = t.data[f]
  <2>1. t.data \in [Events -> Data]
    BY FieldTypes
  <2> QED BY <1>1, <1>9, <1>11, <1>13, <2>1 DEF Held, Data
<1>15. /\ v.fbs = x.fbs \ {x.fb} /\ v.fb = x.data[e].old /\ v.data = x.data
       /\ KernelSame(v, x) /\ ToldSame(v, x) /\ ListsSame(v, x) /\ v.asked = x.asked
  <2>1. v = [RemoveFb(x, x.fb) EXCEPT !.fb = x.data[e].old]
    BY <1>14 DEF FlipUndone
  <2> HIDE DEF v
  <2> QED BY <1>1, <2>1 DEF RemoveFb, State, KernelSame, ToldSame, ListsSame
<1> HIDE DEF v
<1>16. /\ w \in State /\ KernelSame(w, v) /\ ListsSame(w, v) /\ BuffersSame(w, v)
       /\ ToldSame(w, v) /\ w.asked = v.asked /\ w.data = Held(v, e, v.data[e].refs - 1)
  BY <1>1, PageflipFreeType, PageflipFreeKeeps
<1> HIDE DEF w
<1>17. /\ w.data[e].refs = 0 /\ \A f \in Events : f # e => w.data[f].refs = t.data[f].refs
  <2>1. x.data \in [Events -> Data]
    BY <1>1, FieldTypes
  <2> QED BY <1>1, <1>14, <1>15, <1>16, <2>1 DEF Held, Data
<1>18. /\ KernelSame(w, t) /\ ToldSame(w, t) /\ w.asked = t.asked /\ w.next = t.next
       /\ w.fb = t.data[e].old /\ w.fbs = {t.data[e].old} /\ w.queue = x.queue
       /\ w.calls = Tail(t.calls)
  <2>1. w.fbs = t.fbs \ {t.fb} /\ w.fb = t.data[e].old
    BY <1>13, <1>14, <1>15, <1>16 DEF BuffersSame
  <2>2. t.fbs = {t.data[e].old, e} /\ t.fb = e /\ t.data[e].old # e
    BY <1>7 DEF BetweenTwo
  <2> HIDE DEF e, k
  <2>3. w.fbs = {t.data[e].old}
    BY <2>1, <2>2
  <2> QED BY <1>13, <1>15, <1>16, <2>1, <2>3 DEF KernelSame, ToldSame, ListsSame
<1>19. Distinct(w.queue) /\ Entries(w) = Entries(t) \ {q}
  BY <1>13, <1>18 DEF Entries
<1>20. Distinct(w.calls) /\ Claims(w) = {i \in Claims(t) : i.seq # k.seq}
  BY <1>4, <1>18
<1>21. \A c \in Crtcs : ~Under(w, c) /\ Still(w.shows, c, w.fb)
  BY <1>8, <1>10, <1>18 DEF Under, KernelSame
<1> HIDE DEF e, k
<1>22. t.asked[e].kind \in FlipKinds /\ t.life[e] = "waiting"
  BY <1>3 DEF WaitingFlip
<1>23. Used(w, w.fb)
  BY <1>7, <1>18 DEF BetweenTwo, Used, ToldSame
<1>24. /\ u.count = t.count /\ u.requests = t.requests /\ u.hasSeq = t.hasSeq
       /\ Coming(u) = Coming(t) /\ ListsSame(u, w) /\ u.asked = t.asked /\ u.data = w.data
       /\ \A c \in Crtcs : ~Under(u, c) /\ Still(u.shows, c, u.fb)
       /\ u.fbs = {u.fb} /\ Used(u, u.fb)
       /\ u.life[e] \in {"told", "refused"} /\ u.tells[e] = IF u.life[e] = "told" THEN 1 ELSE 0
       /\ \A f \in Events : f # e => u.life[f] = t.life[f] /\ u.tells[f] = t.tells[f]
  <2>1. /\ w.life = t.life /\ w.tells = t.tells /\ t.tells[e] = 0
        /\ t.life \in [Events -> Life] /\ t.tells \in [Events -> Nat]
    BY <1>1, <1>18, <1>22, FieldTypes DEF ToldSame, Sound, Waited, Answered
  <2>2. CASE k.kind = "unflip"
    <3>1. /\ Coming(u) = Coming(w) /\ \A c \in Crtcs : ~Under(u, c)
          /\ ListsSame(u, w) /\ u.count = w.count /\ u.requests = w.requests /\ u.hasSeq = w.hasSeq
          /\ u.data = w.data /\ u.asked = w.asked /\ Told(u, w, e)
          /\ u.fb = LastEvent + e /\ u.fbs = (w.fbs \ {w.fb}) \cup {LastEvent + e}
          /\ \A c \in Crtcs : Still(u.shows, c, u.fb)
      BY <1>1, <1>12, <1>16, <1>21, <2>2, ModesSetKeeps
    <3>2. u.life = [t.life EXCEPT ![e] = "told"] /\ u.tells = [t.tells EXCEPT ![e] = @ + 1]
      BY <1>22, <2>1, <3>1 DEF Told
    <3>3. /\ u.life[e] = "told" /\ u.tells[e] = 1
          /\ \A f \in Events : f # e => u.life[f] = t.life[f] /\ u.tells[f] = t.tells[f]
      BY <1>1, <2>1, <3>2
    <3>4. u.fbs = {u.fb} /\ Used(u, u.fb)
      BY <1>1, <1>18, <3>1, Widths DEF Used
    <3> QED BY <1>18, <3>1, <3>3, <3>4 DEF KernelSame, Coming
  <2>3. CASE k.kind # "unflip"
    <3> DEFINE l == [w.life EXCEPT ![e] = "refused"]
    <3>1. u = [w EXCEPT !.life = l]
      BY <1>12, <2>3
    <3> HIDE DEF l
    <3>2. KernelSame(u, w) /\ ListsSame(u, w) /\ BuffersSame(u, w) /\ u.data = w.data
          /\ u.asked = w.asked /\ u.tells = w.tells /\ u.life = l
      BY <1>16, <3>1 DEF State, KernelSame, ListsSame, BuffersSame
    <3>3. u.life[e] = "refused" /\ \A f \in Events : f # e => u.life[f] = t.life[f]
      BY <1>1, <2>1, <3>2 DEF l
    <3>4. u.fbs = {u.fb} /\ Used(u, u.fb)
      BY <1>18, <1>23, <2>1, <3>2, <3>3 DEF BuffersSame, Used
    <3>5. \A c \in Crtcs : ~Under(u, c) /\ Still(u.shows, c, u.fb)
      BY <1>21, <3>2 DEF KernelSame, BuffersSame, Under
    <3>6. Coming(u) = Coming(t)
      BY <1>18, <3>2 DEF Coming, KernelSame
    <3> QED BY <1>18, <2>1, <3>2, <3>3, <3>4, <3>5, <3>6 DEF KernelSame
  <2> QED BY <2>2, <2>3
<1>25. /\ Distinct(u.queue) /\ Distinct(u.calls) /\ u.next = t.next
       /\ Entries(u) = Entries(t) \ {q} /\ Claims(u) = {i \in Claims(t) : i.seq # k.seq}
  <2>1. u.queue = w.queue /\ u.calls = w.calls /\ u.next = w.next
    BY <1>24 DEF ListsSame
  <2>2. Entries(u) = Entries(w) /\ Claims(u) = Claims(w)
    BY <2>1 DEF Entries, Claims
  <2> QED BY <1>18, <1>19, <1>20, <2>1, <2>2
<1>26. /\ \A y : y \in Entries(u) <=> y \in Entries(t) /\ ~y.flip
       /\ \A i : i \in Claims(u) <=> i \in Claims(t) /\ ~ForFlip(i)
  BY <1>5, <1>6, <1>25
<1>27. \A y \in Entries(t) : y.event = e => y.flip
  BY <1>22 DEF Sound, Waited, Awaited, Wanted, FlipKinds
<1>28. Answered(u)
  BY <1>24 DEF Sound, Waited, Answered
<1>29. \A f \in Events : f # e => u.asked[f] = t.asked[f] /\ u.life[f] = t.life[f]
                                  /\ u.data[f].refs = t.data[f].refs
  BY <1>17, <1>24
<1>30. u.data[e].refs = 0 /\ u.asked[e].kind \in FlipKinds
  BY <1>17, <1>22, <1>24
<1>31. /\ Coming(u) \subseteq Coming(t)
       /\ \A y \in Coming(t) : y \in Coming(u) \/ \A z \in Entries(u) : z.seq # y.seq
  BY <1>24
<1> QED BY <1>1, <1>3, <1>24, <1>25, <1>26, <1>27, <1>28, <1>29, <1>30, <1>31, FlipGone

(* The flip that a call is about. *)
LEMMA CallsFlip ==
  ASSUME Living, NEW t \in State, Busy(t), Top(t).kind # "vblank", Sound(t), Paired(t)
  PROVE  /\ Top(t).event \in Events /\ WaitingFlip(t, Top(t).event)
         /\ \A f \in Events : WaitingFlip(t, f) => f = Top(t).event
         /\ Claim(Top(t)) \in Claims(t)
         /\ \A i \in Claims(t) : ForFlip(i) <=> i = Claim(Top(t))
         /\ \A i \in Claims(t) : ForFlip(i) <=> i.seq = Top(t).seq
         /\ BetweenTwo(t, Top(t).event)
         /\ \A c \in Crtcs : Top(t).crtc <= c => Still(t.shows, c, t.data[Top(t).event].old)
         /\ \A p \in Entries(t) : p.flip => p.crtc <= Top(t).crtc
         /\ Top(t).kind = t.asked[Top(t).event].kind
<1> DEFINE k == Top(t)
           j == Claim(k)
           u == Pop(t)
<1>1. PICK q \in Entries(t) : q.seq = k.seq /\ q.event = k.event /\ q.crtc = k.crtc /\ q.flip
  BY OwnEntry
<1>2. u.calls = Tail(t.calls)
  BY DEF Pop, State
<1>3. j \in Claims(t) /\ \A i \in Claims(t) : i.seq = k.seq => i = j
  BY <1>2, CallPopped DEF Sound, Linked, Unique
<1>4. j.seq = k.seq /\ j.event = k.event /\ j.crtc = k.crtc /\ j.kind = k.kind
  BY DEF Claim
<1>5. k.event \in Events
  BY TopType
<1> HIDE DEF k, j, u
<1>6. ForFlip(j)
  BY <1>4 DEF ForFlip, k
<1>7. \A i \in Claims(t) : ForFlip(i) => i = j
  BY <1>3, <1>6 DEF Sound, Framed, OneFlip
<1>8. WaitingFlip(t, k.event)
  BY <1>1, FlipsWaited
<1>9. \A f \in Events : WaitingFlip(t, f) => f = k.event
  BY <1>5, <1>8 DEF Sound, Framed, OneFlip
<1>10. BetweenTwo(t, k.event)
  BY <1>5, <1>8 DEF Sound, Framed, InFlip
<1>11. /\ \A c \in Crtcs : k.crtc <= c => Still(t.shows, c, t.data[k.event].old)
       /\ \A p \in Entries(t) : p.flip => p.crtc <= k.crtc
       /\ k.kind = t.asked[k.event].kind
  BY <1>3, <1>4, <1>6 DEF Sound, Framed, InCall
<1>12. \A i \in Claims(t) : ForFlip(i) <=> i.seq = k.seq
  BY <1>3, <1>4, <1>6, <1>7
<1> QED BY <1>3, <1>5, <1>6, <1>7, <1>8, <1>9, <1>10, <1>11, <1>12 DEF k, j

(* The kernel takes the flip of a CRTC: the call's number is now the flip's.  *)
LEMMA FlipTakenLinked ==
  ASSUME Living, NEW t \in State, Busy(t), Top(t).kind # "vblank", t.flips[Top(t).crtc] = Nothing,
         Sound(t), Paired(t), NEW u, u = FlipTaken(t)
  PROVE  /\ u \in State /\ Linked(u) /\ Entries(u) = Entries(t) /\ Coming(u) = Coming(t)
         /\ Claims(u) = {i \in Claims(t) : ~ForFlip(i)}
         /\ u.count = t.count /\ u.shows = t.shows /\ u.next = t.next /\ u.queue = t.queue
         /\ BuffersSame(u, t) /\ ToldSame(u, t) /\ u.asked = t.asked /\ u.data = t.data
<1> DEFINE k == Top(t)
           e == k.event
           c == k.crtc
           j == Claim(k)
<1>1. /\ e \in Events /\ WaitingFlip(t, e) /\ BetweenTwo(t, e) /\ j \in Claims(t)
      /\ \A i \in Claims(t) : ForFlip(i) <=> i.seq = k.seq
  BY CallsFlip
<1>2. c \in Crtcs /\ j.seq = k.seq
  BY TopType DEF Claim
<1>3. PICK q \in Entries(t) : q.seq = k.seq /\ q.event = e /\ q.crtc = c /\ q.flip
  BY OwnEntry
<1>4. k.seq # 0
  BY <1>3, Sorts DEF Sound, Linked, Numbered
<1> DEFINE r == [seq |-> k.seq, fb |-> e]
<1>5. t.fb = e
  BY <1>1 DEF BetweenTwo
<1>6. u \in State
  BY FlipTakenType
<1>7. /\ u.flips = [t.flips EXCEPT ![c] = r] /\ u.calls = Tail(t.calls)
      /\ u.count = t.count /\ u.requests = t.requests /\ u.shows = t.shows /\ u.hasSeq = t.hasSeq
      /\ u.events = t.events /\ u.next = t.next /\ u.queue = t.queue
      /\ BuffersSame(u, t) /\ ToldSame(u, t) /\ u.asked = t.asked /\ u.data = t.data
  BY <1>5 DEF FlipTaken, State, BuffersSame, ToldSame
<1>8. r # Nothing /\ r.seq = k.seq /\ r.fb = e
  BY <1>4 DEF Nothing
<1>9. Distinct(u.calls) /\ Claims(u) = {i \in Claims(t) : i.seq # k.seq}
  BY <1>7, CallPopped DEF Sound, Linked, Unique
<1> HIDE DEF r, j, e, c, k
<1>10. /\ Under(u, c) /\ u.flips[c] = r
       /\ \A d \in Crtcs : d # c => u.flips[d] = t.flips[d] /\ (Under(u, d) <=> Under(t, d))
  BY <1>2, <1>7, <1>8, FieldTypes DEF Under
<1>11. ~Under(t, c)
  BY DEF Under, c, k
<1>12. Entries(u) = Entries(t) /\ Coming(u) = Coming(t)
  BY <1>7 DEF Entries, Coming
<1>13. /\ \A x \in t.requests : x.seq # k.seq
       /\ \A x \in Coming(t) : x.seq # k.seq
  BY <1>1, <1>2 DEF Sound, Linked, Apart
<1>14. Unique(u) /\ Numbered(u)
  BY <1>7, <1>9, <1>12 DEF Sound, Linked, Unique, Numbered
<1>15. Apart(u)
  <2>1. \A i \in Claims(u) : /\ \A x \in u.requests : x.seq # i.seq
                             /\ \A x \in Coming(u) : x.seq # i.seq
    BY <1>7, <1>9, <1>12 DEF Sound, Linked, Apart
  <2>2. \A i \in Claims(u), d \in Crtcs : Under(u, d) => u.flips[d].seq # i.seq
    <3> TAKE i \in Claims(u), d \in Crtcs
    <3>1. CASE d = c
      BY <1>8, <1>9, <1>10, <3>1
    <3>2. CASE d # c
      BY <1>9, <1>10, <3>2 DEF Sound, Linked, Apart
    <3> QED BY <3>1, <3>2
  <2>3. \A d \in Crtcs : Under(u, d) => /\ \A x \in u.requests : x.seq # u.flips[d].seq
                                        /\ \A x \in Coming(u) : x.seq # u.flips[d].seq
    <3> TAKE d \in Crtcs
    <3>1. CASE d = c
      BY <1>7, <1>8, <1>10, <1>12, <1>13, <3>1
    <3>2. CASE d # c
      BY <1>7, <1>10, <1>12, <3>2 DEF Sound, Linked, Apart
    <3> QED BY <3>1, <3>2
  <2> QED BY <2>1, <2>2, <2>3 DEF Apart
<1>16. Expected(u)
  <2> SUFFICES ASSUME NEW p \in Entries(t) PROVE Expects(u, p.seq)
    BY <1>12 DEF Expected
  <2>1. Expects(t, p.seq)
    BY DEF Sound, Linked, Expected
  <2>2. CASE p.seq = k.seq
    BY <1>2, <1>8, <1>10, <2>2 DEF Expects
  <2>3. CASE p.seq # k.seq
    BY <1>7, <1>9, <1>10, <1>11, <1>12, <2>1, <2>3 DEF Expects
  <2> QED BY <2>2, <2>3
<1>17. RequestsLinked(u) /\ EventsLinked(u)
  BY <1>7, <1>12 DEF Sound, Linked, RequestsLinked, EventsLinked, Target
<1>18. CallsLinked(u)
  BY <1>9, <1>12 DEF Sound, Linked, CallsLinked
<1>19. FlipsLinked(u)
  <2> SUFFICES ASSUME NEW d \in Crtcs, Under(u, d)
               PROVE  \E p \in Entries(t) :
                        p.seq = u.flips[d].seq /\ p.flip /\ p.crtc = d /\ p.event = u.flips[d].fb
    BY <1>12 DEF FlipsLinked
  <2>1. CASE d = c
    BY <1>3, <1>8, <1>10, <2>1
  <2>2. CASE d # c
    BY <1>10, <2>2 DEF Sound, Linked, FlipsLinked
  <2> QED BY <2>1, <2>2
<1>20. Claims(u) = {i \in Claims(t) : ~ForFlip(i)}
  BY <1>1, <1>9
<1> QED BY <1>6, <1>7, <1>12, <1>14, <1>15, <1>16, <1>17, <1>18, <1>19, <1>20 DEF Linked

(* The kernel has taken the flips of all CRTCs. *)
LEMMA LastFlipAcceptedSound ==
  ASSUME Living, NEW t \in State, Busy(t), Top(t).kind # "vblank", t.flips[Top(t).crtc] = Nothing,
         ~ (Top(t).crtc < NumCrtcs), Sound(t), Paired(t), NEW u, u = FlipAccepted(t)
  PROVE  Sound(u)
<1> DEFINE e == Top(t).event
           v == FlipTaken(t)
<1>1. /\ e \in Events /\ WaitingFlip(t, e) /\ \A f \in Events : WaitingFlip(t, f) => f = e
      /\ Claim(Top(t)) \in Claims(t) /\ \A i \in Claims(t) : ForFlip(i) <=> i = Claim(Top(t))
      /\ BetweenTwo(t, e)
  BY CallsFlip
<1>2. \A c \in Crtcs : ~ (Top(t).crtc < c)
  BY TopType, SetupType DEF Crtcs
<1>3. Claim(Top(t)).event = e /\ Claim(Top(t)).crtc = Top(t).crtc
  BY DEF Claim
<1>4. /\ v \in State /\ Linked(v) /\ Entries(v) = Entries(t) /\ Coming(v) = Coming(t)
      /\ Claims(v) = {i \in Claims(t) : ~ForFlip(i)}
      /\ v.count = t.count /\ v.shows = t.shows /\ v.next = t.next /\ v.queue = t.queue
      /\ BuffersSame(v, t) /\ ToldSame(v, t) /\ v.asked = t.asked /\ v.data = t.data
  <2> DEFINE x == v
  <2>1. x = FlipTaken(t)
    OBVIOUS
  <2> HIDE DEF x
  <2>2. /\ x \in State /\ Linked(x) /\ Entries(x) = Entries(t) /\ Coming(x) = Coming(t)
        /\ Claims(x) = {i \in Claims(t) : ~ForFlip(i)}
        /\ x.count = t.count /\ x.shows = t.shows /\ x.next = t.next /\ x.queue = t.queue
        /\ BuffersSame(x, t) /\ ToldSame(x, t) /\ x.asked = t.asked /\ x.data = t.data
    BY <2>1, FlipTakenLinked
  <2> QED BY <2>2 DEF x
<1>5. u = PageflipFree(v, e)
  BY FlipAcceptedType
<1> HIDE DEF v
<1>6. /\ u \in State /\ KernelSame(u, v) /\ ListsSame(u, v) /\ BuffersSame(u, v)
      /\ ToldSame(u, v) /\ u.asked = v.asked /\ u.data = Held(v, e, v.data[e].refs - 1)
  BY <1>1, <1>4, <1>5, PageflipFreeType, PageflipFreeKeeps
<1> DEFINE j == Claim(Top(t))
<1>7. j \in Claims(t) /\ j.event = e /\ j.crtc = Top(t).crtc /\ \A i \in Claims(t) : ForFlip(i) <=> i = j
  BY <1>1, <1>3
<1> HIDE DEF e, j
<1>8. EntriesSame(u, v) /\ Coming(u) = Coming(v)
  BY <1>4, <1>6 DEF Linked, Unique, EntriesSame, ListsSame, Entries, Claims, KernelSame, Coming
<1>9. Linked(u)
  BY <1>4, <1>6, <1>8, LinkedSame DEF KernelSame
<1>10. /\ Entries(u) = Entries(t) /\ u.count = t.count /\ u.shows = t.shows
       /\ BuffersSame(u, t) /\ ToldSame(u, t) /\ u.asked = t.asked
       /\ \A i : i \in Claims(u) <=> i \in Claims(t) /\ ~ForFlip(i)
  BY <1>4, <1>6, <1>8 DEF EntriesSame, KernelSame, BuffersSame, ToldSame
<1>11. /\ u.data[e].refs = t.data[e].refs - 1
       /\ \A f \in Events : /\ u.data[f].old = t.data[f].old
                            /\ f # e => u.data[f].refs = t.data[f].refs
  <2>1. t.data \in [Events -> Data]
    BY FieldTypes
  <2> QED BY <1>1, <1>4, <1>6, <2>1 DEF Held, Data
<1>12. Waited(u)
  BY <1>10 DEF Sound, Waited, Near, Awaited, Wanted, HasEntry, Answered, ToldSame
<1>13. OneFlip(u)
  BY <1>10 DEF Sound, Framed, OneFlip, WaitingFlip, ToldSame
<1>14. AtRest(u)
  BY <1>10 DEF Sound, Framed, AtRest, WaitingFlip, ToldSame, BuffersSame, Used
<1>15. InFlip(u)
  <2>1. \A c \in Crtcs : ToFlip(t, e, c) => ToFlip(u, e, c)
    BY <1>2, <1>7, <1>10 DEF ToFlip
  <2>2. BetweenTwo(u, e)
    BY <1>1, <1>10, <1>11, <2>1 DEF BetweenTwo, BuffersSame, Used, ToldSame
  <2>3. \A f \in Events : WaitingFlip(u, f) => f = e
    BY <1>1, <1>10 DEF WaitingFlip, ToldSame
  <2> QED BY <2>2, <2>3 DEF InFlip
<1>16. InCall(u)
  BY <1>10 DEF InCall
<1>17. Referenced(u)
  <2>1. \A f \in Events : FlipEntries(u, f) = FlipEntries(t, f) /\ ~Calling(u, f)
    BY <1>10 DEF FlipEntries, Calling
  <2>2. \A f \in Events : Calling(t, f) <=> f = e
    BY <1>7 DEF Calling
  <2>3. \A f \in Events : t.data[f].refs = References(t, f)
    BY DEF Sound, Framed, Referenced
  <2>4. References(u, e) = References(t, e) - 1
    BY <1>1, <2>1, <2>2, RefersDropped
  <2>5. \A f \in Events : f # e => References(u, f) = References(t, f)
    BY <2>1, <2>2, RefersSame
  <2> QED BY <1>1, <1>11, <2>3, <2>4, <2>5 DEF Referenced
<1> QED BY <1>9, <1>12, <1>13, <1>14, <1>15, <1>16, <1>17 DEF Sound, Framed

(* The kernel has taken the flip of a CRTC, and the next is asked. *)
LEMMA NextFlipAcceptedSound ==
  ASSUME Living, NEW t \in State, Busy(t), Top(t).kind # "vblank", t.flips[Top(t).crtc] = Nothing,
         Top(t).crtc < NumCrtcs, Sound(t), Tallied(t), NEW u, u = FlipAccepted(t)
  PROVE  Sound(u)
<1> DEFINE o == Claim(Top(t))
           e == Top(t).event
           b == Top(t).crtc
           c == b + 1
           kind == Top(t).kind
           v == FlipTaken(t)
           q == NewEntry(v, c, e, TRUE, c = Top(t).ref)
           k == NewCall(kind, e, Top(t).ref, c, v.next)
           j == Claim(k)
           d == Held(v, e, v.data[e].refs + 1)
<1>0. Paired(t)
  BY DEF Tallied
<1>1. /\ e \in Events /\ WaitingFlip(t, e) /\ \A f \in Events : WaitingFlip(t, f) => f = e
      /\ o \in Claims(t) /\ \A i \in Claims(t) : ForFlip(i) <=> i = o
      /\ BetweenTwo(t, e)
      /\ \A a \in Crtcs : b <= a => Still(t.shows, a, t.data[e].old)
      /\ \A p \in Entries(t) : p.flip => p.crtc <= b
      /\ kind = t.asked[e].kind
  BY <1>0, CallsFlip
<1>2. o.event = e /\ o.crtc = b /\ b \in Crtcs /\ Top(t).ref \in 0..NumCrtcs /\ kind \in {"flip", "unflip"}
  BY TopType DEF Claim
<1>3. /\ v \in State /\ Linked(v) /\ Entries(v) = Entries(t) /\ Coming(v) = Coming(t)
      /\ Claims(v) = {i \in Claims(t) : ~ForFlip(i)}
      /\ v.count = t.count /\ v.shows = t.shows /\ v.next = t.next /\ v.queue = t.queue
      /\ BuffersSame(v, t) /\ ToldSame(v, t) /\ v.asked = t.asked /\ v.data = t.data
  <2> DEFINE x == v
  <2>1. x = FlipTaken(t)
    OBVIOUS
  <2> HIDE DEF x
  <2>2. /\ x \in State /\ Linked(x) /\ Entries(x) = Entries(t) /\ Coming(x) = Coming(t)
        /\ Claims(x) = {i \in Claims(t) : ~ForFlip(i)}
        /\ x.count = t.count /\ x.shows = t.shows /\ x.next = t.next /\ x.queue = t.queue
        /\ BuffersSame(x, t) /\ ToldSame(x, t) /\ x.asked = t.asked /\ x.data = t.data
    BY <1>0, <2>1, FlipTakenLinked
  <2> QED BY <2>2 DEF x
<1>4. Paired(v)
  BY FlipTakenTallied DEF Tallied
<1>5. u = CrtcStarted(v, kind, e, Top(t).ref, c) /\ c \in Crtcs /\ u \in State
  BY FlipAcceptedType
<1> HIDE DEF v
<1>6. v.next \in Nat /\ b \in Int
  BY <1>2, <1>3, FieldTypes DEF Crtcs
<1>7. /\ q \in Entry /\ q.seq = v.next /\ q.crtc = c /\ q.event = e /\ q.flip = TRUE
      /\ k \in Call /\ k.seq = v.next
      /\ j.seq = v.next /\ j.crtc = c /\ j.event = e /\ j.kind = kind
  <2>1. q \in Entry /\ q.seq = v.next /\ q.crtc = c /\ q.event = e /\ q.flip = TRUE
    BY <1>1, <1>5, <1>6 DEF NewEntry, Entry
  <2>2. k \in Call /\ k.seq = v.next
    BY <1>1, <1>2, <1>5, <1>6 DEF NewCall, Call
  <2>3. j.seq = v.next /\ j.crtc = c /\ j.event = e /\ j.kind = kind
    BY DEF NewCall, Claim
  <2> QED BY <2>1, <2>2, <2>3
<1>8. /\ u.next = v.next + 1 /\ u.queue = <<q>> \o v.queue /\ u.calls = <<k>> \o v.calls
      /\ u.data = d /\ KernelSame(u, v) /\ BuffersSame(u, v) /\ ToldSame(u, v) /\ u.asked = v.asked
  BY <1>3, <1>5, SMTT(20) DEF CrtcStarted, State, KernelSame, BuffersSame, ToldSame
<1> HIDE DEF q, k, j
<1>9. /\ Distinct(u.queue) /\ Entries(u) = Entries(v) \cup {q}
      /\ Distinct(u.calls) /\ Claims(u) = Claims(v) \cup {j}
  <2>1. Distinct(u.queue) /\ Entries(u) = Entries(v) \cup {q}
    <3>1. Distinct(v.queue) /\ \A p \in Entries(v) : p.seq # q.seq
      BY <1>3, <1>4, <1>7, NewNumber DEF Linked, Unique
    <3> QED BY <1>3, <1>7, <1>8, <3>1, EntryPushed
  <2>2. Distinct(u.calls) /\ Claims(u) = Claims(v) \cup {Claim(k)}
    <3>1. Distinct(v.calls) /\ \A i \in Claims(v) : i.seq # k.seq
      BY <1>3, <1>4, <1>7, NewNumber DEF Linked, Unique
    <3> QED BY <1>3, <1>7, <1>8, <3>1, CallPushed
  <2> QED BY <2>1, <2>2 DEF j
<1>10. ForFlip(j) /\ kind \in FlipKinds
  BY <1>2, <1>7 DEF ForFlip, FlipKinds
<1>11. Linked(u)
  <2>1. q.flip <=> ForFlip(j)
    BY <1>7, <1>10
  <2>2. q.seq = v.next /\ j.seq = v.next /\ j.event = q.event /\ q.flip
    BY <1>7
  <2>3. \A f \in Events : u.asked[f].msc = v.asked[f].msc
    BY <1>8
  <2> QED BY <1>3, <1>4, <1>5, <1>7, <1>8, <1>9, <2>1, <2>2, <2>3, LinkedMore
          DEF KernelSame, Coming
<1>12. /\ Entries(u) = Entries(t) \cup {q}
       /\ \A i : i \in Claims(u) <=> (i \in Claims(t) /\ ~ForFlip(i)) \/ i = j
       /\ u.count = t.count /\ u.shows = t.shows /\ BuffersSame(u, t) /\ ToldSame(u, t)
       /\ u.asked = t.asked
  BY <1>3, <1>8, <1>9 DEF KernelSame, BuffersSame, ToldSame
<1>13. /\ u.data[e].refs = t.data[e].refs + 1
       /\ \A f \in Events : /\ u.data[f].old = t.data[f].old
                            /\ f # e => u.data[f].refs = t.data[f].refs
  <2>1. t.data \in [Events -> Data]
    BY FieldTypes
  <2> QED BY <1>1, <1>3, <1>8, <2>1 DEF Held, Data
<1> HIDE DEF d, o, e, b, kind
<1>14. /\ b < c /\ b \in Crtcs
       /\ \A a \in Crtcs : (b < a => a = c \/ c < a) /\ (c <= a => b <= a)
       /\ \A a \in Crtcs : a <= b => a <= c /\ a # c
  BY <1>2, <1>6 DEF Crtcs
<1> HIDE DEF c
<1>15. \A p \in Entries(t) : p.crtc \in Crtcs
  BY Sorts
<1>16. Waited(u)
  <2>1. Near(u)
    BY <1>7, <1>12 DEF Sound, Waited, Near
  <2>2. \A p \in Entries(u) : Wanted(u, p)
    <3> SUFFICES ASSUME NEW p \in Entries(u) PROVE Wanted(u, p)
      OBVIOUS
    <3>1. CASE p = q
      BY <1>1, <1>7, <1>12, <3>1 DEF WaitingFlip, Wanted, ToldSame
    <3>2. CASE p # q
      <4>1. p \in Entries(t) /\ Wanted(t, p)
        BY <1>12, <3>2 DEF Sound, Waited, Awaited
      <4>2. ~p.flip => p.event # e
        BY <1>1, <4>1 DEF Wanted, WaitingFlip, FlipKinds
      <4> QED BY <1>7, <1>12, <4>1, <4>2 DEF Wanted, ToldSame
    <3> QED BY <3>1, <3>2
  <2>3. Awaited(u)
    BY <1>12, <2>2 DEF Sound, Waited, Awaited, HasEntry, ToldSame
  <2>4. Answered(u)
    BY <1>12 DEF Sound, Waited, Answered, ToldSame
  <2> QED BY <2>1, <2>3, <2>4 DEF Waited
<1>17. OneFlip(u)
  <2>1. \A f, g \in Events : WaitingFlip(u, f) /\ WaitingFlip(u, g) => f = g
    BY <1>12 DEF Sound, Framed, OneFlip, WaitingFlip, ToldSame
  <2>2. \A p, r \in Entries(u) : p.flip /\ r.flip /\ p.crtc = r.crtc => p = r
    BY <1>1, <1>7, <1>12, <1>14, <1>15 DEF Sound, Framed, OneFlip
  <2>3. \A x, y \in Claims(u) : ForFlip(x) /\ ForFlip(y) => x = y
    BY <1>12
  <2> QED BY <2>1, <2>2, <2>3 DEF OneFlip
<1>18. AtRest(u)
  BY <1>12 DEF Sound, Framed, AtRest, WaitingFlip, ToldSame, BuffersSame, Used
<1>19. InFlip(u)
  <2>1. \A a \in Crtcs : ToFlip(t, e, a) => ToFlip(u, e, a)
    BY <1>1, <1>2, <1>7, <1>10, <1>12, <1>14 DEF ToFlip
  <2>2. BetweenTwo(u, e)
    BY <1>1, <1>12, <1>13, <2>1 DEF BetweenTwo, BuffersSame, Used, ToldSame
  <2>3. \A f \in Events : WaitingFlip(u, f) => f = e
    BY <1>1, <1>12 DEF WaitingFlip, ToldSame
  <2> QED BY <2>2, <2>3 DEF InFlip
<1>20. InCall(u)
  <2>1. \A i \in Claims(u) : ForFlip(i) => i = j
    BY <1>12
  <2>2. j.kind = u.asked[e].kind
    BY <1>1, <1>7, <1>12
  <2>3. \A a \in Crtcs : c <= a => Still(u.shows, a, u.data[e].old)
    BY <1>1, <1>12, <1>13, <1>14
  <2>4. \A p \in Entries(u) : p.flip => p.crtc <= c
    <3> SUFFICES ASSUME NEW p \in Entries(u), p.flip PROVE p.crtc <= c
      OBVIOUS
    <3>1. CASE p = q
      BY <1>5, <1>7, <3>1 DEF Crtcs
    <3>2. CASE p # q
      BY <1>1, <1>12, <1>14, <1>15, <3>2
    <3> QED BY <3>1, <3>2
  <2> QED BY <1>7, <2>1, <2>2, <2>3, <2>4 DEF InCall
<1>21. Referenced(u)
  <2>1. Calling(u, e) /\ Calling(t, e)
    BY <1>1, <1>2, <1>7, <1>10, <1>12 DEF Calling
  <2>2. q \notin FlipEntries(t, e)
    BY <1>1, <1>5, <1>7, <1>14 DEF FlipEntries
  <2>3. FlipEntries(u, e) = FlipEntries(t, e) \cup {q}
    BY <1>7, <1>12 DEF FlipEntries
  <2>4. References(u, e) = References(t, e) + 1
    BY <2>1, <2>2, <2>3, RefersMore
  <2>5. \A f \in Events : f # e => FlipEntries(u, f) = FlipEntries(t, f) /\ (Calling(u, f) <=> Calling(t, f))
    BY <1>1, <1>2, <1>7, <1>10, <1>12 DEF FlipEntries, Calling
  <2>6. \A f \in Events : f # e => References(u, f) = References(t, f)
    BY <2>5, RefersSame
  <2>7. \A f \in Events : t.data[f].refs = References(t, f)
    BY DEF Sound, Framed, Referenced
  <2> QED BY <1>1, <1>13, <2>4, <2>6, <2>7 DEF Referenced
<1> QED BY <1>11, <1>16, <1>17, <1>18, <1>19, <1>20, <1>21 DEF Sound, Framed

(* What reading an event does, to what the invariant speaks of: an event that *)
(* no entry waits for is dropped, another takes its entry.                    *)
Outside(u, t) ==
  /\ u.count = t.count /\ u.requests = t.requests /\ u.flips = t.flips /\ u.shows = t.shows
  /\ u.hasSeq = t.hasSeq /\ u.next = t.next /\ u.calls = t.calls /\ u.asked = t.asked /\ u.fb = t.fb
Dropped(u, t, v) ==
  /\ \A q \in Entries(t) : q.seq # v.seq
  /\ u.queue = t.queue /\ u.data = t.data /\ u.fbs = t.fbs /\ ToldSame(u, t)
Released(u, t, q) ==
  \A e \in Events :
    /\ u.data[e].old = t.data[e].old
    /\ u.data[e].refs = IF q.flip /\ e = q.event THEN t.data[e].refs - 1 ELSE t.data[e].refs
Delivered(u, t, q) ==
  /\ Distinct(u.queue) /\ Entries(u) = Entries(t) \ {q} /\ Released(u, t, q)
  /\ ~q.flip => Told(u, t, q.event) /\ u.fbs = t.fbs
  /\ q.flip /\ t.data[q.event].refs # 1 => ToldSame(u, t) /\ u.fbs = t.fbs
  /\ q.flip /\ t.data[q.event].refs = 1 =>
       Told(u, t, q.event) /\ u.fbs = t.fbs \ {t.data[q.event].old}
EventRead(u, t, v) ==
  /\ v \in Coming(t) /\ Coming(t) = {v} \cup Coming(u)
  /\ Dropped(u, t, v) \/ \E q \in Entries(t) : q.seq = v.seq /\ Delivered(u, t, q)

(* Reading an event does one or the other. *)
LEMMA ReadEventDoes ==
  ASSUME Living, NEW t \in State, t.events # <<>>, Distinct(t.queue), NEW u, u = ReadEvent(t)
  PROVE  u \in State /\ Outside(u, t) /\ \E v : EventRead(u, t, v)
<1> DEFINE v == Head(t.events)
           w == Taken(t)
<1>1. /\ w \in State /\ v \in EventRecord /\ v \in On(t.events)
      /\ On(t.events) = {v} \cup On(w.events)
  BY TakenType
<1>2. u = SequenceHandler(w, v)
  BY DEF ReadEvent, Taken
<1>3. /\ w.count = t.count /\ w.requests = t.requests /\ w.flips = t.flips /\ w.shows = t.shows
      /\ w.hasSeq = t.hasSeq /\ ListsSame(w, t) /\ BuffersSame(w, t) /\ ToldSame(w, t)
      /\ w.data = t.data /\ w.asked = t.asked
  <2> DEFINE x == w
  <2>1. x = Taken(t)
    OBVIOUS
  <2> HIDE DEF x
  <2>2. /\ x.count = t.count /\ x.requests = t.requests /\ x.flips = t.flips /\ x.shows = t.shows
        /\ x.hasSeq = t.hasSeq /\ ListsSame(x, t) /\ BuffersSame(x, t) /\ ToldSame(x, t)
        /\ x.data = t.data /\ x.asked = t.asked
    BY <2>1, TakenKeeps
  <2> QED BY <2>2 DEF x
<1> HIDE DEF v, w
<1>4. /\ u \in State
      /\ \/ u = w /\ \A i \in 1..Len(w.queue) : w.queue[i].seq # v.seq
         \/ \E i \in 1..Len(w.queue) :
              /\ w.queue[i].seq = v.seq /\ u.queue = RemoveAt(w.queue, i)
              /\ Handled(u, w, w.queue[i], v)
  BY <1>1, <1>2, SequenceHandlerDoes
<1>5. CASE u = w /\ \A i \in 1..Len(w.queue) : w.queue[i].seq # v.seq
  <2>1. Outside(u, t)
    BY <1>3, <1>5 DEF Outside, ListsSame, BuffersSame
  <2>2. Dropped(u, t, v)
    BY <1>3, <1>5 DEF Dropped, ListsSame, BuffersSame, Entries, On
  <2>3. Coming(t) = {v} \cup Coming(u) /\ v \in Coming(t)
    BY <1>1, <1>5 DEF Coming
  <2> QED BY <1>4, <2>1, <2>2, <2>3 DEF EventRead
<1>6. CASE \E i \in 1..Len(w.queue) :
             /\ w.queue[i].seq = v.seq /\ u.queue = RemoveAt(w.queue, i)
             /\ Handled(u, w, w.queue[i], v)
  <2>1. PICK i \in 1..Len(t.queue) :
          /\ t.queue[i].seq = v.seq /\ u.queue = RemoveAt(t.queue, i)
          /\ Handled(u, w, t.queue[i], v)
    BY <1>3, <1>6 DEF ListsSame
  <2> DEFINE q == t.queue[i]
  <2>2. Distinct(u.queue) /\ q \in Entries(t) /\ Entries(u) = Entries(t) \ {q}
    BY <2>1, EntryCut
  <2> HIDE DEF q
  <2>3. q.seq = v.seq /\ Handled(u, w, q, v)
    BY <2>1 DEF q
  <2>4. Same(u, w)
    BY <2>3 DEF Handled
  <2>5. Outside(u, t)
    BY <1>3, <2>4 DEF Outside, Same, KernelSame, ListsSame, BuffersSame
  <2>6. Coming(t) = {v} \cup Coming(u) /\ v \in Coming(t)
    BY <1>1, <2>4 DEF Coming, Same, KernelSame
  <2>7. \A e : Told(u, w, e) => Told(u, t, e)
    BY <1>3 DEF Told, ToldSame
  <2>8. CASE ~q.flip
    <3>1. VblankTold(u, w, q, v)
      BY <2>3, <2>8 DEF Handled
    <3>2. Told(u, t, q.event) /\ u.data = t.data /\ u.fbs = t.fbs
      BY <1>3, <2>7, <3>1 DEF VblankTold, BuffersSame
    <3>3. Delivered(u, t, q)
      BY <2>2, <2>8, <3>2 DEF Delivered, Released
    <3> QED BY <1>4, <2>2, <2>3, <2>5, <2>6, <3>3 DEF EventRead
  <2>9. CASE q.flip
    <3>1. DataAfter(u, w, q, v)
      BY <2>3, <2>9 DEF Handled
    <3>2. Released(u, t, q)
      BY <1>3, <2>9, <3>1 DEF DataAfter, DataBy, Released
    <3>3. t.data[q.event].refs # 1 => ToldSame(u, t) /\ u.fbs = t.fbs
      BY <1>3, <2>3, <2>9 DEF Handled, FlipEvent, ToldSame, BuffersSame
    <3>4. t.data[q.event].refs = 1 => Told(u, t, q.event) /\ u.fbs = t.fbs \ {t.data[q.event].old}
      BY <1>3, <2>3, <2>7, <2>9 DEF Handled, LastFlipEvent, BuffersSame
    <3>5. Delivered(u, t, q)
      BY <2>2, <2>9, <3>2, <3>3, <3>4 DEF Delivered
    <3> QED BY <1>4, <2>2, <2>3, <2>5, <2>6, <3>5 DEF EventRead
  <2> QED BY <2>8, <2>9
<1> QED BY <1>4, <1>5, <1>6

(* An event takes its entry, and no call and no flip has its number. *)
LEMMA EventsOwn ==
  ASSUME NEW t \in State, Sound(t), NEW v \in Coming(t), NEW q \in Entries(t), q.seq = v.seq
  PROVE  /\ \A k \in Claims(t) : k.seq # q.seq
         /\ \A c \in Crtcs : Under(t, c) => t.flips[c].seq # q.seq
         /\ \A p \in Entries(t) : p.seq = q.seq => p = q
         /\ q.flip => t.shows[q.crtc] = q.event
         /\ ~q.flip => t.asked[q.event].msc <= v.count
         /\ q.event \in Events /\ q.crtc \in Crtcs
<1>1. /\ \A k \in Claims(t) : k.seq # q.seq
      /\ \A c \in Crtcs : Under(t, c) => t.flips[c].seq # q.seq
  BY DEF Sound, Linked, Apart
<1>2. \A p \in Entries(t) : p.seq = q.seq => p = q
  BY OneEntry DEF Sound, Linked, Unique
<1>3. /\ q.flip => t.shows[q.crtc] = q.event
      /\ ~q.flip => t.asked[q.event].msc <= v.count
  BY DEF Sound, Linked, EventsLinked
<1> QED BY <1>1, <1>2, <1>3, Sorts

(* Present is told of a vblank. *)
LEMMA VblankReadSound ==
  ASSUME NEW t \in State, NEW u \in State, Sound(t), Outside(u, t),
         NEW v \in Coming(t), Coming(t) = {v} \cup Coming(u),
         NEW q \in Entries(t), q.seq = v.seq, ~q.flip, Delivered(u, t, q)
  PROVE  Sound(u)
<1>1. /\ \A k \in Claims(t) : k.seq # q.seq /\ q.event \in Events
      /\ q.event \in Events
  BY EventsOwn
<1>2. Claims(u) = Claims(t) /\ Distinct(u.calls)
  BY DEF Outside, Claims, Sound, Linked, Unique
<1>3. Claims(u) = {k \in Claims(t) : k.seq # q.seq}
  BY <1>1, <1>2
<1>4. t.life[q.event] = "waiting"
  BY DEF Sound, Waited, Awaited, Wanted
<1>5. t.life \in [Events -> Life] /\ t.tells \in [Events -> Nat]
  BY FieldTypes
<1>6. Told(u, t, q.event)
  BY DEF Delivered
<1>7. /\ u.life[q.event] = "told" /\ u.tells[q.event] = t.tells[q.event] + 1
      /\ \A f \in Events : f # q.event => u.life[f] = t.life[f] /\ u.tells[f] = t.tells[f]
  BY <1>1, <1>4, <1>5, <1>6 DEF Told
<1>8. Answered(u)
  <2>1. t.tells[q.event] = 0
    BY <1>1, <1>4 DEF Sound, Waited, Answered
  <2> QED BY <1>7, <2>1 DEF Sound, Waited, Answered
<1>9. DataSame(u, t) /\ BuffersSame(u, t)
  BY DEF DataSame, Delivered, Released, BuffersSame, Outside
<1>10. /\ Coming(u) \subseteq Coming(t)
       /\ \A x \in Coming(t) : x \in Coming(u) \/ x.seq = q.seq
  OBVIOUS
<1>11. Distinct(u.queue) /\ Entries(u) = Entries(t) \ {q}
  BY DEF Delivered
<1>12. /\ u.count = t.count /\ u.requests = t.requests /\ u.flips = t.flips /\ u.shows = t.shows
       /\ u.hasSeq = t.hasSeq /\ u.asked = t.asked /\ u.next = t.next
  BY DEF Outside
<1> QED BY <1>2, <1>3, <1>7, <1>8, <1>9, <1>10, <1>11, <1>12, VblankGone

(* A flip has taken place on a CRTC, and not on all. *)
LEMMA FlipReadSound ==
  ASSUME NEW t \in State, NEW u \in State, Sound(t), Outside(u, t),
         NEW v \in Coming(t), Coming(t) = {v} \cup Coming(u),
         NEW q \in Entries(t), q.seq = v.seq, q.flip, t.data[q.event].refs # 1, Delivered(u, t, q)
  PROVE  Sound(u)
<1> DEFINE e == q.event
<1>1. /\ \A k \in Claims(t) : k.seq # q.seq
      /\ \A c \in Crtcs : Under(t, c) => t.flips[c].seq # q.seq
      /\ \A p \in Entries(t) : p.seq = q.seq => p = q
      /\ t.shows[q.crtc] = e /\ e \in Events /\ q.crtc \in Crtcs
  BY EventsOwn
<1>2. Claims(u) = Claims(t) /\ Distinct(u.calls) /\ Distinct(u.queue) /\ Entries(u) = Entries(t) \ {q}
  BY DEF Outside, Claims, Sound, Linked, Unique, Delivered
<1>3. /\ u.count = t.count /\ u.requests = t.requests /\ u.flips = t.flips /\ u.shows = t.shows
      /\ u.hasSeq = t.hasSeq /\ u.asked = t.asked /\ u.next = t.next
      /\ ToldSame(u, t) /\ BuffersSame(u, t)
  BY DEF Outside, Delivered, BuffersSame
<1>4. \A f \in Events :
        /\ u.data[f].old = t.data[f].old
        /\ u.data[f].refs = IF f = e THEN t.data[f].refs - 1 ELSE t.data[f].refs
  BY DEF Delivered, Released
<1>5. WaitingFlip(t, e) /\ BetweenTwo(t, e) /\ \A f \in Events : WaitingFlip(t, f) => f = e
  BY <1>1, FlipsWaited DEF Sound, Framed, OneFlip, InFlip
<1>6. \A f \in Events : WaitingFlip(u, f) <=> WaitingFlip(t, f)
  BY <1>3 DEF WaitingFlip, ToldSame
<1> HIDE DEF e
<1>7. Linked(u)
  <2>1. Unique(u) /\ Numbered(u)
    BY <1>2, <1>3 DEF Sound, Linked, Unique, Numbered
  <2>2. Apart(u)
    BY <1>2, <1>3 DEF Sound, Linked, Apart, Under
  <2>3. Expected(u)
    <3> SUFFICES ASSUME NEW p \in Entries(t), p # q PROVE Expects(u, p.seq)
      BY <1>2 DEF Expected
    <3>1. p.seq # v.seq /\ Expects(t, p.seq)
      BY <1>1 DEF Sound, Linked, Expected
    <3> QED BY <1>2, <1>3, <3>1 DEF Expects, Under
  <2>4. RequestsLinked(u) /\ EventsLinked(u)
    BY <1>2, <1>3 DEF Sound, Linked, RequestsLinked, EventsLinked, Target
  <2>5. CallsLinked(u)
    BY <1>1, <1>2 DEF Sound, Linked, CallsLinked
  <2>6. FlipsLinked(u)
    BY <1>1, <1>2, <1>3 DEF Sound, Linked, FlipsLinked, Under
  <2> QED BY <2>1, <2>2, <2>3, <2>4, <2>5, <2>6 DEF Linked
<1>8. t.data[e].refs = References(t, e)
  BY <1>1 DEF Sound, Framed, Referenced
<1>9. q \in FlipEntries(t, e)
  BY DEF FlipEntries, e
<1>10. HasEntry(u, e)
  <2>1. CASE Calling(t, e)
    <3>1. PICK k \in Claims(t) : ForFlip(k) /\ k.event = e
      BY <2>1 DEF Calling
    <3>2. PICK r \in Entries(t) : r.seq = k.seq /\ r.event = k.event
      BY DEF Sound, Linked, CallsLinked
    <3>3. r # q
      BY <1>1, <3>2
    <3> QED BY <1>2, <3>1, <3>2, <3>3 DEF HasEntry
  <2>2. CASE ~Calling(t, e)
    <3>1. References(t, e) # 1
      BY <1>8 DEF e
    <3>2. FlipEntries(t, e) # {q}
      BY <2>2, <3>1, Refers
    <3>3. PICK r \in FlipEntries(t, e) : r # q
      BY <1>9, <3>2
    <3> QED BY <1>2, <3>3 DEF HasEntry, FlipEntries
  <2> QED BY <2>1, <2>2
<1>11. Waited(u)
  <2>1. Near(u)
    BY <1>2, <1>3 DEF Sound, Waited, Near
  <2>2. \A p \in Entries(u) : Wanted(u, p)
    BY <1>2, <1>3 DEF Sound, Waited, Awaited, Wanted, ToldSame
  <2>3. ASSUME NEW f \in Events, u.life[f] = "waiting" PROVE HasEntry(u, f)
    <3>1. CASE f = e
      BY <1>10, <3>1
    <3>2. CASE f # e
      <4>1. HasEntry(t, f)
        BY <1>3, <2>3 DEF Sound, Waited, Awaited, ToldSame
      <4> QED BY <1>2, <3>2, <4>1 DEF HasEntry, e
    <3> QED BY <3>1, <3>2
  <2>4. \A f \in Events : u.life[f] = "unused" <=> u.asked[f].kind = "none"
    BY <1>3 DEF Sound, Waited, Awaited, ToldSame
  <2>5. Answered(u)
    BY <1>3 DEF Sound, Waited, Answered, ToldSame
  <2> QED BY <2>1, <2>2, <2>3, <2>4, <2>5 DEF Waited, Awaited
<1>12. OneFlip(u)
  BY <1>2, <1>6 DEF Sound, Framed, OneFlip
<1>13. AtRest(u)
  BY <1>3, <1>6 DEF Sound, Framed, AtRest, ToldSame, BuffersSame, Used
<1>14. InFlip(u)
  <2>1. \A c \in Crtcs : t.shows[c] # e => ToFlip(u, e, c)
    <3> SUFFICES ASSUME NEW c \in Crtcs, t.shows[c] # e PROVE ToFlip(u, e, c)
      OBVIOUS
    <3>1. ToFlip(t, e, c) /\ c # q.crtc
      BY <1>1, <1>5 DEF BetweenTwo
    <3> QED BY <1>2, <3>1 DEF ToFlip
  <2>2. BetweenTwo(u, e)
    BY <1>1, <1>3, <1>4, <1>5, <2>1 DEF BetweenTwo, BuffersSame, Used, ToldSame
  <2> QED BY <1>5, <1>6, <2>2 DEF InFlip
<1>15. InCall(u)
  <2>1. \A k \in Claims(t) : k.event \in Events
    BY Sorts
  <2> QED BY <1>2, <1>3, <1>4, <2>1 DEF Sound, Framed, InCall
<1>16. Referenced(u)
  <2>1. FlipEntries(u, e) = FlipEntries(t, e) \ {q}
    BY <1>2 DEF FlipEntries
  <2>2. \A f \in Events : Calling(u, f) <=> Calling(t, f)
    BY <1>2 DEF Calling
  <2>3. References(u, e) = References(t, e) - 1
    BY <1>1, <1>9, <2>1, <2>2, RefersLess
  <2>4. \A f \in Events : f # e => FlipEntries(u, f) = FlipEntries(t, f)
    BY <1>2 DEF FlipEntries, e
  <2>5. \A f \in Events : f # e => References(u, f) = References(t, f)
    BY <2>2, <2>4, RefersSame
  <2>6. \A f \in Events : t.data[f].refs = References(t, f)
    BY DEF Sound, Framed, Referenced
  <2> QED BY <1>4, <2>3, <2>5, <2>6 DEF Referenced
<1> QED BY <1>7, <1>11, <1>12, <1>13, <1>14, <1>15, <1>16 DEF Sound, Framed

(* The last reference: the flip has taken place on all CRTCs.                 *)
LEMMA LastReference ==
  ASSUME NEW t \in State, Sound(t), NEW v \in Coming(t),
         NEW q \in Entries(t), q.seq = v.seq, q.flip, t.data[q.event].refs = 1
  PROVE  /\ q.event \in Events /\ BetweenTwo(t, q.event) /\ WaitingFlip(t, q.event)
         /\ \A f \in Events : WaitingFlip(t, f) => f = q.event
         /\ \A p \in Entries(t) : p.flip => p = q
         /\ \A k \in Claims(t) : ~ForFlip(k)
         /\ \A c \in Crtcs : ~Under(t, c) /\ t.shows[c] = q.event
<1> DEFINE e == q.event
<1>1. /\ \A c \in Crtcs : Under(t, c) => t.flips[c].seq # q.seq
      /\ t.shows[q.crtc] = e /\ e \in Events
  BY EventsOwn
<1>2. WaitingFlip(t, e) /\ BetweenTwo(t, e) /\ \A f \in Events : WaitingFlip(t, f) => f = e
  BY <1>1, FlipsWaited DEF Sound, Framed, OneFlip, InFlip
<1>3. q \in FlipEntries(t, e) /\ References(t, e) = 1
  BY <1>1 DEF FlipEntries, Sound, Framed, Referenced
<1> HIDE DEF e
<1>4. ~Calling(t, e) /\ FlipEntries(t, e) = {q}
  BY <1>3, Refers
<1>5. \A p \in Entries(t) : p.flip => p = q
  <2>1. \A p \in Entries(t) : p.flip => p.event \in Events /\ WaitingFlip(t, p.event)
    BY Sorts, FlipsWaited
  <2> QED BY <1>2, <1>4, <2>1 DEF FlipEntries
<1>6. \A k \in Claims(t) : ~ForFlip(k)
  <2>1. \A k \in Claims(t) : ForFlip(k) => k.event \in Events /\ WaitingFlip(t, k.event)
    BY Sorts, FlipsWaited
  <2> QED BY <1>2, <1>4, <2>1 DEF Calling
<1>7. \A c \in Crtcs : ~Under(t, c)
  BY <1>1, <1>5 DEF Sound, Linked, FlipsLinked
<1>8. \A c \in Crtcs : t.shows[c] = e
  <2> SUFFICES ASSUME NEW c \in Crtcs, t.shows[c] # e PROVE FALSE
    OBVIOUS
  <2>1. ToFlip(t, e, c)
    BY <1>2 DEF BetweenTwo
  <2>2. c = q.crtc
    BY <1>5, <1>6, <2>1 DEF ToFlip
  <2> QED BY <1>1, <1>2, <2>2 DEF BetweenTwo
<1> QED BY <1>1, <1>2, <1>5, <1>6, <1>7, <1>8 DEF e

(* Present is told that the flip is over. *)
LEMMA LastFlipReadSound ==
  ASSUME NEW t \in State, NEW u \in State, Sound(t), Outside(u, t),
         NEW v \in Coming(t), Coming(t) = {v} \cup Coming(u),
         NEW q \in Entries(t), q.seq = v.seq, q.flip, t.data[q.event].refs = 1, Delivered(u, t, q)
  PROVE  Sound(u)
<1> DEFINE e == q.event
<1>1. /\ e \in Events /\ BetweenTwo(t, e) /\ WaitingFlip(t, e)
      /\ \A f \in Events : WaitingFlip(t, f) => f = e
      /\ \A p \in Entries(t) : p.flip => p = q
      /\ \A k \in Claims(t) : ~ForFlip(k)
      /\ \A c \in Crtcs : ~Under(t, c) /\ t.shows[c] = e
  BY LastReference
<1>2. \A p \in Entries(t) : p.seq = q.seq => p = q
  BY EventsOwn
<1>3. Claims(u) = Claims(t) /\ Distinct(u.calls) /\ Distinct(u.queue) /\ Entries(u) = Entries(t) \ {q}
  BY DEF Outside, Claims, Sound, Linked, Unique, Delivered
<1>4. /\ u.count = t.count /\ u.requests = t.requests /\ u.flips = t.flips /\ u.shows = t.shows
      /\ u.hasSeq = t.hasSeq /\ u.asked = t.asked /\ u.next = t.next /\ u.fb = t.fb
      /\ Told(u, t, e) /\ u.fbs = t.fbs \ {t.data[e].old}
  BY DEF Outside, Delivered
<1>5. \A f \in Events : u.data[f].refs = IF f = e THEN t.data[f].refs - 1 ELSE t.data[f].refs
  BY DEF Delivered, Released
<1>6. t.data[e].refs = 1
  OBVIOUS
<1> HIDE DEF e
<1>7. t.life \in [Events -> Life] /\ t.tells \in [Events -> Nat]
  BY FieldTypes
<1>8. t.life[e] = "waiting" /\ t.asked[e].kind \in FlipKinds
  BY <1>1 DEF WaitingFlip
<1>9. /\ u.life[e] = "told" /\ u.tells[e] = t.tells[e] + 1
      /\ \A f \in Events : f # e => u.life[f] = t.life[f] /\ u.tells[f] = t.tells[f]
  BY <1>1, <1>4, <1>7, <1>8 DEF Told
<1>10. Answered(u)
  <2>1. t.tells[e] = 0
    BY <1>1, <1>8 DEF Sound, Waited, Answered
  <2> QED BY <1>9, <2>1 DEF Sound, Waited, Answered
<1>11. u.fbs = {u.fb} /\ u.fb = e
  BY <1>1, <1>4 DEF BetweenTwo
<1>12. Used(u, u.fb) /\ \A c \in Crtcs : Still(u.shows, c, u.fb) /\ ~Under(u, c)
  BY <1>1, <1>4, <1>9, <1>11 DEF Used, Under, Still
<1>13. \A p \in Entries(t) : p.event = e => p.flip
  BY <1>8 DEF Sound, Waited, Awaited, Wanted, FlipKinds
<1>14. /\ \A p : p \in Entries(u) <=> p \in Entries(t) /\ ~p.flip
       /\ \A k : k \in Claims(u) <=> k \in Claims(t) /\ ~ForFlip(k)
  BY <1>1, <1>3
<1>15. /\ Coming(u) \subseteq Coming(t)
       /\ \A x \in Coming(t) : x \in Coming(u) \/ \A p \in Entries(u) : p.seq # x.seq
  BY <1>2, <1>3
<1>16. \A f \in Events : f # e => u.asked[f] = t.asked[f] /\ u.life[f] = t.life[f]
                                  /\ u.data[f].refs = t.data[f].refs
  BY <1>4, <1>5, <1>9
<1>17. u.life[e] \in {"told", "refused"} /\ u.asked[e].kind \in FlipKinds /\ u.data[e].refs = 0
  BY <1>1, <1>4, <1>5, <1>6, <1>8, <1>9
<1> QED BY <1>1, <1>3, <1>4, <1>10, <1>11, <1>12, <1>13, <1>14, <1>15, <1>16, <1>17, FlipGone

(* The driver reads an event. *)
LEMMA ReadEventSound ==
  ASSUME Living, NEW t \in State, t.events # <<>>, Sound(t), NEW u, u = ReadEvent(t)
  PROVE  u \in State /\ Sound(u)
<1>1. u \in State /\ Outside(u, t) /\ \E v : EventRead(u, t, v)
  BY ReadEventDoes DEF Sound, Linked, Unique
<1>2. PICK v \in Coming(t) :
        /\ Coming(t) = {v} \cup Coming(u)
        /\ Dropped(u, t, v) \/ \E q \in Entries(t) : q.seq = v.seq /\ Delivered(u, t, q)
  BY <1>1 DEF EventRead
<1>3. CASE Dropped(u, t, v)
  <2>1. EntriesSame(u, t) /\ DataSame(u, t) /\ BuffersSame(u, t) /\ ToldSame(u, t)
    BY <1>1, <1>3 DEF Dropped, Outside, EntriesSame, DataSame, BuffersSame, Entries, Claims,
                      Sound, Linked, Unique
  <2>2. /\ Coming(u) \subseteq Coming(t)
        /\ \A x \in Coming(t) : x \in Coming(u) \/ \A q \in Entries(t) : q.seq # x.seq
    BY <1>2, <1>3 DEF Dropped
  <2> QED BY <1>1, <2>1, <2>2, SoundSame DEF Outside
<1>4. CASE \E q \in Entries(t) : q.seq = v.seq /\ Delivered(u, t, q)
  <2>1. PICK q \in Entries(t) : q.seq = v.seq /\ Delivered(u, t, q)
    BY <1>4
  <2>2. CASE ~q.flip
    BY <1>1, <1>2, <2>1, <2>2, VblankReadSound
  <2>3. CASE q.flip /\ t.data[q.event].refs # 1
    BY <1>1, <1>2, <2>1, <2>3, FlipReadSound
  <2>4. CASE q.flip /\ t.data[q.event].refs = 1
    BY <1>1, <1>2, <2>1, <2>4, LastFlipReadSound
  <2> QED BY <2>2, <2>3, <2>4
<1> QED BY <1>1, <1>2, <1>3, <1>4

(* A full file is flushed in a call. *)
LEMMA FlushSound ==
  ASSUME Living, NEW t \in State, t.events # <<>>, Busy(t), Sound(t), NEW u, u = Flush(t)
  PROVE  Sound(u)
<1> DEFINE r == ReadEvent(t)
<1>1. r \in State /\ Sound(r) /\ r.calls = t.calls
  <2> DEFINE x == r
  <2>1. x = ReadEvent(t)
    OBVIOUS
  <2> HIDE DEF x
  <2>2. x \in State /\ Sound(x)
    BY <2>1, ReadEventSound
  <2> QED BY <2>2, ReadEventCalls DEF x
<1>2. /\ u \in State /\ KernelSame(u, r) /\ BuffersSame(u, r) /\ ToldSame(u, r)
      /\ u.next = r.next /\ u.queue = r.queue /\ u.data = r.data /\ u.asked = r.asked
      /\ CallsSame(u, r)
  BY <1>1, FlushKeeps DEF CallsSame
<1> HIDE DEF r
<1>3. Len(u.calls) = Len(r.calls) /\ \A i \in 1..Len(r.calls) : /\ u.calls[i].seq = r.calls[i].seq
                                                                /\ Claim(u.calls[i]) = Claim(r.calls[i])
  BY <1>2 DEF CallsSame, Claim
<1>4. Distinct(u.calls)
  BY <1>1, <1>3 DEF Sound, Linked, Unique, Distinct
<1>5. Claims(u) = Claims(r)
  <2> HIDE DEF Claim
  <2> QED BY <1>3 DEF Claims
<1>6. EntriesSame(u, r) /\ DataSame(u, r) /\ Coming(u) = Coming(r)
  BY <1>1, <1>2, <1>4, <1>5 DEF EntriesSame, DataSame, Entries, Coming, KernelSame, Sound, Linked, Unique
<1> QED BY <1>1, <1>2, <1>6, SoundSame DEF KernelSame

----------------------------------------------------------------------------
(* Each action keeps the invariant. *)
LEMMA SoundStep ==
  ASSUME Living, Cooperates, s \in State, Sound(s), Tallied(s), NEW u, Acted(u)
  PROVE  Sound(u)
<1>0. Paired(s)
  BY DEF Tallied
<1>1. ASSUME NEW c \in Crtcs, NEW news \in SetToSeqs(DueEvents(s, c)), u = KernelVblank(s, c, news)
      PROVE  Sound(u)
  BY <1>0, <1>1, VblankSound
<1>2. ASSUME NEW c \in Crtcs, s.flips[c] # Nothing, u = KernelFlip(s, c) PROVE Sound(u)
  BY <1>0, <1>2, FlipSound DEF Under
<1>3. ASSUME NEW c \in Crtcs, u = GetMsc(s, c) PROVE Sound(u)
  BY <1>3, GetMscSound
<1>4. ASSUME NEW c \in Crtcs, NEW e \in Events, NEW n \in Aheads, Fresh(e),
             u = QueueVblank(s, c, e, s.count[c] + n)
      PROVE  Sound(u)
  <2>1. n \in Nat /\ s.count[c] \in Nat /\ n + Passed < Word
    BY SetupType, FieldTypes DEF Cooperates, Living, Aheads
  <2>2. s.count[c] + n \in Nat /\ (s.count[c] + n) + Passed < s.count[c] + Word
    BY <2>1, Widths
  <2>3. s.life[e] = "unused"
    BY <1>4 DEF Fresh
  <2> QED BY <1>0, <1>4, <2>2, <2>3, QueueVblankSound
<1>5. 0 \in 0..NumCrtcs /\ \A c \in Crtcs : c \in 0..NumCrtcs
  BY SetupType DEF Crtcs
<1>6. NoFlip => \A f \in Events : ~WaitingFlip(s, f)
  BY DEF NoFlip, Kinds, WaitingFlip, FlipKinds
<1>7. ASSUME NEW e \in Events, NEW kind \in {"flip", "unflip"}, NEW ref \in 0..NumCrtcs,
             Fresh(e), NoFlip, u = DoPageflip(s, kind, e, ref)
      PROVE  Sound(u)
  <2>1. s.life[e] = "unused"
    BY <1>7 DEF Fresh
  <2> QED BY <1>6, <1>7, <2>1, DoPageflipSound
<1>8. ASSUME NEW e \in Events, Fresh(e), NoFlip, u = SetModes(Unflipping(s, e), e) PROVE Sound(u)
  <2>1. s.life[e] = "unused"
    BY <1>8 DEF Fresh
  <2> QED BY <1>6, <1>8, <2>1, UnflippedSound
<1>9. ASSUME NEW e \in Events, ~Busy(s), e \in Kinds("vblank"), s.life[e] = "waiting",
             u = Aborted(s, e)
      PROVE  Sound(u)
  BY <1>9, AbortedSound DEF Kinds
<1>10. ASSUME Busy(s), Top(s).kind = "vblank", u = VblankAccepted(s) \/ u = VblankRefused(s)
       PROVE  Sound(u)
  BY <1>0, <1>10, VblankAcceptedSound, VblankRefusedSound
<1>11. ASSUME Busy(s), Top(s).kind # "vblank", s.flips[Top(s).crtc] = Nothing, u = FlipAccepted(s)
       PROVE  Sound(u)
  BY <1>0, <1>11, LastFlipAcceptedSound, NextFlipAcceptedSound
<1>12. ASSUME Busy(s), Top(s).kind # "vblank", Top(s).crtc = 1 \/ PartialRefusals, u = FlipRefused(s)
       PROVE  Sound(u)
  BY <1>0, <1>12, FlipRefusedSound DEF Cooperates
<1>13. ASSUME Busy(s), s.events # <<>>, u = Flush(s) PROVE Sound(u)
  BY <1>13, FlushSound
<1>14. ASSUME s.events # <<>>, u = ReadEvent(s) PROVE Sound(u)
  BY <1>14, ReadEventSound
<1>15. \A c \in Crtcs, e \in Events : Fresh(e) /\ NoFlip /\ u = DoPageflip(s, "flip", e, c) => Sound(u)
  BY <1>5, <1>7
<1>16. \A e \in Events : Fresh(e) /\ NoFlip /\ u = DoPageflip(s, "unflip", e, 0) => Sound(u)
  BY <1>5, <1>7
<1> QED BY <1>1, <1>2, <1>3, <1>4, <1>8, <1>9, <1>10, <1>11, <1>12, <1>13, <1>14, <1>15, <1>16 DEF Acted

(* The first state. *)
LEMMA InitSound ==
  ASSUME Init
  PROVE  Sound(s)
<1>1. Living /\ s \in State
  BY InitTyped
<1>2. /\ s.requests = {} /\ s.events = <<>> /\ s.queue = <<>> /\ s.calls = <<>> /\ s.next = 1
      /\ s.flips = [c \in Crtcs |-> Nothing] /\ s.shows = [c \in Crtcs |-> 0]
      /\ s.fbs = {0} /\ s.fb = 0
  BY DEF Init
<1>3. /\ s.data = [e \in Events |-> [refs |-> 0, old |-> 0, msc |-> 0, true |-> 0]]
      /\ s.life = [e \in Events |-> "unused"] /\ s.tells = [e \in Events |-> 0]
      /\ s.asked = [e \in Events |-> [kind |-> "none", crtc |-> 1, msc |-> 0]]
  BY DEF Init
<1>4. Entries(s) = {} /\ Claims(s) = {} /\ Coming(s) = {} /\ \A c \in Crtcs : ~Under(s, c)
  BY <1>2 DEF Entries, Claims, Coming, On, Under
<1>5. /\ \A e \in Events : s.life[e] = "unused" /\ s.tells[e] = 0 /\ s.asked[e].kind = "none"
                           /\ s.data[e].refs = 0
  BY <1>3
<1>6. Unique(s) /\ Numbered(s)
  BY <1>2, <1>4 DEF Unique, Distinct, Numbered
<1>7. Linked(s)
  BY <1>4, <1>6 DEF Linked, Apart, Expected, RequestsLinked, EventsLinked, CallsLinked, FlipsLinked
<1>8. Waited(s)
  BY <1>4, <1>5 DEF Waited, Near, Awaited, Answered
<1>9. \A e \in Events : ~WaitingFlip(s, e)
  BY <1>5 DEF WaitingFlip
<1>10. OneFlip(s) /\ InFlip(s) /\ InCall(s)
  BY <1>4, <1>9 DEF OneFlip, InFlip, InCall
<1>11. AtRest(s)
  <2>1. Used(s, s.fb)
    BY <1>2, Widths DEF Used, Events
  <2> QED BY <1>2, <2>1 DEF AtRest, Still
<1>12. Referenced(s)
  <2>1. \A e \in Events : References(s, e) = 0
    BY <1>1, <1>4, Refers DEF FlipEntries, Calling
  <2> QED BY <1>5, <2>1 DEF Referenced
<1> QED BY <1>7, <1>8, <1>10, <1>11, <1>12 DEF Sound, Framed

(* The screen is the same from one state to the next. *)
LEMMA SoundAfter ==
  ASSUME setup' = setup, Sound(s')
  PROVE  Sound(s)'
BY ZenonT(30) DEF Sound, Linked, Waited, Framed, Unique, Distinct, Numbered, Apart, Expected, Expects,
       RequestsLinked, EventsLinked, CallsLinked, FlipsLinked, Target, Near, Awaited, Answered,
       HasEntry, Wanted, OneFlip, AtRest, InFlip, InCall, Referenced, References, Used, ToFlip,
       BetweenTwo, WaitingFlip, FlipEntries, Calling, Entries, Coming, Claims, Claim, On, Under,
       ForFlip, FlipKinds, Nothing, Crtcs, NumCrtcs, Events, Still, Dark

(* Numbers link what the driver queued to what the kernel will send, Present  *)
(* is waited for by what has an entry, and a flip has two framebuffers.       *)
LEMMA SoundInvariant ==
  ASSUME Cooperates
  PROVE  Spec => []Sound(s)
<1>0. CloseCounters
  BY DEF Cooperates
<1>1. Init => Sound(s)
  BY InitSound
<1>2. Living /\ s \in State /\ Tallied(s) /\ Sound(s) /\ [Next]_vars => Sound(s)'
  <2> SUFFICES ASSUME Living, s \in State, Tallied(s), Sound(s), [Next]_vars PROVE Sound(s)'
    OBVIOUS
  <2>1. CASE Next
    <3>1. Acted(s') /\ setup' = setup
      BY <2>1, NextActs
    <3>2. Sound(s')
      BY <3>1, SoundStep
    <3> QED BY <3>1, <3>2, SoundAfter
  <2>2. CASE UNCHANGED vars
    <3>1. s' = s /\ setup' = setup
      BY <2>2, Stutters
    <3>2. Sound(s')
      BY <3>1
    <3> QED BY <3>1, <3>2, SoundAfter
  <2> QED BY <2>1, <2>2
<1>3. Spec => []Tallied(s)
  BY <1>0, TalliedInvariant
<1> QED BY <1>1, <1>2, <1>3, TypeInvariant, PTL DEF Spec

----------------------------------------------------------------------------
(* What the invariant shows. *)
LEMMA TypesSound ==
  ASSUME NEW t \in State, Sound(t)
  PROVE  t \in StateType
<1>1. t.data \in [Events -> [refs : Nat, old : Fbs, msc : Nat, true : Nat]]
  <2>1. t.data \in [Events -> Data]
    BY FieldTypes
  <2>2. \A e \in Events : t.data[e].refs \in Nat
    BY Refers DEF Sound, Framed, Referenced
  <2> QED BY <2>1, <2>2 DEF Data
<1>2. /\ t.count \in [Crtcs -> Nat] /\ t.requests \in SUBSET [crtc : Crtcs, msc : Nat, seq : Nat]
      /\ t.events \in Seq([crtc : Crtcs, seq : Nat, count : Nat, wide : BOOLEAN])
      /\ t.life \in [Events -> {"unused", "waiting", "told", "aborted", "refused"}]
      /\ t.asked \in [Events -> [kind : {"none", "vblank", "flip", "unflip"}, crtc : Crtcs, msc : Nat]]
  BY FieldTypes DEF Request, EventRecord, Life, Asked
<1> QED BY <1>1, <1>2, FieldTypes DEF StateType, State

(* What is shown, or is about to be, is there. *)
LEMMA ShownSound ==
  ASSUME NEW t \in State, Sound(t)
  PROVE  \A c \in Crtcs : (t.shows[c] \in t.fbs \/ Dark(t.shows, c))
                             /\ (Under(t, c) => t.flips[c].fb \in t.fbs)
<1>1. CASE \A e \in Events : ~WaitingFlip(t, e)
  <2>1. t.fbs = {t.fb} /\ \A c \in Crtcs : Still(t.shows, c, t.fb)
    BY <1>1 DEF Sound, Framed, AtRest
  <2>2. \A c \in Crtcs : Under(t, c) => t.flips[c].fb \in Events /\ WaitingFlip(t, t.flips[c].fb)
    BY Sorts, FlipsWaited DEF Sound, Linked, FlipsLinked
  <2> QED BY <1>1, <2>1, <2>2 DEF Still
<1>2. ASSUME NEW e \in Events, WaitingFlip(t, e)
      PROVE  \A c \in Crtcs : (t.shows[c] \in t.fbs \/ Dark(t.shows, c))
                             /\ (Under(t, c) => t.flips[c].fb \in t.fbs)
  <2>1. BetweenTwo(t, e) /\ \A f \in Events : WaitingFlip(t, f) => f = e
    BY <1>2 DEF Sound, Framed, InFlip, OneFlip
  <2>2. \A c \in Crtcs : Under(t, c) => t.flips[c].fb \in Events /\ WaitingFlip(t, t.flips[c].fb)
    BY Sorts, FlipsWaited DEF Sound, Linked, FlipsLinked
  <2> QED BY <2>1, <2>2 DEF BetweenTwo, Still
<1> QED BY <1>1, <1>2

(* References are counted over the lists. *)
LEMMA ReferencesListed ==
  ASSUME NEW t \in State, Sound(t), NEW e \in Events
  PROVE  t.data[e].refs
           = Cardinality({i \in DOMAIN t.queue : t.queue[i].flip /\ t.queue[i].event = e})
           + Cardinality({i \in DOMAIN t.calls : t.calls[i].kind # "vblank" /\ t.calls[i].event = e})
<1> DEFINE Q == {i \in DOMAIN t.queue : t.queue[i].flip /\ t.queue[i].event = e}
           K == {i \in DOMAIN t.calls : t.calls[i].kind # "vblank" /\ t.calls[i].event = e}
           f == [i \in Q |-> t.queue[i]]
<1>1. /\ DOMAIN t.queue = 1..Len(t.queue) /\ Len(t.queue) \in Nat
      /\ DOMAIN t.calls = 1..Len(t.calls) /\ Len(t.calls) \in Nat
  BY FieldTypes
<1>2. f \in Bijection(Q, FlipEntries(t, e))
  <2>1. \A q : q \in FlipEntries(t, e) <=> \E i \in Q : q = t.queue[i]
    BY <1>1 DEF FlipEntries, Entries, On
  <2>2. \A i, j \in Q : t.queue[i] = t.queue[j] => i = j
    BY <1>1 DEF Sound, Linked, Unique, Distinct
  <2> HIDE DEF Q
  <2>3. f \in [Q -> FlipEntries(t, e)] /\ DOMAIN f = Q /\ \A i \in Q : f[i] = t.queue[i]
    BY <2>1
  <2> HIDE DEF f
  <2>4. f \in Injection(Q, FlipEntries(t, e))
    BY <2>2, <2>3 DEF Injection, IsInjective
  <2>5. f \in Surjection(Q, FlipEntries(t, e))
    BY <2>1, <2>3 DEF Surjection
  <2> QED BY <2>4, <2>5 DEF Bijection
<1>3. Cardinality(Q) = Cardinality(FlipEntries(t, e))
  <2>1. IsFiniteSet(Q)
    <3>1. Q \in SUBSET (1..Len(t.queue)) /\ IsFiniteSet(1..Len(t.queue))
      BY <1>1, FS_Interval
    <3> QED BY <3>1, FS_Subset
  <2> HIDE DEF Q, f
  <2>2. ExistsBijection(Q, FlipEntries(t, e))
    BY <1>2 DEF ExistsBijection
  <2> QED BY <2>1, <2>2, FS_Bijection
<1>4. Cardinality(K) = IF Calling(t, e) THEN 1 ELSE 0
  <2>1. \A i \in K : /\ Claim(t.calls[i]) \in Claims(t) /\ ForFlip(Claim(t.calls[i]))
                     /\ Claim(t.calls[i]).event = e /\ Claim(t.calls[i]).seq = t.calls[i].seq
    <3>1. \A i \in K : Claim(t.calls[i]) \in Claims(t)
      BY <1>1 DEF Claims
    <3> QED BY <3>1 DEF Claim, ForFlip
  <2>2. \A i, j \in K : i = j
    <3>1. \A i, j \in K : Claim(t.calls[i]) = Claim(t.calls[j])
      BY <2>1 DEF Sound, Framed, OneFlip
    <3>2. \A i, j \in K : t.calls[i].seq = t.calls[j].seq
      <4> TAKE i, j \in K
      <4> QED BY <2>1, <3>1
    <3> QED BY <1>1, <3>2 DEF Sound, Linked, Unique, Distinct
  <2>3. Calling(t, e) => K # {}
    BY <1>1 DEF Calling, Claims, Claim, ForFlip
  <2>4. K # {} => Calling(t, e)
    BY <2>1 DEF Calling
  <2> HIDE DEF K
  <2>5. CASE Calling(t, e)
    <3>1. PICK i : K = {i}
      BY <2>2, <2>3, <2>5
    <3> QED BY <2>5, <3>1, FS_Singleton
  <2>6. CASE ~Calling(t, e)
    BY <2>4, <2>6, FS_EmptySet
  <2> QED BY <2>5, <2>6
<1>5. t.data[e].refs = Cardinality(FlipEntries(t, e)) + (IF Calling(t, e) THEN 1 ELSE 0)
  BY DEF Sound, Framed, Referenced, References
<1> HIDE DEF Q, K
<1>6. t.data[e].refs = Cardinality(Q) + Cardinality(K)
  BY <1>3, <1>4, <1>5
<1> QED BY <1>6 DEF Q, K

(* A framebuffer lives as long as a CRTC shows it, or a flip to or from it    *)
(* is under way, and no longer, and a flip's references are counted right.    *)
THEOREM FramebuffersAreKept ==
  ASSUME Cooperates
  PROVE  Spec => []FramebuffersKept
<1>1. Living /\ s \in State /\ Sound(s) => FramebuffersKept
  <2> SUFFICES ASSUME Living, s \in State, Sound(s) PROVE FramebuffersKept
    OBVIOUS
  <2>1. TypeOK
    BY TypesSound DEF TypeOK
  <2>2. ShownKept
    BY ShownSound DEF ShownKept, Under, Dark
  <2>3. OneFbAtRest
    BY DEF OneFbAtRest, NoFlip, Kinds, Sound, Framed, AtRest, WaitingFlip, FlipKinds
  <2>4. CountsReferences
    BY ReferencesListed DEF CountsReferences
  <2> QED BY <2>1, <2>2, <2>3, <2>4 DEF FramebuffersKept
<1> QED BY <1>1, SoundInvariant, TypeInvariant, PTL

(* What Present waits for has an entry in the queue, and each entry of it an  *)
(* event that is to come or a call under way.                                 *)
THEOREM NobodyIsForgotten ==
  ASSUME Cooperates
  PROVE  Spec => []NobodyForgotten
<1>1. Living /\ s \in State /\ Sound(s) => NobodyForgotten
  <2> SUFFICES ASSUME Living, s \in State, Sound(s), NEW e \in Events, s.life[e] = "waiting"
               PROVE  LET mine == {i \in DOMAIN s.queue : s.queue[i].event = e}
                      IN mine # {} /\ \A i \in mine : ToCome(s.queue[i].seq)
    BY DEF NobodyForgotten
  <2>1. /\ DOMAIN s.queue = 1..Len(s.queue) /\ DOMAIN s.events = 1..Len(s.events)
        /\ DOMAIN s.calls = 1..Len(s.calls)
    BY FieldTypes
  <2>2. \E i \in DOMAIN s.queue : s.queue[i].event = e
    BY <2>1 DEF Sound, Waited, Awaited, HasEntry, Entries, On
  <2>3. \A i \in DOMAIN s.queue : Expects(s, s.queue[i].seq)
    BY <2>1 DEF Sound, Linked, Expected, Entries, On
  <2>4. \A n : Expects(s, n) => ToCome(n)
    BY <2>1 DEF Expects, ToCome, Coming, Claims, Claim, On
  <2> QED BY <2>2, <2>3, <2>4
<1> QED BY <1>1, SoundInvariant, TypeInvariant, PTL

----------------------------------------------------------------------------
(* What Present is told in a step from t to u has come.                       *)
Timely(u, t) ==
  \A e \in Events : t.tells[e] # u.tells[e] =>
    /\ t.asked[e].kind = "vblank" => t.count[t.asked[e].crtc] >= t.asked[e].msc
    /\ t.asked[e].kind \in FlipKinds =>
         (\A c \in Crtcs : u.shows[c] = e) \/ u.fb = LastEvent + e

(* Most of what the driver does tells Present nothing. *)
LEMMA Silent ==
  ASSUME Living, NEW t \in State, NEW u, Busy(t) => Top(t).event \in Events,
         \/ \E c \in Crtcs : \E news \in SetToSeqs(DueEvents(t, c)) : u = KernelVblank(t, c, news)
         \/ \E c \in Crtcs : u = KernelFlip(t, c) \/ u = GetMsc(t, c)
         \/ \E c \in Crtcs, e \in Events, n \in Nat : u = QueueVblank(t, c, e, n)
         \/ \E kind \in {"flip", "unflip"}, e \in Events, ref \in 0..NumCrtcs :
              u = DoPageflip(t, kind, e, ref)
         \/ \E e \in Events : u = Aborted(t, e)
         \/ Busy(t) /\ Top(t).kind = "vblank" /\ (u = VblankAccepted(t) \/ u = VblankRefused(t))
         \/ Busy(t) /\ Top(t).kind # "vblank" /\ u = FlipAccepted(t)
  PROVE  u.tells = t.tells
<1>1. ASSUME NEW c \in Crtcs, NEW news, u = KernelVblank(t, c, news) PROVE u.tells = t.tells
  BY <1>1, ZenonT(30) DEF KernelVblank, State
<1>2. ASSUME NEW c \in Crtcs, u = KernelFlip(t, c) PROVE u.tells = t.tells
  BY <1>2, ZenonT(30) DEF KernelFlip, State
<1>3. ASSUME NEW c \in Crtcs, u = GetMsc(t, c) PROVE u.tells = t.tells
  BY <1>3, ZenonT(30) DEF GetMsc, Convert, State
<1>4. ASSUME NEW c \in Crtcs, NEW e \in Events, NEW n \in Nat, u = QueueVblank(t, c, e, n)
      PROVE  u.tells = t.tells
  <2>1. u = VblankQueued(t, c, e, n)
    BY <1>4, QueueVblankType
  <2> QED BY <2>1 DEF VblankQueued, State
<1>5. ASSUME NEW kind \in {"flip", "unflip"}, NEW e \in Events, NEW ref \in 0..NumCrtcs,
             u = DoPageflip(t, kind, e, ref)
      PROVE  u.tells = t.tells
  <2>1. u = CrtcStarted(Begun(t, kind, e), kind, e, ref, 1)
    BY <1>5, DoPageflipType
  <2> QED BY <2>1 DEF CrtcStarted, Begun, State
<1>6. ASSUME NEW e \in Events, u = Aborted(t, e) PROVE u.tells = t.tells
  <2> DEFINE w == AbortMatch(t, e)
  <2>1. w.tells = t.tells
    BY DEF AbortMatch, AbortOne, PageflipFree, State
  <2>2. u.tells = w.tells
    BY <1>6, AbortedKeeps, ZenonT(30)
  <2> QED BY <2>1, <2>2
<1>7. ASSUME Busy(t), u = VblankAccepted(t) PROVE u.tells = t.tells
  BY <1>7, ZenonT(30) DEF VblankAccepted, KernelAsked, Pop, State
<1>8. ASSUME Busy(t), u = VblankRefused(t) PROVE u.tells = t.tells
  <2>1. AbortSeq(t, Top(t).seq).tells = t.tells /\ AbortSeq(t, Top(t).seq) \in State
    <3>1. AbortSeq(t, Top(t).seq).tells = t.tells
      BY DEF AbortSeq, AbortOne, PageflipFree, State
    <3> QED BY <3>1, AbortSeqType
  <2> DEFINE w == AbortSeq(t, Top(t).seq)
  <2>2. w.tells = t.tells /\ w \in State /\ u = [Pop(w) EXCEPT !.life[Top(t).event] = "refused"]
    BY <1>8, <2>1 DEF VblankRefused
  <2> HIDE DEF w
  <2> QED BY <2>2 DEF Pop, State
<1>9. ASSUME Busy(t), Top(t).kind # "vblank", u = FlipAccepted(t) PROVE u.tells = t.tells
  <2>1. FlipTaken(t) \in State /\ FlipTaken(t).tells = t.tells
    BY <1>9, FlipTakenType, ZenonT(30) DEF FlipTaken, State
  <2> DEFINE w == FlipTaken(t)
  <2>2. w \in State /\ w.tells = t.tells
    BY <2>1
  <2>3. \/ u = CrtcStarted(w, Top(t).kind, Top(t).event, Top(t).ref, Top(t).crtc + 1)
        \/ u = PageflipFree(w, Top(t).event)
    BY <1>9, FlipAcceptedType
  <2> HIDE DEF w
  <2> QED BY <2>2, <2>3 DEF CrtcStarted, PageflipFree, State
<1> QED BY <1>1, <1>2, <1>3, <1>4, <1>5, <1>6, <1>7, <1>8, <1>9

(* The driver reads an event: a vblank's entry is told when its count has     *)
(* come, a flip's when the last CRTC has flipped.                             *)
LEMMA ReadEventTimely ==
  ASSUME Living, NEW t \in State, t.events # <<>>, Sound(t), Tallied(t), NEW u, u = ReadEvent(t)
  PROVE  Timely(u, t)
<1>1. u \in State /\ Outside(u, t) /\ \E v : EventRead(u, t, v)
  BY ReadEventDoes DEF Sound, Linked, Unique
<1>2. PICK v \in Coming(t) :
        Dropped(u, t, v) \/ \E q \in Entries(t) : q.seq = v.seq /\ Delivered(u, t, q)
  BY <1>1 DEF EventRead
<1>3. t.tells \in [Events -> Nat]
  BY FieldTypes
<1>4. CASE u.tells = t.tells
  BY <1>4 DEF Timely
<1>5. CASE u.tells # t.tells
  <2>1. PICK q \in Entries(t) : q.seq = v.seq /\ Delivered(u, t, q)
    BY <1>2, <1>5 DEF Dropped, ToldSame
  <2>2. Told(u, t, q.event) /\ (q.flip => t.data[q.event].refs = 1)
    BY <1>5, <2>1 DEF Delivered, ToldSame
  <2>3. \A f \in Events : f # q.event => u.tells[f] = t.tells[f]
    BY <1>3, <2>2 DEF Told
  <2>4. q.event \in Events /\ Wanted(t, q)
    BY Sorts DEF Sound, Waited, Awaited
  <2>5. CASE ~q.flip
    <3>1. t.asked[q.event].msc <= v.count
      BY <2>1, <2>5, EventsOwn
    <3>2. v.count <= t.count[v.crtc] /\ q.crtc = v.crtc
      BY <2>1, Pairs DEF Tallied, Close, Coming
    <3>3. t.asked[q.event].kind = "vblank" /\ t.asked[q.event].crtc = q.crtc
      BY <2>4, <2>5 DEF Wanted
    <3>4. v.count \in Nat /\ t.count[q.crtc] \in Nat /\ t.asked[q.event].msc \in Nat
      <4>1. t.count \in [Crtcs -> Nat] /\ t.asked \in [Events -> Asked]
        BY FieldTypes
      <4> QED BY <2>4, <4>1, Sorts DEF Asked
    <3>5. t.count[t.asked[q.event].crtc] >= t.asked[q.event].msc
      BY <3>1, <3>2, <3>3, <3>4
    <3> QED BY <2>3, <3>3, <3>5 DEF Timely, FlipKinds
  <2>6. CASE q.flip
    <3>1. \A c \in Crtcs : t.shows[c] = q.event
      BY <2>1, <2>2, <2>6, LastReference
    <3>2. u.shows = t.shows
      BY <1>1 DEF Outside
    <3>3. t.asked[q.event].kind # "vblank"
      BY <2>4, <2>6 DEF Wanted, FlipKinds
    <3> QED BY <2>3, <3>1, <3>2, <3>3 DEF Timely
  <2> QED BY <2>5, <2>6
<1> QED BY <1>4, <1>5

(* So it is when the file is flushed in a call. *)
LEMMA FlushTimely ==
  ASSUME Living, NEW t \in State, t.events # <<>>, Busy(t), Sound(t), Tallied(t), NEW u, u = Flush(t)
  PROVE  Timely(u, t)
<1> DEFINE r == ReadEvent(t)
<1>1. Timely(r, t)
  BY ReadEventTimely
<1>2. u.tells = r.tells /\ u.shows = r.shows /\ u.fb = r.fb
  BY FlushKeeps DEF ToldSame, KernelSame, BuffersSame
<1> HIDE DEF r
<1> QED BY <1>1, <1>2 DEF Timely

(* Setting the modes is the flip back. *)
LEMMA SetModesTells ==
  ASSUME Living, NEW t \in State, NEW e \in Events, NEW u, u = SetModes(t, e)
  PROVE  /\ \A f \in Events : f # e => u.tells[f] = t.tells[f]
         /\ u.fb = LastEvent + e
<1> DEFINE m == ModesSet(t, e)
<1>1. m \in State /\ u = Tell(m, e)
  BY SetModesType
<1>2. m.tells = t.tells /\ m.fb = LastEvent + e
  BY DEF ModesSet, State
<1> HIDE DEF m
<1>3. BuffersSame(u, m) /\ Told(u, m, e)
  BY <1>1, TellKeeps
<1>4. t.tells \in [Events -> Nat]
  BY FieldTypes
<1> QED BY <1>2, <1>3, <1>4 DEF BuffersSame, Told

(* A refusal tells of a flip back only, when the modes are set. *)
LEMMA FlipRefusedTimely ==
  ASSUME Living, NEW t \in State, Busy(t), Top(t).kind # "vblank", Sound(t), Paired(t),
         NEW u, u = FlipRefused(t)
  PROVE  Timely(u, t)
<1> DEFINE e == Top(t).event
           p == Pop(t)
           x == AbortSeq(p, Top(t).seq)
           v == FlipUndone(x, e)
           w == PageflipFree(v, e)
<1>1. p \in State /\ x \in State /\ v \in State /\ e \in Events
  BY FlipRefusedType, TopType
<1>2. w \in State
  BY <1>1, PageflipFreeType
<1>3. Top(t).kind = t.asked[e].kind
  BY CallsFlip
<1>4. u = IF Top(t).kind = "unflip" THEN SetModes(w, e) ELSE [w EXCEPT !.life[e] = "refused"]
  BY DEF FlipRefused, FlipUndone
<1>5. p.tells = t.tells
  BY ZenonT(30) DEF Pop, State
<1> HIDE DEF p
<1>6. x.tells = p.tells
  BY <1>1, ZenonT(30) DEF AbortSeq, AbortOne, PageflipFree, State
<1> HIDE DEF x
<1>7. v.tells = x.tells
  BY <1>1 DEF FlipUndone, RemoveFb, State
<1> HIDE DEF v
<1>8. w.tells = v.tells
  BY <1>1 DEF PageflipFree, State
<1> HIDE DEF w
<1>9. CASE Top(t).kind = "unflip"
  <2>1. /\ \A f \in Events : f # e => u.tells[f] = w.tells[f]
        /\ u.fb = LastEvent + e
    BY <1>1, <1>2, <1>4, <1>9, SetModesTells
  <2> HIDE DEF e
  <2>2. t.asked[e].kind # "vblank" /\ w.tells = t.tells
    BY <1>3, <1>5, <1>6, <1>7, <1>8
  <2> QED BY <2>1, <2>2 DEF Timely
<1>10. CASE Top(t).kind # "unflip"
  <2>1. u.tells = w.tells
    BY <1>2, <1>4, <1>10 DEF State
  <2> QED BY <1>5, <1>6, <1>7, <1>8, <2>1 DEF Timely
<1> QED BY <1>9, <1>10

(* Flipping back by setting the modes is done on all CRTCs at once. *)
LEMMA UnflippedTimely ==
  ASSUME Living, NEW t \in State, NEW e \in Events, Sound(t), t.life[e] = "unused",
         NEW u, u = SetModes(Unflipping(t, e), e)
  PROVE  Timely(u, t)
<1> DEFINE w == Unflipping(t, e)
<1>1. w \in State /\ w.tells = t.tells
  <2> DEFINE x == w
  <2>1. x = Unflipping(t, e)
    OBVIOUS
  <2> HIDE DEF x
  <2>2. x \in State /\ x.tells = t.tells
    BY <2>1, UnflippingKeeps
  <2> QED BY <2>2 DEF x
<1>2. t.asked[e].kind = "none"
  BY DEF Sound, Waited, Awaited
<1> HIDE DEF w
<1>3. \A f \in Events : f # e => u.tells[f] = t.tells[f]
  BY <1>1, SetModesTells DEF w
<1> QED BY <1>2, <1>3 DEF Timely, FlipKinds

(* Every step tells what has come. *)
LEMMA TimelyStep ==
  ASSUME Living, s \in State, Sound(s), Tallied(s), NEW u, Acted(u)
  PROVE  Timely(u, s)
<1>0. Paired(s) /\ (Busy(s) => Top(s).event \in Events)
  BY TopType DEF Tallied
<1>1. u.tells = s.tells => Timely(u, s)
  BY DEF Timely
<1>2. ASSUME NEW c \in Crtcs, NEW e \in Events, NEW n \in Aheads, u = QueueVblank(s, c, e, s.count[c] + n)
      PROVE  u.tells = s.tells
  <2>1. n \in Nat /\ s.count[c] \in Nat
    BY SetupType, FieldTypes
  <2>2. s.count[c] + n \in Nat
    BY <2>1
  <2> QED BY <1>0, <1>2, <2>2, Silent
<1>3. \A c \in Crtcs : \A news \in SetToSeqs(DueEvents(s, c)) :
        u = KernelVblank(s, c, news) => u.tells = s.tells
  BY <1>0, Silent
<1>4. \A c \in Crtcs : u = KernelFlip(s, c) \/ u = GetMsc(s, c) => u.tells = s.tells
  BY <1>0, Silent
<1>5. 0 \in 0..NumCrtcs /\ \A c \in Crtcs : c \in 0..NumCrtcs
  BY SetupType DEF Crtcs
<1>6. \A kind \in {"flip", "unflip"}, e \in Events, ref \in 0..NumCrtcs :
        u = DoPageflip(s, kind, e, ref) => u.tells = s.tells
  BY <1>0, Silent
<1>7. \A e \in Events : u = Aborted(s, e) => u.tells = s.tells
  BY <1>0, Silent
<1>8. Busy(s) /\ Top(s).kind = "vblank" /\ (u = VblankAccepted(s) \/ u = VblankRefused(s)) => u.tells = s.tells
  BY <1>0, Silent
<1>9. Busy(s) /\ Top(s).kind # "vblank" /\ u = FlipAccepted(s) => u.tells = s.tells
  BY <1>0, Silent
<1>10. Busy(s) /\ Top(s).kind # "vblank" /\ u = FlipRefused(s) => Timely(u, s)
  BY <1>0, FlipRefusedTimely
<1>11. \A e \in Events : Fresh(e) /\ u = SetModes(Unflipping(s, e), e) => Timely(u, s)
  BY UnflippedTimely DEF Fresh
<1>12. Busy(s) /\ s.events # <<>> /\ u = Flush(s) => Timely(u, s)
  BY FlushTimely
<1>13. s.events # <<>> /\ u = ReadEvent(s) => Timely(u, s)
  BY ReadEventTimely
<1>14. \A c \in Crtcs, e \in Events : u = DoPageflip(s, "flip", e, c) => u.tells = s.tells
  BY <1>5, <1>6
<1>15. \A e \in Events : u = DoPageflip(s, "unflip", e, 0) => u.tells = s.tells
  BY <1>5, <1>6
<1> QED BY <1>1, <1>2, <1>3, <1>4, <1>7, <1>8, <1>9, <1>10, <1>11, <1>12, <1>13, <1>14, <1>15 DEF Acted

(* Present is told once of what it asked for and never of what was refused or *)
(* taken back, of a vblank when its msc has come, and of a flip when it is    *)
(* done on all CRTCs, in whatever order the kernel sends and the driver reads *)
(* events.                                                                    *)
THEOREM PresentToldOnceInTime ==
  ASSUME Cooperates
  PROVE  Spec => ToldOnceInTime
<1>0. CloseCounters
  BY DEF Cooperates
<1> DEFINE Early == \A e \in Kinds("vblank") : s.tells[e] # s'.tells[e] =>
                      s.count[s.asked[e].crtc] >= s.asked[e].msc
           Done == \A e \in Kinds("flip") \cup Kinds("unflip") : s.tells[e] # s'.tells[e] =>
                     (\A c \in Crtcs : s'.shows[c] = e) \/ s'.fb = LastEvent + e
<1>1. Sound(s) => OneAnswer
  BY DEF Sound, Waited, Answered, OneAnswer
<1>2. Living /\ s \in State /\ Tallied(s) /\ Sound(s) /\ [Next]_vars => [Early]_s /\ [Done]_s
  <2> SUFFICES ASSUME Living, s \in State, Tallied(s), Sound(s), [Next]_vars
               PROVE  [Early]_s /\ [Done]_s
    OBVIOUS
  <2>1. CASE Next
    <3>1. Acted(s')
      BY <2>1, NextActs
    <3>2. Timely(s', s)
      BY <3>1, TimelyStep
    <3> QED BY <3>2 DEF Timely, Kinds, FlipKinds
  <2>2. CASE UNCHANGED vars
    BY <2>2 DEF vars
  <2> QED BY <2>1, <2>2
<1>3. Spec => []Tallied(s)
  BY <1>0, TalliedInvariant
<1>4. NeverEarly <=> [][Early]_s
  BY DEF NeverEarly
<1>5. DoneOnAll <=> [][Done]_s
  BY DEF DoneOnAll
<1> HIDE DEF Early, Done
<1> QED BY <1>1, <1>2, <1>3, <1>4, <1>5, SoundInvariant, TypeInvariant, PTL DEF Spec, ToldOnceInTime
=============================================================================
