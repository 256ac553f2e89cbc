--------------------------- MODULE OsTimersProofs ---------------------------
(****************************************************************************)
(* The timers of os/WaitFor.c, for any timers, delays and width of the       *)
(* clock: no timer is linked twice, none is slept past and none runs early.  *)
(*                                                                           *)
(* The server compares two readings of a clock that wraps by the sign of     *)
(* their 32-bit difference.  The first lemmas say when that difference is    *)
(* the true one: while it stays within half a turn of the clock.  So the     *)
(* invariant keeps, for each timer on the list, how far the clock says it is *)
(* ahead (Ahead), near what is really left of it and within half a turn      *)
(* (Timed), and with it that the list is in the order it expires (InOrder),  *)
(* which is what lets check_timers look at the first timer only.             *)
(****************************************************************************)
EXTENDS OsTimers, SequenceTheorems, WellFoundedInduction, TLAPS

Half == Word \div 2

(* Half a turn of the clock. *)
LEMMA HalfOfWord == Half \in Nat /\ 2 * Half <= Word /\ Word <= 2 * Half + 1
BY OsTimersAssumption DEF Half

(* A whole number of turns of the clock that is less than one is none. *)
LEMMA NoTurn ==
  ASSUME NEW q \in Int, -Word < q * Word, q * Word < Word
  PROVE  q = 0
<1>1. ASSUME q >= 1 PROVE FALSE
  <2>1. q * Word >= Word
    BY <1>1, OsTimersAssumption
  <2> QED BY <2>1, OsTimersAssumption
<1>2. ASSUME q <= -1 PROVE FALSE
  <2>1. q * Word <= -Word
    BY <1>2, OsTimersAssumption
  <2> QED BY <2>1, OsTimersAssumption
<1> QED BY <1>1, <1>2

(* What wrapping takes off a number is whole turns. *)
LEMMA WrapTurns ==
  ASSUME NEW n \in Int
  PROVE  Wrap(n) \in 0..(Word - 1) /\ \E q \in Int : n - Wrap(n) = q * Word
BY OsTimersAssumption DEF Wrap

(* Wrapped numbers that differ by whole turns are the same. *)
LEMMA WrapOnly ==
  ASSUME NEW a \in Int, NEW b \in Int, NEW q \in Int, a - b = q * Word
  PROVE  Wrap(a) = Wrap(b)
<1>1. PICK i \in Int : a - Wrap(a) = i * Word
  BY WrapTurns
<1>2. PICK j \in Int : b - Wrap(b) = j * Word
  BY WrapTurns
<1>3. Wrap(a) \in 0..(Word - 1) /\ Wrap(b) \in 0..(Word - 1)
  BY WrapTurns
<1>4. Wrap(a) - Wrap(b) = (q - i + j) * Word
  BY <1>1, <1>2, <1>3, OsTimersAssumption
<1>5. q - i + j = 0
  <2> DEFINE k == q - i + j
  <2>1. k \in Int /\ -Word < k * Word /\ k * Word < Word
    BY <1>3, <1>4, OsTimersAssumption
  <2> HIDE DEF k
  <2>2. k = 0
    BY <2>1, NoTurn
  <2> QED BY <2>2 DEF k
<1> QED BY <1>3, <1>4, <1>5, OsTimersAssumption

(* AsInt takes a whole number of turns off, to less than half a turn. *)
LEMMA AsIntRange ==
  ASSUME NEW n \in Int
  PROVE  /\ AsInt(n) \in Int /\ Half - Word <= AsInt(n) /\ AsInt(n) < Half
         /\ Wrap(AsInt(n)) = Wrap(n)
<1>1. Wrap(n) \in 0..(Word - 1)
  BY WrapTurns
<1>2. AsInt(n) = IF Wrap(n) < Half THEN Wrap(n) ELSE Wrap(n) - Word
  BY DEF AsInt, Half
<1>3. AsInt(n) \in Int /\ Half - Word <= AsInt(n) /\ AsInt(n) < Half
  BY <1>1, <1>2, HalfOfWord, OsTimersAssumption
<1>4. PICK q \in Int : n - Wrap(n) = q * Word
  BY WrapTurns
<1>5. \E i \in Int : n - AsInt(n) = i * Word
  <2>1. CASE AsInt(n) = Wrap(n)
    BY <1>4, <2>1
  <2>2. CASE AsInt(n) = Wrap(n) - Word
    <3>1. n - AsInt(n) = (q + 1) * Word
      BY <1>1, <1>4, <2>2, OsTimersAssumption
    <3> QED BY <3>1
  <2> QED BY <1>2, <2>1, <2>2
<1>6. Wrap(n) = Wrap(AsInt(n))
  BY <1>3, <1>5, WrapOnly
<1> QED BY <1>3, <1>6

(* A number of less than half a turn is what AsInt makes of it. *)
LEMMA AsIntOnly ==
  ASSUME NEW n \in Int, NEW k \in Int, Wrap(n) = Wrap(k), Half - Word <= k, k < Half
  PROVE  AsInt(n) = k
<1>1. PICK q \in Int : k - Wrap(k) = q * Word
  BY WrapTurns
<1>2. Wrap(k) \in 0..(Word - 1)
  BY WrapTurns
<1>3. AsInt(n) = IF Wrap(k) < Half THEN Wrap(k) ELSE Wrap(k) - Word
  BY DEF AsInt, Half
<1>4. q = 0 \/ q = -1
  <2>1. (q + 1) * Word = q * Word + Word
    BY OsTimersAssumption
  <2>2. CASE q >= 0
    <3>1. q * Word < Word
      BY <1>1, <1>2, HalfOfWord, OsTimersAssumption
    <3>2. -Word < q * Word
      BY <2>2, OsTimersAssumption
    <3> QED BY <3>1, <3>2, NoTurn
  <2>3. CASE q <= -1
    <3>1. -Word < (q + 1) * Word
      BY <1>1, <1>2, <2>1, HalfOfWord, OsTimersAssumption
    <3>2. (q + 1) * Word < Word
      BY <2>3, OsTimersAssumption
    <3>3. q + 1 = 0
      BY <3>1, <3>2, NoTurn
    <3> QED BY <3>3
  <2> QED BY <2>2, <2>3
<1>5. CASE q = 0
  BY <1>1, <1>2, <1>3, <1>5, HalfOfWord, OsTimersAssumption
<1>6. CASE q = -1
  BY <1>1, <1>2, <1>3, <1>6, HalfOfWord, OsTimersAssumption
<1> QED BY <1>4, <1>5, <1>6

(* Sums may be wrapped before or after adding. *)
LEMMA WrapSum ==
  ASSUME NEW a \in Int, NEW b \in Int
  PROVE  /\ Wrap(Wrap(a) + b) = Wrap(a + b)
         /\ Wrap(b - Wrap(a)) = Wrap(b - a)
         /\ Wrap(AsInt(a) + b) = Wrap(a + b)
<1>1. PICK q \in Int : a - Wrap(a) = q * Word
  BY WrapTurns
<1>2. Wrap(a) \in Int
  BY WrapTurns
<1>3. Wrap(a + b) = Wrap(Wrap(a) + b)
  <2>1. (a + b) - (Wrap(a) + b) = q * Word
    BY <1>1, <1>2
  <2> QED BY <1>2, <2>1, WrapOnly
<1>4. Wrap(b - Wrap(a)) = Wrap(b - a)
  <2>1. (b - Wrap(a)) - (b - a) = q * Word
    BY <1>1, <1>2
  <2> QED BY <1>2, <2>1, WrapOnly
<1>5. Wrap(AsInt(a) + b) = Wrap(a + b)
  <2>1. AsInt(a) = Wrap(a) \/ AsInt(a) = Wrap(a) - Word
    BY DEF AsInt
  <2>2. CASE AsInt(a) = Wrap(a)
    BY <1>3, <2>2
  <2>3. CASE AsInt(a) = Wrap(a) - Word
    <3>1. (Wrap(a) + b) - (AsInt(a) + b) = 1 * Word
      BY <1>2, <2>3, OsTimersAssumption
    <3>2. AsInt(a) \in Int
      BY AsIntRange
    <3>3. Wrap(Wrap(a) + b) = Wrap(AsInt(a) + b)
      BY <1>2, <3>1, <3>2, WrapOnly
    <3> QED BY <1>3, <3>3
  <2> QED BY <2>1, <2>2, <2>3
<1> QED BY <1>3, <1>4, <1>5

(* Moving by k stays exact while it stays within half a turn. *)
LEMMA AsIntMoves ==
  ASSUME NEW a \in Int, NEW k \in Int, Half - Word <= AsInt(a) + k, AsInt(a) + k < Half
  PROVE  AsInt(a + k) = AsInt(a) + k
<1>1. AsInt(a) \in Int
  BY AsIntRange
<1>2. Wrap(a + k) = Wrap(AsInt(a) + k)
  BY WrapSum
<1> QED BY <1>1, <1>2, AsIntOnly

(* AsInt does not tell wrapped numbers from others. *)
LEMMA AsIntWrap ==
  ASSUME NEW a \in Int, NEW b \in Int, Wrap(a) = Wrap(b)
  PROVE  AsInt(a) = AsInt(b)
BY DEF AsInt

----------------------------------------------------------------------------
(* The operations on the list, which no timer is on twice. *)

(* Every non-empty set of places in a list has a first. *)
LEMMA FirstPlace ==
  ASSUME NEW n \in Nat, NEW I \in SUBSET (1..n), I # {}
  PROVE  \E i \in I : \A j \in I : i <= j
<1> DEFINE R == {ss \in Nat \X Nat : ss[1] < ss[2]}
<1>1. IsWellFoundedOn(R, Nat)
  BY NatLessThanWellFounded, Zenon DEF OpToRel
<1>2. I \subseteq Nat
  OBVIOUS
<1>3. PICK i \in I : \A j \in I : ~ (<<j, i>> \in R)
  <2> HIDE DEF R
  <2> QED BY <1>1, <1>2, WFMin
<1>4. \A j \in I : ~ (j < i)
  BY <1>2, <1>3
<1> QED BY <1>2, <1>4

(* A list is another with an entry put at a place. *)
Put(r, q, k, e) ==
  /\ Len(r) = Len(q) + 1
  /\ \A i \in 1..Len(q) + 1 : r[i] = IF i < k THEN q[i] ELSE IF i = k THEN e ELSE q[i - 1]

(* What InsertAt makes of a list. *)
LEMMA InsertAtPlaces ==
  ASSUME NEW S, NEW q \in Seq(S), NEW k \in Int, 1 <= k, k <= Len(q) + 1, NEW e \in S
  PROVE  InsertAt(q, k, e) \in Seq(S) /\ Put(InsertAt(q, k, e), q, k, e)
<1> DEFINE a == SubSeq(q, 1, k - 1)
           b == SubSeq(q, k, Len(q))
<1>1. Len(q) \in Nat /\ \A i \in 1..Len(q) : q[i] \in S
  BY LenProperties
<1>2. /\ a \in Seq(S) /\ Len(a) = k - 1
      /\ \A i \in 1..k - 1 : a[i] = q[i]
  <2>1. 1 \in Int /\ k - 1 \in Int /\ \A i \in 1..k - 1 : q[i] \in S
    BY <1>1
  <2> QED BY <1>1, <2>1, SubSeqProperties
<1>3. /\ b \in Seq(S) /\ Len(b) = Len(q) - k + 1
      /\ \A i \in 1..Len(q) - k + 1 : b[i] = q[k + i - 1]
  <2>1. k \in Int /\ Len(q) \in Int /\ \A i \in k..Len(q) : q[i] \in S
    BY <1>1
  <2> QED BY <1>1, <2>1, SubSeqProperties
<1>4. <<e>> \in Seq(S) /\ Len(<<e>>) = 1 /\ <<e>>[1] = e
  OBVIOUS
<1> DEFINE c == <<e>>
           ac == a \o c
<1>5. InsertAt(q, k, e) = ac \o b
  BY DEF InsertAt
<1> HIDE DEF a, b, c
<1>6. c \in Seq(S) /\ Len(c) = 1 /\ c[1] = e
  BY <1>4 DEF c
<1>7. /\ ac \in Seq(S) /\ Len(ac) = k
      /\ \A i \in 1..k : ac[i] = IF i < k THEN q[i] ELSE e
  <2>1. /\ ac \in Seq(S) /\ Len(ac) = Len(a) + Len(c)
        /\ \A i \in 1..Len(a) + Len(c) : ac[i] = IF i <= Len(a) THEN a[i] ELSE c[i - Len(a)]
    BY <1>2, <1>6, ConcatProperties
  <2> QED BY <1>1, <1>2, <1>6, <2>1
<1> HIDE DEF ac
<1>8. /\ ac \o b \in Seq(S) /\ Len(ac \o b) = Len(ac) + Len(b)
      /\ \A i \in 1..Len(ac) + Len(b) :
           (ac \o b)[i] = IF i <= Len(ac) THEN ac[i] ELSE b[i - Len(ac)]
  BY <1>3, <1>7, ConcatProperties
<1> DEFINE r == ac \o b
<1> HIDE DEF r
<1>9. /\ r \in Seq(S) /\ Len(r) = Len(q) + 1
      /\ \A i \in 1..Len(q) + 1 : r[i] = IF i <= k THEN ac[i] ELSE b[i - k]
  BY <1>1, <1>3, <1>7, <1>8 DEF r
<1>10. \A i \in 1..Len(q) + 1 : r[i] = IF i < k THEN q[i] ELSE IF i = k THEN e ELSE q[i - 1]
  <2> TAKE i \in 1..Len(q) + 1
  <2>1. CASE i <= k
    BY <1>1, <1>7, <1>9, <2>1
  <2>2. CASE i > k
    <3>1. i - k \in 1..Len(q) - k + 1
      BY <1>1, <2>2
    <3>2. b[i - k] = q[k + (i - k) - 1]
      BY <1>3, <3>1
    <3>3. k + (i - k) - 1 = i - 1
      OBVIOUS
    <3> QED BY <1>9, <2>2, <3>2, <3>3
  <2> QED BY <2>1, <2>2
<1> QED BY <1>5, <1>9, <1>10 DEF r, Put

(* What RemoveAt makes of a list. *)
LEMMA RemoveAtPlaces ==
  ASSUME NEW S, NEW q \in Seq(S), NEW k \in 1..Len(q)
  PROVE  /\ RemoveAt(q, k) \in Seq(S) /\ Len(RemoveAt(q, k)) = Len(q) - 1
         /\ \A i \in 1..Len(q) - 1 :
              RemoveAt(q, k)[i] = IF i < k THEN q[i] ELSE q[i + 1]
<1> DEFINE a == SubSeq(q, 1, k - 1)
           b == SubSeq(q, k + 1, Len(q))
<1>1. Len(q) \in Nat /\ \A i \in 1..Len(q) : q[i] \in S
  BY LenProperties
<1>2. /\ a \in Seq(S) /\ Len(a) = k - 1
      /\ \A i \in 1..k - 1 : a[i] = q[i]
  <2>1. 1 \in Int /\ k - 1 \in Int /\ \A i \in 1..k - 1 : q[i] \in S
    BY <1>1
  <2> QED BY <1>1, <2>1, SubSeqProperties
<1>3. /\ b \in Seq(S) /\ Len(b) = Len(q) - k
      /\ \A i \in 1..Len(q) - k : b[i] = q[k + i]
  <2>1. k + 1 \in Int /\ Len(q) \in Int /\ \A i \in k + 1..Len(q) : q[i] \in S
    BY <1>1
  <2>2. /\ b \in Seq(S) /\ Len(b) = IF k + 1 <= Len(q) THEN Len(q) - (k + 1) + 1 ELSE 0
        /\ \A i \in 1..Len(q) - (k + 1) + 1 : b[i] = q[k + 1 + i - 1]
    BY <2>1, SubSeqProperties
  <2> QED BY <1>1, <2>2
<1>4. RemoveAt(q, k) = a \o b
  BY DEF RemoveAt
<1> HIDE DEF a, b
<1> DEFINE r == a \o b
<1>5. /\ r \in Seq(S) /\ Len(r) = Len(a) + Len(b)
      /\ \A i \in 1..Len(a) + Len(b) : r[i] = IF i <= Len(a) THEN a[i] ELSE b[i - Len(a)]
  BY <1>2, <1>3, ConcatProperties
<1> HIDE DEF r
<1>6. \A i \in 1..Len(q) - 1 : r[i] = IF i < k THEN q[i] ELSE q[i + 1]
  <2> TAKE i \in 1..Len(q) - 1
  <2>1. CASE i < k
    <3>1. i \in 1..k - 1 /\ i \in 1..Len(a) + Len(b) /\ i <= Len(a)
      BY <1>1, <1>2, <1>3, <2>1
    <3>2. r[i] = a[i] /\ a[i] = q[i]
      BY <1>2, <1>5, <3>1
    <3> QED BY <2>1, <3>2
  <2>2. CASE i >= k
    <3>1. i - (k - 1) \in 1..Len(q) - k
      BY <1>1, <2>2
    <3>2. b[i - (k - 1)] = q[k + (i - (k - 1))]
      BY <1>3, <3>1
    <3>3. k + (i - (k - 1)) = i + 1
      OBVIOUS
    <3>4. r[i] = b[i - (k - 1)]
      <4>1. i \in 1..Len(a) + Len(b) /\ ~ (i <= Len(a)) /\ Len(a) = k - 1
        BY <1>1, <1>2, <1>3, <2>2
      <4> QED BY <1>5, <4>1
    <3> QED BY <2>2, <3>2, <3>3, <3>4
  <2> QED BY <2>1, <2>2
<1> QED BY <1>1, <1>2, <1>3, <1>4, <1>5, <1>6 DEF r

On(q) == {q[i] : i \in 1..Len(q)}
InOrder(q, f) == \A i, j \in 1..Len(q) : i < j => f[q[i]] <= f[q[j]]

(* xorg_list_del: the timer is off the list, and the others are as they were. *)
LEMMA Removed ==
  ASSUME NEW q \in Seq(Timers), IsInjective(q), NEW t
  PROVE  /\ RemoveFirst(q, t) \in Seq(Timers) /\ IsInjective(RemoveFirst(q, t))
         /\ On(RemoveFirst(q, t)) = On(q) \ {t}
         /\ \A f : InOrder(q, f) => InOrder(RemoveFirst(q, t), f)
<1> DEFINE I == {i \in 1..Len(q) : q[i] = t}
           k == CHOOSE i \in I : \A j \in I : i <= j
<1>1. /\ Len(q) \in Nat /\ DOMAIN q = 1..Len(q) /\ \A i \in 1..Len(q) : q[i] \in Timers
      /\ \A i, j \in 1..Len(q) : q[i] = q[j] => i = j
  BY LenProperties DEF IsInjective
<1>2. CASE I = {}
  <2>1. RemoveFirst(q, t) = q /\ t \notin On(q)
    BY <1>2 DEF RemoveFirst, On
  <2> QED BY <2>1
<1>3. CASE I # {}
  <2>1. k \in I
    BY <1>1, <1>3, FirstPlace
  <2>2. RemoveFirst(q, t) = RemoveAt(q, k)
    BY <1>3 DEF RemoveFirst, SelectInSeq, Min
  <2> HIDE DEF k
  <2> DEFINE r == RemoveAt(q, k)
  <2>3. k \in 1..Len(q) /\ q[k] = t
    BY <2>1
  <2>4. /\ r \in Seq(Timers) /\ Len(r) = Len(q) - 1 /\ DOMAIN r = 1..Len(q) - 1
        /\ \A i \in 1..Len(q) - 1 : r[i] = IF i < k THEN q[i] ELSE q[i + 1]
    <3>1. /\ r \in Seq(Timers) /\ Len(r) = Len(q) - 1
          /\ \A i \in 1..Len(q) - 1 : r[i] = IF i < k THEN q[i] ELSE q[i + 1]
      BY <2>3, RemoveAtPlaces
    <3>2. DOMAIN r = 1..Len(r)
      BY <3>1, LenProperties
    <3> QED BY <3>1, <3>2
  <2> HIDE DEF r
  <2> DEFINE old(i) == IF i < k THEN i ELSE i + 1
  <2>5. \A i \in 1..Len(r) : old(i) \in 1..Len(q) /\ old(i) # k /\ r[i] = q[old(i)]
    BY <1>1, <2>3, <2>4
  <2>6. \A i, j \in 1..Len(r) : old(i) = old(j) => i = j
    BY <1>1, <2>3, <2>4
  <2>7. \A i, j \in 1..Len(r) : i < j => old(i) < old(j)
    BY <1>1, <2>3, <2>4
  <2>8. \A m \in 1..Len(q) : m # k => \E i \in 1..Len(r) : old(i) = m
    <3> TAKE m \in 1..Len(q)
    <3>1. CASE m < k
      <4>1. m \in 1..Len(r) /\ old(m) = m
        BY <1>1, <2>3, <2>4, <3>1
      <4> QED BY <4>1
    <3>2. CASE m > k
      <4>1. m - 1 \in 1..Len(r) /\ old(m - 1) = m
        BY <1>1, <2>3, <2>4, <3>2
      <4> QED BY <4>1
    <3> QED BY <2>3, <3>1, <3>2
  <2> HIDE DEF old
  <2>9. IsInjective(r)
    <3>1. \A i, j \in 1..Len(r) : r[i] = r[j] => i = j
      BY <1>1, <2>5, <2>6
    <3> QED BY <2>4, <3>1 DEF IsInjective
  <2>10. On(r) = On(q) \ {t}
    <3>1. ASSUME NEW u \in On(r) PROVE u \in On(q) \ {t}
      BY <1>1, <2>3, <2>5, <3>1 DEF On
    <3>2. ASSUME NEW u \in On(q), u # t PROVE u \in On(r)
      <4>1. PICK m \in 1..Len(q) : q[m] = u
        BY DEF On
      <4>2. PICK i \in 1..Len(r) : old(i) = m
        BY <2>3, <2>8, <3>2, <4>1
      <4> QED BY <2>5, <4>1, <4>2 DEF On
    <3> QED BY <3>1, <3>2
  <2>11. ASSUME NEW f, InOrder(q, f) PROVE InOrder(r, f)
    BY <2>5, <2>7, <2>11 DEF InOrder
  <2> QED BY <2>2, <2>4, <2>9, <2>10, <2>11 DEF r
<1> QED BY <1>2, <1>3

(* What goes after a timer may go before what follows it: the order of the     *)
(* list is kept when an entry is put where nothing before it is later.         *)
LEMMA Inserted ==
  ASSUME NEW q \in Seq(Timers), IsInjective(q), NEW t \in Timers, t \notin On(q),
         NEW k \in 1..Len(q) + 1
  PROVE  /\ InsertAt(q, k, t) \in Seq(Timers) /\ IsInjective(InsertAt(q, k, t))
         /\ On(InsertAt(q, k, t)) = On(q) \cup {t}
         /\ \A f \in [Timers -> Int] :
              /\ InOrder(q, f)
              /\ \A i \in 1..Len(q) : i < k => f[q[i]] <= f[t]
              /\ \A i \in 1..Len(q) : i >= k => f[t] <= f[q[i]]
              => InOrder(InsertAt(q, k, t), f)
<1>1. /\ Len(q) \in Nat /\ \A i \in 1..Len(q) : q[i] \in Timers /\ q[i] # t
      /\ \A i, j \in 1..Len(q) : q[i] = q[j] => i = j
  BY LenProperties DEF IsInjective, On
<1> DEFINE r == InsertAt(q, k, t)
<1>2. /\ r \in Seq(Timers) /\ Len(r) = Len(q) + 1 /\ DOMAIN r = 1..Len(q) + 1
      /\ \A i \in 1..Len(q) + 1 : r[i] = IF i < k THEN q[i] ELSE IF i = k THEN t ELSE q[i - 1]
  <2>1. r \in Seq(Timers) /\ Put(r, q, k, t)
    <3>1. k \in Int /\ 1 <= k /\ k <= Len(q) + 1
      BY <1>1
    <3> QED BY <3>1, InsertAtPlaces
  <2>2. DOMAIN r = 1..Len(r)
    BY <2>1, LenProperties
  <2> QED BY <2>1, <2>2 DEF Put
<1> HIDE DEF r
<1> DEFINE old(i) == IF i < k THEN i ELSE i - 1
<1>3. /\ r[k] = t
      /\ \A i \in 1..Len(r) : i # k => old(i) \in 1..Len(q) /\ r[i] = q[old(i)]
  BY <1>1, <1>2
<1>4. \A i, j \in 1..Len(r) : i # k /\ j # k /\ old(i) = old(j) => i = j
  BY <1>1, <1>2
<1>5. \A i, j \in 1..Len(r) : i # k /\ j # k /\ i < j => old(i) < old(j)
  BY <1>1, <1>2
<1>6. \A m \in 1..Len(q) : \E i \in 1..Len(r) : i # k /\ old(i) = m
  <2> TAKE m \in 1..Len(q)
  <2>1. CASE m < k
    <3>1. m \in 1..Len(r) /\ m # k /\ old(m) = m
      BY <1>1, <1>2, <2>1
    <3> QED BY <3>1
  <2>2. CASE m >= k
    <3>1. m + 1 \in 1..Len(r) /\ m + 1 # k /\ old(m + 1) = m
      BY <1>1, <1>2, <2>2
    <3> QED BY <3>1
  <2> QED BY <1>1, <2>1, <2>2
<1>7. \A i \in 1..Len(r) : i < k => old(i) < k
  BY <1>1, <1>2
<1>8. \A i \in 1..Len(r) : i > k => old(i) >= k
  BY <1>1, <1>2
<1> HIDE DEF old
<1>9. IsInjective(r)
  <2>1. \A i, j \in 1..Len(r) : r[i] = r[j] => i = j
    BY <1>1, <1>3, <1>4
  <2> QED BY <1>2, <2>1 DEF IsInjective
<1>10. On(r) = On(q) \cup {t}
  <2>1. ASSUME NEW u \in On(r) PROVE u \in On(q) \cup {t}
    BY <1>3, <2>1 DEF On
  <2>2. ASSUME NEW u \in On(q) PROVE u \in On(r)
    <3>1. PICK m \in 1..Len(q) : q[m] = u
      BY DEF On
    <3>2. PICK i \in 1..Len(r) : i # k /\ old(i) = m
      BY <1>6
    <3> QED BY <1>3, <3>1, <3>2 DEF On
  <2>3. t \in On(r)
    BY <1>1, <1>2, <1>3 DEF On
  <2> QED BY <2>1, <2>2, <2>3
<1>11. ASSUME NEW f \in [Timers -> Int], InOrder(q, f),
              \A i \in 1..Len(q) : i < k => f[q[i]] <= f[t],
              \A i \in 1..Len(q) : i >= k => f[t] <= f[q[i]],
              NEW i \in 1..Len(r), NEW j \in 1..Len(r), i < j
       PROVE  f[r[i]] <= f[r[j]]
  <2>1. CASE i # k /\ j # k
    BY <1>3, <1>5, <1>11, <2>1 DEF InOrder
  <2>2. CASE i = k
    <3>1. j # k /\ j > k
      BY <1>2, <1>11, <2>2
    <3>2. old(j) \in 1..Len(q) /\ old(j) >= k
      BY <1>3, <1>8, <3>1
    <3> QED BY <1>3, <1>11, <2>2, <3>1, <3>2
  <2>3. CASE j = k
    <3>1. i # k /\ i < k
      BY <1>2, <1>11, <2>3
    <3>2. old(i) \in 1..Len(q) /\ old(i) < k
      BY <1>3, <1>7, <3>1
    <3> QED BY <1>3, <1>11, <2>3, <3>1, <3>2
  <2> QED BY <2>1, <2>2, <2>3
<1>12. \A f \in [Timers -> Int] :
         /\ InOrder(q, f)
         /\ \A i \in 1..Len(q) : i < k => f[q[i]] <= f[t]
         /\ \A i \in 1..Len(q) : i >= k => f[t] <= f[q[i]]
         => InOrder(r, f)
  BY <1>11 DEF InOrder
<1> QED BY <1>2, <1>9, <1>10, <1>12 DEF r

(* An entry put at the end is inserted past the last. *)
LEMMA AppendIsInsert ==
  ASSUME NEW S, NEW q \in Seq(S), NEW e \in S
  PROVE  Append(q, e) = InsertAt(q, Len(q) + 1, e)
<1>1. Len(q) \in Nat
  BY LenProperties
<1>2. /\ Append(q, e) \in Seq(S) /\ Len(Append(q, e)) = Len(q) + 1
      /\ \A i \in 1..Len(q) : Append(q, e)[i] = q[i]
      /\ Append(q, e)[Len(q) + 1] = e
  BY AppendProperties
<1> DEFINE r == InsertAt(q, Len(q) + 1, e)
           a == Append(q, e)
<1>3. /\ r \in Seq(S) /\ Len(r) = Len(q) + 1
      /\ \A i \in 1..Len(q) + 1 :
           r[i] = IF i < Len(q) + 1 THEN q[i] ELSE IF i = Len(q) + 1 THEN e ELSE q[i - 1]
  <2>1. Len(q) + 1 \in Int /\ 1 <= Len(q) + 1 /\ Len(q) + 1 <= Len(q) + 1
    BY <1>1
  <2>2. r \in Seq(S) /\ Put(r, q, Len(q) + 1, e)
    BY <2>1, InsertAtPlaces
  <2> HIDE DEF r
  <2> QED BY <2>2 DEF Put
<1> HIDE DEF r, a
<1>4. \A i \in 1..Len(q) + 1 : a[i] = r[i]
  BY <1>1, <1>2, <1>3 DEF a
<1>5. a \in Seq(S) /\ Len(a) = Len(q) + 1
  BY <1>2 DEF a
<1>6. a = r
  BY <1>1, <1>3, <1>4, <1>5, SeqEqual
<1> QED BY <1>6 DEF a, r

----------------------------------------------------------------------------
(* The types of the variables, as the steps keep them. *)
CallRecords ==
  {c \in [what : {"callback", "DoTimers", "CheckAllTimers"},
          timer : Timers \cup {Nobody}, now : Int] :
     c.what = "callback" => c.timer \in Timers}

IType ==
  /\ clock \in 0..(Word - 1) /\ jumped \in Jumps \cup {0} /\ sets \in 0..MaxSets
  /\ expires \in [Timers -> 0..(Word - 1)] /\ delta \in [Timers -> 0..(Word - 1)]
  /\ left \in [Timers -> Int]
  /\ timers \in Seq(Timers) /\ IsInjective(timers)
  /\ calls \in Seq(CallRecords)
  /\ sleep \in Nat \cup {Awake, Forever}

(* What the steps of callers, callbacks and loops have in common: they end or  *)
(* begin a callback, and take no time.                                         *)
Callbacks == {Callback(t) : t \in Timers}

Quiet ==
  /\ UNCHANGED <<clock, sleep, jumped>>
  /\ sleep = Awake \/ calls # <<>>
  /\ sets' \in 0..MaxSets
  /\ calls' \in Seq(CallRecords) /\ On(calls') \subseteq On(calls) \cup Callbacks

Sets(t) ==
  /\ Quiet
  /\ \E w \in Delays \cup Offsets : \E wait \in Int : \E c \in Seq(CallRecords) :
       SetAt(t, c, clock + w, wait)
Unlists(t) == Quiet /\ Unlist(t)
Pops == Quiet /\ UNCHANGED <<timers, left, recs>>

(* The record of a callback in progress. *)
LEMMA CallbackType ==
  ASSUME NEW t \in Timers
  PROVE  Callback(t) \in CallRecords /\ Callback(t) \in Callbacks
BY DEF Callback, Call, CallRecords, Callbacks

(* A callback is put in front of the calls in progress. *)
LEMMA CallPushed ==
  ASSUME NEW c \in Seq(CallRecords), NEW t \in Timers
  PROVE  /\ <<Callback(t)>> \o c \in Seq(CallRecords)
         /\ On(<<Callback(t)>> \o c) \subseteq On(c) \cup Callbacks
<1>1. Callback(t) \in CallRecords /\ Callback(t) \in Callbacks
  BY CallbackType
<1> DEFINE x == Callback(t)
           b == <<x>>
<1> HIDE DEF x
<1>2. b \in Seq(CallRecords) /\ Len(b) = 1 /\ b[1] = x
  BY <1>1 DEF x
<1> HIDE DEF b
<1>3. /\ b \o c \in Seq(CallRecords) /\ Len(b \o c) = Len(b) + Len(c)
      /\ \A i \in 1..Len(b) + Len(c) : (b \o c)[i] = IF i <= Len(b) THEN b[i] ELSE c[i - Len(b)]
  BY <1>2, ConcatProperties
<1>4. Len(c) \in Nat
  BY LenProperties
<1> DEFINE r == b \o c
<1> HIDE DEF r
<1>5. r \in Seq(CallRecords) /\ Len(r) = 1 + Len(c)
  BY <1>2, <1>3 DEF r
<1>6. \A i \in 1..Len(r) : r[i] = x \/ (i - 1 \in 1..Len(c) /\ r[i] = c[i - 1])
  BY <1>2, <1>3, <1>4, <1>5 DEF r
<1>7. On(r) \subseteq On(c) \cup {x}
  BY <1>6 DEF On
<1> QED BY <1>1, <1>5, <1>7 DEF r, b, x

(* The innermost call ends. *)
LEMMA CallPopped ==
  ASSUME NEW c \in Seq(CallRecords), c # <<>>
  PROVE  /\ Tail(c) \in Seq(CallRecords) /\ On(Tail(c)) \subseteq On(c)
         /\ Head(c) \in CallRecords /\ Head(c) \in On(c)
<1>1. /\ Head(c) \in CallRecords /\ Tail(c) \in Seq(CallRecords)
      /\ Len(Tail(c)) = Len(c) - 1
      /\ \A i \in 1..Len(Tail(c)) : Tail(c)[i] = c[i + 1]
  BY HeadTailProperties
<1>2. Len(c) \in Nat \ {0} /\ Head(c) = c[1]
  BY EmptySeq
<1>3. \A i \in 1..Len(Tail(c)) : i + 1 \in 1..Len(c)
  BY <1>1, <1>2
<1> QED BY <1>1, <1>2, <1>3 DEF On

(* SetAt begins a callback or none. *)
LEMMA SetAtCalls ==
  ASSUME NEW t \in Timers, NEW c \in Seq(CallRecords), NEW at, NEW wait,
         SetAt(t, c, at, wait)
  PROVE  calls' \in Seq(CallRecords) /\ On(calls') \subseteq On(c) \cup Callbacks
<1>1. calls' = c \/ calls' = <<Callback(t)>> \o c
  BY DEF SetAt
<1>2. /\ <<Callback(t)>> \o c \in Seq(CallRecords)
      /\ On(<<Callback(t)>> \o c) \subseteq On(c) \cup Callbacks
  BY CallPushed
<1> DEFINE r == <<Callback(t)>> \o c
<1> HIDE DEF r
<1>3. r \in Seq(CallRecords) /\ On(r) \subseteq On(c) \cup Callbacks
  BY <1>2 DEF r
<1>4. calls' = c \/ calls' = r
  BY <1>1 DEF r
<1>5. CASE calls' = c
  BY <1>5
<1>6. CASE calls' = r
  BY <1>3, <1>6
<1> QED BY <1>4, <1>5, <1>6

(* A timer taken off the list to run: its callback is in front. *)
LEMMA DoTimerCalls ==
  ASSUME NEW t \in Timers, calls \in Seq(CallRecords), DoTimer(t)
  PROVE  /\ calls' \in Seq(CallRecords) /\ On(calls') \subseteq On(calls) \cup Callbacks
         /\ Unlist(t)
<1>1. calls' = <<Callback(t)>> \o calls /\ Unlist(t)
  BY DEF DoTimer
<1>2. /\ <<Callback(t)>> \o calls \in Seq(CallRecords)
      /\ On(<<Callback(t)>> \o calls) \subseteq On(calls) \cup Callbacks
  BY CallPushed
<1> QED BY <1>1, <1>2

(* The first timer of the list, and any other. *)
LEMMA ListedTimers ==
  ASSUME timers \in Seq(Timers)
  PROVE  /\ timers # <<>> => Head(timers) \in Timers /\ Head(timers) = timers[1]
                             /\ 1 \in 1..Len(timers)
         /\ \A i \in 1..Len(timers) : timers[i] \in Timers
         /\ Len(timers) \in Nat /\ Pending = On(timers) /\ Pending \subseteq Timers
<1>1. Len(timers) \in Nat /\ \A i \in 1..Len(timers) : timers[i] \in Timers
  BY LenProperties
<1>2. timers # <<>> => Len(timers) \in Nat \ {0}
  BY EmptySeq
<1>3. timers # <<>> => Head(timers) = timers[1] /\ 1 \in 1..Len(timers)
  BY <1>2
<1> QED BY <1>1, <1>3 DEF Pending, On

(* Every step is of one of these kinds. *)
LEMMA Kinds ==
  ASSUME IType, Next
  PROVE  \/ \E t \in Timers : Sets(t) \/ Unlists(t)
         \/ Pops \/ CheckTimers \/ Wake \/ Tick \/ \E n \in Jumps : JumpBack(n)
<1>0. /\ calls \in Seq(CallRecords) /\ clock \in Int /\ sets \in 0..MaxSets
      /\ Delays \subseteq Int /\ Offsets \subseteq Int /\ MaxSets \in Nat
  BY OsTimersAssumption DEF IType
<1>1. sets < MaxSets => sets + 1 \in 0..MaxSets
  BY <1>0
<1>2. ASSUME NEW t \in Timers, NEW w \in Delays, TimerSet(t, w) PROVE Sets(t)
  <2>1. /\ sets' \in 0..MaxSets /\ UNCHANGED <<clock, sleep, jumped>> /\ sleep = Awake
        /\ SetAt(t, calls, clock + w, w)
    BY <1>1, <1>2 DEF TimerSet, InCode
  <2>2. calls' \in Seq(CallRecords) /\ On(calls') \subseteq On(calls) \cup Callbacks
    BY <1>0, <2>1, SetAtCalls
  <2> QED BY <1>0, <2>1, <2>2 DEF Sets, Quiet
<1>3. ASSUME NEW t \in Timers, NEW w \in Offsets, TimerSetAbsolute(t, clock + w)
      PROVE  Sets(t) \/ Unlists(t)
  <2>1. /\ sets' \in 0..MaxSets /\ UNCHANGED <<clock, sleep, jumped>> /\ sleep = Awake
        /\ \/ Unlist(t) /\ calls' = calls
           \/ SetAt(t, calls, clock + w, (clock + w) - clock)
    <3>1. /\ sets < MaxSets /\ sets' = sets + 1
          /\ UNCHANGED <<clock, sleep, jumped>> /\ sleep = Awake
      BY <1>3 DEF TimerSetAbsolute, InCode
    <3>2. \/ Unlist(t) /\ calls' = calls
          \/ SetAt(t, calls, clock + w, (clock + w) - clock)
      BY <1>3 DEF TimerSetAbsolute, Unset, Unlist, SetAt
    <3> QED BY <1>1, <3>1, <3>2, Zenon
  <2>2. CASE Unlist(t) /\ calls' = calls
    BY <1>0, <2>1, <2>2 DEF Unlists, Quiet
  <2>3. CASE SetAt(t, calls, clock + w, (clock + w) - clock)
    <3>1. calls' \in Seq(CallRecords) /\ On(calls') \subseteq On(calls) \cup Callbacks
      BY <1>0, <2>3, SetAtCalls
    <3>2. (clock + w) - clock \in Int
      BY <1>0
    <3> QED BY <1>0, <2>1, <2>3, <3>1, <3>2 DEF Sets, Quiet
  <2> QED BY <2>1, <2>2, <2>3
<1>4. ASSUME NEW t \in Timers, TimerForce(t) PROVE Unlists(t)
  <2>1. calls' \in Seq(CallRecords) /\ On(calls') \subseteq On(calls) \cup Callbacks /\ Unlist(t)
    BY <1>0, <1>4, DoTimerCalls DEF TimerForce
  <2> QED BY <1>1, <1>4, <2>1 DEF TimerForce, InCode, Unlists, Quiet
<1>5. ASSUME NEW t \in Timers, TimerCancel(t) PROVE Unlists(t)
  BY <1>0, <1>5 DEF TimerCancel, InCode, Unset, Unlists, Quiet
<1>6. ASSUME NEW w \in Delays \cup {0}, Return(w)
      PROVE  Pops \/ \E t \in Timers : Sets(t)
  <2> DEFINE t == Head(calls).timer
  <2>1. /\ UNCHANGED <<clock, sleep, jumped>> /\ sets' \in 0..MaxSets /\ sleep = Awake
        /\ calls # <<>> /\ Head(calls).what = "callback"
        /\ \/ calls' = Tail(calls) /\ UNCHANGED <<timers, left, recs>>
           \/ w # 0 /\ SetAt(t, Tail(calls), clock + w, w)
    BY <1>0, <1>6 DEF Return, InCode
  <2>2. /\ Tail(calls) \in Seq(CallRecords) /\ On(Tail(calls)) \subseteq On(calls)
        /\ Head(calls) \in CallRecords
    BY <1>0, <2>1, CallPopped
  <2>3. t \in Timers
    BY <2>1, <2>2 DEF CallRecords
  <2>4. CASE calls' = Tail(calls) /\ UNCHANGED <<timers, left, recs>>
    BY <2>1, <2>2, <2>4 DEF Pops, Quiet
  <2>5. CASE w # 0 /\ SetAt(t, Tail(calls), clock + w, w)
    <3> HIDE DEF t
    <3>1. calls' \in Seq(CallRecords) /\ On(calls') \subseteq On(Tail(calls)) \cup Callbacks
      BY <2>2, <2>3, <2>5, SetAtCalls
    <3>2. w \in Delays /\ w \in Int
      BY <1>0, <2>5
    <3>3. Quiet
      BY <2>1, <2>2, <3>1 DEF Quiet
    <3> QED BY <2>2, <2>3, <2>5, <3>2, <3>3 DEF Sets
  <2> QED BY <2>1, <2>4, <2>5
<1>7. ASSUME calls # <<>>, UNCHANGED <<clock, sleep, jumped, sets>>,
             \/ calls' = Tail(calls) /\ UNCHANGED <<timers, left, recs>>
             \/ \E t \in Timers : DoTimer(t)
      PROVE  Pops \/ \E t \in Timers : Unlists(t)
  <2>1. CASE calls' = Tail(calls) /\ UNCHANGED <<timers, left, recs>>
    <3>1. Tail(calls) \in Seq(CallRecords) /\ On(Tail(calls)) \subseteq On(calls)
      BY <1>0, <1>7, CallPopped
    <3> QED BY <1>0, <1>7, <2>1, <3>1 DEF Pops, Quiet
  <2>2. ASSUME NEW t \in Timers, DoTimer(t) PROVE Unlists(t)
    <3>1. calls' \in Seq(CallRecords) /\ On(calls') \subseteq On(calls) \cup Callbacks /\ Unlist(t)
      BY <1>0, <2>2, DoTimerCalls
    <3> QED BY <1>0, <1>7, <3>1 DEF Unlists, Quiet
  <2> QED BY <1>7, <2>1, <2>2
<1>8. ASSUME RunExpired PROVE Pops \/ \E t \in Timers : Unlists(t)
  <2>1. timers # <<>> => Head(timers) \in Timers
    BY ListedTimers DEF IType
  <2>2. \/ calls' = Tail(calls) /\ UNCHANGED <<timers, left, recs>>
        \/ \E t \in Timers : DoTimer(t)
    BY <1>8, <2>1 DEF RunExpired
  <2>3. calls # <<>> /\ UNCHANGED <<clock, sleep, jumped, sets>>
    BY <1>8 DEF RunExpired
  <2> QED BY <1>7, <2>2, <2>3
<1>9. ASSUME RerunAffected PROVE Pops \/ \E t \in Timers : Unlists(t)
  <2> DEFINE affected == {i \in 1..Len(timers) : Affected(timers[i])}
             k == CHOOSE i \in affected : \A j \in affected : i <= j
  <2>1. Len(timers) \in Nat /\ \A i \in 1..Len(timers) : timers[i] \in Timers
    BY ListedTimers DEF IType
  <2>2. affected # {} => timers[k] \in Timers
    <3>1. affected # {} => k \in affected
      BY <2>1, FirstPlace
    <3> QED BY <2>1, <3>1
  <2>3. \/ affected # {} /\ DoTimer(timers[k])
        \/ calls' = Tail(calls) /\ UNCHANGED <<timers, left, recs>>
    BY <1>9 DEF RerunAffected
  <2> HIDE DEF k, affected
  <2>4. \/ calls' = Tail(calls) /\ UNCHANGED <<timers, left, recs>>
        \/ \E t \in Timers : DoTimer(t)
    BY <2>2, <2>3
  <2>5. calls # <<>> /\ UNCHANGED <<clock, sleep, jumped, sets>>
    BY <1>9 DEF RerunAffected
  <2> QED BY <1>7, <2>4, <2>5
<1> QED
  BY <1>2, <1>3, <1>4, <1>5, <1>6, <1>8, <1>9 DEF Next, Loops, Others

----------------------------------------------------------------------------
(* Where TimerSet puts a timer: past the timers that are not later than it. *)
LEMMA SortedPlaces ==
  ASSUME NEW q \in Seq(Timers), IsInjective(q), NEW t \in Timers, t \notin On(q), NEW at
  PROVE  /\ Sorted(q, t, at) \in Seq(Timers) /\ IsInjective(Sorted(q, t, at))
         /\ On(Sorted(q, t, at)) = On(q) \cup {t}
         /\ \A f \in [Timers -> Int] :
              /\ InOrder(q, f)
              /\ \A i \in 1..Len(q) : AsInt(expires[q[i]] - at) > 0 <=> f[q[i]] > f[t]
              => InOrder(Sorted(q, t, at), f)
<1> DEFINE later == {i \in 1..Len(q) : AsInt(expires[q[i]] - at) > 0}
           m == CHOOSE i \in later : \A j \in later : i <= j
           k == IF later = {} THEN Len(q) + 1 ELSE m
<1>0. Len(q) \in Nat /\ \A i \in 1..Len(q) : q[i] \in Timers
  BY LenProperties
<1>1. later # {} => m \in later /\ \A j \in later : m <= j
  BY <1>0, FirstPlace
<1>2. Sorted(q, t, at) = InsertAt(q, k, t)
  <2>1. Append(q, t) = InsertAt(q, Len(q) + 1, t)
    BY AppendIsInsert
  <2>2. Sorted(q, t, at) = IF later = {} THEN Append(q, t) ELSE InsertAt(q, m, t)
    BY DEF Sorted
  <2> HIDE DEF later, m
  <2> QED BY <2>1, <2>2
<1> HIDE DEF m
<1>3. k \in 1..Len(q) + 1
  BY <1>0, <1>1
<1>4. \A i \in 1..Len(q) : i < k => i \notin later
  BY <1>0, <1>1
<1>5. k \in 1..Len(q) => k \in later
  BY <1>0, <1>1
<1> HIDE DEF k
<1> DEFINE r == InsertAt(q, k, t)
<1>6. /\ r \in Seq(Timers) /\ IsInjective(r) /\ On(r) = On(q) \cup {t}
      /\ \A f \in [Timers -> Int] :
           /\ InOrder(q, f)
           /\ \A i \in 1..Len(q) : i < k => f[q[i]] <= f[t]
           /\ \A i \in 1..Len(q) : i >= k => f[t] <= f[q[i]]
           => InOrder(r, f)
  BY <1>3, Inserted
<1> HIDE DEF r
<1>7. ASSUME NEW f \in [Timers -> Int], InOrder(q, f),
             \A i \in 1..Len(q) : AsInt(expires[q[i]] - at) > 0 <=> f[q[i]] > f[t]
      PROVE  InOrder(r, f)
  <2>1. \A i \in 1..Len(q) : f[q[i]] \in Int
    BY <1>0
  <2>2. ASSUME NEW i \in 1..Len(q), i < k PROVE f[q[i]] <= f[t]
    BY <1>4, <1>7, <2>1, <2>2
  <2>3. ASSUME NEW i \in 1..Len(q), i >= k PROVE f[t] <= f[q[i]]
    <3>1. k \in 1..Len(q) /\ f[q[k]] > f[t]
      BY <1>0, <1>3, <1>5, <1>7, <2>3
    <3>2. f[q[k]] <= f[q[i]]
      BY <1>7, <2>1, <2>3, <3>1 DEF InOrder
    <3> QED BY <2>1, <3>1, <3>2
  <2> QED BY <1>6, <1>7, <2>2, <2>3
<1> QED BY <1>2, <1>6, <1>7 DEF r

(* The kinds of step keep the types. *)
LEMMA TypeStep ==
  ASSUME IType, [Next]_vars
  PROVE  IType'
<1>0. /\ clock \in Int /\ Word \in Nat \ {0}
      /\ Delays \cup Offsets \subseteq Int /\ Jumps \subseteq Nat
  BY OsTimersAssumption DEF IType
<1>1. \A n \in Int : Wrap(n) \in 0..(Word - 1) /\ AsInt(n) \in Int
  BY WrapTurns, AsIntRange
<1>2. ASSUME NEW t \in Timers, Sets(t) PROVE IType'
  <2>1. PICK w \in Delays \cup Offsets, wait \in Int, c \in Seq(CallRecords) :
          SetAt(t, c, clock + w, wait)
    BY <1>2 DEF Sets
  <2>2. /\ clock + w \in Int /\ (clock + w) - clock \in Int
    BY <1>0
  <2>3. expires' \in [Timers -> 0..(Word - 1)] /\ delta' \in [Timers -> 0..(Word - 1)]
    <3>1. /\ expires' = [expires EXCEPT ![t] = Wrap(clock + w)]
          /\ delta' = [delta EXCEPT ![t] = Wrap(wait)]
      BY <2>1 DEF SetAt
    <3>2. Wrap(clock + w) \in 0..(Word - 1) /\ Wrap(wait) \in 0..(Word - 1)
      BY <1>1, <2>2
    <3>3. expires \in [Timers -> 0..(Word - 1)] /\ delta \in [Timers -> 0..(Word - 1)]
      BY DEF IType
    <3> QED BY <3>1, <3>2, <3>3
  <2>4. left' \in [Timers -> Int]
    <3>1. AsInt((clock + w) - clock) \in Int
      BY <1>1, <2>2
    <3>2. \/ left' = [left EXCEPT ![t] = 0]
          \/ left' = [left EXCEPT ![t] = AsInt((clock + w) - clock)]
      BY <2>1 DEF SetAt
    <3> QED BY <3>1, <3>2 DEF IType
  <2>5. timers' \in Seq(Timers) /\ IsInjective(timers')
    <3> DEFINE q == RemoveFirst(timers, t)
    <3>1. q \in Seq(Timers) /\ IsInjective(q) /\ t \notin On(q)
      BY Removed DEF IType
    <3>2. timers' = q \/ timers' = Sorted(q, t, Wrap(clock + w))
      BY <2>1 DEF SetAt
    <3> HIDE DEF q
    <3> QED BY <3>1, <3>2, SortedPlaces
  <2> QED BY <1>2, <2>3, <2>4, <2>5 DEF IType, Sets, Quiet
<1>3. ASSUME NEW t \in Timers, Unlists(t) PROVE IType'
  <2>1. RemoveFirst(timers, t) \in Seq(Timers) /\ IsInjective(RemoveFirst(timers, t))
    BY Removed DEF IType
  <2>2. timers' \in Seq(Timers) /\ IsInjective(timers')
    BY <1>3, <2>1 DEF Unlists, Unlist
  <2>3. left' \in [Timers -> Int]
    BY <1>3 DEF Unlists, Unlist, IType
  <2> QED BY <1>3, <2>2, <2>3 DEF IType, Unlists, Unlist, Quiet, recs
<1>4. ASSUME Pops PROVE IType'
  BY <1>4 DEF IType, Pops, Quiet, recs
<1>5. ASSUME CheckTimers PROVE IType'
  <2>1. sleep' \in Nat \cup {Awake, Forever}
    <3>1. timers # <<>> => Timeout \in Int
      <4>1. timers # <<>> => expires[Head(timers)] - clock \in Int
        BY <1>0, ListedTimers DEF IType
      <4> QED BY <1>1, <4>1 DEF Timeout
    <3> QED BY <1>5, <3>1 DEF CheckTimers, IType
  <2>2. calls' \in Seq(CallRecords)
    <3>1. ASSUME NEW x \in CallRecords PROVE <<x>> \in Seq(CallRecords)
      OBVIOUS
    <3>2. /\ Call("DoTimers", Nobody, clock) \in CallRecords
          /\ Call("CheckAllTimers", Nobody, 0) \in CallRecords
      BY <1>0 DEF Call, CallRecords
    <3>3. \/ calls' = calls \/ calls' = <<Call("DoTimers", Nobody, clock)>>
          \/ calls' = <<Call("CheckAllTimers", Nobody, 0)>>
      BY <1>5 DEF CheckTimers
    <3> QED BY <3>1, <3>2, <3>3 DEF IType
  <2> QED BY <1>5, <2>1, <2>2 DEF IType, CheckTimers, recs
<1>6. ASSUME Wake PROVE IType'
  BY <1>6 DEF IType, Wake, recs
<1>7. ASSUME Tick PROVE IType'
  <2>1. sleep' \in Nat \cup {Awake, Forever}
    BY <1>7 DEF Tick, IType
  <2>2. left' \in [Timers -> Int]
    BY <1>7 DEF Tick, IType
  <2>3. clock' \in 0..(Word - 1)
    <3>1. clock + 1 \in Int
      BY <1>0
    <3> QED BY <1>1, <1>7, <3>1 DEF Tick
  <2> QED BY <1>7, <2>1, <2>2, <2>3 DEF IType, Tick
<1>8. ASSUME NEW n \in Jumps, JumpBack(n) PROVE IType'
  <2>1. clock' \in 0..(Word - 1)
    <3>1. clock - n \in Int
      BY <1>0
    <3> QED BY <1>1, <1>8, <3>1 DEF JumpBack
  <2> QED BY <1>8, <2>1 DEF IType, JumpBack, recs
<1>9. ASSUME UNCHANGED vars PROVE IType'
  BY <1>9 DEF IType, vars
<1> QED BY <1>2, <1>3, <1>4, <1>5, <1>6, <1>7, <1>8, <1>9, Kinds

(* The server starts with an empty list. *)
LEMMA InitType ==
  ASSUME Init
  PROVE  IType
<1>1. Word \in Nat \ {0} /\ MaxSets \in Nat
  BY OsTimersAssumption
<1>2. <<>> \in Seq(Timers) /\ IsInjective(<<>>) /\ <<>> \in Seq(CallRecords)
  BY EmptySeq DEF IsInjective
<1> QED BY <1>1, <1>2 DEF Init, IType

(* The inductive type invariant. *)
LEMMA TypeInvariant == Spec => []IType
<1>1. Init => IType
  BY InitType
<1>2. IType /\ [Next]_vars => IType'
  BY TypeStep
<1> QED BY <1>1, <1>2, PTL DEF Spec

(* The type invariant: among the rest, no timer is ever on the list twice,    *)
(* whatever callbacks set, force and cancel while the list is walked.         *)
THEOREM TypeCorrect == Spec => []TypeOK
<1>1. IType => TypeOK
  <2> SUFFICES ASSUME IType PROVE TypeOK
    OBVIOUS
  <2>1. Pending \subseteq Timers
    BY ListedTimers DEF IType
  <2>2. ASSUME NEW i \in 1..Len(calls) PROVE calls[i].what = "callback" => calls[i].timer \in Timers
    <3>1. calls[i] \in CallRecords
      BY LenProperties DEF IType
    <3> QED BY <3>1 DEF CallRecords
  <2> QED BY <2>1, <2>2 DEF IType, TypeOK
<1> QED BY <1>1, TypeInvariant, PTL

----------------------------------------------------------------------------
(* The delays in use, the jump and the latest look at the list make together  *)
(* less than half a turn of the clock: 24 days, for delays of minutes.        *)
WithinHalf ==
  /\ \A j \in Jumps \cup {0} : MaxLate + j < Half
  /\ \A w \in Delays \cup Offsets, j \in Jumps \cup {0} : AsInt(w) + j + MaxLate < Half

(* How far ahead of the clock a timer expires, as the server computes it. *)
Ahead == [t \in Timers |-> AsInt(expires[t] - clock)]

(* The jump that may be to come. *)
Coming == IF jumped = 0 THEN Jumps \cup {0} ELSE {0}

(* The clock shows how far a timer is ahead, but for the jump; and no timer   *)
(* is so late, or so far ahead, that the difference would change its sign.    *)
Timed ==
  \A t \in On(timers) :
    /\ left[t] <= Ahead[t] /\ Ahead[t] <= left[t] + jumped
    /\ -MaxLate - jumped <= left[t]
    /\ \A j \in Coming : Ahead[t] + j + MaxLate < Half

(* The loops that walk the list run while the server is awake. *)
Asleep == sleep # Awake => calls = <<>> /\ (sleep = Forever => timers = <<>>)

(* A round of callbacks has not lasted long. *)
Begun ==
  \A c \in On(calls) :
    c.what = "DoTimers" /\ jumped = 0 => \E k \in 0..MaxLate : c.now = Wrap(clock - k)

IInv ==
  IType /\ Asleep /\ Timed /\ InOrder(timers, Ahead) /\ Begun /\ NeverOversleeps

(* Differences on the clock are exact while they stay within half a turn. *)
LEMMA AsIntDifference ==
  ASSUME NEW a \in Int, NEW b \in Int,
         Half - Word <= AsInt(a) - AsInt(b), AsInt(a) - AsInt(b) < Half
  PROVE  AsInt(a - b) = AsInt(a) - AsInt(b)
<1>1. AsInt(a) \in Int /\ AsInt(b) \in Int /\ Wrap(AsInt(b)) = Wrap(b) /\ Wrap(b) \in Int
  BY AsIntRange, WrapTurns
<1> DEFINE c == AsInt(a)
           d == AsInt(b)
<1> HIDE DEF c, d
<1>2. c \in Int /\ d \in Int /\ Wrap(d) = Wrap(b) /\ Wrap(d) \in Int
  BY <1>1 DEF c, d
<1>3. Wrap(c + (-b)) = Wrap(a + (-b))
  BY WrapSum DEF c
<1>4. Wrap(c - Wrap(b)) = Wrap(c - b)
  BY <1>2, WrapSum
<1>5. Wrap(c - Wrap(d)) = Wrap(c - d)
  BY <1>2, WrapSum
<1>6. c + (-b) = c - b /\ a + (-b) = a - b
  BY <1>2
<1>7. Wrap(a - b) = Wrap(c - d)
  BY <1>2, <1>3, <1>4, <1>5, <1>6
<1>8. Half - Word <= c - d /\ c - d < Half
  BY DEF c, d
<1>9. AsInt(a - b) = c - d
  BY <1>2, <1>7, <1>8, AsIntOnly
<1> QED BY <1>9 DEF c, d

(* What the assumptions say of the numbers. *)
LEMMA Constants ==
  /\ Half \in Nat /\ 2 * Half <= Word /\ Word \in Nat /\ MaxLate \in Nat
  /\ Jumps \cup {0} \subseteq Nat /\ Delays \cup Offsets \subseteq Int
BY HalfOfWord, OsTimersAssumption

(* The numbers of a timer on the list. *)
LEMMA AheadType ==
  ASSUME IType
  PROVE  /\ Ahead \in [Timers -> Int] /\ clock \in Int /\ jumped \in Nat
         /\ \A t \in Timers : expires[t] \in Int /\ left[t] \in Int
         /\ \A t \in Timers : Ahead[t] = AsInt(expires[t] - clock)
<1>1. clock \in Int /\ jumped \in Nat /\ \A t \in Timers : expires[t] \in Int /\ left[t] \in Int
  BY Constants DEF IType
<1>2. \A t \in Timers : AsInt(expires[t] - clock) \in Int
  BY <1>1, AsIntRange
<1> QED BY <1>1, <1>2 DEF Ahead

(* And after a step. *)
LEMMA AheadTypeAfter ==
  ASSUME IType'
  PROVE  /\ Ahead' \in [Timers -> Int] /\ clock' \in Int
         /\ \A t \in Timers : Ahead'[t] = AsInt(expires'[t] - clock')
<1>1. clock' \in Int /\ \A t \in Timers : expires'[t] \in Int
  BY Constants DEF IType
<1>2. \A t \in Timers : AsInt(expires'[t] - clock') \in Int
  BY <1>1, AsIntRange
<1> QED BY <1>1, <1>2 DEF Ahead

(* What is set now is as far ahead as what is left of it. *)
LEMMA AheadOfSet ==
  ASSUME NEW w \in Int, clock \in Int
  PROVE  /\ AsInt(Wrap(clock + w) - clock) = AsInt(w)
         /\ AsInt((clock + w) - clock) = AsInt(w)
<1>1. (clock + w) - clock = w /\ clock + w \in Int /\ Wrap(clock + w) \in Int
  BY WrapTurns
<1>2. Wrap(Wrap(clock + w) + (-clock)) = Wrap((clock + w) + (-clock))
  BY <1>1, WrapSum
<1>3. Wrap(clock + w) + (-clock) = Wrap(clock + w) - clock /\ (clock + w) + (-clock) = w
  BY <1>1
<1>4. Wrap(clock + w) - clock \in Int
  BY <1>1
<1>5. AsInt(Wrap(clock + w) - clock) = AsInt(w)
  BY <1>2, <1>3, <1>4, AsIntWrap
<1> QED BY <1>1, <1>5

(* A timer is set: the others keep their place and time, and it gets its own. *)
LEMMA SetsSafe ==
  ASSUME WithinHalf, IInv, NEW t \in Timers, Sets(t), IType'
  PROVE  Timed' /\ InOrder(timers, Ahead)'
<1>1. PICK w \in Delays \cup Offsets, wait \in Int, c \in Seq(CallRecords) :
        SetAt(t, c, clock + w, wait)
  BY DEF Sets
<1>2. UNCHANGED <<clock, sleep, jumped>> /\ IType
  BY DEF Sets, Quiet, IInv
<1> DEFINE q == RemoveFirst(timers, t)
           a == AsInt(w)
<1>3. /\ q \in Seq(Timers) /\ IsInjective(q) /\ On(q) = On(timers) \ {t}
      /\ InOrder(q, Ahead)
  BY <1>2, Removed DEF IInv, IType
<1>4. a \in Int /\ w \in Int
  BY Constants, AsIntRange
<1>5. /\ AsInt(Wrap(clock + w) - clock) = a /\ AsInt((clock + w) - clock) = a
      /\ Ahead \in [Timers -> Int] /\ clock \in Int /\ jumped \in Nat
      /\ \A u \in Timers : expires[u] \in Int /\ left[u] \in Int
      /\ \A u \in Timers : Ahead[u] = AsInt(expires[u] - clock)
  <2>1. /\ Ahead \in [Timers -> Int] /\ clock \in Int /\ jumped \in Nat
        /\ \A u \in Timers : expires[u] \in Int /\ left[u] \in Int
        /\ \A u \in Timers : Ahead[u] = AsInt(expires[u] - clock)
    BY <1>2, AheadType
  <2>2. AsInt(Wrap(clock + w) - clock) = a /\ AsInt((clock + w) - clock) = a
    BY <1>4, <2>1, AheadOfSet
  <2> QED BY <2>1, <2>2
<1> HIDE DEF a
<1>6. /\ Ahead' \in [Timers -> Int]
      /\ \A u \in Timers : Ahead'[u] = AsInt(expires'[u] - clock')
  BY AheadTypeAfter
<1>7. /\ \A u \in Timers \ {t} : Ahead'[u] = Ahead[u] /\ left'[u] = left[u]
      /\ Ahead'[t] = a
  <2>1. expires' = [expires EXCEPT ![t] = Wrap(clock + w)]
    BY <1>1 DEF SetAt
  <2>2. expires'[t] = Wrap(clock + w) /\ \A u \in Timers \ {t} : expires'[u] = expires[u]
    BY <1>2, <2>1 DEF IType
  <2>3. \A u \in Timers \ {t} : left'[u] = left[u]
    BY <1>1, <1>2 DEF SetAt, IType
  <2> QED BY <1>2, <1>5, <1>6, <2>2, <2>3
<1>8. On(timers) \subseteq Timers
  BY <1>2, ListedTimers DEF IType
<1>9. \A u \in On(q) : u # t /\ u \in On(timers) /\ u \in Timers
  BY <1>3, <1>8
<1>10. CASE a <= 0
  <2>1. timers' = q
    BY <1>1, <1>5, <1>10 DEF SetAt
  <2>2. Timed'
    BY <1>2, <1>7, <1>9, <2>1 DEF IInv, Timed, Coming
  <2>3. InOrder(q, Ahead')
    <3>1. \A i \in 1..Len(q) : q[i] \in On(q)
      BY DEF On
    <3>2. \A i \in 1..Len(q) : Ahead'[q[i]] = Ahead[q[i]]
      BY <1>7, <1>9, <3>1
    <3> QED BY <1>3, <3>2 DEF InOrder
  <2> QED BY <2>1, <2>2, <2>3
<1>11. CASE a > 0
  <2> DEFINE r == Sorted(q, t, Wrap(clock + w))
  <2>1. timers' = r /\ left' = [left EXCEPT ![t] = a]
    <3>1. AsInt((clock + w) - clock) = a /\ ~ (a <= 0)
      BY <1>4, <1>5, <1>11
    <3>2. ~ (AsInt((clock + w) - clock) <= 0)
      BY <3>1
    <3>3. timers' = r /\ left' = [left EXCEPT ![t] = AsInt((clock + w) - clock)]
      BY <1>1, <3>2, Zenon DEF SetAt
    <3> QED BY <3>1, <3>3
  <2>2. t \notin On(q)
    BY <1>3
  <2>3. /\ On(r) = On(q) \cup {t}
        /\ \A f \in [Timers -> Int] :
             /\ InOrder(q, f)
             /\ \A i \in 1..Len(q) : AsInt(expires[q[i]] - Wrap(clock + w)) > 0 <=> f[q[i]] > f[t]
             => InOrder(r, f)
    BY <1>3, <2>2, SortedPlaces
  <2> HIDE DEF r, q
  <2>4. a + MaxLate < Half /\ \A j \in Jumps \cup {0} : a + j + MaxLate < Half
    BY Constants, <1>4 DEF WithinHalf, a
  <2>5. Timed'
    <3>1. left'[t] = a
      BY <1>2, <2>1 DEF IType
    <3>2. \A j \in Coming' : j \in Jumps \cup {0}
      BY DEF Coming
    <3>3. ASSUME NEW u \in On(r)
          PROVE  /\ left'[u] <= Ahead'[u] /\ Ahead'[u] <= left'[u] + jumped'
                 /\ -MaxLate - jumped' <= left'[u]
                 /\ \A j \in Coming' : Ahead'[u] + j + MaxLate < Half
      <4>1. CASE u = t
        <5>1. left'[u] = a /\ Ahead'[u] = a /\ jumped' = jumped
          BY <1>2, <1>7, <3>1, <4>1
        <5>2. \A j \in Coming' : Ahead'[u] + j + MaxLate < Half
          BY <2>4, <3>2, <5>1
        <5> QED BY <1>4, <1>5, <1>11, <5>1, <5>2, Constants
      <4>2. CASE u # t
        BY <1>2, <1>7, <1>9, <2>3, <4>2 DEF IInv, Timed, Coming
      <4> QED BY <4>1, <4>2
    <3> QED BY <2>1, <3>3 DEF Timed
  <2>6. ASSUME NEW i \in 1..Len(q)
        PROVE  AsInt(expires[q[i]] - Wrap(clock + w)) > 0 <=> Ahead'[q[i]] > Ahead'[t]
    <3> DEFINE u == q[i]
    <3>1. u \in On(q)
      BY DEF On
    <3>2. u \in Timers /\ u \in On(timers) /\ u # t
      BY <1>9, <3>1
    <3> HIDE DEF u
    <3>3. /\ expires[u] \in Int /\ Ahead[u] \in Int /\ Ahead[u] = AsInt(expires[u] - clock)
          /\ Ahead'[u] = Ahead[u]
      BY <1>5, <1>7, <3>2
    <3>4. Half - Word <= Ahead[u] - a /\ Ahead[u] - a < Half
      <4>1. /\ left[u] <= Ahead[u] /\ -MaxLate - jumped <= left[u]
            /\ \A j \in Coming : Ahead[u] + j + MaxLate < Half
        BY <3>2 DEF IInv, Timed
      <4>2. 0 \in Coming /\ jumped \in Jumps \cup {0} /\ left[u] \in Int
        BY <1>2, <1>5, <3>2 DEF Coming, IType
      <4>3. a + jumped + MaxLate < Half /\ Ahead[u] + 0 + MaxLate < Half
        BY <2>4, <4>1, <4>2
      <4>4. /\ Half \in Nat /\ 2 * Half <= Word /\ Word \in Nat /\ MaxLate \in Nat
            /\ jumped \in Nat /\ Ahead[u] \in Int /\ a \in Int
        BY <1>4, <1>5, <3>3, Constants
      <4> HIDE DEF Half
      <4>5. Ahead[u] < Half
        BY <4>3, <4>4
      <4>6. left[u] <= Ahead[u] /\ -MaxLate - jumped <= left[u] /\ left[u] \in Int
        BY <4>1, <4>2
      <4>7. -MaxLate - jumped <= Ahead[u]
        BY <4>4, <4>6
      <4> QED BY <1>11, <4>3, <4>4, <4>5, <4>7
    <3>5. AsInt((expires[u] - clock) - w) = Ahead[u] - a
      <4> DEFINE x == expires[u] - clock
      <4>1. x \in Int /\ AsInt(x) = Ahead[u] /\ AsInt(w) = a
        BY <1>5, <3>3 DEF a
      <4> HIDE DEF x
      <4>2. Half - Word <= AsInt(x) - AsInt(w) /\ AsInt(x) - AsInt(w) < Half
        BY <3>4, <4>1
      <4>3. AsInt(x - w) = AsInt(x) - AsInt(w)
        BY <1>4, <4>1, <4>2, AsIntDifference
      <4> QED BY <4>1, <4>3 DEF x
    <3>6. AsInt(expires[u] - Wrap(clock + w)) = AsInt((expires[u] - clock) - w)
      <4>1. Wrap(expires[u] - Wrap(clock + w)) = Wrap(expires[u] - (clock + w))
        <5>1. clock + w \in Int
          BY <1>4, <1>5
        <5> QED BY <3>3, <5>1, WrapSum
      <4>2. expires[u] - (clock + w) = (expires[u] - clock) - w
        BY <1>4, <1>5, <3>3
      <4>3. Wrap(expires[u] - Wrap(clock + w)) = Wrap((expires[u] - clock) - w)
        BY <4>1, <4>2
      <4> QED BY <4>3 DEF AsInt
    <3>7. AsInt(expires[u] - Wrap(clock + w)) > 0 <=> Ahead'[u] > Ahead'[t]
      BY <1>4, <1>7, <3>3, <3>5, <3>6
    <3> QED BY <3>7 DEF u
  <2>7. InOrder(q, Ahead')
    <3>1. \A i \in 1..Len(q) : q[i] \in On(q)
      BY DEF On
    <3>2. \A i \in 1..Len(q) : Ahead'[q[i]] = Ahead[q[i]]
      BY <1>7, <1>9, <3>1
    <3> QED BY <1>3, <3>2 DEF InOrder
  <2>8. InOrder(r, Ahead')
    BY <1>6, <2>3, <2>6, <2>7
  <2> QED BY <2>1, <2>5, <2>8
<1> QED BY <1>4, <1>10, <1>11

(* While the server is awake, the steps that leave no time or jump to pass    *)
(* put it to sleep no more than they are in the middle of the list.           *)
LEMMA QuietSafe ==
  ASSUME IInv, Quiet
  PROVE  Asleep' /\ Begun' /\ NeverOversleeps'
<1>1. sleep' = Awake
  BY DEF Quiet, IInv, Asleep
<1>2. Asleep' /\ NeverOversleeps'
  BY <1>1 DEF Asleep, NeverOversleeps
<1>3. ASSUME NEW c \in On(calls'), c.what = "DoTimers", jumped' = 0
      PROVE  \E k \in 0..MaxLate : c.now = Wrap(clock' - k)
  <2>1. c \notin Callbacks
    BY <1>3 DEF Callbacks, Callback, Call
  <2>2. c \in On(calls) /\ jumped = 0 /\ clock' = clock
    BY <1>3, <2>1 DEF Quiet
  <2> QED BY <1>3, <2>2 DEF IInv, Begun
<1> QED BY <1>2, <1>3 DEF Begun

(* A timer is taken off the list, and the others keep their place and time. *)
LEMMA UnlistsSafe ==
  ASSUME IInv, NEW t \in Timers, Unlists(t)
  PROVE  Timed' /\ InOrder(timers, Ahead)'
<1>1. /\ IType /\ UNCHANGED <<clock, jumped, expires>>
      /\ timers' = RemoveFirst(timers, t) /\ left' = [left EXCEPT ![t] = 0]
  BY DEF Unlists, Unlist, Quiet, IInv, recs
<1>2. /\ On(timers') = On(timers) \ {t}
      /\ \A f : InOrder(timers, f) => InOrder(timers', f)
  BY <1>1, Removed DEF IType
<1>3. Ahead' = Ahead
  BY <1>1 DEF Ahead
<1>4. InOrder(timers', Ahead')
  BY <1>2, <1>3 DEF IInv
<1>5. \A u \in On(timers') : u \in On(timers) /\ left'[u] = left[u]
  <2>1. On(timers) \subseteq Timers
    BY <1>1, ListedTimers DEF IType
  <2> QED BY <1>1, <1>2, <2>1 DEF IType
<1>6. Coming' = Coming
  BY <1>1 DEF Coming
<1>7. Timed'
  BY <1>1, <1>3, <1>5, <1>6 DEF Timed, IInv
<1> QED BY <1>4, <1>7

(* check_timers sleeps for no longer than the first of the list is ahead, and *)
(* no other is nearer.                                                        *)
LEMMA CheckTimersSafe ==
  ASSUME IInv, CheckTimers
  PROVE  Asleep' /\ Begun' /\ NeverOversleeps'
<1>1. /\ IType /\ UNCHANGED <<clock, timers, left, recs, jumped>>
      /\ calls = <<>> /\ sleep = Awake
  BY DEF CheckTimers, IInv
<1>2. /\ Ahead \in [Timers -> Int] /\ clock \in Int /\ jumped \in Nat
      /\ \A t \in Timers : expires[t] \in Int /\ left[t] \in Int
      /\ \A t \in Timers : Ahead[t] = AsInt(expires[t] - clock)
  BY <1>1, AheadType
<1>3. On(calls) = {}
  BY <1>1 DEF On
<1>4. Begun'
  <2>1. Wrap(clock - 0) = clock
    <3>1. clock \in 0..(Word - 1) /\ Word \in Nat \ {0}
      BY <1>1, OsTimersAssumption DEF IType
    <3> QED BY <3>1 DEF Wrap
  <2>2. 0 \in 0..MaxLate
    BY Constants
  <2>3. ASSUME NEW c \in On(calls'), c.what = "DoTimers" PROVE c.now = clock
    <3>1. \/ calls' = <<>> \/ calls' = <<Call("DoTimers", Nobody, clock)>>
          \/ calls' = <<Call("CheckAllTimers", Nobody, 0)>>
      BY <1>1 DEF CheckTimers
    <3>2. \A x : On(<<x>>) = {x}
      BY DEF On
    <3>3. On(<<>>) = {}
      BY DEF On
    <3>4. c = Call("DoTimers", Nobody, clock) \/ c = Call("CheckAllTimers", Nobody, 0)
      BY <2>3, <3>1, <3>2, <3>3
    <3> QED BY <2>3, <3>4 DEF Call
  <2>4. clock' = clock
    BY <1>1
  <2> QED BY <2>1, <2>2, <2>3, <2>4 DEF Begun
<1>5. CASE timers = <<>> /\ sleep' = Forever /\ UNCHANGED calls
  <2>1. Pending' = {}
    BY <1>1, <1>5 DEF Pending
  <2> QED BY <1>1, <1>4, <1>5, <2>1 DEF Asleep, NeverOversleeps
<1>6. CASE sleep' = Awake
  BY <1>4, <1>6 DEF Asleep, NeverOversleeps
<1>7. CASE timers # <<>> /\ Timeout > 0 /\ sleep' = Timeout /\ UNCHANGED calls
  <2>1. /\ Head(timers) \in Timers /\ Head(timers) = timers[1] /\ 1 \in 1..Len(timers)
        /\ Len(timers) \in Nat /\ Pending = On(timers) /\ Pending \subseteq Timers
    BY <1>1, <1>7, ListedTimers DEF IType
  <2>2. Timeout = Ahead[timers[1]] /\ Timeout \in Int /\ Timeout \in Nat
    <3>1. Timeout = Ahead[timers[1]]
      BY <1>2, <2>1 DEF Timeout
    <3>2. Timeout \in Int
      BY <1>2, <2>1, <3>1
    <3> QED BY <1>7, <3>1, <3>2
  <2>3. ASSUME NEW t \in Pending PROVE Timeout <= left[t] + jumped
    <3>1. PICK i \in 1..Len(timers) : timers[i] = t
      BY DEF Pending
    <3>2. Ahead[timers[1]] <= Ahead[t]
      <4>1. CASE i = 1
        BY <1>2, <2>1, <3>1, <4>1
      <4>2. CASE i # 1
        <5>1. 1 < i
          BY <2>1, <4>2
        <5> QED BY <2>1, <3>1, <5>1 DEF IInv, InOrder
      <4> QED BY <4>1, <4>2
    <3>3. Ahead[t] <= left[t] + jumped
      BY <2>1 DEF IInv, Timed
    <3> QED BY <1>2, <2>1, <2>2, <3>2, <3>3
  <2>4. Pending' = Pending /\ left' = left /\ jumped' = jumped
    BY <1>1 DEF Pending
  <2>5. NeverOversleeps'
    BY <1>7, <2>2, <2>3, <2>4 DEF NeverOversleeps
  <2>6. Timeout # Forever
    BY <2>2, OsTimersAssumption
  <2>7. Asleep'
    BY <1>1, <1>7, <2>6 DEF Asleep
  <2> QED BY <1>4, <2>5, <2>7
<1>8. \/ timers = <<>> /\ sleep' = Forever /\ UNCHANGED calls
      \/ sleep' = Awake
      \/ timers # <<>> /\ Timeout > 0 /\ sleep' = Timeout /\ UNCHANGED calls
  BY DEF CheckTimers
<1> QED BY <1>5, <1>6, <1>7, <1>8

(* A millisecond passes: everything is nearer by one, in the same order. *)
LEMMA TickSafe ==
  ASSUME WithinHalf, IInv, Tick, IType'
  PROVE  IInv'
<1>1. /\ IType /\ sleep # 0 /\ clock' = Wrap(clock + 1)
      /\ left' = [t \in Timers |-> IF t \in Pending THEN left[t] - 1 ELSE left[t]]
      /\ sleep' = IF sleep \in Nat THEN sleep - 1 ELSE sleep
      /\ UNCHANGED <<expires, delta, timers, calls, jumped, sets>>
      /\ \A t \in Pending : left[t] > -MaxLate - jumped
      /\ \A i \in 1..Len(calls) :
           calls[i].what = "DoTimers" => AsInt(clock - calls[i].now) < MaxLate
  BY DEF Tick, IInv
<1>2. /\ Ahead \in [Timers -> Int] /\ clock \in Int /\ jumped \in Nat
      /\ \A t \in Timers : expires[t] \in Int /\ left[t] \in Int
      /\ \A t \in Timers : Ahead[t] = AsInt(expires[t] - clock)
  BY <1>1, AheadType
<1>3. /\ Ahead' \in [Timers -> Int]
      /\ \A t \in Timers : Ahead'[t] = AsInt(expires'[t] - clock')
  BY AheadTypeAfter
<1>4. Pending = On(timers) /\ Pending \subseteq Timers /\ Pending' = Pending
  BY <1>1, ListedTimers DEF IType, Pending
<1>5. ASSUME NEW t \in Pending
      PROVE  /\ left[t] <= Ahead[t] /\ Ahead[t] <= left[t] + jumped
             /\ -MaxLate - jumped < left[t] /\ \A j \in Coming : Ahead[t] + j + MaxLate < Half
             /\ t \in Timers /\ left[t] \in Int /\ Ahead[t] \in Int
  BY <1>1, <1>2, <1>4 DEF IInv, Timed
<1>6. ASSUME NEW t \in Pending PROVE Ahead'[t] = Ahead[t] - 1 /\ left'[t] = left[t] - 1
  <2>1. Half - Word <= Ahead[t] + (-1) /\ Ahead[t] + (-1) < Half
    <3>1. MaxLate + jumped < Half
      BY <1>1 DEF WithinHalf, IType
    <3>2. Ahead[t] + 0 + MaxLate < Half
      BY <1>5 DEF Coming
    <3>3. Half \in Nat /\ 2 * Half <= Word /\ Word \in Nat /\ MaxLate \in Nat
      BY Constants
    <3> HIDE DEF Half
    <3> QED BY <1>2, <1>5, <3>1, <3>2, <3>3
  <2> DEFINE x == expires[t] - clock
  <2>2. x \in Int /\ AsInt(x) = Ahead[t]
    BY <1>2, <1>5
  <2> HIDE DEF x
  <2>3. AsInt(x + (-1)) = Ahead[t] - 1
    <3>1. AsInt(x + (-1)) = AsInt(x) + (-1)
      BY <2>1, <2>2, AsIntMoves
    <3> QED BY <1>5, <2>2, <3>1
  <2>4. AsInt(expires'[t] - clock') = AsInt(x + (-1))
    <3>1. clock + 1 \in Int /\ expires[t] \in Int
      BY <1>2, <1>5
    <3>2. Wrap(expires[t] - Wrap(clock + 1)) = Wrap(expires[t] - (clock + 1))
      BY <3>1, WrapSum
    <3>3. expires[t] - (clock + 1) = x + (-1)
      BY <1>2, <3>1 DEF x
    <3>4. Wrap(expires'[t] - clock') = Wrap(x + (-1))
      BY <1>1, <3>2, <3>3
    <3> QED BY <3>4 DEF AsInt
  <2>5. left'[t] = left[t] - 1
    BY <1>1, <1>5
  <2> QED BY <1>3, <1>5, <2>3, <2>4, <2>5
<1>7. Timed'
  <2>1. Coming' = Coming /\ Coming \subseteq Nat
    BY <1>1, Constants DEF Coming
  <2>2. MaxLate \in Nat /\ Half \in Nat
    BY Constants
  <2>3. ASSUME NEW t \in Pending
        PROVE  /\ left'[t] <= Ahead'[t] /\ Ahead'[t] <= left'[t] + jumped
               /\ -MaxLate - jumped <= left'[t]
               /\ \A j \in Coming : Ahead'[t] + j + MaxLate < Half
    <3>1. /\ left'[t] <= Ahead'[t] /\ Ahead'[t] <= left'[t] + jumped
          /\ -MaxLate - jumped <= left'[t]
      BY <1>2, <1>5, <1>6, <2>2
    <3>2. ASSUME NEW j \in Coming PROVE Ahead'[t] + j + MaxLate < Half
      <4>1. Ahead[t] + j + MaxLate < Half /\ j \in Nat
        BY <1>5, <2>1
      <4> HIDE DEF Half
      <4> QED BY <1>5, <1>6, <2>2, <4>1
    <3> QED BY <3>1, <3>2
  <2> QED BY <1>1, <1>4, <2>1, <2>3 DEF Timed
<1>8. InOrder(timers, Ahead)'
  <2>1. \A i \in 1..Len(timers) : timers[i] \in Pending
    BY DEF Pending
  <2>2. ASSUME NEW i \in 1..Len(timers), NEW j \in 1..Len(timers), i < j
        PROVE  Ahead'[timers[i]] <= Ahead'[timers[j]]
    <3>1. Ahead[timers[i]] <= Ahead[timers[j]]
      BY <2>2 DEF IInv, InOrder
    <3> QED BY <1>5, <1>6, <2>1, <3>1
  <2> QED BY <1>1, <2>2 DEF InOrder
<1>9. Begun'
  <2>1. ASSUME NEW c \in On(calls), c.what = "DoTimers", jumped = 0
        PROVE  \E k \in 0..MaxLate : c.now = Wrap(clock' - k)
    <3>1. PICK k \in 0..MaxLate : c.now = Wrap(clock - k)
      BY <2>1 DEF IInv, Begun
    <3>2. AsInt(clock - c.now) < MaxLate
      BY <1>1, <2>1 DEF On
    <3>3. AsInt(clock - c.now) = k
      <4>1. clock - k \in Int /\ clock - (clock - k) = k /\ k \in Int
        BY <1>2
      <4>2. Wrap(clock - Wrap(clock - k)) = Wrap(clock - (clock - k))
        BY <1>2, <4>1, WrapSum
      <4>3. Half - Word <= k /\ k < Half
        <5>1. MaxLate + 0 < Half
          BY DEF WithinHalf
        <5>2. Half \in Nat /\ 2 * Half <= Word /\ Word \in Nat /\ MaxLate \in Nat
          BY Constants
        <5> HIDE DEF Half
        <5> QED BY <5>1, <5>2
      <4>4. clock - c.now \in Int /\ Wrap(clock - c.now) = Wrap(k)
        <5>1. Wrap(clock - k) \in Int
          BY <4>1, WrapTurns
        <5> QED BY <1>2, <3>1, <4>1, <4>2, <5>1
      <4> QED BY <4>1, <4>3, <4>4, AsIntOnly
    <3>4. k + 1 \in 0..MaxLate
      BY <3>2, <3>3, Constants
    <3>5. Wrap(clock' - (k + 1)) = Wrap(clock - k)
      <4>1. clock + 1 \in Int /\ -(k + 1) \in Int
        BY <1>2
      <4>2. Wrap(Wrap(clock + 1) + (-(k + 1))) = Wrap((clock + 1) + (-(k + 1)))
        BY <4>1, WrapSum
      <4>3. /\ (clock + 1) + (-(k + 1)) = clock - k
            /\ \A n \in Int : n + (-(k + 1)) = n - (k + 1)
        BY <1>2
      <4>4. Wrap(clock + 1) \in Int
        BY <4>1, WrapTurns
      <4> QED BY <1>1, <4>2, <4>3, <4>4
    <3> QED BY <3>1, <3>4, <3>5
  <2> QED BY <1>1, <2>1 DEF Begun
<1>10. Asleep'
  <2>1. sleep' # Awake => sleep # Awake
    BY <1>1, OsTimersAssumption DEF IType
  <2>2. sleep' = Forever => sleep = Forever
    BY <1>1, OsTimersAssumption DEF IType
  <2> QED BY <1>1, <2>1, <2>2 DEF IInv, Asleep
<1>11. NeverOversleeps'
  <2>1. ASSUME sleep' # Awake, NEW t \in Pending
        PROVE  sleep' \in Nat /\ sleep' <= left'[t] + jumped
    <3>1. sleep # Awake
      BY <1>1, <2>1, OsTimersAssumption DEF IType
    <3>2. sleep \in Nat /\ sleep <= left[t] + jumped
      BY <3>1 DEF IInv, NeverOversleeps
    <3> QED BY <1>1, <1>2, <1>5, <1>6, <3>2
  <2> QED BY <1>1, <1>4, <2>1 DEF NeverOversleeps
<1> QED BY <1>7, <1>8, <1>9, <1>10, <1>11 DEF IInv

(* The clock jumps back, once: everything seems further ahead by the jump. *)
LEMMA JumpBackSafe ==
  ASSUME WithinHalf, IInv, NEW n \in Jumps, JumpBack(n), IType'
  PROVE  IInv'
<1>1. /\ IType /\ jumped = 0 /\ jumped' = n /\ clock' = Wrap(clock - n) /\ n \in Nat
      /\ UNCHANGED <<timers, calls, left, recs, sleep, sets>>
  BY Constants DEF JumpBack, IInv
<1>2. /\ Ahead \in [Timers -> Int] /\ clock \in Int
      /\ \A t \in Timers : expires[t] \in Int /\ left[t] \in Int
      /\ \A t \in Timers : Ahead[t] = AsInt(expires[t] - clock)
  BY <1>1, AheadType
<1>3. /\ Ahead' \in [Timers -> Int]
      /\ \A t \in Timers : Ahead'[t] = AsInt(expires'[t] - clock')
  BY AheadTypeAfter
<1>4. Pending = On(timers) /\ Pending \subseteq Timers /\ Pending' = Pending
  BY <1>1, ListedTimers DEF IType, Pending
<1>5. ASSUME NEW t \in Pending
      PROVE  /\ left[t] = Ahead[t] /\ -MaxLate <= left[t]
             /\ Ahead[t] + n + MaxLate < Half
             /\ t \in Timers /\ left[t] \in Int /\ Ahead[t] \in Int
  <2>1. n \in Coming /\ MaxLate \in Nat
    BY <1>1, Constants DEF Coming
  <2>2. /\ left[t] <= Ahead[t] /\ Ahead[t] <= left[t] + 0 /\ -MaxLate - 0 <= left[t]
        /\ Ahead[t] + n + MaxLate < Half
    BY <1>1, <1>4, <2>1 DEF IInv, Timed
  <2>3. t \in Timers /\ left[t] \in Int /\ Ahead[t] \in Int
    BY <1>2, <1>4
  <2> QED BY <2>1, <2>2, <2>3
<1>6. ASSUME NEW t \in Pending PROVE Ahead'[t] = Ahead[t] + n
  <2> DEFINE x == expires[t] - clock
  <2>1. x \in Int /\ AsInt(x) = Ahead[t]
    BY <1>2, <1>5
  <2> HIDE DEF x
  <2>2. Half - Word <= Ahead[t] + n /\ Ahead[t] + n < Half
    <3>1. MaxLate + 0 < Half
      BY DEF WithinHalf
    <3>2. Half \in Nat /\ 2 * Half <= Word /\ Word \in Nat /\ MaxLate \in Nat
      BY Constants
    <3> HIDE DEF Half
    <3> QED BY <1>1, <1>5, <3>1, <3>2
  <2>3. AsInt(x + n) = Ahead[t] + n
    BY <1>1, <2>1, <2>2, AsIntMoves
  <2>4. AsInt(expires'[t] - clock') = AsInt(x + n)
    <3>1. clock - n \in Int /\ expires[t] \in Int
      BY <1>1, <1>2, <1>5
    <3>2. Wrap(expires[t] - Wrap(clock - n)) = Wrap(expires[t] - (clock - n))
      BY <3>1, WrapSum
    <3>3. expires[t] - (clock - n) = x + n
      BY <1>1, <1>2, <3>1 DEF x
    <3>4. Wrap(expires'[t] - clock') = Wrap(x + n)
      BY <1>1, <3>2, <3>3 DEF recs
    <3> QED BY <3>4 DEF AsInt
  <2> QED BY <1>3, <1>5, <2>3, <2>4
<1>7. Timed'
  <2>1. ASSUME NEW t \in Pending
        PROVE  /\ left[t] <= Ahead'[t] /\ Ahead'[t] <= left[t] + n /\ -MaxLate - n <= left[t]
    BY <1>1, <1>5, <1>6, Constants
  <2>2. ASSUME NEW t \in Pending, NEW j \in Coming' PROVE Ahead'[t] + j + MaxLate < Half
    <3>1. CASE n # 0
      <4>1. j = 0
        BY <1>1, <3>1 DEF Coming
      <4>2. MaxLate \in Nat /\ Half \in Nat
        BY Constants
      <4> HIDE DEF Half
      <4> QED BY <1>1, <1>5, <1>6, <4>1, <4>2
    <3>2. CASE n = 0
      <4>1. j \in Coming /\ Ahead'[t] = Ahead[t]
        BY <1>1, <1>5, <1>6, <3>2 DEF Coming
      <4> QED BY <1>4, <4>1 DEF IInv, Timed
    <3> QED BY <3>1, <3>2
  <2>3. timers' = timers /\ left' = left /\ jumped' = n
    BY <1>1
  <2> QED BY <1>4, <2>1, <2>2, <2>3 DEF Timed
<1>8. InOrder(timers, Ahead)'
  <2>1. \A i \in 1..Len(timers) : timers[i] \in Pending
    BY DEF Pending
  <2>2. ASSUME NEW i \in 1..Len(timers), NEW j \in 1..Len(timers), i < j
        PROVE  Ahead'[timers[i]] <= Ahead'[timers[j]]
    <3>1. Ahead[timers[i]] <= Ahead[timers[j]]
      BY <2>2 DEF IInv, InOrder
    <3> QED BY <1>1, <1>5, <1>6, <2>1, <3>1
  <2> QED BY <1>1, <2>2 DEF InOrder
<1>9. Begun'
  <2>1. n = 0 => Wrap(clock - n) = clock
    <3>1. clock \in 0..(Word - 1) /\ Word \in Nat \ {0}
      BY <1>1, OsTimersAssumption DEF IType
    <3> QED BY <3>1 DEF Wrap
  <2> QED BY <1>1, <2>1 DEF IInv, Begun
<1>10. Asleep' /\ NeverOversleeps'
  <2>1. ASSUME sleep # Awake, NEW t \in Pending PROVE sleep \in Nat /\ sleep <= left[t] + n
    <3>1. sleep \in Nat /\ sleep <= left[t] + 0
      BY <1>1, <2>1 DEF IInv, NeverOversleeps
    <3> QED BY <1>1, <1>5, <3>1
  <2> QED BY <1>1, <1>4, <2>1 DEF IInv, Asleep, NeverOversleeps
<1> QED BY <1>7, <1>8, <1>9, <1>10 DEF IInv

(* Every step keeps the invariant. *)
LEMMA SafeStep ==
  ASSUME WithinHalf, IInv, [Next]_vars
  PROVE  IInv'
<1>1. IType'
  BY TypeStep DEF IInv
<1>2. ASSUME NEW t \in Timers, Sets(t) PROVE IInv'
  <2>1. Timed' /\ InOrder(timers, Ahead)'
    BY <1>1, <1>2, SetsSafe
  <2>2. Asleep' /\ Begun' /\ NeverOversleeps'
    BY <1>2, QuietSafe DEF Sets
  <2> QED BY <1>1, <2>1, <2>2 DEF IInv
<1>3. ASSUME NEW t \in Timers, Unlists(t) PROVE IInv'
  <2>1. Timed' /\ InOrder(timers, Ahead)'
    BY <1>3, UnlistsSafe
  <2>2. Asleep' /\ Begun' /\ NeverOversleeps'
    BY <1>3, QuietSafe DEF Unlists
  <2> QED BY <1>1, <2>1, <2>2 DEF IInv
<1>4. ASSUME timers' = timers, UNCHANGED <<clock, expires, left, jumped>>
      PROVE  Timed' /\ InOrder(timers, Ahead)'
  BY <1>4 DEF IInv, Timed, InOrder, Ahead, Coming
<1>5. ASSUME Pops PROVE IInv'
  <2>1. Timed' /\ InOrder(timers, Ahead)'
    BY <1>4, <1>5 DEF Pops, Quiet, recs
  <2>2. Asleep' /\ Begun' /\ NeverOversleeps'
    BY <1>5, QuietSafe DEF Pops
  <2> QED BY <1>1, <2>1, <2>2 DEF IInv
<1>6. ASSUME CheckTimers PROVE IInv'
  <2>1. Timed' /\ InOrder(timers, Ahead)'
    BY <1>4, <1>6 DEF CheckTimers, recs
  <2>2. Asleep' /\ Begun' /\ NeverOversleeps'
    BY <1>6, CheckTimersSafe
  <2> QED BY <1>1, <2>1, <2>2 DEF IInv
<1>7. ASSUME Wake PROVE IInv'
  <2>1. Timed' /\ InOrder(timers, Ahead)'
    BY <1>4, <1>7 DEF Wake, recs
  <2>2. Asleep' /\ NeverOversleeps'
    BY <1>7 DEF Wake, Asleep, NeverOversleeps
  <2>3. Begun'
    BY <1>7 DEF Wake, Begun, IInv
  <2> QED BY <1>1, <2>1, <2>2, <2>3 DEF IInv
<1>8. ASSUME UNCHANGED vars PROVE IInv'
  <2>1. Timed' /\ InOrder(timers, Ahead)'
    BY <1>4, <1>8 DEF vars
  <2>2. Asleep' /\ NeverOversleeps' /\ Begun'
    BY <1>8 DEF vars, Asleep, NeverOversleeps, Begun, IInv, Pending
  <2> QED BY <1>1, <2>1, <2>2 DEF IInv
<1>9. ASSUME Tick PROVE IInv'
  BY <1>1, <1>9, TickSafe
<1>10. ASSUME NEW n \in Jumps, JumpBack(n) PROVE IInv'
  BY <1>1, <1>10, JumpBackSafe
<1>11. IType
  BY DEF IInv
<1> QED
  BY <1>2, <1>3, <1>5, <1>6, <1>7, <1>8, <1>9, <1>10, <1>11, Kinds

(* The invariant holds at the start. *)
LEMMA InitSafe ==
  ASSUME Init
  PROVE  IInv
<1>1. IType
  BY InitType
<1>2. On(timers) = {} /\ On(calls) = {} /\ Len(timers) = 0
  BY DEF Init, On
<1>3. InOrder(timers, Ahead)
  BY <1>2 DEF InOrder
<1>4. Timed /\ Begun
  BY <1>2 DEF Timed, Begun
<1> QED BY <1>1, <1>3, <1>4 DEF IInv, Asleep, NeverOversleeps, Init

(* The inductive invariant. *)
LEMMA SafeInvariant ==
  ASSUME WithinHalf
  PROVE  Spec => []IInv
<1>1. Init => IInv
  BY InitSafe
<1>2. IInv /\ [Next]_vars => IInv'
  BY SafeStep
<1> QED BY <1>1, <1>2, PTL DEF Spec

(* No timer is linked twice, and the server never sleeps past one, wherever   *)
(* the clock wraps and whatever callbacks do to the list: for any timers,     *)
(* delays and width of the clock, as long as it tells before from after.      *)
THEOREM NeverSleptPast ==
  ASSUME WithinHalf
  PROVE  Spec => []TimerListSound
<1>1. IInv => NeverOversleeps
  BY DEF IInv
<1> QED BY <1>1, SafeInvariant, TypeCorrect, PTL DEF TimerListSound

(* The loop over expired timers runs none that is not due, whatever the clock *)
(* showed when it began and wherever it has wrapped since.                    *)
THEOREM NoneEarly ==
  ASSUME WithinHalf
  PROVE  Spec => NeverEarly
<1> DEFINE A == \A t \in Timers :
                  jumped = 0 /\ calls # <<>> /\ Head(calls).what = "DoTimers"
                    /\ Len(calls') > Len(calls) /\ t = Head(calls').timer => left[t] <= 0
<1>1. ASSUME IInv, [Next]_vars, NEW t \in Timers, jumped = 0, calls # <<>>,
             Head(calls).what = "DoTimers", Len(calls') > Len(calls), t = Head(calls').timer
      PROVE  left[t] <= 0
  <2>1. /\ IType /\ calls \in Seq(CallRecords) /\ timers \in Seq(Timers)
        /\ Len(calls) \in Nat \ {0}
    BY <1>1, EmptySeq DEF IInv, IType
  <2>2. sleep = Awake
    BY <1>1 DEF IInv, Asleep
  <2>3. RunExpired
    <3>1. ~ InCode
      BY <1>1, <2>2 DEF InCode
    <3>2. ~ \E w \in Delays \cup {0} : Return(w)
      BY <3>1 DEF Return
    <3>3. ASSUME Others PROVE FALSE
      <4>1. \E n \in Jumps : JumpBack(n)
        BY <3>1, <3>3 DEF Others, TimerSet, TimerSetAbsolute, TimerForce, TimerCancel
      <4>2. calls' = calls
        BY <4>1 DEF JumpBack
      <4> QED BY <1>1, <2>1, <4>2
    <3>4. ~ CheckTimers
      BY <1>1 DEF CheckTimers
    <3>5. calls' = calls => FALSE
      BY <1>1, <2>1
    <3>6. ~ Wake /\ ~ Tick /\ ~ UNCHANGED vars
      BY <3>5 DEF Wake, Tick, vars
    <3>7. ~ RerunAffected
      BY <1>1 DEF RerunAffected
    <3> QED BY <1>1, <3>2, <3>3, <3>4, <3>6, <3>7 DEF Next, Loops
  <2>4. /\ timers # <<>> /\ AsInt(expires[Head(timers)] - Head(calls).now) <= 0
        /\ calls' = <<Callback(Head(timers))>> \o calls
    <3>1. calls' # Tail(calls)
      <4>1. Len(Tail(calls)) = Len(calls) - 1
        BY <1>1, <2>1, HeadTailProperties
      <4> QED BY <1>1, <2>1, <4>1
    <3> QED BY <2>3, <3>1 DEF RunExpired, DoTimer
  <2>5. /\ Head(timers) \in Timers /\ Head(timers) \in On(timers)
    BY <2>1, <2>4, ListedTimers DEF On
  <2>6. t = Head(timers)
    <3>1. Callback(Head(timers)) \in CallRecords
      BY <2>5, CallbackType
    <3> DEFINE x == Callback(Head(timers))
    <3>2. x.timer = Head(timers)
      BY DEF Callback, Call
    <3> HIDE DEF x
    <3>3. Head(<<x>> \o calls) = x
      BY <2>1, <3>1 DEF x
    <3>4. calls' = <<x>> \o calls
      BY <2>4 DEF x
    <3> QED BY <1>1, <3>2, <3>3, <3>4
  <2>7. PICK k \in 0..MaxLate : Head(calls).now = Wrap(clock - k)
    <3>1. Head(calls) \in On(calls)
      BY <1>1, <2>1, CallPopped
    <3> QED BY <1>1, <3>1 DEF IInv, Begun
  <2>8. /\ Ahead[t] \in Int /\ left[t] \in Int /\ expires[t] \in Int /\ clock \in Int
        /\ Ahead[t] = AsInt(expires[t] - clock)
    BY <2>1, AheadType
  <2>9. /\ left[t] <= Ahead[t] /\ Ahead[t] <= left[t] + 0 /\ -MaxLate - 0 <= left[t]
        /\ Ahead[t] + 0 + MaxLate < Half
    BY <1>1, <2>5, <2>6 DEF IInv, Timed, Coming
  <2>10. AsInt(expires[t] - Head(calls).now) = Ahead[t] + k
    <3> DEFINE x == expires[t] - clock
    <3>1. x \in Int /\ AsInt(x) = Ahead[t]
      BY <2>8
    <3>2. /\ Half \in Nat /\ 2 * Half <= Word /\ Word \in Nat /\ MaxLate \in Nat
          /\ MaxLate + 0 < Half
      BY Constants DEF WithinHalf
    <3>3. Half - Word <= Ahead[t] + k /\ Ahead[t] + k < Half
      <4> HIDE DEF Half
      <4> QED BY <2>8, <2>9, <3>2
    <3> HIDE DEF x
    <3>4. AsInt(x + k) = Ahead[t] + k
      BY <3>1, <3>3, AsIntMoves
    <3>5. Wrap(expires[t] - Wrap(clock - k)) = Wrap(expires[t] - (clock - k))
      <4>1. clock - k \in Int
        BY <2>8
      <4> QED BY <2>8, <4>1, WrapSum
    <3>6. expires[t] - (clock - k) = x + k
      BY <2>8 DEF x
    <3>7. Wrap(expires[t] - Head(calls).now) = Wrap(x + k)
      BY <2>7, <3>5, <3>6
    <3> QED BY <3>4, <3>7 DEF AsInt
  <2> QED BY <2>4, <2>6, <2>8, <2>9, <2>10
<1>2. IInv /\ [Next]_vars => A
  BY <1>1
<1>3. UNCHANGED vars => [A]_vars
  OBVIOUS
<1>4. IInv /\ [Next]_vars => [A]_vars
  BY <1>2
<1>5. Spec => [][A]_vars
  BY <1>4, SafeInvariant, PTL DEF Spec
<1> QED BY <1>5 DEF NeverEarly
=============================================================================
