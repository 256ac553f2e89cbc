---------------------- MODULE SyncSystemCounterProofs ----------------------
(****************************************************************************)
(* The brackets of SERVERTIME and IDLETIME, for any alarms, times and order *)
(* of events: they are the nearest test values, a transition alarm fires    *)
(* for a transition only, and the main wait ends when an alarm is due.      *)
(*                                                                          *)
(* The value that the server has of IDLETIME is older than the counter, and *)
(* after input it is larger than the counter, not smaller.  So what the     *)
(* invariant says of a trigger depends on whether a reset is to be noticed  *)
(* (Told), and whether anything is registered that would notice (Quiet).    *)
(****************************************************************************)
EXTENDS SyncSystemCounter, WellFoundedInduction, TLAPS

Transition == {"PosT", "NegT"}
Phases == {"start", "input", "requests", "asleep"}

(* The counter as handlers pass it on. *)
Counter ==
  [value : Times, on : SUBSET Triggers, active : SUBSET Triggers, less : MayBeTime,
   greater : MayBeTime, reset : BOOLEAN, crossed : SUBSET Triggers, fired : SUBSET Triggers]

(* Its sets are of triggers on the list, its brackets their test values. *)
Typed(s) ==
  /\ s \in Counter /\ s.active \subseteq s.on /\ s.crossed \subseteq s.on
  /\ s.less # None => \E c \in s.on : s.less = Test[c].at
  /\ s.greater # None => \E c \in s.on : s.greater = Test[c].at

(* Times and phases. *)
Placed ==
  /\ setup \in Setups /\ phase \in Phases
  /\ now \in Times /\ lastEvent \in 0..now
  /\ input \in MayBeTime
  /\ input # None => Kind = "IDLETIME" /\ lastEvent <= input /\ input <= now
  /\ deadline \in Nat \cup {None}
  /\ phase = "start" => input = None /\ lastEvent = 0

IType == Placed /\ Typed(Cur)

Living == setup \in Setups

----------------------------------------------------------------------------
(* The smallest of a set of times, and the largest. *)
LEMMA MinOf ==
  ASSUME NEW S, S \subseteq Nat, S # {}
  PROVE  Min(S) \in S /\ \A y \in S : Min(S) <= y
<1> DEFINE R == {p \in Nat \X Nat : p[1] < p[2]}
<1>1. IsWellFoundedOn(R, Nat)
  BY NatLessThanWellFounded, Zenon DEF OpToRel
<1>2. PICK x \in S : \A y \in S : <<y, x>> \notin R
  <2> HIDE DEF R
  <2> QED BY <1>1, WFMin
<1>3. \A y \in S : ~(y < x)
  BY <1>2
<1>4. \A y \in S : x <= y
  BY <1>3
<1> QED BY <1>4 DEF Min

LEMMA MaxOf ==
  ASSUME NEW S, S \subseteq Times, S # {}
  PROVE  Max(S) \in S /\ \A y \in S : y <= Max(S)
<1> DEFINE T == {MaxTime - x : x \in S}
<1>0. MaxTime \in Nat /\ \A x \in S : x \in 0..MaxTime
  BY SystemCounterAssumption DEF Times
<1>1. T \subseteq Nat /\ T # {}
  <2>1. \A x \in S : MaxTime - x \in Nat
    BY <1>0
  <2> QED BY <2>1
<1>2. Min(T) \in T /\ \A y \in T : Min(T) <= y
  BY <1>1, MinOf
<1>3. PICK x \in S : Min(T) = MaxTime - x
  BY <1>2
<1>4. \A y \in S : MaxTime - x <= MaxTime - y
  BY <1>2, <1>3
<1>5. \A y \in S : x >= y /\ y <= x
  BY <1>0, <1>4
<1> QED BY <1>5 DEF Max

(* What a setup gives. *)
LEMMA SetupType ==
  ASSUME Living
  PROVE  /\ Kind \in {"SERVERTIME", "IDLETIME"} /\ Dawdles \in BOOLEAN
         /\ \A c \in Triggers : Test[c].type \in Tests /\ Test[c].at \in Times
         /\ MaxTime \in Nat /\ Times \subseteq Nat /\ None \notin Nat
         /\ NeverDecreases <=> Kind = "SERVERTIME"
BY SystemCounterAssumption DEF Living, Kind, Dawdles, Test, Times, None, NeverDecreases

(* When a trigger's test is met. *)
LEMMA HoldsBy ==
  ASSUME Living, NEW c \in Triggers, NEW v \in Int, NEW old \in Int
  PROVE  Holds(c, v, old) <=> \/ Test[c].type = "PosC" /\ Test[c].at <= v
                              \/ Test[c].type = "NegC" /\ v <= Test[c].at
                              \/ Test[c].type = "PosT" /\ old < Test[c].at /\ Test[c].at <= v
                              \/ Test[c].type = "NegT" /\ Test[c].at < old /\ v <= Test[c].at
<1>1. Test[c].type \in Tests /\ Test[c].at \in Int
  BY SetupType DEF Times
<1> QED BY <1>1 DEF Holds, Tests

(* Going up passes no falling transition. *)
LEMMA RisingPasses ==
  ASSUME Living, NEW c \in Triggers, NEW v \in Int, NEW w, w = v + 1, Holds(c, w, v)
  PROVE  Test[c].type # "NegT"
<1>1. Test[c].at \in Int /\ w \in Int /\ v < w
  BY SetupType
<1> QED BY <1>1, HoldsBy

(* What the real counter is. *)
LEMMA RealType ==
  ASSUME Placed
  PROVE  /\ Real(now) \in Times /\ Living
         /\ Kind = "SERVERTIME" => Real(now) = now
         /\ Kind = "IDLETIME" => Real(now) = now - lastEvent
BY SetupType DEF Placed, Living, Real, Times

----------------------------------------------------------------------------
(* What a handler leaves alone. *)
Rest(s) == <<s.value, s.on, s.active, s.crossed, s.fired>>

(* The brackets are the nearest test values on both sides of the value.     *)
Above(c, v) ==
  \/ Test[c].type = "PosC" /\ v < Test[c].at
  \/ Test[c].type = "NegC" /\ ~NeverDecreases /\ v < Test[c].at
  \/ Test[c].type = "NegT" /\ v < Test[c].at
  \/ Test[c].type = "PosT" /\ ~NeverDecreases /\ v <= Test[c].at

Under(c, v) ==
  \/ Test[c].type = "PosC" /\ v > Test[c].at
  \/ Test[c].type = "NegC" /\ ~NeverDecreases /\ v > Test[c].at
  \/ Test[c].type = "NegT" /\ v >= Test[c].at
  \/ Test[c].type = "PosT" /\ ~NeverDecreases /\ v > Test[c].at

Over(s, c) == s.greater # None /\ s.greater <= Test[c].at
Beneath(s, c) == s.less # None /\ Test[c].at <= s.less

Bracketed(s) ==
  \A c \in s.on : /\ Above(c, s.value) => Over(s, c)
                  /\ Kind = "IDLETIME" /\ Under(c, s.value) => Beneath(s, c)

(* SyncComputeBracketValues keeps the rest. *)
LEMMA ComputeBracketsType ==
  ASSUME Living, NEW s \in Counter, s.active \subseteq s.on, s.crossed \subseteq s.on,
         NEW t, t = ComputeBrackets(s)
  PROVE  /\ Typed(t) /\ Rest(t) = Rest(s)
         /\ Bracketed(t)
         /\ t.reset => s.reset
         /\ s.reset /\ ~t.reset => Kind = "IDLETIME" /\ s.less = None /\ s.greater = None
<1> DEFINE above == {Test[c].at : c \in BracketsGreater(s)}
           below == {Test[c].at : c \in BracketsLess(s)}
           greater1 == IF above = {} THEN None ELSE Min(above)
           less1 == IF below = {} \/ Kind = "SERVERTIME" THEN None ELSE Max(below)
           reset1 == s.reset /\ ~(/\ Kind = "IDLETIME"
                                  /\ s.less = None /\ s.greater = None /\ above \cup below # {})
<1>1. t = [s EXCEPT !.greater = greater1, !.less = less1, !.reset = reset1]
  BY DEF ComputeBrackets
<1>2. BracketsGreater(s) \subseteq s.on /\ BracketsLess(s) \subseteq s.on /\ s.on \subseteq Triggers
  BY DEF BracketsGreater, BracketsLess, Counter
<1>3. above \subseteq Times /\ below \subseteq Times /\ Times \subseteq Nat
  BY <1>2, SetupType
<1> HIDE DEF above, below
<1>4. above # {} => Min(above) \in above /\ \A y \in above : Min(above) <= y
  BY <1>3, MinOf
<1>5. below # {} => Max(below) \in below /\ \A y \in below : y <= Max(below)
  BY <1>3, MaxOf
<1>6. greater1 \in MayBeTime /\ less1 \in MayBeTime /\ reset1 \in BOOLEAN
  BY <1>3, <1>4, <1>5 DEF MayBeTime, Counter
<1>7. greater1 # None => \E c \in s.on : greater1 = Test[c].at
  BY <1>2, <1>4 DEF above
<1>8. less1 # None => \E c \in s.on : less1 = Test[c].at
  BY <1>2, <1>5 DEF below
<1> HIDE DEF greater1, less1, reset1
<1>9. Typed(t) /\ Rest(t) = Rest(s) /\ t.greater = greater1 /\ t.less = less1 /\ t.reset = reset1
  BY <1>1, <1>6, <1>7, <1>8 DEF Typed, Counter, Rest
<1>10. None \notin Times
  BY SetupType
<1>11. \A c \in BracketsGreater(s) : greater1 # None /\ greater1 <= Test[c].at
  <2> SUFFICES ASSUME NEW c \in BracketsGreater(s) PROVE greater1 # None /\ greater1 <= Test[c].at
    OBVIOUS
  <2>1. Test[c].at \in above
    BY DEF above
  <2> QED BY <2>1, <1>3, <1>4, <1>10 DEF greater1
<1>12. Kind = "IDLETIME" => \A c \in BracketsLess(s) : less1 # None /\ Test[c].at <= less1
  <2> SUFFICES ASSUME Kind = "IDLETIME", NEW c \in BracketsLess(s)
               PROVE  less1 # None /\ Test[c].at <= less1
    OBVIOUS
  <2>1. Test[c].at \in below
    BY DEF below
  <2> QED BY <2>1, <1>3, <1>5, <1>10 DEF less1
<1>13. Bracketed(t)
  <2> SUFFICES ASSUME NEW c \in t.on
               PROVE  /\ Above(c, t.value) => Over(t, c)
                      /\ Kind = "IDLETIME" /\ Under(c, t.value) => Beneath(t, c)
    BY DEF Bracketed
  <2>1. c \in s.on /\ t.value = s.value
    BY <1>9 DEF Rest
  <2>2. /\ Above(c, t.value) => c \in BracketsGreater(s)
        /\ Under(c, t.value) => c \in BracketsLess(s)
    BY <2>1 DEF Above, Under, BracketsGreater, BracketsLess
  <2> QED BY <2>2, <1>9, <1>11, <1>12 DEF Over, Beneath
<1> QED BY <1>9, <1>13 DEF reset1

(* SyncAlarmTriggerFired *)
LEMMA FireType ==
  ASSUME Living, NEW s, Typed(s), NEW cs, cs \subseteq s.on, NEW t, t = Fire(s, cs)
  PROVE  /\ Typed(t) /\ t.value = s.value /\ t.on = s.on /\ t.less = s.less /\ t.greater = s.greater
         /\ t.reset = s.reset /\ t.crossed = s.crossed \ cs /\ t.fired = s.fired \cup (cs \cap s.active)
         /\ t.active = s.active \ {c \in cs : Test[c].type \notin Transition}
<1>1. s \in Counter /\ s.on \subseteq Triggers /\ s.active \subseteq s.on /\ s.crossed \subseteq s.on
  BY DEF Typed, Counter
<1>2. {c \in cs : Test[c].type \in {"PosC", "NegC"}} = {c \in cs : Test[c].type \notin Transition}
  BY <1>1, SetupType DEF Transition, Tests
<1>3. t = [s EXCEPT !.fired = s.fired \cup (cs \cap s.active),
                    !.active = s.active \ {c \in cs : Test[c].type \notin Transition},
                    !.crossed = s.crossed \ cs]
  BY <1>2 DEF Fire
<1>4. t \in Counter
  BY <1>1, <1>3 DEF Counter
<1>5. /\ t.value = s.value /\ t.on = s.on /\ t.less = s.less /\ t.greater = s.greater
      /\ t.reset = s.reset /\ t.crossed = s.crossed \ cs /\ t.fired = s.fired \cup (cs \cap s.active)
      /\ t.active = s.active \ {c \in cs : Test[c].type \notin Transition}
  BY <1>1, <1>3 DEF Counter
<1> QED BY <1>1, <1>4, <1>5 DEF Typed

(* The triggers that see the counter go from one value to another. *)
Hits(s, v) == {c \in s.on : Holds(c, v, s.value)}

(* A handler fires what the step of the value makes true, and no more. *)
Steps(s, t, v) ==
  /\ Typed(t) /\ t.value = v /\ t.on = s.on
  /\ t.crossed \subseteq s.crossed /\ s.crossed \ t.crossed \subseteq Hits(s, v)
  /\ t.fired \subseteq s.fired \cup (Hits(s, v) \cap s.active)
  /\ t.active \subseteq s.active /\ s.active \ t.active \subseteq Hits(s, v)
  /\ t.reset => s.reset

(* SyncChangeCounter *)
LEMMA ChangeCounterType ==
  ASSUME Living, NEW s, Typed(s), NEW v \in Times, NEW t, t = ChangeCounter(s, v)
  PROVE  /\ Steps(s, t, v) /\ Bracketed(t)
         /\ t.crossed = s.crossed \ Hits(s, v)
         /\ \A c \in t.active : c \in Hits(s, v) => Test[c].type \in Transition
<1> DEFINE a == [s EXCEPT !.value = v]
           u == Fire(a, Hits(s, v))
<1>1. a \in Counter /\ Typed(a) /\ a.value = v /\ a.on = s.on /\ a.active = s.active
      /\ a.crossed = s.crossed /\ a.fired = s.fired /\ a.reset = s.reset
  BY DEF Typed, Counter
<1>2. t = ComputeBrackets(u)
  BY DEF ChangeCounter, Hits
<1> HIDE DEF a
<1>3. Hits(s, v) \subseteq a.on
  BY <1>1 DEF Hits
<1> HIDE DEF u
<1>4. /\ Typed(u) /\ u.value = v /\ u.on = s.on /\ u.reset = s.reset
      /\ u.crossed = s.crossed \ Hits(s, v) /\ u.fired = s.fired \cup (Hits(s, v) \cap s.active)
      /\ u.active = s.active \ {c \in Hits(s, v) : Test[c].type \notin Transition}
  BY <1>1, <1>3, FireType DEF u
<1>5. /\ Typed(t) /\ Rest(t) = Rest(u) /\ Bracketed(t) /\ (t.reset => u.reset)
  BY <1>2, <1>4, ComputeBracketsType DEF Typed
<1> QED BY <1>4, <1>5 DEF Steps, Rest

(* IdleTimeCheckBrackets *)
LEMMA CheckBracketsType ==
  ASSUME Living, NEW s, Typed(s), NEW v \in Times, NEW t, t = CheckBrackets(s, v)
  PROVE  Steps(s, t, v)
<1>1. CASE t = ChangeCounter(s, v)
  BY <1>1, ChangeCounterType
<1>2. CASE t = [s EXCEPT !.value = v]
  BY <1>2 DEF Typed, Counter, Steps
<1> QED BY <1>1, <1>2 DEF CheckBrackets

(* IdleTimeWakeupHandler *)
LEMMA IdleTimeWakeupType ==
  ASSUME Placed, NEW s, Typed(s)
  PROVE  Typed(IdleTimeWakeup(s))
<1> DEFINE r == [s EXCEPT !.reset = FALSE]
<1>1. Living /\ Real(now) \in Times /\ 0 \in Times
  BY RealType, SystemCounterAssumption DEF Times
<1>2. Typed(r)
  BY DEF Typed, Counter
<1>3. Typed(CheckBrackets(r, 0))
  BY <1>1, <1>2, CheckBracketsType DEF Steps
<1>4. Typed(CheckBrackets(r, Real(now)))
  BY <1>1, <1>2, CheckBracketsType DEF Steps
<1>5. Typed(CheckBrackets(CheckBrackets(r, 0), Real(now)))
  BY <1>1, <1>3, CheckBracketsType DEF Steps
<1> QED BY <1>3, <1>4, <1>5 DEF IdleTimeWakeup

(* ServertimeWakeupHandler *)
LEMMA ServertimeWakeupType ==
  ASSUME Placed, NEW s, Typed(s)
  PROVE  Typed(ServertimeWakeup(s))
BY RealType, ChangeCounterType DEF ServertimeWakeup, Steps, Placed

(* SyncInitTrigger, SyncCreateAlarm: the alarm with its trigger on the list *)
(* and the value read.                                                      *)
Joined(s, c) == [s EXCEPT !.value = Real(now), !.on = @ \cup {c}, !.active = @ \cup {c}]

LEMMA JoinedType ==
  ASSUME Placed, NEW s, Typed(s), NEW c \in Triggers, NEW j, j = Joined(s, c)
  PROVE  /\ Typed(j) /\ j.value = Real(now) /\ j.on = s.on \cup {c} /\ j.active = s.active \cup {c}
         /\ j.crossed = s.crossed /\ j.reset = s.reset /\ j.less = s.less /\ j.greater = s.greater
         /\ j.fired = s.fired
BY RealType DEF Joined, Typed, Counter

LEMMA CreateAlarmType ==
  ASSUME Placed, NEW s, Typed(s), NEW c \in Triggers
  PROVE  Typed(CreateAlarm(s, c))
<1>1. Typed(Joined(s, c)) /\ c \in Joined(s, c).on /\ Living
  BY JoinedType, RealType
<1>2. Typed(ComputeBrackets(Joined(s, c))) /\ c \in ComputeBrackets(Joined(s, c)).on
  BY <1>1, ComputeBracketsType DEF Typed, Rest
<1>3. Typed(Fire(ComputeBrackets(Joined(s, c)), {c}))
  BY <1>1, <1>2, FireType
<1> QED BY <1>2, <1>3 DEF CreateAlarm, Joined

(* SyncDeleteTriggerFromSyncObject *)
Left(s, c) == [s EXCEPT !.on = @ \ {c}, !.active = @ \ {c}, !.crossed = @ \ {c}]

LEMMA DeleteTriggerType ==
  ASSUME Placed, NEW s, Typed(s), NEW c \in Triggers
  PROVE  /\ Left(s, c) \in Counter /\ Left(s, c).active = s.active \ {c} /\ Left(s, c).on = s.on \ {c}
         /\ Left(s, c).crossed = s.crossed \ {c} /\ Left(s, c).value = s.value /\ Left(s, c).reset = s.reset
         /\ Left(s, c).less = s.less /\ Left(s, c).greater = s.greater
         /\ Left(s, c).active \subseteq Left(s, c).on /\ Left(s, c).crossed \subseteq Left(s, c).on
         /\ Typed(DeleteTrigger(s, c))
<1>1. /\ Left(s, c) \in Counter /\ Left(s, c).active = s.active \ {c} /\ Left(s, c).on = s.on \ {c}
      /\ Left(s, c).crossed = s.crossed \ {c} /\ Left(s, c).value = s.value /\ Left(s, c).reset = s.reset
      /\ Left(s, c).less = s.less /\ Left(s, c).greater = s.greater
      /\ Left(s, c).active \subseteq Left(s, c).on /\ Left(s, c).crossed \subseteq Left(s, c).on
  BY DEF Left, Typed, Counter
<1>2. DeleteTrigger(s, c) = ComputeBrackets(Left(s, c))
  BY DEF DeleteTrigger, Left
<1>3. Typed(ComputeBrackets(Left(s, c)))
  BY <1>1, RealType, ComputeBracketsType
<1> QED BY <1>1, <1>2, <1>3

----------------------------------------------------------------------------
(* The counter after a step. *)
LEMMA CurAfter ==
  ASSUME NEW t \in Counter, Become(t)
  PROVE  /\ Cur' = [t EXCEPT !.fired = {}] /\ fired' = t.fired
         /\ value' = t.value /\ on' = t.on /\ active' = t.active /\ less' = t.less
         /\ greater' = t.greater /\ reset' = t.reset /\ crossed' = t.crossed
<1>1. /\ fired' = t.fired /\ value' = t.value /\ on' = t.on /\ active' = t.active
      /\ less' = t.less /\ greater' = t.greater /\ reset' = t.reset /\ crossed' = t.crossed
  BY DEF Become
<1>2. t = [value |-> t.value, on |-> t.on, active |-> t.active, less |-> t.less,
           greater |-> t.greater, reset |-> t.reset, crossed |-> t.crossed, fired |-> t.fired]
  BY DEF Counter
<1> QED BY <1>1, <1>2 DEF Cur

(* What the actions make of the counter. *)
Woken == IF Kind = "SERVERTIME" THEN ServertimeWakeup(Cur) ELSE IdleTimeWakeup(Cur)
Noticed ==
  [Cur EXCEPT !.reset = TRUE,
              !.crossed = {c \in @ : Test[c].type = "NegT"}
                            \cup Transitions(0, Real(now))
                            \cup Transitions(now - input, 0)]
Queried == [Cur EXCEPT !.value = Real(now)]
Aged == [Cur EXCEPT !.crossed = @ \cup Transitions(Real(now + 1), Real(now))]

LEMMA Outcomes ==
  /\ Wakeup => Become(Woken)
  /\ ProcessInput => Become(IF input = None THEN Cur ELSE Noticed)
  /\ Query => Become(Queried)
  /\ Tick => Become(Aged)
BY DEF Wakeup, Woken, ProcessInput, Noticed, Query, Queried, Tick, Aged

LEMMA CurType ==
  ASSUME IType
  PROVE  Placed /\ Typed(Cur) /\ Cur \in Counter /\ Living
BY DEF IType, Typed, Placed, Living

(* Types carry over to the next state. *)
LEMMA TypedAfter ==
  ASSUME NEW t, Typed(t), Become(t), setup' = setup
  PROVE  Typed(Cur)'
<1>1. Cur' = [t EXCEPT !.fired = {}] /\ t \in Counter
  BY CurAfter DEF Typed
<1>2. Cur' \in Counter
  BY <1>1 DEF Counter
<1>3. /\ Cur'.on = t.on /\ Cur'.active = t.active /\ Cur'.crossed = t.crossed
      /\ Cur'.less = t.less /\ Cur'.greater = t.greater
  BY <1>1 DEF Counter
<1>4. Test' = Test
  BY DEF Test
<1>5. Typed(t)
  OBVIOUS
<1> HIDE DEF Cur
<1> QED BY <1>2, <1>3, <1>4, <1>5 DEF Typed

(* Delays are times. *)
LEMMA DelaysType ==
  ASSUME IType
  PROVE  Delays \subseteq Nat /\ (Delays # {} => Min(Delays) \in Nat)
<1>1. Placed /\ now \in Nat /\ Real(now) \in Nat /\ greater \in MayBeTime /\ less \in MayBeTime
      /\ Times \subseteq Nat
  BY CurType, RealType, SetupType DEF Placed, Typed, Cur, Counter
<1>2. ServertimeDelays \subseteq Nat
  BY <1>1 DEF ServertimeDelays, MayBeTime
<1>3. IdleTimeDelays \subseteq Nat
  <2> DEFINE hits == {c \in on : Holds(c, Real(now), value)}
             dawdle == less # None /\ Real(now) > less /\ reset
             under == less # None /\ Real(now) <= less
  <2>1. ((IF hits = {} THEN {} ELSE {0}) \cup (IF Real(now) = less THEN {1} ELSE {})) \subseteq Nat
    OBVIOUS
  <2>2. greater # None => (IF Real(now) < greater THEN {greater - Real(now)}
                           ELSE IF hits = {} THEN {} ELSE {0}) \subseteq Nat
    BY <1>1 DEF MayBeTime
  <2>3. {0} \subseteq Nat /\ {} \subseteq Nat
    OBVIOUS
  <2> HIDE DEF hits
  <2>4. CASE dawdle
    BY <2>4, <1>1, <2>3 DEF IdleTimeDelays, hits
  <2>5. CASE under
    BY <2>5, <1>1, <2>1 DEF IdleTimeDelays, hits
  <2>6. CASE ~dawdle /\ ~under
    BY <2>6, <2>2, <2>3 DEF IdleTimeDelays, hits
  <2> QED BY <2>4, <2>5, <2>6
<1>4. Delays \subseteq Nat
  BY <1>2, <1>3 DEF Delays
<1> HIDE DEF Delays
<1> QED BY <1>4, MinOf

LEMMA TypeInit == Init => IType
<1> SUFFICES ASSUME Init PROVE IType
  OBVIOUS
<1>1. Times \subseteq Nat /\ 0 \in Times
  BY SystemCounterAssumption DEF Times
<1>2. Placed
  BY <1>1 DEF Init, Placed, Phases, MayBeTime
<1>3. Typed(Cur)
  BY <1>1 DEF Init, Cur, Typed, Counter, MayBeTime
<1> QED BY <1>2, <1>3 DEF IType

LEMMA TypeNext == IType /\ [Next]_vars => IType'
<1> SUFFICES ASSUME IType, [Next]_vars PROVE IType'
  OBVIOUS
<1>0. Placed /\ Typed(Cur) /\ Cur \in Counter /\ Living /\ Real(now) \in Times /\ MaxTime \in Nat
      /\ setup' = setup
  BY CurType, RealType, SystemCounterAssumption DEF Next, vars
<1>1. CASE Block
  <2>1. Typed(Cur)'
    BY <1>0, <1>1, TypedAfter DEF Block
  <2>2. deadline' \in Nat \cup {None}
    BY <1>0, <1>1, DelaysType DEF Block, Placed, Times
  <2> QED BY <1>0, <1>1, <2>1, <2>2 DEF Block, Placed, Phases, IType, Kind
<1>2. CASE Wakeup
  <2>1. Typed(Woken)
    BY <1>0, ServertimeWakeupType, IdleTimeWakeupType DEF Woken
  <2>2. Typed(Cur)'
    BY <1>0, <1>2, <2>1, Outcomes, TypedAfter
  <2> QED BY <1>0, <1>2, <2>2 DEF Wakeup, Placed, Phases, IType, Kind
<1>3. CASE Arrive
  <2>1. Typed(Cur)'
    BY <1>0, <1>3, TypedAfter DEF Arrive
  <2> QED BY <1>0, <1>3, <2>1 DEF Arrive, Placed, Times, MayBeTime, IType, Kind
<1>4. CASE ProcessInput
  <2>1. CASE input = None
    <3>1. Typed(Cur)'
      BY <1>0, <1>4, <2>1, TypedAfter DEF ProcessInput
    <3> QED BY <1>0, <1>4, <2>1, <3>1 DEF ProcessInput, Placed, Phases, MayBeTime, IType, Kind
  <2>2. CASE input # None
    <3>1. Typed(Noticed)
      BY <1>0 DEF Typed, Counter, Transitions, Cur, Noticed
    <3>2. Typed(Cur)'
      BY <1>0, <1>4, <2>2, <3>1, Outcomes, TypedAfter
    <3> QED BY <1>0, <1>4, <2>2, <3>2 DEF ProcessInput, Placed, Phases, MayBeTime, Times, IType, Kind
  <2> QED BY <2>1, <2>2
<1>5. CASE Query
  <2>1. Typed(Queried)
    BY <1>0 DEF Typed, Counter, Queried
  <2>2. Typed(Cur)'
    BY <1>0, <1>5, <2>1, Outcomes, TypedAfter
  <2> QED BY <1>0, <1>5, <2>2 DEF Query, Placed, IType, Kind
<1>6. CASE Started
  <2>1. Typed(Cur)'
    BY <1>0, <1>6, TypedAfter DEF Started
  <2> QED BY <1>0, <1>6, <2>1 DEF Started, Placed, Phases, IType, Kind
<1>7. CASE Tick
  <2>1. Typed(Aged)
    BY <1>0 DEF Typed, Counter, Transitions, Cur, Aged
  <2>2. Typed(Cur)'
    BY <1>0, <1>7, <2>1, Outcomes, TypedAfter
  <2>3. /\ now' = now + 1 /\ now < MaxTime /\ Kind' = Kind
        /\ UNCHANGED <<setup, lastEvent, input, phase, deadline>>
    BY <1>0, <1>7 DEF Tick, Kind
  <2>4. now' \in Times /\ lastEvent \in 0..now'
    BY <1>0, <2>3 DEF Placed, Times
  <2>5. input # None => input <= now'
    BY <1>0, <2>3, SetupType DEF Placed, Times, MayBeTime
  <2>6. Placed'
    BY <1>0, <2>3, <2>4, <2>5 DEF Placed, Kind
  <2> QED BY <2>2, <2>6 DEF IType
<1>8. ASSUME NEW c \in Triggers, Create(c) PROVE IType'
  <2>1. Typed(Cur)'
    BY <1>0, <1>8, CreateAlarmType, TypedAfter DEF Create
  <2> QED BY <1>0, <1>8, <2>1 DEF Create, Placed, IType, Kind
<1>9. ASSUME NEW c \in Triggers, Destroy(c) PROVE IType'
  <2>1. Typed(Cur)'
    BY <1>0, <1>9, DeleteTriggerType, TypedAfter DEF Destroy
  <2> QED BY <1>0, <1>9, <2>1 DEF Destroy, Placed, IType, Kind
<1>10. CASE UNCHANGED vars
  BY <1>0, <1>10 DEF vars, IType, Placed, Typed, Cur, Kind, Test
<1> QED BY <1>1, <1>2, <1>3, <1>4, <1>5, <1>6, <1>7, <1>8, <1>9, <1>10 DEF Next

LEMMA TypeInvariant == Spec => []IType
BY TypeInit, TypeNext, PTL DEF Spec

(* Times are in range, and brackets are test values of triggers that live,  *)
(* for any alarms and clients (SyncComputeBracketValues).                   *)
THEOREM TypeCorrect == Spec => []TypeOK
<1>1. IType => TypeOK
  <2> SUFFICES ASSUME IType PROVE TypeOK
    OBVIOUS
  <2>1. Placed /\ Typed(Cur)
    BY CurType
  <2>2. lastEvent \in Times
    BY <2>1, SystemCounterAssumption DEF Placed, Times
  <2>3. {less, greater} \subseteq {None} \cup {Test[c].at : c \in on}
    BY <2>1 DEF Typed, Cur
  <2> QED BY <2>1, <2>2, <2>3 DEF Placed, Typed, Cur, Counter, TypeOK
<1> QED BY <1>1, TypeInvariant, PTL

----------------------------------------------------------------------------
(* IDLETIME.                                                                *)

(* Nothing on the list can fire. *)
Quiet(s) == s.active = {} /\ \A c \in s.on : Test[c].type \notin Transition

(* An active comparison is not met by the value, and a bracket guards it.   *)
Armed(s) ==
  \A c \in s.active :
    /\ Test[c].type = "PosC" => s.value < Test[c].at /\ Over(s, c)
    /\ Test[c].type = "NegC" => Test[c].at < s.value /\ Beneath(s, c)

(* A bracket guards a falling transition on the side of the value.          *)
Marked(s) ==
  \A c \in s.on : Test[c].type = "NegT" =>
    /\ Test[c].at <= s.value => Beneath(s, c)
    /\ s.value < Test[c].at => Over(s, c)

(* Without brackets, and so without handlers, nothing can fire.             *)
Missing(s) == s.less = None /\ s.greater = None => Quiet(s)

Kept(s) == Armed(s) /\ Marked(s) /\ Missing(s)

(* The numbers of a counter. *)
LEMMA CounterNumbers ==
  ASSUME Living, NEW s, Typed(s)
  PROVE  /\ s.value \in Nat /\ s.less \in Int /\ s.greater \in Int
         /\ s.less # None => s.less \in Nat
         /\ s.on \subseteq Triggers /\ s.active \subseteq s.on /\ s.crossed \subseteq s.on
         /\ \A c \in s.on : Test[c].type \in Tests /\ Test[c].at \in Nat
BY SetupType DEF Typed, Counter, MayBeTime, None

(* New brackets guard what is not met. *)
LEMMA BracketsKept ==
  ASSUME Living, Kind = "IDLETIME", NEW s, Typed(s), Bracketed(s),
         \A c \in s.active : Test[c].type \notin Transition => ~Holds(c, s.value, s.value)
  PROVE  Kept(s)
<1>0. /\ s.value \in Nat /\ s.on \subseteq Triggers /\ s.active \subseteq s.on
      /\ \A c \in s.on : Test[c].type \in Tests /\ Test[c].at \in Nat
  BY CounterNumbers
<1>1. ASSUME NEW c \in s.on
      PROVE
        /\ Test[c].type \in {"PosC", "NegC", "NegT"} /\ s.value < Test[c].at => Over(s, c)
        /\ Test[c].type = "PosT" /\ s.value <= Test[c].at => Over(s, c)
        /\ Test[c].type \in {"PosC", "NegC", "PosT"} /\ s.value > Test[c].at => Beneath(s, c)
        /\ Test[c].type = "NegT" /\ s.value >= Test[c].at => Beneath(s, c)
  <2>1. /\ Above(c, s.value) => Over(s, c)
        /\ Under(c, s.value) => Beneath(s, c)
    BY DEF Bracketed
  <2> QED BY <2>1 DEF Above, Under, NeverDecreases
<1>2. \A c \in s.active : /\ Test[c].type = "PosC" => s.value < Test[c].at
                          /\ Test[c].type = "NegC" => Test[c].at < s.value
  <2> SUFFICES ASSUME NEW c \in s.active
               PROVE  /\ Test[c].type = "PosC" => s.value < Test[c].at
                      /\ Test[c].type = "NegC" => Test[c].at < s.value
    OBVIOUS
  <2>1. c \in Triggers /\ Test[c].at \in Nat
    BY <1>0
  <2>2. Test[c].type \notin Transition => ~Holds(c, s.value, s.value)
    OBVIOUS
  <2> QED BY <1>0, <2>1, <2>2, HoldsBy DEF Transition
<1>4. Armed(s)
  <2> SUFFICES ASSUME NEW c \in s.active
               PROVE  /\ Test[c].type = "PosC" => s.value < Test[c].at /\ Over(s, c)
                      /\ Test[c].type = "NegC" => Test[c].at < s.value /\ Beneath(s, c)
    BY DEF Armed
  <2>1. c \in s.on /\ Test[c].at \in Nat
    BY <1>0
  <2> QED BY <1>0, <1>1, <1>2, <2>1
<1>5. Marked(s)
  BY <1>0, <1>1 DEF Marked
<1>6. Missing(s)
  <2> SUFFICES ASSUME s.less = None, s.greater = None PROVE Quiet(s)
    BY DEF Missing
  <2>1. \A c \in s.on : ~Over(s, c) /\ ~Beneath(s, c)
    BY DEF Over, Beneath
  <2>2. \A c \in s.on : Test[c].type \notin Transition /\ s.value = Test[c].at
    BY <1>0, <1>1, <2>1 DEF Transition, Tests
  <2>3. \A c \in s.active : Test[c].type \in {"PosC", "NegC"}
    BY <1>0, <2>2 DEF Transition, Tests
  <2>4. ASSUME NEW c \in s.active PROVE FALSE
    <3>1. s.value = Test[c].at /\ Test[c].type \in {"PosC", "NegC"}
      BY <1>0, <2>2, <2>3
    <3> QED BY <1>0, <1>2, <3>1
  <2> QED BY <2>2, <2>4 DEF Quiet
<1> QED BY <1>4, <1>5, <1>6 DEF Kept

LEMMA ChangeCounterKept ==
  ASSUME Living, Kind = "IDLETIME", NEW s, Typed(s), NEW v \in Times
  PROVE  Kept(ChangeCounter(s, v))
<1> DEFINE t == ChangeCounter(s, v)
<1>1. /\ Steps(s, t, v) /\ Bracketed(t)
      /\ \A c \in t.active : c \in Hits(s, v) => Test[c].type \in Transition
  BY ChangeCounterType
<1> HIDE DEF t
<1>2. Typed(t) /\ t.value = v /\ t.active \subseteq s.active /\ v \in Nat /\ s.value \in Nat
      /\ s.active \subseteq s.on /\ s.on \subseteq Triggers
  BY <1>1, CounterNumbers, SetupType DEF Steps
<1>3. \A c \in t.active : Test[c].type \notin Transition => ~Holds(c, v, s.value)
  BY <1>1, <1>2 DEF Hits
<1>4. \A c \in t.active : Test[c].type \notin Transition => ~Holds(c, t.value, t.value)
  <2> SUFFICES ASSUME NEW c \in t.active, Test[c].type \notin Transition
               PROVE  ~Holds(c, v, v)
    BY <1>2
  <2>1. c \in Triggers /\ ~Holds(c, v, s.value)
    BY <1>2, <1>3
  <2> QED BY <1>2, <2>1, HoldsBy DEF Transition
<1>5. Kept(t)
  BY <1>1, <1>2, <1>4, BracketsKept
<1> QED BY <1>5 DEF t

(* The value is moved up, or to zero, past no bracket; and no falling       *)
(* transition is passed over (IdleTimeCheckBrackets).                       *)
LEMMA CheckBracketsKept ==
  ASSUME Living, Kind = "IDLETIME", NEW s, Typed(s), Kept(s), NEW v \in Times,
         Quiet(s) \/ s.value <= v \/ v = 0,
         NEW t, t = CheckBrackets(s, v)
  PROVE  /\ Kept(t) /\ Steps(s, t, v) /\ (Quiet(s) => Quiet(t))
         /\ \A c \in Hits(s, v) : Test[c].type = "NegT" => c \notin t.crossed
<1>0. /\ s.value \in Nat /\ s.less \in Int /\ s.greater \in Int /\ v \in Nat
      /\ s.on \subseteq Triggers /\ s.active \subseteq s.on
      /\ \A c \in s.on : Test[c].type \in Tests /\ Test[c].at \in Nat
  BY CounterNumbers, SetupType
<1>1. Steps(s, t, v)
  BY CheckBracketsType
<1>2. Quiet(s) => Quiet(t)
  BY <1>1 DEF Steps, Quiet
<1>3. CASE \/ s.greater # None /\ v >= s.greater
           \/ s.less # None /\ v <= s.less
  <2>1. t = ChangeCounter(s, v)
    BY <1>3 DEF CheckBrackets
  <2>2. t.crossed = s.crossed \ Hits(s, v)
    BY <2>1, ChangeCounterType
  <2> QED BY <1>1, <1>2, <2>1, <2>2, ChangeCounterKept
<1>4. CASE ~(\/ s.greater # None /\ v >= s.greater
             \/ s.less # None /\ v <= s.less)
  <2>1. t = [s EXCEPT !.value = v]
    BY <1>4 DEF CheckBrackets
  <2>2. /\ t.value = v /\ t.on = s.on /\ t.active = s.active /\ t.crossed = s.crossed
        /\ t.less = s.less /\ t.greater = s.greater
    BY <2>1 DEF Typed, Counter
  <2>3. Armed(t)
    <3> SUFFICES ASSUME NEW c \in s.active
                 PROVE  /\ Test[c].type = "PosC" => v < Test[c].at /\ Over(t, c)
                        /\ Test[c].type = "NegC" => Test[c].at < v /\ Beneath(t, c)
      BY <2>2 DEF Armed
    <3>1. Test[c].at \in Nat
      BY <1>0
    <3> QED BY <1>0, <1>4, <2>2, <3>1 DEF Kept, Armed, Over, Beneath
  <2>4. \A c \in s.on : Test[c].type = "NegT" /\ Test[c].at <= s.value => Test[c].at < v
    BY <1>0, <1>4 DEF Kept, Marked, Beneath
  <2>5. \A c \in s.on : Test[c].type = "NegT" /\ s.value < Test[c].at => v < Test[c].at
    BY <1>0, <1>4 DEF Kept, Marked, Over
  <2>6. Marked(t)
    <3> SUFFICES ASSUME NEW c \in s.on, Test[c].type = "NegT"
                 PROVE  /\ Test[c].at <= v => Beneath(t, c)
                        /\ v < Test[c].at => Over(t, c)
      BY <2>2 DEF Marked
    <3>1. Test[c].at \in Nat
      BY <1>0
    <3> QED BY <1>0, <2>2, <2>4, <2>5, <3>1 DEF Kept, Marked, Over, Beneath
  <2>7. Missing(t)
    BY <2>2 DEF Kept, Missing, Quiet
  <2>8. \A c \in Hits(s, v) : Test[c].type # "NegT"
    <3> SUFFICES ASSUME NEW c \in s.on, Holds(c, v, s.value), Test[c].type = "NegT" PROVE FALSE
      BY DEF Hits
    <3>1. Test[c].at < s.value /\ v <= Test[c].at /\ Test[c].at \in Nat
      BY <1>0, HoldsBy
    <3> QED BY <1>0, <2>4, <3>1
  <2> QED BY <1>1, <1>2, <2>3, <2>6, <2>7, <2>8 DEF Kept
<1> QED BY <1>3, <1>4

(* The wakeup handler adds no transition. *)
LEMMA IdleTimeWakeupLess ==
  ASSUME Placed, NEW s, Typed(s)
  PROVE  IdleTimeWakeup(s).crossed \subseteq s.crossed
<1> DEFINE a == [s EXCEPT !.reset = FALSE]
           z == CheckBrackets(a, 0)
<1>1. Living /\ Real(now) \in Times /\ 0 \in Times
  BY RealType, SystemCounterAssumption DEF Times
<1>2. Typed(a) /\ a.crossed = s.crossed
  BY DEF Typed, Counter
<1> HIDE DEF a
<1>3. Typed(z) /\ z.crossed \subseteq a.crossed
  BY <1>1, <1>2, CheckBracketsType DEF Steps
<1> HIDE DEF z
<1>4. CheckBrackets(z, Real(now)).crossed \subseteq z.crossed
  BY <1>1, <1>3, CheckBracketsType DEF Steps
<1>5. CheckBrackets(a, Real(now)).crossed \subseteq a.crossed
  BY <1>1, <1>2, CheckBracketsType DEF Steps
<1> QED BY <1>2, <1>3, <1>4, <1>5 DEF IdleTimeWakeup, a, z

(* What the transitions not notified yet have to do with the value: before  *)
(* a reset is noticed, the counter went to zero and up to r; else it went   *)
(* up from the value.                                                       *)
Told(s, r) ==
  /\ ~s.reset => s.value <= r
  /\ \A c \in s.on :
       /\ Test[c].type = "PosT" /\ (IF s.reset THEN 0 ELSE s.value) < Test[c].at /\ Test[c].at <= r
            => c \in s.crossed
       /\ Test[c].type = "NegT" /\ s.reset /\ Test[c].at < s.value => c \in s.crossed

(* A value just read passes nothing. *)
LEMMA ReadIsTold ==
  ASSUME Living, NEW s, Typed(s), ~s.reset
  PROVE  Told(s, s.value)
BY CounterNumbers DEF Told

(* IdleTimeWakeupHandler *)
LEMMA IdleTimeWakeupTold ==
  ASSUME Placed, Kind = "IDLETIME", NEW s, Typed(s), Kept(s), s.fired = {},
         Quiet(s) \/ Told(s, Real(now)),
         NEW t, t = IdleTimeWakeup(s)
  PROVE  /\ Kept(t) /\ (Quiet(t) \/ (Told(t, Real(now)) /\ t.value = Real(now)))
         /\ \A c \in t.fired : Test[c].type \in Transition => c \in s.crossed
         /\ \A c \in t.crossed : Test[c].type = "NegT" => c \in s.crossed /\ ~(s.reset /\ Test[c].at < s.value)
<1> DEFINE idle == Real(now)
           a == [s EXCEPT !.reset = FALSE]
           z == CheckBrackets(a, 0)
           y == CheckBrackets(z, idle)
           x == CheckBrackets(a, idle)
<1>0. /\ Living /\ idle \in Times /\ idle \in Nat /\ 0 \in Times
      /\ s.value \in Nat /\ s.on \subseteq Triggers /\ s.active \subseteq s.on /\ s.crossed \subseteq s.on
      /\ \A c \in s.on : Test[c].type \in Tests /\ Test[c].at \in Nat
  BY RealType, SetupType, CounterNumbers, SystemCounterAssumption DEF Times
<1>1. /\ Typed(a) /\ ~a.reset /\ a.value = s.value /\ a.on = s.on /\ a.active = s.active
      /\ a.crossed = s.crossed /\ a.less = s.less /\ a.greater = s.greater /\ a.fired = {}
  BY DEF Typed, Counter
<1>2. Kept(a) /\ (Quiet(s) <=> Quiet(a))
  BY <1>1 DEF Kept, Armed, Marked, Missing, Quiet, Over, Beneath
<1>3. t = IF s.less = None /\ s.greater = None THEN s
          ELSE IF s.reset /\ idle # 0 THEN y ELSE x
  BY DEF IdleTimeWakeup
<1> HIDE DEF a, idle
<1>4. \A v \in Times : Hits(a, v) = Hits(s, v)
  BY <1>1 DEF Hits
<1>5. CASE s.less = None /\ s.greater = None
  <2>1. t = s /\ Quiet(s)
    BY <1>3, <1>5 DEF Kept, Missing
  <2> QED BY <1>0, <2>1 DEF Quiet, Transition
<1>6. CASE ~(s.less = None /\ s.greater = None) /\ s.reset /\ idle # 0
  <2>1. /\ Kept(z) /\ Steps(a, z, 0) /\ (Quiet(a) => Quiet(z))
        /\ \A c \in Hits(a, 0) : Test[c].type = "NegT" => c \notin z.crossed
    BY <1>0, <1>1, <1>2, CheckBracketsKept
  <2> HIDE DEF z
  <2>2. Typed(z) /\ z.value = 0 /\ 0 <= idle
    BY <1>0, <2>1 DEF Steps
  <2>3. /\ Kept(y) /\ Steps(z, y, idle) /\ (Quiet(z) => Quiet(y))
    BY <1>0, <2>1, <2>2, CheckBracketsKept
  <2>4. t = y
    BY <1>3, <1>6
  <2> HIDE DEF y
  <2>5. Typed(t) /\ t.value = idle /\ ~t.reset /\ t.on = s.on /\ t.crossed \subseteq z.crossed
        /\ t.fired \subseteq Hits(a, 0) \cup Hits(z, idle) /\ z.crossed \subseteq s.crossed
        /\ t.fired \subseteq s.active /\ z.on = s.on
    BY <1>1, <2>1, <2>3, <2>4 DEF Steps
  <2>6. Told(t, idle)
    BY <1>0, <2>5, ReadIsTold
  <2>7. ASSUME NEW c \in t.fired, Test[c].type \in Transition PROVE c \in s.crossed
    <3>1. c \in s.on /\ c \in Triggers /\ Told(s, idle)
      BY <1>0, <2>5, <2>7 DEF Quiet, idle
    <3>2. CASE c \in Hits(a, 0)
      <4>1. Holds(c, 0, s.value)
        BY <1>1, <3>2 DEF Hits
      <4>2. Test[c].type = "NegT" /\ Test[c].at < s.value
        BY <1>0, <2>7, <3>1, <4>1, HoldsBy DEF Transition
      <4> QED BY <1>6, <3>1, <4>2 DEF Told
    <3>3. CASE c \in Hits(z, idle)
      <4>1. Holds(c, idle, 0)
        BY <2>2, <3>3 DEF Hits
      <4>2. Test[c].type = "PosT" /\ 0 < Test[c].at /\ Test[c].at <= idle
        BY <1>0, <2>7, <3>1, <4>1, HoldsBy DEF Transition
      <4> QED BY <1>6, <3>1, <4>2 DEF Told
    <3> QED BY <2>5, <3>2, <3>3
  <2>8. ASSUME NEW c \in t.crossed, Test[c].type = "NegT"
        PROVE  c \in s.crossed /\ ~(s.reset /\ Test[c].at < s.value)
    <3>1. c \in s.crossed /\ c \in s.on /\ c \in Triggers /\ Test[c].at \in Nat
      BY <1>0, <2>5
    <3>2. c \notin Hits(a, 0)
      BY <2>1, <2>5, <2>8
    <3>3. ~Holds(c, 0, s.value)
      BY <1>1, <3>1, <3>2 DEF Hits
    <3> QED BY <1>0, <2>8, <3>1, <3>3, HoldsBy
  <2> QED BY <2>3, <2>4, <2>5, <2>6, <2>7, <2>8 DEF idle
<1>7. CASE ~(s.less = None /\ s.greater = None) /\ ~(s.reset /\ idle # 0)
  <2>1. Quiet(a) \/ a.value <= idle \/ idle = 0
    BY <1>1, <1>2, <1>7 DEF Told, idle
  <2>2. /\ Kept(x) /\ Steps(a, x, idle) /\ (Quiet(a) => Quiet(x))
        /\ \A c \in Hits(a, idle) : Test[c].type = "NegT" => c \notin x.crossed
    BY <1>0, <1>1, <1>2, <2>1, CheckBracketsKept
  <2>3. t = x
    BY <1>3, <1>7
  <2> HIDE DEF x
  <2>4. Typed(t) /\ t.value = idle /\ ~t.reset /\ t.on = s.on /\ t.crossed \subseteq s.crossed
        /\ t.fired \subseteq Hits(a, idle) /\ t.fired \subseteq s.active
    BY <1>1, <2>2, <2>3 DEF Steps
  <2>5. Told(t, idle)
    BY <1>0, <2>4, ReadIsTold
  <2>6. ASSUME NEW c \in t.fired, Test[c].type \in Transition PROVE c \in s.crossed
    <3>1. c \in s.on /\ c \in Triggers /\ Told(s, idle) /\ Test[c].at \in Nat
      BY <1>0, <2>4, <2>6 DEF Quiet, idle
    <3>2. Holds(c, idle, s.value)
      BY <1>1, <2>4 DEF Hits
    <3>3. CASE Test[c].type = "PosT"
      <4>1. s.value < Test[c].at /\ Test[c].at <= idle
        BY <1>0, <3>1, <3>2, <3>3, HoldsBy
      <4> QED BY <1>0, <1>7, <3>1, <3>3, <4>1 DEF Told
    <3>4. CASE Test[c].type = "NegT"
      <4>1. Test[c].at < s.value /\ idle <= Test[c].at
        BY <1>0, <3>1, <3>2, <3>4, HoldsBy
      <4> QED BY <1>0, <1>7, <3>1, <3>4, <4>1 DEF Told
    <3> QED BY <2>6, <3>3, <3>4 DEF Transition
  <2>7. ASSUME NEW c \in t.crossed, Test[c].type = "NegT"
        PROVE  c \in s.crossed /\ ~(s.reset /\ Test[c].at < s.value)
    <3>1. c \in s.crossed /\ c \in s.on /\ c \in Triggers /\ Test[c].at \in Nat
      BY <1>0, <2>4
    <3>2. ~Holds(c, idle, s.value)
      BY <1>1, <2>2, <2>3, <2>7, <3>1 DEF Hits
    <3> QED BY <1>0, <1>7, <2>7, <3>1, <3>2, HoldsBy
  <2> QED BY <2>2, <2>3, <2>4, <2>5, <2>6, <2>7 DEF idle
<1> QED BY <1>5, <1>6, <1>7

----------------------------------------------------------------------------
(* The cause of every transition: for a value s of the counter's record, in *)
(* phase p at time n, with the real counter at r.                           *)
Caused(s, p, n, r) ==
  /\ Kind = "SERVERTIME" => ~s.reset /\ Told(s, r)
  /\ Kind = "IDLETIME" =>
       /\ Kept(s) /\ (Quiet(s) \/ Told(s, r))
       /\ p = "start" => ~s.reset /\ (s.on # {} => s.value = n)

(* Clients of IDLETIME only delete alarms once the server runs: creating    *)
(* one, or a query, changes the value behind the other triggers' backs.     *)
Untouched == \A x \in Setups : x.kind = "IDLETIME" => x.requests \subseteq {"destroy"}

CInv == IType /\ Caused(Cur, phase, now, Real(now))

(* Only the record and its surroundings count. *)
LEMMA CausedAfter ==
  ASSUME NEW t, Typed(t), Become(t), setup' = setup, Caused(t, phase', now', Real(now)')
  PROVE  Caused(Cur, phase, now, Real(now))'
<1>1. Cur' = [t EXCEPT !.fired = {}] /\ t \in Counter
  BY CurAfter DEF Typed
<1>2. /\ Cur'.value = t.value /\ Cur'.on = t.on /\ Cur'.active = t.active /\ Cur'.crossed = t.crossed
      /\ Cur'.less = t.less /\ Cur'.greater = t.greater /\ Cur'.reset = t.reset
  BY <1>1 DEF Counter
<1>3. Test' = Test /\ Kind' = Kind
  BY DEF Test, Kind
<1>4. Quiet(t) <=> Quiet(Cur)'
  BY <1>2, <1>3 DEF Quiet
<1>5. Kept(t) => Kept(Cur)'
  <2>1. Armed(t) => Armed(Cur)'
    BY <1>2, <1>3 DEF Armed, Over, Beneath
  <2>2. Marked(t) => Marked(Cur)'
    BY <1>2, <1>3 DEF Marked, Over, Beneath
  <2>3. Missing(t) => Missing(Cur)'
    BY <1>2, <1>4 DEF Missing
  <2> QED BY <2>1, <2>2, <2>3 DEF Kept
<1>6. Told(t, Real(now)') => Told(Cur, Real(now))'
  BY <1>2, <1>3 DEF Told
<1>7. Caused(t, phase', now', Real(now)')
  OBVIOUS
<1> QED BY <1>2, <1>3, <1>4, <1>5, <1>6, <1>7 DEF Caused

(* The handlers, one by one. *)
LEMMA WokenCaused ==
  ASSUME CInv, phase = "asleep"
  PROVE  /\ Typed(Woken) /\ Caused(Woken, "input", now, Real(now))
         /\ \A c \in Woken.fired : Test[c].type \in Transition => c \in crossed
         /\ Kind = "IDLETIME" => (Quiet(Woken) \/ Woken.value = Real(now))
         /\ Kind = "IDLETIME" => \A c \in Woken.crossed : Test[c].type = "NegT" =>
                                   c \in crossed /\ ~(reset /\ Test[c].at < value)
         /\ Woken.crossed \subseteq crossed
<1>0. Placed /\ Typed(Cur) /\ Living /\ Real(now) \in Times /\ Cur.fired = {} /\ Cur.crossed = crossed
      /\ Cur.reset = reset /\ Cur.value = value
  BY CurType, RealType DEF CInv, Cur
<1>1. CASE Kind = "IDLETIME"
  <2> DEFINE t == IdleTimeWakeup(Cur)
  <2>1. Woken = t
    BY <1>1 DEF Woken
  <2>2. Kept(Cur) /\ (Quiet(Cur) \/ Told(Cur, Real(now)))
    BY <1>1 DEF CInv, Caused
  <2>3. /\ Kept(t) /\ (Quiet(t) \/ (Told(t, Real(now)) /\ t.value = Real(now)))
        /\ \A c \in t.fired : Test[c].type \in Transition => c \in Cur.crossed
        /\ \A c \in t.crossed : Test[c].type = "NegT" => c \in Cur.crossed /\ ~(Cur.reset /\ Test[c].at < Cur.value)
    BY <1>0, <1>1, <2>2, IdleTimeWakeupTold
  <2>4. Typed(t) /\ t.crossed \subseteq Cur.crossed
    BY <1>0, IdleTimeWakeupType, IdleTimeWakeupLess
  <2> QED BY <1>0, <1>1, <2>1, <2>3, <2>4 DEF Caused
<1>2. CASE Kind = "SERVERTIME"
  <2>1. Woken = ServertimeWakeup(Cur) /\ Real(now) = now /\ ~Cur.reset /\ Told(Cur, now)
    BY <1>0, <1>2, RealType DEF Woken, CInv, Caused
  <2>2. CASE ServertimeWakeup(Cur) = Cur
    BY <1>0, <1>2, <2>1, <2>2 DEF Caused
  <2>3. CASE ServertimeWakeup(Cur) = ChangeCounter(Cur, now)
    <3> DEFINE t == ChangeCounter(Cur, now)
    <3>1. Steps(Cur, t, now)
      BY <1>0, <2>1, ChangeCounterType
    <3> HIDE DEF t
    <3>2. Typed(t) /\ ~t.reset /\ t.value = now /\ t.fired \subseteq Hits(Cur, now) /\ t.crossed \subseteq crossed
      BY <1>0, <2>1, <3>1 DEF Steps
    <3>3. Told(t, now)
      BY <1>0, <3>2, ReadIsTold
    <3>4. ASSUME NEW c \in t.fired, Test[c].type \in Transition PROVE c \in crossed
      <4>1. c \in Cur.on /\ Holds(c, now, Cur.value)
        BY <3>2, <3>4 DEF Hits
      <4>2. c \in Triggers /\ Cur.value \in Nat /\ now \in Nat /\ Test[c].at \in Nat
        BY <1>0, <2>1, <4>1, CounterNumbers, SetupType
      <4>3. Cur.value <= now
        BY <2>1 DEF Told
      <4>4. Test[c].type = "PosT" /\ Cur.value < Test[c].at /\ Test[c].at <= now
        BY <1>0, <3>4, <4>1, <4>2, <4>3, HoldsBy DEF Transition
      <4> QED BY <1>0, <2>1, <4>1, <4>4 DEF Told
    <3>5. Woken = t
      BY <2>1, <2>3 DEF t
    <3> QED BY <1>2, <2>1, <3>2, <3>3, <3>4, <3>5 DEF Caused
  <2> QED BY <2>1, <2>2, <2>3 DEF ServertimeWakeup
<1> QED BY <1>0, <1>1, <1>2, SetupType

LEMMA CreatedCaused ==
  ASSUME CInv, NEW c \in Triggers, c \notin on, NEW t, t = CreateAlarm(Cur, c),
         Kind = "IDLETIME" => phase = "start"
  PROVE  /\ Typed(t) /\ Caused(t, phase, now, Real(now)) /\ t.crossed = crossed
         /\ t.value = Real(now) /\ t.active \subseteq active \cup {c} /\ Bracketed(t)
         /\ \A e \in t.fired : Test[e].type \notin Transition
         /\ c \in t.active => Test[c].type \in Transition \/ ~Holds(c, Real(now), Real(now))
<1> DEFINE j == Joined(Cur, c)
           b == ComputeBrackets(j)
           f == Fire(b, {c})
<1>0. /\ Placed /\ Typed(Cur) /\ Living /\ Real(now) \in Times /\ Real(now) \in Nat
      /\ Cur.fired = {} /\ Cur.crossed = crossed /\ Cur.active = active
  BY CurType, RealType, SetupType DEF CInv, Cur
<1>1. /\ Typed(j) /\ j.value = Real(now) /\ j.on = Cur.on \cup {c} /\ j.active = active \cup {c}
      /\ j.crossed = crossed /\ j.reset = Cur.reset /\ j.fired = {}
  BY <1>0, JoinedType
<1>2. t = IF Holds(c, b.value, b.value) THEN f ELSE b
  BY DEF CreateAlarm, Joined
<1> HIDE DEF j
<1>3. Typed(b) /\ Rest(b) = Rest(j) /\ Bracketed(b) /\ (b.reset => j.reset)
  BY <1>0, <1>1, ComputeBracketsType DEF Typed
<1> HIDE DEF b
<1>4. /\ b.value = Real(now) /\ b.on = Cur.on \cup {c} /\ b.active = active \cup {c}
      /\ b.crossed = crossed /\ b.fired = {}
  BY <1>1, <1>3 DEF Rest
<1>5. /\ Typed(f) /\ f.value = b.value /\ f.on = b.on /\ f.less = b.less /\ f.greater = b.greater
      /\ f.reset = b.reset /\ f.crossed = b.crossed \ {c} /\ f.fired = {c} \cap b.active
      /\ f.active = b.active \ {e \in {c} : Test[e].type \notin Transition}
  BY <1>0, <1>3, <1>4, FireType
<1> HIDE DEF f
<1>6. Holds(c, Real(now), Real(now)) => Test[c].type \notin Transition
  <2>1. Test[c].at \in Nat
    BY <1>0, SetupType
  <2> QED BY <1>0, <2>1, HoldsBy DEF Transition
<1>7. /\ Typed(t) /\ t.value = Real(now) /\ t.on = Cur.on \cup {c} /\ (t.reset => Cur.reset)
      /\ t.active \subseteq active \cup {c} /\ Bracketed(t)
      /\ \A e \in t.fired : Test[e].type \notin Transition
      /\ c \in t.active => Test[c].type \in Transition \/ ~Holds(c, Real(now), Real(now))
  BY <1>1, <1>2, <1>3, <1>4, <1>5, <1>6 DEF Bracketed, Over, Beneath
<1>8. t.crossed = crossed
  <2>1. c \notin crossed
    BY <1>0 DEF Typed, Cur
  <2> QED BY <1>2, <1>4, <1>5, <2>1
<1>9. CASE Kind = "SERVERTIME"
  <2>1. ~t.reset
    BY <1>7, <1>9 DEF CInv, Caused
  <2>2. Told(t, Real(now))
    BY <1>0, <1>7, <2>1, ReadIsTold
  <2>3. Caused(t, phase, now, Real(now))
    BY <1>9, <2>1, <2>2 DEF Caused
  <2> QED BY <1>7, <1>8, <2>3
<1>10. CASE Kind = "IDLETIME"
  <2>1. /\ phase = "start" /\ ~Cur.reset /\ (Cur.on # {} => Cur.value = now) /\ Kept(Cur)
        /\ Real(now) = now
    BY <1>0, <1>10, RealType, SetupType DEF CInv, Caused, Placed
  <2>2. ~t.reset /\ Told(t, Real(now))
    BY <1>0, <1>7, <2>1, ReadIsTold
  <2>3. ASSUME NEW e \in t.active, Test[e].type \notin Transition PROVE ~Holds(e, t.value, t.value)
    <3>1. CASE e = c
      BY <1>7, <2>3, <3>1
    <3>2. CASE e # c
      <4>1. e \in Cur.active /\ e \in Cur.on /\ e \in Triggers
        BY <1>0, <1>7, <3>2, CounterNumbers
      <4>2. Cur.value = now /\ t.value = now /\ now \in Nat /\ Test[e].at \in Nat /\ Test[e].type \in Tests
        BY <1>0, <1>7, <2>1, <4>1, CounterNumbers
      <4>3. /\ Test[e].type = "PosC" => now < Test[e].at
            /\ Test[e].type = "NegC" => Test[e].at < now
        BY <2>1, <4>1, <4>2 DEF Kept, Armed
      <4> QED BY <1>0, <2>3, <4>1, <4>2, <4>3, HoldsBy DEF Transition
    <3> QED BY <3>1, <3>2
  <2>4. Kept(t)
    BY <1>0, <1>7, <1>10, <2>3, BracketsKept
  <2> QED BY <1>7, <1>8, <1>10, <2>1, <2>2, <2>4 DEF Caused
<1> QED BY <1>0, <1>9, <1>10, SetupType

LEMMA DestroyedCaused ==
  ASSUME CInv, NEW c \in Triggers, NEW t, t = DeleteTrigger(Cur, c), phase = "requests"
  PROVE  /\ Typed(t) /\ Caused(t, phase, now, Real(now)) /\ t.crossed = crossed \ {c}
         /\ t.value = value /\ t.active = active \ {c} /\ Bracketed(t) /\ t.fired = {}
         /\ reset /\ ~t.reset => Kind = "IDLETIME" /\ Quiet(t)
<1> DEFINE l == Left(Cur, c)
<1>0. /\ Placed /\ Typed(Cur) /\ Living /\ Cur.value = value /\ Cur.reset = reset
      /\ Cur.fired = {} /\ Cur.crossed = crossed /\ Cur.active = active
  BY CurType, RealType DEF CInv, Cur
<1>1. /\ l \in Counter /\ l.active = active \ {c} /\ l.on = Cur.on \ {c}
      /\ l.crossed = crossed \ {c} /\ l.value = value /\ l.reset = reset
      /\ l.less = Cur.less /\ l.greater = Cur.greater
      /\ l.active \subseteq l.on /\ l.crossed \subseteq l.on
  BY <1>0, DeleteTriggerType
<1>2. t = ComputeBrackets(l) /\ l.fired = {}
  BY <1>0 DEF DeleteTrigger, Left, Cur
<1> HIDE DEF l
<1>3. /\ Typed(t) /\ Rest(t) = Rest(l) /\ Bracketed(t) /\ (t.reset => l.reset)
      /\ l.reset /\ ~t.reset => Kind = "IDLETIME" /\ l.less = None /\ l.greater = None
  BY <1>0, <1>1, <1>2, ComputeBracketsType
<1>4. /\ t.value = value /\ t.active = active \ {c} /\ t.on = Cur.on \ {c}
      /\ t.crossed = crossed \ {c} /\ t.fired = {} /\ (t.reset => reset)
  BY <1>1, <1>2, <1>3 DEF Rest
<1>5. Quiet(Cur) => Quiet(t)
  BY <1>0, <1>4 DEF Quiet
<1>6. t.reset = Cur.reset /\ Told(Cur, Real(now)) => Told(t, Real(now))
  BY <1>0, <1>4 DEF Told
<1>7. reset /\ ~t.reset => Kind = "IDLETIME" /\ Quiet(t)
  BY <1>0, <1>1, <1>3, <1>5 DEF CInv, Caused, Kept, Missing
<1>8. t.reset \in BOOLEAN /\ Cur.reset \in BOOLEAN
  BY <1>0, <1>3 DEF Typed, Counter
<1>9. CASE Kind = "SERVERTIME"
  BY <1>0, <1>3, <1>4, <1>6, <1>7, <1>8, <1>9 DEF CInv, Caused
<1>10. CASE Kind = "IDLETIME"
  <2>1. Kept(Cur) /\ (Quiet(Cur) \/ Told(Cur, Real(now)))
    BY <1>10 DEF CInv, Caused
  <2>2. ASSUME NEW e \in t.active, Test[e].type \notin Transition PROVE ~Holds(e, t.value, t.value)
    <3>1. e \in Cur.active /\ e \in Cur.on /\ e \in Triggers
      BY <1>0, <1>4, CounterNumbers
    <3>2. t.value = Cur.value /\ Cur.value \in Nat /\ Test[e].at \in Nat
      BY <1>0, <1>4, <3>1, CounterNumbers
    <3>3. /\ Test[e].type = "PosC" => Cur.value < Test[e].at
          /\ Test[e].type = "NegC" => Test[e].at < Cur.value
      BY <2>1, <3>1 DEF Kept, Armed
    <3> QED BY <1>0, <2>2, <3>1, <3>2, <3>3, HoldsBy DEF Transition
  <2>3. Kept(t)
    BY <1>0, <1>3, <1>10, <2>2, BracketsKept
  <2>4. Quiet(t) \/ Told(t, Real(now))
    <3>1. t.reset => Cur.reset
      BY <1>0, <1>4
    <3> QED BY <1>0, <1>5, <1>6, <1>7, <1>8, <2>1, <3>1
  <2> QED BY <1>3, <1>4, <1>7, <1>10, <2>3, <2>4 DEF Caused
<1> QED BY <1>0, <1>9, <1>10, SetupType

LEMMA NoticedCaused ==
  ASSUME CInv, input # None
  PROVE  /\ Typed(Noticed) /\ Caused(Noticed, "requests", now, now - input) /\ Noticed.fired = {}
         /\ Kind = "IDLETIME"
<1> DEFINE r == Real(now)
           e == now - input
<1>0. /\ Placed /\ Typed(Cur) /\ Living /\ r \in Nat /\ e \in Nat /\ Kind = "IDLETIME"
      /\ Cur.value \in Nat /\ on \subseteq Triggers /\ Cur.on = on /\ Cur.crossed = crossed
      /\ crossed \subseteq on /\ \A c \in on : Test[c].type \in Tests /\ Test[c].at \in Nat
  <2>1. Placed /\ Typed(Cur) /\ Living /\ r \in Nat
    BY CurType, RealType, SetupType DEF CInv
  <2>2. now \in Nat /\ input \in Nat /\ input <= now /\ Kind = "IDLETIME"
    BY <2>1, SetupType DEF Placed, MayBeTime
  <2>3. Cur.on = on /\ Cur.crossed = crossed
    BY DEF Cur
  <2> QED BY <2>1, <2>2, <2>3, CounterNumbers
<1> HIDE DEF r, e
<1>1. /\ Typed(Noticed) /\ Noticed.reset = TRUE /\ Noticed.fired = {} /\ Noticed.value = Cur.value
      /\ Noticed.on = on /\ Noticed.active = Cur.active /\ Noticed.less = Cur.less
      /\ Noticed.greater = Cur.greater
      /\ Noticed.crossed = {c \in crossed : Test[c].type = "NegT"} \cup Transitions(0, r) \cup Transitions(e, 0)
  BY <1>0 DEF Noticed, Typed, Counter, Cur, Transitions, r, e
<1>2. Kept(Cur) /\ (Quiet(Cur) \/ Told(Cur, r))
  BY <1>0 DEF CInv, Caused, r
<1>3. Kept(Noticed)
  BY <1>0, <1>1, <1>2 DEF Kept, Armed, Marked, Missing, Quiet, Over, Beneath
<1>4. Quiet(Cur) => Quiet(Noticed)
  BY <1>0, <1>1 DEF Quiet
<1>5. ASSUME Told(Cur, r) PROVE Told(Noticed, e)
  <2>1. ASSUME NEW c \in on, Test[c].type = "PosT", 0 < Test[c].at, Test[c].at <= e
        PROVE  c \in Noticed.crossed
    <3>1. Holds(c, e, 0)
      BY <1>0, <2>1, HoldsBy
    <3> QED BY <1>1, <2>1, <3>1 DEF Transitions
  <2>2. ASSUME NEW c \in on, Test[c].type = "NegT", Test[c].at < Cur.value
        PROVE  c \in Noticed.crossed
    <3>1. CASE Cur.reset
      BY <1>0, <1>1, <1>5, <2>2, <3>1 DEF Told
    <3>2. CASE ~Cur.reset
      <4>1. Test[c].at < r /\ 0 <= Test[c].at
        BY <1>0, <1>5, <2>2, <3>2 DEF Told
      <4>2. Holds(c, 0, r)
        BY <1>0, <2>2, <4>1, HoldsBy
      <4> QED BY <1>1, <2>2, <4>2 DEF Transitions
    <3> QED BY <3>1, <3>2
  <2> QED BY <1>1, <2>1, <2>2 DEF Told
<1> QED BY <1>0, <1>1, <1>2, <1>3, <1>4, <1>5 DEF Caused, e

LEMMA AgedCaused ==
  ASSUME CInv, phase # "start"
  PROVE  /\ Typed(Aged) /\ Caused(Aged, phase, now + 1, Real(now) + 1) /\ Aged.fired = {}
<1> DEFINE r == Real(now)
<1>0. /\ Placed /\ Typed(Cur) /\ Living /\ r \in Nat /\ Real(now + 1) = r + 1 /\ Cur.value \in Nat
      /\ on \subseteq Triggers /\ Cur.on = on /\ \A c \in on : Test[c].at \in Nat
  <2>1. Placed /\ Typed(Cur) /\ Living /\ r \in Nat /\ Cur.on = on
    BY CurType, RealType, SetupType DEF CInv, Cur
  <2>2. now \in Nat /\ lastEvent \in Nat
    BY <2>1, SetupType DEF Placed
  <2> QED BY <2>1, <2>2, CounterNumbers DEF Real
<1> HIDE DEF r
<1>1. /\ Typed(Aged) /\ Aged.reset = Cur.reset /\ Aged.fired = {} /\ Aged.value = Cur.value
      /\ Aged.on = on /\ Aged.active = Cur.active /\ Aged.less = Cur.less
      /\ Aged.greater = Cur.greater /\ Aged.crossed = Cur.crossed \cup Transitions(r + 1, r)
  BY <1>0 DEF Aged, Typed, Counter, Cur, Transitions, r
<1>2. Kept(Cur) => Kept(Aged)
  BY <1>0, <1>1 DEF Kept, Armed, Marked, Missing, Quiet, Over, Beneath
<1>3. Quiet(Cur) => Quiet(Aged)
  BY <1>0, <1>1 DEF Quiet
<1>4. ASSUME Told(Cur, r) PROVE Told(Aged, r + 1)
  <2> DEFINE v == IF Cur.reset THEN 0 ELSE Cur.value
  <2>1. ASSUME NEW c \in on, Test[c].type = "PosT", v < Test[c].at, Test[c].at <= r + 1
        PROVE  c \in Aged.crossed
    <3>1. CASE Test[c].at <= r
      BY <1>0, <1>1, <1>4, <2>1, <3>1 DEF Told
    <3>2. CASE r < Test[c].at
      <4>1. Holds(c, r + 1, r)
        BY <1>0, <2>1, <3>2, HoldsBy
      <4> QED BY <1>1, <2>1, <4>1 DEF Transitions
    <3> QED BY <1>0, <3>1, <3>2
  <2>2. \A c \in on : Test[c].type = "NegT" /\ Cur.reset /\ Test[c].at < Cur.value => c \in Aged.crossed
    BY <1>0, <1>1, <1>4 DEF Told
  <2>3. ~Cur.reset => Cur.value <= r + 1
    BY <1>0, <1>4 DEF Told
  <2> QED BY <1>1, <2>1, <2>2, <2>3 DEF Told
<1> QED BY <1>1, <1>2, <1>3, <1>4 DEF CInv, Caused, r

LEMMA QueriedCaused ==
  ASSUME CInv, Kind = "SERVERTIME"
  PROVE  Typed(Queried) /\ Caused(Queried, phase, now, Real(now)) /\ Queried.fired = {}
<1>0. Typed(Cur) /\ Living /\ Real(now) \in Times /\ ~Cur.reset
  BY CurType, RealType DEF CInv, Caused
<1>1. Typed(Queried) /\ ~Queried.reset /\ Queried.value = Real(now) /\ Queried.fired = {}
  BY <1>0 DEF Typed, Counter, Queried, Cur
<1>2. Told(Queried, Real(now))
  BY <1>0, <1>1, ReadIsTold
<1> QED BY <1>1, <1>2 DEF Caused

LEMMA CausedInit == Init => CInv
<1> SUFFICES ASSUME Init PROVE CInv
  OBVIOUS
<1>1. IType /\ Placed /\ Living /\ Real(now) \in Nat
  BY TypeInit, CurType, RealType, SetupType
<1>2. Cur.on = {} /\ Cur.active = {} /\ Cur.value = 0 /\ ~Cur.reset
  BY DEF Init, Cur
<1>3. Kept(Cur) /\ Quiet(Cur) /\ Told(Cur, Real(now))
  BY <1>1, <1>2 DEF Kept, Armed, Marked, Missing, Quiet, Told
<1> QED BY <1>1, <1>2, <1>3 DEF CInv, Caused

(* A transition that fires is one of the real counter. *)
ForCause == \A c \in fired' : Test[c].type \in Transition => c \in crossed

LEMMA CausedNext ==
  ASSUME Untouched
  PROVE  CInv /\ [Next]_vars => CInv' /\ (ForCause \/ UNCHANGED vars)
<1> SUFFICES ASSUME CInv, [Next]_vars PROVE CInv' /\ (ForCause \/ UNCHANGED vars)
  OBVIOUS
<1>0. /\ IType' /\ Placed /\ Typed(Cur) /\ Cur \in Counter /\ Living /\ Cur.fired = {}
      /\ setup' = setup /\ Kind' = Kind
      /\ Kind = "IDLETIME" => Requests \subseteq {"destroy"}
      /\ Caused(Cur, phase, now, Real(now))
  BY CurType, TypeNext DEF CInv, Next, vars, Cur, Kind, Untouched, Requests, Living
<1>1. (now' = now /\ lastEvent' = lastEvent) => Real(now)' = Real(now)
  BY <1>0 DEF Real
<1>2. \A t : Become(t) => fired' = t.fired
  BY DEF Become
<1>3. \A p \in {"input", "requests", "asleep"} :
        Caused(Cur, phase, now, Real(now)) => Caused(Cur, p, now, Real(now))
  BY DEF Caused
<1>4. ASSUME Become(Cur), now' = now, lastEvent' = lastEvent, phase' = phase \/ phase' # "start"
      PROVE  CInv' /\ ForCause
  <2>1. Caused(Cur, phase', now', Real(now)')
    BY <1>0, <1>1, <1>4 DEF Caused
  <2>2. Caused(Cur, phase, now, Real(now))'
    BY <1>0, <1>4, <2>1, CausedAfter
  <2>3. fired' = {}
    BY <1>0, <1>2, <1>4
  <2> QED BY <1>0, <2>2, <2>3 DEF CInv, ForCause
<1>5. CASE Block \/ Arrive \/ Started
  BY <1>4, <1>5 DEF Block, Arrive, Started
<1>6. CASE Wakeup
  <2>1. /\ Typed(Woken) /\ Caused(Woken, "input", now, Real(now))
        /\ \A c \in Woken.fired : Test[c].type \in Transition => c \in crossed
    BY <1>6, WokenCaused DEF Wakeup
  <2>2. Become(Woken) /\ phase' = "input" /\ now' = now /\ Real(now)' = Real(now)
    BY <1>1, <1>6, Outcomes DEF Wakeup
  <2>3. Caused(Cur, phase, now, Real(now))' /\ fired' = Woken.fired
    BY <1>0, <1>2, <2>1, <2>2, CausedAfter
  <2> QED BY <1>0, <2>1, <2>3 DEF CInv, ForCause
<1>7. CASE ProcessInput
  <2>1. CASE input = None
    BY <1>4, <1>7, <2>1 DEF ProcessInput
  <2>2. CASE input # None
    <3>1. /\ Typed(Noticed) /\ Caused(Noticed, "requests", now, now - input) /\ Noticed.fired = {}
          /\ Kind = "IDLETIME"
      BY <2>2, NoticedCaused
    <3>2. Become(Noticed) /\ phase' = "requests" /\ now' = now /\ lastEvent' = input
      BY <1>7, <2>2, Outcomes DEF ProcessInput
    <3>3. Real(now)' = now - input
      BY <1>0, <3>1, <3>2 DEF Real
    <3>4. Caused(Cur, phase, now, Real(now))' /\ fired' = {}
      BY <1>0, <1>2, <3>1, <3>2, <3>3, CausedAfter
    <3> QED BY <1>0, <3>4 DEF CInv, ForCause
  <2> QED BY <2>1, <2>2
<1>8. CASE Query
  <2>1. Kind = "SERVERTIME"
    BY <1>0, <1>8, SetupType DEF Query
  <2>2. Typed(Queried) /\ Caused(Queried, phase, now, Real(now)) /\ Queried.fired = {}
    BY <2>1, QueriedCaused
  <2>3. Become(Queried) /\ phase' = phase /\ now' = now /\ Real(now)' = Real(now)
    BY <1>1, <1>8, Outcomes DEF Query
  <2>4. Caused(Cur, phase, now, Real(now))' /\ fired' = {}
    BY <1>0, <1>2, <2>2, <2>3, CausedAfter
  <2> QED BY <1>0, <2>4 DEF CInv, ForCause
<1>9. CASE Tick
  <2>1. phase # "start" /\ phase' = phase /\ now' = now + 1 /\ lastEvent' = lastEvent /\ Become(Aged)
    BY <1>9, Outcomes DEF Tick
  <2>2. Typed(Aged) /\ Caused(Aged, phase, now + 1, Real(now) + 1) /\ Aged.fired = {}
    BY <2>1, AgedCaused
  <2>3. Real(now)' = Real(now) + 1
    <3>1. now \in Nat /\ lastEvent \in Nat
      BY <1>0, SetupType DEF Placed
    <3> QED BY <1>0, <2>1, <3>1 DEF Real
  <2>4. Caused(Cur, phase, now, Real(now))' /\ fired' = {}
    BY <1>0, <1>2, <2>1, <2>2, <2>3, CausedAfter
  <2> QED BY <1>0, <2>4 DEF CInv, ForCause
<1>10. ASSUME NEW c \in Triggers, Create(c) PROVE CInv' /\ ForCause
  <2> DEFINE t == CreateAlarm(Cur, c)
  <2>1. /\ c \notin on /\ Become(t) /\ phase' = phase /\ now' = now /\ Real(now)' = Real(now)
        /\ Kind = "IDLETIME" => phase = "start"
    BY <1>0, <1>1, <1>10 DEF Create
  <2>2. /\ Typed(t) /\ Caused(t, phase, now, Real(now))
        /\ \A e \in t.fired : Test[e].type \notin Transition
    BY <2>1, CreatedCaused
  <2>3. Caused(Cur, phase, now, Real(now))' /\ fired' = t.fired
    BY <1>0, <1>2, <2>1, <2>2, CausedAfter
  <2> QED BY <1>0, <2>2, <2>3 DEF CInv, ForCause
<1>11. ASSUME NEW c \in Triggers, Destroy(c) PROVE CInv' /\ ForCause
  <2> DEFINE t == DeleteTrigger(Cur, c)
  <2>1. phase = "requests" /\ Become(t) /\ phase' = phase /\ now' = now /\ Real(now)' = Real(now)
    BY <1>1, <1>11 DEF Destroy
  <2>2. Typed(t) /\ Caused(t, phase, now, Real(now)) /\ t.fired = {}
    BY <2>1, DestroyedCaused
  <2>3. Caused(Cur, phase, now, Real(now))' /\ fired' = {}
    BY <1>0, <1>2, <2>1, <2>2, CausedAfter
  <2> QED BY <1>0, <2>3 DEF CInv, ForCause
<1>12. CASE UNCHANGED vars
  <2>1. Cur' = Cur /\ Test' = Test /\ Real(now)' = Real(now) /\ phase' = phase /\ now' = now
    BY <1>0, <1>12 DEF vars, Cur, Test, Real
  <2>2. Caused(Cur, phase, now, Real(now))'
    BY <1>0, <2>1 DEF Caused, Kept, Armed, Marked, Missing, Quiet, Told, Over, Beneath
  <2> QED BY <1>0, <1>12, <2>2 DEF CInv
<1> QED BY <1>5, <1>6, <1>7, <1>8, <1>9, <1>10, <1>11, <1>12 DEF Next

(* A transition alarm fires only when the real counter has passed its test  *)
(* value since the last time: the value handed to the triggers may be old   *)
(* and a reset behind, but it never shows a transition twice                *)
(* (IdleTimeWakeupHandler, SyncChangeCounter).                              *)
THEOREM TransitionsHaveCause ==
  ASSUME Untouched
  PROVE  Spec => TransitionsForCause
<1>1. CInv /\ [Next]_vars => CInv'
  BY CausedNext
<1>2. CInv /\ [Next]_vars => [\A c \in fired' : Test[c].type \in {"PosT", "NegT"} => c \in crossed]_vars
  BY CausedNext DEF ForCause, Transition
<1> QED BY <1>1, <1>2, CausedInit, PTL DEF Spec, TransitionsForCause

----------------------------------------------------------------------------
(* SERVERTIME where work takes no time: it never falls, so nothing waits    *)
(* for that; what waits for it to rise has a bracket at or before its test  *)
(* value, and the wait ends there.                                          *)
Served(s, n, p, d) ==
  /\ \A c \in s.crossed : Test[c].type # "NegT"
  /\ \A c \in s.active :
       /\ Test[c].type = "NegC" => Test[c].at < n
       /\ Test[c].type = "PosC" =>
            /\ Over(s, c)
            /\ p # "asleep" => n < Test[c].at
            /\ p = "asleep" => d # None /\ d <= Test[c].at

LEMMA ServedAfter ==
  ASSUME NEW t \in Counter, Become(t), setup' = setup, Served(t, now', phase', deadline')
  PROVE  Served(Cur, now, phase, deadline)'
<1>1. Cur' = [t EXCEPT !.fired = {}]
  BY CurAfter
<1>2. Cur'.active = t.active /\ Cur'.crossed = t.crossed /\ Cur'.greater = t.greater
  BY <1>1 DEF Counter
<1>3. Test' = Test
  BY DEF Test
<1>4. Served(t, now', phase', deadline')
  OBVIOUS
<1> HIDE DEF Cur
<1> QED BY <1>2, <1>3, <1>4 DEF Served, Over

(* ServertimeWakeupHandler *)
LEMMA WokenServed ==
  ASSUME CInv, Kind = "SERVERTIME", Served(Cur, now, phase, deadline), NEW d
  PROVE  Typed(Woken) /\ Served(Woken, now, "input", d)
<1>0. /\ Placed /\ Typed(Cur) /\ Living /\ now \in Times /\ now \in Nat /\ Woken = ServertimeWakeup(Cur)
      /\ Cur.value \in Nat /\ Cur.greater \in Int /\ Cur.on \subseteq Triggers /\ Cur.active \subseteq Cur.on
      /\ \A c \in Cur.on : Test[c].at \in Nat
  BY CurType, RealType, SetupType, CounterNumbers DEF CInv, Woken
<1>1. CASE Cur.greater # None /\ now >= Cur.greater
  <2> DEFINE t == ChangeCounter(Cur, now)
  <2>1. Woken = t
    BY <1>0, <1>1 DEF ServertimeWakeup
  <2>2. /\ Steps(Cur, t, now) /\ Bracketed(t)
        /\ \A c \in t.active : c \in Hits(Cur, now) => Test[c].type \in Transition
    BY <1>0, ChangeCounterType
  <2> HIDE DEF t
  <2>3. /\ Typed(t) /\ t.value = now /\ t.on = Cur.on /\ t.crossed \subseteq Cur.crossed
        /\ t.active \subseteq Cur.active
    BY <2>2 DEF Steps
  <2>4. ASSUME NEW c \in t.active, Test[c].type = "PosC" PROVE Over(t, c) /\ now < Test[c].at
    <3>1. c \in Cur.on /\ c \in Triggers /\ c \in t.on /\ Test[c].at \in Nat
      BY <1>0, <2>3
    <3>2. ~Holds(c, now, Cur.value)
      BY <2>2, <2>4, <3>1 DEF Hits, Transition
    <3>3. now < Test[c].at
      BY <1>0, <2>4, <3>1, <3>2, HoldsBy
    <3> QED BY <2>2, <2>3, <2>4, <3>1, <3>3 DEF Bracketed, Above
  <2> QED BY <2>1, <2>3, <2>4 DEF Served
<1>2. CASE ~(Cur.greater # None /\ now >= Cur.greater)
  <2>1. Woken = Cur
    BY <1>0, <1>2 DEF ServertimeWakeup
  <2>2. \A c \in Cur.active : Test[c].type = "PosC" => now < Test[c].at
    <3> SUFFICES ASSUME NEW c \in Cur.active, Test[c].type = "PosC" PROVE now < Test[c].at
      OBVIOUS
    <3>1. Cur.greater # None /\ Cur.greater <= Test[c].at /\ Test[c].at \in Nat
      BY <1>0 DEF Served, Over
    <3> QED BY <1>0, <1>2, <3>1
  <2> QED BY <1>0, <2>1, <2>2 DEF Served
<1> QED BY <1>1, <1>2

LEMMA ServedNext ==
  ASSUME Untouched
  PROVE  /\ CInv /\ ~Dawdles /\ Kind = "SERVERTIME" /\ Served(Cur, now, phase, deadline)
         /\ [Next]_vars
         => Served(Cur, now, phase, deadline)'
<1> SUFFICES ASSUME CInv, ~Dawdles, Kind = "SERVERTIME", Served(Cur, now, phase, deadline), [Next]_vars
             PROVE  Served(Cur, now, phase, deadline)'
  OBVIOUS
<1>0. /\ Placed /\ Typed(Cur) /\ Cur \in Counter /\ Living /\ setup' = setup /\ input = None
      /\ now \in Nat /\ Real(now) = now /\ Real(now) \in Nat /\ Cur.value \in Nat
      /\ Cur.greater \in Int /\ Cur.on \subseteq Triggers /\ Cur.active \subseteq Cur.on
      /\ Cur.active = active /\ Cur.on = on /\ Cur.crossed = crossed /\ Cur.value = value
      /\ Cur.greater = greater /\ value <= now
      /\ \A c \in Triggers : Test[c].at \in Nat /\ Test[c].type \in Tests
  <2>1. Placed /\ Typed(Cur) /\ Cur \in Counter /\ Living /\ setup' = setup
    BY CurType DEF CInv, Next, vars
  <2>2. now \in Nat /\ Real(now) = now /\ input = None /\ Told(Cur, now) /\ ~Cur.reset
    BY <2>1, RealType, SetupType DEF Placed, CInv, Caused
  <2>3. /\ Cur.active = active /\ Cur.on = on /\ Cur.crossed = crossed /\ Cur.value = value
        /\ Cur.greater = greater
    BY DEF Cur
  <2> QED BY <2>1, <2>2, <2>3, CounterNumbers, SetupType DEF Told
<1>1. CASE Block
  <2>1. phase = "requests" /\ phase' = "asleep" /\ Become(Cur) /\ now' = now
        /\ deadline' = IF Delays = {} THEN None ELSE now + Min(Delays)
    BY <1>1 DEF Block
  <2>2. ASSUME greater # None PROVE deadline' = IF now >= greater THEN now ELSE greater
    <3> DEFINE w == IF now >= greater THEN 0 ELSE greater - now
    <3>1. Delays = {w} /\ w \in Nat
      BY <1>0, <2>2 DEF Delays, ServertimeDelays
    <3> HIDE DEF w
    <3>2. Min(Delays) = w
      BY <3>1, MinOf
    <3>3. deadline' = now + w
      BY <2>1, <3>1, <3>2
    <3> QED BY <1>0, <3>3 DEF w
  <2>3. ASSUME NEW c \in active, Test[c].type = "PosC"
        PROVE  deadline' # None /\ deadline' <= Test[c].at
    <3>1. greater # None /\ greater <= Test[c].at /\ now < Test[c].at /\ Test[c].at \in Nat
      BY <1>0, <2>1, <2>3 DEF Served, Over
    <3> QED BY <1>0, <2>2, <3>1 DEF None
  <2>4. Served(Cur, now', phase', deadline')
    BY <1>0, <2>1, <2>3 DEF Served
  <2> QED BY <1>0, <2>1, <2>4, ServedAfter
<1>2. CASE Wakeup
  <2>1. Typed(Woken) /\ Served(Woken, now, "input", deadline')
    BY WokenServed
  <2> QED BY <1>0, <1>2, <2>1, Outcomes, ServedAfter DEF Wakeup, Typed
<1>3. CASE Arrive
  BY <1>3 DEF Arrive
<1>4. CASE ProcessInput
  <2>1. Become(Cur) /\ phase = "input" /\ phase' = "requests" /\ now' = now
    BY <1>0, <1>4 DEF ProcessInput
  <2>2. Served(Cur, now', phase', deadline')
    BY <2>1 DEF Served
  <2> QED BY <1>0, <2>1, <2>2, ServedAfter
<1>5. CASE Query
  <2>1. /\ Typed(Queried) /\ Queried.active = active /\ Queried.crossed = crossed
        /\ Queried.greater = greater
    BY <1>0, QueriedCaused DEF Queried, Counter
  <2>2. Become(Queried) /\ phase' = phase /\ now' = now /\ deadline' = deadline
    BY <1>5, Outcomes DEF Query
  <2>3. Served(Queried, now', phase', deadline')
    BY <1>0, <2>1, <2>2 DEF Served, Over
  <2> QED BY <1>0, <2>1, <2>2, <2>3, ServedAfter DEF Typed
<1>6. CASE Started
  <2>1. Become(Cur) /\ phase = "start" /\ phase' = "requests" /\ now' = now
    BY <1>6 DEF Started
  <2>2. Served(Cur, now', phase', deadline')
    BY <2>1 DEF Served
  <2> QED BY <1>0, <2>1, <2>2, ServedAfter
<1>7. CASE Tick
  <2>1. Become(Aged) /\ phase = "asleep" /\ phase' = phase /\ now' = now + 1 /\ deadline' = deadline
    BY <1>7, Outcomes DEF Tick
  <2>2. /\ Typed(Aged) /\ Aged.active = active /\ Aged.greater = greater
        /\ Aged.crossed = crossed \cup Transitions(Real(now + 1), Real(now))
    BY <1>0, <2>1, AgedCaused DEF Aged, Counter, Cur
  <2>3. \A c \in Transitions(Real(now + 1), Real(now)) : Test[c].type # "NegT"
    <3> SUFFICES ASSUME NEW c \in on, Holds(c, now + 1, now), Test[c].type = "NegT" PROVE FALSE
      BY <1>0 DEF Transitions, Real
    <3> QED BY <1>0, HoldsBy
  <2>4. Served(Aged, now', phase', deadline')
    <3>1. \A c \in Aged.crossed : Test[c].type # "NegT"
      BY <1>0, <2>2, <2>3 DEF Served
    <3>2. ASSUME NEW c \in active
          PROVE  /\ Test[c].type = "NegC" => Test[c].at < now + 1
                 /\ Test[c].type = "PosC" => /\ Over(Aged, c)
                                             /\ deadline # None /\ deadline <= Test[c].at
      <4>1. Test[c].at \in Nat
        BY <1>0
      <4> QED BY <1>0, <2>1, <2>2, <4>1 DEF Served, Over
    <3> QED BY <2>1, <2>2, <3>1, <3>2 DEF Served
  <2> QED BY <1>0, <2>1, <2>2, <2>4, ServedAfter DEF Typed
<1>8. ASSUME NEW c \in Triggers, Create(c) PROVE Served(Cur, now, phase, deadline)'
  <2> DEFINE t == CreateAlarm(Cur, c)
  <2>1. /\ c \notin on /\ Become(t) /\ phase' = phase /\ now' = now /\ deadline' = deadline
        /\ phase # "asleep"
    BY <1>8 DEF Create
  <2>2. /\ Typed(t) /\ t.crossed = crossed
        /\ t.value = Real(now) /\ t.active \subseteq active \cup {c} /\ Bracketed(t)
        /\ c \in t.active => Test[c].type \in Transition \/ ~Holds(c, Real(now), Real(now))
    BY <2>1, CreatedCaused
  <2> HIDE DEF t
  <2>3. ASSUME NEW e \in t.active
        PROVE  /\ Test[e].type = "NegC" => Test[e].at < now
               /\ Test[e].type = "PosC" => now < Test[e].at
    <3>1. CASE e = c
      BY <1>0, <2>2, <2>3, <3>1, HoldsBy DEF Transition
    <3>2. CASE e # c
      BY <1>0, <2>1, <2>2, <2>3, <3>2 DEF Served
    <3> QED BY <3>1, <3>2
  <2>4. ASSUME NEW e \in t.active, Test[e].type = "PosC" PROVE Over(t, e)
    <3>1. e \in t.on /\ now < Test[e].at
      BY <2>2, <2>3, <2>4, <1>0, CounterNumbers
    <3> QED BY <1>0, <2>2, <2>4, <3>1 DEF Bracketed, Above
  <2>5. Served(t, now', phase', deadline')
    BY <1>0, <2>1, <2>2, <2>3, <2>4 DEF Served
  <2> QED BY <1>0, <2>1, <2>2, <2>5, ServedAfter DEF Typed
<1>9. ASSUME NEW c \in Triggers, Destroy(c) PROVE Served(Cur, now, phase, deadline)'
  <2> DEFINE t == DeleteTrigger(Cur, c)
  <2>1. Become(t) /\ phase = "requests" /\ phase' = phase /\ now' = now /\ deadline' = deadline
    BY <1>9 DEF Destroy
  <2>2. /\ Typed(t) /\ t.crossed = crossed \ {c} /\ t.value = value /\ t.active = active \ {c}
        /\ Bracketed(t)
    BY <2>1, DestroyedCaused
  <2> HIDE DEF t
  <2>3. ASSUME NEW e \in t.active, Test[e].type = "PosC" PROVE Over(t, e)
    <3>1. e \in t.on /\ e \in Triggers /\ now < Test[e].at
      BY <1>0, <2>1, <2>2, <2>3, CounterNumbers DEF Served
    <3>2. value < Test[e].at
      BY <1>0, <3>1
    <3> QED BY <2>2, <2>3, <3>1, <3>2 DEF Bracketed, Above
  <2>4. Served(t, now', phase', deadline')
    BY <1>0, <2>1, <2>2, <2>3 DEF Served
  <2> QED BY <1>0, <2>1, <2>2, <2>4, ServedAfter DEF Typed
<1>10. CASE UNCHANGED vars
  <2>1. Cur' = Cur /\ Test' = Test
    BY <1>0, <1>10 DEF vars, Cur, Test
  <2> QED BY <1>10, <2>1 DEF vars, Served, Over
<1> QED BY <1>1, <1>2, <1>3, <1>4, <1>5, <1>6, <1>7, <1>8, <1>9, <1>10 DEF Next

----------------------------------------------------------------------------
(* IDLETIME where work takes no time: a falling transition that is not      *)
(* notified is one that the reset will show, since the value is above it    *)
(* still, and it happened just before; so the block handler sees it in its  *)
(* hits, at or below the lower bracket.  Nothing falls in the wait but by   *)
(* input, which ends it.                                                    *)
Fallen(s, n, r, p, i) ==
  /\ \A c \in s.crossed : Test[c].type = "NegT" =>
       s.reset /\ Test[c].at < s.value /\ p # "input" /\ (p = "requests" => r = 0)
  /\ p = "input" => Quiet(s) \/ s.value = r
  /\ i # None => i = n

LEMMA FallenAfter ==
  ASSUME NEW t \in Counter, Become(t), setup' = setup, Fallen(t, now', Real(now)', phase', input')
  PROVE  Fallen(Cur, now, Real(now), phase, input)'
<1>1. Cur' = [t EXCEPT !.fired = {}]
  BY CurAfter
<1>2. /\ Cur'.active = t.active /\ Cur'.crossed = t.crossed /\ Cur'.on = t.on /\ Cur'.reset = t.reset
      /\ Cur'.value = t.value
  BY <1>1 DEF Counter
<1>3. Test' = Test
  BY DEF Test
<1>4. Fallen(t, now', Real(now)', phase', input')
  OBVIOUS
<1> HIDE DEF Cur
<1> QED BY <1>2, <1>3, <1>4 DEF Fallen, Quiet

LEMMA FallenNext ==
  ASSUME Untouched
  PROVE  /\ CInv /\ ~Dawdles /\ Kind = "IDLETIME" /\ Fallen(Cur, now, Real(now), phase, input)
         /\ [Next]_vars
         => Fallen(Cur, now, Real(now), phase, input)'
<1> SUFFICES ASSUME CInv, ~Dawdles, Kind = "IDLETIME", Fallen(Cur, now, Real(now), phase, input), [Next]_vars
             PROVE  Fallen(Cur, now, Real(now), phase, input)'
  OBVIOUS
<1> DEFINE r == Real(now)
<1>0. /\ Placed /\ Typed(Cur) /\ Cur \in Counter /\ Living /\ setup' = setup
      /\ now \in Nat /\ r \in Nat /\ Cur.on \subseteq Triggers /\ Cur.crossed \subseteq Cur.on
      /\ Cur.on = on /\ Cur.crossed = crossed /\ Cur.value = value /\ Cur.reset = reset /\ value \in Nat
      /\ Kept(Cur) /\ (phase = "start" => ~reset)
      /\ \A c \in Triggers : Test[c].at \in Nat /\ Test[c].type \in Tests
  <2>1. Placed /\ Typed(Cur) /\ Cur \in Counter /\ Living /\ setup' = setup
    BY CurType DEF CInv, Next, vars
  <2>2. now \in Nat /\ r \in Nat
    BY <2>1, RealType, SetupType DEF Placed
  <2>3. Cur.on = on /\ Cur.crossed = crossed /\ Cur.value = value /\ Cur.reset = reset
    BY DEF Cur
  <2>4. Kept(Cur) /\ (phase = "start" => ~reset)
    BY <2>3 DEF CInv, Caused
  <2> QED BY <2>1, <2>2, <2>3, <2>4, CounterNumbers, SetupType
<1>1. now' = now /\ lastEvent' = lastEvent => Real(now)' = r
  BY <1>0 DEF Real, Kind
<1> HIDE DEF r
<1>2. /\ \A c \in crossed : Test[c].type = "NegT" =>
            reset /\ Test[c].at < value /\ phase # "input" /\ (phase = "requests" => r = 0)
      /\ phase = "input" => Quiet(Cur) \/ value = r
      /\ input # None => input = now
  BY <1>0 DEF Fallen, r
<1>3. CASE Block
  <2>1. Become(Cur) /\ phase = "requests" /\ phase' = "asleep" /\ now' = now /\ input' = input
    BY <1>3 DEF Block
  <2>2. Fallen(Cur, now', Real(now)', phase', input')
    BY <1>0, <1>2, <2>1 DEF Fallen
  <2> QED BY <1>0, <2>1, <2>2, FallenAfter
<1>4. CASE Wakeup
  <2>1. /\ Become(Woken) /\ phase = "asleep" /\ phase' = "input" /\ now' = now /\ input' = input
        /\ Real(now)' = r
    BY <1>1, <1>4, Outcomes DEF Wakeup
  <2>2. /\ Typed(Woken) /\ (Quiet(Woken) \/ Woken.value = r)
        /\ \A c \in Woken.crossed : Test[c].type = "NegT" => c \in crossed /\ ~(reset /\ Test[c].at < value)
    BY <2>1, WokenCaused DEF r
  <2>3. \A c \in Woken.crossed : Test[c].type # "NegT"
    BY <1>2, <2>2
  <2>4. Fallen(Woken, now', Real(now)', phase', input')
    BY <1>2, <2>1, <2>2, <2>3 DEF Fallen
  <2> QED BY <1>0, <2>1, <2>2, <2>4, FallenAfter DEF Typed
<1>5. CASE Arrive
  <2>1. Become(Cur) /\ phase' = phase /\ now' = now /\ input' = now /\ Real(now)' = r
    BY <1>1, <1>5 DEF Arrive
  <2>2. Fallen(Cur, now', Real(now)', phase', input')
    BY <1>0, <1>2, <2>1 DEF Fallen
  <2> QED BY <1>0, <2>1, <2>2, FallenAfter
<1>6. CASE ProcessInput
  <2>1. CASE input = None
    <3>1. Become(Cur) /\ phase = "input" /\ phase' = "requests" /\ input' = None
      BY <1>6, <2>1 DEF ProcessInput
    <3>2. Fallen(Cur, now', Real(now)', phase', input')
      BY <1>0, <1>2, <3>1 DEF Fallen
    <3> QED BY <1>0, <3>1, <3>2, FallenAfter
  <2>2. CASE input # None
    <3>1. /\ Become(Noticed) /\ phase = "input" /\ phase' = "requests" /\ input' = None
          /\ now' = now /\ lastEvent' = input /\ input = now
      BY <1>2, <1>6, <2>2, Outcomes DEF ProcessInput
    <3>2. Real(now)' = 0 /\ now - input = 0
      BY <1>0, <3>1 DEF Real, Kind
    <3>3. /\ Typed(Noticed) /\ Noticed.reset = TRUE /\ Noticed.value = value /\ Noticed.on = on
          /\ Noticed.crossed = {c \in crossed : Test[c].type = "NegT"} \cup Transitions(0, r) \cup Transitions(0, 0)
      BY <1>0, <2>2, <3>2, NoticedCaused DEF Noticed, Counter, Cur, r
    <3>4. ASSUME NEW c \in Noticed.crossed, Test[c].type = "NegT" PROVE Test[c].at < value
      <4>1. c \in on /\ (Holds(c, 0, r) \/ Holds(c, 0, 0))
        BY <1>2, <3>1, <3>3, <3>4 DEF Transitions
      <4>2. Test[c].at < r
        BY <1>0, <3>4, <4>1, HoldsBy
      <4>3. value = r
        BY <1>0, <1>2, <3>1, <3>4, <4>1 DEF Quiet, Transition
      <4> QED BY <4>2, <4>3
    <3>5. Fallen(Noticed, now', Real(now)', phase', input')
      BY <3>1, <3>2, <3>3, <3>4 DEF Fallen
    <3> QED BY <1>0, <3>1, <3>3, <3>5, FallenAfter DEF Typed
  <2> QED BY <2>1, <2>2
<1>7. CASE Query
  BY <1>0, <1>7 DEF Query, Untouched, Requests, Kind, Living
<1>8. CASE Started
  <2>1. Become(Cur) /\ phase = "start" /\ phase' = "requests" /\ now' = now /\ input' = input
    BY <1>8 DEF Started
  <2>2. Fallen(Cur, now', Real(now)', phase', input')
    BY <1>0, <1>2, <2>1 DEF Fallen
  <2> QED BY <1>0, <2>1, <2>2, FallenAfter
<1>9. CASE Tick
  <2>1. /\ Become(Aged) /\ phase = "asleep" /\ phase' = phase /\ now' = now + 1 /\ input' = input
        /\ input = None
    BY <1>9, Outcomes DEF Tick, Oversleeps
  <2>2. /\ Typed(Aged) /\ Aged.value = value /\ Aged.reset = reset
        /\ Aged.crossed = crossed \cup Transitions(Real(now + 1), Real(now))
    BY <1>0, <2>1, AgedCaused DEF Aged, Counter, Cur
  <2>3. \A c \in Transitions(Real(now + 1), Real(now)) : Test[c].type # "NegT"
    <3> SUFFICES ASSUME NEW c \in on, Holds(c, Real(now + 1), Real(now)), Test[c].type = "NegT" PROVE FALSE
      BY DEF Transitions
    <3>1. Real(now + 1) = Real(now) + 1 /\ Real(now) \in Nat
      <4>1. now \in Nat /\ lastEvent \in Nat
        BY <1>0 DEF Placed
      <4>2. Real(now) \in Nat
        BY <1>0 DEF r
      <4> QED BY <4>1, <4>2 DEF Real
    <3> QED BY <1>0, <3>1, RisingPasses
  <2>4. Fallen(Aged, now', Real(now)', phase', input')
    BY <1>2, <2>1, <2>2, <2>3 DEF Fallen
  <2> QED BY <1>0, <2>1, <2>2, <2>4, FallenAfter DEF Typed
<1>10. ASSUME NEW c \in Triggers, Create(c) PROVE Fallen(Cur, now, Real(now), phase, input)'
  <2> DEFINE t == CreateAlarm(Cur, c)
  <2>1. /\ c \notin on /\ Become(t) /\ phase' = phase /\ now' = now /\ input' = input /\ phase = "start"
    BY <1>0, <1>10 DEF Create, Untouched, Requests, Kind, Living
  <2>2. Typed(t) /\ t.crossed = crossed
    BY <2>1, CreatedCaused
  <2> HIDE DEF t
  <2>3. Fallen(t, now', Real(now)', phase', input')
    BY <1>0, <1>2, <2>1, <2>2 DEF Fallen
  <2> QED BY <1>0, <2>1, <2>2, <2>3, FallenAfter DEF Typed
<1>11. ASSUME NEW c \in Triggers, Destroy(c) PROVE Fallen(Cur, now, Real(now), phase, input)'
  <2> DEFINE t == DeleteTrigger(Cur, c)
  <2>1. /\ Become(t) /\ phase = "requests" /\ phase' = phase /\ now' = now /\ input' = input
        /\ Real(now)' = r
    BY <1>1, <1>11 DEF Destroy
  <2>2. /\ Typed(t) /\ t.crossed = crossed \ {c} /\ t.value = value
        /\ reset /\ ~t.reset => Quiet(t)
    BY <2>1, DestroyedCaused
  <2> HIDE DEF t
  <2>3. ASSUME NEW e \in t.crossed, Test[e].type = "NegT"
        PROVE  t.reset /\ Test[e].at < value /\ r = 0
    <3>1. reset /\ Test[e].at < value /\ r = 0 /\ e \in t.on
      BY <1>2, <2>1, <2>2, <2>3 DEF Typed
    <3> QED BY <2>2, <2>3, <3>1 DEF Quiet, Transition
  <2>4. Fallen(t, now', Real(now)', phase', input')
    BY <1>2, <2>1, <2>2, <2>3 DEF Fallen
  <2> QED BY <1>0, <2>1, <2>2, <2>4, FallenAfter DEF Typed
<1>12. CASE UNCHANGED vars
  <2>1. Cur' = Cur /\ Test' = Test /\ Real(now)' = Real(now)
    BY <1>0, <1>12 DEF vars, Cur, Test, Real, Kind
  <2> QED BY <1>12, <2>1 DEF vars, Fallen, Quiet
<1> QED BY <1>3, <1>4, <1>5, <1>6, <1>7, <1>8, <1>9, <1>10, <1>11, <1>12 DEF Next

(* What is due on IDLETIME. *)
LEMMA DueOnIdle ==
  ASSUME Kind = "IDLETIME", CInv
  PROVE  \A c : c \in Due <=> \/ c \in crossed /\ Test[c].type = "NegT"
                              \/ c \in active /\ Test[c].type = "NegC" /\ Real(now) <= Test[c].at
<1>1. \A c \in active : c \in Triggers
  BY CurType DEF CInv, Typed, Counter, Cur
<1>2. Real(now) \in Nat /\ Living
  BY CurType, RealType, SetupType DEF CInv
<1>3. \A c \in active : Test[c].type = "NegC" => (Holds(c, Real(now), Real(now)) <=> Real(now) <= Test[c].at)
  BY <1>1, <1>2, HoldsBy
<1> QED BY <1>3 DEF Due, NeverDecreases

LEMMA ServedInTime ==
  ASSUME CInv, Kind = "SERVERTIME", Served(Cur, now, phase, deadline)
  PROVE  NeverSleepsOnAlarm
<1> SUFFICES ASSUME phase = "asleep", NEW c \in Due PROVE Oversleeps
  BY DEF NeverSleepsOnAlarm
<1>0. /\ Living /\ now \in Nat /\ Real(now) = now /\ active \subseteq Triggers /\ deadline \in Int
      /\ Cur.active = active /\ Cur.crossed = crossed
      /\ \A e \in Triggers : Test[e].at \in Nat /\ Test[e].type \in Tests
  <2>1. Placed /\ Typed(Cur) /\ Living
    BY CurType DEF CInv
  <2>2. deadline \in Int
    BY <2>1 DEF Placed, None
  <2> QED BY <2>1, <2>2, RealType, SetupType DEF Typed, Counter, Cur, Placed
<1>1. c \in active /\ Test[c].type \in {"NegC", "PosC"} /\ Holds(c, now, now)
  BY <1>0 DEF Due, Served
<1>2. CASE Test[c].type = "NegC"
  <2>1. now <= Test[c].at /\ Test[c].at < now /\ Test[c].at \in Nat
    BY <1>0, <1>1, <1>2, HoldsBy DEF Served
  <2> QED BY <1>0, <2>1
<1>3. CASE Test[c].type = "PosC"
  <2>1. /\ Test[c].at <= now /\ Test[c].at \in Nat
        /\ deadline # None /\ deadline <= Test[c].at
    BY <1>0, <1>1, <1>3, HoldsBy DEF Served
  <2> QED BY <1>0, <2>1 DEF Oversleeps
<1> QED BY <1>1, <1>2, <1>3

(* IdleTimeBlockHandler asks for no delay when an alarm is due. *)
LEMMA IdleTimeEndsNow ==
  ASSUME CInv, Kind = "IDLETIME", phase = "requests", Fallen(Cur, now, Real(now), phase, input),
         NEW c \in Due
  PROVE  0 \in Delays
<1> DEFINE r == Real(now)
           hits == {e \in on : Holds(e, r, value)}
<1>0. /\ Typed(Cur) /\ Living /\ r \in Nat /\ value \in Nat /\ less \in Int /\ (less # None => less \in Nat)
      /\ Kept(Cur) /\ crossed \subseteq on /\ active \subseteq on /\ on \subseteq Triggers
      /\ Cur.crossed = crossed /\ Cur.active = active /\ Cur.on = on /\ Cur.value = value
      /\ Cur.less = less
      /\ \A e \in on : Test[e].at \in Nat
  <2>1. Typed(Cur) /\ Living /\ r \in Nat /\ Kept(Cur)
    BY CurType, RealType, SetupType DEF CInv, Caused
  <2>2. /\ Cur.crossed = crossed /\ Cur.active = active /\ Cur.on = on /\ Cur.value = value
        /\ Cur.less = less
    BY DEF Cur
  <2> QED BY <2>1, <2>2, CounterNumbers
<1>1. CASE c \in crossed /\ Test[c].type = "NegT"
  <2>1. Test[c].at < value /\ r = 0 /\ c \in on /\ Test[c].at \in Nat
    BY <1>0, <1>1 DEF Fallen
  <2>2. less # None /\ Test[c].at <= less
    BY <1>0, <1>1, <2>1 DEF Kept, Marked, Beneath
  <2> QED BY <1>0, <1>1, <2>1, <2>2, HoldsBy DEF Delays, IdleTimeDelays
<1>2. CASE c \in active /\ Test[c].type = "NegC" /\ r <= Test[c].at
  <2>1. less # None /\ Test[c].at <= less /\ c \in on /\ c \in Triggers /\ Test[c].at \in Nat
    BY <1>0, <1>2 DEF Kept, Armed, Beneath
  <2>2. Holds(c, r, value)
    BY <1>0, <1>2, <2>1, HoldsBy
  <2>3. c \in hits /\ r <= less /\ ~(r > less)
    BY <1>0, <1>2, <2>1, <2>2
  <2> QED BY <2>1, <2>3 DEF Delays, IdleTimeDelays
<1> QED BY <1>1, <1>2, DueOnIdle

LEMMA IdleInTimeNext ==
  ASSUME Untouched
  PROVE  /\ CInv /\ ~Dawdles /\ Kind = "IDLETIME" /\ Fallen(Cur, now, Real(now), phase, input)
         /\ NeverSleepsOnAlarm /\ [Next]_vars
         => NeverSleepsOnAlarm'
<1> SUFFICES ASSUME CInv, ~Dawdles, Kind = "IDLETIME", Fallen(Cur, now, Real(now), phase, input),
                    NeverSleepsOnAlarm, [Next]_vars, phase' = "asleep", NEW c \in Due'
             PROVE  Oversleeps'
  BY DEF NeverSleepsOnAlarm
<1>0. /\ CInv' /\ Placed /\ Living /\ setup' = setup /\ Kind' = Kind /\ Test' = Test
      /\ now \in Nat /\ lastEvent \in Nat /\ Cur \in Counter
      /\ \A e \in Triggers : Test[e].at \in Nat
  BY CausedNext, CurType, SetupType DEF CInv, Next, vars, Kind, Test, Placed
<1>1. \/ c \in crossed' /\ Test[c].type = "NegT"
      \/ c \in active' /\ Test[c].type = "NegC" /\ Real(now)' <= Test[c].at
  BY <1>0 DEF Due, NeverDecreases, Holds
<1>2. CASE Block
  <2>1. /\ phase = "requests" /\ Become(Cur) /\ now' = now /\ lastEvent' = lastEvent
        /\ deadline' = IF Delays = {} THEN None ELSE now + Min(Delays)
    BY <1>2 DEF Block
  <2>2. crossed' = crossed /\ active' = active /\ Real(now)' = Real(now)
    BY <1>0, <2>1 DEF Become, Cur, Real, Kind
  <2>3. c \in Due
    BY <1>1, <2>2, DueOnIdle
  <2>4. 0 \in Delays /\ Delays \subseteq Nat
    BY <2>1, <2>3, IdleTimeEndsNow, DelaysType DEF CInv
  <2> HIDE DEF Delays
  <2>5. Min(Delays) = 0
    <3>1. Min(Delays) \in Delays /\ Min(Delays) <= 0
      BY <2>4, MinOf
    <3>2. Min(Delays) \in Nat
      BY <2>4, <3>1
    <3> HIDE DEF Min
    <3> QED BY <3>1, <3>2
  <2>6. deadline' = now
    BY <1>0, <2>1, <2>4, <2>5
  <2> QED BY <1>0, <2>1, <2>6 DEF Oversleeps, None
<1>3. CASE Arrive
  <2>1. input' = now
    BY <1>3 DEF Arrive
  <2> QED BY <1>0, <2>1 DEF Oversleeps, None
<1>4. CASE Tick
  <2>1. phase = "asleep" /\ ~Oversleeps /\ Become(Aged) /\ now' = now + 1 /\ lastEvent' = lastEvent
    BY <1>4, Outcomes DEF Tick
  <2>2. /\ crossed' = crossed \cup Transitions(Real(now + 1), Real(now)) /\ active' = active
        /\ active \subseteq Triggers /\ on \subseteq Triggers
    BY <1>0, <2>1 DEF Become, Aged, Cur, Counter
  <2>3. Real(now)' = Real(now) + 1 /\ Real(now + 1) = Real(now) + 1 /\ Real(now) \in Int
    BY <1>0, <2>1 DEF Real, Kind
  <2>4. \A e \in Transitions(Real(now + 1), Real(now)) : Test[e].type # "NegT"
    <3> SUFFICES ASSUME NEW e \in on, Holds(e, Real(now + 1), Real(now)), Test[e].type = "NegT" PROVE FALSE
      BY DEF Transitions
    <3> QED BY <1>0, <2>2, <2>3, RisingPasses
  <2>5. c \in Due
    <3>1. CASE c \in crossed' /\ Test[c].type = "NegT"
      BY <2>2, <2>4, <3>1, DueOnIdle
    <3>2. CASE c \in active' /\ Test[c].type = "NegC" /\ Real(now)' <= Test[c].at
      <4>1. c \in active /\ Test[c].at \in Nat
        BY <1>0, <2>2, <3>2
      <4>2. Real(now) <= Test[c].at
        BY <2>3, <3>2, <4>1
      <4> QED BY <3>2, <4>1, <4>2, DueOnIdle
    <3> QED BY <1>1, <3>1, <3>2
  <2> QED BY <2>1, <2>5 DEF NeverSleepsOnAlarm
<1>5. CASE UNCHANGED vars
  <2>1. crossed' = crossed /\ active' = active /\ Real(now)' = Real(now) /\ phase = "asleep"
    BY <1>0, <1>5 DEF vars, Real, Kind
  <2>2. c \in Due
    BY <1>1, <2>1, DueOnIdle
  <2>3. Oversleeps
    BY <2>1, <2>2 DEF NeverSleepsOnAlarm
  <2> QED BY <1>5, <2>3 DEF vars, Oversleeps
<1>6. ~(Wakeup \/ ProcessInput \/ Started)
  BY DEF Wakeup, ProcessInput, Started
<1>7. ~Query
  BY DEF Query
<1>8. \A e \in Triggers : ~Create(e) /\ ~Destroy(e)
  BY DEF Create, Destroy
<1> QED BY <1>2, <1>3, <1>4, <1>5, <1>6, <1>7, <1>8 DEF Next

(* The invariant of the waits. *)
WInv ==
  /\ CInv
  /\ ~Dawdles /\ Kind = "SERVERTIME" => Served(Cur, now, phase, deadline)
  /\ ~Dawdles /\ Kind = "IDLETIME" => Fallen(Cur, now, Real(now), phase, input) /\ NeverSleepsOnAlarm

LEMMA WatchedInit == Init => WInv
<1> SUFFICES ASSUME Init PROVE WInv
  OBVIOUS
<1>1. CInv
  BY CausedInit
<1>2. Served(Cur, now, phase, deadline) /\ Fallen(Cur, now, Real(now), phase, input)
  BY DEF Init, Cur, Served, Fallen
<1>3. NeverSleepsOnAlarm
  BY DEF Init, NeverSleepsOnAlarm
<1> QED BY <1>1, <1>2, <1>3 DEF WInv

LEMMA WatchedNext ==
  ASSUME Untouched
  PROVE  WInv /\ [Next]_vars => WInv'
<1> SUFFICES ASSUME WInv, [Next]_vars PROVE WInv'
  OBVIOUS
<1>1. CInv' /\ Kind' = Kind /\ Dawdles' = Dawdles
  BY CausedNext DEF WInv, Next, vars, Kind, Dawdles
<1>2. ~Dawdles /\ Kind = "SERVERTIME" => Served(Cur, now, phase, deadline)'
  BY ServedNext DEF WInv
<1>3. ~Dawdles /\ Kind = "IDLETIME"
        => Fallen(Cur, now, Real(now), phase, input)' /\ NeverSleepsOnAlarm'
  BY FallenNext, IdleInTimeNext DEF WInv
<1> QED BY <1>1, <1>2, <1>3 DEF WInv

(* The brackets are test values of triggers that live, and they end the     *)
(* main wait when an alarm that waits for the counter to fall, or a         *)
(* comparison with SERVERTIME, is due (SyncComputeBracketValues,            *)
(* ServertimeBlockHandler, IdleTimeBlockHandler).                           *)
THEOREM EndsInTime ==
  ASSUME Untouched
  PROVE  Spec => []BracketsSound
<1>1. WInv /\ [Next]_vars => WInv'
  BY WatchedNext
<1>2. WInv => NeverSleepsOnAlarm
  <2> SUFFICES ASSUME WInv PROVE NeverSleepsOnAlarm
    OBVIOUS
  <2>1. Kind \in {"SERVERTIME", "IDLETIME"}
    BY CurType, SetupType DEF WInv, CInv
  <2> QED BY <2>1, ServedInTime DEF WInv, NeverSleepsOnAlarm
<1> QED BY <1>1, <1>2, WatchedInit, TypeCorrect, PTL DEF Spec, BracketsSound
=============================================================================
