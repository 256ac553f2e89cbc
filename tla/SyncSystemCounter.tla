------------------------- MODULE SyncSystemCounter -------------------------
(****************************************************************************)
(* A system counter of the SYNC extension (Xext/sync.c): SERVERTIME, the     *)
(* server's clock, or IDLETIME, the time since the last input event.  The    *)
(* server does not watch it: after every change of the counter's triggers it *)
(* computes the nearest test values on both sides of the counter (the        *)
(* brackets), the block handler turns them into a time-out of the main wait, *)
(* and the wakeup handler looks whether the counter has reached a bracket.   *)
(*                                                                           *)
(* The module follows the main loop: input, requests, block handler, sleep,  *)
(* wakeup handler.  Triggers are alarms with delta 0, so that a comparison   *)
(* fires once and a transition every time.  Time passes in the wait, but     *)
(* the wait ends when its time-out does or input arrives.  With Dawdles, it  *)
(* passes while the server works too.                                        *)
(****************************************************************************)
EXTENDS Integers, FiniteSets, FiniteSetsExt

CONSTANTS
  Triggers,
  MaxTime,     \* bound: last millisecond
  Setups       \* the counters and the clients considered: records of the
               \* counter's kind, the test of each trigger, what clients do
               \* besides creating alarms at the start ("create", "destroy",
               \* "query"), and whether time passes while the server works

Tests == {"PosC", "NegC", "PosT", "NegT"}
None == -1               \* NULL bracket, no time-out, no input
Times == 0..MaxTime
MayBeTime == Times \cup {None}

ASSUME SystemCounterAssumption ==
  /\ MaxTime \in Nat
  /\ Setups \subseteq [kind : {"SERVERTIME", "IDLETIME"},
                       test : [Triggers -> [type : Tests, at : Times]],
                       requests : SUBSET {"create", "destroy", "query"},
                       dawdles : BOOLEAN]

VARIABLES
  setup,              \* the one of Setups that this server lives in
  now, lastEvent,     \* GetTimeInMillis, lastDeviceEventTime.time
  reset,              \* lastDeviceEventTime.reset
  input,              \* time of a queued input event
  value,              \* SyncCounter.value
  on, active,         \* triggers on the counter's list, alarms in state Active
  less, greater,      \* the brackets handed to BracketValues
  phase,              \* of the main loop: "start", "input", "requests", "asleep"
  deadline,           \* when the main wait times out
  crossed,            \* transitions of the real counter not yet notified
  fired               \* alarms fired in the last step

vars == <<setup, now, lastEvent, reset, input, value, on, active, less, greater,
          phase, deadline, crossed, fired>>

Kind == setup.kind
Test == setup.test
Requests == setup.requests
Dawdles == setup.dawdles

Cur == [value |-> value, on |-> on, active |-> active, less |-> less,
        greater |-> greater, reset |-> reset, crossed |-> crossed, fired |-> {}]

Become(new) ==
  \E s \in {new} :
    /\ value' = s.value /\ on' = s.on /\ active' = s.active /\ less' = s.less
    /\ greater' = s.greater /\ reset' = s.reset /\ crossed' = s.crossed
    /\ fired' = s.fired

(* QueryValue: what the counter would say at time t.                        *)
Real(t) == IF Kind = "SERVERTIME" THEN t ELSE t - lastEvent

Holds(c, v, old) ==
  LET at == Test[c].at
  IN CASE Test[c].type = "PosC" -> v >= at
       [] Test[c].type = "NegC" -> v <= at
       [] Test[c].type = "PosT" -> old < at /\ v >= at
       [] Test[c].type = "NegT" -> old > at /\ v <= at

Transitions(v, old) ==
  {c \in on : Test[c].type \in {"PosT", "NegT"} /\ Holds(c, v, old)}

----------------------------------------------------------------------------
(* SyncComputeBracketValues                                                 *)

NeverDecreases == Kind = "SERVERTIME"    \* no system counter never increases

BracketsGreater(s) ==
  {c \in s.on : \/ Test[c].type = "PosC" /\ s.value < Test[c].at
                \/ Test[c].type = "NegC" /\ ~NeverDecreases /\ s.value < Test[c].at
                \/ Test[c].type = "NegT" /\ s.value < Test[c].at
                \/ Test[c].type = "PosT" /\ ~NeverDecreases /\ s.value <= Test[c].at}

BracketsLessMutantStrict(s) ==
  {c \in s.on : \/ Test[c].type = "PosC" /\ s.value > Test[c].at
                \/ Test[c].type = "NegC" /\ ~NeverDecreases /\ s.value > Test[c].at
                \/ Test[c].type = "NegT" /\ s.value > Test[c].at
                \/ Test[c].type = "PosT" /\ ~NeverDecreases /\ s.value > Test[c].at}

BracketsLess(s) ==
  {c \in s.on : \/ Test[c].type = "PosC" /\ s.value > Test[c].at
                \/ Test[c].type = "NegC" /\ ~NeverDecreases /\ s.value > Test[c].at
                \/ Test[c].type = "NegT" /\ s.value >= Test[c].at
                \/ Test[c].type = "PosT" /\ ~NeverDecreases /\ s.value > Test[c].at}

(* IdleTimeBracketValues clears the reset flags when it registers the       *)
(* handlers.                                                                *)
ComputeBrackets(s) ==
  LET above == {Test[c].at : c \in BracketsGreater(s)}
      below == {Test[c].at : c \in BracketsLess(s)}
      idle  == s.less = None /\ s.greater = None /\ above \cup below # {}
  IN [s EXCEPT !.greater = IF above = {} THEN None ELSE Min(above),
               !.less = IF below = {} \/ Kind = "SERVERTIME" THEN None ELSE Max(below),
               !.reset = @ /\ ~(Kind = "IDLETIME" /\ idle)]

(* SyncAlarmTriggerFired with delta 0.                                      *)
Fire(s, cs) ==
  [s EXCEPT !.fired = @ \cup (cs \cap s.active),
            !.active = @ \ {c \in cs : Test[c].type \in {"PosC", "NegC"}},
            !.crossed = @ \ cs]

(* SyncChangeCounter                                                        *)
ChangeCounter(s, v) ==
  ComputeBrackets(Fire([s EXCEPT !.value = v], {c \in s.on : Holds(c, v, s.value)}))

----------------------------------------------------------------------------
(* Block handlers: the set of delays they ask for.                          *)

ServertimeDelays ==
  IF greater = None THEN {} ELSE {IF now >= greater THEN 0 ELSE greater - now}

IdleTimeDelays ==
  LET idle   == Real(now)
      hits   == {c \in on : Holds(c, idle, value)}
      dawdle == less # None /\ idle > less /\ reset
      under  == less # None /\ idle <= less
  IN CASE dawdle -> {0}
       [] under  -> (IF hits = {} THEN {} ELSE {0}) \cup (IF idle = less THEN {1} ELSE {})
       [] greater # None /\ ~dawdle /\ ~under ->
            IF idle < greater THEN {greater - idle}
            ELSE IF hits = {} THEN {} ELSE {0}
       [] OTHER -> {}

Delays == IF Kind = "SERVERTIME" THEN ServertimeDelays ELSE IdleTimeDelays

Block ==
  /\ phase = "requests"
  /\ phase' = "asleep"
  /\ deadline' = IF Delays = {} THEN None ELSE now + Min(Delays)
  /\ Become(Cur)
  /\ UNCHANGED <<now, lastEvent, input>>

(* Wakeup handlers                                                          *)

ServertimeWakeup(s) == IF s.greater # None /\ now >= s.greater THEN ChangeCounter(s, now) ELSE s

CheckBrackets(s, idle) ==
  IF \/ s.greater # None /\ idle >= s.greater
     \/ s.less # None /\ idle <= s.less
  THEN ChangeCounter(s, idle) ELSE [s EXCEPT !.value = idle]

IdleTimeWakeupMutantKeepsReset(s) ==
  LET idle == Real(now)
      zero == IF s.reset /\ idle # 0 THEN CheckBrackets(s, 0) ELSE s
  IN IF s.less = None /\ s.greater = None THEN s ELSE CheckBrackets(zero, idle)

IdleTimeWakeup(s) ==
  LET idle == Real(now)
      zero == IF s.reset /\ idle # 0
              THEN CheckBrackets([s EXCEPT !.reset = FALSE], 0)
              ELSE [s EXCEPT !.reset = FALSE]
  IN IF s.less = None /\ s.greater = None THEN s ELSE CheckBrackets(zero, idle)

Wakeup ==
  /\ phase = "asleep"
  /\ phase' = "input" /\ deadline' = None
  /\ Become(IF Kind = "SERVERTIME" THEN ServertimeWakeup(Cur) ELSE IdleTimeWakeup(Cur))
  /\ UNCHANGED <<now, lastEvent, input>>

----------------------------------------------------------------------------
(* Input: an event is queued with its time, and processed by the main loop  *)
(* (NoticeTime).                                                            *)
Arrive ==
  /\ Kind = "IDLETIME" /\ input = None /\ phase # "start"
  /\ input' = now
  /\ Become(Cur)
  /\ UNCHANGED <<now, lastEvent, phase, deadline>>

(* The real counter falls to zero at the event and has since grown again; a *)
(* threshold that it had just reached is forgotten.                         *)
ProcessInput ==
  /\ phase = "input"
  /\ phase' = "requests"
  /\ IF input = None
     THEN Become(Cur) /\ UNCHANGED lastEvent
     ELSE /\ lastEvent' = input
          /\ Become([Cur EXCEPT !.reset = TRUE,
                       !.crossed = {c \in @ : Test[c].type = "NegT"}
                                     \cup Transitions(0, Real(now))
                                     \cup Transitions(now - input, 0)])
  /\ input' = None
  /\ UNCHANGED <<now, deadline>>

(* Requests                                                                 *)
CreateAlarm(s, c) ==
  LET new == ComputeBrackets([s EXCEPT !.value = Real(now), !.on = @ \cup {c},
                                       !.active = @ \cup {c}])
  IN IF Holds(c, new.value, new.value) THEN Fire(new, {c}) ELSE new

Create(c) ==
  /\ \/ phase = "start"
     \/ phase = "requests" /\ "create" \in Requests
  /\ c \notin on
  /\ Become(CreateAlarm(Cur, c))
  /\ UNCHANGED <<now, lastEvent, input, phase, deadline>>

(* SyncDeleteTriggerFromSyncObject *)
DeleteTrigger(s, c) ==
  ComputeBrackets([s EXCEPT !.on = @ \ {c}, !.active = @ \ {c}, !.crossed = @ \ {c}])

Destroy(c) ==
  /\ phase = "requests" /\ "destroy" \in Requests /\ c \in on
  /\ Become(DeleteTrigger(Cur, c))
  /\ UNCHANGED <<now, lastEvent, input, phase, deadline>>

Query ==
  /\ phase = "requests" /\ "query" \in Requests
  /\ Become([Cur EXCEPT !.value = Real(now)])
  /\ UNCHANGED <<now, lastEvent, input, phase, deadline>>

Started ==
  /\ phase = "start" /\ phase' = "requests"
  /\ Become(Cur)
  /\ UNCHANGED <<now, lastEvent, input, deadline>>

Oversleeps == /\ phase = "asleep"
              /\ input # None \/ (deadline # None /\ now >= deadline)

Tick ==
  /\ now < MaxTime /\ ~Oversleeps
  /\ phase = "asleep" \/ (Dawdles /\ phase # "start")
  /\ now' = now + 1
  /\ Become([Cur EXCEPT !.crossed = @ \cup Transitions(Real(now + 1), Real(now))])
  /\ UNCHANGED <<lastEvent, input, phase, deadline>>

----------------------------------------------------------------------------
Init ==
  /\ setup \in Setups
  /\ now \in Times /\ lastEvent = 0 /\ reset = FALSE /\ input = None /\ value = 0
  /\ on = {} /\ active = {} /\ less = None /\ greater = None
  /\ phase = "start" /\ deadline = None /\ crossed = {} /\ fired = {}

Next ==
  /\ \/ Block \/ Wakeup \/ Arrive \/ ProcessInput \/ Query \/ Started \/ Tick
     \/ \E c \in Triggers : Create(c) \/ Destroy(c)
  /\ UNCHANGED setup

Spec == Init /\ [][Next]_vars

----------------------------------------------------------------------------
(* Brackets are test values of triggers on the list, and a fired comparison *)
(* alarm is on the list still.                                              *)
TypeOK ==
  /\ now \in Times /\ lastEvent \in Times /\ input \in MayBeTime
  /\ value \in Times /\ less \in MayBeTime /\ greater \in MayBeTime
  /\ active \subseteq on /\ crossed \subseteq on
  /\ {less, greater} \subseteq {None} \cup {Test[c].at : c \in on}

Due ==
  {c \in crossed : Test[c].type = "NegT"} \cup
  {c \in active : /\ Test[c].type = "NegC" \/ (Test[c].type = "PosC" /\ NeverDecreases)
                  /\ Holds(c, Real(now), Real(now))}

(* The server never sleeps on when an alarm is due: a comparison holds, or   *)
(* the counter has fallen past a test value.  The time-out it asked for ends *)
(* at the nearest bracket (block handlers, SyncComputeBracketValues).  It is *)
(* promised where the server's own work takes no time; on IDLETIME only to   *)
(* alarms that wait for the counter to fall, the user to come back:          *)
(* LateComparisons, LateTransitions.                                         *)
NeverSleepsOnAlarm == phase = "asleep" /\ ~Dawdles /\ Due # {} => Oversleeps

(* The brackets are test values of triggers that live, and they end the wait *)
(* in time.                                                                  *)
BracketsSound == TypeOK /\ NeverSleepsOnAlarm

(* The same for positive comparisons on IDLETIME.  The code does not keep    *)
(* it: at or below the lower bracket, and at an upper bracket that does not  *)
(* fire, the block handler asks for no time-out for what is above            *)
(* (IdleTimeBlockHandler).                                                   *)
LateComparisons ==
  phase = "asleep" /\ ~Dawdles /\ (\E c \in active : Test[c].type = "PosC" /\ Holds(c, Real(now), value))
    => Oversleeps

(* The same for transitions above a test value.  The code does not keep it: *)
(* SERVERTIME brackets no PosT trigger, and the block handler of IDLETIME   *)
(* computes the sleep from a value that already holds.                      *)
LateTransitions == phase = "asleep" /\ crossed # {} => Oversleeps

(* A transition alarm fires only if the counter really passed its test      *)
(* value since the last time (IdleTimeWakeupHandler, SyncChangeCounter).    *)
TransitionsForCause ==
  [][\A c \in fired' : Test[c].type \in {"PosT", "NegT"} => c \in crossed]_vars

(* Every transition of the counter is notified before the server sleeps     *)
(* again: changing the counter's value without SyncChangeCounter loses one  *)
(* ("This function should always be used to change a counter's value so     *)
(* that any triggers depending on the counter will be checked").            *)
NoTransitionSwallowed ==
  \A c \in crossed : Test[c].type = "PosT" => value < Test[c].at
=============================================================================
