----------------------------- MODULE SyncCounter -----------------------------
(****************************************************************************)
(* The SYNC extension (Xext/sync.c, miext/sync/misync.c): counters and       *)
(* fences that clients change, alarms that notify when a counter passes a    *)
(* value, and Await requests that block a client.  Every counter and fence   *)
(* keeps a list of the triggers interested in it, and every change of the    *)
(* object walks that list and calls back into alarms and awaits, which may   *)
(* take triggers off this list and others.                                   *)
(*                                                                           *)
(* A request is one action: the server is one thread.  Each C function is an *)
(* operator from state to state over the record Cur.  Closing a connection   *)
(* frees its resources in the order of the resource table, which is any      *)
(* order: one resource is one step, and no request runs in between.          *)
(*                                                                           *)
(* A trigger is named <<owner, i>>: <<alarm, 0>>, or condition i of the      *)
(* client's Await.  Ids of counters and fences are used once, so that an id  *)
(* stands for the pointer.  INT64 is MinInt..MaxInt.                         *)
(****************************************************************************)
EXTENDS Integers, FiniteSets, SequencesExt

CONSTANTS
  Clients, Counters, Fences, Alarms,
  Owner,               \* the client whose id range a counter, fence or alarm is in
  NoObj, NoClient,     \* None
  MinInt, MaxInt,      \* INT64
  Values,              \* values clients give to SetCounter
  Steps,               \* amounts clients give to ChangeCounter
  Waits,               \* the condition lists clients give to Await
  FenceWaits,          \* the fence lists clients give to AwaitFence
  NewAlarms, Changes   \* attributes clients give to CreateAlarm, ChangeAlarm

Objects == Counters \cup Fences
Int64 == MinInt..MaxInt
TriggerIds == (Alarms \X {0}) \cup (Clients \X Nat)
Tests == {"PosC", "NegC", "PosT", "NegT"}
Comparisons == {"PosC", "NegC"}

ASSUME RangeAssumption ==
  MinInt \in Int /\ MaxInt \in Int /\ MinInt < 0 /\ 0 < MaxInt
ASSUME SyncInputAssumption ==
  /\ Values \subseteq Int64 /\ Steps \subseteq Int64
  /\ \A w \in Waits : \A i, j \in DOMAIN w : i # j => w[i].obj # w[j].obj
  /\ \A w \in FenceWaits : \A i, j \in DOMAIN w : i # j => w[i] # w[j]
  /\ NoObj \notin Objects /\ NoClient \notin Clients
  /\ Owner \in [Objects \cup Alarms -> Clients]

VARIABLES
  life,     \* SyncObject: "none", "live" or "freed"
  value,    \* SyncCounter.value
  lit,      \* SyncFence.triggered
  list,     \* SyncObject.pTriglist
  alarm,    \* SyncAlarm
  await,    \* the SyncAwaits of each client's Await in progress
  ignored,  \* clients whose requests are not read (IgnoreClient)
  gone,     \* clientGone
  closing,  \* the client whose resources are being freed
  halted,   \* "no", "freed" (freed memory is read), "hang" (endless loop)
  sent      \* events of the last step

vars == <<life, value, lit, list, alarm, await, ignored, gone, closing, halted, sent>>

(* The part of the state the handlers transform; doomed is the object whose *)
(* beingDestroyed is set.                                                   *)
Cur == [life |-> life, value |-> value, lit |-> lit, list |-> list,
        alarm |-> alarm, await |-> await, ignored |-> ignored, gone |-> gone,
        halted |-> halted, sent |-> {}, doomed |-> NoObj]

Become(new) ==
  \E s \in {new} :
    /\ life' = s.life /\ value' = s.value /\ lit' = s.lit /\ list' = s.list
    /\ alarm' = s.alarm /\ await' = s.await /\ ignored' = s.ignored
    /\ gone' = s.gone /\ halted' = s.halted /\ sent' = s.sent

NoAlarm == [life |-> "none", obj |-> NoObj, vtype |-> "abs", wait |-> 0,
            ttype |-> "PosC", check |-> "PosC", test |-> 0, delta |-> 1]

----------------------------------------------------------------------------
(* Triggers                                                                 *)

Exists(s, id) == IF id[1] \in Alarms THEN s.alarm[id[1]].life # "none"
                                     ELSE id[2] \in DOMAIN s.await[id[1]]

Trigger(s, id) == IF id[1] \in Alarms THEN s.alarm[id[1]] ELSE s.await[id[1]][id[2]]

(* The five CheckTrigger functions: the counter went from old to v.         *)
Holds(check, v, old, test) ==
  \/ check = "PosC" /\ v >= test
  \/ check = "NegC" /\ v <= test
  \/ check = "PosT" /\ old < test /\ v >= test
  \/ check = "NegT" /\ old > test /\ v <= test

CheckTrigger(s, t, old) ==
  \/ t.obj = NoObj
  \/ t.check = "fence" /\ s.lit[t.obj]
  \/ t.check \in Tests /\ t.obj # NoObj /\ Holds(t.check, s.value[t.obj], old, t.test)

DeleteTrigger(s, id, o) ==
  CASE o = NoObj            -> s
    [] s.life[o] = "freed"  -> [s EXCEPT !.halted = "freed"]
    [] OTHER                -> [s EXCEPT !.list[o] = SelectSeq(@, LAMBDA x : x # id)]

AddTrigger(s, id, o) ==
  IF o = NoObj \/ Contains(s.list[o], id) THEN s
  ELSE [s EXCEPT !.list[o] = <<id>> \o @]

(* checked_int64_add: the sum modulo the range, and whether it overflowed.  *)
Overflows(x) == x \notin Int64
Wrap(x) == MinInt + ((x - MinInt) % (MaxInt - MinInt + 1))

(* SyncInitTrigger: t is the trigger with the fields the request gave, ch   *)
(* the fields it gave.  A failure leaves what was assigned before it.       *)
InitTrigger(s, id, t, obj, ch) ==
  LET look == "counter" \in ch
      new  == look /\ obj # t.obj
      t1   == IF new THEN [t EXCEPT !.obj = obj] ELSE t
      t2   == IF "ttype" \notin ch THEN t1
              ELSE [t1 EXCEPT !.check = IF t1.obj \in Fences THEN "fence" ELSE t1.ttype]
      sum  == s.value[t2.obj] + t2.wait
      t3   == CASE ch \cap {"vtype", "value"} = {} -> t2
                [] t2.vtype = "abs"                 -> [t2 EXCEPT !.test = t2.wait]
                [] t2.obj \in Counters              -> [t2 EXCEPT !.test = Wrap(sum)]
                [] OTHER                            -> t2
      bad  == /\ ch \cap {"vtype", "value"} # {} /\ t2.vtype = "rel"
              /\ t2.obj \notin Counters \/ Overflows(sum)
      cut  == IF new THEN DeleteTrigger(s, id, t.obj) ELSE s
  IN CASE look /\ obj # NoObj /\ s.life[obj] # "live" -> [s |-> s, t |-> t, ok |-> FALSE]
       [] bad   -> [s |-> cut, t |-> t3, ok |-> FALSE]
       [] OTHER -> [s |-> IF new THEN AddTrigger(cut, id, obj) ELSE cut,
                    t |-> t3, ok |-> TRUE]

----------------------------------------------------------------------------
(* What triggers call back                                                  *)

SendAlarmNotify(s, a) ==
  [s EXCEPT !.sent = @ \cup {[kind |-> "alarm", to |-> a, test |-> s.alarm[a].test,
                              state |-> s.alarm[a].life]}]

(* The test value of an alarm that fired at counter value v: delta is added *)
(* until the trigger is false.                                              *)
SteppedMutantOnce(t, v) ==
  [to |-> t.test + t.delta, ends |-> TRUE, over |-> Overflows(t.test + t.delta)]

Stepped(t, v) ==
  LET nth(k) == t.test + k * t.delta
      stops  == {k \in 1..(MaxInt - MinInt + 1) :
                   Overflows(nth(k)) \/ ~Holds(t.check, v, v, nth(k))}
      first  == CHOOSE k \in stops : \A j \in stops : k <= j
  IN IF stops = {} THEN [to |-> t.test, ends |-> FALSE, over |-> FALSE]
     ELSE [to |-> nth(first), ends |-> TRUE, over |-> Overflows(nth(first))]

AlarmTriggerFired(s, a) ==
  LET t   == s.alarm[a]
      off == t.obj = NoObj \/ (t.delta = 0 /\ t.ttype \in Comparisons)
      n   == Stepped(t, s.value[t.obj])
  IN CASE t.life # "Active" -> s
       [] off -> SendAlarmNotify([s EXCEPT !.alarm[a].life = "Inactive"], a)
       [] ~n.ends -> [s EXCEPT !.halted = "hang"]
       [] n.over  -> SendAlarmNotify([s EXCEPT !.alarm[a].life = "Inactive"], a)
       [] OTHER   -> [SendAlarmNotify(s, a) EXCEPT !.alarm[a].test = n.to]

AlarmCounterDestroyed(s, a) ==
  [SendAlarmNotify([s EXCEPT !.alarm[a].life = "Inactive"], a)
     EXCEPT !.alarm[a].obj = NoObj]

(* SyncSendCounterNotifyEvents: one event per condition, and none to a      *)
(* client that is gone.                                                     *)
SendCounterNotify(s, cl, conds) ==
  IF cl \in s.gone THEN s
  ELSE [s EXCEPT !.sent = @ \cup
          {[kind |-> "counter", to |-> cl, obj |-> c.obj, destroyed |-> c.obj = s.doomed]
             : c \in conds}]

(* The object being destroyed deletes its own list.                         *)
FreeAwait(s, cl) ==
  LET Off(u, i) == IF u.await[cl][i].obj = u.doomed THEN u
                   ELSE DeleteTrigger(u, <<cl, i>>, u.await[cl][i].obj)
  IN [FoldLeft(Off, s, [i \in DOMAIN s.await[cl] |-> i]) EXCEPT !.await[cl] = <<>>]

(* A condition is worth an event when its counter is destroyed or differs   *)
(* from the test value by the threshold, in the direction of the test.      *)
WorthAnEventMutantNotDestroyed(s, c) ==
  /\ c.obj \in Counters
  /\ LET diff == s.value[c.obj] - c.test
     IN /\ ~Overflows(diff)
        /\ IF c.ttype \in {"PosC", "PosT"} THEN diff >= c.thr ELSE diff <= c.thr

WorthAnEvent(s, c) ==
  \/ c.obj = s.doomed
  \/ /\ c.obj \in Counters
     /\ LET diff == s.value[c.obj] - c.test
        IN /\ ~Overflows(diff)
           /\ IF c.ttype \in {"PosC", "PosT"} THEN diff >= c.thr ELSE diff <= c.thr

AttendClient(s, cl) == IF cl \in s.gone THEN s ELSE [s EXCEPT !.ignored = @ \ {cl}]

AwaitTriggerFired(s, cl) ==
  LET worth == {c \in ToSet(s.await[cl]) : WorthAnEvent(s, c)}
  IN FreeAwait(AttendClient(SendCounterNotify(s, cl, worth), cl), cl)

TriggerFired(s, id) ==
  IF id[1] \in Alarms THEN AlarmTriggerFired(s, id[1]) ELSE AwaitTriggerFired(s, id[1])

CounterDestroyed(s, id) ==
  IF id[1] \in Alarms THEN AlarmCounterDestroyed(s, id[1]) ELSE AwaitTriggerFired(s, id[1])

----------------------------------------------------------------------------
(* Changing and freeing objects                                             *)

(* The walk of a trigger list.  The entry after the current one is read     *)
(* before the callback, so it must still be on the list when its turn comes.*)
Walk(s, o, old) ==
  LET Visit(u, id) ==
        CASE ~Contains(u.list[o], id) \/ ~Exists(u, id) -> [u EXCEPT !.halted = "freed"]
          [] CheckTrigger(u, Trigger(u, id), old) -> TriggerFired(u, id)
          [] OTHER -> u
  IN FoldLeft(Visit, s, s.list[o])

(* SyncChangeCounter                                                        *)
ChangeValue(s, o, new) == Walk([s EXCEPT !.value[o] = new], o, s.value[o])

(* miSyncTriggerFence                                                       *)
SetTriggered(s, o) == Walk([s EXCEPT !.lit[o] = TRUE], o, 0)

(* FreeCounter, miSyncDestroyFence                                          *)
FreeObject(s, o) ==
  LET Tell(u, id) == IF Exists(u, id) THEN CounterDestroyed(u, id)
                     ELSE [u EXCEPT !.halted = "freed"]
  IN [FoldLeft(Tell, [s EXCEPT !.doomed = o], s.list[o])
        EXCEPT !.life[o] = "freed", !.list[o] = <<>>, !.doomed = NoObj]

Usable(s, a) == s.alarm[a].obj = NoObj \/ s.life[s.alarm[a].obj] = "live"

FreeAlarm(s, a) ==
  IF ~Usable(s, a) THEN [s EXCEPT !.halted = "freed"]
  ELSE LET s1 == SendAlarmNotify([s EXCEPT !.alarm[a].life = "Destroyed"], a)
       IN [DeleteTrigger(s1, <<a, 0>>, s.alarm[a].obj) EXCEPT !.alarm[a] = NoAlarm]

----------------------------------------------------------------------------
(* Requests                                                                 *)

Ready(cl) == /\ cl \notin ignored \cup gone
             /\ closing = NoClient /\ halted = "no"

Request == \E cl \in Clients : Ready(cl)

CreateCounter(c) ==
  /\ Ready(Owner[c]) /\ life[c] = "none"
  /\ \E v \in Values :
       Become([Cur EXCEPT !.life[c] = "live", !.value[c] = v])
  /\ UNCHANGED closing

CreateFence(f) ==
  /\ Ready(Owner[f]) /\ life[f] = "none"
  /\ \E initially \in BOOLEAN :
       Become([Cur EXCEPT !.life[f] = "live", !.lit[f] = initially])
  /\ UNCHANGED closing

SetCounter(c) ==
  /\ Request /\ life[c] = "live"
  /\ \E v \in Values : Become(ChangeValue(Cur, c, v))
  /\ UNCHANGED closing

(* ProcSyncChangeCounter: no change when the sum overflows.                 *)
ChangeCounter(c) ==
  /\ Request /\ life[c] = "live"
  /\ \E by \in Steps :
       /\ ~Overflows(value[c] + by)
       /\ Become(ChangeValue(Cur, c, value[c] + by))
  /\ UNCHANGED closing

TriggerFence(f) ==
  /\ Request /\ life[f] = "live"
  /\ Become(SetTriggered(Cur, f))
  /\ UNCHANGED closing

ResetFence(f) ==
  /\ Request /\ life[f] = "live" /\ lit[f]
  /\ Become([Cur EXCEPT !.lit[f] = FALSE])
  /\ UNCHANGED closing

(* DestroyCounter and DestroyFence                                          *)
DestroyObject(o) ==
  /\ Request /\ life[o] = "live"
  /\ Become(FreeObject(Cur, o))
  /\ UNCHANGED closing

(* SyncAwaitEpilogue: the client stops; the first condition that is already *)
(* true starts it again.                                                    *)
AwaitEpilogueMutantFirstOnly(s, cl) ==
  LET c  == s.await[cl][1]
      s1 == [s EXCEPT !.ignored = @ \cup {cl}]
  IN IF CheckTrigger(s1, c, s1.value[c.obj]) THEN AwaitTriggerFired(s1, cl) ELSE s1

AwaitEpilogue(s, cl) ==
  LET s1   == [s EXCEPT !.ignored = @ \cup {cl}]
      true == \E i \in DOMAIN s.await[cl] :
                LET c == s.await[cl][i] IN CheckTrigger(s1, c, s1.value[c.obj])
  IN IF true THEN AwaitTriggerFired(s1, cl) ELSE s1

AllTrigger == {"counter", "vtype", "value", "ttype"}

(* The conditions are registered in order; a bad one takes back those       *)
(* before it and the request fails.                                         *)
RegisterMutantNoUndo(s, cl, conds) ==
  LET Add(r, i) ==
        LET n == InitTrigger(r.s, <<cl, i>>, [conds[i] EXCEPT !.obj = NoObj],
                             conds[i].obj, AllTrigger)
        IN CASE ~r.ok -> r
             [] conds[i].obj # NoObj /\ n.ok ->
                  [s |-> [n.s EXCEPT !.await[cl] = Append(@, n.t)], ok |-> TRUE]
             [] OTHER -> [s |-> [r.s EXCEPT !.await[cl] = <<>>], ok |-> FALSE]
  IN FoldLeft(Add, [s |-> s, ok |-> TRUE], [i \in DOMAIN conds |-> i])

Register(s, cl, conds) ==
  LET Add(r, i) ==
        LET n == InitTrigger(r.s, <<cl, i>>, [conds[i] EXCEPT !.obj = NoObj],
                             conds[i].obj, AllTrigger)
        IN CASE ~r.ok -> r
             [] conds[i].obj # NoObj /\ n.ok ->
                  [s |-> [n.s EXCEPT !.await[cl] = Append(@, n.t)], ok |-> TRUE]
             [] OTHER -> [s |-> FreeAwait(r.s, cl), ok |-> FALSE]
  IN FoldLeft(Add, [s |-> s, ok |-> TRUE], [i \in DOMAIN conds |-> i])

AwaitRequest(s, cl, conds) ==
  LET r == Register(s, cl, conds)
  IN IF r.ok THEN AwaitEpilogue(r.s, cl) ELSE r.s

Condition(obj, vtype, wait, ttype, thr) ==
  [obj |-> obj, vtype |-> vtype, wait |-> wait, ttype |-> ttype,
   check |-> ttype, test |-> 0, thr |-> thr]

Await(cl) ==
  /\ Ready(cl)
  /\ \E w \in Waits : Become(AwaitRequest(Cur, cl, w))
  /\ UNCHANGED closing

AwaitFence(cl) ==
  /\ Ready(cl)
  /\ \E w \in FenceWaits :
       Become(AwaitRequest(Cur, cl,
                [i \in DOMAIN w |-> Condition(w[i], "abs", 0, "none", 0)]))
  /\ UNCHANGED closing

(* SyncChangeAlarmAttributes: attrs holds the attributes given.  They are   *)
(* stored before the Match error is found.                                  *)
Mismatch(t) == \/ t.ttype \in {"PosC", "PosT"} /\ t.delta < 0
               \/ t.ttype \in {"NegC", "NegT"} /\ t.delta > 0

ChangeAttributes(s, a, attrs) ==
  LET ch  == (DOMAIN attrs \ {"wait"}) \cup (IF "wait" \in DOMAIN attrs THEN {"value"} ELSE {})
      t   == [f \in DOMAIN s.alarm[a] |->
                IF f \in DOMAIN attrs THEN attrs[f] ELSE s.alarm[a][f]]
      obj == IF "counter" \in ch THEN attrs.counter ELSE t.obj
      r   == InitTrigger(s, <<a, 0>>, t, obj, ch)
  IN IF ch \cap {"delta", "ttype"} # {} /\ Mismatch(t)
     THEN [s |-> [s EXCEPT !.alarm[a] = t], ok |-> FALSE]
     ELSE [s |-> [r.s EXCEPT !.alarm[a] =
                    IF r.ok THEN [r.t EXCEPT !.life = "Active"] ELSE r.t],
           ok |-> r.ok]

FireIfTrue(s, a) ==
  LET t == s.alarm[a]
  IN IF t.obj = NoObj \/ CheckTrigger(s, t, s.value[t.obj])
     THEN AlarmTriggerFired(s, a) ELSE s

(* A new alarm without a counter is Inactive; a failure frees the alarm.    *)
CreateAlarm(a) ==
  /\ Ready(Owner[a]) /\ alarm[a].life = "none"
  /\ \E attrs \in NewAlarms :
       LET r == ChangeAttributes([Cur EXCEPT !.alarm[a].life = "Inactive"], a, attrs)
       IN /\ r.ok
          /\ Become(IF r.s.alarm[a].obj = NoObj
                    THEN [r.s EXCEPT !.alarm[a].life = "Inactive"]
                    ELSE FireIfTrue(r.s, a))
  /\ UNCHANGED closing

ChangeAlarm(a) ==
  /\ Request /\ alarm[a].life # "none"
  /\ \E attrs \in Changes :
       LET r == ChangeAttributes(Cur, a, attrs)
       IN Become(IF ~Usable(Cur, a) THEN [Cur EXCEPT !.halted = "freed"]
                 ELSE IF r.ok THEN FireIfTrue(r.s, a) ELSE r.s)
  /\ UNCHANGED closing

DestroyAlarm(a) ==
  /\ Request /\ alarm[a].life # "none"
  /\ Become(FreeAlarm(Cur, a))
  /\ UNCHANGED closing

----------------------------------------------------------------------------
(* CloseDownClient, FreeClientResources                                     *)

CloseDown(cl) ==
  /\ cl \notin gone /\ closing = NoClient /\ halted = "no"
  /\ Become([Cur EXCEPT !.gone = @ \cup {cl}])
  /\ closing' = cl

OwnObjects(cl) == {o \in Objects : Owner[o] = cl /\ life[o] = "live"}
OwnAlarms(cl)  == {a \in Alarms : Owner[a] = cl /\ alarm[a].life # "none"}

FreeOne ==
  /\ closing # NoClient /\ halted = "no"
  /\ \/ \E o \in OwnObjects(closing) : Become(FreeObject(Cur, o))
     \/ \E a \in OwnAlarms(closing) : Become(FreeAlarm(Cur, a))
     \/ await[closing] # <<>> /\ Become(FreeAwait(Cur, closing))
  /\ UNCHANGED closing

ClosedDown ==
  /\ closing # NoClient /\ halted = "no"
  /\ OwnObjects(closing) = {} /\ OwnAlarms(closing) = {} /\ await[closing] = <<>>
  /\ Become(Cur)
  /\ closing' = NoClient

----------------------------------------------------------------------------
Init ==
  /\ life = [o \in Objects |-> "none"]
  /\ value = [o \in Objects |-> 0] /\ lit = [o \in Objects |-> FALSE]
  /\ list = [o \in Objects |-> <<>>]
  /\ alarm = [a \in Alarms |-> NoAlarm]
  /\ await = [cl \in Clients |-> <<>>]
  /\ ignored = {} /\ gone = {} /\ closing = NoClient /\ halted = "no" /\ sent = {}

Next ==
  \/ \E c \in Counters : CreateCounter(c) \/ SetCounter(c) \/ ChangeCounter(c)
  \/ \E f \in Fences : CreateFence(f) \/ TriggerFence(f) \/ ResetFence(f)
  \/ \E o \in Objects : DestroyObject(o)
  \/ \E a \in Alarms : CreateAlarm(a) \/ ChangeAlarm(a) \/ DestroyAlarm(a)
  \/ \E cl \in Clients : Await(cl) \/ AwaitFence(cl) \/ CloseDown(cl)
  \/ FreeOne \/ ClosedDown

Spec == Init /\ [][Next]_vars

----------------------------------------------------------------------------
(* Properties                                                               *)

Blocked(cl) == await[cl] # <<>>
TriggerOf(id) == Trigger(Cur, id)
Known(id) == Exists(Cur, id)
AllIds == (Alarms \X {0}) \cup UNION {{cl} \X DOMAIN await[cl] : cl \in Clients}

(* Everything has its type, and values stay INT64 (SyncCounter.value,       *)
(* SyncTrigger.test_value).                                                 *)
TypeOK ==
  /\ life \in [Objects -> {"none", "live", "freed"}]
  /\ value \in [Objects -> Int64] /\ lit \in [Objects -> BOOLEAN]
  /\ \A a \in Alarms : /\ alarm[a].life \in {"none", "Inactive", "Active"}
                       /\ alarm[a].obj \in Counters \cup {NoObj}
                       /\ alarm[a].test \in Int64 /\ alarm[a].check \in Tests
  /\ \A cl \in Clients : \A i \in DOMAIN await[cl] :
       await[cl][i].obj \in Objects /\ await[cl][i].test \in Int64
  /\ ignored \subseteq Clients /\ gone \subseteq Clients

(* No blocked client sleeps through its wake-up: none of its comparisons    *)
(* holds, none of its fences is triggered, and none of its objects is gone  *)
(* (ProcSyncAwait, SyncChangeCounter, FreeCounter, miSyncTriggerFence).     *)
NoMissedWake ==
  \A cl \in Clients : \A i \in DOMAIN await[cl] :
    LET c == await[cl][i]
    IN /\ life[c.obj] = "live"
       /\ c.check \in Comparisons \cup {"fence"} => ~CheckTrigger(Cur, c, value[c.obj])

(* A client is not read exactly while its Await is in progress: IgnoreClient*)
(* and AttendClient pair up on every path (SyncAwaitEpilogue,               *)
(* SyncAwaitTriggerFired).                                                  *)
IgnoredIffBlocked == \A cl \in Clients \ gone : cl \in ignored <=> Blocked(cl)

(* The trigger list of an object holds exactly the triggers that name it,   *)
(* once each (SyncAddTriggerToSyncObject, SyncDeleteTriggerFromSyncObject): *)
(* a change reaches every trigger and no freed one.                         *)
ListsExact ==
  \A o \in Objects :
    /\ IsInjective(list[o])
    /\ ToSet(list[o]) = {id \in AllIds : Known(id) /\ TriggerOf(id).obj = o}

(* No handler reads a freed trigger or object, and none loops for ever      *)
(* (SyncChangeCounter, FreeCounter, FreeAwait, SyncAlarmTriggerFired).      *)
HandlersFinish == halted = "no"

(* An active alarm has a counter, and its comparison is false: it has been  *)
(* stepped until its trigger no longer holds (SyncAlarmTriggerFired).       *)
ActiveAlarmsArmed ==
  \A a \in Alarms :
    alarm[a].life = "Active" =>
      /\ alarm[a].obj # NoObj
      /\ alarm[a].check \in Comparisons =>
           ~CheckTrigger(Cur, alarm[a], value[alarm[a].obj])

(* A client wakes only for cause: its own end, the end of one of its        *)
(* objects, or a condition that became true in this step (CheckTrigger).    *)
WakesForCause ==
  [][\A cl \in Clients :
       Blocked(cl) /\ await'[cl] = <<>> =>
         \/ closing = cl
         \/ \E i \in DOMAIN await[cl] :
              LET c == await[cl][i]
              IN \/ life'[c.obj] = "freed"
                 \/ c.check = "fence" /\ lit'[c.obj]
                 \/ /\ c.check # "fence" /\ value'[c.obj] # value[c.obj]
                    /\ Holds(c.ttype, value'[c.obj], value[c.obj], c.test)
    ]_vars

(* A client that is blocked on an object when it is destroyed is told so by *)
(* an event with the destroyed flag (SyncAwaitTriggerFired's comment "is    *)
(* always generated if the counter for one of the triggers is destroyed").  *)
DestructionIsTold ==
  [][\A cl \in Clients \ gone : \A i \in DOMAIN await[cl] :
       LET o == await[cl][i].obj
       IN life[o] = "live" /\ life'[o] = "freed" =>
            [kind |-> "counter", to |-> cl, obj |-> o, destroyed |-> TRUE] \in sent'
    ]_vars

(* A blocked client is neither forgotten nor woken or attended wrongly,      *)
(* whatever happens to the objects of its other conditions.                  *)
BlockedForAReason == NoMissedWake /\ IgnoredIffBlocked
WokenAndTold == WakesForCause /\ DestructionIsTold

(* Alarms are stepped to where their comparison is false, within 64 bits, by *)
(* handlers that come to an end and touch nothing freed on the way.          *)
AlarmsStepped == TypeOK /\ ActiveAlarmsArmed /\ HandlersFinish

(* An active alarm is on the trigger list of its counter, whatever          *)
(* attribute changes failed before (SyncInitTrigger's "we wait until we're  *)
(* sure there are no errors before registering a new counter").             *)
ActiveAlarmWatches ==
  \A a \in Alarms : alarm[a].life = "Active" =>
    \E o \in Counters : alarm[a].obj = o /\ Contains(list[o], <<a, 0>>)

(* Stepping an alarm ends (SyncAlarmTriggerFired's "repeatedly adding delta *)
(* to the value of the trigger and re-initializing it until it becomes      *)
(* FALSE").                                                                 *)
SteppingEnds == halted # "hang"
=============================================================================
