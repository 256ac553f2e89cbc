---------------------------- MODULE DeviceFreeze ----------------------------
(****************************************************************************)
(* Active grabs of a master pointer and the keyboard paired with it: the    *)
(* devices they freeze, the events that wait meanwhile, AllowEvents and     *)
(* replay (dix/events.c), with the press and release of one button and one  *)
(* key (Xi/exevents.c).                                                     *)
(* Playing an event may activate a passive grab or end one, which freezes   *)
(* and thaws devices in turn: each function is an operator from state to    *)
(* state over the record s, and ComputeFreezes recurs.  Windows are levels  *)
(* of the sprite's trace, 1 the root; level 0 is a window off the trace.    *)
(* Grabs are of one type and their clients select for all events; requests  *)
(* carry CurrentTime; implicit grabs, touches, slaves and motion are left   *)
(* out.                                                                     *)
(****************************************************************************)
EXTENDS Integers, FiniteSets, SequencesExt

CONSTANTS
  Clients,
  PassiveSets,   \* the sets of passive grabs there may be, of Passive
  Windows,       \* windows of the grabs that clients activate
  Requests,      \* modes of AllowEvents that clients use
  MaxEvents,     \* bound: events of each device
  MaxGrabs       \* bound: grabs, when a client activates one

Devices == <<"pointer", "keyboard">>     \* inputInfo.devices
Device == ToSet(Devices)
Pair(d) == CHOOSE p \in Device : p # d
Levels == 1..2

Passive == [dev : Device, level : Levels, client : Clients, sync : BOOLEAN, other : BOOLEAN]
Modes == {"Async", "Sync", "AsyncBoth", "SyncBoth", "Replay", "AsyncOthers"}

ASSUME DeviceFreezeAssumption ==
  /\ PassiveSets \subseteq SUBSET Passive /\ Requests \subseteq Modes
  /\ Windows \subseteq Levels \cup {0} /\ MaxEvents \in Nat /\ MaxGrabs \in Nat

VARIABLE s   \* see StateType

(* An active grab, and whether it is of a passive one.                       *)
NoGrab == [id |-> 0, client |-> "none", sync |-> FALSE, other |-> FALSE, level |-> 0,
           passive |-> FALSE]
Grab == [id : Nat \ {0}, client : Clients, sync : BOOLEAN, other : BOOLEAN,
         level : {0} \cup Levels, passive : BOOLEAN]
Frozen == {"FROZEN_NO_EVENT", "FROZEN_WITH_EVENT"}

StateType ==
  [ \* deviceGrab of each device
   grab : [Device -> Grab \cup {NoGrab}],
   state : [Device -> {"NOT_GRABBED", "THAWED", "FREEZE_NEXT_EVENT",
                       "FREEZE_BOTH_NEXT_EVENT"} \cup Frozen],
   other : [Device -> Grab \cup {NoGrab}], frozen : [Device -> BOOLEAN], event : [Device -> Nat],
   \* syncEvents
   pending : Seq([dev : Device, n : Nat, press : BOOLEAN]),
   playing : BOOLEAN, replay : {"none"} \cup Device, window : {0} \cup Levels,
   \* buttons and keys that are down, as handled; clients and passive grabs
   down : [Device -> BOOLEAN], alive : SUBSET Clients, passives : SUBSET Passive,
   next : Nat,
   \* events that have arrived, and those handled
   arrived : [Device -> Nat], handled : [Device -> Nat]]

Grabbed(t, d, c) == t.grab[d].id # 0 /\ t.grab[d].client = c
(* The client has the device frozen from another device.                     *)
OtherIsOf(t, d, c) == t.other[d].id # 0 /\ t.other[d].client = c

Except(g, h) == IF g = h THEN NoGrab ELSE g

RECURSIVE ComputeFreezes(_)

(* DeactivatePointerGrab, DeactivateKeyboardGrab                             *)
DeactivateGrabMutantKeepsOther(t, d) ==
  ComputeFreezes([t EXCEPT !.grab[d] = NoGrab, !.state[d] = "NOT_GRABBED"])
DeactivateGrab(t, d) ==
  ComputeFreezes(
    [t EXCEPT !.grab[d] = NoGrab, !.state[d] = "NOT_GRABBED",
              !.other[d] = Except(@, t.grab[d]), !.other[Pair(d)] = Except(@, t.grab[d])])

(* CheckGrabForSyncs: what a new grab freezes, and what another of the same  *)
(* client no longer does.                                                    *)
Freed(t, d, c) == IF OtherIsOf(t, d, c) THEN NoGrab ELSE t.other[d]
CheckGrabForSyncs(t, d) ==
  LET g == t.grab[d]
  IN ComputeFreezes(
       [t EXCEPT !.state[d] = IF g.sync THEN "FROZEN_NO_EVENT" ELSE "THAWED",
                 !.other[d] = IF g.sync THEN @ ELSE Freed(t, d, g.client),
                 !.other[Pair(d)] = IF g.other THEN g ELSE Freed(t, Pair(d), g.client)])

(* ActivatePointerGrab, ActivateKeyboardGrab                                 *)
ActivateGrab(t, d, g, passive) ==
  CheckGrabForSyncs(
    [t EXCEPT !.grab[d] = [id |-> t.next, client |-> g.client, sync |-> g.sync,
                           other |-> g.other, level |-> g.level, passive |-> passive],
              !.next = @ + 1], d)

(* ActivatePassiveGrab: the event is saved, to be replayed.                  *)
ActivatePassiveGrab(t, g, n) ==
  LET u == ActivateGrab(t, g.dev, g, TRUE)
  IN [u EXCEPT !.state[g.dev] = IF @ = "FROZEN_NO_EVENT" THEN "FROZEN_WITH_EVENT" ELSE @,
               !.event[g.dev] = n]

IsPress(n) == n % 2 = 1

(* CheckDeviceGrabs: a press activates the first passive grab below the      *)
(* window.                                                                   *)
CandidatesMutantSame(t, d, window) == {g \in t.passives : g.dev = d /\ g.level >= window}
Candidates(t, d, window) == {g \in t.passives : g.dev = d /\ g.level > window}
FirstOf(gs) == CHOOSE g \in gs : \A h \in gs : g.level <= h.level

(* DeliverGrabbedEvent: the client of the grab gets the event.               *)
DeliverGrabbedEvent(t, d, n) ==
  LET p == Pair(d)
      both == t.state[d] = "FREEZE_BOTH_NEXT_EVENT"
      own == t.state[p] = "FREEZE_BOTH_NEXT_EVENT" /\ t.grab[p].client = t.grab[d].client
  IN IF t.state[d] \notin {"FREEZE_NEXT_EVENT", "FREEZE_BOTH_NEXT_EVENT"} THEN t
     ELSE [t EXCEPT !.frozen[d] = TRUE, !.frozen[p] = @ \/ both,
                    !.state[d] = "FROZEN_WITH_EVENT", !.event[d] = n,
                    !.state[p] = IF both /\ own THEN "FROZEN_NO_EVENT" ELSE @,
                    !.other[p] = IF both /\ ~own THEN t.grab[d] ELSE @]

(* ProcessDeviceEvent: a press may activate a passive grab, the release ends *)
(* it after it was delivered.                                                *)
ProcessDeviceEvent(t, ev) ==
  LET d == ev.dev
      u == [t EXCEPT !.down[d] = ev.press, !.handled[d] = @ + 1]
      grabs == Candidates(u, d, 0)
  IN IF t.grab[d].id = 0
     THEN IF ev.press /\ grabs # {} THEN ActivatePassiveGrab(u, FirstOf(grabs), ev.n) ELSE u
     ELSE IF ~ev.press /\ t.grab[d].passive THEN DeactivateGrab(u, d)
     ELSE DeliverGrabbedEvent(u, d, ev.n)

(* PlayReleasedEvents: the first event whose device is not frozen, and again *)
(* from the head of the queue.                                               *)
PlayFirst(t) ==
  LET free == {i \in DOMAIN t.pending : ~t.frozen[t.pending[i].dev]}
      i == CHOOSE i \in free : \A j \in free : i <= j
  IN IF free = {} THEN t
     ELSE ProcessDeviceEvent([t EXCEPT !.pending = RemoveAt(@, i)], t.pending[i])
PlayReleasedEvents(t) == FoldLeft(LAMBDA u, ev : PlayFirst(u), t, t.pending)

(* ComputeFreezes, the event to replay.                                      *)
Replayed(t) ==
  LET d == t.replay
      grabs == Candidates(t, d, t.window)
      u == [t EXCEPT !.replay = "none"]
  IN IF /\ d # "none" /\ t.window # 0 /\ grabs # {}
        /\ t.grab[d].id = 0 /\ IsPress(t.event[d]) /\ (d = "pointer" => t.down[d])
     THEN ActivatePassiveGrab(u, FirstOf(grabs), t.event[d])
     ELSE u

(* FreezeThaw, of every device.                                              *)
FreezeThaw(t) ==
  FoldLeft(LAMBDA u, d : [u EXCEPT !.frozen[d] = u.other[d].id # 0 \/ u.state[d] \in Frozen],
           t, Devices)

ComputeFreezes(t) ==
  LET u == FreezeThaw(t)
  IN IF u.playing \/ (u.replay = "none" /\ u.pending = <<>>) THEN u
     ELSE [PlayReleasedEvents(Replayed([u EXCEPT !.playing = TRUE])) EXCEPT !.playing = FALSE]

(* AllowSome, the device and the others of the client.                       *)
ThisGrabbed(t, d, c) == Grabbed(t, d, c)
ThisSynced(t, d, c) == Grabbed(t, Pair(d), c) /\ t.other[d] = t.grab[Pair(d)]
OthersFrozen(t, d, c) == Grabbed(t, Pair(d), c) /\ t.state[Pair(d)] \in Frozen
MayAllow(t, d, c) ==
  (ThisGrabbed(t, d, c) /\ t.state[d] \in Frozen) \/ ThisSynced(t, d, c)

(* The devices the client has grabbed are in a state, and it freezes none    *)
(* from another device.                                                      *)
Release(t, ds, c, state) ==
  FoldLeft(LAMBDA u, d :
             IF d \notin ds THEN u
             ELSE [u EXCEPT !.state[d] = IF Grabbed(t, d, c) THEN state ELSE @,
                            !.other[d] = IF OtherIsOf(t, d, c) THEN NoGrab ELSE @],
           t, Devices)

Unsynced(t, d, c) == IF ThisSynced(t, d, c) THEN [t EXCEPT !.other[d] = NoGrab] ELSE t

AllowSomeMutantKeepsOther(t, c, d, mode) ==
  IF mode = "Async" /\ ThisGrabbed(t, d, c)
  THEN ComputeFreezes([t EXCEPT !.state[d] = "THAWED"])
  ELSE t
AllowSome(t, c, d, mode) ==
  CASE mode = "Async" ->
         LET u == Unsynced(t, d, c)
         IN ComputeFreezes(IF ThisGrabbed(t, d, c) THEN [u EXCEPT !.state[d] = "THAWED"] ELSE u)
    [] mode = "Sync" ->
         IF ThisGrabbed(t, d, c)
         THEN ComputeFreezes([Unsynced(t, d, c) EXCEPT !.state[d] = "FREEZE_NEXT_EVENT"])
         ELSE t
    [] mode = "AsyncBoth" ->
         IF OthersFrozen(t, d, c) THEN ComputeFreezes(Release(t, Device, c, "THAWED")) ELSE t
    [] mode = "SyncBoth" ->
         IF OthersFrozen(t, d, c)
         THEN ComputeFreezes(Release(t, Device, c, "FREEZE_BOTH_NEXT_EVENT"))
         ELSE t
    [] mode = "AsyncOthers" ->
         IF OthersFrozen(t, d, c) THEN ComputeFreezes(Release(t, Device \ {d}, c, "THAWED")) ELSE t
    [] mode = "Replay" ->
         IF ThisGrabbed(t, d, c) /\ t.state[d] = "FROZEN_WITH_EVENT"
         THEN [DeactivateGrab([Unsynced(t, d, c) EXCEPT !.replay = d, !.window = t.grab[d].level], d)
                 EXCEPT !.replay = "none"]
         ELSE t

(* ReleaseActiveGrabs: until the client has no grab, as deactivating one may *)
(* activate another.                                                         *)
ReleasePass(t, c) ==
  FoldLeft(LAMBDA u, d : IF Grabbed(u, d, c) THEN DeactivateGrab(u, d) ELSE u, t, Devices)
ReleaseActiveGrabs(t, c) ==
  FoldLeft(LAMBDA u, i : IF \E d \in Device : Grabbed(u, d, c) THEN ReleasePass(u, c) ELSE u,
           t, [i \in 1..(2 * MaxEvents + 1) |-> i])

(* EnqueueEvent                                                              *)
EnqueueEventMutantFirst(t, ev) == [t EXCEPT !.pending = <<ev>> \o @]
EnqueueEvent(t, ev) == [t EXCEPT !.pending = Append(@, ev)]

(********************************* actions **********************************)

(* processInputProc: a press or a release, in turn.                          *)
Arrive(d) ==
  LET n == s.arrived[d] + 1
      ev == [dev |-> d, n |-> n, press |-> IsPress(n)]
      t == [s EXCEPT !.arrived[d] = n]
  IN /\ n <= MaxEvents
     /\ s' = IF s.frozen[d] THEN EnqueueEvent(t, ev) ELSE ProcessDeviceEvent(t, ev)

(* GrabDevice, when it does not fail: the device is not grabbed by another   *)
(* client, nor frozen by one.                                                *)
GrabDevice(c, d) ==
  /\ c \in s.alive /\ s.next <= MaxGrabs
  /\ s.grab[d].id # 0 => Grabbed(s, d, c)
  /\ s.frozen[d] /\ s.other[d].id # 0 => OtherIsOf(s, d, c)
  /\ \E sync, other \in BOOLEAN, w \in Windows :
       s' = ActivateGrab(s, d, [client |-> c, sync |-> sync, other |-> other, level |-> w],
                         FALSE)

UngrabDevice(c, d) ==
  /\ c \in s.alive /\ Grabbed(s, d, c) /\ s' = DeactivateGrab(s, d)

AllowEvents(c, d, mode) ==
  /\ c \in s.alive /\ MayAllow(s, d, c)
  /\ s' = AllowSome(s, c, d, mode)

(* CloseDownClient: its active grabs, then its passive ones.                 *)
CloseDownClient(c) ==
  /\ c \in s.alive
  /\ s' = LET t == ReleaseActiveGrabs(s, c)
          IN [t EXCEPT !.alive = @ \ {c}, !.passives = {g \in @ : g.client # c}]

Init ==
  /\ \E ps \in PassiveSets :
       s = [grab |-> [d \in Device |-> NoGrab], state |-> [d \in Device |-> "NOT_GRABBED"],
            other |-> [d \in Device |-> NoGrab], frozen |-> [d \in Device |-> FALSE],
            event |-> [d \in Device |-> 0], pending |-> <<>>, playing |-> FALSE,
            replay |-> "none", window |-> 0, down |-> [d \in Device |-> FALSE],
            alive |-> Clients, passives |-> ps, next |-> 1,
            arrived |-> [d \in Device |-> 0], handled |-> [d \in Device |-> 0]]

Next ==
  \/ \E d \in Device : Arrive(d)
  \/ \E c \in Clients, d \in Device :
       GrabDevice(c, d) \/ UngrabDevice(c, d) \/ \E mode \in Requests : AllowEvents(c, d, mode)
  \/ \E c \in Clients : CloseDownClient(c)

Spec == Init /\ [][Next]_s

----------------------------------------------------------------------------
(******************************** properties *******************************)

(* Types, and a device that is frozen with an event has one saved.           *)
TypeOK ==
  /\ s \in StateType
  /\ \A d \in Device : s.state[d] = "FROZEN_WITH_EVENT" => s.event[d] \in 1..s.handled[d]

(* A device is frozen by another device's grab only while that grab is       *)
(* active: sync.other points to no grab that was freed (DeactivateGrab,      *)
(* CheckGrabForSyncs, DeliverGrabbedEvent).                                  *)
OtherIsActive ==
  \A d \in Device : s.other[d].id # 0 => s.other[d] = s.grab[Pair(d)]

(* Between requests and events a device is frozen just if a grab has it so,  *)
(* and a device without a grab is in no state of one (ComputeFreezes).       *)
FrozenForAReason ==
  \A d \in Device :
    /\ s.frozen[d] <=> s.other[d].id # 0 \/ s.state[d] \in Frozen
    /\ s.grab[d].id = 0 <=> s.state[d] = "NOT_GRABBED"

(* Events wait only for a device that is frozen (PlayReleasedEvents).        *)
PendingFrozen == \A i \in DOMAIN s.pending : s.frozen[s.pending[i].dev]

(* No event of a device is lost, handled twice or out of turn (EnqueueEvent, *)
(* PlayReleasedEvents).                                                      *)
NothingLost ==
  \A d \in Device :
    LET waiting == SelectSeq(s.pending, LAMBDA ev : ev.dev = d)
    IN [i \in DOMAIN waiting |-> waiting[i].n]
         = [i \in 1..(s.arrived[d] - s.handled[d]) |-> s.handled[d] + i]

(* A client that is gone has no grab, so freezes nothing (ReleaseActiveGrabs,*)
(* with the passive grabs of the client still in place).                     *)
DeadHoldsNothing ==
  \A d \in Device : s.grab[d].id # 0 => s.grab[d].client \in s.alive

(* Nobody is left frozen by a grab or a client that is gone, and no event is *)
(* kept back for a device that is not frozen.                                *)
FreezesAccounted ==
  TypeOK /\ OtherIsActive /\ FrozenForAReason /\ PendingFrozen /\ DeadHoldsNothing

(* An event that is replayed activates only passive grabs below the one it   *)
(* is replayed from (ComputeFreezes, CheckDeviceGrabs).                      *)
ReplayGoesDown ==
  \A c \in s.alive, d \in Device :
    LET t == AllowSome(s, c, d, "Replay")
    IN MayAllow(s, d, c) /\ t.grab[d].id # 0 /\ t.event[d] = s.event[d]
         => t.grab[d] = s.grab[d] \/ t.grab[d].level > s.grab[d].level

(* What freezes a device on behalf of a client.                              *)
FrozenBy(t, d, c) ==
  {g \in {t.grab[d]} : g.client = c /\ t.state[d] \in Frozen}
    \cup {g \in {t.other[d]} : g.id # 0 /\ g.client = c}

(* A grab that freezes devices after a step though nothing did before: the   *)
(* events played in the step have activated it, or it waited for one of them.*)
Refrozen(g, t) ==
  \/ g.id >= s.next
  \/ \E d \in Device :
       /\ s.grab[d] = g /\ s.state[d] \in {"FREEZE_NEXT_EVENT", "FREEZE_BOTH_NEXT_EVENT"}
       /\ t.handled[d] > s.handled[d]

(* AsyncPointer and AsyncKeyboard thaw the device, also if the client has it *)
(* frozen twice, from both devices (AllowSome, THAWED).                      *)
AsyncThaws ==
  \A c \in s.alive, d \in Device :
    LET t == AllowSome(s, c, d, "Async")
    IN MayAllow(s, d, c) => \A g \in FrozenBy(t, d, c) : Refrozen(g, t)

(* AsyncBoth thaws both devices when both are frozen by the client           *)
(* (AllowSome, THAWED_BOTH, for the keyboard).                               *)
AsyncBothThaws ==
  \A c \in s.alive :
    LET t == AllowSome(s, c, "keyboard", "AsyncBoth")
    IN MayAllow(s, "keyboard", c) /\ (\A d \in Device : FrozenBy(s, d, c) # {})
         => \A d \in Device : \A g \in FrozenBy(t, d, c) : Refrozen(g, t)
=============================================================================
