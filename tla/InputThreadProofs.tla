------------------------- MODULE InputThreadProofs -------------------------
(****************************************************************************)
(* Theorems about InputThread, for any set of devices, any size of the pipe  *)
(* and any number of events and hotplug changes: types, the lock's depth,    *)
(* no event of a freed device, no lost wakeup of either thread, and which    *)
(* devices the input thread comes to poll.                                   *)
(****************************************************************************)
EXTENDS InputThread, TLAPS

(* What the main thread is doing is consistent: it handles an event only    *)
(* between taking one and locking again, and stops a device only with one   *)
(* to stop.                                                                 *)
MainConsistent ==
  /\ event # NoDevice => mpc = "handle"
  /\ mpc \in {"check", "wait", "join", "exit"} => ~Removing
  /\ Removing \/ mpc = "off" => goal \in Devices

(* A descriptor with data belongs to a device that is on.                   *)
DataOfDevicesOn == \A d \in data : status[d] = "on"

(* With the queue drained under the lock, it stays empty until the device   *)
(* is freed.                                                                *)
DrainedWhenRemoving == mpc = "off" /\ Removing => queue = <<>>

IInv == /\ TypeOK /\ MainConsistent /\ DataOfDevicesOn /\ DrainedWhenRemoving
        /\ NoDanglingDevice

USE InputThreadAssumption DEF Removing

(* The initial states satisfy the invariant.                                *)
LEMMA InitIInv == Init => IInv
<1> SUFFICES ASSUME Init PROVE IInv
  OBVIOUS
<1>1. TypeOK
  <2>1. queue \in Seq(Devices)
    BY DEF Init
  <2>2. depth = (IF mpc = "take" THEN 1 ELSE 0) + outer
    <3>1. mpc # "take" /\ depth = 0 /\ outer = 0
      BY DEF Init
    <3>2. 0 = 0 + 0
      OBVIOUS
    <3> QED
      BY <3>1, <3>2, Zenon
  <2>3. changed \in BOOLEAN /\ open \in BOOLEAN /\ running \in BOOLEAN
    BY Zenon DEF Init
  <2>4. /\ status \in [Devices -> {"on", "off", "gone"}]
        /\ state \in [Devices -> {"none", "added", "running"}]
        /\ stale \subseteq Devices /\ missed \subseteq Devices /\ watched \subseteq Devices
        /\ data \subseteq Devices /\ todo \subseteq Devices \cup {NoDevice}
    BY DEF Init
  <2>5. /\ outer \in {0, 1} /\ hotplug \in Nat /\ wake \in 0..PipeSize
        /\ event \in Devices \cup {NoDevice} /\ goal \in Devices \cup {NoDevice}
        /\ events \in Nat /\ changes \in Nat
    BY DEF Init
  <2>6. /\ ipc \in {"check", "apply", "poll", "serve", "kick", "done"}
        /\ mpc \in {"check", "wait", "process", "take", "handle", "off", "notify",
                     "join", "exit"}
    BY DEF Init
  <2> QED
    BY <2>1, <2>2, <2>3, <2>4, <2>5, <2>6 DEF TypeOK
<1>2. MainConsistent /\ DataOfDevicesOn /\ DrainedWhenRemoving /\ NoDanglingDevice
  BY DEF Init, MainConsistent, DataOfDevicesOn, DrainedWhenRemoving, NoDanglingDevice
<1> QED
  BY <1>1, <1>2 DEF IInv

(* The steps of the input thread preserve the invariant.                    *)
LEMMA InputStepIInv == IInv /\ InputStep => IInv'
<1> SUFFICES ASSUME IInv, InputStep PROVE IInv'
  OBVIOUS
<1> USE DEF IInv, TypeOK, MainConsistent, DataOfDevicesOn, DrainedWhenRemoving,
            NoDanglingDevice, inputVars, regVars, mainVars
<1>1. CASE Check
  BY <1>1 DEF Check
<1>2. CASE Apply
  BY <1>2 DEF Apply
<1>3. CASE Poll
  BY <1>3 DEF Poll
<1>4. CASE \E d \in Devices : Read(d)
  <2> PICK d \in Devices : Read(d)
    BY <1>4
  <2> USE DEF Read, Free
  <2>1. CASE state[d] = "running" /\ d \in data
    <3>1. status[d] # "gone" /\ ~(mpc = "off" /\ Removing)
      BY <2>1
    <3>2. queue' \in Seq(Devices) /\ Len(queue') = Len(queue) + 1
          /\ queue'[Len(queue) + 1] = d
          /\ \A i \in 1..Len(queue) : queue'[i] = queue[i]
      BY <2>1
    <3>3. NoDanglingDevice'
      BY <3>1, <3>2
    <3> QED
      BY <2>1, <3>1, <3>2, <3>3
  <2>2. CASE ~(state[d] = "running" /\ d \in data)
    BY <2>2
  <2> QED
    BY <2>1, <2>2
<1>5. CASE ReadHotplug
  BY <1>5 DEF ReadHotplug
<1>6. CASE Served
  BY <1>6 DEF Served
<1>7. CASE Kick
  BY <1>7 DEF Kick
<1> QED
  BY <1>1, <1>2, <1>3, <1>4, <1>5, <1>6, <1>7 DEF InputStep

(* So do the steps of the main thread.                                      *)
LEMMA MainStepIInv == IInv /\ MainStep => IInv'
<1> SUFFICES ASSUME IInv, MainStep PROVE IInv'
  OBVIOUS
<1> USE DEF IInv, TypeOK, MainConsistent, DataOfDevicesOn, DrainedWhenRemoving,
            NoDanglingDevice, inputVars, regVars, mainVars, Stay
<1>1. CASE Look
  BY <1>1 DEF Look
<1>2. CASE Lock
  BY <1>2 DEF Lock
<1>3. CASE TakeEvent
  <2> USE <1>3 DEF TakeEvent
  <2>1. queue \in Seq(Devices) /\ queue # <<>>
    OBVIOUS
  <2>2. Head(queue) = queue[1] /\ Head(queue) \in Devices /\ 1 \in 1..Len(queue)
    BY <2>1
  <2>3. Tail(queue) \in Seq(Devices) /\ Len(Tail(queue)) = Len(queue) - 1
        /\ \A i \in 1..(Len(queue) - 1) : Tail(queue)[i] = queue[i + 1]
    BY <2>1
  <2>4. NoDanglingDevice'
    BY <2>2, <2>3
  <2> QED
    BY <2>2, <2>3, <2>4
<1>4. CASE NoMoreEvents
  BY <1>4 DEF NoMoreEvents
<1>5. CASE Handle
  BY <1>5 DEF Handle
<1>6. CASE Off
  <2> USE <1>6 DEF Off, Unregister
  <2>1. TypeOK'
    OBVIOUS
  <2>2. MainConsistent' /\ DataOfDevicesOn' /\ DrainedWhenRemoving'
    OBVIOUS
  <2>3. NoDanglingDevice'
    <3>1. CASE Removing
      BY <3>1
    <3>2. CASE ~Removing
      BY <3>2
    <3> QED
      BY <3>1, <3>2
  <2> QED
    BY <2>1, <2>2, <2>3
<1>7. CASE Notify
  BY <1>7 DEF Notify
<1>8. CASE Join
  BY <1>8 DEF Join
<1>9. CASE Wait
  BY <1>9 DEF Wait
<1> QED
  BY <1>1, <1>2, <1>3, <1>4, <1>5, <1>6, <1>7, <1>8, <1>9 DEF MainStep

(* And whatever else happens.                                               *)
LEMMA ElsewhereIInv == IInv /\ Elsewhere => IInv'
<1> SUFFICES ASSUME IInv, Elsewhere PROVE IInv'
  OBVIOUS
<1> USE DEF IInv, TypeOK, MainConsistent, DataOfDevicesOn, DrainedWhenRemoving,
            NoDanglingDevice, inputVars, regVars, mainVars, Stay, MayChange
<1>1. CASE Wait
  BY <1>1 DEF Wait
<1>2. CASE Fini
  <2>1. mpc' = "join" /\ depth' = 0 /\ outer' = outer /\ outer = 0
    BY <1>2 DEF Fini
  <2>2. depth' = (IF mpc' = "take" THEN 1 ELSE 0) + outer'
    BY <2>1
  <2> QED
    BY <1>2, <2>1, <2>2 DEF Fini
<1>3. ASSUME NEW d \in Devices, TurnOn(d) PROVE IInv'
  BY <1>3 DEF TurnOn
<1>4. ASSUME NEW d \in Devices, TurnOff(d) PROVE IInv'
  BY <1>4 DEF TurnOff
<1>5. ASSUME NEW d \in Devices, Remove(d) PROVE IInv'
  BY <1>5 DEF Remove
<1>6. ASSUME NEW d \in Devices, Arrive(d) PROVE IInv'
  BY <1>6 DEF Arrive
<1> QED
  BY <1>1, <1>2, <1>3, <1>4, <1>5, <1>6 DEF Elsewhere

(* The invariant holds of every reachable state.                            *)
THEOREM Invariant == Spec => []IInv
<1>1. Init => IInv
  BY InitIInv
<1>2. IInv /\ [Next]_vars => IInv'
  <2>1. IInv /\ UNCHANGED vars => IInv'
    BY DEF vars, inputVars, regVars, mainVars, IInv, TypeOK, MainConsistent,
           DataOfDevicesOn, DrainedWhenRemoving, NoDanglingDevice
  <2> QED
    BY <2>1, InputStepIInv, MainStepIInv, ElsewhereIInv DEF Next
<1> QED
  BY <1>1, <1>2, PTL DEF Spec

(* Types, and the input lock is held exactly while the main thread looks at *)
(* the queue or removes a device.                                           *)
THEOREM TypeCorrect == Spec => []TypeOK
  BY Invariant, PTL DEF IInv

(* No event of a freed device is queued or handled.                         *)
THEOREM NeverDangling == Spec => []NoDanglingDevice
  BY Invariant, PTL DEF IInv

----------------------------------------------------------------------------
(* Neither thread sleeps on work the other one left for it.                 *)
Wakeups == NoLostWakeup /\ HotplugNoticed

(* Both facts together are inductive, given the types.                      *)
LEMMA WakeupsStep == TypeOK /\ Wakeups /\ [Next]_vars => Wakeups'
<1> SUFFICES ASSUME TypeOK, Wakeups, [Next]_vars PROVE Wakeups'
  OBVIOUS
<1> USE DEF TypeOK, Wakeups, NoLostWakeup, HotplugNoticed, inputVars, regVars,
            mainVars, Stay
<1>1. CASE InputStep
  BY <1>1 DEF InputStep, Check, Apply, Poll, Read, ReadHotplug, Served, Kick
<1>2. CASE MainStep
  <2>1. CASE Off
    BY <2>1 DEF Off
  <2>2. CASE TakeEvent \/ NoMoreEvents \/ Handle \/ Lock
    BY <2>2 DEF TakeEvent, NoMoreEvents, Handle, Lock
  <2>3. CASE Look \/ Notify \/ Join \/ Wait
    BY <2>3 DEF Look, Notify, Join, Wait
  <2> QED
    BY <1>2, <2>1, <2>2, <2>3 DEF MainStep
<1>3. CASE Elsewhere
  BY <1>3 DEF Elsewhere, Wait, Fini, TurnOn, TurnOff, Remove, Arrive, MayChange
<1>4. CASE UNCHANGED vars
  BY <1>4 DEF vars
<1> QED
  BY <1>1, <1>2, <1>3, <1>4 DEF Next

(* The main thread never sleeps while an event is queued and no wakeup is   *)
(* on its way, nor the input thread while the device list has changed.      *)
THEOREM NoThreadSleepsOnWork == Spec => [](NoLostWakeup /\ HotplugNoticed)
<1>1. Init => Wakeups
  BY DEF Init, Wakeups, NoLostWakeup, HotplugNoticed
<1> QED
  BY <1>1, TypeCorrect, WakeupsStep, PTL DEF Spec, Wakeups

----------------------------------------------------------------------------
(* Closing a descriptor ends its polling, adding one to the poll set takes   *)
(* only those that are open: what DevicesServed says of each device is kept  *)
(* by every step, given the types.                                           *)
LEMMA DevicesServedStep ==
  ASSUME TypeOK, MainConsistent, DevicesServed, [Next]_vars
  PROVE  DevicesServed'
<1> USE DEF DevicesServed, inputVars, regVars, mainVars, Stay
<1>1. CASE InputStep
  <2>1. CASE Apply
    <3> SUFFICES ASSUME NEW d \in Devices, d \notin missed
                 PROVE  \/ status[d] = "on" /\ d \in watched' /\ state'[d] = "running"
                        \/ status[d] # "on" /\ d \notin watched' /\ state'[d] = "none"
      BY <2>1 DEF Apply
    <3>1. state'[d] = IF state[d] = "added" THEN "running" ELSE state[d]
      BY <2>1 DEF Apply
    <3>2. d \in watched' <=> \/ d \in watched /\ state[d] = "running"
                             \/ state[d] = "added" /\ status[d] = "on"
      BY <2>1 DEF Apply
    <3> QED
      BY <3>1, <3>2
  <2>2. CASE Check \/ Poll \/ (\E d \in Devices : Read(d)) \/ ReadHotplug \/ Served \/ Kick
    BY <2>2 DEF Check, Poll, Read, ReadHotplug, Served, Kick
  <2> QED
    BY <1>1, <2>1, <2>2 DEF InputStep
<1>2. CASE MainStep
  <2>1. CASE Off
    <3> USE <2>1 DEF Off
    <3>1. goal \in Devices
      BY DEF MainConsistent
    <3> SUFFICES ASSUME NEW d \in Devices
                 PROVE  \/ d \in missed'
                        \/ status'[d] = "on" /\ d \in watched' /\ state'[d] = "running"
                        \/ status'[d] = "on" /\ changed' /\ state'[d] = "added"
                        \/ status'[d] # "on" /\ d \notin watched' /\ state'[d] = "none"
      OBVIOUS
    <3>2. CASE d # goal
      <4>1. /\ status'[d] = status[d] /\ (d \in watched' <=> d \in watched)
            /\ state'[d] = state[d] /\ (d \in missed' <=> d \in missed)
            /\ changed => changed'
        BY <3>1, <3>2 DEF Unregister, TypeOK
      <4> QED
        BY <4>1
    <3>3. CASE d = goal
      <4>1. status'[d] # "on"
        BY <3>1, <3>3 DEF TypeOK
      <4>2. CASE status[goal] = "on"
        <5>1. d \notin watched'
          BY <3>3, <4>2
        <5>2. d \in missed' \/ state'[d] = "none"
          BY <3>1, <3>3, <4>2 DEF Unregister, TypeOK
        <5> QED
          BY <4>1, <5>1, <5>2
      <4>3. CASE status[goal] # "on"
        BY <3>3, <4>1, <4>3
      <4> QED
        BY <4>2, <4>3
    <3> QED
      BY <3>2, <3>3
  <2>2. CASE TakeEvent \/ NoMoreEvents \/ Handle \/ Lock
    BY <2>2 DEF TakeEvent, NoMoreEvents, Handle, Lock
  <2>3. CASE Look \/ Notify \/ Join \/ Wait
    BY <2>3 DEF Look, Notify, Join, Wait
  <2> QED
    BY <1>2, <2>1, <2>2, <2>3 DEF MainStep
<1>3. CASE Elsewhere
  <2>1. ASSUME NEW d \in Devices, TurnOn(d) PROVE DevicesServed'
    BY <2>1 DEF TurnOn, TypeOK
  <2>2. CASE Wait \/ Fini \/ \E d \in Devices : TurnOff(d) \/ Remove(d) \/ Arrive(d)
    BY <2>2 DEF Wait, Fini, TurnOff, Remove, Arrive
  <2> QED
    BY <1>3, <2>1, <2>2 DEF Elsewhere
<1>4. CASE UNCHANGED vars
  BY <1>4 DEF vars
<1> QED
  BY <1>1, <1>2, <1>3, <1>4 DEF Next

(* Unless an unregistering was answered by an older entry, the input thread *)
(* polls the devices that are on, or is about to, and has no entry of the   *)
(* others.                                                                  *)
THEOREM DevicesAreServed == Spec => []DevicesServed
<1>1. Init => DevicesServed
  BY DEF Init, DevicesServed
<1>2. TypeOK /\ MainConsistent /\ DevicesServed /\ [Next]_vars => DevicesServed'
  BY DevicesServedStep
<1>3. Spec => [](TypeOK /\ MainConsistent)
  BY Invariant, PTL DEF IInv
<1> QED
  BY <1>1, <1>2, <1>3, PTL DEF Spec
=============================================================================
