---------------------------- MODULE InputThread ----------------------------
(****************************************************************************)
(* The input thread and the main thread of the server (os/inputthread.c,     *)
(* the two ends of mi/mieq.c, config/config.c, dix/devices.c).               *)
(*                                                                          *)
(* The input thread waits for device file descriptors, has the driver read   *)
(* them and queue events with the input lock held, and then writes a byte    *)
(* into a pipe of the main thread's poll.  The main thread takes one event   *)
(* at a time with the lock and handles it without.  Device descriptors are   *)
(* registered and unregistered by the main thread; the input thread is told  *)
(* by a flag and a byte in the hotplug pipe.  Closing that pipe ends it.     *)
(*                                                                          *)
(* The lock is recursive and each of the input thread's critical sections    *)
(* is one step, so its state is the main thread's depth.  The ring buffer    *)
(* of the queue is in InputQueue; here the queue is a sequence of devices.   *)
(****************************************************************************)
EXTENDS Integers, Sequences

CONSTANTS
  Devices,      \* devices, each with a file descriptor of its own
  PipeSize,     \* bytes the notification pipe holds
  MaxEvents,    \* bound: events the hardware produces
  MaxChanges,   \* bound: devices turned on, turned off or removed
  NoDevice

ASSUME InputThreadAssumption ==
  /\ PipeSize \in Nat \ {0} /\ MaxEvents \in Nat /\ MaxChanges \in Nat
  /\ NoDevice \notin Devices

VARIABLES
  status,     \* devices: "on", "off" (disabled), "gone" (freed)
  state,      \* InputThreadDevice.state of the entry in use, "none" without
  stale,      \* devices with an older entry in state removed
  missed,     \* history: devices whose entry in use was left behind, the last
              \* unregistering having found the older one
  changed,    \* inputThreadInfo->changed
  hotplug,    \* bytes in the hotplug pipe
  open,       \* whether its write end is open
  running,    \* inputThreadInfo->running
  watched,    \* descriptors the kernel polls for inputThreadInfo->fds
  data,       \* descriptors with data to read
  todo,       \* descriptors ospoll_wait reported, NoDevice for the hotplug pipe
  ipc,        \* where the input thread is
  queue,      \* devices of the queued events
  wake,       \* bytes in the notification pipe
  depth,      \* input_mutex_count of the main thread
  mpc, event, \* where the main thread is, the event it handles
  goal,       \* the device being turned off or removed
  outer,      \* 1 if the lock is held around all of it: a removal
  events, changes   \* counters of the bounds

inputVars == <<running, todo, ipc>>
regVars == <<status, state, stale, missed, changed>>
mainVars == <<depth, mpc, event, goal, outer>>
vars == <<inputVars, regVars, mainVars, hotplug, open, watched, data, queue,
          wake, events, changes>>

Free == depth = 0
Removing == outer = 1
Stay(pc) == mpc' = pc /\ UNCHANGED <<depth, event, goal, outer>>

----------------------------------------------------------------------------
(* The input thread: InputThreadDoWork                                      *)

Check ==
  /\ ipc = "check"
  /\ ipc' = IF ~running THEN "done" ELSE IF changed THEN "apply" ELSE "poll"
  /\ UNCHANGED <<running, todo, regVars, mainVars, hotplug, open, watched, data,
                 queue, wake, events, changes>>

(* Removed entries leave the poll set, added ones enter it; adding fails,   *)
(* unnoticed, for a descriptor that is closed by now (epoll's ospoll_add).  *)
Apply ==
  /\ ipc = "apply" /\ Free
  /\ changed' = FALSE
  /\ stale' = {}
  /\ state' = [d \in Devices |-> IF state[d] = "added" THEN "running" ELSE state[d]]
  /\ watched' = {d \in watched : state[d] = "running"}
                  \cup {d \in Devices : state[d] = "added" /\ status[d] = "on"}
  /\ ipc' = "poll"
  /\ UNCHANGED <<running, todo, status, missed, mainVars, hotplug, open, data, queue,
                 wake, events, changes>>

HotplugReadable == hotplug > 0 \/ ~open

Poll ==
  /\ ipc = "poll"
  /\ todo' = (data \cap watched) \cup (IF HotplugReadable THEN {NoDevice} ELSE {})
  /\ todo' # {}
  /\ ipc' = "serve"
  /\ UNCHANGED <<running, regVars, mainVars, hotplug, open, watched, data, queue,
                 wake, events, changes>>

(* InputReady: the entry polled may have been removed in the meantime.      *)
Read(d) ==
  /\ ipc = "serve" /\ d \in todo /\ Free
  /\ todo' = todo \ {d}
  /\ IF state[d] = "running" /\ d \in data
     THEN queue' = Append(queue, d) /\ data' = data \ {d}
     ELSE UNCHANGED <<queue, data>>
  /\ UNCHANGED <<running, ipc, regVars, mainVars, hotplug, open, watched, wake,
                 events, changes>>

(* InputThreadPipeNotify: one read takes what there is, or the end of file. *)
ReadHotplug ==
  /\ ipc = "serve" /\ NoDevice \in todo
  /\ todo' = todo \ {NoDevice}
  /\ running' = (running /\ hotplug > 0)
  /\ hotplug' = 0
  /\ UNCHANGED <<ipc, regVars, mainVars, open, watched, data, queue, wake,
                 events, changes>>

Served ==
  /\ ipc = "serve" /\ todo = {}
  /\ ipc' = "kick"
  /\ UNCHANGED <<running, todo, regVars, mainVars, hotplug, open, watched, data,
                 queue, wake, events, changes>>

(* The byte is written after the events are queued; the write blocks while  *)
(* the pipe is full.                                                        *)
Kick ==
  /\ ipc = "kick" /\ wake < PipeSize
  /\ wake' = wake + 1
  /\ ipc' = "check"
  /\ UNCHANGED <<running, todo, regVars, mainVars, hotplug, open, watched, data,
                 queue, events, changes>>

----------------------------------------------------------------------------
(* The main thread: Dispatch, WaitForSomething, mieqProcessInputEvents      *)

(* InputCheckPending, without the lock.                                     *)
Look ==
  /\ mpc = "check"
  /\ Stay(IF queue # <<>> THEN "process" ELSE "wait")
  /\ UNCHANGED <<inputVars, regVars, hotplug, open, watched, data, queue, wake,
                 events, changes>>

(* The poll returns for the notification pipe, drained by                   *)
(* InputThreadNotifyPipe, or for a client.                                  *)
Wait ==
  /\ mpc = "wait"
  /\ wake' = 0
  /\ Stay("check")
  /\ UNCHANGED <<inputVars, regVars, hotplug, open, watched, data, queue,
                 events, changes>>

Lock ==
  /\ mpc = "process"
  /\ mpc' = "take" /\ depth' = depth + 1
  /\ UNCHANGED <<event, goal, outer, inputVars, regVars, hotplug, open, watched, data,
                 queue, wake, events, changes>>

TakeEvent ==
  /\ mpc = "take" /\ queue # <<>>
  /\ event' = Head(queue) /\ queue' = Tail(queue)
  /\ mpc' = "handle" /\ depth' = depth - 1
  /\ UNCHANGED <<goal, outer, inputVars, regVars, hotplug, open, watched, data, wake,
                 events, changes>>

NoMoreEvents ==
  /\ mpc = "take" /\ queue = <<>>
  /\ mpc' = (IF goal = NoDevice THEN "check" ELSE "off") /\ depth' = depth - 1
  /\ UNCHANGED <<event, goal, outer, inputVars, regVars, hotplug, open, watched, data,
                 queue, wake, events, changes>>

(* mieqProcessDeviceEvent                                                   *)
Handle ==
  /\ mpc = "handle"
  /\ event' = NoDevice /\ mpc' = "process"
  /\ UNCHANGED <<depth, goal, outer, inputVars, regVars, hotplug, open, watched, data,
                 queue, wake, events, changes>>

----------------------------------------------------------------------------
(* Devices                                                                  *)

MayChange(d) == mpc = "check" /\ changes < MaxChanges

(* InputThreadRegisterDev: the entry in use is kept, a removed one is not.  *)
TurnOnMutantReuses(d) ==
  /\ MayChange(d) /\ status[d] = "off"
  /\ status' = [status EXCEPT ![d] = "on"]
  /\ state' = [state EXCEPT ![d] = IF @ = "none" /\ d \notin stale THEN "added" ELSE @]
  /\ missed' = IF state[d] = "running" THEN missed ELSE missed \ {d}
  /\ changed' = TRUE
  /\ changes' = changes + 1
  /\ Stay("notify")
  /\ UNCHANGED <<stale, inputVars, hotplug, open, watched, data, queue, wake, events>>

TurnOn(d) ==
  /\ MayChange(d) /\ status[d] = "off"
  /\ status' = [status EXCEPT ![d] = "on"]
  /\ state' = [state EXCEPT ![d] = IF @ = "none" THEN "added" ELSE @]
  /\ missed' = IF state[d] = "running" THEN missed ELSE missed \ {d}
  /\ changed' = TRUE
  /\ changes' = changes + 1
  /\ Stay("notify")
  /\ UNCHANGED <<stale, inputVars, hotplug, open, watched, data, queue, wake, events>>

(* A device is removed with the input lock held all along (remove_device);  *)
(* turned off, it is drained first and locked later                         *)
(* (xf86DisableInputDeviceForVTSwitch).                                     *)
RemoveMutantUnlocked(d) ==
  /\ MayChange(d) /\ status[d] # "gone"
  /\ goal' = d /\ outer' = 1 /\ mpc' = "process" /\ depth' = 0
  /\ changes' = changes + 1
  /\ UNCHANGED <<event, regVars, inputVars, hotplug, open, watched, data, queue,
                 wake, events>>

Remove(d) ==
  /\ MayChange(d) /\ status[d] # "gone"
  /\ goal' = d /\ outer' = 1 /\ mpc' = "process" /\ depth' = 1
  /\ changes' = changes + 1
  /\ UNCHANGED <<event, regVars, inputVars, hotplug, open, watched, data, queue,
                 wake, events>>

TurnOff(d) ==
  /\ MayChange(d) /\ status[d] = "on"
  /\ goal' = d /\ mpc' = "process"
  /\ changes' = changes + 1
  /\ UNCHANGED <<depth, event, outer, regVars, inputVars, hotplug, open, watched, data,
                 queue, wake, events>>

(* InputThreadUnregisterDev: the first entry with the descriptor, which may *)
(* be one that is removed already; the entry in use then stays.             *)
UnregisterMutantKeepsState(d) ==
  /\ stale' = stale \cup {d}
  /\ UNCHANGED <<state, missed>>

Unregister(d) ==
  IF state[d] = "none"
  THEN UNCHANGED <<stale, state, missed>>
  ELSE IF d \in stale
  THEN missed' = missed \cup {d} /\ UNCHANGED <<stale, state>>
  ELSE /\ stale' = stale \cup {d}
       /\ state' = [state EXCEPT ![d] = "none"]
       /\ missed' = missed \ {d}

(* DisableDevice: of a device that is on the driver unregisters and closes  *)
(* the descriptor, which ends the kernel's polling it.  RemoveDevice goes   *)
(* on to free the device.                                                   *)
Off ==
  /\ mpc = "off" /\ (Free \/ Removing)
  /\ IF status[goal] = "on"
     THEN /\ Unregister(goal) /\ changed' = TRUE
          /\ data' = data \ {goal} /\ watched' = watched \ {goal}
     ELSE UNCHANGED <<stale, state, missed, changed, data, watched>>
  /\ status' = [status EXCEPT ![goal] = IF Removing THEN "gone" ELSE "off"]
  /\ mpc' = "notify"
  /\ UNCHANGED <<depth, event, goal, outer, inputVars, hotplug, open, queue,
                 wake, events, changes>>

(* InputThreadFillPipe(hotplugPipeWrite), and the lock is released.         *)
NotifyMutantSilent ==
  /\ mpc = "notify"
  /\ depth' = 0 /\ goal' = NoDevice /\ outer' = 0 /\ mpc' = "check"
  /\ UNCHANGED <<event, inputVars, regVars, hotplug, open, watched, data, queue,
                 wake, events, changes>>

Notify ==
  /\ mpc = "notify"
  /\ hotplug' = hotplug + 1
  /\ depth' = 0 /\ goal' = NoDevice /\ outer' = 0 /\ mpc' = "check"
  /\ UNCHANGED <<event, inputVars, regVars, open, watched, data, queue, wake,
                 events, changes>>

(* InputThreadFini: close the pipe, drop the lock, wait for the thread.     *)
FiniMutantLeavesPipe ==
  /\ mpc = "check"
  /\ mpc' = "join" /\ depth' = 0
  /\ UNCHANGED <<event, goal, outer, inputVars, regVars, hotplug, open, watched, data,
                 queue, wake, events, changes>>

Fini ==
  /\ mpc = "check"
  /\ open' = FALSE
  /\ mpc' = "join" /\ depth' = 0
  /\ UNCHANGED <<event, goal, outer, inputVars, regVars, hotplug, watched, data, queue,
                 wake, events, changes>>

Join ==
  /\ mpc = "join" /\ ipc = "done"
  /\ Stay("exit")
  /\ UNCHANGED <<inputVars, regVars, hotplug, open, watched, data, queue, wake,
                 events, changes>>

(* The hardware has something to read.                                      *)
Arrive(d) ==
  /\ status[d] = "on" /\ d \notin data /\ events < MaxEvents
  /\ data' = data \cup {d} /\ events' = events + 1
  /\ UNCHANGED <<inputVars, regVars, mainVars, hotplug, open, watched, queue,
                 wake, changes>>

----------------------------------------------------------------------------
Init ==
  /\ status = [d \in Devices |-> "off"] /\ state = [d \in Devices |-> "none"]
  /\ stale = {} /\ missed = {} /\ changed = FALSE /\ hotplug = 0 /\ open = TRUE /\ running = TRUE
  /\ watched = {} /\ data = {} /\ todo = {} /\ ipc = "check" /\ queue = <<>>
  /\ wake = 0 /\ depth = 0 /\ mpc = "check" /\ event = NoDevice /\ goal = NoDevice
  /\ outer = 0 /\ events = 0 /\ changes = 0

InputStep ==
  Check \/ Apply \/ Poll \/ (\E d \in Devices : Read(d)) \/ ReadHotplug \/ Served \/ Kick
MainStep ==
  \/ Look \/ Lock \/ TakeEvent \/ NoMoreEvents \/ Handle \/ Off \/ Notify \/ Join
  \/ Wait /\ wake > 0
Elsewhere ==
  \/ Wait \/ Fini
  \/ \E d \in Devices : TurnOn(d) \/ TurnOff(d) \/ Remove(d) \/ Arrive(d)

Next == InputStep \/ MainStep \/ Elsewhere

Spec == Init /\ [][Next]_vars
FairSpec == Spec /\ WF_vars(InputStep) /\ WF_vars(MainStep)

----------------------------------------------------------------------------
TypeOK ==
  /\ status \in [Devices -> {"on", "off", "gone"}]
  /\ state \in [Devices -> {"none", "added", "running"}]
  /\ stale \subseteq Devices /\ missed \subseteq Devices
  /\ watched \subseteq Devices /\ data \subseteq Devices
  /\ todo \subseteq Devices \cup {NoDevice} /\ queue \in Seq(Devices)
  /\ changed \in BOOLEAN /\ open \in BOOLEAN /\ running \in BOOLEAN
  /\ outer \in {0, 1}
  /\ hotplug \in Nat /\ wake \in 0..PipeSize
  /\ depth = (IF mpc = "take" THEN 1 ELSE 0) + outer
  /\ event \in Devices \cup {NoDevice} /\ goal \in Devices \cup {NoDevice}
  /\ ipc \in {"check", "apply", "poll", "serve", "kick", "done"}
  /\ mpc \in {"check", "wait", "process", "take", "handle", "off", "notify", "join", "exit"}
  /\ events \in Nat /\ changes \in Nat

(* No event of a freed device is queued or handled: remove_device empties   *)
(* the queue "so we don't try to dereference a device that's already been   *)
(* removed" and holds the input lock until the device is unregistered.      *)
NoDanglingDevice ==
  /\ \A i \in 1..Len(queue) : status[queue[i]] # "gone"
  /\ event # NoDevice => status[event] # "gone"

(* The main thread does not sleep on queued events: a byte is in the pipe,  *)
(* or the input thread is on its way to write one (InputThreadDoWork).      *)
NoLostWakeup ==
  mpc = "wait" /\ queue # <<>> => wake > 0 \/ ipc \in {"serve", "kick"}

(* The input thread does not sleep on a changed device list                 *)
(* (InputThreadRegisterDev, InputThreadUnregisterDev).                      *)
HotplugNoticed ==
  ipc = "poll" /\ changed => hotplug > 0 \/ mpc = "notify" \/ ~open

(* A device that is off has no entry in use: "Unregister a device in the    *)
(* threaded input facility" (inputthread.c:245).                            *)
OffIsUnwatched ==
  \A d \in Devices : status[d] \in {"off", "gone"} => state[d] = "none"

(* Unless an unregistering found an older entry in place of the one in use, *)
(* a device that is on is polled or about to be, and one that is off has no *)
(* entry in use: the registrations the main thread asked for are what the   *)
(* input thread comes to poll (InputThreadRegisterDev,                      *)
(* InputThreadUnregisterDev, InputThreadDoWork).                            *)
DevicesServed ==
  \A d \in Devices :
    \/ d \in missed
    \/ status[d] = "on" /\ d \in watched /\ state[d] = "running"
    \/ status[d] = "on" /\ changed /\ state[d] = "added"
    \/ status[d] # "on" /\ d \notin watched /\ state[d] = "none"

(* Queued events are handled, unless the server ends.                       *)
EventsHandled == queue # <<>> ~> (queue = <<>> \/ mpc \in {"join", "exit"})

(* A registered device comes to be read, an unregistered one leaves.        *)
ChangesTakeEffect ==
  \A d \in Devices :
    /\ state[d] = "added" ~> (state[d] # "added" \/ ~open)
    /\ d \in stale ~> (d \notin stale \/ ~open)

(* Neither thread leaves the other's work lying while both run.             *)
NothingWaits == EventsHandled /\ ChangesTakeEffect

(* InputThreadFini comes back: closing the pipe gets the thread to shut     *)
(* down.                                                                    *)
ShutdownEnds == mpc = "join" ~> mpc = "exit"
=============================================================================
