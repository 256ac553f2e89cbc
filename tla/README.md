# A TLA+ model of the X server

The subject is the X server under `src/xorg-server` (all paths below are relative to it): Xorg
with its common code, Xwayland and the other servers built from the same core. The rest of the
repository (`src/mesa3D`, `src/third`, `src/pciaccess`) is third-party code and outside the
model, except that the protocol texts under `src/third/xorgproto-2020.1` say what extensions
promise.

An X server is one thread that serves requests, driver and device events, timers and callbacks
one at a time, plus, in recent versions, an input thread. So its difficulty is seldom a data
race. It is **re-entrancy** (a handler calls back into code that changes the list it is walking),
**order** (a completion arrives after the thing it completes has been aborted, replaced or
destroyed), **lifetime** (windows, pixmaps, fences, devices and clients die while others point at
them) and **clocks** that wrap. The models are built around that: an action is a whole entry
point, with every call it makes.

## 1. Inventory

For each component that is modelled: the state it keeps, its operations, what it interacts with,
what is hard about it, and what makes it correct.

**Present, screen flip mode** (`present/present_scmd.c`, with `present.c`, `present_vblank.c`,
`present_execute.c`, `present_screen.c`, `present_fence.c`; module `PresentScmd`).
State: a `present_vblank` per request; two queues, `present_exec_queue` and `present_flip_queue`;
per screen, the pending flip, the running unflip and the window, pixmap, serial and idle fence of
the flip on the screen; per window, its vblank list; the pixmap each window renders to.
Operations: `PresentPixmap`, `PresentNotifyMSC`, driver events (`present_event_notify`), fence
triggers (`present_wait_fence_triggered`), clip list changes (`present_check_flip_window`),
window destruction, screen closing. It calls the driver (`queue_vblank`, `abort_vblank`, `flip`,
`unflip`, `check_flip`), SYNC fences, and `SetWindowPixmap`.
Hard: a request goes through the queues in several orders, is executed again by events that may
belong to an earlier attempt, and owns a buffer that the client reuses as soon as it is told it is
idle. Flips and unflips finish when the hardware pleases, while windows are clipped, covered and
destroyed. Correct: each request completes once and no earlier than its target; each buffer comes
back once, and only when neither server nor hardware uses it; drawing always goes where it is
shown; pixmap references are exact; nothing is left waiting.

**Present, window flip mode, over Xwayland** (`present/present_wnmd.c`,
`hw/xwayland/xwayland-present.c`; module `PresentWnmd`).
State: a window's queues, its active and pending flip and those whose buffers the compositor still
has; in Xwayland an event per flip, the synchronous flip, a frame timer, a frame callback, the
user data of each `wl_buffer`. Operations: the requests, the release of a buffer, frame and sync
callbacks, the timer, resizes, unmapping and destruction of the window. Hard: release, completion
and abort of one flip come in any order and the last of them frees it. Correct: as above, and the
compositor's callbacks find no freed event.

**SYNC objects** (`Xext/sync.c`, `miext/sync/misync.c`; module `SyncCounter`).
State: counters and fences with lists of triggers; alarms; Awaits; ignored clients. Operations:
set, change and destroy counters, trigger, reset and destroy fences, Await, AwaitFence, create,
change and destroy alarms, close a connection. Hard: firing a trigger edits the list being walked;
an Await hangs on several lists; an alarm's test value is stepped until it no longer fires or 64
bits are exhausted. Correct: a client waits exactly as long as none of its conditions holds, and
no list names anything freed.

**SYNC system counters** (`Xext/sync.c`; module `SyncSystemCounter`).
State: the value, the brackets, the reset flag of the last device event, the time-out of the main
wait. Operations: alarms and queries, `SyncComputeBracketValues`, block and wakeup handlers of
SERVERTIME and IDLETIME. Hard: the counter moves by itself and is only looked at around the wait.
Correct: the server does not sleep past an alarm and reports just the transitions that were.

**Request dispatch** (`dix/dispatch.c`, `dix/dixutils.c`, `os/connection.c`, `os/io.c`; module
`ClientDispatch`).
State: the ready list and the list that awaits the end of a server grab, `ignoreCount`, the
grabbing client and its waiters, the sleep queue, buffered requests, edge-triggered poll.
Operations: read and run requests, `GrabServer`, `UngrabServer`, imperviousness, `IgnoreClient`,
`AttendClient`, `ClientSleep`, `ClientWakeup`, `ResetCurrentRequest`, `CloseDownClient`. Hard: a
client may be ignored for several reasons at once and die under each. Correct: no client with
requests is forgotten, and none is served while it sleeps or another has the server.

**The input thread** (`os/inputthread.c`, `mi/mieq.c`, `config/config.c`; module `InputThread`)
**and its queue** (`mi/mieq.c`; modules `InputQueue`, `InputStream`).
State: devices of the thread with their descriptors, two pipes, a recursive lock; a ring buffer.
Operations: wait, read, enqueue, dequeue, turn devices on and off, remove them, shut down. Hard:
flags and queue ends read without the lock; a ring that grows from one thread while the other adds
to it; merging motions in place. Correct: no event is lost, reordered or outlives its device;
neither thread sleeps on work.

**Device grabs** (`dix/events.c`, `Xi/exevents.c`; module `DeviceFreeze`).
State: per device the grab, its sync state, the grab of the other device that freezes it, the event
to replay; the queue of frozen events. Operations: grab, ungrab, AllowEvents, button and key events,
clients that leave. Hard: replaying an event may activate a grab, which freezes devices in the
midst of the replay. Correct: devices are frozen for a reason, events keep their order.

**Timers and the main wait** (`os/WaitFor.c`; module `OsTimers`).
State: a sorted list of timers. Operations: set, force, cancel, run expired timers, compute the
time-out. Hard: callbacks do all that in the midst of the loops; 32-bit milliseconds wrap and jump
back. Correct: timers run, not early, and the server does not sleep past them.

**modesetting: vblanks and page flips** (`hw/xfree86/drivers/modesetting/vblank.c`, `pageflip.c`,
`present.c`; module `MsVblank`).
State: a 64-bit counter per CRTC made of 32-bit values, the queue of events asked of the kernel, a
flip's references and framebuffers. Operations: those Present calls, with their retries. Hard:
counts out of order and across the wrap; flips on several CRTCs; events handled inside a call.
Correct: it is the driver that `PresentScmd` assumes.

**How they interact.** Present calls the driver and gets events back (`PresentScmd`'s `vbl`,
`hwFlip` and `hwUnflip` are what `MsVblank` implements); fences of SYNC execute Present's requests;
Await and sleeping requests ignore clients (`SyncCounter`'s `ignored` is `ClientDispatch`'s count);
system counters and timers decide how long the main wait lasts; the input thread fills the queue
that the main thread plays into grabs. Each model takes its neighbours by what the code relies on.

**Not modelled** are touch ownership, selections, the resource database, RandR, XFixes, Composite,
Damage, DBE, the device hierarchy, XKB, RECORD and others: section 6.

## 2. Modules

| module | what it is |
|---|---|
| `PresentScmd` | Present in screen flip mode, its driver and clients |
| `PresentRequests` | abstract: the life of a request and its buffer as a client may see it; `PresentScmd` implements it |
| `PresentScmdProofs`, `PresentScmdBuffers` | TLAPS proofs about `PresentScmd`, the second on top of the first |
| `PresentWnmd` | Present in window flip mode composed with Xwayland's driver and the compositor |
| `SyncCounter` | counters, fences, alarms and Awaits |
| `SyncSystemCounter`, `SyncSystemCounterProofs` | SERVERTIME and IDLETIME in the main loop, and proofs about them |
| `ClientDispatch`, `ClientDispatchProofs` | whose requests run, and proofs about it |
| `InputThread`, `InputThreadProofs` | the input thread and the main thread, and proofs about them |
| `InputQueue`, `InputQueueProofs` | the ring buffer, and the proof that it implements `InputStream` |
| `InputStream` | abstract: a stream of events, of which motions may be merged |
| `DeviceFreeze` | grabs, freezing and replay |
| `OsTimers`, `OsTimersProofs` | timers and the main wait, and proofs about them |
| `MsVblank`, `MsVblankProofs` | the modesetting driver, and proofs about it |
| `MC...` | model values, small sets and setups for TLC |

### Conventions

The server's one thread makes each entry point atomic. Inside an entry point handlers call each
other (an event executes a request, which aborts a flip, which restores pixmaps...), so a C
function is an operator from state to state, over a record (`Cur`, or the variable `s`), and an
action applies one of them. Reading an operator beside its C function, calls come in the order of
the code, and operators carry the C names without their prefixes (`Execute` is `present_execute`);
the map in `PROJECT.json` has the lines. Where the code handles events in the middle of a call, or
calls a callback that calls back, the stack of calls is part of the state (`calls` in `OsTimers`
and `MsVblank`) and what may run in between is an action. Loops during which the outside world
moves on are steps of their own (`todo`, `dying`, `closing`). Only `InputThread` has two threads;
there an action is what happens between two points where the other thread can be seen.

Operators named `...Mutant...` stand before the definition they are a faulty copy of. They are
used by no specification; each shows that a property notices the bug it names.

**`PresentScmd`.** `vb[v]` is the vblank of event id `v`. An id is never reused, so a freed vblank
becomes a blank record that keeps only the fields the properties need. `NoWin` and `NoPix` are
NULL. `execQ` is a set because the code only looks ids up in it; `flipQ` is a sequence because
`present_flip_try_ready` takes the first. `flipWin`, `flipPix`, `flipOf` are the screen's flip:
window, pixmap, and the request whose serial and idle fence it holds. A pointer that the code would
dereference when NULL sets `halted = "null"`; a failing assertion sets `"assert"`; `CloseScreen` ends
the behaviour with `"closed"`. `refuse` is the set of driver calls that fail in a step. The driver is
its contract in `present.h`: for each `queue_vblank` it owes one callback (`vbl` counts them, by id
and MSC) at or after that MSC, `abort_vblank` may or may not take it back, a flip is done at the
next MSC if synchronous and at any time if not, and is then called back.

**`PresentRequests`.** Each request has a phase (none, queued, copy, skip, flip, dropped) and a buffer
(none, server, screen, idle, lost). The refinement mapping computes both from the queues, the
completion count and the idle count. A request never leaves a final phase, a buffer comes back
once, from the server or off the screen, and one buffer at a time is on the screen.

**`PresentWnmd`.** `fe[v]` is Xwayland's event of flip `v`: in the synchronous slot, on the list, or
freed, still pending, its buffer released or not. `data` is the user data of each buffer, `used`
the buffers the compositor holds. Time is the MSC; the timer may fire whenever it is set.

**`SyncCounter`.** A trigger is named by its owner (`<<alarm, 0>>`, or condition `i` of a client's
Await), so that a list is a sequence of names and a freed trigger on a list can be seen. The walk of
a list takes the next pointer before the callback, as the code does; `halted` says that a handler
read something freed or does not end. A connection's resources are freed in any order, one per step.

**`SyncSystemCounter`.** Follows the main loop: input, requests, block handler, sleep, wakeup handler.
`crossed` remembers which transitions the real counter made. The variable `setup` chooses one of the
constant `Setups`: which counter, which alarms, what clients do, whether time passes while the server
works. The server may have been idle for any time when the clients create their alarms.

**`OsTimers`.** `left` is the real time to each timer's expiry, which the code does not know and the
properties are about; `expires`, `delta` and `clock` are modulo `Word`.

**`InputThread`.** The hotplug and notification pipes count bytes. `stale` are devices with an older
entry in state removed; `watched` is the kernel's poll set, which a closed descriptor leaves and which
only an open one can enter (`ospoll_add` fails otherwise, and nobody looks at its result). `missed` is
a history variable: the devices whose last unregistering found the older entry (`inputthread.c:266`) and
left the one in use. Nothing reads it but `DevicesServed`.

**`InputQueue`.** The ring with its unsigned index arithmetic; `Content` are the waiting events, which
the refinement maps to `InputStream`'s `stream`.

`InputStream`'s `Toss`, an event tossed because the ring buffer is full and cannot grow, leaves the stream
as it is. So a ring buffer that tossed every event that arrives would implement it: what `ImplementsStream`
says is that no event that is *waiting* is lost, changed or overtaken.

**`ClientDispatch`.** A client has an edge (poll will report it), buffered requests, a place on one of
two lists, a count of reasons to be ignored. A request is one of the kinds that matter here: plain,
grab, ungrab, change imperviousness, sleep, retry (`ResetCurrentRequest`), signal another, or fail to
write to another.

**`DeviceFreeze`.** Windows are levels of the sprite's trace. `ComputeFreezes`, `PlayReleasedEvents` and
event delivery call each other recursively, as in the code.

**`MsVblank`.** `Word` and `Quarter` scale 2^32 and 0x40000000. A framebuffer is named by the event id of
the flip that made it. `setup` chooses the number of CRTCs and where their counters start. The events one
vblank brings come in any order. `SetModes` is the loop with which `ms_present_unflip` sets the modes
when it cannot flip: each pass removes the framebuffer the driver knows, which is that of the pass before,
so that after it only the last CRTC's exists (section 5). What the kernel does to a CRTC whose framebuffer
is removed is left open: in the model it goes on showing the one removed.

## 3. Runs

Every run is exhaustive for its bounds. `CHECK_DEADLOCK FALSE` is everywhere because the numbers of
requests, events or frames are bounded, so that behaviours end.

| run | checks | the instance, and why it suffices |
|---|---|---|
| `scmd_life` | `NoAssertionFails`, `ScreenMatchesHardware`, `RefsExact`, `NoDanglingRenderTarget`, `BuffersComeBack`, `ShownInTurn`, `ImplementsRequests` | Two windows taking turns at the screen and dying, one buffer that all requests share (the hard case for references), a fence that is triggered, reset and destroyed, asynchronous requests, refused flips, up to closing the screen. Two requests: one on the screen, one pending or waiting. |
| `scmd_live` | `ShownInTurn`, `RootDrawsToScanout`, `EveryRequestCompletes` | One window that keeps the screen; three requests are the smallest number with one on the screen, one pending and one waiting or replaced; copies force unflips; even-frame moduli put targets two frames away. |
| `scmd_ready_stranded` | `ReadyFlipIsRetried` is **violated** | Two requests wait for a flip and lose the right to it. |
| `wnmd_flips` | `FlipsAccounted`, `ToldOnceInTime`, `NoDanglingEvent`, `EveryRequestCompletes` | Three requests with pixmaps of two sizes, flips, copies and asynchronous updates with a fence; the window resized, unmapped, damaged, destroyed; a compositor that need not send frame callbacks. |
| `sync_objects` | `BlockedForAReason`, `ListsExact`, `AlarmsStepped`, `WokenAndTold` | Two clients, two counters over a range of four values, two fences, an alarm that is stepped up or falls, is moved to another counter or to none; Awaits on both counters and both fences. |
| `sys_counters` | `BracketsSound`, `TransitionsForCause` | Five setups: comparisons on SERVERTIME; alarms for activity, mixed transitions, and comparisons on IDLETIME with a server that takes no time; the mixed ones with one that does. Nine milliseconds are twice the largest test value. |
| `timers` | `TimerListSound`, `NeverEarly`, `TimersRun` | Two timers on a clock of 20 values that passes its end, jumps of less and more than the margin, callbacks two deep within the loop over the expired ones (`MaxDepth` counts that loop as well). |
| `input_threads` | `NoDanglingDevice`, `DevicesServed`, `NothingWaits`, `ShutdownEnds` | Two devices, five hotplug changes: four of one device (on, off, on, off) may leave an entry behind, the fifth registers the device upon it; a pipe that does not fill. |
| `queue_stream` | `LastMotionTrue`, `ImplementsStream` | A ring of two buckets that grows once and may not grow again; six events wrap both sizes. |
| `client_turns` | `ClientsAccounted`, `NobodyForgotten`, `ServedInTurn` | Three clients: one with the grab, one that waits for it, one that is shut out. Two requests each on the way. |
| `device_grabs` | `FreezesAccounted`, `NothingLost`, `AsyncThaws`, `ReplayGoesDown` | Two clients, two devices, two events of each, two active grabs, no passive grabs or the two hard sets (of both devices; stacked). |
| `ms_flips` | `MscExact`, `FramebuffersKept`, `NobodyForgotten`, `ToldOnceInTime` | Two CRTCs that flip together with three events and little space in the kernel; or one whose counter of eight values wraps. |

Some properties are conjunctions of parts that are defined and commented one by one above them:
`BuffersComeBack` (`IdleOnlyWhenReleased`, `NothingLost`), `ShownInTurn` (`NeverEarly`,
`SupersededNeverShown`), `FlipsAccounted` (types and disjoint queues, no assertion fails, a pending
flip is known to the driver), `ToldOnceInTime` (of `PresentWnmd`: `ToldOnce`, `NeverEarly`; of
`MsVblank`: `OneAnswer`, `NeverEarly`, `DoneOnAll`), `BlockedForAReason` (`NoMissedWake`,
`IgnoredIffBlocked`), `WokenAndTold` (`WakesForCause`, `DestructionIsTold`), `AlarmsStepped`
(`ActiveAlarmsArmed`, `HandlersFinish`, types), `BracketsSound` (`NeverSleepsOnAlarm`, types),
`TimerListSound` (`NeverOversleeps`, types), `NothingWaits` (`EventsHandled`, `ChangesTakeEffect`),
`ClientsAccounted` (`IgnoredForAReason`, `NothingOfTheGone`, types), `ServedInTurn`
(`SleepersRunNothing`, `GrabIsExclusive`), `FreezesAccounted` (`OtherIsActive`, `FrozenForAReason`,
`PendingFrozen`, `DeadHoldsNothing`, types) and `FramebuffersKept` (`ShownKept`, `OneFbAtRest`,
`CountsReferences`, types).

**Bounds.** `MaxReq`, `MaxMsc`, `LastRequest`, `MaxTime`, `MaxEvents`, `MaxChanges`, `MaxInput`, `MaxGrabs`,
`MaxSets`, `MaxDepth`, `MaxLate`, `MaxSize`, `MaxUnseen` and `LastEvent` end behaviours or keep counters
finite; each is named where it is declared. `MaxCalls` bounds the callbacks owed to one request for one
MSC (a fence triggered again and again makes a request ask again and again; the guard is in
`TriggerFence`).

**Fairness**, stated only where liveness is checked:

- `PresentScmd`: the driver delivers what it owes and the hardware flips, with strong fairness,
  because between any two requests `WaitForSomething` (`os/WaitFor.c:166`) polls all descriptors, the
  driver's among them, so that however many requests clients send an event is not put off for ever.
  Vblanks go on and fences are triggered: weak fairness; the second is a premise on clients. Loops
  terminate. The conditions are on what a step *consumes* (an event, an element of a loop), not on the
  action as written, so that they stay the same whatever a handler then does.
- `PresentWnmd`: a timer that is set fires (`OsTimers`' `TimersRun`), the compositor answers
  `wl_display_sync`, as the Wayland protocol demands, and the fence is triggered. The compositor need
  neither send frame callbacks nor release buffers.
- `OsTimers`: the loops over timers go on, callbacks return, the server waits when it has nothing else
  to do and is woken when its time-out is over.
- `InputThread`: each of the two threads takes a step when it can (weak fairness: the operating
  system's scheduler and an uncontended lock).

## 4. Proofs

Proved with TLAPS, for all values of the constants that satisfy the modules' assumptions. The
assumptions are that bounds are naturals (positive where the code needs it), that inputs are of
their sorts (a remainder is less than its divisor, which `proc_present_pixmap` checks), and that
sentinels (`NoWin`, `NoPix`, `Root`, `NoDevice`...) are not among the real objects. TLC evaluates all
of them on every run. A theorem that needs more has it as a premise, named below.

**`PresentScmdProofs`** proves `TypeCorrect`, `Spec => []TypeOK`. The type says more than sorts: `target`
and `exec` lie in `0..MaxMsc`, so that `exec_msc = target_msc - 1` never underflows and no event is
asked for an MSC out of range; both queues hold ids of requests; callbacks owed are never negative.
`TypeOK` is inductive as it stands. Since handlers are operators from state to state, the proof is a
lemma per handler, following the call graph (`DequeueType`, ..., `ExecuteType`, ..., `SubmittedType`),
then one step per action. `AdjustTimingsEarliest`: the target that `present_adjust_timings` chooses is
the first that has the wanted remainder and is not in the past.

Its second part proves `AssertionsHold`, `Spec => []NoAssertionFails`. The property is not
inductive: `present_unflip` asserts that no flip is pending, but what keeps a caller from getting
there is what the flip queue, the pending flip and the screen's flip say of each other. `Sound`
says it: during an unflip nothing is pending; the pending flip wants to flip, has its pixmap and is
not queued; no entry is on `flipQ` twice, and an unqueued entry is the pending one; a request that
wants to flip has been submitted and is queued or pending; a flipping window has a flipping pixmap.
Inside a handler one request `x` may be between its queue and its fate, so `Sound` takes it as a
parameter; it is `Unset` between entry points. One lemma per handler shows what it does to `Sound`,
then there is one step per action (`SoundNext`), and `SoundAlways` is the invariant itself.

It also proves `RefsExactAlways`, `Spec => []RefsExact`. `Counted` is the strengthening: besides
the exact counts, requests not made yet hold no pixmap, so that a new one adds exactly its own
reference. Of all handlers only five change references: `VblankDestroy`, `Scrap` and `FlipIdle` give
them up, `VblankCreate` takes one, `TakeFlip` moves one from the request to the screen, which
`FlipIdle` has just made empty. `SameRefs` says of all others that they touch none.

**`PresentScmdBuffers`**, in its first part, proves `ScreenMatchesHardwareAlways` (the flip called pending is the one flip the
hardware has still to do, an unflip is expected exactly when one is to come, and the buffer taken over
is the one scanned out) and `NeverEarlyAlways`. The two lean on each other: an event for the pending
flip is taken for the flip's completion, so nothing is right unless no vblank is still owed to a request
by the time it flips. The strengthening is `Paced`. `OnScreen` relates the queues, the pending flip and
`hwFlip`; `Called` says that a request that wants to flip is owed one event, for the MSC it is to be
executed at, or has been executed and is owed none; `Timed` says that what is owed, and what a request
waits for after it was executed, is never more than one MSC before its target. Both theorems have the
premise `"vblank" \notin Refusable`: if `queue_vblank` fails the request is executed at once, too early,
and TLC refutes `ScreenMatchesHardware` as well (section 5). Other refusals (flips, and checks for flips)
are allowed. `ScreenMatchesHardware` says nothing of the scanout once the screen is closed, because
`present_scmd_flip_destroy` forgets the flip without a word to the hardware.

Its second part proves the rest of what `scmd_life` checks.

- `NothingLostAlways`, `SupersededNeverShownAlways` and `BuffersComeBackAlways` follow from `Booked`, which
  says of a request that is *not* over what the properties say of one that is: it has had no completion,
  and its buffer is still with the server unless a later request replaced it (`Owes`); its window is not
  destroyed (`Housed`); fence callbacks and loops reach only such requests (`Reached`); and a replaced
  request has no pixmap (`Replaced`). `BookedAlways` needs no premise on the driver. `BuffersComeBackAlways` and
  `ShownInTurnAlways` have that of the first part, because they say what the hardware shows and when.
- `NoDanglingRenderTargetAlways` follows from `Drawn`: every window draws into the screen pixmap or where
  the root does, and the root into the screen pixmap, the pixmap of a pending flip that is not to be
  aborted, or the current flip's. A pending flip whose window is gone is to be aborted; no queued
  request is. No premise.
- `RootDrawsToScanoutAlways` says more: once no flip is pending and none is to be undone, the root draws into
  the pixmap that Present has put on the screen, and into the screen pixmap if it has put none there
  (that this is what the hardware scans out is `ScreenMatchesHardwareAlways`). `Drawn` gives it when nothing is flipped. Otherwise `Rooted` says that the
  root draws into the pending flip's pixmap, or the one shown, unless it is aborted or being undone.
  The death of the window shown makes the root draw into the screen pixmap whatever is pending
  (`present_clear_window_flip`), which is right only if the pending flip is of the same window: so `Rooted`
  needs `OneFlips`, that only one window ever flips or wants to. And no flip may be started for a window
  that has gone, as nobody would undo it: `Lodged`. Premise: `Movable = {}`, windows keep the screen until
  they are destroyed, however many there are and whatever the driver refuses; without it the property
  is false (section 5).
- `PromisesImplemented`, `Spec => ImplementsRequests`: `PresentScmd` implements `PresentRequests`, for all
  constants and all refusals. `View` is the refinement mapping for a state in the middle of a handler,
  with the request in hand and the first new id as parameters; `Turn(s, t)` says that between two states
  each request's view takes a step that `PresentRequests` allows, or none. Two steps of one request in one
  handler would be too many (a request must not go from queued to shown to idle at once), so the lemmas
  also say whom each handler moves: `present_execute` only its request (`Served`), `present_flip_notify` the
  flip that leaves the screen, the one that takes its place and the one it executes next, which are
  three different requests (`TurnTwice` composes steps of different requests). `TurnedNext` has one step
  per action.
- `PromisesKept` follows from it: what a client was told of a request, that it completed or that its buffer
  is free, is never taken back.

**`InputThreadProofs`** proves, with any number of devices, events and changes and any size of the pipe:

- `TypeCorrect`, with the depth of the lock: the main thread holds it exactly while it looks at the
  queue or removes a device.
- `NeverDangling`, `Spec => []NoDanglingDevice`. The strengthening `IInv` says what the main thread is
  doing (`MainConsistent`: it handles an event only between taking one and locking again), that
  descriptors with data are of devices that are on (`DataOfDevicesOn`), and that the queue, drained
  under the lock, stays empty until the device is freed (`DrainedWhenRemoving`): the input thread cannot
  enqueue without the lock.
- `NoThreadSleepsOnWork`, `Spec => [](NoLostWakeup /\ HotplugNoticed)`: queue-then-kick and
  change-then-notify suffice, though flags and queue ends are read without the lock.
- `DevicesAreServed`, `Spec => []DevicesServed`: the input thread polls the devices that are on, or is
  about to, and has no entry in use of the others, except of those in `missed`. The property is
  inductive given the types and `MainConsistent`; that it holds at all rests on the append in
  `InputThreadRegisterDev` ("Do not prepend"), which makes `Apply` drop the older entry first.

**`InputQueueProofs`** proves `RingIsStream`, `Spec => ImplementsStream`, and `LastMotionIsTrue`. The
invariant `Ring` says types, which buckets are filled, and that `lastMotion` describes the last waiting
event. All depends on where the k-th waiting event lies: `At(k, h, n)` gives its index without
remainders, and lemmas about it say what each operation does to the content: `PutAtTail` appends,
`PutAtLast` replaces the last, `TakeFirst` takes the head, `UnwrappedStep` leaves it as it is while the
ring grows. `RingSteps` puts them together: each step keeps `Ring` and is a step of the stream or none.

**`ClientDispatchProofs`** proves all that the run `client_turns` checks, for any clients and any input:
`Accounted` (`ClientsAccounted`), `Seen` (`NobodyForgotten`) and `InTurn` (`ServedInTurn`). They assume what
the run's `Most` assumes, as premises of the theorems: no client fails in the middle of another's
request (`"fail" \notin Kinds`), and for `InTurn` that no client gives up being impervious; section 5
says what happens otherwise. None of the properties is inductive. `Good` adds that a client is ignored
for one reason at a time, that one on a list is not ignored, and that one on the ready list may run
during the grab there is (`Allowed`); `Runs` says that the client whose turn it is may run another
request unless it has been told to yield, which is why it cannot go to sleep twice. What poll and the
lists remember is a relation: `Keeps(t, u)` says that a handler loses nothing that any remaining client
had. There is one lemma per handler (`WakeupGood`, `GrabGood`, `UngrabGood`, `CloseDownGood`...) and one step
per action (`NextIInv`).

**`OsTimersProofs`** proves, for any timers and any depth of callbacks:

- `TypeCorrect`: no timer is linked twice, those that are set are on the list, and each call on the stack
  has a timer and a stage that fit.
- `NeverSleptPast` (`TimerListSound`) and `NoneEarly` (`NeverEarly`). Their premise `WithinHalf` is that a
  delay, a backward jump of the clock and the latest look at the list together stay within half a turn
  of the 32-bit clock, 24 days: only then is the sign of a wrapped difference that of the real one
  (`AsIntDifference`). The invariant `IInv` says that the clock shows how far a timer is ahead, but for the
  jump (`Timed`), and that the list is in the order of what the server computes, not of `left`
  (`InOrder(timers, Ahead)`): while the clock has jumped the two differ, and it is the first that
  insertion and the main wait read.

**`MsVblankProofs`** proves what `ms_flips` checks, for any number of CRTCs and events, any width of the
counters, both kernel interfaces, and an event queue of any size. Of this state there is so much that
the invariant comes in three layers, with a lemma per operator for each and one step per action.

- `State` has the types of all fields but for the references of a flip, which could be negative.
- `Tallied` is about counters. `Paired`: a sequence number stands for one CRTC, whoever holds it, so that
  an event is converted with the counter it was counted on. `Close`: counts seen, and counts in events
  not read yet, are at most `MaxUnseen` behind. `Exact`: `msc_prev` and `msc_high` together are the last
  count converted. `ConvertExact` is the lemma about the conversion itself: a count that is close to the
  last is converted right, if it is older too. `MscsExact` (`MscExact`) follows, with the premise
  `CloseCounters`: a counter moves at most a quarter turn between readings, and starts within that
  (section 5).
- `Sound` is about entries and framebuffers. None of `FramebuffersKept`, `NobodyForgotten` and
  `ToldOnceInTime` is inductive, and each leans on the others: a framebuffer is removed when the references
  come to zero, which is right only if each entry is handled once; that is so if each entry has its number
  with exactly one of a kernel request, a flip under way, an unread event and a call (`Linked`), which
  is about the same thing as the entry; an abort must not take an entry whose event is to come
  (`Waited`); and a flip goes between two framebuffers, and each CRTC that still shows the old one has
  an entry or is yet to be asked (`Framed`). A CRTC other than the last may also show a framebuffer that
  the mode-setting loop made for it and removed (`Dark`), and shows it until it flips (`Still`): the
  theorem excepts these, and only these. `FramebuffersAreKept`, `NobodyIsForgotten` and the first part
  of `PresentToldOnceInTime` follow; `TimelyStep` shows for the steps that tell Present something that it
  is time.
- The premise `Cooperates` adds to `CloseCounters` what section 5 shows to be needed: the kernel takes all
  CRTCs of a flip or none, targets are less than half a counter ahead, and event ids start at 2. The last
  leaves out the very first id a server uses; aborting that one during a flip is the exception.

**`SyncSystemCounterProofs`** proves what `sys_counters` checks, for any alarms, times and order of events:
`TypeCorrect` (`TypeOK`), `TransitionsHaveCause` (`TransitionsForCause`) and `EndsInTime` (`BracketsSound`). The last
two have the premise `Untouched`, which the run's setups satisfy: once the server runs, clients of
IDLETIME only delete alarms, because creating and querying store a value behind the other alarms' backs
(section 5). On SERVERTIME they do as they like.

- The hard part is that the server's value of IDLETIME is older than the counter, and after input larger
  than it. `Told` says what a trigger may still see: up from the value, or, while a reset is to be
  noticed, down from it to zero and up again; all of that the counter did. A reset may be forgotten when
  handlers are registered (`SyncComputeBracketValues` clears it), but only if there were none before, and
  then nothing on the list could fire (`Quiet`, `Missing`). `Armed` and `Marked` are what the brackets are
  for: each active comparison, and each falling transition, has one on its side, so that a value
  stored without telling the triggers passes none (`CheckBracketsKept`).
- For the waits `Served` says, on SERVERTIME, that the next time-out is at or before each active comparison.
  `Fallen` says, on IDLETIME, that a fall that is not notified happened just now and the reset is still to
  show it; then the trigger is at or below the lower bracket and among the block handler's hits, so that
  it asks for no delay (`IdleTimeEndsNow`).
- `MinOf` and `MaxOf`, about the community modules' `Min` and `Max`, rest on the library's theorem about
  well-founded relations.

Only model-checked: liveness and anything under fairness (out of the prover's reach), and all properties
of `PresentWnmd`, `SyncCounter` and `DeviceFreeze`. In `DeviceFreeze` and `SyncCounter` handlers recur or
walk lists that they change, and what recursion computes for every input needs induction over data,
which the installed provers cannot do.

## 5. Behaviours found

What the code does where a comment, a header or a protocol text says otherwise. The first has a run
that TLC must find violated. The others are properties kept at the end of the modules, or general
forms of the properties that the runs check under a condition; each comes with the constants under
which TLC finds it violated.

**Present, screen flip mode**

- `scmd_ready_stranded`, `ReadyFlipIsRetried`: `present_flip_try_ready` executes only the first queued
  entry (`present_scmd.c:271`). If that one has lost the right to flip it is copied, no flip is started,
  and no later event retries the ones behind it: they stay for ever (until another flip happens to
  complete). The counterexample is an infinite behaviour under `FairSpec`. The same happens with a
  window that keeps the screen if `queue_vblank` is refused (`scmd_live` with `Refusable = {"vblank"}`):
  a replaced request takes the turn of the one that replaced it.
- `FlippingWindowCoversScreen` (`Movable = {w1}`): `present_check_flip_window` does nothing while an unflip
  is in progress (`present_scmd.c:457`), so a queued flip is not rechecked and goes ahead for a window
  that no longer covers the screen. With two windows, one of them destroyed, and three requests this
  also ends with a flip on the screen that no window draws to (`present_screen.c:106-109`):
  `RootDrawsToScanout` is checked, and proved, with windows that keep the screen.
- `DestroyedFenceReleases`: `present_fence_sync_counter_destroyed` only clears the fence pointer
  (`present_fence.c:64-70`); the request is not executed, although the protocol says it no longer waits.
- `CloseDropsReferences`: `present_scmd_flip_destroy` drops the current flip's pixmap only
  (`present_scmd.c:814`); a pending flip keeps its reference.
- If `queue_vblank` fails, the request is executed at once, earlier than its target
  (`present_scmd.c:763-769`). So `ShownInTurn` is checked and proved without such failures;
  `PromisesImplemented` and the theorems without that premise hold with them, too. If such a request
  waits for a fence that is triggered, reset and triggered again, two callbacks of one request can be in
  flight, and the second finds the request unqueued on the flip queue and is taken for the end of its
  flip (`present_scmd.c:414-430`): with `Refusable = {"vblank"}` and `Resettable = {f1}`
  `ScreenMatchesHardware` is violated.
- A fence may re-execute a request that is already the pending flip and whose window is gone;
  `present_execute` then reads its NULL window. The model stops with `halted = "null"`.
- Requests still queued when their window is destroyed never trigger their idle fence: the buffer
  is "lost" in `PresentRequests`.

**Present, window flip mode**

- `IdleAfterRelease` (`Events = {"resize"}`): when flipping stops, `present_wnmd_free_idle_vblanks` reports
  the active pixmap and those that await their release as idle (`present_wnmd.c:130`), though the
  compositor may still use them.
- `NeverEarly` with requests of kind `"msc"`: `present_wnmd_pixmap` sets `exec_msc` to the frame before the
  target for every request (`present_wnmd.c:647`), and a NotifyMSC request completes when executed.
- `ReleaseIsTold` (`Repeats = TRUE`): a pixmap presented again before it is idle makes the new flip the
  user data of its buffer (`xwayland-present.c:492`); the earlier flip is not told of the release.
- `NobodyStranded`: a completing flip retries at most two deferred requests (`present_wnmd.c:205-208`); if
  a resize has made them copies, a third is retried by nothing until another flip completes. It takes
  four requests (updates, so that none replaces another); `wnmd_flips` has three, so this is the limit of
  what its `EveryRequestCompletes` says.

**SYNC**

- `ActiveAlarmWatches`, with a ChangeAlarm that names a new counter and a wrong value: the counter is
  replaced before the error is found (`sync.c:334`), and the alarm stays active on a counter that does not
  know it.
- `SteppingEnds`, with a ChangeAlarm of only the test type or only the delta that fails with Match: test
  type and check function differ afterwards, and stepping by zero never ends.
- `NeverSleepsOnAlarm` is promised to comparisons with SERVERTIME, and on IDLETIME to alarms that wait for
  the counter to fall, the user to come back. The rest comes late, when something else wakes the server:
  - `LateComparisons`, on IDLETIME, with positive comparisons at 1, 2 and 3: the alarms at 1 and 2 have fired
    and stay on the list; after input the counter is at or below the test value 1, which is the lower
    bracket, and there the block handler asks for no time-out for the upper one (`sync.c:2683`).
    A positive transition exactly at the value is the upper bracket (`sync.c:1091`), which does not fire
    again and hides what is above it.
  - `LateTransitions`: a positive transition on SERVERTIME gets no bracket at all (`sync.c:1087`); one on
    IDLETIME that was passed before input reset the counter is then the lower bracket, as above.
- `NoTransitionSwallowed`, with `"query"` among the requests: QueryCounter stores the queried value in the
  counter (`sync.c:1654`), and a transition in between is noticed by nobody. On IDLETIME `BracketsSound`
  fails then, too, and with `"create"`, because a new alarm's value is stored the same way.
- `TransitionsForCause`, with `"create"` among the requests: an alarm created after an input event and
  before the wakeup is notified of the drop to zero that came before it (`sync.c:2758`). With `"query"`,
  and time passing while the server works, a value stored between the event and the wakeup makes the
  handler see a fall that was notified before.

**Timers**

- `EveryAffectedRerun`: `check_timers` compares only the first timer with its delta (`WaitFor.c:136`); a
  timer set since the clock went back sorts before the affected ones and hides them.

**Input**

- `OffIsUnwatched`, with the constants of `input_threads`: a device unregistered, registered again and
  unregistered before the input thread has run has two entries with one descriptor.
  `InputThreadUnregisterDev` takes the first (`inputthread.c:266`), which is removed already; the one
  in use stays. If the device is then registered a third time after the thread has run, that entry is
  found and kept (`inputthread.c:207-213`), though its descriptor was never added to the poll set: the
  device is deaf. `DevicesServed` names exactly these devices (`missed`) and is checked and proved of
  all others.
- `ShutdownEnds` with a pipe of as many bytes as there are events: the write end blocks, and the
  thread that the main thread joins is stuck in `InputThreadFillPipe` (`inputthread.c:378`).
- `TimesNeverGoBack`, with several `Times`: `mieqEnqueue` corrects the time on the caller's event after
  it has copied it into the queue (`mieq.c:256`).

**Dispatch**

- `GrabIsExclusive` with `"pervious"`: `MakeClientGrabPervious` leaves the client on the ready list
  (`connection.c:986`), and its buffered requests run during another's grab.
- `OnlyOthersAwaitRelease` with `"impervious"`: `mark_client_grab` puts impervious clients on the list that
  awaits the release (`dispatch.c:290`).
- `WaitersAttended`: `UngrabServer` attends one of the waiters and relies on it to grab and ungrab in turn
  (`dispatch.c:1132-1139`); if that one dies first, the others stay ignored with nobody having the grab.
- `SleepersRunNothing` with `"fail"`: `AbortClient` marks an ignored client ready (`io.c:665`), and a request
  it has buffered runs while it sleeps.

**modesetting**

- `ShownExists`, with the constants of `ms_flips`: when `ms_present_unflip` cannot flip back it goes
  over the enabled CRTCs, and in each pass removes `drmmode->fb_id`, which all of them share, and lets
  `set_mode_major` import another (`modesetting/present.c:373-394`, `drmmode_display.c:630-637`). The
  comment there calls it the framebuffer of the last flipped buffer; from the second pass on it is the
  one just made for the CRTC before, which is showing it. `FramebuffersKept` allows a missing
  framebuffer to a CRTC that the loop has left behind, until its next flip, and to no other.
  `DoneOnAll` says nothing of such an unflip: there `present_event_notify` follows the loop itself.
- `MscExact` with a start past `Quarter`: the last 32-bit count is 0 when the server starts, so a count
  beyond 2^30 is taken for an old one and 2^32 is subtracted (`vblank.c:442-443`).
- `NeverEarly` with targets a `Word` ahead: without 64-bit sequences the target is cut to 32 bits
  (`vblank.c:405`).
- `RefusedNeverShown` and `UndoneUnshown` with `PartialRefusals`: a flip that one CRTC took and the next
  refused is refused, and shown (`pageflip.c:307`); if the first is done by then, its framebuffer is
  removed while it shows it (`pageflip.c:333`).
- `NobodyForgotten` with `FirstEvent = 1`: `ms_drm_abort` reads an event id where a flip's data has
  `on_reference_crtc`, which is 1 (`modesetting/present.c:138-141`): aborting event 1 removes the entry of
  a pending flip.

**Device grabs**

- `AsyncBothThaws`: AllowEvents(AsyncBoth) does nothing for a client whose one grab freezes both devices,
  because `othersFrozen` counts only devices in a frozen state of their own (`events.c:1758`).

## 6. Left out

Inside the modelled components:

- `PresentScmd`: several CRTCs and the MSC conversion between them (`present_window_to_crtc_msc`), 64-bit
  wrap-around, the CRTC-less timed path (`present_fake.c`), extra notify windows (`present_notify.c`),
  event contexts. Windows are children of the root without children of their own. An idle fence that is
  also some request's wait fence does not wake it.
- `PresentWnmd`: several windows and CRTCs, notify windows.
- `SyncCounter`: alarm events selected by other clients, retained clients, Awaits that name one object
  twice, priorities. `SyncSystemCounter`: alarms with a delta, per-device idle counters.
- `OsTimers`: `TimerForceOld` (unused), freeing timers at regeneration, DPMS and the screen saver, block
  handlers that set timers after the time-out was computed.
- `InputThread`, `InputQueue`: screens of events, custom handlers, events posted by handlers, server
  regeneration, the lock forced open by a fatal error.
- `ClientDispatch`: which ready client is next (priorities and time slices), partial and big requests,
  retained clients, KillClient, dispatch exceptions.
- `DeviceFreeze`: slave and floating devices, touches, motion, types of grabs, implicit grabs,
  confinement, event masks, time stamps.
- `MsVblank`: DRI2, CRTCs that come and go or are on with DPMS off, CloseScreen, wrap-around of the
  driver's own sequence numbers. Events are read one at a time, between any two of which other calls may
  come; `drmHandleEvent` reads a buffer of several and handles them in a row. A model of that has fewer
  interleavings from the main loop, but handlers that read events themselves find those in the buffer
  gone from the file, which is not modelled.
- Everywhere: failing allocations (but for the ring buffer that cannot grow), contents of regions and
  pixels, `sproc_` byte swapping, wording of errors and logs.

Components not modelled, and why: `PROJECT.json` has the whole list. Touch ownership
(`dix/touch.c`) hangs on event delivery to several listeners, which `DeviceFreeze` leaves out; it would
be the next module, on top of it. The resource database (`dix/resource.c`) is correct only with respect
to each type's deletion callback. RandR leases, selections and Present's notify lists are small tables
handled one request at a time. RandR configuration, XFixes, Composite, Damage, DBE, the device
hierarchy, XKB and RECORD are large tables, geometry and translations without interleavings of their
own. Rendering, GLX and DRI2 are pixels and marshalling. Windows, properties, colormaps, cursors,
fonts, PseudoramiX and the other servers' start-up code likewise.
