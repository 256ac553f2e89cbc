---------------------------- MODULE PresentWnmd ----------------------------
(****************************************************************************)
(* The Present extension in window flip mode (present/present_wnmd.c, with    *)
(* what it uses of present_vblank.c, present_execute.c and present_screen.c) *)
(* over the driver of Xwayland (hw/xwayland/xwayland-present.c), for one     *)
(* window, and the compositor as far as the driver sees it.                  *)
(* Handlers call each other, so each is an operator from state to state over *)
(* the record s, and an action applies one of them.  Memory never runs out,  *)
(* and time is msc alone: a timer that is set may fire at any time.          *)
(****************************************************************************)
EXTENDS Integers, FiniteSets, SequencesExt

CONSTANTS
  Pixmaps, NoPix,
  Sizes,       \* of windows and pixmaps
  SizeOf,      \* of each pixmap
  Options,     \* of requests, of OptionRecord
  Targets,     \* window_msc arguments
  Repeats,     \* clients present pixmaps that are not idle
  Events,      \* what else happens, of "resize", "unmap", "damage", "destroy"
  MaxReq,      \* bound: requests
  MaxMsc,      \* bound: frames
  LastRequest  \* bound: the last frame in which there are requests

OptionRecord == [kind : {"pixmap", "msc"}, async : BOOLEAN, copy : BOOLEAN,
                 update : BOOLEAN, wait : BOOLEAN]

ASSUME PresentWnmdAssumption ==
  /\ NoPix \notin Pixmaps /\ SizeOf \in [Pixmaps -> Sizes]
  /\ Options \subseteq OptionRecord /\ Targets \subseteq Nat /\ Repeats \in BOOLEAN
  /\ MaxReq \in Nat \ {0} /\ MaxMsc \in Nat /\ LastRequest \in 1..MaxMsc

VARIABLE s    \* see StateType

Ids == 1..MaxReq
None == 0    \* no request

Vblank ==
  [pix : Pixmaps \cup {NoPix}, kind : {"none", "pixmap", "msc"}, target : Nat,
   update : BOOLEAN, wait : BOOLEAN, flip : BOOLEAN, sync : BOOLEAN,
   ready : BOOLEAN, queued : BOOLEAN, abort : BOOLEAN, idler : BOOLEAN]

FlipEvent ==
  [at : {"freed", "sync", "queue"}, pix : Pixmaps \cup {NoPix},
   pending : BOOLEAN, released : BOOLEAN]

StateType ==
  [ \* present_window_priv
   vb : [Ids -> Vblank], next : 1..(MaxReq + 1), execQ : SUBSET Ids, flipQ : Seq(Ids),
   idleQ : SUBSET Ids, pending : Ids \cup {None}, active : Ids \cup {None},
   \* xwl_present_window and xwl_window
   msc : Nat, events : Seq(Ids \X Nat), fe : [Ids -> FlipEvent],
   syncFlip : Ids \cup {None}, syncCb : Ids \cup {None},
   listed : BOOLEAN, frame : BOOLEAN, timer : BOOLEAN,
   \* the wl_buffers: their user data, and those the compositor uses
   data : [Pixmaps -> Ids \cup {None}], used : SUBSET Pixmaps,
   \* the window, the wait fence and its callbacks
   alive : BOOLEAN, mapped : BOOLEAN, size : Sizes, fence : BOOLEAN,
   callbacks : Seq(Ids), halted : BOOLEAN,
   \* what the client was told, and the requests idle while in use
   idle : [Ids -> Nat], done : [Ids -> [n : Nat, msc : Nat, mode : {"none", "copy", "skip", "flip"}]],
   early : SUBSET Ids]

Check(t, assertion) == IF assertion THEN t ELSE [t EXCEPT !.halted = TRUE]

FreshVblank ==
  [pix |-> NoPix, kind |-> "none", target |-> 0, update |-> FALSE, wait |-> FALSE,
   flip |-> FALSE, sync |-> FALSE, ready |-> FALSE, queued |-> FALSE,
   abort |-> FALSE, idler |-> FALSE]

FreedEvent == [at |-> "freed", pix |-> NoPix, pending |-> FALSE, released |-> FALSE]

----------------------------------------------------------------------------
(* The driver, called by Present.                                           *)
ResetTimer(t) == [t EXCEPT !.timer = t.syncFlip # None \/ t.events # <<>>]

XwlQueueVblank(t, v, msc) ==
  [t EXCEPT !.events = Append(@, <<v, msc>>), !.listed = @ \/ (t.mapped /\ t.frame),
            !.timer = TRUE]

XwlFlipMutantNoTimer(t, v) ==
  LET b == t.vb[v]
  IN [t EXCEPT
       !.fe[v] = [at |-> IF b.sync THEN "sync" ELSE "queue", pix |-> b.pix,
                  pending |-> TRUE, released |-> FALSE],
       !.syncFlip = IF b.sync THEN v ELSE @, !.syncCb = IF b.sync THEN @ ELSE v,
       !.data[b.pix] = v, !.used = @ \cup {b.pix},
       !.frame = TRUE, !.listed = TRUE]

XwlFlip(t, v) ==
  LET b == t.vb[v]
  IN ResetTimer([t EXCEPT
       !.fe[v] = [at |-> IF b.sync THEN "sync" ELSE "queue", pix |-> b.pix,
                  pending |-> TRUE, released |-> FALSE],
       !.syncFlip = IF b.sync THEN v ELSE @, !.syncCb = IF b.sync THEN @ ELSE v,
       !.data[b.pix] = v, !.used = @ \cup {b.pix},
       !.frame = TRUE, !.listed = TRUE])

XwlFreeEventMutantKeepsData(t, v) == [t EXCEPT !.fe[v] = FreedEvent]

XwlFreeEvent(t, v) ==
  LET e == t.fe[v]
  IN [t EXCEPT !.fe[v] = FreedEvent, !.data = [p \in Pixmaps |->
        IF p = e.pix /\ ~e.released THEN None ELSE @[p]]]

----------------------------------------------------------------------------
(* present_vblank.c, present_execute.c, present.c                           *)
PixmapIdle(t, v) ==
  [t EXCEPT !.idle[v] = @ + 1,
            !.early = IF t.fe[v].at # "freed" /\ ~t.fe[v].released THEN @ \cup {v} ELSE @]

VblankNotify(t, v, mode, msc) ==
  [t EXCEPT !.done[v] = [n |-> @.n + 1, msc |-> msc, mode |-> mode]]

Unqueue(t, v) ==
  [t EXCEPT !.execQ = @ \ {v}, !.flipQ = Remove(@, v), !.idleQ = @ \ {v}]

VblankDestroy(t, v) ==
  [Unqueue(t, v) EXCEPT !.vb[v] = [FreshVblank EXCEPT !.target = t.vb[v].target]]

ScrapMutantKeepsPixmap(t, v) == [PixmapIdle(t, v) EXCEPT !.vb[v].flip = FALSE]

Scrap(t, v) == [PixmapIdle(t, v) EXCEPT !.vb[v].pix = NoPix, !.vb[v].flip = FALSE]

ExecutePost(t, v, msc) ==
  LET b == t.vb[v]
      mode == IF b.kind = "pixmap" /\ b.pix = NoPix THEN "skip" ELSE "copy"
  IN VblankDestroy(VblankNotify(t, v, mode, msc), v)

CheckFlip(t, p) == t.mapped /\ SizeOf[p] = t.size

----------------------------------------------------------------------------
(* present_wnmd.c                                                           *)
FreeIdle(t, v) == VblankDestroy(PixmapIdle(t, v), v)

FreeIdleVblanks(t) ==
  LET old == {v \in t.idleQ : t.vb[v].flip}
      u == FoldSet(LAMBDA v, w : FreeIdle(w, v), t, old)
  IN IF u.active = None THEN u ELSE [FreeIdle(u, u.active) EXCEPT !.active = None]

SetAbortFlip(t) == [t EXCEPT !.vb[t.pending].abort = TRUE]

RECURSIVE Execute(_, _, _)

ReExecute(t, v) == Execute(t, v, t.msc)

FlipTryReadyMutantNever(t) == t

FlipTryReady(t) ==
  LET i == SelectInSeq(t.flipQ, LAMBDA v : t.vb[v].queued)
  IN IF i = 0 THEN t ELSE ReExecute(t, t.flipQ[i])

FlipsStop(t) ==
  FlipTryReady(FreeIdleVblanks(ResetTimer(Check(t, t.pending = None))))

CancelFlip(t) ==
  IF t.pending # None THEN SetAbortFlip(t)
  ELSE IF t.active # None THEN FlipsStop(t) ELSE t

ExecuteCopy(t, v, msc) ==
  [XwlQueueVblank(PixmapIdle(CancelFlip(t), v), v, msc + 1) EXCEPT !.idleQ = @ \cup {v}]

Defer(t, v) ==
  [Unqueue(t, v) EXCEPT !.flipQ = Append(@, v), !.vb[v].ready = TRUE]

StartFlip(t, v) ==
  XwlFlip([t EXCEPT !.flipQ = <<v>> \o @, !.pending = v], v)

Execute(t, v, msc) ==
  LET b == t.vb[v]
      u == [Unqueue(t, v) EXCEPT !.vb[v].queued = FALSE]
  IN IF b.wait /\ ~t.fence
     THEN [t EXCEPT !.callbacks = IF Contains(@, v) THEN @ ELSE Append(@, v)]
     ELSE IF b.flip /\ b.pix # NoPix /\ t.pending # None
     THEN Defer(t, v)
     ELSE IF b.pix = NoPix THEN ExecutePost(u, v, msc)
     ELSE IF b.flip /\ t.mapped THEN StartFlip(u, v)
     ELSE ExecuteCopy([u EXCEPT !.vb[v].flip = FALSE], v, msc)

Retire(t) ==
  IF t.active = None THEN t
  ELSE IF t.vb[t.active].idler THEN FreeIdle(t, t.active)
  ELSE [t EXCEPT !.idleQ = @ \cup {t.active}]

FlipNotify(t, v, msc) ==
  LET u == VblankNotify([Retire([Check(t, v = t.pending) EXCEPT !.flipQ = Remove(@, v)])
                           EXCEPT !.active = v, !.pending = None], v, "flip", msc)
  IN FlipTryReady(IF t.vb[v].abort THEN FlipsStop(u) ELSE u)

EventNotify(t, v, msc) ==
  IF t.active = v THEN [t EXCEPT !.vb[v].idler = TRUE]
  ELSE IF v \in t.execQ \/ (Contains(t.flipQ, v) /\ t.vb[v].queued) THEN Execute(t, v, msc)
  ELSE IF Contains(t.flipQ, v) THEN FlipNotify(t, v, msc)
  ELSE IF v \notin t.idleQ THEN t
  ELSE IF t.vb[v].flip THEN FreeIdle(t, v) ELSE ExecutePost(t, v, msc)

CheckFlipWindow(t) ==
  LET Lost(v) == ~CheckFlip(t, t.vb[v].pix)
      u == IF t.pending # None THEN IF Lost(t.pending) THEN SetAbortFlip(t) ELSE t
           ELSE IF t.active # None /\ Lost(t.active) THEN FlipsStop(t) ELSE t
  IN [u EXCEPT !.vb = [v \in Ids |->
        IF @[v].queued /\ @[v].flip /\ ~CheckFlip(u, @[v].pix)
        THEN [@[v] EXCEPT !.flip = FALSE] ELSE @[v]]]

AdjustTimings(async, now, target) ==
  IF target > now THEN target ELSE IF async THEN now ELSE now + 1

(* Presentations complete one frame after they are executed.               *)
ExecMsc(target) == target - 1

Superseded(t, target) ==
  {v \in Ids : t.vb[v].queued /\ t.vb[v].pix # NoPix /\ t.vb[v].target = target}

ScrapSuperseded(t, target) ==
  FoldLeft(LAMBDA u, v : IF u.vb[v].ready THEN ReExecute(Scrap(u, v), v) ELSE Scrap(u, v),
           t, SetToSortSeq(Superseded(t, target), <))

VblankCreate(t, v, p, opt, target) ==
  LET able == p # NoPix /\ ~opt.copy /\ CheckFlip(t, p)
  IN [t EXCEPT !.next = v + 1, !.execQ = @ \cup {v},
        !.vb[v] = [FreshVblank EXCEPT !.pix = p, !.kind = opt.kind, !.target = target,
                     !.update = opt.update, !.wait = opt.wait, !.flip = able,
                     !.sync = able /\ target > t.msc, !.queued = TRUE]]

PresentPixmap(t, p, opt, window_msc) ==
  LET v == t.next
      target == AdjustTimings(opt.async, t.msc, window_msc)
      u == IF p # NoPix /\ ~opt.update THEN ScrapSuperseded(t, target) ELSE t
      w == VblankCreate(u, v, p, opt, target)
  IN IF t.msc < ExecMsc(target) THEN XwlQueueVblank(w, v, ExecMsc(target)) ELSE Execute(w, v, t.msc)

(* present_destroy_window, and xwl_present_cleanup.                         *)
DestroyWindow(t) ==
  LET queued == {v \in Ids : t.vb[v].queued \/ (v \in t.idleQ /\ ~t.vb[v].flip)}
      u == FoldSet(LAMBDA v, w : VblankDestroy(w, v), t, queued)
      flips == (ToSet(u.flipQ) \cup u.idleQ \cup {u.active}) \ {None}
      w == FoldSet(LAMBDA v, x : FreeIdle(x, v), u, flips)
      x == FoldSet(LAMBDA v, y : XwlFreeEvent(y, v), w, {v \in Ids : w.fe[v].at # "freed"})
  IN [x EXCEPT !.alive = FALSE, !.mapped = FALSE, !.active = None, !.pending = None,
        !.events = <<>>, !.syncFlip = None, !.syncCb = None, !.callbacks = <<>>,
        !.listed = FALSE, !.frame = FALSE, !.timer = FALSE]

----------------------------------------------------------------------------
(* The driver, called by the compositor and the timer.                      *)
SyncFlipDone(t) ==
  LET v == t.syncFlip
      u == EventNotify([t EXCEPT !.syncFlip = None, !.fe[v].pending = FALSE], v, t.msc)
  IN IF v = None THEN t
     ELSE IF u.fe[v].released THEN XwlFreeEvent(EventNotify(u, v, t.msc), v)
     ELSE [u EXCEPT !.fe[v].at = "queue"]

MscBump(t) ==
  LET u == SyncFlipDone([t EXCEPT !.msc = @ + 1])
      due == SelectSeq(u.events, LAMBDA e : e[2] <= u.msc)
      Notify(w, e) == LET x == EventNotify(w, e[1], w.msc)
                      IN [x EXCEPT !.events = Remove(@, e)]
  IN FoldLeft(Notify, u, due)

TimerFires ==
  /\ s.timer /\ s.msc < MaxMsc
  /\ s' = ResetTimer(MscBump([s EXCEPT !.listed = FALSE]))

FrameCallback ==
  /\ s.frame /\ s.msc < MaxMsc
  /\ s' = LET t == [s EXCEPT !.frame = FALSE, !.listed = FALSE]
          IN IF s.listed THEN ResetTimer(MscBump(t)) ELSE t

BufferRelease(p) ==
  /\ p \in s.used
  /\ s' = LET v == s.data[p]
              t == [s EXCEPT !.used = @ \ {p}, !.data[p] = None]
              u == [t EXCEPT !.fe[v].released = TRUE]
          IN IF v = None THEN t
             ELSE IF s.fe[v].pending THEN u
             ELSE XwlFreeEvent(EventNotify(u, v, u.msc), v)

SyncCallback ==
  /\ s.syncCb # None
  /\ s' = LET v == s.syncCb
              t == EventNotify([s EXCEPT !.syncCb = None, !.fe[v].pending = FALSE], v, s.msc)
          IN IF t.fe[v].released THEN XwlFreeEvent(EventNotify(t, v, t.msc), v) ELSE t

----------------------------------------------------------------------------
(* The client and the rest of the server.                                   *)
Unidled(p) == {v \in Ids : s.vb[v].pix = p}

Request(p, opt, window_msc) ==
  /\ s.alive /\ s.next <= MaxReq /\ s.msc <= LastRequest
  /\ p = NoPix <=> opt.kind = "msc"
  /\ Repeats \/ p = NoPix \/ Unidled(p) = {}
  /\ s' = PresentPixmap(s, p, opt, window_msc)

FenceTriggered ==
  /\ ~s.fence
  /\ s' = FoldLeft(ReExecute, [s EXCEPT !.fence = TRUE, !.callbacks = <<>>], s.callbacks)

Resize(n) ==
  /\ "resize" \in Events /\ s.mapped /\ n # s.size
  /\ s' = CheckFlipWindow([s EXCEPT !.size = n])

Unmap ==
  /\ "unmap" \in Events /\ s.mapped
  /\ s' = LET t == [s EXCEPT !.mapped = FALSE, !.frame = FALSE, !.listed = FALSE]
          IN CheckFlipWindow(IF s.listed THEN ResetTimer(t) ELSE t)

Map == s.alive /\ ~s.mapped /\ s' = CheckFlipWindow([s EXCEPT !.mapped = TRUE])

PostDamage ==
  "damage" \in Events /\ s.mapped /\ ~s.frame /\ s' = [s EXCEPT !.frame = TRUE]

Destroy == "destroy" \in Events /\ s.alive /\ s' = DestroyWindow(s)

Init ==
  s = [vb |-> [v \in Ids |-> FreshVblank], next |-> 1, execQ |-> {}, flipQ |-> <<>>,
       idleQ |-> {}, pending |-> None, active |-> None,
       msc |-> 1, events |-> <<>>, fe |-> [v \in Ids |-> FreedEvent],
       syncFlip |-> None, syncCb |-> None, listed |-> FALSE, frame |-> FALSE, timer |-> FALSE,
       data |-> [p \in Pixmaps |-> None], used |-> {},
       alive |-> TRUE, mapped |-> TRUE, size |-> CHOOSE n \in Sizes : TRUE, fence |-> FALSE,
       callbacks |-> <<>>, halted |-> FALSE,
       idle |-> [v \in Ids |-> 0],
       done |-> [v \in Ids |-> [n |-> 0, msc |-> 0, mode |-> "none"]], early |-> {}]

Next ==
  /\ ~s.halted
  /\ \/ TimerFires \/ FrameCallback \/ SyncCallback \/ FenceTriggered
     \/ Unmap \/ Map \/ PostDamage \/ Destroy
     \/ \E p \in Pixmaps : BufferRelease(p)
     \/ \E n \in Sizes : Resize(n)
     \/ \E p \in Pixmaps \cup {NoPix}, opt \in Options, m \in Targets : Request(p, opt, m)

Spec == Init /\ [][Next]_s

(* Weak fairness of the frame timer (a frame callback may come first), of   *)
(* wl_display_sync and of the fence, without ENABLED.                       *)
FairSpec ==
  /\ Spec
  /\ []<>~(s.timer /\ s.msc < MaxMsc) \/ []<><<s'.msc # s.msc>>_s
  /\ []<>(s.syncCb = None) \/ []<><<s'.syncCb # s.syncCb>>_s
  /\ <>s.fence

----------------------------------------------------------------------------
TypeOK ==
  s \in StateType /\ IsInjective(s.flipQ)
  /\ s.execQ \cap ToSet(s.flipQ) = {} /\ s.active \notin s.execQ \cup s.idleQ

(* No assertion fails: flips only stop when none is pending, and the flip    *)
(* that completes is the pending one (present_wnmd_flips_stop,               *)
(* present_wnmd_flip_notify).                                               *)
NoAssertionFails == ~s.halted

Finished(v) == v < s.next /\ s.vb[v].kind = "none"

(* A client hears once that a request completed, and once that its pixmap is *)
(* idle, in whatever order the frame, the timer, the release of the buffer,  *)
(* and the end of flipping come.                                            *)
ToldOnce ==
  \A v \in Ids :
    /\ s.done[v].n <= 1 /\ s.idle[v] <= 1
    /\ Finished(v) /\ s.alive => s.done[v].n = 1

(* What the compositor will call back with is not freed (wl_buffer and       *)
(* wl_callback user data, xwl_present_free_event).                          *)
NoDanglingEvent ==
  /\ \A p \in Pixmaps : s.data[p] # None => /\ s.fe[s.data[p]].at # "freed"
                                            /\ s.fe[s.data[p]].pix = p
  /\ \A v \in {s.syncCb, s.syncFlip} \ {None} : s.fe[v].at # "freed" /\ s.fe[v].pending

(* A flip that Present waits for is known to the driver, which will report   *)
(* its completion with the next frame, timer or sync callback.              *)
PendingIsReported ==
  s.pending # None =>
    \/ s.pending = s.syncFlip /\ s.timer
    \/ s.pending = s.syncCb

(* The queues are disjoint, and a flip that Present waits for will be        *)
(* reported to it, and to it only.                                           *)
FlipsAccounted == TypeOK /\ NoAssertionFails /\ PendingIsReported

(* "When the X server has finished using 'pixmap' for this operation, it     *)
(* will send a PresentIdleNotify event": not while the compositor uses it.  *)
IdleAfterRelease == s.early = {}

(* A presentation completes at its target frame or later; one that was       *)
(* skipped is not shown.                                                    *)
NeverEarly ==
  \A v \in Ids : s.done[v].mode \in {"copy", "flip"} => s.done[v].msc >= s.vb[v].target

(* Each request is told its fate once and in time.                           *)
ToldOnceInTime == ToldOnce /\ NeverEarly

(* A buffer's release is told to every flip that waits for it: the wl_buffer *)
(* knows one event (wl_buffer_set_user_data).                               *)
ReleaseIsTold ==
  \A v \in Ids : s.fe[v].at # "freed" /\ ~s.fe[v].released => s.data[s.fe[v].pix] = v

(* "When the wait fence or previous flip is completed, it's time to re-try   *)
(* the request": a request deferred for a flip has one to wait for.          *)
NobodyStranded ==
  (\E i \in DOMAIN s.flipQ : s.vb[s.flipQ[i]].queued) => s.pending # None

(* Every request completes or its window dies, under the fairness of FairSpec*)
(* (the frame timer fires, the compositor answers wl_display_sync and fences *)
(* are triggered; it need not send frame callbacks).                        *)
EveryRequestCompletes ==
  \A v \in Ids : (v < s.next) ~> (s.done[v].n > 0 \/ ~s.alive)
=============================================================================
