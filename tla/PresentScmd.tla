----------------------------- MODULE PresentScmd -----------------------------
(****************************************************************************)
(* The Present extension in screen flip mode ("scmd"): present_scmd.c with   *)
(* the parts of present.c, present_vblank.c, present_execute.c,              *)
(* present_screen.c and present_fence.c it runs on, for one screen and one   *)
(* CRTC.  The driver is its contract (present.h): it calls back with an      *)
(* event id at or after the MSC asked for, performs one flip or unflip when  *)
(* it pleases, and may refuse a call.                                        *)
(*                                                                           *)
(* The server is one thread, so a request, a driver callback or a fence      *)
(* trigger is one action.  Handlers call each other, so each C function is   *)
(* an operator from state to state over the record Cur of the variables      *)
(* below, and an action is Become(handler(Cur)).                             *)
(*                                                                           *)
(* An operator named ...Mutant... is the one after it with a bug put in; it  *)
(* is used nowhere, and shows which property notices the bug.                *)
(****************************************************************************)
EXTENDS Integers, FiniteSets, SequencesExt

CONSTANTS
  Windows, Pixmaps, Fences,
  Root, Screen,        \* the root window, the screen pixmap
  NoWin, NoPix, NoFence,
  MaxReq,              \* bound: requests accepted in one behaviour
  MaxMsc,              \* bound: last MSC the CRTC reaches
  MaxCalls,            \* bound: callbacks owed to one request for one MSC
  Targets,             \* window_msc arguments clients ask for
  Moduli,              \* <<divisor, remainder>> arguments
  Options,             \* the option records clients use
  Flippable,           \* pixmaps the driver's check_flip accepts
  AsyncCap,            \* PresentCapabilityAsync
  Refusable,           \* driver calls that may fail: "flip", "vblank"
  Movable,             \* windows whose clip list changes
  Mortal,              \* windows and fences that may be destroyed
  Resettable           \* fences that may be reset

Ids == 1..MaxReq
Mscs == 0..MaxMsc
Events == Ids \X Mscs    \* an event id and the MSC asked for
Unset == 0             \* no event id

OptionRecord == [async : BOOLEAN, copy : BOOLEAN, update : BOOLEAN]

ASSUME BoundsAssumption == MaxReq \in Nat \ {0} /\ MaxMsc \in Nat \ {0}
                            /\ MaxCalls \in Nat \ {0}
ASSUME InputAssumption ==
  /\ Targets \subseteq Nat
  /\ Moduli \subseteq {m \in Nat \X Nat : m[2] < m[1] \/ m = <<0, 0>>}
  /\ Options \subseteq OptionRecord
  /\ Flippable \subseteq Pixmaps /\ AsyncCap \in BOOLEAN
  /\ Refusable \subseteq {"flip", "vblank"}
  /\ Movable \subseteq Windows /\ Mortal \subseteq Windows \cup Fences
  /\ Resettable \subseteq Fences
ASSUME SentinelAssumption ==
  /\ NoWin \notin Windows /\ NoPix \notin Pixmaps /\ NoFence \notin Fences
  /\ Root \notin Windows /\ Root # NoWin
  /\ Screen \notin Pixmaps /\ Screen # NoPix

VARIABLES
  vb,        \* the present_vblank of each request, by event id
  execQ,     \* present_exec_queue (looked up by id only, so a set)
  flipQ,     \* present_flip_queue
  pending,   \* screen_priv->flip_pending
  unflip,    \* screen_priv->unflip_event_id # 0
  flipOf,    \* the request whose serial and idle fence screen_priv took over
  flipWin, flipPix,    \* screen_priv->flip_window, flip_pixmap
  winPix,    \* GetWindowPixmap, for the root too
  full,      \* windows whose clip list is the whole screen
  alive,     \* windows not destroyed
  refs,      \* PixmapRec.refcnt
  held,      \* pixmaps the client has not freed
  fence,     \* state of each wait fence
  todo,      \* requests the running loop has still to re-execute
  dying,     \* window whose DestroyWindow is running
  nextId,    \* present_event_id + 1
  halted,    \* "no", "assert" (an assertion failed), "null" (NULL window used)
  msc,       \* the CRTC's MSC
  vbl,       \* how many callbacks the driver owes for <<event id, msc>>
  hwFlip,    \* <<event id, due msc>> flips the hardware has not done yet
  hwUnflip,  \* unflips it has not done yet
  scanout,   \* request whose pixmap is scanned out, Unset for the screen's
  idle,      \* calls of present_pixmap_idle, by request
  done       \* CompleteNotify deliveries, by request

server == <<vb, execQ, flipQ, pending, unflip, flipOf, flipWin, flipPix>>
dix    == <<winPix, full, alive, refs, held, fence, todo, dying, nextId, halted>>
driver == <<msc, vbl, hwFlip, hwUnflip, scanout>>
client == <<idle, done>>
vars   == <<server, dix, driver, client>>

Vblank ==
  [win : Windows \cup {NoWin}, pix : Pixmaps \cup {NoPix},
   kind : {"none", "pixmap", "msc"}, target : Mscs, exec : Mscs,
   update : BOOLEAN, flip : BOOLEAN, sync : BOOLEAN, ready : BOOLEAN,
   queued : BOOLEAN, abort : BOOLEAN, wait : Fences \cup {NoFence}, cb : BOOLEAN]

Fresh ==
  [win |-> NoWin, pix |-> NoPix, kind |-> "none", target |-> 0, exec |-> 0,
   update |-> FALSE, flip |-> FALSE, sync |-> FALSE, ready |-> FALSE,
   queued |-> FALSE, abort |-> FALSE, wait |-> NoFence, cb |-> FALSE]

Modes == {"none", "copy", "skip", "flip"}

(* The part of the state the handlers transform.                            *)
Cur ==
  [vb |-> vb, execQ |-> execQ, flipQ |-> flipQ, pending |-> pending,
   unflip |-> unflip, flipOf |-> flipOf, flipWin |-> flipWin,
   flipPix |-> flipPix, winPix |-> winPix, full |-> full, refs |-> refs,
   halted |-> halted, vbl |-> vbl, hwFlip |-> hwFlip, hwUnflip |-> hwUnflip,
   idle |-> idle, done |-> done]

(* The \E binds the new state to a value, which TLC then computes once.      *)
Become(new) ==
  \E s \in {new} :
     /\ vb' = s.vb /\ execQ' = s.execQ /\ flipQ' = s.flipQ
     /\ pending' = s.pending /\ unflip' = s.unflip
     /\ flipOf' = s.flipOf /\ flipWin' = s.flipWin /\ flipPix' = s.flipPix
     /\ winPix' = s.winPix /\ full' = s.full /\ refs' = s.refs
     /\ halted' = s.halted /\ vbl' = s.vbl
     /\ hwFlip' = s.hwFlip /\ hwUnflip' = s.hwUnflip
     /\ idle' = s.idle /\ done' = s.done

State ==
  [vb : [Ids -> Vblank], execQ : SUBSET Ids, flipQ : Seq(Ids),
   pending : Ids \cup {Unset}, unflip : BOOLEAN, flipOf : Ids \cup {Unset},
   flipWin : Windows \cup {NoWin}, flipPix : Pixmaps \cup {NoPix},
   winPix : [Windows \cup {Root} -> Pixmaps \cup {Screen}],
   full : SUBSET Windows, refs : [Pixmaps -> Int],
   halted : {"no", "assert", "null", "closed"}, vbl : [Events -> Nat],
   hwFlip : SUBSET Events, hwUnflip : Nat, idle : [Ids -> Nat],
   done : [Ids -> [n : Nat, mode : Modes, early : BOOLEAN]]]

-----------------------------------------------------------------------------
(* Timing: present.c present_adjust_timings, without wrap-around.           *)

AdjustTimings(async, now, target, divisor, remainder) ==
  IF target > now THEN target
  ELSE IF divisor = 0 THEN IF async THEN now ELSE now + 1
  ELSE LET t == now - (now % divisor) + remainder
       IN  IF (async /\ now > t) \/ (~async /\ now >= t) THEN t + divisor ELSE t

-----------------------------------------------------------------------------
(* Pixmaps of windows.  Every window is a child of the root.                *)

SetTreePixmap(wp, w, expected, new) ==
  IF expected # NoPix /\ wp[w] # expected THEN wp
  ELSE IF w = Root
  THEN [x \in DOMAIN wp |-> IF wp[x] = wp[Root] THEN new ELSE wp[x]]
  ELSE [wp EXCEPT ![w] = new]

PendingPixmap(s) == IF s.pending = Unset THEN NoPix ELSE s.vb[s.pending].pix

CheckFlip(s, w, p) ==
  /\ s.winPix[w] \in {Screen, s.flipPix, PendingPixmap(s)}
  /\ w \in s.full
  /\ p \in Flippable

Halt(s, why) == IF s.halted = "no" THEN [s EXCEPT !.halted = why] ELSE s

RestoreScreenPixmapMutantNoRoot(s) ==
  LET fw == IF s.pending # Unset THEN s.vb[s.pending].win ELSE s.flipWin
  IN  IF fw = NoWin THEN s
      ELSE [s EXCEPT !.winPix = SetTreePixmap(@, fw, NoPix, Screen)]

RestoreScreenPixmap(s) ==
  LET fw == IF s.pending # Unset THEN s.vb[s.pending].win ELSE s.flipWin
      fp == IF s.pending # Unset THEN s.vb[s.pending].pix ELSE s.flipPix
      t  == IF fp = NoPix THEN Halt(s, "assert") ELSE s
      wp == IF fw # NoWin THEN SetTreePixmap(t.winPix, fw, fp, Screen)
                          ELSE t.winPix
  IN  [t EXCEPT !.winPix = SetTreePixmap(wp, Root, NoPix, Screen)]

SetAbortFlip(s) ==
  IF s.vb[s.pending].abort THEN s
  ELSE [RestoreScreenPixmap(s) EXCEPT !.vb[s.pending].abort = TRUE]

UnflipMutantNoRestore(s) ==
  LET t == IF s.unflip \/ s.pending # Unset THEN Halt(s, "assert") ELSE s
  IN  [t EXCEPT !.unflip = TRUE, !.hwUnflip = @ + 1]

Unflip(s) ==
  LET t == IF s.unflip \/ s.pending # Unset THEN Halt(s, "assert") ELSE s
  IN  [RestoreScreenPixmap(t) EXCEPT !.unflip = TRUE, !.hwUnflip = @ + 1]

-----------------------------------------------------------------------------
(* present_vblank.c and present_execute.c                                   *)

(* present_pixmap_idle: the idle fence is triggered, the event sent.        *)
PixmapIdle(s, v) == [s EXCEPT !.idle[v] = @ + 1]

HoldPixmap(s, p) == IF p = NoPix THEN s ELSE [s EXCEPT !.refs[p] = @ + 1]

DropPixmap(s, p) == IF p = NoPix THEN s ELSE [s EXCEPT !.refs[p] = @ - 1]

VblankNotify(s, v, mode, now) ==
  IF s.vb[v].win = NoWin THEN s
  ELSE [s EXCEPT !.done[v] = [n |-> @.n + 1, mode |-> mode,
                             early |-> now < s.vb[v].target]]

Dequeue(s, v) ==
  [s EXCEPT !.execQ = @ \ {v}, !.flipQ = RemoveFirst(@, v),
            !.vb[v].queued = FALSE]

(* The freed record keeps only what names the request in the properties.    *)
VblankDestroy(s, v) ==
  LET b == s.vb[v]
  IN  [Dequeue(DropPixmap(s, b.pix), v) EXCEPT
         !.vb[v] = [Fresh EXCEPT !.win = b.win, !.kind = b.kind,
                                 !.target = b.target, !.update = b.update]]

QueueVblank(s, v) == [s EXCEPT !.vbl[<<v, s.vb[v].exec>>] = @ + 1]

(* queue_vblank is called again when exec_msc has moved to the next MSC.    *)
Requeues(s, v, now, refuse) == s.vb[v].exec = now + 1 /\ "vblank" \notin refuse

WaitsForFence(s, v) ==
  s.vb[v].wait # NoFence /\ fence[s.vb[v].wait] = "reset"

AwaitFenceMutantNoCallback(s, v) == s

AwaitFence(s, v) == [s EXCEPT !.vb[v].cb = TRUE]

ExecutePost(s, v, now) ==
  LET b    == s.vb[v]
      mode == IF b.kind = "pixmap" /\ b.pix = NoPix THEN "skip" ELSE "copy"
  IN  VblankDestroy(VblankNotify(s, v, mode, now), v)

ExecuteCopyMutantIdleFirst(s, v, now, refuse) ==
  LET t == PixmapIdle(s, v)
  IN  IF Requeues(s, v, now, refuse)
      THEN [QueueVblank(t, v) EXCEPT !.execQ = @ \cup {v}, !.vb[v].queued = TRUE]
      ELSE ExecutePost(t, v, now)

ExecuteCopy(s, v, now, refuse) ==
  IF Requeues(s, v, now, refuse)
  THEN [QueueVblank(s, v) EXCEPT !.execQ = @ \cup {v}, !.vb[v].queued = TRUE]
  ELSE ExecutePost(PixmapIdle(s, v), v, now)

-----------------------------------------------------------------------------
(* present_execute, present_scmd.c                                          *)

(* A copy to the flipped window takes it off the scanout first.             *)
StopFlipping(s, w) ==
  IF s.pending # Unset
  THEN IF w = s.vb[s.pending].win THEN SetAbortFlip(s) ELSE s
  ELSE IF ~s.unflip /\ w = s.flipWin THEN Unflip(s) ELSE s

MustDeferMutantUnflipOnly(s, v) == s.vb[v].flip /\ s.vb[v].pix # NoPix /\ s.unflip

MustDefer(s, v) ==
  s.vb[v].flip /\ s.vb[v].pix # NoPix /\ (s.pending # Unset \/ s.unflip)

DeferFlip(s, v) ==
  [s EXCEPT !.execQ = @ \ {v}, !.flipQ = Append(RemoveFirst(@, v), v),
            !.vb[v].ready = TRUE]

(* Flipping a request that has been dequeued.                               *)
StartFlip(s, v) ==
  LET b   == s.vb[v]
      due == IF b.sync /\ msc < MaxMsc THEN msc + 1 ELSE msc
      wp0 == IF s.flipWin \notin {NoWin, b.win}
             THEN SetTreePixmap(s.winPix, s.flipWin, s.flipPix, Screen)
             ELSE s.winPix
      wp1 == SetTreePixmap(wp0, b.win, NoPix, b.pix)
  IN  [s EXCEPT !.pending = v, !.flipQ = <<v>> \o @,
                !.hwFlip = @ \cup {<<v, due>>},
                !.winPix = SetTreePixmap(wp1, Root, NoPix, b.pix)]

FlipRefused(s, v) ==
  [s EXCEPT !.vb[v].flip = FALSE, !.vb[v].exec = s.vb[v].target]

Present(s, v, now, refuse) ==
  LET b == s.vb[v]
      t == IF b.flip THEN FlipRefused(s, v) ELSE s
  IN  IF b.flip /\ "flip" \notin refuse THEN StartFlip(s, v)
      ELSE ExecuteCopy(StopFlipping(t, b.win), v, now, refuse)

Execute(s, v, now, refuse) ==
  IF s.vb[v].win = NoWin THEN Halt(s, "null")
  ELSE IF Requeues(s, v, now, refuse) THEN QueueVblank(s, v)
  ELSE IF WaitsForFence(s, v) THEN AwaitFence(s, v)
  ELSE IF MustDefer(s, v) THEN DeferFlip(s, v)
  ELSE IF s.vb[v].pix # NoPix THEN Present(Dequeue(s, v), v, now, refuse)
  ELSE ExecutePost(Dequeue(s, v), v, now)

-----------------------------------------------------------------------------
(* Completion of flips, present_scmd.c                                      *)

FlipTryReadyMutantNever(s, refuse) == s

FlipTryReady(s, refuse) ==
  LET i == SelectInSeq(s.flipQ, LAMBDA v : s.vb[v].queued)
  IN  IF i = 0 THEN s ELSE Execute(s, s.flipQ[i], msc, refuse)

FlipIdle(s) ==
  IF s.flipPix = NoPix THEN s
  ELSE [DropPixmap(PixmapIdle(s, s.flipOf), s.flipPix) EXCEPT
          !.flipWin = NoWin, !.flipOf = Unset, !.flipPix = NoPix]

(* The pixmap and idle fence move from the request to the screen.           *)
TakeFlipMutantShares(s, v) ==
  [s EXCEPT !.flipQ = RemoveFirst(@, v), !.flipOf = v,
            !.flipWin = s.vb[v].win, !.flipPix = s.vb[v].pix, !.pending = Unset]

TakeFlip(s, v) ==
  [s EXCEPT !.flipQ = RemoveFirst(@, v), !.flipOf = v,
            !.flipWin = s.vb[v].win, !.flipPix = s.vb[v].pix,
            !.vb[v].pix = NoPix, !.pending = Unset]

FlipNotify(s, v, now, refuse) ==
  IF v # s.pending THEN Halt(s, "assert")
  ELSE LET t == TakeFlip(FlipIdle(s), v)
           u == IF s.vb[v].abort THEN Unflip(t) ELSE t
       IN  FlipTryReady(VblankDestroy(VblankNotify(u, v, "flip", now), v), refuse)

UnflipNotify(s, refuse) ==
  FlipTryReady(FlipIdle([s EXCEPT !.unflip = FALSE]), refuse)

EventNotify(s, v, now, refuse) ==
  IF v \in s.execQ THEN Execute(s, v, now, refuse)
  ELSE IF Contains(s.flipQ, v)
  THEN IF s.vb[v].queued THEN Execute(s, v, now, refuse)
                         ELSE FlipNotify(s, v, now, refuse)
  ELSE s

LoseFlipMutantKeepsExec(b) == [b EXCEPT !.flip = FALSE]

(* A request that can no longer flip is a copy, due one MSC later.          *)
LoseFlip(b) ==
  [b EXCEPT !.flip = FALSE, !.exec = IF b.sync THEN b.target ELSE @]

StopLostFlip(s, w) ==
  IF s.pending # Unset
  THEN IF s.vb[s.pending].win = w /\ ~CheckFlip(s, w, s.vb[s.pending].pix)
       THEN SetAbortFlip(s) ELSE s
  ELSE IF w = s.flipWin /\ ~CheckFlip(s, w, s.flipPix) THEN Unflip(s) ELSE s

RecheckQueued(s, w) ==
  [s EXCEPT !.vb = [v \in Ids |->
     IF @[v].queued /\ @[v].win = w /\ @[v].flip /\ ~CheckFlip(s, w, @[v].pix)
     THEN LoseFlip(@[v]) ELSE @[v]]]

CheckFlipWindowMutantAlways(s, w) == RecheckQueued(StopLostFlip(s, w), w)

CheckFlipWindow(s, w) ==
  IF s.unflip THEN s ELSE RecheckQueued(StopLostFlip(s, w), w)

ClearWindowFlip(s, w) ==
  LET t == IF s.pending # Unset /\ s.vb[s.pending].win = w
           THEN [SetAbortFlip(s) EXCEPT !.vb[s.pending].win = NoWin] ELSE s
  IN  IF t.flipWin = w THEN [RestoreScreenPixmap(t) EXCEPT !.flipWin = NoWin]
      ELSE t

-----------------------------------------------------------------------------
(* present_scmd_pixmap                                                      *)

(* Earlier queued requests the new one replaces in the same frame.          *)
SupersededMutantNotReady(s, w, target) ==
  {v \in Ids : /\ s.vb[v].queued /\ s.vb[v].win = w /\ ~s.vb[v].ready
               /\ s.vb[v].pix # NoPix /\ s.vb[v].target = target}

Superseded(s, w, target) ==
  {v \in Ids : /\ s.vb[v].queued /\ s.vb[v].win = w
               /\ s.vb[v].pix # NoPix /\ s.vb[v].target = target}

ScrapMutantKeepsPixmap(s, old) ==
  [s EXCEPT
     !.idle = [v \in Ids |-> IF v \in old THEN @[v] + 1 ELSE @[v]],
     !.refs = [p \in Pixmaps |->
                 @[p] - Cardinality({v \in old : s.vb[v].pix = p})],
     !.vb   = [v \in Ids |-> IF v \in old
                 THEN [@[v] EXCEPT !.flip = FALSE] ELSE @[v]]]

Scrap(s, old) ==
  [s EXCEPT
     !.idle = [v \in Ids |-> IF v \in old THEN @[v] + 1 ELSE @[v]],
     !.refs = [p \in Pixmaps |->
                 @[p] - Cardinality({v \in old : s.vb[v].pix = p})],
     !.vb   = [v \in Ids |-> IF v \in old
                 THEN [@[v] EXCEPT !.pix = NoPix, !.flip = FALSE] ELSE @[v]]]

(* A synchronous flip is handed to the driver one MSC ahead.                *)
ExecMsc(sync, target) == IF sync THEN target - 1 ELSE target

VblankCreate(s, v, w, p, opt, f, target) ==
  LET able == p # NoPix /\ ~opt.copy /\ CheckFlip(s, w, p)
      sync == able /\ target > msc
      flip == able /\ (sync \/ AsyncCap)
  IN  [HoldPixmap(s, p) EXCEPT
         !.vb[v] = [win |-> w, pix |-> p,
                    kind |-> IF p = NoPix THEN "msc" ELSE "pixmap",
                    target |-> target, exec |-> ExecMsc(sync, target),
                    update |-> opt.update, flip |-> flip, sync |-> sync,
                    ready |-> FALSE, queued |-> TRUE, abort |-> FALSE,
                    wait |-> f, cb |-> FALSE],
         !.execQ = @ \cup {v}]

Submitted(s, v, w, p, opt, f, target, refuse) ==
  LET old == IF p = NoPix \/ opt.update THEN {} ELSE Superseded(s, w, target)
      t   == VblankCreate(Scrap(s, old), v, w, p, opt, f, target)
  IN  IF t.vb[v].exec > msc /\ "vblank" \notin refuse THEN QueueVblank(t, v)
      ELSE Execute(t, v, msc, refuse)

-----------------------------------------------------------------------------
(* Actions.  Nothing else runs while a loop over triggers, scrapped          *)
(* requests (todo) or a destroyed window's requests (dying) is unfinished.   *)

Serving == halted = "no" /\ todo = {} /\ dying = NoWin

(* present_pixmap and present_notify_msc end in the same handler.  Scrapped  *)
(* requests that were waiting to flip are re-executed; they only complete as *)
(* skipped, so it makes no difference that the code does it first.           *)
Submit(w, p, opt, f, wmsc, m, refuse) ==
  LET target == AdjustTimings(opt.async, msc, wmsc, m[1], m[2])
  IN  /\ Serving /\ nextId \in Ids
      /\ w \in alive /\ target <= MaxMsc
      /\ Become(Submitted(Cur, nextId, w, p, opt, f, target, refuse))
      /\ todo' = IF p = NoPix \/ opt.update THEN {}
                 ELSE {v \in Superseded(Cur, w, target) : vb[v].ready}
      /\ nextId' = nextId + 1
      /\ UNCHANGED <<alive, held, fence, dying, msc, scanout>>

PresentPixmap(w, p, opt, f, wmsc, m, refuse) ==
  /\ p \in held
  /\ f # NoFence => fence[f] # "destroyed"
  /\ Submit(w, p, opt, f, wmsc, m, refuse)

NotifyMsc(w, wmsc, m, refuse) ==
  Submit(w, NoPix, [async |-> m[1] = 0, copy |-> FALSE, update |-> FALSE],
         NoFence, wmsc, m, refuse)

(* The driver's callbacks.  at is the MSC the event carries; an event of a   *)
(* request that is gone finds nothing.                                       *)
VblankEvent(e, at, refuse) ==
  /\ Serving /\ vbl[e] > 0 /\ at \in e[2]..msc
  /\ Become(EventNotify([Cur EXCEPT !.vbl[e] = @ - 1], e[1], at, refuse))
  /\ UNCHANGED <<alive, held, fence, todo, dying, nextId, msc, scanout>>

FlipEvent(e, at, refuse) ==
  /\ Serving /\ e \in hwFlip /\ at \in e[2]..msc
  /\ scanout' = e[1]
  /\ Become(EventNotify([Cur EXCEPT !.hwFlip = @ \ {e}], e[1], at, refuse))
  /\ UNCHANGED <<alive, held, fence, todo, dying, nextId, msc>>

UnflipEvent(refuse) ==
  /\ Serving /\ hwUnflip > 0
  /\ scanout' = Unset
  /\ LET s == [Cur EXCEPT !.hwUnflip = @ - 1]
     IN  Become(IF unflip THEN UnflipNotify(s, refuse) ELSE s)
  /\ UNCHANGED <<alive, held, fence, todo, dying, nextId, msc>>

(* Vblanks do not wait for the server.                                      *)
Tick ==
  /\ halted = "no" /\ msc < MaxMsc
  /\ msc' = msc + 1
  /\ UNCHANGED <<server, dix, vbl, hwFlip, hwUnflip, scanout, client>>

(* SyncTriggerFence: the fence is set, then every trigger with a callback    *)
(* re-executes its request, even one re-executed before.  MaxCalls bounds    *)
(* how often that makes a request ask for the same MSC.                      *)
TriggerFence(f) ==
  /\ Serving /\ fence[f] # "destroyed"
  /\ \A e \in Events : vbl[e] < MaxCalls
  /\ fence' = [fence EXCEPT ![f] = "triggered"]
  /\ todo' = {v \in Ids : vb[v].wait = f /\ vb[v].cb}
  /\ UNCHANGED <<server, winPix, full, alive, refs, held, dying, nextId, halted,
                 driver, client>>

(* The trigger list is newest first.                                        *)
ReExecute(refuse) ==
  /\ halted = "no" /\ todo # {}
  /\ LET v == Max(todo)
     IN  /\ Become(Execute(Cur, v, msc, refuse))
         /\ todo' = todo \ {v}
  /\ UNCHANGED <<alive, held, fence, dying, nextId, msc, scanout>>

ResetFence(f) ==
  /\ Serving /\ fence[f] = "triggered"
  /\ fence' = [fence EXCEPT ![f] = "reset"]
  /\ UNCHANGED <<server, winPix, full, alive, refs, held, todo, dying, nextId,
                 halted, driver, client>>

(* counter_destroyed only forgets the fence: no callback runs.              *)
DestroyFence(f) ==
  /\ Serving /\ fence[f] # "destroyed"
  /\ fence' = [fence EXCEPT ![f] = "destroyed"]
  /\ UNCHANGED <<server, winPix, full, alive, refs, held, todo, dying, nextId,
                 halted, driver, client>>

(* A window gains or loses a full screen clip list.                         *)
ClipNotify(w) ==
  /\ Serving /\ w \in alive /\ (w \in full \/ full = {})
  /\ Become(CheckFlipWindow([Cur EXCEPT !.full = IF w \in @ THEN {} ELSE {w}], w))
  /\ UNCHANGED <<alive, held, fence, todo, dying, nextId, msc, scanout>>

(* Unmapping a dying window empties its clip list.                          *)
DestroyWindow(w) ==
  /\ Serving /\ w \in alive
  /\ Become(CheckFlipWindow([Cur EXCEPT !.full = @ \ {w}], w))
  /\ alive' = alive \ {w} /\ dying' = w
  /\ UNCHANGED <<held, fence, todo, nextId, msc, scanout>>

QueuedOn(w) == {v \in Ids : vb[v].queued /\ vb[v].win = w}

(* abort_vblank, after which the driver may still deliver, then destroy.    *)
FreeWindowVblank(drop) ==
  /\ halted = "no" /\ dying # NoWin /\ QueuedOn(dying) # {}
  /\ LET v == Min(QueuedOn(dying))
         s == [Cur EXCEPT !.vbl = [e \in Events |->
                                     IF drop /\ e[1] = v THEN 0 ELSE @[e]]]
     IN  Become(VblankDestroy(s, v))
  /\ UNCHANGED <<alive, held, fence, todo, dying, nextId, msc, scanout>>

FinishDestroy ==
  /\ halted = "no" /\ dying # NoWin /\ QueuedOn(dying) = {}
  /\ Become(ClearWindowFlip(Cur, dying))
  /\ dying' = NoWin
  /\ UNCHANGED <<alive, held, fence, todo, nextId, msc, scanout>>

(* present_scmd_flip_destroy, once the clients' windows are gone.           *)
CloseScreen ==
  /\ Serving /\ alive = {}
  /\ LET t == FlipIdle(IF pending # Unset THEN SetAbortFlip(Cur) ELSE Cur)
     IN  Become(Halt(t, "closed"))
  /\ UNCHANGED <<alive, held, fence, todo, dying, nextId, msc, scanout>>

FreePixmap(p) ==
  /\ Serving /\ p \in held
  /\ held' = held \ {p}
  /\ refs' = [refs EXCEPT ![p] = @ - 1]
  /\ UNCHANGED <<server, winPix, full, alive, fence, todo, dying, nextId, halted,
                 driver, client>>

-----------------------------------------------------------------------------
Init ==
  /\ vb = [v \in Ids |-> Fresh] /\ execQ = {} /\ flipQ = <<>>
  /\ pending = Unset /\ unflip = FALSE
  /\ flipOf = Unset /\ flipWin = NoWin /\ flipPix = NoPix
  /\ winPix = [x \in Windows \cup {Root} |-> Screen]
  /\ full \in {{}} \cup {{w} : w \in Windows} /\ alive = Windows
  /\ refs = [p \in Pixmaps |-> 1] /\ held = Pixmaps
  /\ fence = [f \in Fences |-> "reset"] /\ todo = {} /\ dying = NoWin
  /\ nextId = 1 /\ halted = "no"
  /\ msc = 0 /\ vbl = [e \in Events |-> 0] /\ hwFlip = {} /\ hwUnflip = 0 /\ scanout = Unset
  /\ idle = [v \in Ids |-> 0]
  /\ done = [v \in Ids |-> [n |-> 0, mode |-> "none", early |-> FALSE]]

ClientRequest ==
  \E w \in Windows, t \in Targets, m \in Moduli, refuse \in SUBSET Refusable :
     \/ \E p \in Pixmaps, opt \in Options, f \in Fences \cup {NoFence} :
           PresentPixmap(w, p, opt, f, t, m, refuse)
     \/ NotifyMsc(w, t, m, refuse)

DriverEvent ==
  \E refuse \in SUBSET Refusable :
     \/ \E at \in 0..MaxMsc : \/ \E e \in Events : VblankEvent(e, at, refuse)
                              \/ \E e \in hwFlip : FlipEvent(e, at, refuse)
     \/ UnflipEvent(refuse)

Loop ==
  \/ \E refuse \in SUBSET Refusable : ReExecute(refuse)
  \/ \E drop \in BOOLEAN : FreeWindowVblank(drop)
  \/ FinishDestroy

Environment ==
  \/ \E f \in Fences : TriggerFence(f)
  \/ \E f \in Resettable : ResetFence(f)
  \/ \E f \in Mortal \cap Fences : DestroyFence(f)
  \/ \E w \in Movable : ClipNotify(w)
  \/ \E w \in Mortal \cap Windows : DestroyWindow(w)
  \/ \E p \in Pixmaps : FreePixmap(p)
  \/ CloseScreen

Next == ClientRequest \/ DriverEvent \/ Loop \/ Environment \/ Tick

Spec == Init /\ [][Next]_vars

(* The driver delivers every event it owes, vblanks go on, loops end, and    *)
(* clients eventually trigger the fences they wait on.  Fairness is stated   *)
(* on what a step consumes, the event or the element of the loop: every step *)
(* that handles it consumes it, and no other step does.  Driver events get   *)
(* strong fairness: WaitForSomething polls the driver's descriptor between   *)
(* any two requests, however many the clients send.                          *)
Delivered ==
  {[vbl EXCEPT ![e] = @ - 1] : e \in {x \in Events : vbl[x] > 0 /\ x[2] <= msc}}

Requeued(q) == {q} \cup {[q EXCEPT ![e] = @ + 1] : e \in Events}

Fairness ==
  /\ SF_vbl(Serving /\ \E q \in Delivered : vbl' \in Requeued(q))
  /\ SF_hwFlip(Serving /\ \E e \in hwFlip : e[2] <= msc /\ hwFlip' \in
                 {hwFlip \ {e}} \cup {(hwFlip \ {e}) \cup {x} : x \in Events})
  /\ SF_hwUnflip(Serving /\ hwUnflip > 0 /\ hwUnflip' = hwUnflip - 1)
  /\ WF_vars(Tick) /\ \A f \in Fences : WF_vars(TriggerFence(f))
  /\ WF_todo(halted = "no" /\ todo # {} /\ todo' = todo \ {Max(todo)})
  /\ WF_vars(\E drop \in BOOLEAN : FreeWindowVblank(drop)) /\ WF_vars(FinishDestroy)

FairSpec == Spec /\ Fairness

-----------------------------------------------------------------------------
(* Types, with every MSC asked of the driver within the CRTC's range.        *)
TypeOK ==
  /\ Cur \in State
  /\ alive \subseteq Windows /\ held \subseteq Pixmaps
  /\ fence \in [Fences -> {"reset", "triggered", "destroyed"}]
  /\ todo \subseteq Ids /\ dying \in Windows \cup {NoWin}
  /\ nextId \in 1..MaxReq + 1
  /\ msc \in 0..MaxMsc /\ scanout \in Ids \cup {Unset}

(* No assertion of present_unflip, present_flip_notify or                   *)
(* present_restore_screen_pixmap fails.                                     *)
NoAssertionFails == halted # "assert"

Live(v) == vb[v].queued \/ v = pending

Awaits(v) == \E m \in Mscs : vbl[<<v, m>>] > 0

(* Exactly one release: PixmapIdle never comes twice, and never before the   *)
(* server and the hardware are both done with the buffer.  Closing the       *)
(* screen releases what is scanned out: the hardware goes with the screen.   *)
IdleOnlyWhenReleased ==
  \A v \in Ids :
    /\ idle[v] <= 1
    /\ idle[v] = 1 =>
         /\ v # pending
         /\ halted # "closed" => v # scanout /\ v \notin {e[1] : e \in hwFlip}
         /\ vb[v].queued => vb[v].pix = NoPix

(* No request gets lost: unless its window was destroyed, a request that has *)
(* left the queues was completed once, and its buffer released once or is    *)
(* the one on the screen.                                                    *)
NothingLost ==
  \A v \in Ids : (v < nextId /\ ~Live(v)) =>
    /\ vb[v].win \in alive => done[v].n = 1
    /\ vb[v].kind = "pixmap" /\ vb[v].win \in alive \cup {NoWin}
         => idle[v] = 1 \/ v = flipOf

(* Buffers come back to their clients: once, not while they are in use, and  *)
(* with the completion of their request.                                     *)
BuffersComeBack == IdleOnlyWhenReleased /\ NothingLost

(* What a client sees of a frame carries an MSC no earlier than its target.  *)
NeverEarly ==
  \A v \in Ids : done[v].mode \in {"copy", "flip"} => ~done[v].early

(* Reference counting of pixmaps is exact.                                   *)
RefsExact ==
  \A p \in Pixmaps :
    refs[p] = (IF p \in held THEN 1 ELSE 0) + (IF p = flipPix THEN 1 ELSE 0)
              + Cardinality({v \in Ids : vb[v].pix = p})

(* No window is left drawing into a pixmap Present no longer holds.          *)
NoDanglingRenderTarget ==
  \A x \in DOMAIN winPix :
    winPix[x] # Screen => winPix[x] \in {flipPix, PendingPixmap(Cur)}

(* The server's idea of the scanout is the hardware's, until the screen is   *)
(* closed with whatever is on it.                                            *)
ScreenMatchesHardware ==
  /\ {e[1] : e \in hwFlip} = {pending} \ {Unset} /\ Cardinality(hwFlip) <= 1
  /\ hwUnflip = (IF unflip THEN 1 ELSE 0)
  /\ halted # "closed" => scanout = flipOf

(* Once nothing is in flight, drawing to the root goes where it is shown.    *)
RootDrawsToScanout ==
  pending = Unset /\ ~unflip =>
    winPix[Root] = (IF flipPix = NoPix THEN Screen ELSE flipPix)

(* A frame replaced by a later one for the same MSC is never shown after it. *)
SupersededNeverShown ==
  \A u, v \in Ids :
    /\ v < u /\ u < nextId /\ vb[v].queued
    /\ vb[u].kind = "pixmap" /\ ~vb[u].update
    /\ vb[v].win = vb[u].win /\ vb[v].target = vb[u].target
    => vb[v].pix = NoPix

(* What a window shows follows its clients' requests in time.                *)
ShownInTurn == NeverEarly /\ SupersededNeverShown

(* Every queued request has something that will execute it again: a vblank   *)
(* event, a fence, the end of the flip it waits for, or a running loop.      *)
NobodyStranded ==
  \A v \in Ids : vb[v].queued =>
    \/ Awaits(v)
    \/ vb[v].cb /\ fence[vb[v].wait] = "reset"
    \/ vb[v].ready /\ (pending # Unset \/ unflip)
    \/ v \in todo

(* Every accepted request completes.                                         *)
EveryRequestCompletes == \A v \in Ids : v < nextId ~> done[v].n = 1

-----------------------------------------------------------------------------
(* What a client can tell of each request: PresentRequests.                 *)

RequestPhase(v) ==
  IF v >= nextId THEN "none"
  ELSE IF done[v].n > 0 THEN done[v].mode
  ELSE IF Live(v) /\ vb[v].win # NoWin THEN "queued" ELSE "dropped"

RequestBuffer(v) ==
  IF vb[v].kind # "pixmap" THEN "none"
  ELSE IF idle[v] > 0 THEN "idle"
  ELSE IF v = flipOf THEN "screen"
  ELSE IF Live(v) THEN "server" ELSE "lost"

ClientView == INSTANCE PresentRequests
  WITH Requests <- Ids,
       req <- [v \in Ids |-> [phase |-> RequestPhase(v), buffer |-> RequestBuffer(v)]]

(* Every step of the server is a step its clients were promised.            *)
ImplementsRequests == ClientView!Spec

-----------------------------------------------------------------------------
(* What comments and the protocol say that the code does not do.             *)

(* "window is being reconfigured.  Check to see if it is involved in         *)
(* flipping and clean up as necessary": no flip is left in progress for a    *)
(* window that no longer covers the screen.                                  *)
FlippingWindowCoversScreen ==
  pending # Unset /\ ~vb[pending].abort => vb[pending].win \in full

(* flip_ready: "wants to flip, but waiting for previous flip or unflip", and *)
(* "when the wait fence or previous flip is completed, it's time to re-try   *)
(* the request": no request waits for a flip for ever.                       *)
ReadyFlipIsRetried ==
  \A v \in Ids : (vb[v].queued /\ vb[v].ready) ~> ~vb[v].queued

(* "If wait-fence is destroyed before it becomes triggered, then the         *)
(* presentation operation will no longer wait for it".                       *)
DestroyedFenceReleases ==
  \A f \in Fences, v \in Ids :
    (fence[f] = "destroyed" /\ vb[v].queued /\ vb[v].wait = f) ~> ~vb[v].queued

(* "Drop reference to any pending flip or unflip pixmaps" at CloseScreen.    *)
CloseDropsReferences ==
  halted = "closed" => \A p \in Pixmaps : refs[p] = (IF p \in held THEN 1 ELSE 0)

=============================================================================
