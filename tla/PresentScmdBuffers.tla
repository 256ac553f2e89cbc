------------------------- MODULE PresentScmdBuffers --------------------------
(****************************************************************************)
(* The server's idea of the screen is the hardware's, and clients see no     *)
(* frame early, for every number of windows, pixmaps, fences and requests,   *)
(* as long as the driver refuses no queue_vblank.                            *)
(*                                                                           *)
(* ScreenMatchesHardware and NeverEarly lean on each other: an event for the *)
(* pending flip is taken for the flip's completion, so nothing is right      *)
(* unless no vblank is still owed to a request by the time it flips.  Called *)
(* counts what is owed to a request that wants to flip, Timed relates what   *)
(* is owed and where a request waits to its target.                          *)
(****************************************************************************)
EXTENDS PresentScmdProofs

(* A request that has been executed and waits for something.                *)
Waited(b) == b.cb \/ b.ready

(* The queues, the screen and the flips the hardware has still to do.       *)
OnScreen(s) ==
  /\ s.pending = Unset => s.hwFlip = {}
  /\ s.pending # Unset =>
       /\ Contains(s.flipQ, s.pending)
       /\ \E m \in Mscs : s.hwFlip = {<<s.pending, m>>} /\ s.vb[s.pending].target <= m
  /\ s.hwUnflip = (IF s.unflip THEN 1 ELSE 0)
  /\ s.flipOf = Unset <=> s.flipPix = NoPix
  /\ \A v \in Ids : /\ v \in s.execQ => s.vb[v].queued
                    /\ Contains(s.flipQ, v) /\ s.vb[v].queued => s.vb[v].ready

(* Nothing is owed to v, or one event, for the MSC it is to be executed at,  *)
(* and v has not been executed since.                                        *)
Called(s, v, n, x) ==
  /\ v >= n => ~s.vb[v].queued /\ \A m \in Mscs : s.vbl[<<v, m>>] = 0
  /\ s.vb[v].flip =>
       \/ s.vb[v].exec <= msc /\ \A m \in Mscs : s.vbl[<<v, m>>] = 0
       \/ /\ ~Waited(s.vb[v]) /\ v # s.pending /\ v # x
          /\ \A m \in Mscs : s.vbl[<<v, m>>] = (IF m = s.vb[v].exec THEN 1 ELSE 0)

(* A request is executed at its target, or one MSC before it if it is to     *)
(* flip there, or if a later one has replaced it.                            *)
ExecutesAt(b) ==
  \/ b.exec = b.target
  \/ /\ b.exec = b.target - 1 /\ b.sync /\ b.kind = "pixmap"
     /\ b.pix = NoPix \/ b.flip

(* A request that is queued, in hand, or being flipped to.                   *)
Unfinished(s, v, x) == s.vb[v].queued \/ v = s.pending \/ v = x

Timed(s, v, x) ==
  /\ Unfinished(s, v, x) =>
       /\ ExecutesAt(s.vb[v]) /\ (Waited(s.vb[v]) => s.vb[v].target <= msc + 1)
       /\ \A m \in Mscs : s.vbl[<<v, m>>] # 0 => s.vb[v].target <= m + 1
  /\ Waited(s.vb[v]) => Unfinished(s, v, x)
  /\ s.done[v].mode \in {"copy", "flip"} => ~s.done[v].early

(* As for Sound, x is a request in hand, and ids from n on are new.         *)
Paced(s, n, x) ==
  OnScreen(s) /\ \A v \in Ids : Called(s, v, n, x) /\ Timed(s, v, x)

(* Requests a running loop has still to execute.                            *)
Looped(s, d) ==
  \A v \in d : Waited(s.vb[v]) /\ (s.vb[v].queued \/ v = s.pending)

-----------------------------------------------------------------------------
(* What each handler changes, field by field.                               *)

SameQueues(s, t) == t.vb = s.vb /\ t.execQ = s.execQ /\ t.flipQ = s.flipQ

SameFlip(s, t) ==
  /\ t.pending = s.pending /\ t.flipOf = s.flipOf
  /\ t.flipWin = s.flipWin /\ t.flipPix = s.flipPix

SameUnflip(s, t) == t.unflip = s.unflip /\ t.hwUnflip = s.hwUnflip

SameOwed(s, t) == t.vbl = s.vbl /\ t.hwFlip = s.hwFlip

SameClient(s, t) == t.idle = s.idle /\ t.done = s.done

(* All but the windows' pixmaps.                                            *)
SameState(s, t) ==
  /\ SameQueues(s, t) /\ SameFlip(s, t) /\ SameUnflip(s, t) /\ SameOwed(s, t)
  /\ SameClient(s, t)

(* What names a request, and how it is to be shown.                         *)
SameName(b, c) ==
  c.win = b.win /\ c.kind = b.kind /\ c.target = b.target /\ c.update = b.update

SameShow(b, c) ==
  c.pix = b.pix /\ c.flip = b.flip /\ c.exec = b.exec /\ c.sync = b.sync

(* Writing one flag of a request. *)
LEMMA FlagFrame ==
  ASSUME NEW b \in Vblank, NEW x \in BOOLEAN
  PROVE  /\ LET c == [b EXCEPT !.queued = x]
            IN  /\ SameName(b, c) /\ SameShow(b, c) /\ c.queued = x
                /\ c.ready = b.ready /\ c.cb = b.cb /\ c.abort = b.abort
         /\ LET c == [b EXCEPT !.ready = x]
            IN  /\ SameName(b, c) /\ SameShow(b, c) /\ c.ready = x
                /\ c.queued = b.queued /\ c.cb = b.cb /\ c.abort = b.abort
         /\ LET c == [b EXCEPT !.cb = x]
            IN  /\ SameName(b, c) /\ SameShow(b, c) /\ c.cb = x
                /\ c.queued = b.queued /\ c.ready = b.ready /\ c.abort = b.abort
         /\ LET c == [b EXCEPT !.abort = x]
            IN  /\ SameName(b, c) /\ SameShow(b, c) /\ c.abort = x
                /\ c.queued = b.queued /\ c.ready = b.ready /\ c.cb = b.cb
BY DEF Vblank, SameName, SameShow

(* Writing one vblank, and nothing else. *)
LEMMA OneVbFrame ==
  ASSUME NEW s \in State, NEW v \in Ids, NEW b
  PROVE  LET t == [s EXCEPT !.vb[v] = b]
         IN  /\ t.execQ = s.execQ /\ t.flipQ = s.flipQ
             /\ SameFlip(s, t) /\ SameUnflip(s, t) /\ SameOwed(s, t) /\ SameClient(s, t)
             /\ t.winPix = s.winPix
             /\ t.vb[v] = b /\ \A u \in Ids \ {v} : t.vb[u] = s.vb[u]
BY FieldTypes DEF State, SameFlip, SameUnflip, SameOwed, SameClient

LEMMA HaltFrame ==
  ASSUME NEW s \in State, NEW why
  PROVE  SameState(s, Halt(s, why)) /\ Halt(s, why).winPix = s.winPix
BY DEF Halt, State, SameState, SameQueues, SameFlip, SameUnflip, SameOwed, SameClient

(* present_restore_screen_pixmap. *)
LEMMA RestoreFrame ==
  ASSUME NEW s \in State
  PROVE  SameState(s, RestoreScreenPixmap(s))
<1> DEFINE fw == IF s.pending # Unset THEN s.vb[s.pending].win ELSE s.flipWin
           fp == IF s.pending # Unset THEN s.vb[s.pending].pix ELSE s.flipPix
           t  == IF fp = NoPix THEN Halt(s, "assert") ELSE s
           w1 == IF fw # NoWin THEN SetTreePixmap(t.winPix, fw, fp, Screen)
                               ELSE t.winPix
           w2 == SetTreePixmap(w1, Root, NoPix, Screen)
           u  == [t EXCEPT !.winPix = w2]
<1>1. t \in State /\ SameState(s, t)
  BY HaltType, HaltFrame
     DEF SameState, SameQueues, SameFlip, SameUnflip, SameOwed, SameClient
<1>2. RestoreScreenPixmap(s) = u
  BY DEF RestoreScreenPixmap
<1> HIDE DEF t, w2
<1>3. SameState(t, u)
  BY <1>1 DEF State, SameState, SameQueues, SameFlip, SameUnflip, SameOwed, SameClient
<1> HIDE DEF u
<1> QED BY <1>1, <1>2, <1>3
        DEF SameState, SameQueues, SameFlip, SameUnflip, SameOwed, SameClient

(* present_set_abort_flip marks the pending flip. *)
LEMMA SetAbortFrame ==
  ASSUME NEW s \in State, s.pending # Unset
  PROVE  LET t == SetAbortFlip(s)
             p == s.pending
         IN  /\ t.execQ = s.execQ /\ t.flipQ = s.flipQ
             /\ SameFlip(s, t) /\ SameUnflip(s, t) /\ SameOwed(s, t) /\ SameClient(s, t)
             /\ t.vb[p].abort
             /\ SameName(s.vb[p], t.vb[p]) /\ SameShow(s.vb[p], t.vb[p])
             /\ t.vb[p].queued = s.vb[p].queued /\ t.vb[p].ready = s.vb[p].ready
             /\ t.vb[p].cb = s.vb[p].cb
             /\ \A u \in Ids \ {p} : t.vb[u] = s.vb[u]
<1> DEFINE p == s.pending
           t == SetAbortFlip(s)
<1>0. p \in Ids
  BY PendingType
<1>1. CASE s.vb[p].abort
  <2>1. t = s
    BY <1>1 DEF SetAbortFlip
  <2> HIDE DEF t
  <2> QED BY <1>1, <2>1
          DEF SameFlip, SameUnflip, SameOwed, SameClient, SameName, SameShow, t
<1>2. CASE ~s.vb[p].abort
  <2> DEFINE r == RestoreScreenPixmap(s)
             b == [r.vb[p] EXCEPT !.abort = TRUE]
             d == [r EXCEPT !.vb[p] = b]
  <2>1. r \in State /\ SameState(s, r)
    BY RestoreScreenPixmapType, RestoreFrame
  <2>2. t = d
    BY <1>2 DEF SetAbortFlip
  <2> HIDE DEF r, p, t
  <2>3. /\ SameName(r.vb[p], b) /\ SameShow(r.vb[p], b) /\ b.abort
        /\ b.queued = r.vb[p].queued /\ b.ready = r.vb[p].ready /\ b.cb = r.vb[p].cb
    BY <1>0, <2>1, OneVbType, FlagFrame
  <2> HIDE DEF b
  <2>4. /\ d.execQ = r.execQ /\ d.flipQ = r.flipQ
        /\ SameFlip(r, d) /\ SameUnflip(r, d) /\ SameOwed(r, d) /\ SameClient(r, d)
        /\ d.vb[p] = b /\ \A u \in Ids \ {p} : d.vb[u] = r.vb[u]
    BY <1>0, <2>1, OneVbFrame
  <2> HIDE DEF d
  <2> QED BY <2>1, <2>2, <2>3, <2>4 DEF SameState, SameQueues, SameFlip, SameUnflip,
          SameOwed, SameClient, SameName, SameShow, p, t
<1> QED BY <1>1, <1>2

(* present_unflip. *)
LEMMA UnflipFrame ==
  ASSUME NEW s \in State
  PROVE  LET t == Unflip(s)
         IN  /\ SameQueues(s, t) /\ SameFlip(s, t) /\ SameOwed(s, t) /\ SameClient(s, t)
             /\ t.unflip /\ t.hwUnflip = s.hwUnflip + 1
<1> DEFINE a == IF s.unflip \/ s.pending # Unset THEN Halt(s, "assert") ELSE s
           r == RestoreScreenPixmap(a)
           h == r.hwUnflip + 1
           u == [r EXCEPT !.unflip = TRUE, !.hwUnflip = h]
<1>1. a \in State /\ SameState(s, a)
  BY HaltType, HaltFrame
     DEF SameState, SameQueues, SameFlip, SameUnflip, SameOwed, SameClient
<1>2. Unflip(s) = u
  BY DEF Unflip
<1> HIDE DEF a
<1>3. r \in State /\ SameState(a, r)
  BY <1>1, RestoreScreenPixmapType, RestoreFrame
<1> HIDE DEF r, h
<1>4. /\ SameQueues(r, u) /\ SameFlip(r, u) /\ SameOwed(r, u) /\ SameClient(r, u)
      /\ u.unflip /\ u.hwUnflip = h
  BY <1>3 DEF State, SameQueues, SameFlip, SameOwed, SameClient
<1> HIDE DEF u
<1> QED BY <1>1, <1>2, <1>3, <1>4
        DEF SameState, SameQueues, SameFlip, SameUnflip, SameOwed, SameClient, h

(* A reference to a pixmap. *)
LEMMA PixmapFrame ==
  ASSUME NEW s \in State, NEW p
  PROVE  /\ SameState(s, HoldPixmap(s, p)) /\ SameState(s, DropPixmap(s, p))
         /\ HoldPixmap(s, p).winPix = s.winPix /\ DropPixmap(s, p).winPix = s.winPix
<1>1. CASE p = NoPix
  BY <1>1 DEF HoldPixmap, DropPixmap,
     SameState, SameQueues, SameFlip, SameUnflip, SameOwed, SameClient
<1>2. CASE p # NoPix
  <2> DEFINE f == [s.refs EXCEPT ![p] = @ + 1]
             g == [s.refs EXCEPT ![p] = @ - 1]
             h == [s EXCEPT !.refs = f]
             d == [s EXCEPT !.refs = g]
  <2>1. HoldPixmap(s, p) = h /\ DropPixmap(s, p) = d
    BY <1>2 DEF HoldPixmap, DropPixmap
  <2> HIDE DEF f, g
  <2>2. SameState(s, h) /\ SameState(s, d) /\ h.winPix = s.winPix /\ d.winPix = s.winPix
    BY DEF State, SameState, SameQueues, SameFlip, SameUnflip, SameOwed, SameClient
  <2> HIDE DEF h, d
  <2> QED BY <2>1, <2>2
<1> QED BY <1>1, <1>2

(* present_pixmap_idle. *)
LEMMA PixmapIdleFrame ==
  ASSUME NEW s \in State, NEW v \in Ids
  PROVE  LET t == PixmapIdle(s, v)
         IN  /\ SameQueues(s, t) /\ SameFlip(s, t) /\ SameUnflip(s, t) /\ SameOwed(s, t)
             /\ t.winPix = s.winPix /\ t.done = s.done
             /\ t.idle[v] = s.idle[v] + 1 /\ \A u \in Ids \ {v} : t.idle[u] = s.idle[u]
<1> DEFINE f == [s.idle EXCEPT ![v] = @ + 1]
           t == [s EXCEPT !.idle = f]
<1>1. PixmapIdle(s, v) = t
  BY DEF PixmapIdle
<1>2. f[v] = s.idle[v] + 1 /\ \A u \in Ids \ {v} : f[u] = s.idle[u]
  BY FieldTypes
<1> HIDE DEF f
<1>3. /\ SameQueues(s, t) /\ SameFlip(s, t) /\ SameUnflip(s, t) /\ SameOwed(s, t)
      /\ t.winPix = s.winPix /\ t.done = s.done /\ t.idle = f
  BY DEF State, SameQueues, SameFlip, SameUnflip, SameOwed
<1> HIDE DEF t
<1> QED BY <1>1, <1>2, <1>3

(* present_vblank_notify. *)
LEMMA VblankNotifyFrame ==
  ASSUME NEW s \in State, NEW v \in Ids, NEW mode, NEW now
  PROVE  LET t == VblankNotify(s, v, mode, now)
         IN  /\ SameQueues(s, t) /\ SameFlip(s, t) /\ SameUnflip(s, t) /\ SameOwed(s, t)
             /\ t.winPix = s.winPix /\ t.idle = s.idle
             /\ \A u \in Ids \ {v} : t.done[u] = s.done[u]
             /\ s.vb[v].win = NoWin => t.done[v] = s.done[v]
             /\ s.vb[v].win # NoWin =>
                  /\ t.done[v].n = s.done[v].n + 1 /\ t.done[v].mode = mode
                  /\ t.done[v].early = (now < s.vb[v].target)
<1> DEFINE d == [n |-> s.done[v].n + 1, mode |-> mode, early |-> now < s.vb[v].target]
           f == [s.done EXCEPT ![v] = d]
           t == [s EXCEPT !.done = f]
<1>1. VblankNotify(s, v, mode, now) = IF s.vb[v].win = NoWin THEN s ELSE t
  BY DEF VblankNotify
<1>2. d.n = s.done[v].n + 1 /\ d.mode = mode /\ d.early = (now < s.vb[v].target)
  OBVIOUS
<1> HIDE DEF d
<1>3. f[v] = d /\ \A u \in Ids \ {v} : f[u] = s.done[u]
  BY DEF State
<1> HIDE DEF f
<1>4. /\ SameQueues(s, t) /\ SameFlip(s, t) /\ SameUnflip(s, t) /\ SameOwed(s, t)
      /\ t.winPix = s.winPix /\ t.idle = s.idle /\ t.done = f
  BY DEF State, SameQueues, SameFlip, SameUnflip, SameOwed
<1>5. SameQueues(s, s) /\ SameFlip(s, s) /\ SameUnflip(s, s) /\ SameOwed(s, s)
  BY DEF SameQueues, SameFlip, SameUnflip, SameOwed
<1> HIDE DEF t
<1> QED BY <1>1, <1>2, <1>3, <1>4, <1>5

(* Leaving the queues. *)
LEMMA DequeueFrame ==
  ASSUME NEW s \in State, NEW v \in Ids
  PROVE  LET t == Dequeue(s, v)
         IN  /\ t.execQ = s.execQ \ {v} /\ t.flipQ = RemoveFirst(s.flipQ, v)
             /\ SameFlip(s, t) /\ SameUnflip(s, t) /\ SameOwed(s, t) /\ SameClient(s, t)
             /\ t.winPix = s.winPix
             /\ SameName(s.vb[v], t.vb[v]) /\ SameShow(s.vb[v], t.vb[v])
             /\ ~t.vb[v].queued /\ t.vb[v].ready = s.vb[v].ready
             /\ t.vb[v].cb = s.vb[v].cb /\ t.vb[v].abort = s.vb[v].abort
             /\ \A u \in Ids \ {v} : t.vb[u] = s.vb[u]
<1> DEFINE b == [s.vb[v] EXCEPT !.queued = FALSE]
           f == [s.vb EXCEPT ![v] = b]
           q == RemoveFirst(s.flipQ, v)
           e == s.execQ \ {v}
           t == [s EXCEPT !.execQ = e, !.flipQ = q, !.vb = f]
<1>1. Dequeue(s, v) = t
  BY DEF Dequeue
<1>2. f[v] = b /\ \A u \in Ids \ {v} : f[u] = s.vb[u]
  BY FieldTypes
<1>3. /\ SameName(s.vb[v], b) /\ SameShow(s.vb[v], b) /\ b.queued = FALSE
      /\ b.ready = s.vb[v].ready /\ b.cb = s.vb[v].cb /\ b.abort = s.vb[v].abort
  BY OneVbType, FlagFrame
<1> HIDE DEF b, f, q, e
<1>4. /\ t.execQ = e /\ t.flipQ = q /\ t.vb = f
      /\ SameFlip(s, t) /\ SameUnflip(s, t) /\ SameOwed(s, t) /\ SameClient(s, t)
      /\ t.winPix = s.winPix
  BY DEF State, SameFlip, SameUnflip, SameOwed, SameClient
<1> HIDE DEF t
<1> QED BY <1>1, <1>2, <1>3, <1>4 DEF e, q

(* What present_vblank_destroy leaves. *)
LEMMA FreedFrame ==
  ASSUME NEW b \in Vblank
  PROVE  LET c == [Fresh EXCEPT !.win = b.win, !.kind = b.kind,
                                !.target = b.target, !.update = b.update]
         IN  /\ SameName(b, c) /\ c.pix = NoPix /\ ~c.flip /\ ~c.queued
             /\ ~c.ready /\ ~c.cb
BY DEF Fresh, SameName

LEMMA VblankDestroyFrame ==
  ASSUME NEW s \in State, NEW v \in Ids
  PROVE  LET t == VblankDestroy(s, v)
         IN  /\ t.execQ = s.execQ \ {v} /\ t.flipQ = RemoveFirst(s.flipQ, v)
             /\ SameFlip(s, t) /\ SameUnflip(s, t) /\ SameOwed(s, t) /\ SameClient(s, t)
             /\ t.winPix = s.winPix
             /\ SameName(s.vb[v], t.vb[v]) /\ t.vb[v].pix = NoPix
             /\ ~t.vb[v].flip /\ ~t.vb[v].queued /\ ~t.vb[v].ready /\ ~t.vb[v].cb
             /\ \A u \in Ids \ {v} : t.vb[u] = s.vb[u]
<1> DEFINE t == DropPixmap(s, s.vb[v].pix)
           u == Dequeue(t, v)
           b == s.vb[v]
           c == [Fresh EXCEPT !.win = b.win, !.kind = b.kind,
                              !.target = b.target, !.update = b.update]
           d == [u EXCEPT !.vb[v] = c]
<1>1. t \in State /\ SameState(s, t) /\ t.winPix = s.winPix
  BY DropPixmapType, PixmapFrame, OneVbType DEF Vblank
<1>2. VblankDestroy(s, v) = d
  BY DEF VblankDestroy
<1>3. SameName(b, c) /\ c.pix = NoPix /\ ~c.flip /\ ~c.queued /\ ~c.ready /\ ~c.cb
  BY OneVbType, FreedFrame
<1> HIDE DEF t, b, c
<1>4. /\ u \in State
      /\ u.execQ = t.execQ \ {v} /\ u.flipQ = RemoveFirst(t.flipQ, v)
      /\ SameFlip(t, u) /\ SameUnflip(t, u) /\ SameOwed(t, u) /\ SameClient(t, u)
      /\ u.winPix = t.winPix /\ \A w \in Ids \ {v} : u.vb[w] = t.vb[w]
  BY <1>1, DequeueType, DequeueFrame
<1> HIDE DEF u
<1>5. /\ d.execQ = u.execQ /\ d.flipQ = u.flipQ
      /\ SameFlip(u, d) /\ SameUnflip(u, d) /\ SameOwed(u, d) /\ SameClient(u, d)
      /\ d.winPix = u.winPix
      /\ d.vb[v] = c /\ \A w \in Ids \ {v} : d.vb[w] = u.vb[w]
  BY <1>4, OneVbFrame
<1> HIDE DEF d
<1> QED BY <1>1, <1>2, <1>3, <1>4, <1>5
        DEF SameState, SameQueues, SameFlip, SameUnflip, SameOwed, SameClient, b

(* One event more is owed to a request. *)
LEMMA QueueVblankFrame ==
  ASSUME NEW s \in State, NEW v \in Ids
  PROVE  LET t == QueueVblank(s, v)
             e == <<v, s.vb[v].exec>>
         IN  /\ SameQueues(s, t) /\ SameFlip(s, t) /\ SameUnflip(s, t) /\ SameClient(s, t)
             /\ t.hwFlip = s.hwFlip /\ t.winPix = s.winPix
             /\ e \in Events /\ t.vbl[e] = s.vbl[e] + 1
             /\ \A x \in Events \ {e} : t.vbl[x] = s.vbl[x]
<1> DEFINE e == <<v, s.vb[v].exec>>
           f == [s.vbl EXCEPT ![e] = @ + 1]
           t == [s EXCEPT !.vbl = f]
<1>1. e \in Events
  BY OneVbType DEF Vblank, Events
<1>2. QueueVblank(s, v) = t
  BY DEF QueueVblank
<1> HIDE DEF e
<1>3. f[e] = s.vbl[e] + 1 /\ \A x \in Events \ {e} : f[x] = s.vbl[x]
  BY <1>1, FieldTypes
<1> HIDE DEF f
<1>4. /\ SameQueues(s, t) /\ SameFlip(s, t) /\ SameUnflip(s, t) /\ SameClient(s, t)
      /\ t.hwFlip = s.hwFlip /\ t.winPix = s.winPix /\ t.vbl = f
  BY DEF State, SameQueues, SameFlip, SameUnflip, SameClient
<1> HIDE DEF t
<1> QED BY <1>1, <1>2, <1>3, <1>4 DEF e

(* present_execute_copy of a request due at the next MSC. *)
LEMMA RequeueFrame ==
  ASSUME NEW s \in State, NEW v \in Ids, NEW now, NEW refuse,
         Requeues(s, v, now, refuse)
  PROVE  LET t == ExecuteCopy(s, v, now, refuse)
             e == <<v, s.vb[v].exec>>
         IN  /\ SameFlip(s, t) /\ SameUnflip(s, t) /\ SameClient(s, t)
             /\ t.hwFlip = s.hwFlip /\ t.winPix = s.winPix
             /\ t.execQ = s.execQ \cup {v} /\ t.flipQ = s.flipQ
             /\ e \in Events /\ t.vbl[e] = s.vbl[e] + 1
             /\ \A x \in Events \ {e} : t.vbl[x] = s.vbl[x]
             /\ SameName(s.vb[v], t.vb[v]) /\ SameShow(s.vb[v], t.vb[v])
             /\ t.vb[v].queued /\ t.vb[v].ready = s.vb[v].ready
             /\ t.vb[v].cb = s.vb[v].cb /\ t.vb[v].abort = s.vb[v].abort
             /\ \A u \in Ids \ {v} : t.vb[u] = s.vb[u]
<1> DEFINE t == QueueVblank(s, v)
           b == [t.vb[v] EXCEPT !.queued = TRUE]
           x == t.execQ \cup {v}
           u == [t EXCEPT !.execQ = x]
           d == [u EXCEPT !.vb[v] = b]
           e == <<v, s.vb[v].exec>>
<1>1. t \in State
  BY QueueVblankType
<1>2. ExecuteCopy(s, v, now, refuse) = d
  <2>1. [t EXCEPT !.execQ = @ \cup {v}, !.vb[v].queued = TRUE] = d
    BY <1>1 DEF State
  <2> QED BY <2>1 DEF ExecuteCopy
<1>3. /\ SameQueues(s, t) /\ SameFlip(s, t) /\ SameUnflip(s, t) /\ SameClient(s, t)
      /\ t.hwFlip = s.hwFlip /\ t.winPix = s.winPix
      /\ e \in Events /\ t.vbl[e] = s.vbl[e] + 1
      /\ \A y \in Events \ {e} : t.vbl[y] = s.vbl[y]
  BY QueueVblankFrame
<1> HIDE DEF t, e
<1>4. /\ SameName(t.vb[v], b) /\ SameShow(t.vb[v], b) /\ b.queued = TRUE
      /\ b.ready = t.vb[v].ready /\ b.cb = t.vb[v].cb /\ b.abort = t.vb[v].abort
  BY <1>1, OneVbType, FlagFrame
<1>5. x \in SUBSET Ids
  BY <1>1, FieldTypes
<1> HIDE DEF b, x
<1>6. u \in State
  BY <1>1, <1>5 DEF State
<1>10. /\ u.vb = t.vb /\ u.execQ = x /\ u.flipQ = t.flipQ
      /\ SameFlip(t, u) /\ SameUnflip(t, u) /\ SameOwed(t, u) /\ SameClient(t, u)
      /\ u.winPix = t.winPix
  BY <1>1 DEF State, SameFlip, SameUnflip, SameOwed, SameClient
<1> HIDE DEF u
<1>7. /\ d.execQ = u.execQ /\ d.flipQ = u.flipQ
      /\ SameFlip(u, d) /\ SameUnflip(u, d) /\ SameOwed(u, d) /\ SameClient(u, d)
      /\ d.winPix = u.winPix
      /\ d.vb[v] = b /\ \A w \in Ids \ {v} : d.vb[w] = u.vb[w]
  BY <1>6, OneVbFrame
<1> HIDE DEF d
<1>8. /\ SameFlip(s, d) /\ SameUnflip(s, d) /\ SameClient(s, d)
      /\ d.hwFlip = s.hwFlip /\ d.winPix = s.winPix
      /\ d.execQ = s.execQ \cup {v} /\ d.flipQ = s.flipQ /\ d.vbl = t.vbl
  BY <1>3, <1>7, <1>10 DEF SameQueues, SameFlip, SameUnflip, SameOwed, SameClient, x
<1>9. /\ SameName(s.vb[v], d.vb[v]) /\ SameShow(s.vb[v], d.vb[v])
      /\ d.vb[v].queued /\ d.vb[v].ready = s.vb[v].ready /\ d.vb[v].cb = s.vb[v].cb
      /\ d.vb[v].abort = s.vb[v].abort
      /\ \A w \in Ids \ {v} : d.vb[w] = s.vb[w]
  BY <1>3, <1>4, <1>7, <1>10 DEF SameQueues
<1> QED BY <1>2, <1>3, <1>8, <1>9 DEF e

(* A callback on the wait fence. *)
LEMMA AwaitFenceFrame ==
  ASSUME NEW s \in State, NEW v \in Ids
  PROVE  LET t == AwaitFence(s, v)
         IN  /\ t.execQ = s.execQ /\ t.flipQ = s.flipQ
             /\ SameFlip(s, t) /\ SameUnflip(s, t) /\ SameOwed(s, t) /\ SameClient(s, t)
             /\ t.winPix = s.winPix
             /\ SameName(s.vb[v], t.vb[v]) /\ SameShow(s.vb[v], t.vb[v])
             /\ t.vb[v].queued = s.vb[v].queued /\ t.vb[v].ready = s.vb[v].ready
             /\ t.vb[v].cb /\ t.vb[v].abort = s.vb[v].abort
             /\ \A u \in Ids \ {v} : t.vb[u] = s.vb[u]
<1> DEFINE b == [s.vb[v] EXCEPT !.cb = TRUE]
           d == [s EXCEPT !.vb[v] = b]
<1>1. AwaitFence(s, v) = d
  BY DEF AwaitFence
<1>2. /\ SameName(s.vb[v], b) /\ SameShow(s.vb[v], b) /\ b.cb = TRUE
      /\ b.queued = s.vb[v].queued /\ b.ready = s.vb[v].ready /\ b.abort = s.vb[v].abort
  BY OneVbType, FlagFrame
<1> HIDE DEF b
<1>3. /\ d.execQ = s.execQ /\ d.flipQ = s.flipQ
      /\ SameFlip(s, d) /\ SameUnflip(s, d) /\ SameOwed(s, d) /\ SameClient(s, d)
      /\ d.winPix = s.winPix
      /\ d.vb[v] = b /\ \A w \in Ids \ {v} : d.vb[w] = s.vb[w]
  BY OneVbFrame
<1> HIDE DEF d
<1> QED BY <1>1, <1>2, <1>3

(* A flip that must wait goes to the end of the flip queue. *)
LEMMA DeferFlipFrame ==
  ASSUME NEW s \in State, NEW v \in Ids
  PROVE  LET t == DeferFlip(s, v)
         IN  /\ t.execQ = s.execQ \ {v}
             /\ t.flipQ = Append(RemoveFirst(s.flipQ, v), v)
             /\ SameFlip(s, t) /\ SameUnflip(s, t) /\ SameOwed(s, t) /\ SameClient(s, t)
             /\ t.winPix = s.winPix
             /\ SameName(s.vb[v], t.vb[v]) /\ SameShow(s.vb[v], t.vb[v])
             /\ t.vb[v].queued = s.vb[v].queued /\ t.vb[v].ready
             /\ t.vb[v].cb = s.vb[v].cb /\ t.vb[v].abort = s.vb[v].abort
             /\ \A u \in Ids \ {v} : t.vb[u] = s.vb[u]
<1> DEFINE b == [s.vb[v] EXCEPT !.ready = TRUE]
           f == [s.vb EXCEPT ![v] = b]
           q == Append(RemoveFirst(s.flipQ, v), v)
           e == s.execQ \ {v}
           t == [s EXCEPT !.execQ = e, !.flipQ = q, !.vb = f]
<1>1. DeferFlip(s, v) = t
  BY DEF DeferFlip
<1>2. f[v] = b /\ \A u \in Ids \ {v} : f[u] = s.vb[u]
  BY FieldTypes
<1>3. /\ SameName(s.vb[v], b) /\ SameShow(s.vb[v], b) /\ b.ready = TRUE
      /\ b.queued = s.vb[v].queued /\ b.cb = s.vb[v].cb /\ b.abort = s.vb[v].abort
  BY OneVbType, FlagFrame
<1> HIDE DEF b, f, q, e
<1>4. /\ t.execQ = e /\ t.flipQ = q /\ t.vb = f
      /\ SameFlip(s, t) /\ SameUnflip(s, t) /\ SameOwed(s, t) /\ SameClient(s, t)
      /\ t.winPix = s.winPix
  BY DEF State, SameFlip, SameUnflip, SameOwed, SameClient
<1> HIDE DEF t
<1> QED BY <1>1, <1>2, <1>3, <1>4 DEF e, q

(* The flip of a dequeued request. *)
DueMsc(b) == IF b.sync /\ msc < MaxMsc THEN msc + 1 ELSE msc

LEMMA StartFlipFrame ==
  ASSUME NEW s \in State, NEW v \in Ids
  PROVE  LET t == StartFlip(s, v)
         IN  /\ t.vb = s.vb /\ t.execQ = s.execQ /\ t.flipQ = <<v>> \o s.flipQ
             /\ t.pending = v /\ t.flipOf = s.flipOf
             /\ t.flipWin = s.flipWin /\ t.flipPix = s.flipPix
             /\ SameUnflip(s, t) /\ SameClient(s, t) /\ t.vbl = s.vbl
             /\ t.hwFlip = s.hwFlip \cup {<<v, DueMsc(s.vb[v])>>}
<1> DEFINE b   == s.vb[v]
           due == DueMsc(b)
           wp0 == IF s.flipWin \notin {NoWin, b.win}
                  THEN SetTreePixmap(s.winPix, s.flipWin, s.flipPix, Screen)
                  ELSE s.winPix
           wp1 == SetTreePixmap(wp0, b.win, NoPix, b.pix)
           wp2 == SetTreePixmap(wp1, Root, NoPix, b.pix)
           q   == <<v>> \o s.flipQ
           h   == s.hwFlip \cup {<<v, due>>}
           t   == [s EXCEPT !.pending = v, !.flipQ = q, !.hwFlip = h, !.winPix = wp2]
<1>1. StartFlip(s, v) = t
  BY DEF StartFlip, DueMsc
<1> HIDE DEF q, h, wp2
<1>2. /\ t.vb = s.vb /\ t.execQ = s.execQ /\ t.flipQ = q /\ t.pending = v
      /\ t.flipOf = s.flipOf /\ t.flipWin = s.flipWin /\ t.flipPix = s.flipPix
      /\ SameUnflip(s, t) /\ SameClient(s, t) /\ t.vbl = s.vbl /\ t.hwFlip = h
  BY DEF State, SameUnflip, SameClient
<1> HIDE DEF t
<1> QED BY <1>1, <1>2 DEF q, h

(* A refused flip is a copy due at its target. *)
LEMMA FlipRefusedFrame ==
  ASSUME NEW s \in State, NEW v \in Ids
  PROVE  LET t == FlipRefused(s, v)
         IN  /\ t.execQ = s.execQ /\ t.flipQ = s.flipQ
             /\ SameFlip(s, t) /\ SameUnflip(s, t) /\ SameOwed(s, t) /\ SameClient(s, t)
             /\ t.winPix = s.winPix
             /\ SameName(s.vb[v], t.vb[v]) /\ t.vb[v].pix = s.vb[v].pix
             /\ ~t.vb[v].flip /\ t.vb[v].exec = s.vb[v].target
             /\ t.vb[v].queued = s.vb[v].queued /\ t.vb[v].ready = s.vb[v].ready
             /\ t.vb[v].cb = s.vb[v].cb /\ t.vb[v].abort = s.vb[v].abort
             /\ \A u \in Ids \ {v} : t.vb[u] = s.vb[u]
<1> DEFINE b == [s.vb[v] EXCEPT !.flip = FALSE, !.exec = s.vb[v].target]
           d == [s EXCEPT !.vb[v] = b]
<1>1. FlipRefused(s, v) = d
  BY DEF FlipRefused, State
<1>2. /\ SameName(s.vb[v], b) /\ b.pix = s.vb[v].pix
      /\ ~b.flip /\ b.exec = s.vb[v].target
      /\ b.queued = s.vb[v].queued /\ b.ready = s.vb[v].ready
      /\ b.cb = s.vb[v].cb /\ b.abort = s.vb[v].abort
  BY OneVbType DEF Vblank, SameName
<1> HIDE DEF b
<1>3. /\ d.execQ = s.execQ /\ d.flipQ = s.flipQ
      /\ SameFlip(s, d) /\ SameUnflip(s, d) /\ SameOwed(s, d) /\ SameClient(s, d)
      /\ d.winPix = s.winPix
      /\ d.vb[v] = b /\ \A w \in Ids \ {v} : d.vb[w] = s.vb[w]
  BY OneVbFrame
<1> HIDE DEF d
<1> QED BY <1>1, <1>2, <1>3

(* present_flip_idle gives back what is on the screen. *)
LEMMA FlipIdleFrame ==
  ASSUME NEW s \in State, s.flipOf = Unset <=> s.flipPix = NoPix
  PROVE  LET t == FlipIdle(s)
         IN  /\ SameQueues(s, t) /\ SameUnflip(s, t) /\ SameOwed(s, t)
             /\ t.pending = s.pending /\ t.flipOf = Unset /\ t.flipPix = NoPix
             /\ t.flipWin \in {s.flipWin, NoWin}
             /\ t.winPix = s.winPix /\ t.done = s.done
             /\ s.flipOf \in Ids => t.idle[s.flipOf] = s.idle[s.flipOf] + 1
             /\ \A u \in Ids \ {s.flipOf} : t.idle[u] = s.idle[u]
<1>1. CASE s.flipPix = NoPix
  <2>1. FlipIdle(s) = s
    BY <1>1 DEF FlipIdle
  <2>2. s.flipOf = Unset /\ s.flipOf \notin Ids
    BY <1>1 DEF Ids, Unset
  <2> QED BY <1>1, <2>1, <2>2 DEF SameQueues, SameUnflip, SameOwed
<1>2. CASE s.flipPix # NoPix
  <2> DEFINE i == PixmapIdle(s, s.flipOf)
             p == s.flipPix
             t == DropPixmap(i, p)
             u == [t EXCEPT !.flipWin = NoWin, !.flipOf = Unset, !.flipPix = NoPix]
  <2>0. s.flipOf \in Ids
    BY <1>2 DEF State
  <2>1. i \in State
    BY PixmapIdleType
  <2>2. FlipIdle(s) = u
    BY <1>2 DEF FlipIdle
  <2>3. /\ SameQueues(s, i) /\ SameFlip(s, i) /\ SameUnflip(s, i) /\ SameOwed(s, i)
        /\ i.winPix = s.winPix /\ i.done = s.done
        /\ i.idle[s.flipOf] = s.idle[s.flipOf] + 1
        /\ \A w \in Ids \ {s.flipOf} : i.idle[w] = s.idle[w]
    BY <2>0, PixmapIdleFrame
  <2>4. p \in Pixmaps \cup {NoPix}
    BY FieldTypes
  <2> HIDE DEF i, p
  <2>5. t \in State /\ SameState(i, t) /\ t.winPix = i.winPix
    BY <2>1, <2>4, DropPixmapType, PixmapFrame
  <2> HIDE DEF t
  <2>6. /\ SameQueues(t, u) /\ SameUnflip(t, u) /\ SameOwed(t, u) /\ SameClient(t, u)
        /\ u.pending = t.pending /\ u.flipOf = Unset /\ u.flipPix = NoPix
        /\ u.winPix = t.winPix /\ u.flipWin = NoWin
    BY <2>5 DEF State, SameQueues, SameUnflip, SameOwed, SameClient
  <2> HIDE DEF u
  <2> QED BY <2>0, <2>2, <2>3, <2>5, <2>6
          DEF SameState, SameQueues, SameFlip, SameUnflip, SameOwed, SameClient
<1> QED BY <1>1, <1>2

(* The completed flip moves from the request to the screen. *)
LEMMA TakeFlipFrame ==
  ASSUME NEW s \in State, NEW v \in Ids
  PROVE  LET t == TakeFlip(s, v)
         IN  /\ t.execQ = s.execQ /\ t.flipQ = RemoveFirst(s.flipQ, v)
             /\ t.pending = Unset /\ t.flipOf = v
             /\ t.flipWin = s.vb[v].win /\ t.flipPix = s.vb[v].pix
             /\ SameUnflip(s, t) /\ SameOwed(s, t) /\ SameClient(s, t)
             /\ t.winPix = s.winPix
             /\ SameName(s.vb[v], t.vb[v]) /\ t.vb[v].pix = NoPix
             /\ t.vb[v].exec = s.vb[v].exec /\ t.vb[v].sync = s.vb[v].sync
             /\ t.vb[v].queued = s.vb[v].queued /\ t.vb[v].ready = s.vb[v].ready
             /\ t.vb[v].cb = s.vb[v].cb
             /\ \A u \in Ids \ {v} : t.vb[u] = s.vb[u]
<1> DEFINE b == [s.vb[v] EXCEPT !.pix = NoPix]
           f == [s.vb EXCEPT ![v] = b]
           q == RemoveFirst(s.flipQ, v)
           w == s.vb[v].win
           p == s.vb[v].pix
           t == [s EXCEPT !.flipQ = q, !.flipOf = v, !.flipWin = w, !.flipPix = p,
                          !.vb = f, !.pending = Unset]
<1>1. TakeFlip(s, v) = t
  BY DEF TakeFlip
<1>2. f[v] = b /\ \A u \in Ids \ {v} : f[u] = s.vb[u]
  BY FieldTypes
<1>3. /\ SameName(s.vb[v], b) /\ b.pix = NoPix
      /\ b.exec = s.vb[v].exec /\ b.sync = s.vb[v].sync /\ b.queued = s.vb[v].queued
      /\ b.ready = s.vb[v].ready /\ b.cb = s.vb[v].cb
  BY OneVbType DEF Vblank, SameName
<1> HIDE DEF b, f, q, w, p
<1>4. /\ t.execQ = s.execQ /\ t.flipQ = q /\ t.vb = f /\ t.pending = Unset
      /\ t.flipOf = v /\ t.flipWin = w /\ t.flipPix = p
  BY DEF State
<1>5. SameUnflip(s, t) /\ SameOwed(s, t) /\ SameClient(s, t) /\ t.winPix = s.winPix
  BY DEF State, SameUnflip, SameOwed, SameClient
<1> HIDE DEF t
<1> QED BY <1>1, <1>2, <1>3, <1>4, <1>5 DEF q, w, p

-----------------------------------------------------------------------------
(* Lists keep their other entries.                                          *)

(* Taking v out. *)
LEMMA RemoveFirstKeeps ==
  ASSUME NEW q \in Seq(Ids), NEW v, NEW u, u # v, Contains(q, u)
  PROVE  Contains(RemoveFirst(q, v), u)
<1> DEFINE I == {i \in 1..Len(q) : q[i] = v}
           k == Min(I)
           r == RemoveAt(q, k)
<1>0. Len(q) \in Nat /\ DOMAIN q = 1..Len(q)
  BY LenProperties
<1>1. CASE ~ \E i \in 1..Len(q) : q[i] = v
  BY <1>1 DEF RemoveFirst
<1>2. CASE \E i \in 1..Len(q) : q[i] = v
  <2>1. RemoveFirst(q, v) = r
    BY <1>2 DEF RemoveFirst, SelectInSeq
  <2>2. k \in 1..Len(q) /\ q[k] = v
    <3>1. I \in SUBSET Nat /\ I # {}
      BY <1>2, LenProperties
    <3> QED BY <3>1, MinIsLeast
  <2> HIDE DEF k
  <2>3. /\ r \in Seq(Ids) /\ Len(r) = Len(q) - 1
        /\ \A i \in 1..Len(q) - 1 : r[i] = IF i < k THEN q[i] ELSE q[i + 1]
    BY <2>2, RemoveAtEntries
  <2> HIDE DEF r
  <2>4. PICK m \in 1..Len(q) : q[m] = u
    BY DEF Contains
  <2>5. m # k
    BY <2>2, <2>4
  <2>6. CASE m < k
    <3>1. m \in 1..Len(q) - 1 /\ r[m] = u
      BY <1>0, <2>2, <2>3, <2>4, <2>6
    <3> QED BY <2>1, <2>3, <3>1 DEF Contains
  <2>7. CASE m > k
    <3>1. m - 1 \in 1..Len(q) - 1 /\ ~(m - 1 < k) /\ (m - 1) + 1 = m
      BY <1>0, <2>2, <2>4, <2>7
    <3>2. r[m - 1] = u
      BY <2>3, <2>4, <3>1
    <3> QED BY <2>1, <2>3, <3>1, <3>2 DEF Contains
  <2> QED BY <1>0, <2>2, <2>4, <2>5, <2>6, <2>7
<1> QED BY <1>1, <1>2

(* Adding v in front or at the end. *)
LEMMA AddKeeps ==
  ASSUME NEW q \in Seq(Ids), NEW v \in Ids
  PROVE  /\ Contains(<<v>> \o q, v) /\ Contains(Append(q, v), v)
         /\ \A u : Contains(q, u) => Contains(<<v>> \o q, u) /\ Contains(Append(q, v), u)
<1> DEFINE a == Append(q, v)
           p == <<v>> \o q
<1>1. Len(q) \in Nat
  BY LenProperties
<1>2. /\ Len(a) = Len(q) + 1 /\ \A i \in 1..Len(q) : a[i] = q[i]
      /\ a[Len(q) + 1] = v
  BY AppendProperties
<1>3. /\ Len(p) = Len(q) + 1 /\ p[1] = v
      /\ \A i \in 2..Len(q) + 1 : p[i] = q[i - 1]
  <2>1. <<v>> \in Seq(Ids) /\ Len(<<v>>) = 1 /\ <<v>>[1] = v
    OBVIOUS
  <2>2. /\ Len(p) = 1 + Len(q)
        /\ \A i \in 1..1 + Len(q) : p[i] = IF i <= 1 THEN <<v>>[i] ELSE q[i - 1]
    BY <2>1, ConcatProperties
  <2> HIDE DEF p
  <2> QED BY <1>1, <2>1, <2>2
<1> HIDE DEF a, p
<1>4. Contains(p, v) /\ Contains(a, v)
  BY <1>1, <1>2, <1>3 DEF Contains
<1>5. ASSUME NEW u, Contains(q, u) PROVE Contains(p, u) /\ Contains(a, u)
  <2>1. PICK i \in 1..Len(q) : q[i] = u
    BY <1>5 DEF Contains
  <2>2. i \in 1..Len(a) /\ a[i] = u
    BY <1>1, <1>2, <2>1
  <2>3. i + 1 \in 2..Len(q) + 1 /\ (i + 1) - 1 = i
    BY <1>1
  <2>4. i + 1 \in 1..Len(p) /\ p[i + 1] = u
    BY <1>1, <1>3, <2>1, <2>3
  <2> QED BY <2>2, <2>4 DEF Contains
<1> QED BY <1>4, <1>5 DEF a, p

-----------------------------------------------------------------------------
(* Handlers keep Paced, from the leaves of the call graph up.               *)

(* Paced says nothing of the rest of the state. *)
LEMMA PacedSame ==
  ASSUME NEW s, NEW t, NEW n, NEW x, Paced(s, n, x),
         SameQueues(s, t), SameFlip(s, t), SameUnflip(s, t), SameOwed(s, t),
         t.done = s.done
  PROVE  Paced(t, n, x)
BY DEF Paced, OnScreen, Called, Timed, Unfinished, SameQueues, SameFlip, SameUnflip, SameOwed

(* What executing v does not touch: what is on the screen, a flip that is    *)
(* pending, and where other requests wait.                                   *)
Spares(s, t, v) ==
  /\ t.flipOf = s.flipOf
  /\ s.pending # Unset => t.pending = s.pending
  /\ \A u \in Ids \ {v} : /\ t.vb[u].queued = s.vb[u].queued
                          /\ t.vb[u].cb = s.vb[u].cb /\ t.vb[u].ready = s.vb[u].ready

LEMMA SparesTwice ==
  ASSUME NEW s, NEW t, NEW u, NEW v, Spares(s, t, v), Spares(t, u, v)
  PROVE  Spares(s, u, v)
BY DEF Spares

LEMMA SparesSame ==
  ASSUME NEW s, NEW t, NEW v, SameFlip(s, t), \A u \in Ids \ {v} : t.vb[u] = s.vb[u]
  PROVE  Spares(s, t, v)
BY DEF Spares, SameFlip

(* A completion is reported in time. *)
LEMMA VblankNotifyPaced ==
  ASSUME NEW s \in State, NEW v \in Ids, NEW mode, NEW now \in Mscs, NEW n, NEW x,
         Paced(s, n, x),
         mode \in {"copy", "flip"} /\ s.vb[v].win # NoWin => s.vb[v].target <= now
  PROVE  Paced(VblankNotify(s, v, mode, now), n, x)
<1> DEFINE t == VblankNotify(s, v, mode, now)
<1>1. /\ SameQueues(s, t) /\ SameFlip(s, t) /\ SameUnflip(s, t) /\ SameOwed(s, t)
      /\ \A u \in Ids \ {v} : t.done[u] = s.done[u]
      /\ s.vb[v].win = NoWin => t.done[v] = s.done[v]
      /\ s.vb[v].win # NoWin => /\ t.done[v].mode = mode
                                /\ t.done[v].early = (now < s.vb[v].target)
  BY VblankNotifyFrame
<1> HIDE DEF t
<1>2. s.vb[v].target \in Mscs
  BY OneVbType DEF Vblank
<1>3. t.done[v].mode \in {"copy", "flip"} => ~t.done[v].early
  <2>0. Timed(s, v, x)
    BY DEF Paced
  <2>1. s.done[v].mode \in {"copy", "flip"} => ~s.done[v].early
    BY <2>0 DEF Timed, Unfinished
  <2>2. mode \in {"copy", "flip"} /\ s.vb[v].win # NoWin => ~(now < s.vb[v].target)
    BY <1>2, BoundsAssumption DEF Mscs
  <2> QED BY <1>1, <2>1, <2>2, ZenonT(30)
<1>4. \A u \in Ids : Called(t, u, n, x) /\ Timed(t, u, x)
  <2>1. TAKE u \in Ids
  <2>2. Called(s, u, n, x) /\ Timed(s, u, x)
    BY DEF Paced
  <2>3. t.done[u].mode \in {"copy", "flip"} => ~t.done[u].early
    BY <1>1, <1>3, <2>2 DEF Timed, Unfinished
  <2> QED BY <1>1, <2>2, <2>3 DEF Called, Timed, Unfinished, SameQueues, SameFlip, SameOwed
<1>5. OnScreen(t)
  BY <1>1 DEF Paced, OnScreen, SameQueues, SameFlip, SameUnflip, SameOwed
<1> QED BY <1>4, <1>5 DEF Paced, t

(* Every other request is as it was, and the lists lost v. *)
LEMMA OffListsScreen ==
  ASSUME NEW s \in State, NEW t, NEW v \in Ids, v # s.pending,
         OnScreen(s), IsInjective(s.flipQ),
         t.execQ = s.execQ \ {v}, t.flipQ = RemoveFirst(s.flipQ, v),
         SameFlip(s, t), SameUnflip(s, t), SameOwed(s, t),
         \A u \in Ids \ {v} : t.vb[u] = s.vb[u]
  PROVE  OnScreen(t)
<1>1. s.flipQ \in Seq(Ids) /\ s.pending \in Ids \cup {Unset}
  BY FieldTypes
<1>2. \A u : Contains(t.flipQ, u) => Contains(s.flipQ, u) /\ u # v
  BY <1>1, RemoveFirstEntries
<1>3. \A u : u # v /\ Contains(s.flipQ, u) => Contains(t.flipQ, u)
  BY <1>1, RemoveFirstKeeps
<1>4. \A u \in Ids : /\ u \in t.execQ => t.vb[u].queued
                     /\ Contains(t.flipQ, u) /\ t.vb[u].queued => t.vb[u].ready
  BY <1>2 DEF OnScreen
<1>5. s.pending # Unset => t.vb[s.pending] = s.vb[s.pending]
  BY <1>1
<1> QED BY <1>3, <1>4, <1>5 DEF OnScreen, SameFlip, SameUnflip, SameOwed

(* present_vblank_destroy. *)
LEMMA VblankDestroyPaced ==
  ASSUME NEW s \in State, NEW v \in Ids, NEW n, NEW x \in {v, Unset}, Paced(s, n, x),
         IsInjective(s.flipQ), v # s.pending
  PROVE  LET t == VblankDestroy(s, v) IN Paced(t, n, Unset) /\ Spares(s, t, v)
<1> DEFINE t == VblankDestroy(s, v)
<1>1. /\ t.execQ = s.execQ \ {v} /\ t.flipQ = RemoveFirst(s.flipQ, v)
      /\ SameFlip(s, t) /\ SameUnflip(s, t) /\ SameOwed(s, t) /\ SameClient(s, t)
      /\ ~t.vb[v].flip /\ ~t.vb[v].queued /\ ~t.vb[v].ready /\ ~t.vb[v].cb
      /\ \A u \in Ids \ {v} : t.vb[u] = s.vb[u]
  BY VblankDestroyFrame
<1> HIDE DEF t
<1>2. OnScreen(t)
  BY <1>1, OffListsScreen DEF Paced
<1>3. \A u \in Ids : Called(t, u, n, Unset) /\ Timed(t, u, Unset)
  <2>1. TAKE u \in Ids
  <2>2. Called(s, u, n, x) /\ Timed(s, u, x) /\ u # Unset
    BY DEF Paced, Ids, Unset
  <2>3. CASE u = v
    BY <1>1, <2>2, <2>3 DEF Called, Timed, Unfinished, Waited, SameFlip,
                                     SameOwed, SameClient
  <2>4. CASE u # v
    BY <1>1, <2>2, <2>4 DEF Called, Timed, Unfinished, SameFlip, SameOwed, SameClient
  <2> QED BY <2>3, <2>4
<1>4. Spares(s, t, v)
  BY <1>1, SparesSame
<1> QED BY <1>2, <1>3, <1>4 DEF Paced, t

(* A request is due: it is executed at its MSC, and if it wants to flip      *)
(* nothing more is owed to it.                                               *)
Due(s, v, now) ==
  /\ s.vb[v].target <= now + 1
  /\ s.vb[v].flip => s.vb[v].exec <= now /\ \A m \in Mscs : s.vbl[<<v, m>>] = 0

(* A due request leaves its queue. *)
LEMMA DequeuePaced ==
  ASSUME NEW s \in State, NEW v \in Ids, NEW now \in Mscs, NEW n, Paced(s, n, Unset),
         IsInjective(s.flipQ), v # s.pending, s.vb[v].queued, Due(s, v, now), now <= msc,
         msc \in Mscs
  PROVE  LET t == Dequeue(s, v)
         IN  Paced(t, n, v) /\ Due(t, v, now) /\ Spares(s, t, v)
<1> DEFINE t == Dequeue(s, v)
<1>1. /\ t.execQ = s.execQ \ {v} /\ t.flipQ = RemoveFirst(s.flipQ, v)
      /\ SameFlip(s, t) /\ SameUnflip(s, t) /\ SameOwed(s, t) /\ SameClient(s, t)
      /\ SameName(s.vb[v], t.vb[v]) /\ SameShow(s.vb[v], t.vb[v])
      /\ ~t.vb[v].queued /\ t.vb[v].ready = s.vb[v].ready
      /\ t.vb[v].cb = s.vb[v].cb
      /\ \A u \in Ids \ {v} : t.vb[u] = s.vb[u]
  BY DequeueFrame
<1> HIDE DEF t
<1>2. OnScreen(t)
  BY <1>1, OffListsScreen DEF Paced
<1>3. \A u \in Ids : Called(t, u, n, v) /\ Timed(t, u, v)
  <2>1. TAKE u \in Ids
  <2>2. Called(s, u, n, Unset) /\ Timed(s, u, Unset) /\ u # Unset
    BY DEF Paced, Ids, Unset
  <2>3. CASE u = v
    <3>1. s.vb[v].exec <= now => s.vb[v].exec <= msc
      <4>1. s.vb[v].exec \in Int /\ now \in Int /\ msc \in Int
        BY OneVbType, BoundsAssumption DEF Vblank, Mscs
      <4> QED BY <4>1
    <3>2. Called(t, v, n, v)
      BY <1>1, <2>2, <2>3, <3>1 DEF Called, Due, SameShow, SameOwed
    <3>3. Timed(t, v, v)
      BY <1>1, <2>2, <2>3
         DEF Timed, Unfinished, ExecutesAt, Waited, SameName, SameShow, SameOwed, SameClient
    <3> QED BY <2>3, <3>2, <3>3
  <2>4. CASE u # v
    BY <1>1, <2>2, <2>4 DEF Called, Timed, Unfinished, SameFlip, SameOwed, SameClient
  <2> QED BY <2>3, <2>4
<1>4. Due(t, v, now)
  BY <1>1 DEF Due, SameName, SameShow, SameFlip, SameOwed
<1>5. Spares(s, t, v)
  BY <1>1, SparesSame
<1> QED BY <1>2, <1>3, <1>4, <1>5 DEF Paced, t

(* present_execute_post. *)
LEMMA ExecutePostPaced ==
  ASSUME NEW s \in State, NEW v \in Ids, NEW now \in Mscs, NEW n, Paced(s, n, v),
         IsInjective(s.flipQ), v # s.pending,
         \/ s.vb[v].kind = "pixmap" /\ s.vb[v].pix = NoPix
         \/ s.vb[v].target <= now
  PROVE  LET t == ExecutePost(s, v, now) IN Paced(t, n, Unset) /\ Spares(s, t, v)
<1> DEFINE mode == IF s.vb[v].kind = "pixmap" /\ s.vb[v].pix = NoPix
                   THEN "skip" ELSE "copy"
           t == VblankNotify(s, v, mode, now)
           u == VblankDestroy(t, v)
<1>1. mode \in Modes /\ (mode \in {"copy", "flip"} => s.vb[v].target <= now)
  BY DEF Modes
<1>2. ExecutePost(s, v, now) = u
  BY DEF ExecutePost
<1> HIDE DEF mode
<1>3. t \in State /\ SameQueues(s, t) /\ SameFlip(s, t) /\ Paced(t, n, v)
  BY <1>1, VblankNotifyType, VblankNotifyFrame, VblankNotifyPaced
<1> HIDE DEF t
<1>4. IsInjective(t.flipQ) /\ v # t.pending /\ Spares(s, t, v)
  BY <1>3 DEF SameQueues, SameFlip, Spares
<1>5. Paced(u, n, Unset) /\ Spares(t, u, v)
  BY <1>3, <1>4, VblankDestroyPaced
<1> HIDE DEF u
<1> QED BY <1>2, <1>4, <1>5, SparesTwice

(* present_execute_copy: due now, or at the next MSC. *)
LEMMA ExecuteCopyPaced ==
  ASSUME NEW s \in State, NEW v \in Ids, NEW now \in Mscs, NEW refuse, NEW n \in Nat,
         Paced(s, n, v), IsInjective(s.flipQ), v # s.pending, v < n,
         ~Contains(s.flipQ, v), ~s.vb[v].flip, s.vb[v].pix # NoPix,
         s.vb[v].target <= now + 1, "vblank" \notin refuse
  PROVE  LET t == ExecuteCopy(s, v, now, refuse)
         IN  Paced(t, n, Unset) /\ Spares(s, t, v)
<1>0. Called(s, v, n, v) /\ Timed(s, v, v) /\ v # Unset
  BY DEF Paced, Ids, Unset
<1>1. s.vb[v].exec = s.vb[v].target
  BY <1>0 DEF Timed, Unfinished, ExecutesAt
<1>2. CASE Requeues(s, v, now, refuse)
  <2> DEFINE t == ExecuteCopy(s, v, now, refuse)
             e == <<v, s.vb[v].exec>>
  <2>1. /\ SameFlip(s, t) /\ SameUnflip(s, t) /\ SameClient(s, t)
        /\ t.hwFlip = s.hwFlip
        /\ t.execQ = s.execQ \cup {v} /\ t.flipQ = s.flipQ
        /\ e \in Events /\ t.vbl[e] = s.vbl[e] + 1
        /\ \A y \in Events \ {e} : t.vbl[y] = s.vbl[y]
        /\ SameName(s.vb[v], t.vb[v]) /\ SameShow(s.vb[v], t.vb[v])
        /\ t.vb[v].queued /\ t.vb[v].ready = s.vb[v].ready
        /\ t.vb[v].cb = s.vb[v].cb
        /\ \A u \in Ids \ {v} : t.vb[u] = s.vb[u]
    BY <1>2, RequeueFrame
  <2> HIDE DEF t
  <2>2. OnScreen(t)
    <3>1. s.pending # Unset => t.vb[s.pending] = s.vb[s.pending]
      BY <2>1, FieldTypes
    <3> QED BY <2>1, <3>1 DEF Paced, OnScreen, SameFlip, SameUnflip
  <2>3. Called(t, v, n, Unset) /\ Timed(t, v, Unset)
    <3>1. \A m \in Mscs : m # s.vb[v].exec => t.vbl[<<v, m>>] = s.vbl[<<v, m>>]
      BY <2>1 DEF Events
    <3>2. \A m \in Mscs : t.vbl[<<v, m>>] # 0 => s.vb[v].target <= m + 1
      <4>1. TAKE m \in Mscs
      <4>2. CASE m = s.vb[v].exec
        BY <1>1, <4>2, BoundsAssumption DEF Mscs
      <4>3. CASE m # s.vb[v].exec
        BY <1>0, <3>1, <4>3 DEF Timed, Unfinished
      <4> QED BY <4>2, <4>3
    <3>3. ~t.vb[v].flip
      BY <2>1 DEF SameShow
    <3>4. ~(v >= n)
      BY DEF Ids
    <3>5. Called(t, v, n, Unset)
      BY <3>3, <3>4 DEF Called
    <3> QED BY <1>0, <2>1, <3>2, <3>5
            DEF Timed, Unfinished, ExecutesAt, Waited, SameName, SameShow, SameClient
  <2>4. ASSUME NEW u \in Ids, u # v PROVE Called(t, u, n, Unset) /\ Timed(t, u, Unset)
    <3>1. \A m \in Mscs : t.vbl[<<u, m>>] = s.vbl[<<u, m>>]
      <4>1. \A m \in Mscs : <<u, m>> \in Events \ {e}
        BY <2>4 DEF Events
      <4> HIDE DEF e
      <4> QED BY <2>1, <4>1
    <3>2. Called(s, u, n, v) /\ Timed(s, u, v) /\ t.vb[u] = s.vb[u]
      BY <2>1, <2>4 DEF Paced
    <3>3. t.pending = s.pending /\ t.done = s.done /\ u # Unset
      BY <2>1 DEF SameFlip, SameClient, Ids, Unset
    <3>4. Called(t, u, n, Unset)
      BY <2>4, <3>1, <3>2, <3>3 DEF Called
    <3>5. Timed(t, u, Unset)
      BY <2>4, <3>1, <3>2, <3>3 DEF Timed, Unfinished
    <3> QED BY <3>4, <3>5
  <2>5. Spares(s, t, v)
    BY <2>1, SparesSame
  <2> QED BY <2>2, <2>3, <2>4, <2>5 DEF Paced, t
<1>3. CASE ~Requeues(s, v, now, refuse)
  <2> DEFINE t == PixmapIdle(s, v)
             u == ExecutePost(t, v, now)
  <2>1. ExecuteCopy(s, v, now, refuse) = u
    BY <1>3 DEF ExecuteCopy
  <2>2. /\ t \in State /\ SameQueues(s, t) /\ SameFlip(s, t) /\ SameUnflip(s, t)
        /\ SameOwed(s, t) /\ t.done = s.done
    BY PixmapIdleType, PixmapIdleFrame
  <2> HIDE DEF t
  <2>3. Paced(t, n, v) /\ IsInjective(t.flipQ) /\ v # t.pending /\ Spares(s, t, v)
    BY <2>2, PacedSame DEF SameQueues, SameFlip, Spares
  <2>4. t.vb[v].target <= now
    <3>1. s.vb[v].target \in Mscs /\ s.vb[v].target # now + 1
      BY <1>1, <1>3, OneVbType DEF Requeues, Vblank
    <3>2. s.vb[v].target <= now
      BY <3>1, BoundsAssumption DEF Mscs
    <3> QED BY <2>2, <3>2 DEF SameQueues
  <2>5. Paced(u, n, Unset) /\ Spares(t, u, v)
    BY <2>2, <2>3, <2>4, ExecutePostPaced
  <2> HIDE DEF u
  <2> QED BY <2>1, <2>3, <2>5, SparesTwice
<1> QED BY <1>2, <1>3

(* Requests but for what ends a flip early writes.                          *)
Alike(b, c) ==
  /\ c.kind = b.kind /\ c.target = b.target /\ SameShow(b, c)
  /\ c.queued = b.queued /\ c.ready = b.ready /\ c.cb = b.cb

Kept(s, t) ==
  /\ t.execQ = s.execQ /\ t.flipQ = s.flipQ
  /\ SameFlip(s, t) /\ SameOwed(s, t) /\ SameClient(s, t)
  /\ \A u \in Ids : Alike(s.vb[u], t.vb[u])

LEMMA KeptPaced ==
  ASSUME NEW s \in State, NEW t, NEW n, NEW x, Kept(s, t), Paced(s, n, x),
         t.hwUnflip = IF t.unflip THEN 1 ELSE 0
  PROVE  Paced(t, n, x) /\ \A v : Spares(s, t, v)
<1>1. OnScreen(t)
  <2>1. s.pending # Unset => Alike(s.vb[s.pending], t.vb[s.pending])
    BY FieldTypes DEF Kept
  <2>2. OnScreen(s) /\ \A u \in Ids : Alike(s.vb[u], t.vb[u])
    BY DEF Paced, Kept
  <2>3. \A u \in Ids : /\ u \in t.execQ => t.vb[u].queued
                       /\ Contains(t.flipQ, u) /\ t.vb[u].queued => t.vb[u].ready
    BY <2>2 DEF OnScreen, Kept, Alike
  <2> QED BY <2>1, <2>2, <2>3 DEF OnScreen, Kept, Alike, SameName, SameFlip, SameOwed
<1>2. ASSUME NEW u \in Ids PROVE Called(t, u, n, x) /\ Timed(t, u, x)
  <2>1. Called(s, u, n, x) /\ Timed(s, u, x) /\ Alike(s.vb[u], t.vb[u])
    BY DEF Paced, Kept
  <2>2. Called(t, u, n, x)
    BY <2>1 DEF Called, Waited, Alike, SameShow, Kept, SameFlip, SameOwed
  <2>3. Timed(t, u, x)
    BY <2>1 DEF Timed, Unfinished, ExecutesAt, Waited, Alike, SameName, SameShow, SameFlip,
                Kept, SameOwed,
                SameClient
  <2> QED BY <2>2, <2>3
<1>3. \A v : Spares(s, t, v)
  BY DEF Spares, Kept, Alike, SameFlip
<1> QED BY <1>1, <1>2, <1>3 DEF Paced

(* present_set_abort_flip. *)
LEMMA SetAbortPaced ==
  ASSUME NEW s \in State, s.pending # Unset
  PROVE  LET t == SetAbortFlip(s) IN Kept(s, t) /\ SameUnflip(s, t)
<1> DEFINE t == SetAbortFlip(s)
<1>1. s.pending \in Ids
  BY PendingType
<1>2. /\ t.execQ = s.execQ /\ t.flipQ = s.flipQ
      /\ SameFlip(s, t) /\ SameUnflip(s, t) /\ SameOwed(s, t) /\ SameClient(s, t)
      /\ Alike(s.vb[s.pending], t.vb[s.pending])
      /\ \A u \in Ids \ {s.pending} : t.vb[u] = s.vb[u]
  BY SetAbortFrame DEF Alike, SameName
<1> HIDE DEF t
<1>3. \A u \in Ids : Alike(s.vb[u], t.vb[u])
  BY <1>1, <1>2 DEF Alike, SameName, SameShow
<1> QED BY <1>2, <1>3 DEF Kept, t

(* present_unflip. *)
LEMMA UnflipPaced ==
  ASSUME NEW s \in State, ~s.unflip, s.hwUnflip = 0
  PROVE  LET t == Unflip(s)
         IN  Kept(s, t) /\ t.unflip /\ t.hwUnflip = 1
<1> DEFINE t == Unflip(s)
<1>1. /\ SameQueues(s, t) /\ SameFlip(s, t) /\ SameOwed(s, t) /\ SameClient(s, t)
      /\ t.unflip /\ t.hwUnflip = s.hwUnflip + 1
  BY UnflipFrame
<1> HIDE DEF t
<1> QED BY <1>1 DEF Kept, Alike, SameName, SameShow, SameQueues, t

(* The abort or unflip before a copy. *)
LEMMA StopFlippingPaced ==
  ASSUME NEW s \in State, NEW w, NEW n, NEW x, Paced(s, n, x)
  PROVE  LET t == StopFlipping(s, w)
         IN  Kept(s, t) /\ Paced(t, n, x) /\ \A v : Spares(s, t, v)
<1> DEFINE t == StopFlipping(s, w)
<1>1. OnScreen(s)
  BY DEF Paced
<1>2. Kept(s, t) /\ t.hwUnflip = IF t.unflip THEN 1 ELSE 0
  <2>1. Kept(s, s)
    BY DEF Kept, Alike, SameName, SameShow, SameFlip, SameOwed, SameClient
  <2>2. CASE s.pending # Unset /\ w = s.vb[s.pending].win
    <3>1. t = SetAbortFlip(s)
      BY <2>2 DEF StopFlipping
    <3> HIDE DEF t
    <3> QED BY <1>1, <2>2, <3>1, SetAbortPaced DEF OnScreen, SameUnflip
  <2>3. CASE s.pending = Unset /\ ~s.unflip /\ w = s.flipWin
    <3>1. t = Unflip(s)
      BY <2>3 DEF StopFlipping
    <3> HIDE DEF t
    <3> QED BY <1>1, <2>3, <3>1, UnflipPaced DEF OnScreen
  <2>4. CASE ~(s.pending # Unset /\ w = s.vb[s.pending].win)
             /\ ~(s.pending = Unset /\ ~s.unflip /\ w = s.flipWin)
    <3>1. t = s
      BY <2>4 DEF StopFlipping
    <3> HIDE DEF t
    <3> QED BY <1>1, <2>1, <3>1 DEF OnScreen
  <2> QED BY <2>2, <2>3, <2>4
<1> HIDE DEF t
<1>3. Paced(t, n, x) /\ \A v : Spares(s, t, v)
  BY <1>2, KeptPaced
<1> QED BY <1>2, <1>3 DEF t

(* Requests other than v, when only v's record changes. *)
LEMMA OthersPaced ==
  ASSUME NEW s, NEW t, NEW n, NEW v \in Ids, NEW x \in {v, Unset}, NEW y \in {v, Unset},
         Paced(s, n, x), t.vbl = s.vbl, t.done = s.done,
         t.pending = s.pending \/ (s.pending \in {v, Unset} /\ t.pending \in {v, Unset}),
         \A u \in Ids \ {v} : t.vb[u] = s.vb[u]
  PROVE  \A u \in Ids \ {v} : Called(t, u, n, y) /\ Timed(t, u, y)
<1>1. TAKE u \in Ids \ {v}
<1>2. Called(s, u, n, x) /\ Timed(s, u, x) /\ u # Unset /\ u # v
  BY DEF Paced, Ids, Unset
<1>3. t.vb[u] = s.vb[u] /\ u # y /\ u # x /\ (u = s.pending <=> u = t.pending)
  BY <1>2
<1>4. Called(t, u, n, y)
  BY <1>2, <1>3 DEF Called
<1>5. Timed(t, u, y)
  BY <1>2, <1>3 DEF Timed, Unfinished
<1> QED BY <1>4, <1>5

(* A due request waits for its fence. *)
LEMMA AwaitFencePaced ==
  ASSUME NEW s \in State, NEW v \in Ids, NEW now \in Mscs, NEW n, Paced(s, n, Unset),
         Due(s, v, now), now <= msc, msc \in Mscs, s.vb[v].queued \/ v = s.pending
  PROVE  LET t == AwaitFence(s, v) IN Paced(t, n, Unset) /\ Spares(s, t, v)
<1> DEFINE t == AwaitFence(s, v)
<1>1. /\ t.execQ = s.execQ /\ t.flipQ = s.flipQ
      /\ SameFlip(s, t) /\ SameUnflip(s, t) /\ SameOwed(s, t) /\ SameClient(s, t)
      /\ SameName(s.vb[v], t.vb[v]) /\ SameShow(s.vb[v], t.vb[v])
      /\ t.vb[v].queued = s.vb[v].queued /\ t.vb[v].ready = s.vb[v].ready
      /\ t.vb[v].cb
      /\ \A u \in Ids \ {v} : t.vb[u] = s.vb[u]
  BY AwaitFenceFrame
<1> HIDE DEF t
<1>2. OnScreen(t)
  <2>1. s.pending # Unset => t.vb[s.pending].target = s.vb[s.pending].target
    BY <1>1, FieldTypes DEF SameName
  <2>2. OnScreen(s)
    BY DEF Paced
  <2>3. \A u \in Ids : /\ u \in t.execQ => t.vb[u].queued
                       /\ Contains(t.flipQ, u) /\ t.vb[u].queued => t.vb[u].ready
    BY <1>1, <2>2 DEF OnScreen
  <2> QED BY <1>1, <2>1, <2>2, <2>3 DEF OnScreen, SameFlip, SameUnflip, SameOwed
<1>3. Called(s, v, n, Unset) /\ Timed(s, v, Unset) /\ v # Unset
  BY DEF Paced, Ids, Unset
<1>4. /\ s.vb[v].flip => s.vb[v].exec <= msc /\ \A m \in Mscs : s.vbl[<<v, m>>] = 0
      /\ s.vb[v].target <= msc + 1
  <2>1. s.vb[v].exec \in Mscs /\ s.vb[v].target \in Mscs
    BY OneVbType DEF Vblank
  <2> QED BY <2>1, BoundsAssumption DEF Due, Mscs
<1>5. Called(t, v, n, Unset)
  BY <1>1, <1>3, <1>4 DEF Called, SameShow, SameOwed
<1>6. Timed(t, v, Unset)
  BY <1>1, <1>3, <1>4 DEF Timed, Unfinished, ExecutesAt, Waited, SameName, SameShow,
                              SameFlip, SameOwed, SameClient
<1>7. \A u \in Ids \ {v} : Called(t, u, n, Unset) /\ Timed(t, u, Unset)
  BY <1>1, OthersPaced DEF SameFlip, SameOwed, SameClient
<1>8. Spares(s, t, v)
  BY <1>1, SparesSame
<1> QED BY <1>2, <1>5, <1>6, <1>7, <1>8 DEF Paced, t

(* A due flip waits for the one before it. *)
LEMMA DeferFlipPaced ==
  ASSUME NEW s \in State, NEW v \in Ids, NEW now \in Mscs, NEW n, Paced(s, n, Unset),
         Due(s, v, now), now <= msc, msc \in Mscs, s.vb[v].queued \/ v = s.pending,
         IsInjective(s.flipQ)
  PROVE  LET t == DeferFlip(s, v) IN Paced(t, n, Unset) /\ Spares(s, t, v)
<1> DEFINE t == DeferFlip(s, v)
           r == RemoveFirst(s.flipQ, v)
<1>1. /\ t.execQ = s.execQ \ {v} /\ t.flipQ = Append(r, v)
      /\ SameFlip(s, t) /\ SameUnflip(s, t) /\ SameOwed(s, t) /\ SameClient(s, t)
      /\ SameName(s.vb[v], t.vb[v]) /\ SameShow(s.vb[v], t.vb[v])
      /\ t.vb[v].queued = s.vb[v].queued /\ t.vb[v].ready
      /\ t.vb[v].cb = s.vb[v].cb
      /\ \A u \in Ids \ {v} : t.vb[u] = s.vb[u]
  BY DeferFlipFrame
<1> HIDE DEF t
<1>2. OnScreen(t)
  <2>1. s.pending # Unset => t.vb[s.pending].target = s.vb[s.pending].target
    BY <1>1, FieldTypes DEF SameName
  <2>2. OnScreen(s) /\ s.flipQ \in Seq(Ids)
    BY FieldTypes DEF Paced
  <2>3. /\ r \in Seq(Ids) /\ IsInjective(r) /\ ~Contains(r, v)
        /\ \A u : Contains(r, u) => Contains(s.flipQ, u)
        /\ \A u : u # v /\ Contains(s.flipQ, u) => Contains(r, u)
    BY <2>2, RemoveFirstType, RemoveFirstEntries, RemoveFirstKeeps
  <2> HIDE DEF r
  <2>4. /\ \A u : Contains(t.flipQ, u) => Contains(s.flipQ, u) \/ u = v
        /\ \A u : Contains(s.flipQ, u) => Contains(t.flipQ, u)
    <3> DEFINE q == Append(r, v)
    <3>1. \A u : Contains(q, u) => Contains(r, u) \/ u = v
      BY <2>3, AddEntry
    <3>2. Contains(q, v) /\ \A u : Contains(r, u) => Contains(q, u)
      BY <2>3, AddKeeps
    <3>3. t.flipQ = q
      BY <1>1
    <3> HIDE DEF q
    <3> QED BY <2>3, <3>1, <3>2, <3>3
  <2>5. \A u \in Ids : /\ u \in t.execQ => t.vb[u].queued
                       /\ Contains(t.flipQ, u) /\ t.vb[u].queued => t.vb[u].ready
    BY <1>1, <2>2, <2>4 DEF OnScreen
  <2> QED BY <1>1, <2>1, <2>2, <2>4, <2>5 DEF OnScreen, SameFlip, SameUnflip, SameOwed
<1>3. Called(s, v, n, Unset) /\ Timed(s, v, Unset) /\ v # Unset
  BY DEF Paced, Ids, Unset
<1>4. /\ s.vb[v].flip => s.vb[v].exec <= msc /\ \A m \in Mscs : s.vbl[<<v, m>>] = 0
      /\ s.vb[v].target <= msc + 1
  <2>1. s.vb[v].exec \in Mscs /\ s.vb[v].target \in Mscs
    BY OneVbType DEF Vblank
  <2> QED BY <2>1, BoundsAssumption DEF Due, Mscs
<1>5. Called(t, v, n, Unset)
  BY <1>1, <1>3, <1>4 DEF Called, SameShow, SameOwed
<1>6. Timed(t, v, Unset)
  BY <1>1, <1>3, <1>4 DEF Timed, Unfinished, ExecutesAt, Waited, SameName, SameShow,
                              SameFlip, SameOwed, SameClient
<1>7. \A u \in Ids \ {v} : Called(t, u, n, Unset) /\ Timed(t, u, Unset)
  BY <1>1, OthersPaced DEF SameFlip, SameOwed, SameClient
<1>8. Spares(s, t, v)
  BY <1>1, SparesSame
<1> QED BY <1>2, <1>5, <1>6, <1>7, <1>8 DEF Paced, t

(* A flip the hardware takes is done no earlier than its target. *)
LEMMA DueMscInTime ==
  ASSUME NEW b \in Vblank, msc \in Mscs, ExecutesAt(b), b.exec <= msc
  PROVE  DueMsc(b) \in Mscs /\ b.target <= DueMsc(b)
<1>1. b.exec \in Mscs /\ b.target \in Mscs
  BY DEF Vblank
<1> QED BY <1>1, BoundsAssumption DEF DueMsc, ExecutesAt, Mscs

(* A due request in hand flips. *)
LEMMA StartFlipPaced ==
  ASSUME NEW s \in State, NEW v \in Ids, NEW now \in Mscs, NEW n, Paced(s, n, v),
         Due(s, v, now), now <= msc, msc \in Mscs, s.pending = Unset, s.vb[v].flip,
         ~s.vb[v].queued, ~Contains(s.flipQ, v), IsInjective(s.flipQ)
  PROVE  LET t == StartFlip(s, v) IN Paced(t, n, Unset) /\ Spares(s, t, v)
<1> DEFINE t == StartFlip(s, v)
           d == DueMsc(s.vb[v])
<1>1. /\ t.vb = s.vb /\ t.execQ = s.execQ /\ t.flipQ = <<v>> \o s.flipQ
      /\ t.pending = v /\ t.flipOf = s.flipOf
      /\ t.flipWin = s.flipWin /\ t.flipPix = s.flipPix
      /\ SameUnflip(s, t) /\ SameClient(s, t) /\ t.vbl = s.vbl
      /\ t.hwFlip = s.hwFlip \cup {<<v, d>>}
  BY StartFlipFrame
<1> HIDE DEF t
<1>2. OnScreen(s) /\ Called(s, v, n, v) /\ Timed(s, v, v) /\ v # Unset
  BY DEF Paced, Ids, Unset
<1>3. s.vb[v].exec <= msc
  <2>1. s.vb[v].exec \in Mscs
    BY OneVbType DEF Vblank
  <2> QED BY <2>1, BoundsAssumption DEF Due, Mscs
<1>4. d \in Mscs /\ s.vb[v].target <= d
  BY <1>2, <1>3, OneVbType, DueMscInTime DEF Timed, Unfinished
<1> HIDE DEF d
<1>5. OnScreen(t)
  <2>1. /\ Contains(t.flipQ, v)
        /\ \A u : Contains(t.flipQ, u) => Contains(s.flipQ, u) \/ u = v
    BY <1>1, FieldTypes, AddKeeps, AddEntry
  <2>2. t.hwFlip = {<<v, d>>}
    BY <1>1, <1>2 DEF OnScreen
  <2>3. \A u \in Ids : /\ u \in t.execQ => t.vb[u].queued
                       /\ Contains(t.flipQ, u) /\ t.vb[u].queued => t.vb[u].ready
    BY <1>1, <1>2, <2>1 DEF OnScreen
  <2> QED BY <1>1, <1>2, <1>4, <2>1, <2>2, <2>3 DEF OnScreen, SameUnflip
<1>6. Called(t, v, n, Unset) /\ Timed(t, v, Unset)
  BY <1>1, <1>2, <1>3 DEF Called, Timed, Unfinished, Due, SameClient
<1>7. \A u \in Ids \ {v} : Called(t, u, n, Unset) /\ Timed(t, u, Unset)
  BY <1>1, OthersPaced DEF SameClient
<1>8. Spares(s, t, v)
  BY <1>1 DEF Spares
<1> QED BY <1>5, <1>6, <1>7, <1>8 DEF Paced, t

(* The driver refuses the flip. *)
LEMMA FlipRefusedPaced ==
  ASSUME NEW s \in State, NEW v \in Ids, NEW now, NEW n, Paced(s, n, v), v # s.pending
  PROVE  LET t == FlipRefused(s, v) IN Paced(t, n, v) /\ Spares(s, t, v)
<1> DEFINE t == FlipRefused(s, v)
<1>1. /\ t.execQ = s.execQ /\ t.flipQ = s.flipQ
      /\ SameFlip(s, t) /\ SameUnflip(s, t) /\ SameOwed(s, t) /\ SameClient(s, t)
      /\ SameName(s.vb[v], t.vb[v])
      /\ ~t.vb[v].flip /\ t.vb[v].exec = s.vb[v].target
      /\ t.vb[v].queued = s.vb[v].queued /\ t.vb[v].ready = s.vb[v].ready
      /\ t.vb[v].cb = s.vb[v].cb
      /\ \A u \in Ids \ {v} : t.vb[u] = s.vb[u]
  BY FlipRefusedFrame
<1> HIDE DEF t
<1>2. OnScreen(s) /\ Called(s, v, n, v) /\ Timed(s, v, v)
  BY DEF Paced
<1>3. OnScreen(t)
  <2>1. s.pending # Unset => t.vb[s.pending] = s.vb[s.pending]
    BY <1>1, FieldTypes
  <2>2. \A u \in Ids : /\ u \in t.execQ => t.vb[u].queued
                       /\ Contains(t.flipQ, u) /\ t.vb[u].queued => t.vb[u].ready
    BY <1>1, <1>2 DEF OnScreen
  <2> QED BY <1>1, <1>2, <2>1, <2>2 DEF OnScreen, SameFlip, SameUnflip, SameOwed
<1>4. Called(t, v, n, v)
  BY <1>1, <1>2 DEF Called, SameOwed
<1>5. Timed(t, v, v)
  BY <1>1, <1>2 DEF Timed, Unfinished, ExecutesAt, Waited, SameName, SameOwed, SameClient
<1>6. \A u \in Ids \ {v} : Called(t, u, n, v) /\ Timed(t, u, v)
  BY <1>1, OthersPaced DEF SameFlip, SameOwed, SameClient
<1>7. Spares(s, t, v)
  BY <1>1, SparesSame
<1> QED BY <1>3, <1>4, <1>5, <1>6, <1>7 DEF Paced, t

(* The second half of present_execute: a due request in hand flips or is     *)
(* copied.                                                                   *)
LEMMA PresentPaced ==
  ASSUME NEW s \in State, NEW v \in Ids, NEW now \in Mscs, NEW refuse, NEW n \in Nat,
         Paced(s, n, v), Due(s, v, now), now <= msc, msc \in Mscs, v # s.pending, v < n,
         IsInjective(s.flipQ), ~Contains(s.flipQ, v), ~s.vb[v].queued,
         s.vb[v].pix # NoPix, s.vb[v].flip => s.pending = Unset, "vblank" \notin refuse
  PROVE  LET t == Present(s, v, now, refuse) IN Paced(t, n, Unset) /\ Spares(s, t, v)
<1> DEFINE w == s.vb[v].win
           r == IF s.vb[v].flip THEN FlipRefused(s, v) ELSE s
           u == StopFlipping(r, w)
           t == ExecuteCopy(u, v, now, refuse)
<1>1. Present(s, v, now, refuse)
        = IF s.vb[v].flip /\ "flip" \notin refuse THEN StartFlip(s, v) ELSE t
  BY DEF Present
<1>2. CASE s.vb[v].flip /\ "flip" \notin refuse
  <2>1. Present(s, v, now, refuse) = StartFlip(s, v)
    BY <1>1, <1>2
  <2> QED BY <1>2, <2>1, StartFlipPaced
<1>3. CASE ~(s.vb[v].flip /\ "flip" \notin refuse)
  <2>1. /\ r \in State /\ Paced(r, n, v) /\ Spares(s, r, v)
        /\ r.flipQ = s.flipQ /\ r.pending = s.pending /\ ~r.vb[v].flip
        /\ r.vb[v].pix = s.vb[v].pix /\ r.vb[v].target = s.vb[v].target
    <3>1. CASE s.vb[v].flip
      <4>1. r = FlipRefused(s, v)
        BY <3>1
      <4> HIDE DEF r
      <4> QED BY <4>1, FlipRefusedType, FlipRefusedFrame, FlipRefusedPaced
              DEF SameFlip, SameName
    <3>2. CASE ~s.vb[v].flip
      <4>1. r = s /\ Spares(s, s, v)
        BY <3>2 DEF Spares
      <4> HIDE DEF r
      <4> QED BY <3>2, <4>1
    <3> QED BY <3>1, <3>2
  <2> HIDE DEF r
  <2>2. u \in State /\ Kept(r, u) /\ Paced(u, n, v) /\ Spares(r, u, v)
    BY <2>1, StopFlippingType, StopFlippingPaced
  <2> HIDE DEF u
  <2>3. /\ u.flipQ = s.flipQ /\ u.pending = s.pending /\ ~u.vb[v].flip
        /\ u.vb[v].pix = s.vb[v].pix /\ u.vb[v].target = s.vb[v].target
    BY <2>1, <2>2 DEF Kept, Alike, SameName, SameShow, SameFlip
  <2>4. u.vb[v].target <= now + 1
    BY <2>3 DEF Due
  <2>5. Paced(t, n, Unset) /\ Spares(u, t, v)
    BY <2>2, <2>3, <2>4, ExecuteCopyPaced
  <2> HIDE DEF t
  <2>6. Present(s, v, now, refuse) = t
    BY <1>1, <1>3
  <2>7. Spares(s, t, v)
    BY <2>1, <2>2, <2>5 DEF Spares
  <2> QED BY <2>5, <2>6, <2>7
<1> QED BY <1>2, <1>3

(* present_execute of any due request. *)
LEMMA ExecutePaced ==
  ASSUME NEW s \in State, NEW v \in Ids, NEW now \in Mscs, NEW refuse, NEW n \in Nat,
         Sound(s, n, Unset), Paced(s, n, Unset), Due(s, v, now), now <= msc, msc \in Mscs,
         s.vb[v].queued \/ v = s.pending, "vblank" \notin refuse
  PROVE  LET t == Execute(s, v, now, refuse) IN Paced(t, n, Unset) /\ Spares(s, t, v)
<1>0. /\ Called(s, v, n, Unset) /\ Timed(s, v, Unset) /\ v # Unset
      /\ v = s.pending => ~s.vb[v].queued /\ s.vb[v].flip /\ s.vb[v].pix # NoPix
      /\ IsInjective(s.flipQ)
  BY DEF Paced, Sound, Ids, Unset
<1>7. v < n
  <2>1. s.vb[v].flip => v < n
    BY DEF Sound
  <2>2. v \in Nat
    BY DEF Ids
  <2> QED BY <1>0, <2>1, <2>2 DEF Called
<1>1. CASE s.vb[v].win = NoWin
  <2> DEFINE t == Halt(s, "null")
  <2>1. Execute(s, v, now, refuse) = t
    BY <1>1 DEF Execute
  <2>2. SameState(s, t)
    BY HaltFrame
  <2> HIDE DEF t
  <2>3. /\ SameQueues(s, t) /\ SameFlip(s, t) /\ SameUnflip(s, t) /\ SameOwed(s, t)
        /\ t.done = s.done
    BY <2>2 DEF SameState, SameClient
  <2>4. Paced(t, n, Unset) /\ Spares(s, t, v)
    BY <2>3, PacedSame, SparesSame DEF SameQueues
  <2> QED BY <2>1, <2>4
<1>2. CASE s.vb[v].win # NoWin /\ Requeues(s, v, now, refuse)
  <2> DEFINE t == QueueVblank(s, v)
             e == <<v, s.vb[v].exec>>
  <2>1. Execute(s, v, now, refuse) = t
    BY <1>2 DEF Execute
  <2>2. /\ SameQueues(s, t) /\ SameFlip(s, t) /\ SameUnflip(s, t) /\ SameClient(s, t)
        /\ t.hwFlip = s.hwFlip
        /\ e \in Events /\ t.vbl[e] = s.vbl[e] + 1
        /\ \A x \in Events \ {e} : t.vbl[x] = s.vbl[x]
    BY QueueVblankFrame
  <2> HIDE DEF t
  <2>3. s.vb[v].exec = now + 1 /\ s.vb[v].exec \in Mscs /\ s.vb[v].target \in Mscs
    BY <1>2, OneVbType DEF Requeues, Vblank
  <2>4. ~s.vb[v].flip /\ s.vb[v].queued
    <3>1. ~(s.vb[v].exec <= now)
      BY <2>3, BoundsAssumption DEF Mscs
    <3> QED BY <1>0, <3>1 DEF Due
  <2>5. OnScreen(t)
    BY <2>2 DEF Paced, OnScreen, SameQueues, SameFlip, SameUnflip
  <2>6. ASSUME NEW u \in Ids, u # v PROVE Called(t, u, n, Unset) /\ Timed(t, u, Unset)
    <3>1. \A m \in Mscs : t.vbl[<<u, m>>] = s.vbl[<<u, m>>]
      <4>1. \A m \in Mscs : <<u, m>> \in Events \ {e}
        BY <2>6 DEF Events
      <4> HIDE DEF e
      <4> QED BY <2>2, <4>1
    <3>2. Called(s, u, n, Unset) /\ Timed(s, u, Unset)
      BY DEF Paced
    <3>3. t.vb[u] = s.vb[u] /\ t.pending = s.pending /\ t.done = s.done
      BY <2>2 DEF SameQueues, SameFlip, SameClient
    <3>4. Called(t, u, n, Unset)
      BY <3>1, <3>2, <3>3 DEF Called
    <3>5. Timed(t, u, Unset)
      BY <3>1, <3>2, <3>3 DEF Timed, Unfinished
    <3> QED BY <3>4, <3>5
  <2>7. Called(t, v, n, Unset)
    <3>1. ~(v >= n)
      BY <1>7 DEF Ids
    <3> QED BY <2>2, <2>4, <3>1 DEF Called, SameQueues
  <2>8. Timed(t, v, Unset)
    <3>1. \A m \in Mscs : m # s.vb[v].exec => t.vbl[<<v, m>>] = s.vbl[<<v, m>>]
      <4>1. \A m \in Mscs : m # s.vb[v].exec => <<v, m>> \in Events \ {e}
        BY DEF Events
      <4> HIDE DEF e
      <4> QED BY <2>2, <4>1
    <3>2. s.vb[v].target <= s.vb[v].exec + 1
      BY <1>0, <2>3, <2>4, BoundsAssumption DEF Timed, Unfinished, ExecutesAt, Mscs
    <3>3. \A m \in Mscs : t.vbl[<<v, m>>] # 0 => s.vb[v].target <= m + 1
      BY <1>0, <2>4, <3>1, <3>2 DEF Timed, Unfinished
    <3>4. t.vb = s.vb /\ t.done = s.done /\ t.pending = s.pending
      BY <2>2 DEF SameQueues, SameFlip, SameClient
    <3> QED BY <1>0, <3>3, <3>4 DEF Timed, Unfinished
  <2>9. Spares(s, t, v)
    BY <2>2, SparesSame DEF SameQueues
  <2>10. Paced(t, n, Unset)
    BY <2>5, <2>6, <2>7, <2>8 DEF Paced
  <2> QED BY <2>1, <2>9, <2>10
<1>3. CASE s.vb[v].win # NoWin /\ ~Requeues(s, v, now, refuse) /\ WaitsForFence(s, v)
  <2>1. Execute(s, v, now, refuse) = AwaitFence(s, v)
    BY <1>3 DEF Execute
  <2> QED BY <1>0, <2>1, AwaitFencePaced
<1>4. CASE /\ s.vb[v].win # NoWin /\ ~Requeues(s, v, now, refuse)
           /\ ~WaitsForFence(s, v) /\ MustDefer(s, v)
  <2>1. Execute(s, v, now, refuse) = DeferFlip(s, v)
    BY <1>4 DEF Execute
  <2> QED BY <1>0, <2>1, DeferFlipPaced
<1>5. CASE /\ s.vb[v].win # NoWin /\ ~Requeues(s, v, now, refuse)
           /\ ~WaitsForFence(s, v) /\ ~MustDefer(s, v)
  <2> DEFINE t == Dequeue(s, v)
             p == Present(t, v, now, refuse)
             x == ExecutePost(t, v, now)
  <2>1. v # s.pending /\ s.vb[v].queued
    BY <1>0, <1>5 DEF MustDefer
  <2>2. t \in State /\ ~Contains(t.flipQ, v) /\ IsInjective(t.flipQ)
        /\ ~t.vb[v].queued /\ t.vb[v].flip = s.vb[v].flip
        /\ t.vb[v].win = s.vb[v].win /\ t.vb[v].pix = s.vb[v].pix
        /\ t.pending = s.pending /\ t.unflip = s.unflip
    <3>1. Sound(s, n, v)
      BY SoundInHand
    <3>2. Sound(t, n, v) /\ ~Contains(t.flipQ, v)
      BY <2>1, <3>1, DequeueSound
    <3>3. IsInjective(t.flipQ)
      BY <3>2 DEF Sound
    <3> QED BY <3>2, <3>3, DequeueFields
  <2>3. Paced(t, n, v) /\ Due(t, v, now) /\ Spares(s, t, v)
    BY <1>0, <2>1, DequeuePaced
  <2>6. t.vb[v].exec = s.vb[v].exec /\ t.vb[v].target = s.vb[v].target
    BY DequeueFrame DEF SameShow, SameName
  <2>7. Execute(s, v, now, refuse) = IF s.vb[v].pix # NoPix THEN p ELSE x
    BY <1>5 DEF Execute
  <2> HIDE DEF t
  <2>4. CASE s.vb[v].pix # NoPix
    <3>1. t.vb[v].flip => t.pending = Unset
      BY <1>5, <2>2, <2>4 DEF MustDefer
    <3>2. Paced(p, n, Unset) /\ Spares(t, p, v)
      BY <1>7, <2>1, <2>2, <2>3, <2>4, <3>1, PresentPaced
    <3> HIDE DEF p
    <3> QED BY <2>3, <2>4, <2>7, <3>2, SparesTwice
  <2>5. CASE s.vb[v].pix = NoPix
    <3>1. \/ t.vb[v].kind = "pixmap" /\ t.vb[v].pix = NoPix
          \/ t.vb[v].target <= now
      <4>1. Timed(t, v, v)
        BY <2>3 DEF Paced
      <4>2. CASE t.vb[v].kind # "pixmap"
        <5>1. t.vb[v].exec = t.vb[v].target
          BY <2>2, <2>5, <4>1, <4>2 DEF Timed, Unfinished, ExecutesAt
        <5>2. t.vb[v].target # now + 1
          BY <1>5, <2>6, <5>1 DEF Requeues
        <5>3. t.vb[v].target <= now + 1 /\ t.vb[v].target \in Mscs
          BY <2>1, <2>2, <2>3, OneVbType DEF Due, Vblank
        <5> QED BY <5>2, <5>3, BoundsAssumption DEF Mscs
      <4> QED BY <2>2, <2>5, <4>2
    <3>2. Paced(x, n, Unset) /\ Spares(t, x, v)
      BY <2>1, <2>2, <2>3, <3>1, ExecutePostPaced
    <3> HIDE DEF x
    <3> QED BY <2>3, <2>5, <2>7, <3>2, SparesTwice
  <2> QED BY <2>4, <2>5
<1> QED BY <1>1, <1>2, <1>3, <1>4, <1>5

(* present_flip_try_ready executes nothing, or a queued entry of its list. *)
LEMMA FlipTryReadyRuns ==
  ASSUME NEW s \in State, NEW refuse
  PROVE  \/ FlipTryReady(s, refuse) = s
         \/ \E v \in Ids : /\ Contains(s.flipQ, v) /\ s.vb[v].queued
                           /\ FlipTryReady(s, refuse) = Execute(s, v, msc, refuse)
<1> DEFINE I == {i \in 1..Len(s.flipQ) : s.vb[s.flipQ[i]].queued}
           i0 == IF I # {} THEN Min(I) ELSE 0
<1>1. FlipTryReady(s, refuse) =
        IF i0 = 0 THEN s ELSE Execute(s, s.flipQ[i0], msc, refuse)
  BY SMTT(20) DEF FlipTryReady, SelectInSeq
<1>2. s.flipQ \in Seq(Ids)
  BY FieldTypes
<1>3. i0 # 0 => i0 \in I
  <2>1. I \in SUBSET Nat
    BY <1>2, LenProperties
  <2> QED BY <2>1, MinIsLeast
<1> HIDE DEF i0
<1>4. CASE i0 # 0
  <2>1. s.flipQ[i0] \in Ids
    BY <1>2, <1>3, <1>4, ElementOfSeq
  <2>2. Contains(s.flipQ, s.flipQ[i0])
    BY <1>3, <1>4 DEF Contains
  <2> QED BY <1>1, <1>3, <1>4, <2>1, <2>2
<1> QED BY <1>1, <1>4

(* A request that has waited is due. *)
LEMMA WaitedIsDue ==
  ASSUME NEW s, NEW v \in Ids, NEW n, Paced(s, n, Unset), Waited(s.vb[v]),
         s.vb[v].queued \/ v = s.pending
  PROVE  Due(s, v, msc)
<1>1. Called(s, v, n, Unset) /\ Timed(s, v, Unset)
  BY DEF Paced
<1> QED BY <1>1 DEF Due, Called, Timed, Unfinished

(* present_flip_try_ready. *)
LEMMA FlipTryReadyPaced ==
  ASSUME NEW s \in State, NEW refuse, NEW n \in Nat, Sound(s, n, Unset),
         Paced(s, n, Unset), msc \in Mscs, "vblank" \notin refuse
  PROVE  LET t == FlipTryReady(s, refuse)
         IN  Paced(t, n, Unset) /\ t.flipOf = s.flipOf
<1>1. CASE FlipTryReady(s, refuse) = s
  BY <1>1
<1>2. ASSUME NEW v \in Ids, Contains(s.flipQ, v), s.vb[v].queued,
             FlipTryReady(s, refuse) = Execute(s, v, msc, refuse)
      PROVE  Paced(FlipTryReady(s, refuse), n, Unset)
             /\ FlipTryReady(s, refuse).flipOf = s.flipOf
  <2>1. Waited(s.vb[v])
    BY <1>2 DEF Paced, OnScreen, Waited
  <2>2. Due(s, v, msc)
    BY <1>2, <2>1, WaitedIsDue
  <2>3. msc <= msc
    BY BoundsAssumption DEF Mscs
  <2>4. LET t == Execute(s, v, msc, refuse) IN Paced(t, n, Unset) /\ Spares(s, t, v)
    BY <1>2, <2>2, <2>3, ExecutePaced
  <2> QED BY <1>2, <2>4 DEF Spares
<1> QED BY <1>1, <1>2, FlipTryReadyRuns

-----------------------------------------------------------------------------
(* Completions.                                                             *)

(* present_flip_idle. *)
LEMMA FlipIdlePaced ==
  ASSUME NEW s \in State, NEW n, NEW x, Paced(s, n, x)
  PROVE  LET t == FlipIdle(s)
         IN  /\ Paced(t, n, x) /\ t.flipOf = Unset
<1> DEFINE t == FlipIdle(s)
<1>1. OnScreen(s) /\ (s.flipOf = Unset <=> s.flipPix = NoPix)
  BY DEF Paced, OnScreen
<1>2. /\ SameQueues(s, t) /\ SameUnflip(s, t) /\ SameOwed(s, t)
      /\ t.pending = s.pending /\ t.flipOf = Unset /\ t.flipPix = NoPix
      /\ t.done = s.done
  BY <1>1, FlipIdleFrame
<1> HIDE DEF t
<1>3. OnScreen(t)
  BY <1>1, <1>2 DEF OnScreen, SameQueues, SameUnflip, SameOwed
<1>4. \A u \in Ids : Called(t, u, n, x) /\ Timed(t, u, x)
  <2>1. TAKE u \in Ids
  <2>2. Called(s, u, n, x) /\ Timed(s, u, x)
    BY DEF Paced
  <2> QED BY <1>2, <2>2 DEF Called, Timed, Unfinished, SameQueues, SameOwed
<1> QED BY <1>2, <1>3, <1>4 DEF Paced, t

(* The hardware has done the flip that c had pending: in s, where what was   *)
(* on the screen is forgotten, it moves to the screen.                       *)
LEMMA TakeFlipPaced ==
  ASSUME NEW c, NEW s \in State, NEW v \in Ids, NEW n,
         Sound(c, n, Unset), Paced(c, n, Unset), c.pending = v,
         SameQueues(c, s), SameUnflip(c, s), s.vbl = c.vbl, s.done = c.done,
         s.pending = v, s.hwFlip = {}
  PROVE  LET t == TakeFlip(s, v)
         IN  Paced(t, n, v) /\ t.flipOf = v
<1> DEFINE t == TakeFlip(s, v)
<1>1. /\ t.execQ = s.execQ /\ t.flipQ = RemoveFirst(s.flipQ, v)
      /\ t.pending = Unset /\ t.flipOf = v /\ t.flipPix = s.vb[v].pix
      /\ SameUnflip(s, t) /\ SameOwed(s, t) /\ SameClient(s, t)
      /\ SameName(s.vb[v], t.vb[v])
      /\ t.vb[v].exec = s.vb[v].exec /\ t.vb[v].sync = s.vb[v].sync
      /\ t.vb[v].queued = s.vb[v].queued /\ t.vb[v].ready = s.vb[v].ready
      /\ t.vb[v].cb = s.vb[v].cb /\ t.vb[v].pix = NoPix
      /\ \A u \in Ids \ {v} : t.vb[u] = s.vb[u]
  BY TakeFlipFrame
<1> HIDE DEF t
<1>2. /\ v # Unset /\ c.vb[v].flip /\ c.vb[v].pix # NoPix /\ ~c.vb[v].queued
      /\ IsInjective(c.flipQ)
  BY DEF Sound, Ids, Unset
<1>3. OnScreen(c) /\ Called(c, v, n, Unset) /\ Timed(c, v, Unset)
  BY DEF Paced
<1>4. OnScreen(t)
  <2>1. \A u : Contains(t.flipQ, u) => Contains(c.flipQ, u) /\ u # v
    BY <1>1, <1>2, FieldTypes, RemoveFirstEntries DEF SameQueues
  <2>2. \A u \in Ids : /\ u \in t.execQ => t.vb[u].queued
                       /\ Contains(t.flipQ, u) /\ t.vb[u].queued => t.vb[u].ready
    BY <1>1, <1>3, <2>1 DEF OnScreen, SameQueues
  <2>3. t.flipOf # Unset /\ t.flipPix # NoPix
    BY <1>1, <1>2 DEF SameQueues
  <2> QED BY <1>1, <1>3, <2>2, <2>3 DEF OnScreen, SameUnflip, SameOwed
<1>5. Called(t, v, n, v)
  BY <1>1, <1>2, <1>3 DEF Called, SameQueues, SameOwed
<1>6. Timed(t, v, v)
  BY <1>1, <1>2, <1>3 DEF Timed, Unfinished, ExecutesAt, Waited, SameName, SameQueues,
                          SameOwed, SameClient
<1>7. \A u \in Ids \ {v} : Called(t, u, n, v) /\ Timed(t, u, v)
  <2>1. /\ t.vbl = c.vbl /\ t.done = c.done /\ t.pending = Unset
        /\ \A u \in Ids \ {v} : t.vb[u] = c.vb[u]
    BY <1>1 DEF SameQueues, SameOwed, SameClient
  <2> QED BY <2>1, OthersPaced
<1> QED BY <1>1, <1>4, <1>5, <1>6, <1>7 DEF Paced, t

(* present_flip_notify, when the hardware has done the flip. *)
LEMMA FlipNotifyPaced ==
  ASSUME NEW c \in State, NEW s \in State, NEW v \in Ids, NEW now \in Mscs, NEW refuse,
         NEW n \in Nat, Sound(c, n, Unset), Paced(c, n, Unset), c.pending = v,
         SameQueues(c, s), SameUnflip(c, s), SameFlip(c, s), s.vbl = c.vbl,
         s.halted = c.halted, s.done = c.done, s.hwFlip = {}, c.vb[v].target <= now,
         msc \in Mscs, "vblank" \notin refuse
  PROVE  LET t == FlipNotify(s, v, now, refuse)
         IN  Paced(t, n, Unset) /\ t.flipOf = v
<1> DEFINE i == FlipIdle(s)
           t == TakeFlip(i, v)
           u == IF s.vb[v].abort THEN Unflip(t) ELSE t
           y == VblankNotify(u, v, "flip", now)
           x == VblankDestroy(y, v)
<1>1. FlipNotify(s, v, now, refuse) = FlipTryReady(x, refuse)
  BY DEF FlipNotify, SameFlip
<1>2. Sound(s, n, Unset)
  BY DEF Sound, SameQueues, SameFlip, SameUnflip
<1>3. s.flipOf = Unset <=> s.flipPix = NoPix
  BY DEF Paced, OnScreen, SameFlip
<1>4. /\ i \in State /\ Sound(i, n, Unset) /\ i.pending = v
      /\ SameQueues(s, i) /\ SameUnflip(s, i) /\ SameOwed(s, i) /\ i.done = s.done
  BY <1>2, <1>3, FlipIdleType, FlipIdleSound, FlipIdleFrame DEF SameFlip
<1> HIDE DEF i
<1>5. /\ t \in State /\ Sound(t, n, v) /\ t.pending = Unset /\ ~t.unflip
      /\ t.flipPix # NoPix
  BY <1>4, TakeFlipType, TakeFlipSound
<1>6. Paced(t, n, v) /\ t.flipOf = v /\ t.vb[v].target = c.vb[v].target
  <2>1. SameQueues(c, i) /\ SameUnflip(c, i) /\ i.vbl = c.vbl /\ i.done = c.done
        /\ i.hwFlip = {}
    BY <1>4 DEF SameQueues, SameUnflip, SameOwed
  <2>2. t.vb[v].target = i.vb[v].target
    BY <1>4, TakeFlipFrame DEF SameName
  <2>3. Paced(t, n, v) /\ t.flipOf = v
    BY <1>4, <2>1, TakeFlipPaced
  <2> HIDE DEF t
  <2> QED BY <2>1, <2>2, <2>3 DEF SameQueues
<1> HIDE DEF t
<1>7. /\ u \in State /\ Sound(u, n, v) /\ u.pending = Unset /\ Paced(u, n, v)
      /\ u.flipOf = v /\ u.vb[v].target = t.vb[v].target
  <2>1. CASE s.vb[v].abort
    <3>1. u = Unflip(t)
      BY <2>1
    <3> HIDE DEF u
    <3>2. t.hwUnflip = 0
      BY <1>5, <1>6 DEF Paced, OnScreen
    <3>3. Kept(t, u) /\ u.unflip /\ u.hwUnflip = 1
      BY <1>5, <3>1, <3>2, UnflipPaced
    <3>4. Paced(u, n, v)
      BY <1>5, <1>6, <3>3, KeptPaced
    <3>5. u.flipOf = v /\ u.vb[v].target = t.vb[v].target /\ u.pending = Unset
      BY <1>5, <1>6, <3>3 DEF Kept, Alike, SameName, SameFlip
    <3> QED BY <1>5, <3>1, <3>4, <3>5, UnflipType, UnflipSound
  <2>2. CASE ~s.vb[v].abort
    <3>1. u = t
      BY <2>2
    <3> HIDE DEF u
    <3> QED BY <1>5, <1>6, <3>1
  <2> QED BY <2>1, <2>2
<1> HIDE DEF u
<1>8. /\ y \in State /\ Sound(y, n, v) /\ y.pending = Unset /\ Paced(y, n, v)
      /\ y.flipOf = v
  <2>1. y \in State /\ SameFlips(u, y) /\ SameFlip(u, y)
    BY <1>7, VblankNotifyType, VblankNotifySame, VblankNotifyFrame DEF Modes
  <2>2. Paced(y, n, v)
    BY <1>6, <1>7, VblankNotifyPaced
  <2> HIDE DEF y
  <2> QED BY <1>7, <2>1, <2>2, SoundSame DEF SameFlip
<1> HIDE DEF y
<1>9. /\ x \in State /\ Sound(x, n, Unset) /\ Paced(x, n, Unset) /\ x.flipOf = v
  <2>1. IsInjective(y.flipQ) /\ v # y.pending
    BY <1>8 DEF Sound, Ids, Unset
  <2>2. x \in State /\ Sound(x, n, Unset)
    BY <1>8, <2>1, VblankDestroyType, VblankDestroySound
  <2>3. Paced(x, n, Unset) /\ Spares(y, x, v)
    BY <1>8, <2>1, VblankDestroyPaced
  <2> HIDE DEF x
  <2> QED BY <1>8, <2>2, <2>3 DEF Spares
<1> HIDE DEF x
<1> QED BY <1>1, <1>9, FlipTryReadyPaced

(* The end of the unflip the hardware has done. *)
LEMMA UnflipNotifyPaced ==
  ASSUME NEW c \in State, NEW s \in State, NEW refuse,
         NEW n \in Nat, Sound(c, n, Unset), Paced(c, n, Unset), c.unflip,
         SameQueues(c, s), SameFlip(c, s), SameOwed(c, s), s.halted = c.halted,
         s.done = c.done, s.hwUnflip = c.hwUnflip - 1,
         msc \in Mscs, "vblank" \notin refuse
  PROVE  LET t == UnflipNotify(s, refuse)
         IN  Paced(t, n, Unset) /\ t.flipOf = Unset
<1> DEFINE t == [s EXCEPT !.unflip = FALSE]
           u == FlipIdle(t)
<1>1. /\ t \in State /\ SameQueues(s, t) /\ SameFlip(s, t) /\ SameOwed(s, t)
      /\ t.done = s.done /\ ~t.unflip /\ t.hwUnflip = s.hwUnflip
      /\ t.halted = s.halted
  BY DEF State, SameQueues, SameFlip, SameOwed
<1>2. UnflipNotify(s, refuse) = FlipTryReady(u, refuse)
  BY DEF UnflipNotify
<1> HIDE DEF t
<1>3. SameQueues(c, t) /\ SameFlip(c, t) /\ SameOwed(c, t) /\ t.done = c.done
      /\ t.halted = c.halted
  BY <1>1 DEF SameQueues, SameFlip, SameOwed
<1>4. Sound(t, n, Unset)
  BY <1>1, <1>3 DEF Sound, SameQueues, SameFlip
<1>5. Paced(t, n, Unset)
  <2>1. OnScreen(c) /\ c.hwUnflip = 1
    BY DEF Paced, OnScreen
  <2>2. t.hwUnflip = 0
    BY <1>1, <2>1
  <2>3. OnScreen(t)
    BY <1>1, <1>3, <2>1, <2>2 DEF OnScreen, SameQueues, SameFlip, SameOwed
  <2>4. \A v \in Ids : Called(t, v, n, Unset) /\ Timed(t, v, Unset)
    <3>1. TAKE v \in Ids
    <3>2. Called(c, v, n, Unset) /\ Timed(c, v, Unset)
      BY DEF Paced
    <3> QED BY <1>3, <3>2 DEF Called, Timed, Unfinished, SameQueues, SameFlip, SameOwed
  <2> QED BY <2>3, <2>4 DEF Paced
<1>6. u \in State /\ Sound(u, n, Unset) /\ Paced(u, n, Unset) /\ u.flipOf = Unset
  BY <1>1, <1>4, <1>5, FlipIdleType, FlipIdleSound, FlipIdlePaced
<1> HIDE DEF u
<1> QED BY <1>2, <1>6, FlipTryReadyPaced

(* The driver answers a request: event <<v, m>> is no longer owed in s.      *)
LEMMA VblankEventPaced ==
  ASSUME NEW c \in State, NEW s \in State, NEW v \in Ids, NEW m \in Mscs,
         NEW now \in Mscs, NEW refuse, NEW n \in Nat,
         Sound(c, n, Unset), Paced(c, n, Unset), c.vbl[<<v, m>>] > 0,
         SameQueues(c, s), SameFlip(c, s), SameUnflip(c, s), s.halted = c.halted,
         s.hwFlip = c.hwFlip, s.done = c.done,
         s.vbl = [c.vbl EXCEPT ![<<v, m>>] = @ - 1],
         m <= now, now <= msc, msc \in Mscs, "vblank" \notin refuse
  PROVE  LET t == EventNotify(s, v, now, refuse)
         IN  Paced(t, n, Unset) /\ t.flipOf = s.flipOf
<1> DEFINE e == <<v, m>>
<1>0. c.vbl \in [Events -> Nat] /\ e \in Events
  BY FieldTypes DEF Events
<1>1. s.vbl[e] = c.vbl[e] - 1 /\ \A x \in Events \ {e} : s.vbl[x] = c.vbl[x]
  BY <1>0
<1>2. \A u \in Ids, k \in Mscs : <<u, k>> # e => s.vbl[<<u, k>>] = c.vbl[<<u, k>>]
  <2> HIDE DEF e
  <2> QED BY <1>1 DEF Events
<1>3. \A u \in Ids, k \in Mscs : s.vbl[<<u, k>>] # 0 => c.vbl[<<u, k>>] # 0
  <2>1. TAKE u \in Ids, k \in Mscs
  <2>2. c.vbl[e] # 0
    <3>1. c.vbl[e] \in Nat
      BY <1>0
    <3> QED BY <3>1
  <2> HIDE DEF e
  <2>3. <<u, k>> \in Events
    BY DEF Events
  <2> QED BY <1>1, <2>2, <2>3
<1>4. Called(c, v, n, Unset) /\ Timed(c, v, Unset)
  BY DEF Paced
<1>5. c.vb[v].flip => /\ c.vb[v].exec = m /\ v # c.pending /\ c.vb[v].exec <= now
                      /\ \A k \in Mscs : s.vbl[<<v, k>>] = 0
  <2>1. SUFFICES ASSUME c.vb[v].flip
                 PROVE  /\ c.vb[v].exec = m /\ v # c.pending
                        /\ \A k \in Mscs : s.vbl[<<v, k>>] = 0
    OBVIOUS
  <2>2. /\ v # c.pending
        /\ \A k \in Mscs : c.vbl[<<v, k>>] = (IF k = c.vb[v].exec THEN 1 ELSE 0)
    BY <1>4, <2>1 DEF Called
  <2>3. c.vb[v].exec = m /\ c.vbl[<<v, m>>] = 1
    BY <2>2
  <2>4. \A k \in Mscs : k # m => s.vbl[<<v, k>>] = 0
    BY <1>2, <2>2, <2>3
  <2>5. s.vbl[<<v, m>>] = 0
    BY <1>1, <2>3
  <2> QED BY <2>2, <2>3, <2>4, <2>5
<1> HIDE DEF e
<1>6. Sound(s, n, Unset)
  BY DEF Sound, SameQueues, SameFlip, SameUnflip
<1>7. Called(s, v, n, Unset)
  <2>1. c.vb[v].exec <= now => c.vb[v].exec <= msc
    <3>1. c.vb[v].exec \in Mscs
      BY OneVbType DEF Vblank
    <3> QED BY <3>1, BoundsAssumption DEF Mscs
  <2>2. v >= n => \A k \in Mscs : s.vbl[<<v, k>>] = 0
    BY <1>3, <1>4 DEF Called
  <2> QED BY <1>4, <1>5, <2>1, <2>2 DEF Called, SameQueues
<1>8. Timed(s, v, Unset)
  BY <1>3, <1>4 DEF Timed, Unfinished, Waited, SameQueues, SameFlip
<1>9. ASSUME NEW u \in Ids, u # v PROVE Called(s, u, n, Unset) /\ Timed(s, u, Unset)
  <2>1. \A k \in Mscs : s.vbl[<<u, k>>] = c.vbl[<<u, k>>]
    <3>1. \A k \in Mscs : <<u, k>> # e
      BY <1>9 DEF e
    <3> QED BY <1>2, <3>1
  <2>2. Called(c, u, n, Unset) /\ Timed(c, u, Unset)
    BY DEF Paced
  <2>3. s.vb = c.vb /\ s.pending = c.pending /\ s.done = c.done
    BY DEF SameQueues, SameFlip
  <2>4. Called(s, u, n, Unset)
    BY <2>1, <2>2, <2>3 DEF Called
  <2>5. Timed(s, u, Unset)
    BY <2>1, <2>2, <2>3 DEF Timed, Unfinished
  <2> QED BY <2>4, <2>5
<1>10. OnScreen(s)
  BY DEF Paced, OnScreen, SameQueues, SameFlip, SameUnflip
<1>11. Paced(s, n, Unset)
  BY <1>7, <1>8, <1>9, <1>10 DEF Paced
<1>12. s.vb[v].queued => Due(s, v, now)
  <2>1. SUFFICES ASSUME s.vb[v].queued PROVE Due(s, v, now)
    OBVIOUS
  <2>2. s.vb[v].target <= now + 1
    <3>1. c.vb[v].target <= m + 1
      <4>1. c.vbl[<<v, m>>] # 0
        BY <1>0 DEF e
      <4> QED BY <1>4, <2>1, <4>1 DEF Timed, Unfinished, SameQueues
    <3>2. c.vb[v].target \in Mscs
      BY OneVbType DEF Vblank
    <3>3. c.vb[v].target <= now + 1
      BY <3>1, <3>2, BoundsAssumption DEF Mscs
    <3> QED BY <3>3 DEF SameQueues
  <2> QED BY <1>5, <2>2 DEF Due, SameQueues
<1>13. CASE s.vb[v].queued
  <2>1. EventNotify(s, v, now, refuse) \in {s, Execute(s, v, now, refuse)}
    BY <1>13 DEF EventNotify
  <2>2. LET t == Execute(s, v, now, refuse) IN Paced(t, n, Unset) /\ Spares(s, t, v)
    BY <1>6, <1>11, <1>12, <1>13, ExecutePaced
  <2> QED BY <1>11, <2>1, <2>2 DEF Spares
<1>14. CASE ~s.vb[v].queued
  <2>1. v \notin s.execQ
    BY <1>10, <1>14 DEF OnScreen
  <2>2. ~Contains(s.flipQ, v)
    <3>1. SUFFICES ASSUME Contains(s.flipQ, v) PROVE FALSE
      OBVIOUS
    <3>2. v = c.pending /\ c.vb[v].flip
      BY <1>14, <3>1 DEF Sound, SameQueues, Ids, Unset
    <3> QED BY <1>5, <3>2
  <2>3. EventNotify(s, v, now, refuse) = s
    BY <2>1, <2>2 DEF EventNotify
  <2> QED BY <1>11, <2>3
<1> QED BY <1>13, <1>14

(* The driver has done the pending flip, which s no longer owes.             *)
LEMMA FlipEventPaced ==
  ASSUME NEW c \in State, NEW s \in State, NEW v \in Ids, NEW m \in Mscs,
         NEW now \in Mscs, NEW refuse, NEW n \in Nat,
         Sound(c, n, Unset), Paced(c, n, Unset), <<v, m>> \in c.hwFlip,
         SameQueues(c, s), SameFlip(c, s), SameUnflip(c, s), s.halted = c.halted,
         s.hwFlip = c.hwFlip \ {<<v, m>>}, s.done = c.done, s.vbl = c.vbl,
         m <= now, msc \in Mscs, "vblank" \notin refuse
  PROVE  LET t == EventNotify(s, v, now, refuse)
         IN  Paced(t, n, Unset) /\ t.flipOf = v
<1>1. OnScreen(c)
  BY DEF Paced
<1>2. c.pending # Unset
  BY <1>1 DEF OnScreen
<1>3. /\ Contains(c.flipQ, c.pending)
      /\ \E k \in Mscs : c.hwFlip = {<<c.pending, k>>} /\ c.vb[c.pending].target <= k
  BY <1>1, <1>2 DEF OnScreen
<1>4. PICK k \in Mscs : c.hwFlip = {<<c.pending, k>>} /\ c.vb[c.pending].target <= k
  BY <1>3
<1>5. c.pending = v /\ k = m /\ s.hwFlip = {}
  BY <1>4
<1>6. ~s.vb[v].queued
  BY <1>2, <1>5 DEF Sound, SameQueues
<1>7. v \notin s.execQ /\ Contains(s.flipQ, v)
  BY <1>1, <1>3, <1>5, <1>6 DEF OnScreen, SameQueues
<1>8. EventNotify(s, v, now, refuse) = FlipNotify(s, v, now, refuse)
  BY <1>6, <1>7 DEF EventNotify
<1>9. c.vb[v].target <= now
  <2>1. c.vb[v].target \in Mscs
    BY OneVbType DEF Vblank
  <2> QED BY <1>4, <1>5, <2>1, BoundsAssumption DEF Mscs
<1> QED BY <1>5, <1>8, <1>9, FlipNotifyPaced

-----------------------------------------------------------------------------
(* Windows that move or go, and new requests.                               *)

(* present_check_flip_window, the queued requests: some can no longer flip.  *)
Relaxed(b, c) ==
  /\ SameName(b, c) /\ c.pix = b.pix /\ c.sync = b.sync /\ c.queued = b.queued
  /\ c.ready = b.ready /\ c.cb = b.cb /\ c.abort = b.abort
  /\ c.flip => b.flip /\ c.exec = b.exec
  /\ ~c.flip => c.exec = b.exec \/ c.exec = b.target
  /\ b.flip /\ ~c.flip /\ b.sync => c.exec = b.target
  /\ ~b.queued => c = b

LEMMA LoseFlipFrame ==
  ASSUME NEW b \in Vblank, b.queued
  PROVE  Relaxed(b, b) /\ Relaxed(b, LoseFlip(b))
BY DEF LoseFlip, Vblank, Relaxed, SameName

LEMMA RecheckFrame ==
  ASSUME NEW s \in State, NEW w
  PROVE  LET t == RecheckQueued(s, w)
         IN  /\ t.execQ = s.execQ /\ t.flipQ = s.flipQ
             /\ SameFlip(s, t) /\ SameUnflip(s, t) /\ SameOwed(s, t) /\ SameClient(s, t)
             /\ t.winPix = s.winPix
             /\ \A v \in Ids : Relaxed(s.vb[v], t.vb[v])
<1> DEFINE f == [v \in Ids |->
                   IF s.vb[v].queued /\ s.vb[v].win = w /\ s.vb[v].flip
                      /\ ~CheckFlip(s, w, s.vb[v].pix)
                   THEN LoseFlip(s.vb[v]) ELSE s.vb[v]]
           t == [s EXCEPT !.vb = f]
<1>1. RecheckQueued(s, w) = t
  BY DEF RecheckQueued
<1>2. ASSUME NEW v \in Ids PROVE Relaxed(s.vb[v], f[v])
  <2>1. f[v] = s.vb[v] \/ (s.vb[v].queued /\ f[v] = LoseFlip(s.vb[v]))
    OBVIOUS
  <2>2. Relaxed(s.vb[v], s.vb[v])
    BY DEF Relaxed, SameName
  <2>3. s.vb[v].queued => Relaxed(s.vb[v], LoseFlip(s.vb[v]))
    BY OneVbType, LoseFlipFrame
  <2> HIDE DEF f
  <2> QED BY <2>1, <2>2, <2>3
<1> HIDE DEF f
<1>3. /\ t.vb = f /\ t.execQ = s.execQ /\ t.flipQ = s.flipQ
      /\ SameFlip(s, t) /\ SameUnflip(s, t) /\ SameOwed(s, t) /\ SameClient(s, t)
      /\ t.winPix = s.winPix
  BY DEF State, SameFlip, SameUnflip, SameOwed, SameClient
<1> HIDE DEF t
<1> QED BY <1>1, <1>2, <1>3

LEMMA RecheckPaced ==
  ASSUME NEW s \in State, NEW w, NEW n, Paced(s, n, Unset)
  PROVE  LET t == RecheckQueued(s, w)
         IN  Paced(t, n, Unset) /\ \A v : Spares(s, t, v)
<1> DEFINE t == RecheckQueued(s, w)
<1>1. /\ t.execQ = s.execQ /\ t.flipQ = s.flipQ
      /\ SameFlip(s, t) /\ SameUnflip(s, t) /\ SameOwed(s, t) /\ SameClient(s, t)
      /\ \A v \in Ids : Relaxed(s.vb[v], t.vb[v])
  BY RecheckFrame
<1> HIDE DEF t
<1>2. OnScreen(t)
  <2>1. OnScreen(s)
    BY DEF Paced
  <2>2. s.pending # Unset => t.vb[s.pending].target = s.vb[s.pending].target
    BY <1>1, FieldTypes DEF Relaxed, SameName
  <2>3. \A u \in Ids : /\ u \in t.execQ => t.vb[u].queued
                       /\ Contains(t.flipQ, u) /\ t.vb[u].queued => t.vb[u].ready
    BY <1>1, <2>1 DEF OnScreen, Relaxed
  <2> QED BY <1>1, <2>1, <2>2, <2>3 DEF OnScreen, SameFlip, SameUnflip, SameOwed
<1>3. ASSUME NEW v \in Ids PROVE Called(t, v, n, Unset) /\ Timed(t, v, Unset)
  <2>1. Called(s, v, n, Unset) /\ Timed(s, v, Unset) /\ Relaxed(s.vb[v], t.vb[v])
    BY <1>1 DEF Paced
  <2>2. Called(t, v, n, Unset)
    BY <1>1, <2>1 DEF Called, Waited, Relaxed, SameFlip, SameOwed
  <2>3. ExecutesAt(s.vb[v]) => ExecutesAt(t.vb[v])
    BY <2>1 DEF ExecutesAt, Relaxed, SameName
  <2>4. Timed(t, v, Unset)
    BY <1>1, <2>1, <2>3 DEF Timed, Unfinished, Waited, Relaxed, SameName, SameFlip, SameOwed, SameClient
  <2> QED BY <2>2, <2>4
<1>4. \A v : Spares(s, t, v)
  BY <1>1 DEF Spares, SameFlip, Relaxed
<1> QED BY <1>2, <1>3, <1>4 DEF Paced, t

LEMMA StopLostFlipPaced ==
  ASSUME NEW s \in State, NEW w, NEW n, Paced(s, n, Unset), ~s.unflip
  PROVE  LET t == StopLostFlip(s, w)
         IN  Kept(s, t) /\ Paced(t, n, Unset)
<1> DEFINE t == StopLostFlip(s, w)
<1>1. OnScreen(s)
  BY DEF Paced
<1>2. \/ t = s
      \/ s.pending # Unset /\ t = SetAbortFlip(s)
      \/ s.pending = Unset /\ t = Unflip(s)
  BY DEF StopLostFlip
<1> HIDE DEF t
<1>3. Kept(s, t) /\ t.hwUnflip = IF t.unflip THEN 1 ELSE 0
  <2>1. CASE t = s
    BY <1>1, <2>1 DEF Kept, Alike, SameName, SameShow, SameFlip, SameOwed, SameClient,
                      OnScreen
  <2>2. CASE s.pending # Unset /\ t = SetAbortFlip(s)
    BY <1>1, <2>2, SetAbortPaced DEF OnScreen, SameUnflip
  <2>3. CASE s.pending = Unset /\ t = Unflip(s)
    BY <1>1, <2>3, UnflipPaced DEF OnScreen
  <2> QED BY <1>2, <2>1, <2>2, <2>3
<1>4. Paced(t, n, Unset)
  BY <1>3, KeptPaced
<1> QED BY <1>3, <1>4 DEF t

(* present_check_flip_window. *)
LEMMA CheckFlipWindowPaced ==
  ASSUME NEW s \in State, NEW w \in Windows, NEW n, Paced(s, n, Unset)
  PROVE  LET t == CheckFlipWindow(s, w)
         IN  Paced(t, n, Unset) /\ t.flipOf = s.flipOf
<1>1. CASE s.unflip
  BY <1>1 DEF CheckFlipWindow
<1>2. CASE ~s.unflip
  <2> DEFINE r == StopLostFlip(s, w)
             t == RecheckQueued(r, w)
  <2>1. CheckFlipWindow(s, w) = t
    BY <1>2 DEF CheckFlipWindow
  <2>2. r \in State /\ Kept(s, r) /\ Paced(r, n, Unset)
    BY <1>2, StopLostFlipType, StopLostFlipPaced
  <2> HIDE DEF r
  <2>3. Paced(t, n, Unset) /\ \A v : Spares(r, t, v)
    BY <2>2, RecheckPaced
  <2> HIDE DEF t
  <2> QED BY <2>1, <2>2, <2>3 DEF Kept, SameFlip, Spares
<1> QED BY <1>1, <1>2

(* present_clear_window_flip. *)
LEMMA ClearWindowFlipPaced ==
  ASSUME NEW s \in State, NEW w \in Windows, NEW n, Paced(s, n, Unset)
  PROVE  LET t == ClearWindowFlip(s, w)
         IN  Paced(t, n, Unset) /\ t.flipOf = s.flipOf
<1> DEFINE a == SetAbortFlip(s)
           p == s.pending
           b == [a.vb[p] EXCEPT !.win = NoWin]
           c == [a EXCEPT !.vb[p] = b]
           t == IF s.pending # Unset /\ s.vb[s.pending].win = w
                THEN [SetAbortFlip(s) EXCEPT !.vb[s.pending].win = NoWin] ELSE s
           r == RestoreScreenPixmap(t)
           d == [r EXCEPT !.flipWin = NoWin]
<1>1. t \in State /\ Paced(t, n, Unset) /\ t.flipOf = s.flipOf
  <2>1. CASE s.pending # Unset /\ s.vb[s.pending].win = w
    <3>1. a \in State /\ Kept(s, a) /\ SameUnflip(s, a) /\ p \in Ids
      BY <2>1, SetAbortFlipType, SetAbortPaced, PendingType
    <3>2. t = c
      BY <2>1
    <3> HIDE DEF a, p, t
    <3>3. b \in Vblank /\ Alike(a.vb[p], b)
      <4>1. a.vb[p] \in Vblank
        BY <3>1, OneVbType
      <4> QED BY <4>1 DEF Vblank, Alike, SameShow
    <3> HIDE DEF b
    <3>4. /\ c \in State /\ c.execQ = a.execQ /\ c.flipQ = a.flipQ
          /\ SameFlip(a, c) /\ SameUnflip(a, c) /\ SameOwed(a, c) /\ SameClient(a, c)
          /\ c.vb[p] = b /\ \A u \in Ids \ {p} : c.vb[u] = a.vb[u]
      <4>1. c \in State
        BY <3>1, <3>3, SetOneVb
      <4> QED BY <3>1, <4>1, OneVbFrame
    <3> HIDE DEF c
    <3>5. Kept(a, c)
      <4>1. \A u \in Ids : Alike(a.vb[u], c.vb[u])
        BY <3>3, <3>4 DEF Alike, SameShow
      <4> QED BY <3>4, <4>1 DEF Kept
    <3>6. /\ s.hwUnflip = (IF s.unflip THEN 1 ELSE 0)
          /\ a.hwUnflip = (IF a.unflip THEN 1 ELSE 0)
          /\ c.hwUnflip = (IF c.unflip THEN 1 ELSE 0)
      BY <3>1, <3>4 DEF Paced, OnScreen, SameUnflip
    <3>7. Paced(a, n, Unset)
      BY <3>1, <3>6, KeptPaced
    <3>8. Paced(c, n, Unset)
      BY <3>1, <3>5, <3>6, <3>7, KeptPaced
    <3> QED BY <3>1, <3>2, <3>4, <3>5, <3>8 DEF Kept, SameFlip
  <2>2. CASE ~(s.pending # Unset /\ s.vb[s.pending].win = w)
    BY <2>2
  <2> QED BY <2>1, <2>2
<1>2. ClearWindowFlip(s, w) = IF t.flipWin = w THEN d ELSE t
  BY DEF ClearWindowFlip
<1> HIDE DEF t
<1>3. CASE t.flipWin = w
  <2>1. r \in State /\ SameState(t, r)
    BY <1>1, RestoreScreenPixmapType, RestoreFrame
  <2> HIDE DEF r
  <2>2. Paced(r, n, Unset) /\ r.flipOf = t.flipOf
    BY <1>1, <2>1, PacedSame DEF SameState, SameFlip, SameClient
  <2>3. /\ SameQueues(r, d) /\ d.pending = r.pending /\ d.flipOf = r.flipOf
        /\ d.flipPix = r.flipPix /\ SameUnflip(r, d) /\ SameOwed(r, d)
        /\ d.done = r.done
    BY <2>1 DEF State, SameQueues, SameUnflip, SameOwed
  <2> HIDE DEF d
  <2>4. Paced(d, n, Unset)
    <3>1. OnScreen(d)
      BY <2>2, <2>3 DEF Paced, OnScreen, SameQueues, SameUnflip, SameOwed
    <3>2. \A v \in Ids : Called(d, v, n, Unset) /\ Timed(d, v, Unset)
      <4>1. TAKE v \in Ids
      <4>2. Called(r, v, n, Unset) /\ Timed(r, v, Unset)
        BY <2>2 DEF Paced
      <4> QED BY <2>3, <4>2 DEF Called, Timed, Unfinished, SameQueues, SameOwed
    <3> QED BY <3>1, <3>2 DEF Paced
  <2> QED BY <1>1, <1>2, <1>3, <2>2, <2>3, <2>4
<1> QED BY <1>1, <1>2, <1>3

(* Replaced requests lose their buffer. *)
LEMMA ScrapFrame ==
  ASSUME NEW s \in State, NEW old \in SUBSET Ids
  PROVE  LET t == Scrap(s, old)
         IN  /\ t.execQ = s.execQ /\ t.flipQ = s.flipQ
             /\ SameFlip(s, t) /\ SameUnflip(s, t) /\ SameOwed(s, t) /\ t.done = s.done
             /\ t.winPix = s.winPix
             /\ \A v \in Ids \ old : t.vb[v] = s.vb[v] /\ t.idle[v] = s.idle[v]
             /\ \A v \in old : /\ SameName(s.vb[v], t.vb[v]) /\ t.vb[v].pix = NoPix
                               /\ ~t.vb[v].flip /\ t.vb[v].exec = s.vb[v].exec
                               /\ t.vb[v].sync = s.vb[v].sync
                               /\ t.vb[v].queued = s.vb[v].queued
                               /\ t.vb[v].ready = s.vb[v].ready
                               /\ t.vb[v].cb = s.vb[v].cb
                               /\ t.vb[v].abort = s.vb[v].abort
                               /\ t.idle[v] = s.idle[v] + 1
<1> DEFINE i == [v \in Ids |-> IF v \in old THEN s.idle[v] + 1 ELSE s.idle[v]]
           f == [p \in Pixmaps |->
                   s.refs[p] - Cardinality({v \in old : s.vb[v].pix = p})]
           g == [v \in Ids |-> IF v \in old
                   THEN [s.vb[v] EXCEPT !.pix = NoPix, !.flip = FALSE] ELSE s.vb[v]]
           t == [s EXCEPT !.idle = i, !.refs = f, !.vb = g]
<1>1. Scrap(s, old) = t
  BY DEF Scrap
<1>2. \A v \in Ids \ old : g[v] = s.vb[v] /\ i[v] = s.idle[v]
  OBVIOUS
<1>3. ASSUME NEW v \in old
      PROVE  /\ SameName(s.vb[v], g[v]) /\ g[v].pix = NoPix
             /\ ~g[v].flip /\ g[v].exec = s.vb[v].exec /\ g[v].sync = s.vb[v].sync
             /\ g[v].queued = s.vb[v].queued /\ g[v].ready = s.vb[v].ready
             /\ g[v].cb = s.vb[v].cb /\ g[v].abort = s.vb[v].abort
             /\ i[v] = s.idle[v] + 1
  <2> DEFINE b == [s.vb[v] EXCEPT !.pix = NoPix, !.flip = FALSE]
  <2>1. s.vb[v] \in Vblank
    BY OneVbType
  <2>2. g[v] = b /\ i[v] = s.idle[v] + 1
    OBVIOUS
  <2>3. /\ SameName(s.vb[v], b) /\ b.pix = NoPix
        /\ ~b.flip /\ b.exec = s.vb[v].exec /\ b.sync = s.vb[v].sync
        /\ b.queued = s.vb[v].queued /\ b.ready = s.vb[v].ready
        /\ b.cb = s.vb[v].cb /\ b.abort = s.vb[v].abort
    BY <2>1 DEF Vblank, SameName
  <2> HIDE DEF b, g, i
  <2> QED BY <2>2, <2>3
<1> HIDE DEF i, f, g
<1>4. /\ t.vb = g /\ t.idle = i /\ t.execQ = s.execQ /\ t.flipQ = s.flipQ
      /\ SameFlip(s, t) /\ SameUnflip(s, t) /\ SameOwed(s, t) /\ t.done = s.done
      /\ t.winPix = s.winPix
  BY DEF State, SameFlip, SameUnflip, SameOwed
<1> HIDE DEF t
<1> QED BY <1>1, <1>2, <1>3, <1>4

LEMMA ScrapPaced ==
  ASSUME NEW s \in State, NEW old \in SUBSET Ids, NEW n, Paced(s, n, Unset),
         \A v \in old : s.vb[v].queued /\ s.vb[v].pix # NoPix
  PROVE  Paced(Scrap(s, old), n, Unset)
<1> DEFINE t == Scrap(s, old)
<1>1. /\ t.execQ = s.execQ /\ t.flipQ = s.flipQ
      /\ SameFlip(s, t) /\ SameUnflip(s, t) /\ SameOwed(s, t) /\ t.done = s.done
      /\ \A v \in Ids \ old : t.vb[v] = s.vb[v]
      /\ \A v \in old : /\ SameName(s.vb[v], t.vb[v]) /\ t.vb[v].pix = NoPix
                        /\ ~t.vb[v].flip /\ t.vb[v].exec = s.vb[v].exec
                        /\ t.vb[v].sync = s.vb[v].sync
                        /\ t.vb[v].queued = s.vb[v].queued
                        /\ t.vb[v].ready = s.vb[v].ready
                        /\ t.vb[v].cb = s.vb[v].cb
  BY ScrapFrame
<1> HIDE DEF t
<1>2. OnScreen(t)
  <2>1. OnScreen(s)
    BY DEF Paced
  <2>2. s.pending # Unset => t.vb[s.pending].target = s.vb[s.pending].target
    BY <1>1, FieldTypes DEF SameName
  <2>3. \A u \in Ids : /\ u \in t.execQ => t.vb[u].queued
                       /\ Contains(t.flipQ, u) /\ t.vb[u].queued => t.vb[u].ready
    BY <1>1, <2>1 DEF OnScreen
  <2> QED BY <1>1, <2>1, <2>2, <2>3 DEF OnScreen, SameFlip, SameUnflip, SameOwed
<1>3. ASSUME NEW v \in Ids PROVE Called(t, v, n, Unset) /\ Timed(t, v, Unset)
  <2>1. Called(s, v, n, Unset) /\ Timed(s, v, Unset)
    BY DEF Paced
  <2>2. CASE v \in old
    <3>1. Called(t, v, n, Unset)
      BY <1>1, <2>1, <2>2 DEF Called, SameOwed
    <3>2. ExecutesAt(s.vb[v]) => ExecutesAt(t.vb[v])
      BY <1>1, <2>2 DEF ExecutesAt, SameName
    <3> QED BY <1>1, <2>1, <2>2, <3>1, <3>2
            DEF Timed, Unfinished, Waited, SameName, SameFlip, SameOwed
  <2>3. CASE v \notin old
    BY <1>1, <2>1, <2>3 DEF Called, Timed, Unfinished, SameFlip, SameOwed
  <2> QED BY <2>2, <2>3
<1> QED BY <1>2, <1>3 DEF Paced, t

(* What present_vblank_create writes of a request. *)
Created(b, w, p, opt, target) ==
  /\ b.win = w /\ b.pix = p /\ b.target = target /\ b.update = opt.update
  /\ b.kind = (IF p = NoPix THEN "msc" ELSE "pixmap")
  /\ b.exec = (IF b.sync THEN target - 1 ELSE target)
  /\ b.sync => p # NoPix /\ target > msc /\ b.flip
  /\ b.queued /\ ~b.ready /\ ~b.cb /\ ~b.abort

(* A new request is queued on present_exec_queue. *)
LEMMA VblankCreateFrame ==
  ASSUME NEW s \in State, NEW v \in Ids, NEW w \in Windows, NEW p \in Pixmaps \cup {NoPix},
         NEW opt \in OptionRecord, NEW f \in Fences \cup {NoFence}, NEW target \in Mscs,
         msc \in Mscs, NEW t, t = VblankCreate(s, v, w, p, opt, f, target)
  PROVE  /\ t.execQ = s.execQ \cup {v} /\ t.flipQ = s.flipQ
         /\ SameFlip(s, t) /\ SameUnflip(s, t) /\ SameOwed(s, t) /\ SameClient(s, t)
         /\ t.winPix = s.winPix
         /\ Created(t.vb[v], w, p, opt, target)
         /\ \A u \in Ids \ {v} : t.vb[u] = s.vb[u]
<1> DEFINE able == p # NoPix /\ ~opt.copy /\ CheckFlip(s, w, p)
           sync == able /\ target > msc
           flip == able /\ (sync \/ AsyncCap)
           kind == IF p = NoPix THEN "msc" ELSE "pixmap"
           exec == ExecMsc(sync, target)
           b == [win |-> w, pix |-> p, kind |-> kind, target |-> target, exec |-> exec,
                 update |-> opt.update, flip |-> flip, sync |-> sync,
                 ready |-> FALSE, queued |-> TRUE, abort |-> FALSE,
                 wait |-> f, cb |-> FALSE]
           h == HoldPixmap(s, p)
           e == h.execQ \cup {v}
           g == [h EXCEPT !.execQ = e]
           d == [g EXCEPT !.vb[v] = b]
<1>1. h \in State /\ SameState(s, h) /\ h.winPix = s.winPix
  BY HoldPixmapType, PixmapFrame
<1>2. t = d
  <2>1. VblankCreate(s, v, w, p, opt, f, target) = [h EXCEPT !.vb[v] = b, !.execQ = e]
    BY DEF VblankCreate
  <2> HIDE DEF b, e, h
  <2> QED BY <1>1, <2>1 DEF State
<1>3. /\ b.win = w /\ b.pix = p /\ b.target = target /\ b.kind = kind
      /\ b.update = opt.update /\ b.exec = exec
      /\ b.sync = sync /\ b.flip = flip
      /\ b.queued = TRUE /\ b.ready = FALSE /\ b.cb = FALSE /\ b.abort = FALSE
  OBVIOUS
<1>4. sync => p # NoPix /\ target > msc /\ flip
  OBVIOUS
<1> HIDE DEF b, h, sync, flip, exec
<1>5. e \in SUBSET Ids
  BY <1>1, FieldTypes
<1> HIDE DEF e
<1>6. g \in State
  BY <1>1, <1>5 DEF State
<1>7. /\ g.vb = h.vb /\ g.execQ = e /\ g.flipQ = h.flipQ
      /\ SameFlip(h, g) /\ SameUnflip(h, g) /\ SameOwed(h, g) /\ SameClient(h, g)
      /\ g.winPix = h.winPix
  BY <1>1 DEF State, SameFlip, SameUnflip, SameOwed, SameClient
<1> HIDE DEF g
<1>8. /\ d.execQ = g.execQ /\ d.flipQ = g.flipQ
      /\ SameFlip(g, d) /\ SameUnflip(g, d) /\ SameOwed(g, d) /\ SameClient(g, d)
      /\ d.winPix = g.winPix
      /\ d.vb[v] = b /\ \A u \in Ids \ {v} : d.vb[u] = g.vb[u]
  BY <1>6, OneVbFrame
<1> HIDE DEF d
<1>9. /\ d.execQ = s.execQ \cup {v} /\ d.flipQ = s.flipQ
      /\ SameFlip(s, d) /\ SameUnflip(s, d) /\ SameOwed(s, d) /\ SameClient(s, d)
      /\ d.winPix = s.winPix
      /\ \A u \in Ids \ {v} : d.vb[u] = s.vb[u]
  BY <1>1, <1>7, <1>8
     DEF SameState, SameQueues, SameFlip, SameUnflip, SameOwed, SameClient, e
<1>10. d.vb[v] = b
  BY <1>8
<1> HIDE DEF kind
<1>11. b.sync => p # NoPix /\ target > msc /\ b.flip
  BY <1>3, <1>4
<1>12. b.exec = IF b.sync THEN target - 1 ELSE target
  BY <1>3 DEF exec, ExecMsc
<1> HIDE DEF exec
<1>13. Created(b, w, p, opt, target)
  BY <1>3, <1>11, <1>12 DEF Created, kind
<1> QED BY <1>2, <1>9, <1>10, <1>13

(* A new request: at most its own vblank is still to be asked for. *)
LEMMA VblankCreatePaced ==
  ASSUME NEW s \in State, NEW v \in Ids, NEW w \in Windows, NEW p \in Pixmaps \cup {NoPix},
         NEW opt \in OptionRecord, NEW f \in Fences \cup {NoFence}, NEW target \in Mscs,
         msc \in Mscs, Sound(s, v, Unset), Paced(s, v, Unset)
  PROVE  LET t == VblankCreate(s, v, w, p, opt, f, target)
         IN  /\ OnScreen(t) /\ Spares(s, t, v)
             /\ \A u \in Ids \ {v} : Called(t, u, v + 1, Unset) /\ Timed(t, u, Unset)
             /\ v # t.pending /\ t.vb[v].queued /\ ~Waited(t.vb[v])
             /\ ExecutesAt(t.vb[v]) /\ t.vb[v].exec \in Mscs /\ t.vb[v].target = target
             /\ target <= t.vb[v].exec + 1
             /\ \A m \in Mscs : t.vbl[<<v, m>>] = 0
             /\ ~(t.done[v].mode \in {"copy", "flip"} /\ t.done[v].early)
<1> DEFINE t == VblankCreate(s, v, w, p, opt, f, target)
<1>0. t = VblankCreate(s, v, w, p, opt, f, target) /\ t \in State
  BY VblankCreateType
<1> HIDE DEF t
<1>1. /\ t.execQ = s.execQ \cup {v} /\ t.flipQ = s.flipQ
      /\ SameFlip(s, t) /\ SameUnflip(s, t) /\ SameOwed(s, t) /\ SameClient(s, t)
      /\ Created(t.vb[v], w, p, opt, target)
      /\ \A u \in Ids \ {v} : t.vb[u] = s.vb[u]
  BY <1>0, VblankCreateFrame
<1>2. /\ t.vb[v].queued /\ ~t.vb[v].ready /\ ~t.vb[v].cb
      /\ t.vb[v].target = target
  BY <1>1 DEF Created
<1>3. t.vb[v].exec \in Mscs /\ t.vb[v].sync \in BOOLEAN
  BY <1>0, OneVbType DEF Vblank
<1>4. target \in Nat /\ v \in Nat /\ v # Unset
  BY DEF Mscs, Ids, Unset
<1>5. OnScreen(s) /\ Called(s, v, v, Unset) /\ Timed(s, v, Unset)
  BY DEF Paced
<1>6. ~s.vb[v].queued /\ \A m \in Mscs : s.vbl[<<v, m>>] = 0
  <2>1. v >= v
    BY <1>4
  <2> QED BY <1>5, <2>1 DEF Called
<1>7. v # s.pending
  <2>1. ~(v < v)
    BY <1>4
  <2> QED BY <1>4, <2>1 DEF Sound
<1>8. ~Contains(s.flipQ, v)
  BY <1>6, <1>7 DEF Sound
<1>9. OnScreen(t)
  <2>1. s.pending # Unset => s.pending \in Ids \ {v}
    BY <1>7, FieldTypes
  <2>2. s.pending # Unset => t.vb[s.pending] = s.vb[s.pending]
    BY <1>1, <2>1
  <2>3. ASSUME NEW u \in Ids
        PROVE  /\ u \in t.execQ => t.vb[u].queued
               /\ Contains(t.flipQ, u) /\ t.vb[u].queued => t.vb[u].ready
    <3>1. CASE u = v
      BY <1>1, <1>2, <1>8, <3>1
    <3>2. CASE u # v
      BY <1>1, <1>5, <3>2 DEF OnScreen
    <3> QED BY <3>1, <3>2
  <2> QED BY <1>1, <1>5, <2>2, <2>3 DEF OnScreen, SameFlip, SameUnflip, SameOwed
<1>10. ASSUME NEW u \in Ids \ {v} PROVE Called(t, u, v + 1, Unset) /\ Timed(t, u, Unset)
  <2>1. Called(s, u, v, Unset) /\ Timed(s, u, Unset) /\ t.vb[u] = s.vb[u]
    BY <1>1 DEF Paced
  <2>2. u >= v + 1 => u >= v
    BY <1>4 DEF Ids
  <2>3. Called(t, u, v + 1, Unset)
    BY <1>1, <2>1, <2>2 DEF Called, SameFlip, SameOwed
  <2>4. Timed(t, u, Unset)
    BY <1>1, <2>1 DEF Timed, Unfinished, SameFlip, SameOwed, SameClient
  <2> QED BY <2>3, <2>4
<1>11. ExecutesAt(t.vb[v]) /\ target <= t.vb[v].exec + 1
  <2>1. t.vb[v].exec = target \/ (t.vb[v].exec = target - 1 /\ t.vb[v].sync)
    BY <1>1 DEF Created
  <2>2. target <= t.vb[v].exec + 1
    BY <1>3, <1>4, <2>1 DEF Mscs
  <2>3. t.vb[v].sync => t.vb[v].kind = "pixmap" /\ t.vb[v].flip
    BY <1>1 DEF Created
  <2> QED BY <1>2, <2>1, <2>2, <2>3 DEF ExecutesAt
<1>12. Spares(s, t, v)
  BY <1>1, SparesSame
<1>13. \A m \in Mscs : t.vbl[<<v, m>>] = 0
  BY <1>1, <1>6 DEF SameOwed
<1>14. ~(t.done[v].mode \in {"copy", "flip"} /\ t.done[v].early)
  BY <1>1, <1>5 DEF Timed, SameClient
<1>15. v # t.pending
  BY <1>1, <1>7 DEF SameFlip
<1> QED BY <1>1, <1>2, <1>3, <1>9, <1>10, <1>11, <1>12, <1>13, <1>14, <1>15 DEF Waited, t

(* present_scmd_pixmap, whole: the vblank is asked for, or it is time. *)
LEMMA SubmittedPaced ==
  ASSUME NEW s \in State, NEW v \in Ids, NEW w \in Windows, NEW p \in Pixmaps \cup {NoPix},
         NEW opt \in OptionRecord, NEW f \in Fences \cup {NoFence}, NEW target \in Mscs,
         NEW refuse, msc \in Mscs, Sound(s, v, Unset), Paced(s, v, Unset),
         "vblank" \notin refuse
  PROVE  LET t == Submitted(s, v, w, p, opt, f, target, refuse)
         IN  Paced(t, v + 1, Unset) /\ Spares(s, t, v)
<1> DEFINE old == IF p = NoPix \/ opt.update THEN {} ELSE Superseded(s, w, target)
           c == Scrap(s, old)
           t == VblankCreate(c, v, w, p, opt, f, target)
           q == QueueVblank(t, v)
           x == Execute(t, v, msc, refuse)
<1>1. old \in SUBSET Ids /\ \A u \in old : s.vb[u].queued /\ s.vb[u].pix # NoPix
  BY DEF Superseded
<1>2. Submitted(s, v, w, p, opt, f, target, refuse) =
        IF t.vb[v].exec > msc THEN q ELSE x
  BY DEF Submitted
<1> HIDE DEF old
<1>3. c \in State /\ Sound(c, v, Unset) /\ Paced(c, v, Unset)
  BY <1>1, ScrapType, ScrapSound, ScrapPaced
<1>4. Spares(s, c, v)
  <2>1. /\ SameFlip(s, c)
        /\ \A u \in Ids \ old : c.vb[u] = s.vb[u]
        /\ \A u \in old : /\ c.vb[u].queued = s.vb[u].queued
                          /\ c.vb[u].ready = s.vb[u].ready /\ c.vb[u].cb = s.vb[u].cb
    BY <1>1, ScrapFrame
  <2> HIDE DEF c
  <2>2. \A u \in Ids : /\ c.vb[u].queued = s.vb[u].queued
                       /\ c.vb[u].ready = s.vb[u].ready /\ c.vb[u].cb = s.vb[u].cb
    BY <2>1
  <2> QED BY <2>1, <2>2 DEF Spares, SameFlip
<1> HIDE DEF c
<1>5. t \in State /\ Sound(t, v + 1, Unset)
  BY <1>3, VblankCreateType, VblankCreateSound
<1>6. /\ OnScreen(t) /\ Spares(c, t, v)
      /\ \A u \in Ids \ {v} : Called(t, u, v + 1, Unset) /\ Timed(t, u, Unset)
      /\ v # t.pending /\ t.vb[v].queued /\ ~Waited(t.vb[v])
      /\ ExecutesAt(t.vb[v]) /\ t.vb[v].exec \in Mscs /\ t.vb[v].target = target
      /\ target <= t.vb[v].exec + 1
      /\ \A m \in Mscs : t.vbl[<<v, m>>] = 0
      /\ ~(t.done[v].mode \in {"copy", "flip"} /\ t.done[v].early)
  BY <1>3, VblankCreatePaced
<1> HIDE DEF t
<1>7. v \in Nat /\ v # Unset /\ ~(v >= v + 1) /\ msc \in Nat /\ target \in Nat
      /\ t.vb[v].exec \in Nat
  BY <1>6 DEF Ids, Unset, Mscs
<1>8. Timed(t, v, Unset)
  BY <1>6 DEF Timed
<1>9. CASE t.vb[v].exec > msc
  <2> DEFINE e == <<v, t.vb[v].exec>>
  <2>1. /\ SameQueues(t, q) /\ SameFlip(t, q) /\ SameUnflip(t, q) /\ SameClient(t, q)
        /\ q.hwFlip = t.hwFlip
        /\ e \in Events /\ q.vbl[e] = t.vbl[e] + 1
        /\ \A y \in Events \ {e} : q.vbl[y] = t.vbl[y]
    BY <1>5, QueueVblankFrame
  <2> HIDE DEF q
  <2>2. OnScreen(q)
    BY <1>6, <2>1 DEF OnScreen, SameQueues, SameFlip, SameUnflip
  <2>3. \A m \in Mscs : q.vbl[<<v, m>>] = IF m = t.vb[v].exec THEN 1 ELSE 0
    <3>1. \A m \in Mscs : m # t.vb[v].exec => <<v, m>> \in Events \ {e}
      BY DEF Events
    <3>2. q.vbl[e] = 1
      BY <1>6, <2>1
    <3> QED BY <1>6, <2>1, <3>1, <3>2
  <2>4. ASSUME NEW u \in Ids \ {v} PROVE Called(q, u, v + 1, Unset) /\ Timed(q, u, Unset)
    <3>1. \A m \in Mscs : q.vbl[<<u, m>>] = t.vbl[<<u, m>>]
      <4>1. \A m \in Mscs : <<u, m>> \in Events \ {e}
        BY DEF Events
      <4> HIDE DEF e
      <4> QED BY <2>1, <4>1
    <3>2. Called(t, u, v + 1, Unset) /\ Timed(t, u, Unset)
      BY <1>6
    <3>3. q.vb = t.vb /\ q.pending = t.pending /\ q.done = t.done
      BY <2>1 DEF SameQueues, SameFlip, SameClient
    <3>4. Called(q, u, v + 1, Unset)
      BY <3>1, <3>2, <3>3 DEF Called
    <3>5. Timed(q, u, Unset)
      BY <3>1, <3>2, <3>3 DEF Timed, Unfinished
    <3> QED BY <3>4, <3>5
  <2>5. q.vb = t.vb /\ q.pending = t.pending /\ q.done = t.done
    BY <2>1 DEF SameQueues, SameFlip, SameClient
  <2>6. Called(q, v, v + 1, Unset)
    BY <1>6, <1>7, <2>3, <2>5 DEF Called
  <2>7. Timed(q, v, Unset)
    <3>1. \A m \in Mscs : q.vbl[<<v, m>>] # 0 => q.vb[v].target <= m + 1
      BY <1>6, <2>3, <2>5
    <3> QED BY <1>8, <2>5, <3>1 DEF Timed, Unfinished
  <2>8. Paced(q, v + 1, Unset)
    BY <2>2, <2>4, <2>6, <2>7 DEF Paced
  <2>9. Spares(t, q, v)
    BY <2>1, <2>5, SparesSame
  <2> QED BY <1>2, <1>4, <1>6, <1>9, <2>8, <2>9, SparesTwice
<1>10. CASE ~(t.vb[v].exec > msc)
  <2>1. t.vb[v].exec <= msc /\ target <= msc + 1
    BY <1>6, <1>7, <1>10
  <2>2. Called(t, v, v + 1, Unset)
    BY <1>6, <1>7, <2>1 DEF Called
  <2>3. Paced(t, v + 1, Unset)
    BY <1>6, <1>8, <2>2 DEF Paced
  <2>4. Due(t, v, msc)
    BY <1>6, <2>1 DEF Due
  <2>5. v + 1 \in Nat /\ msc <= msc
    BY <1>7
  <2>6. Paced(x, v + 1, Unset) /\ Spares(t, x, v)
    BY <1>5, <1>6, <2>3, <2>4, <2>5, ExecutePaced
  <2> HIDE DEF x
  <2> QED BY <1>2, <1>4, <1>6, <1>10, <2>6, SparesTwice
<1> QED BY <1>9, <1>10

(* abort_vblank forgets what was owed, and the request goes with it. *)
LEMMA DroppedPaced ==
  ASSUME NEW c \in State, NEW s \in State, NEW v \in Ids, NEW n \in Nat,
         Paced(c, n, Unset), IsInjective(c.flipQ), v # c.pending, c.vb[v].queued,
         SameQueues(c, s), SameFlip(c, s), SameUnflip(c, s), s.hwFlip = c.hwFlip,
         s.done = c.done,
         \A u \in Ids \ {v} : \A m \in Mscs : s.vbl[<<u, m>>] = c.vbl[<<u, m>>]
  PROVE  Paced(VblankDestroy(s, v), n, Unset)
<1> DEFINE d == VblankDestroy(c, v)
           t == VblankDestroy(s, v)
<1>1. Paced(d, n, Unset)
  BY VblankDestroyPaced
<1>2. /\ d.execQ = c.execQ \ {v} /\ d.flipQ = RemoveFirst(c.flipQ, v)
      /\ SameFlip(c, d) /\ SameUnflip(c, d) /\ SameOwed(c, d) /\ SameClient(c, d)
      /\ \A u \in Ids \ {v} : d.vb[u] = c.vb[u]
  BY VblankDestroyFrame
<1>3. /\ t.execQ = s.execQ \ {v} /\ t.flipQ = RemoveFirst(s.flipQ, v)
      /\ SameFlip(s, t) /\ SameUnflip(s, t) /\ SameOwed(s, t) /\ SameClient(s, t)
      /\ ~t.vb[v].flip /\ ~t.vb[v].queued /\ ~t.vb[v].ready /\ ~t.vb[v].cb
      /\ \A u \in Ids \ {v} : t.vb[u] = s.vb[u]
  BY VblankDestroyFrame
<1> HIDE DEF d, t
<1>4. /\ t.execQ = d.execQ /\ t.flipQ = d.flipQ /\ SameFlip(d, t) /\ SameUnflip(d, t)
      /\ t.hwFlip = d.hwFlip /\ t.done = d.done /\ t.pending = c.pending
      /\ \A u \in Ids \ {v} : t.vb[u] = d.vb[u]
  BY <1>2, <1>3 DEF SameQueues, SameFlip, SameUnflip, SameOwed, SameClient
<1>5. \A u \in Ids \ {v} : \A m \in Mscs : t.vbl[<<u, m>>] = d.vbl[<<u, m>>]
  <2>1. t.vbl = s.vbl /\ d.vbl = c.vbl
    BY <1>2, <1>3 DEF SameOwed
  <2> QED BY <2>1
<1>6. OnScreen(t)
  <2>1. OnScreen(d) /\ d.pending = t.pending
    BY <1>1, <1>4 DEF Paced, SameFlip
  <2>2. t.pending # Unset => t.vb[t.pending] = d.vb[t.pending]
    <3>1. t.pending # Unset => t.pending \in Ids \ {v}
      BY <1>4, FieldTypes
    <3> QED BY <1>4, <3>1
  <2>3. ASSUME NEW u \in Ids
        PROVE  /\ u \in t.execQ => t.vb[u].queued
               /\ Contains(t.flipQ, u) /\ t.vb[u].queued => t.vb[u].ready
    <3>1. CASE u = v
      BY <1>3, <3>1
    <3>2. CASE u # v
      BY <1>4, <2>1, <3>2 DEF OnScreen
    <3> QED BY <3>1, <3>2
  <2> QED BY <1>4, <2>1, <2>2, <2>3 DEF OnScreen, SameFlip, SameUnflip
<1>7. ASSUME NEW u \in Ids \ {v} PROVE Called(t, u, n, Unset) /\ Timed(t, u, Unset)
  <2>1. Called(d, u, n, Unset) /\ Timed(d, u, Unset) /\ t.vb[u] = d.vb[u]
    BY <1>1, <1>4 DEF Paced
  <2>2. Called(t, u, n, Unset)
    BY <1>4, <1>5, <2>1 DEF Called, SameFlip
  <2>3. Timed(t, u, Unset)
    BY <1>4, <1>5, <2>1 DEF Timed, Unfinished, SameFlip
  <2> QED BY <2>2, <2>3
<1>8. Called(c, v, n, Unset) /\ Timed(c, v, Unset)
  BY DEF Paced
<1>9. Called(t, v, n, Unset)
  BY <1>3, <1>8 DEF Called
<1>10. Timed(t, v, Unset)
  <2>1. v # t.pending /\ v # Unset
    BY <1>4 DEF Ids, Unset
  <2>2. t.done[v] = c.done[v]
    BY <1>2, <1>4 DEF SameClient
  <2> QED BY <1>3, <1>8, <2>1, <2>2 DEF Timed, Unfinished, Waited
<1> QED BY <1>6, <1>7, <1>9, <1>10 DEF Paced, t

-----------------------------------------------------------------------------
(* Actions.                                                                 *)

(* Between actions no request is in hand, ids from nextId on are new, and a  *)
(* running loop's requests are waiting.  The hardware shows the flip that    *)
(* the server took over, until the screen is closed.                         *)
PacedInv ==
  /\ Paced(Cur, nextId, Unset) /\ Looped(Cur, todo)
  /\ halted # "closed" => scanout = flipOf
  /\ dying # NoWin => todo = {}

(* What an action becomes. *)
LEMMA BecomeFields ==
  ASSUME NEW s \in State, Become(s)
  PROVE  /\ Cur'.vb = s.vb /\ Cur'.execQ = s.execQ /\ Cur'.flipQ = s.flipQ
         /\ Cur'.pending = s.pending /\ Cur'.unflip = s.unflip
         /\ Cur'.flipOf = s.flipOf /\ Cur'.flipWin = s.flipWin
         /\ Cur'.flipPix = s.flipPix /\ Cur'.winPix = s.winPix
         /\ Cur'.vbl = s.vbl /\ Cur'.hwFlip = s.hwFlip /\ Cur'.hwUnflip = s.hwUnflip
         /\ Cur'.idle = s.idle /\ Cur'.done = s.done /\ Cur'.halted = s.halted
         /\ flipOf' = s.flipOf /\ halted' = s.halted
BY DEF Become, Cur

(* An action that becomes a paced state. *)
LEMMA BecomePaced ==
  ASSUME NEW s \in State, Become(s), msc' = msc,
         Paced(s, nextId', Unset), Looped(s, todo'),
         s.halted # "closed" => scanout' = s.flipOf,
         dying' # NoWin => todo' = {}
  PROVE  PacedInv'
<1> DEFINE t == Cur'
<1>1. SameQueues(s, t) /\ SameFlip(s, t) /\ SameUnflip(s, t) /\ SameOwed(s, t)
      /\ t.done = s.done /\ t.pending = s.pending /\ t.vb = s.vb
      /\ flipOf' = s.flipOf /\ halted' = s.halted
  BY BecomeFields DEF SameQueues, SameFlip, SameUnflip, SameOwed
<1> HIDE DEF t
<1>2. Paced(t, nextId', Unset) /\ Looped(t, todo')
  BY <1>1, PacedSame DEF Looped
<1>3. OnScreen(Cur)'
  BY <1>2 DEF t, Paced, OnScreen
<1>4. ASSUME NEW v \in Ids PROVE Called(Cur, v, nextId, Unset)' /\ Timed(Cur, v, Unset)'
  <2>1. Called(t, v, nextId', Unset) /\ Timed(t, v, Unset)
    BY <1>2 DEF Paced
  <2> QED BY <2>1 DEF Called, Timed, t
<1>5. Paced(Cur, nextId, Unset)'
  BY <1>3, <1>4 DEF Paced
<1>6. Looped(Cur, todo)'
  BY <1>2 DEF Looped, t
<1> QED BY <1>1, <1>5, <1>6 DEF PacedInv

(* The initial states are paced. *)
LEMMA PacedInit == Init => PacedInv
<1> SUFFICES ASSUME Init PROVE PacedInv
  OBVIOUS
<1>1. /\ Cur.vb = vb /\ Cur.execQ = {} /\ Cur.flipQ = <<>> /\ Cur.pending = Unset
      /\ Cur.unflip = FALSE /\ Cur.flipOf = Unset /\ Cur.flipPix = NoPix
      /\ Cur.hwFlip = {} /\ Cur.hwUnflip = 0 /\ Cur.vbl = vbl /\ Cur.done = done
  BY DEF Init, Cur
<1>2. \A v \in Ids : /\ ~vb[v].queued /\ ~vb[v].flip /\ ~vb[v].cb /\ ~vb[v].ready
                     /\ done[v].mode = "none"
  BY DEF Init, Fresh
<1>3. \A v \in Ids : \A m \in Mscs : vbl[<<v, m>>] = 0
  BY DEF Init, Events
<1>4. \A v : ~Contains(<<>>, v)
  BY DEF Contains
<1>5. OnScreen(Cur)
  BY <1>1, <1>2, <1>4 DEF OnScreen
<1>6. ASSUME NEW v \in Ids PROVE Called(Cur, v, nextId, Unset) /\ Timed(Cur, v, Unset)
  <2>1. v # Unset
    BY DEF Ids, Unset
  <2>2. Called(Cur, v, nextId, Unset)
    BY <1>1, <1>2, <1>3 DEF Called
  <2>3. Timed(Cur, v, Unset)
    BY <1>1, <1>2, <2>1 DEF Timed, Unfinished, Waited
  <2> QED BY <2>2, <2>3
<1>7. todo = {} /\ dying = NoWin /\ scanout = flipOf
  BY DEF Init
<1> QED BY <1>5, <1>6, <1>7 DEF PacedInv, Paced, Looped

(* A request keeps it; those it replaces are waiting if they wanted to flip. *)
LEMMA SubmitPaced ==
  ASSUME TypeOK, SoundInv, PacedInv, NEW w \in Windows, NEW p \in Pixmaps \cup {NoPix},
         NEW opt \in OptionRecord, NEW f \in Fences \cup {NoFence},
         NEW wmsc \in Nat, NEW m \in Nat \X Nat, NEW refuse, "vblank" \notin refuse,
         Submit(w, p, opt, f, wmsc, m, refuse)
  PROVE  PacedInv'
<1> DEFINE target == AdjustTimings(opt.async, msc, wmsc, m[1], m[2])
           s == Submitted(Cur, nextId, w, p, opt, f, target, refuse)
<1>1. msc \in Mscs /\ msc \in Nat /\ Cur \in State /\ nextId \in Ids /\ target <= MaxMsc
  BY BoundsAssumption DEF TypeOK, Mscs, Submit
<1>2. target \in Nat
  BY <1>1, AdjustTimingsType DEF OptionRecord
<1>3. target \in Mscs
  <2> HIDE DEF target
  <2> QED BY <1>1, <1>2, BoundsAssumption DEF Mscs
<1>4. /\ Become(s) /\ nextId' = nextId + 1 /\ msc' = msc /\ scanout' = scanout
      /\ dying' = dying /\ dying = NoWin
  BY DEF Submit, Serving
<1>5. \A v \in todo' : v \in Ids /\ Cur.vb[v].queued /\ Cur.vb[v].ready
  <2>1. Cur.vb = vb
    BY DEF Cur
  <2>2. todo' \in {{}, {v \in Superseded(Cur, w, target) : vb[v].ready}}
    BY DEF Submit
  <2> HIDE DEF target
  <2> QED BY <2>1, <2>2 DEF Superseded
<1> HIDE DEF target
<1>6. s \in State /\ Paced(s, nextId + 1, Unset) /\ Spares(Cur, s, nextId)
  BY <1>1, <1>3, SubmittedType, SubmittedPaced DEF SoundInv, PacedInv
<1> HIDE DEF s
<1>7. Looped(s, todo')
  <2> SUFFICES ASSUME NEW v \in todo' PROVE Waited(s.vb[v]) /\ s.vb[v].queued
    BY DEF Looped
  <2>1. v \in Ids /\ Cur.vb[v].queued /\ Cur.vb[v].ready
    BY <1>5
  <2>2. v # nextId
    <3>1. Called(Cur, nextId, nextId, Unset) /\ nextId \in Nat
      BY <1>1 DEF PacedInv, Paced, Ids
    <3>2. ~Cur.vb[nextId].queued
      BY <3>1 DEF Called
    <3> QED BY <2>1, <3>2
  <2> QED BY <1>6, <2>1, <2>2 DEF Spares, Waited
<1>8. s.halted # "closed" => scanout' = s.flipOf
  <2>1. halted # "closed" /\ Cur.flipOf = flipOf
    BY DEF Submit, Serving, Cur
  <2> QED BY <1>4, <1>6, <2>1 DEF PacedInv, Spares
<1> QED BY <1>4, <1>6, <1>7, <1>8, BecomePaced

(* A step of the driver, or of a window, outside any loop. *)
LEMMA ServingPaced ==
  ASSUME NEW s \in State, Become(s), Serving, nextId' = nextId, msc' = msc,
         todo' = todo, Paced(s, nextId, Unset), scanout' = s.flipOf
  PROVE  PacedInv'
<1>1. todo' = {}
  BY DEF Serving
<1>2. Looped(s, todo')
  BY <1>1 DEF Looped
<1> QED BY <1>1, <1>2, BecomePaced

(* Time passes. *)
LEMMA TickPaced ==
  ASSUME TypeOK, PacedInv, Tick
  PROVE  PacedInv'
<1>1. /\ Cur' = Cur /\ nextId' = nextId /\ todo' = todo /\ dying' = dying
      /\ halted' = halted /\ scanout' = scanout /\ flipOf' = flipOf
      /\ msc \in Nat /\ msc' = msc + 1 /\ Cur \in State
  BY BoundsAssumption DEF Tick, Cur, server, dix, client, TypeOK
<1>2. OnScreen(Cur')
  BY <1>1 DEF PacedInv, Paced
<1>3. ASSUME NEW v \in Ids PROVE Called(Cur, v, nextId, Unset)' /\ Timed(Cur, v, Unset)'
  <2> DEFINE c == Cur
             n == nextId
  <2>1. Called(c, v, n, Unset) /\ Timed(c, v, Unset)
    BY DEF PacedInv, Paced
  <2>2. c.vb[v].exec \in Nat /\ c.vb[v].target \in Nat
    BY <1>1, OneVbType DEF Vblank, Mscs
  <2>3. Cur' = c /\ nextId' = n
    BY <1>1
  <2> HIDE DEF c, n
  <2>4. Called(Cur, v, nextId, Unset)'
    <3>1. c.vb[v].exec <= msc => c.vb[v].exec <= msc'
      BY <1>1, <2>2
    <3> QED BY <2>1, <2>3, <3>1 DEF Called
  <2>5. Timed(Cur, v, Unset)'
    <3>1. c.vb[v].target <= msc + 1 => c.vb[v].target <= msc' + 1
      BY <1>1, <2>2
    <3> QED BY <2>1, <2>3, <3>1 DEF Timed
  <2> QED BY <2>4, <2>5
<1>4. Paced(Cur, nextId, Unset)'
  BY <1>2, <1>3 DEF Paced
<1>5. Looped(Cur, todo)'
  BY <1>1 DEF PacedInv, Looped
<1> QED BY <1>1, <1>4, <1>5 DEF PacedInv

(* Every step keeps it: one step of the proof for each action. *)
LEMMA PacedNext ==
  ASSUME "vblank" \notin Refusable, TypeOK, SoundInv, PacedInv, [Next]_vars
  PROVE  PacedInv'
<1>0. /\ msc \in Mscs /\ Cur \in State /\ nextId \in Nat
      /\ Sound(Cur, nextId, Unset) /\ Paced(Cur, nextId, Unset)
      /\ halted # "closed" => scanout = Cur.flipOf
  BY BoundsAssumption DEF Mscs, TypeOK, SoundInv, PacedInv, Cur
<1>1. CASE ClientRequest
  <2>1. PICK w \in Windows, wmsc \in Targets, m \in Moduli, refuse \in SUBSET Refusable :
          \/ \E p \in Pixmaps, opt \in Options, f \in Fences \cup {NoFence} :
                PresentPixmap(w, p, opt, f, wmsc, m, refuse)
          \/ NotifyMsc(w, wmsc, m, refuse)
    BY <1>1 DEF ClientRequest
  <2>2. wmsc \in Nat /\ m \in Nat \X Nat /\ "vblank" \notin refuse
    BY InputAssumption
  <2>3. CASE \E p \in Pixmaps, opt \in Options, f \in Fences \cup {NoFence} :
               PresentPixmap(w, p, opt, f, wmsc, m, refuse)
    BY <2>2, <2>3, SubmitPaced, InputAssumption DEF PresentPixmap
  <2>4. CASE NotifyMsc(w, wmsc, m, refuse)
    <3> DEFINE opt == [async |-> m[1] = 0, copy |-> FALSE, update |-> FALSE]
    <3>1. opt \in OptionRecord
      BY DEF OptionRecord
    <3>2. Submit(w, NoPix, opt, NoFence, wmsc, m, refuse)
      BY <2>4 DEF NotifyMsc
    <3> HIDE DEF opt
    <3> QED BY <2>2, <3>1, <3>2, SubmitPaced
  <2> QED BY <2>1, <2>3, <2>4
<1>2. ASSUME NEW e \in Events, NEW at \in 0..MaxMsc, NEW refuse \in SUBSET Refusable,
             VblankEvent(e, at, refuse)
      PROVE  PacedInv'
  <2> DEFINE f == [vbl EXCEPT ![e] = @ - 1]
             s == [Cur EXCEPT !.vbl = f]
             t == EventNotify(s, e[1], at, refuse)
  <2>1. f \in [Events -> Nat] /\ Cur.vbl = vbl /\ vbl[e] > 0
    <3>1. vbl \in [Events -> Nat] /\ Cur.vbl = vbl
      BY <1>0 DEF Cur, State
    <3> QED BY <3>1, <1>2 DEF VblankEvent
  <2>2. /\ Become(t) /\ nextId' = nextId /\ msc' = msc /\ todo' = todo
        /\ scanout' = scanout /\ Serving /\ at \in e[2]..msc
    <3>1. s = [Cur EXCEPT !.vbl[e] = @ - 1]
      BY DEF Cur
    <3> QED BY <1>2, <3>1 DEF VblankEvent
  <2>3. f = [Cur.vbl EXCEPT ![e] = @ - 1] /\ Cur.vbl[e] > 0
    BY <2>1
  <2> HIDE DEF f
  <2>4. /\ s \in State /\ s.vbl = f
        /\ SameQueues(Cur, s) /\ SameFlip(Cur, s) /\ SameUnflip(Cur, s)
        /\ s.halted = Cur.halted /\ s.hwFlip = Cur.hwFlip /\ s.done = Cur.done
    BY <1>0, <2>1 DEF State, SameQueues, SameFlip, SameUnflip
  <2> HIDE DEF s
  <2>5. e[1] \in Ids /\ e[2] \in Mscs /\ e = <<e[1], e[2]>> /\ at \in Mscs
        /\ e[2] <= at /\ at <= msc /\ "vblank" \notin refuse
    BY <1>2, <2>2, BoundsAssumption DEF Events, Mscs
  <2>6. t \in State
    BY <1>0, <2>4, <2>5, EventNotifyType
  <2>7. Paced(t, nextId, Unset) /\ t.flipOf = s.flipOf
    <3> DEFINE v == e[1]
               m == e[2]
    <3>1. s.vbl = [Cur.vbl EXCEPT ![<<v, m>>] = @ - 1] /\ Cur.vbl[<<v, m>>] > 0
      BY <2>3, <2>4, <2>5
    <3>2. /\ v \in Ids /\ m \in Mscs /\ m <= at /\ at \in Mscs
          /\ at <= msc /\ "vblank" \notin refuse
      BY <2>5
    <3>3. /\ s \in State /\ SameQueues(Cur, s) /\ SameFlip(Cur, s) /\ SameUnflip(Cur, s)
          /\ s.halted = Cur.halted /\ s.hwFlip = Cur.hwFlip /\ s.done = Cur.done
      BY <2>4
    <3> HIDE DEF v, m
    <3>4. LET u == EventNotify(s, v, at, refuse)
          IN  Paced(u, nextId, Unset) /\ u.flipOf = s.flipOf
      BY <1>0, <3>1, <3>2, <3>3, VblankEventPaced, SMTT(30)
    <3> QED BY <3>4 DEF v
  <2>8. scanout' = t.flipOf
    <3>1. halted # "closed"
      BY <2>2 DEF Serving
    <3> HIDE DEF t
    <3> QED BY <1>0, <2>2, <2>4, <2>7, <3>1 DEF SameFlip
  <2> HIDE DEF t
  <2> QED BY <2>2, <2>6, <2>7, <2>8, ServingPaced
<1>3. ASSUME NEW e \in hwFlip, NEW at \in 0..MaxMsc, NEW refuse \in SUBSET Refusable,
             FlipEvent(e, at, refuse)
      PROVE  PacedInv'
  <2> DEFINE h == hwFlip \ {e}
             s == [Cur EXCEPT !.hwFlip = h]
             t == EventNotify(s, e[1], at, refuse)
  <2>1. h \in SUBSET Events /\ e \in Events /\ e \in Cur.hwFlip /\ h = Cur.hwFlip \ {e}
    BY <1>0 DEF Cur, State
  <2>2. /\ Become(t) /\ nextId' = nextId /\ msc' = msc /\ todo' = todo
        /\ scanout' = e[1] /\ Serving /\ at \in e[2]..msc
    <3>1. s = [Cur EXCEPT !.hwFlip = @ \ {e}]
      BY DEF Cur
    <3> QED BY <1>3, <3>1 DEF FlipEvent
  <2> HIDE DEF h
  <2>3. /\ s \in State /\ s.hwFlip = h
        /\ SameQueues(Cur, s) /\ SameFlip(Cur, s) /\ SameUnflip(Cur, s)
        /\ s.halted = Cur.halted /\ s.vbl = Cur.vbl /\ s.done = Cur.done
    BY <1>0, <2>1 DEF State, SameQueues, SameFlip, SameUnflip
  <2> HIDE DEF s
  <2>4. e[1] \in Ids /\ e[2] \in Mscs /\ e = <<e[1], e[2]>> /\ at \in Mscs
        /\ e[2] <= at /\ "vblank" \notin refuse
    BY <1>3, <2>1, <2>2, BoundsAssumption DEF Events, Mscs
  <2>5. t \in State
    BY <1>0, <2>3, <2>4, EventNotifyType
  <2>6. Paced(t, nextId, Unset) /\ t.flipOf = e[1]
    <3> DEFINE v == e[1]
               m == e[2]
    <3>1. s.hwFlip = Cur.hwFlip \ {<<v, m>>} /\ <<v, m>> \in Cur.hwFlip
      BY <2>1, <2>3, <2>4
    <3>2. v \in Ids /\ m \in Mscs /\ m <= at
      BY <2>4
    <3> HIDE DEF v, m
    <3>3. LET u == EventNotify(s, v, at, refuse)
          IN  Paced(u, nextId, Unset) /\ u.flipOf = v
      BY <1>0, <2>3, <2>4, <3>1, <3>2, FlipEventPaced
    <3> QED BY <3>3 DEF v
  <2> HIDE DEF t
  <2> QED BY <2>2, <2>5, <2>6, ServingPaced
<1>4. ASSUME NEW refuse \in SUBSET Refusable, UnflipEvent(refuse)
      PROVE  PacedInv'
  <2> DEFINE n == hwUnflip - 1
             s == [Cur EXCEPT !.hwUnflip = n]
             t == UnflipNotify(s, refuse)
  <2>1. Cur.unflip /\ unflip /\ n \in Nat /\ n = Cur.hwUnflip - 1
    <3>1. Cur.hwUnflip = hwUnflip /\ Cur.unflip = unflip /\ hwUnflip > 0 /\ hwUnflip \in Nat
      BY <1>0, <1>4 DEF Cur, State, UnflipEvent
    <3>2. Cur.hwUnflip = IF Cur.unflip THEN 1 ELSE 0
      BY <1>0 DEF Paced, OnScreen
    <3> QED BY <3>1, <3>2
  <2>2. /\ Become(t) /\ nextId' = nextId /\ msc' = msc /\ todo' = todo
        /\ scanout' = Unset /\ Serving
    <3>1. s = [Cur EXCEPT !.hwUnflip = @ - 1]
      BY DEF Cur
    <3> QED BY <1>4, <2>1, <3>1 DEF UnflipEvent
  <2> HIDE DEF n
  <2>3. /\ s \in State /\ s.hwUnflip = Cur.hwUnflip - 1
        /\ SameQueues(Cur, s) /\ SameFlip(Cur, s) /\ SameOwed(Cur, s)
        /\ s.halted = Cur.halted /\ s.done = Cur.done
    BY <1>0, <2>1 DEF State, SameQueues, SameFlip, SameOwed
  <2> HIDE DEF s
  <2>4. "vblank" \notin refuse
    BY <1>4
  <2>5. t \in State
    BY <1>0, <2>3, UnflipNotifyType
  <2>6. Paced(t, nextId, Unset) /\ t.flipOf = Unset
    BY <1>0, <2>1, <2>3, <2>4, UnflipNotifyPaced
  <2> HIDE DEF t
  <2> QED BY <2>2, <2>5, <2>6, ServingPaced
<1>5. ASSUME NEW refuse \in SUBSET Refusable, ReExecute(refuse)
      PROVE  PacedInv'
  <2> DEFINE v == Max(todo)
             t == Execute(Cur, v, msc, refuse)
  <2>1. v \in Ids /\ v \in todo
    <3>1. todo \in SUBSET Ids /\ todo # {}
      BY <1>5 DEF ReExecute, TypeOK
    <3>2. \E x \in todo : \A y \in todo : x >= y
      BY <3>1, GreatestId
    <3> QED BY <3>1, <3>2 DEF Max
  <2>2. /\ Become(t) /\ nextId' = nextId /\ msc' = msc /\ todo' = todo \ {v}
        /\ scanout' = scanout /\ dying' = dying /\ todo # {} /\ halted = "no"
    BY <1>5 DEF ReExecute
  <2> HIDE DEF v
  <2>3. Waited(Cur.vb[v]) /\ (Cur.vb[v].queued \/ v = Cur.pending)
    BY <2>1 DEF PacedInv, Looped
  <2>4. Due(Cur, v, msc)
    BY <1>0, <2>1, <2>3, WaitedIsDue
  <2>5. msc <= msc /\ "vblank" \notin refuse
    BY <1>0, <1>5, BoundsAssumption DEF Mscs
  <2>6. t \in State /\ Paced(t, nextId, Unset) /\ Spares(Cur, t, v)
    BY <1>0, <2>1, <2>3, <2>4, <2>5, ExecuteType, ExecutePaced
  <2> HIDE DEF t
  <2>7. Looped(t, todo')
    <3> SUFFICES ASSUME NEW u \in todo'
                 PROVE  Waited(t.vb[u]) /\ (t.vb[u].queued \/ u = t.pending)
      BY DEF Looped
    <3>1. u \in todo /\ u \in Ids /\ u # v /\ u # Unset
      BY <2>2 DEF TypeOK, Ids, Unset
    <3>2. Waited(Cur.vb[u]) /\ (Cur.vb[u].queued \/ u = Cur.pending)
      BY <3>1 DEF PacedInv, Looped
    <3> QED BY <2>6, <3>1, <3>2 DEF Spares, Waited
  <2>8. scanout' = t.flipOf /\ dying' = NoWin
    BY <1>0, <2>2, <2>6 DEF PacedInv, Spares
  <2> QED BY <2>2, <2>6, <2>7, <2>8, BecomePaced
<1>6. ASSUME NEW drop \in BOOLEAN, FreeWindowVblank(drop)
      PROVE  PacedInv'
  <2> DEFINE v == Min(QueuedOn(dying))
             f == [e \in Events |-> IF drop /\ e[1] = v THEN 0 ELSE vbl[e]]
             s == [Cur EXCEPT !.vbl = f]
             t == VblankDestroy(s, v)
  <2>1. v \in Ids /\ Cur.vb[v].queued
    <3>1. QueuedOn(dying) \in SUBSET Nat /\ QueuedOn(dying) # {}
          /\ \A u \in QueuedOn(dying) : u \in Ids /\ Cur.vb[u].queued
      BY <1>6 DEF FreeWindowVblank, QueuedOn, Ids, Cur
    <3> QED BY <3>1, MinIsLeast
  <2>2. /\ Become(t) /\ nextId' = nextId /\ msc' = msc /\ todo' = todo
        /\ scanout' = scanout /\ dying' = dying /\ dying # NoWin /\ halted = "no"
    <3>1. s = [Cur EXCEPT !.vbl = [e \in Events |-> IF drop /\ e[1] = v THEN 0 ELSE @[e]]]
      BY DEF Cur
    <3> HIDE DEF s
    <3> QED BY <1>6, <3>1 DEF FreeWindowVblank
  <2> HIDE DEF v
  <2>3. f \in [Events -> Nat]
    BY <1>0 DEF Cur, State
  <2>4. \A u \in Ids \ {v} : \A m \in Mscs : f[<<u, m>>] = Cur.vbl[<<u, m>>]
    BY DEF Events, Cur
  <2> HIDE DEF f
  <2>5. /\ s \in State /\ s.vbl = f /\ SameQueues(Cur, s) /\ SameFlip(Cur, s)
        /\ SameUnflip(Cur, s) /\ s.hwFlip = Cur.hwFlip /\ s.done = Cur.done
    BY <1>0, <2>3 DEF State, SameQueues, SameFlip, SameUnflip
  <2> HIDE DEF s
  <2>6. v # Cur.pending /\ IsInjective(Cur.flipQ)
    BY <1>0, <2>1 DEF Sound, Ids, Unset
  <2>7. t \in State /\ Paced(t, nextId, Unset)
    BY <1>0, <2>1, <2>4, <2>5, <2>6, VblankDestroyType, DroppedPaced
  <2>8. SameFlip(s, t)
    BY <2>1, <2>5, VblankDestroyFrame
  <2> HIDE DEF t
  <2>9. todo' = {} /\ scanout' = t.flipOf
    BY <1>0, <2>2, <2>5, <2>8 DEF PacedInv, SameFlip
  <2>10. Looped(t, todo')
    BY <2>9 DEF Looped
  <2> QED BY <2>2, <2>7, <2>9, <2>10, BecomePaced
<1>7. CASE FinishDestroy
  <2> DEFINE t == ClearWindowFlip(Cur, dying)
  <2>1. /\ Become(t) /\ nextId' = nextId /\ dying \in Windows /\ msc' = msc
        /\ todo' = todo /\ scanout' = scanout /\ dying' = NoWin /\ dying # NoWin
        /\ halted = "no"
    BY <1>7 DEF FinishDestroy, TypeOK
  <2>2. t \in State /\ Paced(t, nextId, Unset) /\ t.flipOf = Cur.flipOf
    BY <1>0, <2>1, ClearWindowFlipType, ClearWindowFlipPaced
  <2> HIDE DEF t
  <2>3. todo' = {} /\ scanout' = t.flipOf
    BY <1>0, <2>1, <2>2 DEF PacedInv
  <2>4. Looped(t, todo')
    BY <2>3 DEF Looped
  <2> QED BY <2>1, <2>2, <2>3, <2>4, BecomePaced
<1>8. ASSUME NEW f \in Fences, TriggerFence(f) \/ ResetFence(f) \/ DestroyFence(f)
      PROVE  PacedInv'
  <2>1. Become(Cur) /\ UNCHANGED <<held, nextId, msc, scanout, dying>>
    BY <1>8, FenceSteps
  <2>2. Serving /\ \A v \in todo' : v \in Ids /\ Cur.vb[v].cb
    BY <1>8 DEF TriggerFence, ResetFence, DestroyFence, Serving, Cur
  <2>3. Looped(Cur, todo')
    <3> SUFFICES ASSUME NEW v \in todo'
                 PROVE  Waited(Cur.vb[v]) /\ (Cur.vb[v].queued \/ v = Cur.pending)
      BY DEF Looped
    <3>1. v \in Ids /\ v # Unset /\ Waited(Cur.vb[v])
      BY <2>2 DEF Waited, Ids, Unset
    <3>2. Timed(Cur, v, Unset)
      BY <1>0, <3>1 DEF Paced
    <3> QED BY <3>1, <3>2 DEF Timed, Unfinished
  <2>4. scanout' = Cur.flipOf /\ dying' = NoWin
    BY <1>0, <2>1, <2>2 DEF Serving
  <2>5. Paced(Cur, nextId', Unset)
    BY <1>0, <2>1
  <2> QED BY <1>0, <2>1, <2>3, <2>4, <2>5, BecomePaced
<1>9. ASSUME NEW w \in Windows, ClipNotify(w) \/ DestroyWindow(w)
      PROVE  PacedInv'
  <2>1. PICK x \in SUBSET Windows : Become(CheckFlipWindow([Cur EXCEPT !.full = x], w))
    BY <1>9, ClipSteps
  <2> DEFINE s == [Cur EXCEPT !.full = x]
             t == CheckFlipWindow(s, w)
  <2>2. /\ s \in State /\ SameQueues(Cur, s) /\ SameFlip(Cur, s)
        /\ SameUnflip(Cur, s) /\ SameOwed(Cur, s) /\ s.done = Cur.done
    BY <1>0 DEF State, SameQueues, SameFlip, SameUnflip, SameOwed
  <2>3. /\ Become(t) /\ nextId' = nextId /\ msc' = msc /\ scanout' = scanout
        /\ todo' = todo /\ Serving
    BY <1>9, <2>1 DEF ClipNotify, DestroyWindow
  <2> HIDE DEF s
  <2>4. Paced(s, nextId, Unset)
    BY <1>0, <2>2, PacedSame
  <2>5. t \in State /\ Paced(t, nextId, Unset) /\ t.flipOf = s.flipOf
    BY <2>2, <2>4, CheckFlipWindowType, CheckFlipWindowPaced
  <2> HIDE DEF t
  <2>6. scanout' = t.flipOf
    BY <1>0, <2>2, <2>3, <2>5 DEF Serving, SameFlip
  <2> QED BY <2>3, <2>5, <2>6, ServingPaced
<1>10. ASSUME NEW p \in Pixmaps, FreePixmap(p)
       PROVE  PacedInv'
  <2> DEFINE f == [refs EXCEPT ![p] = @ - 1]
             s == [Cur EXCEPT !.refs = f]
  <2>1. f \in [Pixmaps -> Int]
    <3>1. refs \in [Pixmaps -> Int]
      BY <1>0 DEF Cur, State
    <3> QED BY <3>1
  <2>2. /\ Become(s) /\ nextId' = nextId /\ msc' = msc /\ scanout' = scanout
        /\ todo' = todo /\ Serving
    BY <1>10 DEF FreePixmap, Become, Cur, server, driver, client
  <2> HIDE DEF f
  <2>3. /\ s \in State /\ SameQueues(Cur, s) /\ SameFlip(Cur, s)
        /\ SameUnflip(Cur, s) /\ SameOwed(Cur, s) /\ s.done = Cur.done
    BY <1>0, <2>1 DEF State, SameQueues, SameFlip, SameUnflip, SameOwed
  <2> HIDE DEF s
  <2>4. Paced(s, nextId, Unset)
    BY <1>0, <2>3, PacedSame
  <2>5. scanout' = s.flipOf
    BY <1>0, <2>2, <2>3 DEF Serving, SameFlip
  <2> QED BY <2>2, <2>3, <2>4, <2>5, ServingPaced
<1>11. CASE CloseScreen
  <2> DEFINE s == IF pending # Unset THEN SetAbortFlip(Cur) ELSE Cur
             u == FlipIdle(s)
             t == Halt(u, "closed")
  <2>1. /\ Become(t) /\ nextId' = nextId /\ msc' = msc /\ scanout' = scanout
        /\ todo' = todo /\ dying' = dying /\ Serving
    BY <1>11 DEF CloseScreen
  <2>2. s \in State /\ Paced(s, nextId, Unset) /\ s.halted = "no"
    <3>1. CASE pending # Unset
      <4>1. Cur.pending # Unset
        BY <3>1 DEF Cur
      <4>2. /\ SetAbortFlip(Cur) \in State /\ SameFlips(Cur, SetAbortFlip(Cur))
            /\ Kept(Cur, SetAbortFlip(Cur)) /\ SameUnflip(Cur, SetAbortFlip(Cur))
        BY <1>0, <4>1, SetAbortFlipType, SetAbortSame, SetAbortPaced
      <4> HIDE DEF s
      <4>3. s = SetAbortFlip(Cur)
        BY <3>1 DEF s
      <4>4. s.hwUnflip = IF s.unflip THEN 1 ELSE 0
        BY <1>0, <4>2, <4>3 DEF Paced, OnScreen, SameUnflip
      <4>5. Paced(s, nextId, Unset)
        BY <1>0, <4>2, <4>3, <4>4, KeptPaced
      <4>6. Cur.halted = "no"
        BY <2>1 DEF Serving, Cur
      <4> QED BY <4>2, <4>3, <4>5, <4>6 DEF SameFlips
    <3>2. CASE pending = Unset
      <4>1. s = Cur /\ Cur.halted = "no"
        BY <2>1, <3>2 DEF Serving, Cur
      <4> HIDE DEF s
      <4> QED BY <1>0, <4>1
    <3> QED BY <3>1, <3>2
  <2> HIDE DEF s
  <2>3. u \in State /\ Paced(u, nextId, Unset) /\ u.halted = "no"
    <3>1. u \in State /\ Paced(u, nextId, Unset)
      BY <2>2, FlipIdleType, FlipIdlePaced
    <3>2. u.halted = s.halted
      BY <2>2 DEF FlipIdle, DropPixmap, PixmapIdle, State
    <3> QED BY <2>2, <3>1, <3>2
  <2> HIDE DEF u
  <2>4. t \in State /\ SameState(u, t) /\ t.halted = "closed"
    <3>1. t.halted = "closed"
      BY <2>3 DEF Halt, State
    <3> QED BY <2>3, <3>1, HaltType, HaltFrame
  <2> HIDE DEF t
  <2>5. Paced(t, nextId, Unset)
    BY <2>3, <2>4, PacedSame DEF SameState, SameClient
  <2>6. Looped(t, todo') /\ dying' = NoWin
    BY <2>1 DEF Looped, Serving
  <2> QED BY <2>1, <2>4, <2>5, <2>6, BecomePaced
<1>12. CASE Tick
  BY <1>12, TickPaced
<1>13. CASE UNCHANGED vars
  <2>1. /\ Become(Cur) /\ UNCHANGED <<nextId, msc, todo, dying, scanout>>
        /\ halted = Cur.halted
    BY <1>13 DEF vars, server, dix, driver, client, Cur, Become
  <2>2. /\ Paced(Cur, nextId', Unset) /\ Looped(Cur, todo')
        /\ Cur.halted # "closed" => scanout' = Cur.flipOf
        /\ dying' # NoWin => todo' = {}
    BY <1>0, <2>1 DEF PacedInv
  <2> QED BY <1>0, <2>1, <2>2, BecomePaced
<1> QED
  BY <1>1, <1>2, <1>3, <1>4, <1>5, <1>6, <1>7, <1>8, <1>9, <1>10, <1>11, <1>12, <1>13,
     InputAssumption
  DEF Next, DriverEvent, Loop, Environment

(* What the lemmas above say of the screen and of each request's vblanks
   holds in every behaviour, as long as the driver refuses no vblank. *)
THEOREM PacedAlways ==
  ASSUME "vblank" \notin Refusable PROVE Spec => []PacedInv
<1>1. Init => TypeOK /\ SoundInv /\ PacedInv
  BY TypeInit, SoundInit, PacedInit
<1>2. TypeOK /\ SoundInv /\ PacedInv /\ [Next]_vars => TypeOK' /\ SoundInv' /\ PacedInv'
  BY TypeNext, SoundNext, PacedNext
<1>3. Spec => [](TypeOK /\ SoundInv /\ PacedInv)
  BY <1>1, <1>2, PTL DEF Spec
<1> QED BY <1>3, PTL

(* Flip after flip, abort after abort, the server knows what the hardware
   does: the flip it calls pending is the one flip the hardware has still to
   do, it expects an unflip exactly when one is to come, and the buffer it
   took over is the one scanned out.  A refused queue_vblank is excluded
   because it breaks this: see the README. *)
THEOREM ScreenMatchesHardwareAlways ==
  ASSUME "vblank" \notin Refusable PROVE Spec => []ScreenMatchesHardware
<1>1. PacedInv => ScreenMatchesHardware
  <2> SUFFICES ASSUME PacedInv PROVE ScreenMatchesHardware
    OBVIOUS
  <2>1. /\ pending = Unset => hwFlip = {}
        /\ pending # Unset => \E m \in Mscs : hwFlip = {<<pending, m>>}
        /\ hwUnflip = (IF unflip THEN 1 ELSE 0)
        /\ halted # "closed" => scanout = flipOf
    BY DEF PacedInv, Paced, OnScreen, Cur
  <2>2. {e[1] : e \in hwFlip} = {pending} \ {Unset} /\ Cardinality(hwFlip) <= 1
    <3>1. CASE pending = Unset
      BY <2>1, <3>1, FS_EmptySet
    <3>2. CASE pending # Unset
      <4>1. PICK m \in Mscs : hwFlip = {<<pending, m>>}
        BY <2>1, <3>2
      <4>2. Cardinality(hwFlip) = 1
        BY <4>1, FS_Singleton
      <4> QED BY <3>2, <4>1, <4>2
    <3> QED BY <3>1, <3>2
  <2> QED BY <2>1, <2>2 DEF ScreenMatchesHardware
<1> QED BY <1>1, PacedAlways, PTL

(* No frame is reported to its client with an MSC before the one it asked
   for, although flips are handed to the driver one MSC early and a request
   that can no longer flip falls back to a copy. *)
THEOREM NeverEarlyAlways ==
  ASSUME "vblank" \notin Refusable PROVE Spec => []NeverEarly
<1>1. PacedInv => NeverEarly
  BY DEF PacedInv, Paced, Timed, NeverEarly, Cur
<1> QED BY <1>1, PacedAlways, PTL

------------------------------------------------------------------------------
(****************************************************************************)
(* Buffers come back to their clients, replaced frames stay hidden, no      *)
(* window draws into a pixmap that Present has let go, and Present keeps    *)
(* all that PresentRequests promises, for every number of windows,          *)
(* pixmaps, fences and requests.                                            *)
(*                                                                          *)
(* BuffersComeBack speaks of requests that are over. Owes adds what is      *)
(* still owed for one that is not: one completion, and one release          *)
(* unless a later request has replaced it. SupersededNeverShown needs to    *)
(* know that a queued request's window is not gone: Housed. Booked is       *)
(* their conjunction, kept by every handler.                                *)
(*                                                                          *)
(* For NoDanglingRenderTarget, Drawn says where windows draw: into the      *)
(* screen pixmap or where the root draws, and the root into the screen      *)
(* pixmap or the one that is shown.                                         *)
(*                                                                          *)
(* For RootDrawsToScanout, Rooted says that the root does draw into the     *)
(* pending flip's pixmap, or the one shown, unless that is to be undone.    *)
(* It needs OneFlips and Lodged: a flip follows another only in the same    *)
(* window, and a window that flips is there until its death undoes it.      *)
(*                                                                          *)
(* For the refinement, View is what a client can tell of one request in     *)
(* the middle of a handler, and Turn says that each view takes a            *)
(* promised step or none. Booked makes a Turn of what each handler does.    *)
(****************************************************************************)

(* What is owed to the client of request v, and what it has had.  Ids from n *)
(* on are new, x is a request in hand, a are the windows not destroyed.      *)
Owes(s, v, n, x, a) ==
  /\ v >= n => /\ s.vb[v].kind = "none" /\ ~Unfinished(s, v, x)
               /\ s.idle[v] = 0 /\ s.done[v].n = 0 /\ v # s.flipOf
  /\ Unfinished(s, v, x) =>
       /\ s.done[v].n = 0 /\ v # s.flipOf
       /\ s.vb[v].pix # NoPix => s.vb[v].kind = "pixmap"
       /\ s.idle[v] = (IF s.vb[v].kind = "pixmap" /\ s.vb[v].pix = NoPix THEN 1 ELSE 0)
  /\ ~Unfinished(s, v, x) =>
       /\ s.idle[v] \in {0, 1} /\ (v = s.flipOf => s.idle[v] = 0)
       /\ v < n /\ s.vb[v].win \in a => s.done[v].n = 1
       /\ v < n /\ s.vb[v].kind = "pixmap" /\ s.vb[v].win \in a \cup {NoWin}
            => s.idle[v] = 1 \/ v = s.flipOf

(* A queued request's window has not gone: h are the windows not destroyed,  *)
(* and the one being destroyed.                                              *)
Housed(s, v, x, h) ==
  /\ s.vb[v].queued \/ v = x => s.vb[v].win \in h
  /\ v = s.pending => s.vb[v].win \in h \cup {NoWin}

(* Only queued requests are on the exec queue; one with a fence callback, or *)
(* that a loop d has still to execute, is not over.                          *)
Reached(s, v, x, d) ==
  /\ v \in s.execQ => s.vb[v].queued
  /\ s.vb[v].cb \/ v \in d => Unfinished(s, v, x)

Entry(s, v, n, x, a, h, d) ==
  Owes(s, v, n, x, a) /\ Housed(s, v, x, h) /\ Reached(s, v, x, d)

(* A request has no pixmap any more when a later one shows the same frame.   *)
Replaced(s, x) ==
  \A u, v \in Ids :
    /\ v < u /\ (s.vb[v].queued \/ v = x)
    /\ s.vb[u].kind = "pixmap" /\ ~s.vb[u].update
    /\ s.vb[v].win = s.vb[u].win /\ s.vb[v].target = s.vb[u].target
    => s.vb[v].pix = NoPix

Booked(s, n, x, a, h, d) ==
  /\ \A v \in Ids : Entry(s, v, n, x, a, h, d)
  /\ s.flipWin \in h \cup {NoWin}
  /\ s.flipOf = Unset <=> s.flipPix = NoPix
  /\ Replaced(s, x)

-----------------------------------------------------------------------------
(* What each of these depends on.                                           *)

SameRequest(s, t, u) ==
  /\ SameName(s.vb[u], t.vb[u]) /\ t.vb[u].pix = s.vb[u].pix
  /\ t.vb[u].queued = s.vb[u].queued
  /\ t.idle[u] = s.idle[u] /\ t.done[u] = s.done[u]
  /\ u = t.pending <=> u = s.pending
  /\ u = t.flipOf <=> u = s.flipOf
  /\ u \in t.execQ => u \in s.execQ
  /\ t.vb[u].cb => s.vb[u].cb \/ s.vb[u].queued \/ u = s.pending

LEMMA EntrySame ==
  ASSUME NEW s, NEW t, NEW u, NEW n, NEW x, NEW y, NEW a, NEW h, NEW d,
         SameRequest(s, t, u), u = x <=> u = y, Entry(s, u, n, x, a, h, d)
  PROVE  Entry(t, u, n, y, a, h, d)
<1>1. Unfinished(t, u, y) <=> Unfinished(s, u, x)
  BY DEF SameRequest, Unfinished
<1>2. Owes(t, u, n, y, a)
  BY <1>1 DEF Entry, Owes, SameRequest, SameName
<1>3. Housed(t, u, y, h)
  BY DEF Entry, Housed, SameRequest, SameName
<1>4. Reached(t, u, y, d)
  BY <1>1 DEF Entry, Reached, SameRequest, Unfinished
<1> QED BY <1>2, <1>3, <1>4 DEF Entry

(* A request that was and is not over yet has its name, and no new pixmap.   *)
Ages(s, t, x, y) ==
  \A u \in Ids :
    /\ t.vb[u].kind = s.vb[u].kind /\ t.vb[u].target = s.vb[u].target
    /\ t.vb[u].update = s.vb[u].update
    /\ t.vb[u].win = s.vb[u].win \/ t.vb[u].win = NoWin
    /\ t.vb[u].queued \/ u = y =>
         /\ s.vb[u].queued \/ u = x
         /\ t.vb[u].win = s.vb[u].win /\ t.vb[u].win # NoWin
         /\ s.vb[u].pix = NoPix => t.vb[u].pix = NoPix

LEMMA ReplacedAges ==
  ASSUME NEW s, NEW t, NEW x, NEW y, Replaced(s, x), Ages(s, t, x, y)
  PROVE  Replaced(t, y)
<1> SUFFICES ASSUME NEW u \in Ids, NEW v \in Ids,
                    v < u, t.vb[v].queued \/ v = y,
                    t.vb[u].kind = "pixmap", ~t.vb[u].update,
                    t.vb[v].win = t.vb[u].win, t.vb[v].target = t.vb[u].target
             PROVE  t.vb[v].pix = NoPix
  BY DEF Replaced
<1>1. /\ s.vb[v].queued \/ v = x
      /\ t.vb[v].win = s.vb[v].win /\ t.vb[v].win # NoWin
      /\ s.vb[v].pix = NoPix => t.vb[v].pix = NoPix
      /\ t.vb[v].target = s.vb[v].target
  BY DEF Ages
<1>2. /\ t.vb[u].kind = s.vb[u].kind /\ t.vb[u].target = s.vb[u].target
      /\ t.vb[u].update = s.vb[u].update
      /\ t.vb[u].win = s.vb[u].win \/ t.vb[u].win = NoWin
  BY DEF Ages
<1>3. s.vb[v].pix = NoPix
  BY <1>1, <1>2 DEF Replaced
<1> QED BY <1>1, <1>3

(* Handlers that touch nothing a client is owed.                             *)
SameBook(s, t) ==
  /\ SameFlip(s, t) /\ SameClient(s, t)
  /\ \A u \in Ids : /\ SameName(s.vb[u], t.vb[u]) /\ t.vb[u].pix = s.vb[u].pix
                    /\ t.vb[u].queued = s.vb[u].queued
                    /\ u \in t.execQ => u \in s.execQ
                    /\ t.vb[u].cb => s.vb[u].cb \/ s.vb[u].queued \/ u = s.pending

LEMMA BookedSame ==
  ASSUME NEW s, NEW t, NEW n, NEW x, NEW a, NEW h, NEW d, Booked(s, n, x, a, h, d),
         SameBook(s, t)
  PROVE  Booked(t, n, x, a, h, d)
<1>1. ASSUME NEW u \in Ids PROVE Entry(t, u, n, x, a, h, d)
  <2>1. SameRequest(s, t, u)
    BY DEF SameBook, SameRequest, SameFlip, SameClient
  <2>2. Entry(s, u, n, x, a, h, d)
    BY DEF Booked
  <2> QED BY <2>1, <2>2, EntrySame
<1>2. Replaced(t, x)
  BY DEF Booked, Replaced, SameBook, SameName
<1> QED BY <1>1, <1>2 DEF Booked, SameBook, SameFlip

LEMMA SameBookTwice ==
  ASSUME NEW s, NEW t, NEW u, SameBook(s, t), SameBook(t, u)
  PROVE  SameBook(s, u)
BY DEF SameBook, SameFlip, SameClient, SameName

LEMMA SameBookSelf ==
  ASSUME NEW s PROVE SameBook(s, s)
BY DEF SameBook, SameFlip, SameClient, SameName

(* One request's record changes, but not what names it. *)
LEMMA OneSameBook ==
  ASSUME NEW s, NEW t, NEW v \in Ids, SameFlip(s, t), SameClient(s, t),
         SameName(s.vb[v], t.vb[v]), t.vb[v].pix = s.vb[v].pix,
         t.vb[v].queued = s.vb[v].queued, \A u \in Ids \ {v} : t.vb[u] = s.vb[u],
         \A u \in Ids : u \in t.execQ => u \in s.execQ,
         t.vb[v].cb => s.vb[v].cb \/ s.vb[v].queued \/ v = s.pending
  PROVE  SameBook(s, t)
BY DEF SameBook, SameName

LEMMA QueuesSameBook ==
  ASSUME NEW s, NEW t, SameQueues(s, t), SameFlip(s, t), SameClient(s, t)
  PROVE  SameBook(s, t)
BY DEF SameBook, SameName, SameQueues

(* present_set_abort_flip, present_unflip and who calls them. *)
LEMMA SetAbortBook ==
  ASSUME NEW s \in State, s.pending # Unset
  PROVE  SameBook(s, SetAbortFlip(s))
<1> DEFINE t == SetAbortFlip(s)
<1>1. s.pending \in Ids
  BY PendingType
<1>2. /\ SameFlip(s, t) /\ SameClient(s, t)
      /\ SameName(s.vb[s.pending], t.vb[s.pending])
      /\ SameShow(s.vb[s.pending], t.vb[s.pending])
      /\ t.vb[s.pending].queued = s.vb[s.pending].queued
      /\ t.execQ = s.execQ
      /\ \A u \in Ids \ {s.pending} : t.vb[u] = s.vb[u]
  BY SetAbortFrame
<1> HIDE DEF t
<1> QED BY <1>1, <1>2, OneSameBook DEF SameShow, t

LEMMA UnflipBook ==
  ASSUME NEW s \in State
  PROVE  SameBook(s, Unflip(s))
BY UnflipFrame, QueuesSameBook

LEMMA StopFlippingBook ==
  ASSUME NEW s \in State, NEW w
  PROVE  SameBook(s, StopFlipping(s, w))
BY SetAbortBook, UnflipBook, SameBookSelf DEF StopFlipping

LEMMA StopLostFlipBook ==
  ASSUME NEW s \in State, NEW w
  PROVE  SameBook(s, StopLostFlip(s, w))
BY SetAbortBook, UnflipBook, SameBookSelf DEF StopLostFlip

(* present_check_flip_window. *)
LEMMA CheckFlipWindowBook ==
  ASSUME NEW s \in State, NEW w \in Windows
  PROVE  SameBook(s, CheckFlipWindow(s, w))
<1> DEFINE r == StopLostFlip(s, w)
           t == RecheckQueued(r, w)
<1>1. CheckFlipWindow(s, w) = IF s.unflip THEN s ELSE t
  BY DEF CheckFlipWindow
<1>2. r \in State /\ SameBook(s, r)
  BY StopLostFlipType, StopLostFlipBook
<1> HIDE DEF r
<1>3. /\ SameFlip(r, t) /\ SameClient(r, t) /\ t.execQ = r.execQ
      /\ \A v \in Ids : Relaxed(r.vb[v], t.vb[v])
  BY <1>2, RecheckFrame
<1> HIDE DEF t
<1>4. SameBook(r, t)
  BY <1>3 DEF SameBook, Relaxed
<1> QED BY <1>1, <1>2, <1>4, SameBookTwice, SameBookSelf

(* Waiting, in one way or another. *)
LEMMA WaitingBook ==
  ASSUME NEW s \in State, NEW v \in Ids
  PROVE  /\ SameBook(s, QueueVblank(s, v))
         /\ s.vb[v].queued \/ v = s.pending => SameBook(s, AwaitFence(s, v))
         /\ SameBook(s, DeferFlip(s, v)) /\ SameBook(s, FlipRefused(s, v))
<1>1. SameBook(s, QueueVblank(s, v))
  BY QueueVblankFrame, QueuesSameBook
<1>2. ASSUME s.vb[v].queued \/ v = s.pending PROVE SameBook(s, AwaitFence(s, v))
  <2> DEFINE t == AwaitFence(s, v)
  <2>1. /\ SameFlip(s, t) /\ SameClient(s, t)
        /\ SameName(s.vb[v], t.vb[v]) /\ SameShow(s.vb[v], t.vb[v])
        /\ t.vb[v].queued = s.vb[v].queued /\ \A u \in Ids \ {v} : t.vb[u] = s.vb[u]
        /\ t.execQ = s.execQ
    BY AwaitFenceFrame
  <2> HIDE DEF t
  <2> QED BY <1>2, <2>1, OneSameBook DEF SameShow, t
<1>3. SameBook(s, DeferFlip(s, v))
  <2> DEFINE t == DeferFlip(s, v)
  <2>1. /\ SameFlip(s, t) /\ SameClient(s, t)
        /\ SameName(s.vb[v], t.vb[v]) /\ SameShow(s.vb[v], t.vb[v])
        /\ t.vb[v].queued = s.vb[v].queued /\ \A u \in Ids \ {v} : t.vb[u] = s.vb[u]
        /\ t.execQ = s.execQ \ {v} /\ t.vb[v].cb = s.vb[v].cb
    BY DeferFlipFrame
  <2> HIDE DEF t
  <2> QED BY <2>1, OneSameBook DEF SameShow, t
<1>4. SameBook(s, FlipRefused(s, v))
  <2> DEFINE t == FlipRefused(s, v)
  <2>1. /\ SameFlip(s, t) /\ SameClient(s, t)
        /\ SameName(s.vb[v], t.vb[v]) /\ t.vb[v].pix = s.vb[v].pix
        /\ t.vb[v].queued = s.vb[v].queued /\ \A u \in Ids \ {v} : t.vb[u] = s.vb[u]
        /\ t.execQ = s.execQ /\ t.vb[v].cb = s.vb[v].cb
    BY FlipRefusedFrame
  <2> HIDE DEF t
  <2> QED BY <2>1, OneSameBook DEF t
<1> QED BY <1>1, <1>2, <1>3, <1>4

-----------------------------------------------------------------------------
(* Handlers keep Booked.                                                    *)

(* present_restore_screen_pixmap and the assertions. *)
LEMMA HaltBook ==
  ASSUME NEW s \in State, NEW why
  PROVE  SameBook(s, Halt(s, why))
<1>1. SameState(s, Halt(s, why))
  BY HaltFrame
<1> QED BY <1>1, QueuesSameBook DEF SameState

(* What changes is v, which is not over before or after. *)
LEMMA AgesOne ==
  ASSUME NEW s, NEW t, NEW v \in Ids, NEW x \in {v, Unset}, NEW y \in {v, Unset},
         NEW n, NEW a, NEW h \in SUBSET Windows, NEW d, Booked(s, n, x, a, h, d),
         \A u \in Ids \ {v} : SameRequest(s, t, u), SameName(s.vb[v], t.vb[v]),
         t.vb[v].pix = s.vb[v].pix \/ t.vb[v].pix = NoPix,
         t.vb[v].queued \/ v = y => s.vb[v].queued \/ v = x
  PROVE  Ages(s, t, x, y)
<1> SUFFICES ASSUME NEW u \in Ids
    PROVE /\ t.vb[u].kind = s.vb[u].kind /\ t.vb[u].target = s.vb[u].target
          /\ t.vb[u].update = s.vb[u].update /\ t.vb[u].win = s.vb[u].win
          /\ t.vb[u].queued \/ u = y => /\ s.vb[u].queued \/ u = x
                                        /\ s.vb[u].win # NoWin
                                        /\ s.vb[u].pix = NoPix => t.vb[u].pix = NoPix
  BY DEF Ages
<1>1. Entry(s, u, n, x, a, h, d) /\ u # Unset
  BY DEF Booked, Ids, Unset
<1>2. s.vb[u].queued \/ u = x => s.vb[u].win # NoWin
  BY <1>1, SentinelAssumption DEF Entry, Housed
<1>3. SameName(s.vb[u], t.vb[u]) /\ (s.vb[u].pix = NoPix => t.vb[u].pix = NoPix)
  BY DEF SameRequest
<1>4. t.vb[u].queued \/ u = y => s.vb[u].queued \/ u = x
  BY <1>1 DEF SameRequest
<1> QED BY <1>2, <1>3, <1>4 DEF SameName

LEMMA BookedOne ==
  ASSUME NEW s, NEW t, NEW v \in Ids, NEW x \in {v, Unset}, NEW y \in {v, Unset},
         NEW n, NEW a, NEW h \in SUBSET Windows, NEW d, Booked(s, n, x, a, h, d),
         \A u \in Ids \ {v} : SameRequest(s, t, u), SameName(s.vb[v], t.vb[v]),
         t.vb[v].pix = s.vb[v].pix \/ t.vb[v].pix = NoPix,
         t.vb[v].queued \/ v = y => s.vb[v].queued \/ v = x,
         Entry(t, v, n, y, a, h, d), t.flipWin \in h \cup {NoWin},
         t.flipOf = Unset <=> t.flipPix = NoPix
  PROVE  Booked(t, n, y, a, h, d)
<1>1. ASSUME NEW u \in Ids PROVE Entry(t, u, n, y, a, h, d)
  <2>1. CASE u = v
    BY <2>1
  <2>2. CASE u # v
    <3>1. u = x <=> u = y
      BY <2>2 DEF Ids, Unset
    <3>2. Entry(s, u, n, x, a, h, d) /\ SameRequest(s, t, u)
      BY <2>2 DEF Booked
    <3> QED BY <3>1, <3>2, EntrySame
  <2> QED BY <2>1, <2>2
<1>2. Ages(s, t, x, y)
  BY AgesOne
<1>3. Replaced(s, x)
  BY DEF Booked
<1>4. Replaced(t, y)
  BY <1>2, <1>3, ReplacedAges
<1> QED BY <1>1, <1>4 DEF Booked

(* v moves from one place where it waits to another. *)
LEMMA MovedBooked ==
  ASSUME NEW s, NEW t, NEW v \in Ids, NEW x \in {v, Unset}, NEW y \in {v, Unset},
         NEW n, NEW a, NEW h \in SUBSET Windows, NEW d, Booked(s, n, x, a, h, d),
         s.vb[v].queued \/ v = x, v # s.pending, Unfinished(t, v, y),
         \A u \in Ids \ {v} : SameRequest(s, t, u), SameName(s.vb[v], t.vb[v]),
         t.vb[v].pix = s.vb[v].pix, t.idle[v] = s.idle[v], t.done[v] = s.done[v],
         v \in t.execQ => t.vb[v].queued,
         t.flipOf = s.flipOf, t.flipWin = s.flipWin, t.flipPix = s.flipPix
  PROVE  Booked(t, n, y, a, h, d)
<1>1. Entry(s, v, n, x, a, h, d)
  BY DEF Booked
<1>2. Owes(t, v, n, y, a)
  BY <1>1 DEF Entry, Owes, Unfinished, SameName
<1>3. Housed(t, v, y, h)
  BY <1>1 DEF Entry, Housed, SameName
<1>4. Reached(t, v, y, d)
  BY DEF Reached
<1>5. Entry(t, v, n, y, a, h, d)
  BY <1>2, <1>3, <1>4 DEF Entry
<1>6. t.flipWin \in h \cup {NoWin} /\ (t.flipOf = Unset <=> t.flipPix = NoPix)
  BY DEF Booked
<1>7. t.vb[v].queued \/ v = y => s.vb[v].queued \/ v = x
  OBVIOUS
<1> QED BY <1>5, <1>6, <1>7, BookedOne

(* v is over. *)
LEMMA FinishedBooked ==
  ASSUME NEW s, NEW t, NEW v \in Ids, NEW x \in {v, Unset},
         NEW n, NEW a \in SUBSET Windows, NEW h \in SUBSET Windows, NEW d,
         Booked(s, n, x, a, h, d),
         s.vb[v].queued \/ v = x, v # t.pending, v \notin d,
         \A u \in Ids \ {v} : SameRequest(s, t, u), SameName(s.vb[v], t.vb[v]),
         t.vb[v].pix = NoPix, ~t.vb[v].queued, ~t.vb[v].cb, v \notin t.execQ,
         t.idle[v] \in {0, 1}, s.vb[v].kind = "pixmap" /\ s.vb[v].win \in a => t.idle[v] = 1,
         s.vb[v].win \in a => t.done[v].n = 1,
         t.flipOf = s.flipOf, t.flipWin = s.flipWin, t.flipPix = s.flipPix
  PROVE  Booked(t, n, Unset, a, h, d)
<1>1. Entry(s, v, n, x, a, h, d) /\ v # Unset
  BY DEF Booked, Ids, Unset
<1>2. ~Unfinished(t, v, Unset) /\ Unfinished(s, v, x)
  BY <1>1 DEF Unfinished
<1>3. v # s.flipOf /\ ~(v >= n) /\ s.vb[v].win # NoWin
  BY <1>1, <1>2, SentinelAssumption DEF Entry, Owes, Housed
<1>4. Owes(t, v, n, Unset, a)
  BY <1>2, <1>3 DEF Owes, SameName
<1>5. Housed(t, v, Unset, h) /\ Reached(t, v, Unset, d)
  BY <1>1 DEF Housed, Reached
<1>6. Entry(t, v, n, Unset, a, h, d)
  BY <1>4, <1>5 DEF Entry
<1>7. t.flipWin \in h \cup {NoWin} /\ (t.flipOf = Unset <=> t.flipPix = NoPix)
  BY DEF Booked
<1>8. ~(t.vb[v].queued \/ v = Unset)
  BY <1>1
<1> QED BY <1>6, <1>7, <1>8, BookedOne

(* present_execute_post, after the release of the buffer. *)
LEMMA ExecutePostBooked ==
  ASSUME NEW s \in State, NEW r \in State, NEW v \in Ids, NEW now \in Mscs,
         NEW n, NEW a \in SUBSET Windows, NEW h \in SUBSET Windows, NEW d,
         Booked(s, n, v, a, h, d), v # s.pending, v \notin d,
         SameQueues(s, r), SameFlip(s, r), r.done = s.done,
         \A u \in Ids \ {v} : r.idle[u] = s.idle[u],
         r.idle[v] \in {0, 1}, s.vb[v].kind = "pixmap" => r.idle[v] = 1
  PROVE  Booked(ExecutePost(r, v, now), n, Unset, a, h, d)
<1> DEFINE b    == r.vb[v]
           mode == IF b.kind = "pixmap" /\ b.pix = NoPix THEN "skip" ELSE "copy"
           y    == VblankNotify(r, v, mode, now)
           t    == VblankDestroy(y, v)
<1>1. ExecutePost(r, v, now) = t
  BY DEF ExecutePost
<1>2. mode \in Modes
  BY DEF Modes
<1> HIDE DEF mode
<1>3. Entry(s, v, n, v, a, h, d)
  BY DEF Booked
<1>4. s.done[v].n = 0 /\ s.vb[v].win # NoWin
  BY <1>3, SentinelAssumption DEF Entry, Owes, Unfinished, Housed
<1>5. /\ y \in State /\ SameQueues(r, y) /\ SameFlip(r, y) /\ y.idle = r.idle
      /\ \A u \in Ids \ {v} : y.done[u] = r.done[u]
      /\ r.vb[v].win # NoWin => y.done[v].n = r.done[v].n + 1
  BY <1>2, VblankNotifyType, VblankNotifyFrame
<1> HIDE DEF y
<1>6. y.done[v].n = 1 /\ \A u \in Ids \ {v} : y.done[u] = s.done[u]
  BY <1>4, <1>5 DEF SameQueues
<1>7. /\ t.execQ = y.execQ \ {v} /\ SameFlip(y, t) /\ SameClient(y, t)
      /\ SameName(y.vb[v], t.vb[v]) /\ t.vb[v].pix = NoPix
      /\ ~t.vb[v].queued /\ ~t.vb[v].cb
      /\ \A u \in Ids \ {v} : t.vb[u] = y.vb[u]
  BY <1>5, VblankDestroyFrame
<1> HIDE DEF t
<1>8. SameFlip(s, t) /\ t.execQ = s.execQ \ {v} /\ t.idle = r.idle /\ t.done = y.done
  BY <1>5, <1>7 DEF SameFlip, SameQueues, SameClient
<1>9. SameName(s.vb[v], t.vb[v]) /\ \A u \in Ids \ {v} : t.vb[u] = s.vb[u]
  BY <1>5, <1>7 DEF SameQueues
<1>10. \A u \in Ids \ {v} : SameRequest(s, t, u)
  BY <1>6, <1>8, <1>9 DEF SameRequest, SameFlip, SameName
<1>11. Booked(t, n, Unset, a, h, d)
  BY <1>6, <1>7, <1>8, <1>9, <1>10, FinishedBooked DEF SameFlip
<1> QED BY <1>1, <1>11

(* present_execute_copy of a request in hand. *)
LEMMA ExecuteCopyBooked ==
  ASSUME NEW s \in State, NEW v \in Ids, NEW now \in Mscs, NEW refuse,
         NEW n, NEW a \in SUBSET Windows, NEW h \in SUBSET Windows, NEW d,
         Booked(s, n, v, a, h, d), v # s.pending, v \notin d, s.vb[v].pix # NoPix
  PROVE  Booked(ExecuteCopy(s, v, now, refuse), n, Unset, a, h, d)
<1> DEFINE r == PixmapIdle(s, v)
           t == ExecuteCopy(s, v, now, refuse)
<1>1. Entry(s, v, n, v, a, h, d)
  BY DEF Booked
<1>2. CASE Requeues(s, v, now, refuse)
  <2> DEFINE e == <<v, s.vb[v].exec>>
  <2>1. /\ SameFlip(s, t) /\ SameClient(s, t) /\ t.execQ = s.execQ \cup {v}
        /\ e \in Events /\ t.vbl[e] = s.vbl[e] + 1
        /\ SameName(s.vb[v], t.vb[v]) /\ SameShow(s.vb[v], t.vb[v])
        /\ t.vb[v].queued /\ \A u \in Ids \ {v} : t.vb[u] = s.vb[u]
    BY <1>2, RequeueFrame
  <2> HIDE DEF t, e
  <2>2. \A u \in Ids \ {v} : SameRequest(s, t, u)
    BY <2>1 DEF SameRequest, SameFlip, SameClient, SameName
  <2>3. Booked(t, n, Unset, a, h, d)
    BY <2>1, <2>2, MovedBooked DEF SameFlip, SameClient, SameShow, Unfinished
  <2> QED BY <2>3 DEF t
<1>3. CASE ~Requeues(s, v, now, refuse)
  <2>1. t = ExecutePost(r, v, now)
    BY <1>3 DEF ExecuteCopy
  <2> HIDE DEF t
  <2>2. /\ r \in State /\ SameQueues(s, r) /\ SameFlip(s, r) /\ r.done = s.done
        /\ r.idle[v] = s.idle[v] + 1 /\ \A u \in Ids \ {v} : r.idle[u] = s.idle[u]
    BY PixmapIdleType, PixmapIdleFrame
  <2> HIDE DEF r
  <2>3. s.idle[v] = 0
    BY <1>1 DEF Entry, Owes, Unfinished
  <2>4. r.idle[v] = 1
    BY <2>2, <2>3
  <2>5. Booked(t, n, Unset, a, h, d)
    BY <2>1, <2>2, <2>4, ExecutePostBooked
  <2> QED BY <2>5 DEF t
<1> QED BY <1>2, <1>3

(* present_flip of a request in hand. *)
LEMMA StartFlipBooked ==
  ASSUME NEW s \in State, NEW v \in Ids,
         NEW n, NEW a \in SUBSET Windows, NEW h \in SUBSET Windows, NEW d,
         Booked(s, n, v, a, h, d), s.pending = Unset
  PROVE  Booked(StartFlip(s, v), n, Unset, a, h, d)
<1> DEFINE t == StartFlip(s, v)
<1>1. /\ t.vb = s.vb /\ t.execQ = s.execQ /\ t.pending = v /\ t.flipOf = s.flipOf
      /\ t.flipWin = s.flipWin /\ t.flipPix = s.flipPix /\ SameClient(s, t)
  BY StartFlipFrame
<1>2. v # Unset /\ \A u \in Ids : u # Unset
  BY DEF Ids, Unset
<1> HIDE DEF t
<1>3. \A u \in Ids \ {v} : SameRequest(s, t, u)
  BY <1>1, <1>2 DEF SameRequest, SameClient, SameName
<1>4. Unfinished(t, v, Unset) /\ SameName(s.vb[v], t.vb[v])
  BY <1>1 DEF Unfinished, SameName
<1>5. v \in t.execQ => t.vb[v].queued
  BY <1>1 DEF Booked, Entry, Reached
<1>6. t.vb[v].pix = s.vb[v].pix /\ t.idle[v] = s.idle[v] /\ t.done[v] = s.done[v]
  BY <1>1 DEF SameClient
<1>7. Booked(t, n, Unset, a, h, d)
  BY <1>1, <1>2, <1>3, <1>4, <1>5, <1>6, MovedBooked
<1> QED BY <1>7 DEF t

(* Leaving the queues to be executed. *)
LEMMA DequeueBooked ==
  ASSUME NEW s \in State, NEW v \in Ids,
         NEW n, NEW a \in SUBSET Windows, NEW h \in SUBSET Windows, NEW d,
         Booked(s, n, Unset, a, h, d), s.vb[v].queued, v # s.pending
  PROVE  Booked(Dequeue(s, v), n, v, a, h, d)
<1> DEFINE t == Dequeue(s, v)
<1>1. /\ t.execQ = s.execQ \ {v} /\ SameFlip(s, t) /\ SameClient(s, t)
      /\ SameName(s.vb[v], t.vb[v]) /\ SameShow(s.vb[v], t.vb[v])
      /\ \A u \in Ids \ {v} : t.vb[u] = s.vb[u]
  BY DequeueFrame
<1> HIDE DEF t
<1>2. \A u \in Ids \ {v} : SameRequest(s, t, u)
  BY <1>1 DEF SameRequest, SameFlip, SameClient, SameName
<1>3. Unfinished(t, v, v)
  BY DEF Unfinished
<1>4. Booked(t, n, v, a, h, d)
  BY <1>1, <1>2, <1>3, MovedBooked DEF SameFlip, SameClient, SameShow
<1> QED BY <1>4 DEF t

(* present_execute_post or present_execute_copy or present_flip. *)
LEMMA PresentBooked ==
  ASSUME NEW s \in State, NEW v \in Ids, NEW now \in Mscs, NEW refuse,
         NEW n, NEW a \in SUBSET Windows, NEW h \in SUBSET Windows, NEW d,
         Booked(s, n, v, a, h, d), v # s.pending, v \notin d, s.vb[v].pix # NoPix,
         s.vb[v].flip => s.pending = Unset
  PROVE  Booked(Present(s, v, now, refuse), n, Unset, a, h, d)
<1> DEFINE r == IF s.vb[v].flip THEN FlipRefused(s, v) ELSE s
           w == s.vb[v].win
           u == StopFlipping(r, w)
           t == ExecuteCopy(u, v, now, refuse)
<1>1. Present(s, v, now, refuse)
        = IF s.vb[v].flip /\ "flip" \notin refuse THEN StartFlip(s, v) ELSE t
  BY DEF Present
<1>2. CASE s.vb[v].flip /\ "flip" \notin refuse
  <2>1. Present(s, v, now, refuse) = StartFlip(s, v)
    BY <1>1, <1>2
  <2> QED BY <1>2, <2>1, StartFlipBooked
<1>3. CASE ~(s.vb[v].flip /\ "flip" \notin refuse)
  <2>1. r \in State /\ SameBook(s, r)
    BY FlipRefusedType, WaitingBook, SameBookSelf
  <2> HIDE DEF r
  <2>2. u \in State /\ SameBook(r, u)
    BY <2>1, StopFlippingType, StopFlippingBook
  <2> HIDE DEF u
  <2>3. SameBook(s, u)
    BY <2>1, <2>2, SameBookTwice
  <2>4. Booked(u, n, v, a, h, d) /\ u.pending = s.pending /\ u.vb[v].pix # NoPix
    BY <2>3, BookedSame DEF SameBook, SameFlip
  <2>5. Booked(t, n, Unset, a, h, d)
    BY <2>2, <2>4, ExecuteCopyBooked
  <2> HIDE DEF t
  <2>6. Present(s, v, now, refuse) = t
    BY <1>1, <1>3
  <2> QED BY <2>5, <2>6
<1> QED BY <1>2, <1>3

(* present_execute. *)
LEMMA ExecuteBooked ==
  ASSUME NEW s \in State, NEW v \in Ids, NEW now \in Mscs, NEW refuse,
         NEW n, NEW a \in SUBSET Windows, NEW h \in SUBSET Windows, NEW d,
         Sound(s, n, Unset), Booked(s, n, Unset, a, h, d),
         s.vb[v].queued \/ v = s.pending, v \notin d
  PROVE  Booked(Execute(s, v, now, refuse), n, Unset, a, h, d)
<1>0. /\ v = s.pending => s.vb[v].flip /\ s.vb[v].pix # NoPix
      /\ v # Unset
  BY DEF Sound, Ids, Unset
<1>1. CASE s.vb[v].win = NoWin
  <2>1. Execute(s, v, now, refuse) = Halt(s, "null")
    BY <1>1 DEF Execute
  <2> QED BY <2>1, HaltBook, BookedSame
<1>2. CASE s.vb[v].win # NoWin /\ Requeues(s, v, now, refuse)
  <2>1. Execute(s, v, now, refuse) = QueueVblank(s, v)
    BY <1>2 DEF Execute
  <2> QED BY <2>1, WaitingBook, BookedSame
<1>3. CASE s.vb[v].win # NoWin /\ ~Requeues(s, v, now, refuse) /\ WaitsForFence(s, v)
  <2>1. Execute(s, v, now, refuse) = AwaitFence(s, v)
    BY <1>3 DEF Execute
  <2> QED BY <2>1, WaitingBook, BookedSame
<1>4. CASE /\ s.vb[v].win # NoWin /\ ~Requeues(s, v, now, refuse)
           /\ ~WaitsForFence(s, v) /\ MustDefer(s, v)
  <2>1. Execute(s, v, now, refuse) = DeferFlip(s, v)
    BY <1>4 DEF Execute
  <2> QED BY <2>1, WaitingBook, BookedSame
<1>5. CASE /\ s.vb[v].win # NoWin /\ ~Requeues(s, v, now, refuse)
           /\ ~WaitsForFence(s, v) /\ ~MustDefer(s, v)
  <2> DEFINE t == Dequeue(s, v)
             p == Present(t, v, now, refuse)
             x == ExecutePost(t, v, now)
  <2>1. v # s.pending /\ s.vb[v].queued
    BY <1>0, <1>5 DEF MustDefer
  <2>2. t \in State /\ Booked(t, n, v, a, h, d)
    BY <2>1, DequeueType, DequeueBooked
  <2>3. /\ t.vb[v].flip = s.vb[v].flip /\ t.vb[v].pix = s.vb[v].pix
        /\ t.pending = s.pending
    BY DequeueFrame DEF SameShow, SameFlip
  <2>4. Execute(s, v, now, refuse) = IF s.vb[v].pix # NoPix THEN p ELSE x
    BY <1>5 DEF Execute
  <2> HIDE DEF t
  <2>5. CASE s.vb[v].pix # NoPix
    <3>1. t.vb[v].flip => t.pending = Unset
      BY <1>5, <2>3, <2>5 DEF MustDefer
    <3>2. Booked(p, n, Unset, a, h, d)
      BY <2>1, <2>2, <2>3, <2>5, <3>1, PresentBooked
    <3> HIDE DEF p
    <3> QED BY <2>4, <2>5, <3>2
  <2>6. CASE s.vb[v].pix = NoPix
    <3>1. Entry(t, v, n, v, a, h, d)
      BY <2>2 DEF Booked
    <3>2. t.idle[v] = IF t.vb[v].kind = "pixmap" THEN 1 ELSE 0
      BY <2>3, <2>6, <3>1 DEF Entry, Owes, Unfinished
    <3>3. t.idle[v] \in {0, 1} /\ (t.vb[v].kind = "pixmap" => t.idle[v] = 1)
      BY <3>2
    <3>4. SameQueues(t, t) /\ SameFlip(t, t)
      BY DEF SameQueues, SameFlip
    <3>5. Booked(x, n, Unset, a, h, d)
      BY <2>1, <2>2, <2>3, <3>3, <3>4, ExecutePostBooked
    <3> HIDE DEF x
    <3> QED BY <2>4, <2>6, <3>5
  <2> QED BY <2>5, <2>6
<1> QED BY <1>1, <1>2, <1>3, <1>4, <1>5

-----------------------------------------------------------------------------
(* Completion of flips.                                                     *)

(* present_flip_try_ready. *)
LEMMA FlipTryReadyBooked ==
  ASSUME NEW s \in State, NEW refuse, msc \in Mscs,
         NEW n, NEW a \in SUBSET Windows, NEW h \in SUBSET Windows,
         Sound(s, n, Unset), Booked(s, n, Unset, a, h, {})
  PROVE  Booked(FlipTryReady(s, refuse), n, Unset, a, h, {})
<1>1. CASE FlipTryReady(s, refuse) = s
  BY <1>1
<1>2. CASE \E v \in Ids : /\ Contains(s.flipQ, v) /\ s.vb[v].queued
                          /\ FlipTryReady(s, refuse) = Execute(s, v, msc, refuse)
  BY <1>2, ExecuteBooked
<1> QED BY <1>1, <1>2, FlipTryReadyRuns

(* present_flip_idle. *)
LEMMA FlipIdleBooked ==
  ASSUME NEW s \in State,
         NEW n, NEW a \in SUBSET Windows, NEW h \in SUBSET Windows, NEW d,
         Booked(s, n, Unset, a, h, d)
  PROVE  Booked(FlipIdle(s), n, Unset, a, h, d)
<1> DEFINE t == FlipIdle(s)
           v == s.flipOf
<1>1. /\ SameQueues(s, t) /\ t.pending = s.pending
      /\ t.flipOf = Unset /\ t.flipPix = NoPix /\ t.flipWin \in {s.flipWin, NoWin}
      /\ t.done = s.done
      /\ v \in Ids => t.idle[v] = s.idle[v] + 1
      /\ \A u \in Ids \ {v} : t.idle[u] = s.idle[u]
  BY FlipIdleFrame DEF Booked
<1>2. CASE s.flipPix = NoPix
  BY <1>2 DEF FlipIdle
<1>3. CASE s.flipPix # NoPix
  <2>1. v \in Ids /\ v # Unset /\ Unset \notin Ids
    BY <1>3 DEF Booked, State, Ids, Unset
  <2> HIDE DEF t, v
  <2>2. Entry(s, v, n, Unset, a, h, d) /\ s.flipOf = v
    BY <2>1 DEF Booked, v
  <2>3. ~Unfinished(s, v, Unset) /\ ~(v >= n)
    BY <2>2 DEF Entry, Owes
  <2>4. ~Unfinished(t, v, Unset) /\ SameName(s.vb[v], t.vb[v]) /\ t.vb[v] = s.vb[v]
    BY <1>1, <2>3 DEF Unfinished, SameQueues, SameName
  <2>5. s.idle[v] = 0
    BY <2>2, <2>3 DEF Entry, Owes
  <2>6. t.idle[v] = 1
    BY <1>1, <2>1, <2>5
  <2>7. Owes(t, v, n, Unset, a)
    BY <1>1, <2>1, <2>2, <2>3, <2>4, <2>6 DEF Entry, Owes
  <2>8. Housed(t, v, Unset, h) /\ Reached(t, v, Unset, d)
    BY <1>1, <2>2, <2>3, <2>4 DEF Entry, Housed, Reached, Unfinished, SameQueues
  <2>9. \A u \in Ids \ {v} : SameRequest(s, t, u)
    BY <1>1, <2>1, <2>2 DEF SameRequest, SameQueues, SameName
  <2>10. t.flipWin \in h \cup {NoWin} /\ (t.flipOf = Unset <=> t.flipPix = NoPix)
    BY <1>1 DEF Booked
  <2>11. t.vb[v].queued \/ v = Unset => s.vb[v].queued \/ v = Unset
    BY <2>4
  <2>12. Entry(t, v, n, Unset, a, h, d)
    BY <2>7, <2>8 DEF Entry
  <2>13. Booked(t, n, Unset, a, h, d)
    BY <2>1, <2>4, <2>9, <2>10, <2>11, <2>12, BookedOne
  <2> QED BY <2>13 DEF t
<1> QED BY <1>2, <1>3

(* The pending flip v is now what the screen shows, and its request is over. *)
Taken(s, t, v) ==
  /\ \A u \in Ids \ {v} : t.vb[u] = s.vb[u] /\ t.done[u] = s.done[u]
  /\ SameName(s.vb[v], t.vb[v])
  /\ t.vb[v].pix = NoPix /\ ~t.vb[v].queued /\ ~t.vb[v].cb
  /\ t.execQ = s.execQ \ {v} /\ t.idle = s.idle
  /\ s.vb[v].win = NoWin => t.done[v] = s.done[v]
  /\ s.vb[v].win # NoWin => t.done[v].n = s.done[v].n + 1 /\ t.done[v].mode = "flip"
  /\ t.pending = Unset /\ t.flipOf = v /\ t.flipWin = s.vb[v].win /\ t.flipPix # NoPix

LEMMA TakenBooked ==
  ASSUME NEW s, NEW t, NEW v \in Ids,
         NEW n, NEW a \in SUBSET Windows, NEW h \in SUBSET Windows,
         Booked(s, n, Unset, a, h, {}), s.pending = v, s.flipOf = Unset,
         ~s.vb[v].queued, s.vb[v].pix # NoPix, Taken(s, t, v)
  PROVE  Booked(t, n, Unset, a, h, {})
<1>0. /\ \A u \in Ids \ {v} : t.vb[u] = s.vb[u] /\ t.done[u] = s.done[u]
      /\ SameName(s.vb[v], t.vb[v])
      /\ t.vb[v].pix = NoPix /\ ~t.vb[v].queued /\ ~t.vb[v].cb
      /\ t.execQ = s.execQ \ {v} /\ t.idle = s.idle
      /\ s.vb[v].win # NoWin => t.done[v].n = s.done[v].n + 1
      /\ t.pending = Unset /\ t.flipOf = v /\ t.flipWin = s.vb[v].win
      /\ t.flipPix # NoPix
  BY DEF Taken
<1>1. Entry(s, v, n, Unset, a, h, {}) /\ v # Unset /\ Unset \notin Ids
  BY DEF Booked, Ids, Unset
<1>2. ~Unfinished(t, v, Unset) /\ Unfinished(s, v, Unset)
  BY <1>0, <1>1 DEF Unfinished
<1>3. ~(v >= n) /\ s.done[v].n = 0 /\ s.idle[v] = 0
  BY <1>1, <1>2 DEF Entry, Owes
<1>4. t.vb[v].win \in a => t.done[v].n = 1
  BY <1>0, <1>3, SentinelAssumption DEF SameName
<1>5. Owes(t, v, n, Unset, a)
  BY <1>0, <1>2, <1>3, <1>4 DEF Owes
<1>6. Housed(t, v, Unset, h) /\ Reached(t, v, Unset, {})
  BY <1>0, <1>1 DEF Housed, Reached
<1>7. Entry(t, v, n, Unset, a, h, {})
  BY <1>5, <1>6 DEF Entry
<1>8. \A u \in Ids \ {v} : SameRequest(s, t, u)
  BY <1>0, <1>1 DEF SameRequest, SameName
<1>9. t.flipWin \in h \cup {NoWin} /\ (t.flipOf = Unset <=> t.flipPix = NoPix)
  BY <1>0, <1>1 DEF Entry, Housed
<1>10. ~(t.vb[v].queued \/ v = Unset)
  BY <1>0, <1>1
<1> QED BY <1>0, <1>7, <1>8, <1>9, <1>10, BookedOne

(* What present_flip_notify does before it looks for the next flip. *)
LEMMA FlipNotifySteps ==
  ASSUME NEW s \in State, NEW v \in Ids, NEW now \in Mscs, NEW refuse,
         NEW n, NEW a \in SUBSET Windows, NEW h \in SUBSET Windows,
         Sound(s, n, Unset), Booked(s, n, Unset, a, h, {}), v = s.pending
  PROVE  \E x \in State : /\ FlipNotify(s, v, now, refuse) = FlipTryReady(x, refuse)
                          /\ Sound(x, n, Unset) /\ Taken(FlipIdle(s), x, v)
<1> DEFINE i == FlipIdle(s)
           t == TakeFlip(i, v)
           u == IF s.vb[v].abort THEN Unflip(t) ELSE t
           y == VblankNotify(u, v, "flip", now)
           x == VblankDestroy(y, v)
<1>1. FlipNotify(s, v, now, refuse) = FlipTryReady(x, refuse)
  BY DEF FlipNotify
<1>2. /\ i \in State /\ Sound(i, n, Unset) /\ Booked(i, n, Unset, a, h, {})
      /\ i.pending = v /\ i.flipOf = Unset
  <2>1. i.pending = s.pending /\ i.flipOf = Unset
    BY FlipIdleFrame DEF Booked
  <2> QED BY <2>1, FlipIdleType, FlipIdleSound, FlipIdleBooked
<1> HIDE DEF i
<1>3. v # Unset /\ ~i.vb[v].queued /\ i.vb[v].pix # NoPix
  BY <1>2 DEF Sound, Ids, Unset
<1>4. /\ t \in State /\ Sound(t, n, v)
      /\ t.execQ = i.execQ /\ t.pending = Unset /\ t.flipOf = v
      /\ t.flipWin = i.vb[v].win /\ t.flipPix = i.vb[v].pix /\ SameClient(i, t)
      /\ SameName(i.vb[v], t.vb[v])
      /\ \A k \in Ids \ {v} : t.vb[k] = i.vb[k]
  BY <1>2, TakeFlipType, TakeFlipSound, TakeFlipFrame
<1> HIDE DEF t
<1>5. /\ u \in State /\ Sound(u, n, v)
      /\ u.execQ = i.execQ /\ u.pending = Unset /\ u.flipOf = v
      /\ u.flipWin = i.vb[v].win /\ u.flipPix = i.vb[v].pix /\ SameClient(i, u)
      /\ SameName(i.vb[v], u.vb[v])
      /\ \A k \in Ids \ {v} : u.vb[k] = i.vb[k]
  <2>1. CASE s.vb[v].abort
    <3>1. u = Unflip(t)
      BY <2>1
    <3> HIDE DEF u
    <3>2. SameQueues(t, u) /\ SameFlip(t, u) /\ SameClient(t, u)
      BY <1>4, <3>1, UnflipFrame
    <3>3. u \in State /\ Sound(u, n, v)
      <4>1. ~t.unflip /\ t.flipPix # NoPix
        BY <1>2, <1>3, <1>4, TakeFlipSound DEF t
      <4> QED BY <1>4, <3>1, <4>1, UnflipType, UnflipSound
    <3> QED BY <1>4, <3>2, <3>3 DEF SameQueues, SameFlip, SameClient
  <2>2. CASE ~s.vb[v].abort
    <3>1. u = t
      BY <2>2
    <3> HIDE DEF u
    <3> QED BY <1>4, <3>1
  <2> QED BY <2>1, <2>2
<1> HIDE DEF u
<1>6. /\ y \in State /\ SameQueues(u, y) /\ SameFlip(u, y) /\ y.idle = u.idle
      /\ \A k \in Ids \ {v} : y.done[k] = u.done[k]
      /\ u.vb[v].win = NoWin => y.done[v] = u.done[v]
      /\ u.vb[v].win # NoWin => y.done[v].n = u.done[v].n + 1 /\ y.done[v].mode = "flip"
  <2>1. y \in State
    BY <1>5, VblankNotifyType DEF Modes
  <2> QED BY <1>5, <2>1, VblankNotifyFrame
<1>7. Sound(y, n, v) /\ y.pending = Unset
  <2>1. SameFlips(u, y)
    BY <1>5, VblankNotifySame
  <2> HIDE DEF y
  <2> QED BY <1>5, <1>6, <2>1, SoundSame DEF SameFlip
<1> HIDE DEF y
<1>8. x \in State /\ Sound(x, n, Unset)
  <2>1. IsInjective(y.flipQ) /\ v # y.pending
    BY <1>3, <1>7 DEF Sound
  <2> QED BY <1>6, <1>7, <2>1, VblankDestroyType, VblankDestroySound
<1>9. /\ x.execQ = y.execQ \ {v} /\ SameFlip(y, x) /\ SameClient(y, x)
      /\ SameName(y.vb[v], x.vb[v]) /\ x.vb[v].pix = NoPix
      /\ ~x.vb[v].queued /\ ~x.vb[v].cb
      /\ \A k \in Ids \ {v} : x.vb[k] = y.vb[k]
  BY <1>6, VblankDestroyFrame
<1> HIDE DEF x
<1>10. /\ SameName(i.vb[v], x.vb[v]) /\ x.execQ = i.execQ \ {v} /\ x.idle = i.idle
       /\ x.pending = Unset /\ x.flipOf = v
       /\ x.flipWin = i.vb[v].win /\ x.flipPix # NoPix
  BY <1>3, <1>5, <1>6, <1>9 DEF SameName, SameQueues, SameFlip, SameClient
<1>11. \A k \in Ids \ {v} : x.vb[k] = i.vb[k] /\ x.done[k] = i.done[k]
  BY <1>5, <1>6, <1>9 DEF SameQueues, SameClient
<1>12. /\ i.vb[v].win = NoWin => x.done[v] = i.done[v]
       /\ i.vb[v].win # NoWin => x.done[v].n = i.done[v].n + 1 /\ x.done[v].mode = "flip"
  BY <1>5, <1>6, <1>9 DEF SameName, SameClient
<1>13. Taken(i, x, v)
  BY <1>8, <1>9, <1>10, <1>11, <1>12 DEF Taken
<1> QED BY <1>1, <1>8, <1>13 DEF i

(* present_flip_notify. *)
LEMMA FlipNotifyBooked ==
  ASSUME NEW s \in State, NEW v \in Ids, NEW now \in Mscs, NEW refuse, msc \in Mscs,
         NEW n, NEW a \in SUBSET Windows, NEW h \in SUBSET Windows,
         Sound(s, n, Unset), Booked(s, n, Unset, a, h, {})
  PROVE  Booked(FlipNotify(s, v, now, refuse), n, Unset, a, h, {})
<1> DEFINE i == FlipIdle(s)
<1>1. CASE v # s.pending
  <2>1. FlipNotify(s, v, now, refuse) = Halt(s, "assert")
    BY <1>1 DEF FlipNotify
  <2> QED BY <2>1, HaltBook, BookedSame
<1>2. CASE v = s.pending
  <2>1. PICK x \in State : /\ FlipNotify(s, v, now, refuse) = FlipTryReady(x, refuse)
                           /\ Sound(x, n, Unset) /\ Taken(i, x, v)
    BY <1>2, FlipNotifySteps
  <2>2. /\ i \in State /\ Sound(i, n, Unset) /\ Booked(i, n, Unset, a, h, {})
        /\ i.pending = v /\ i.flipOf = Unset
    <3>1. i.pending = s.pending /\ i.flipOf = Unset
      BY FlipIdleFrame DEF Booked
    <3> QED BY <1>2, <3>1, FlipIdleType, FlipIdleSound, FlipIdleBooked
  <2> HIDE DEF i
  <2>3. ~i.vb[v].queued /\ i.vb[v].pix # NoPix
    BY <2>2 DEF Sound, Ids, Unset
  <2>4. Booked(x, n, Unset, a, h, {})
    BY <2>1, <2>2, <2>3, TakenBooked
  <2> QED BY <2>1, <2>4, FlipTryReadyBooked
<1> QED BY <1>1, <1>2

(* present_unflip's completion. *)
LEMMA UnflipNotifyBooked ==
  ASSUME NEW s \in State, NEW refuse, msc \in Mscs,
         NEW n, NEW a \in SUBSET Windows, NEW h \in SUBSET Windows,
         Sound(s, n, Unset), Booked(s, n, Unset, a, h, {})
  PROVE  Booked(UnflipNotify(s, refuse), n, Unset, a, h, {})
<1> DEFINE t == [s EXCEPT !.unflip = FALSE]
           u == FlipIdle(t)
<1>1. /\ t \in State /\ SameQueues(s, t) /\ SameFlip(s, t) /\ SameClient(s, t)
      /\ ~t.unflip /\ t.halted = s.halted
  BY DEF State, SameQueues, SameFlip, SameClient
<1>2. UnflipNotify(s, refuse) = FlipTryReady(u, refuse)
  BY DEF UnflipNotify
<1> HIDE DEF t
<1>3. Sound(t, n, Unset)
  BY <1>1 DEF Sound, SameQueues, SameFlip
<1>4. Booked(t, n, Unset, a, h, {})
  BY <1>1, QueuesSameBook, BookedSame
<1>5. u \in State /\ Sound(u, n, Unset) /\ Booked(u, n, Unset, a, h, {})
  BY <1>1, <1>3, <1>4, FlipIdleType, FlipIdleSound, FlipIdleBooked
<1> HIDE DEF u
<1> QED BY <1>2, <1>5, FlipTryReadyBooked

(* present_event_notify. *)
LEMMA EventNotifyBooked ==
  ASSUME NEW s \in State, NEW v \in Ids, NEW now \in Mscs, NEW refuse, msc \in Mscs,
         NEW n, NEW a \in SUBSET Windows, NEW h \in SUBSET Windows,
         Sound(s, n, Unset), Booked(s, n, Unset, a, h, {})
  PROVE  Booked(EventNotify(s, v, now, refuse), n, Unset, a, h, {})
<1>1. v \in s.execQ => s.vb[v].queued
  BY DEF Booked, Entry, Reached
<1>2. s.vb[v].queued => Booked(Execute(s, v, now, refuse), n, Unset, a, h, {})
  BY ExecuteBooked
<1>3. Booked(FlipNotify(s, v, now, refuse), n, Unset, a, h, {})
  BY FlipNotifyBooked
<1> QED BY <1>1, <1>2, <1>3 DEF EventNotify

-----------------------------------------------------------------------------
(* Windows that go, and requests that come.                                 *)

(* present_vblank_destroy of a request of a window being destroyed. *)
LEMMA DestroyedBooked ==
  ASSUME NEW s \in State, NEW v \in Ids,
         NEW n, NEW a \in SUBSET Windows, NEW h \in SUBSET Windows,
         Booked(s, n, Unset, a, h, {}), s.vb[v].queued, v # s.pending, s.vb[v].win \notin a
  PROVE  Booked(VblankDestroy(s, v), n, Unset, a, h, {})
<1> DEFINE t == VblankDestroy(s, v)
<1>1. /\ t.execQ = s.execQ \ {v} /\ SameFlip(s, t) /\ SameClient(s, t)
      /\ SameName(s.vb[v], t.vb[v]) /\ t.vb[v].pix = NoPix
      /\ ~t.vb[v].queued /\ ~t.vb[v].cb
      /\ \A u \in Ids \ {v} : t.vb[u] = s.vb[u]
  BY VblankDestroyFrame
<1> HIDE DEF t
<1>2. Entry(s, v, n, Unset, a, h, {})
  BY DEF Booked
<1>3. t.idle[v] \in {0, 1}
  BY <1>1, <1>2 DEF Entry, Owes, Unfinished, SameClient
<1>4. \A u \in Ids \ {v} : SameRequest(s, t, u)
  BY <1>1 DEF SameRequest, SameFlip, SameClient, SameName
<1>5. Booked(t, n, Unset, a, h, {})
  BY <1>1, <1>3, <1>4, FinishedBooked DEF SameFlip
<1> QED BY <1>5 DEF t

(* The pending flip's window is gone. *)
LostWindow(b, c) ==
  /\ c.win = NoWin /\ c.kind = b.kind /\ c.target = b.target /\ c.update = b.update
  /\ c.pix = b.pix /\ c.queued = b.queued /\ c.cb = b.cb /\ c.abort

LEMMA LoseWindowFrame ==
  ASSUME NEW s \in State, s.pending # Unset
  PROVE  LET c == [SetAbortFlip(s) EXCEPT !.vb[s.pending].win = NoWin]
         IN  /\ c \in State /\ c.execQ = s.execQ /\ SameFlip(s, c) /\ SameClient(s, c)
             /\ SameUnflip(s, c) /\ c.winPix = SetAbortFlip(s).winPix
             /\ LostWindow(s.vb[s.pending], c.vb[s.pending])
             /\ \A u \in Ids \ {s.pending} : c.vb[u] = s.vb[u]
<1> DEFINE a == SetAbortFlip(s)
           p == s.pending
           b == [a.vb[p] EXCEPT !.win = NoWin]
           c == [a EXCEPT !.vb[p] = b]
<1>1. /\ a \in State /\ p \in Ids /\ a.execQ = s.execQ
      /\ SameFlip(s, a) /\ SameUnflip(s, a) /\ SameClient(s, a)
      /\ SameName(s.vb[p], a.vb[p]) /\ SameShow(s.vb[p], a.vb[p])
      /\ a.vb[p].queued = s.vb[p].queued /\ a.vb[p].cb = s.vb[p].cb /\ a.vb[p].abort
      /\ \A u \in Ids \ {p} : a.vb[u] = s.vb[u]
  BY SetAbortFlipType, SetAbortFrame, PendingType
<1>2. s.pending = p /\ SetAbortFlip(s) = a
  OBVIOUS
<1>3. [SetAbortFlip(s) EXCEPT !.vb[s.pending].win = NoWin] = c
  OBVIOUS
<1> HIDE DEF a, p
<1>4. b \in Vblank /\ LostWindow(a.vb[p], b)
  <2>1. a.vb[p] \in Vblank
    BY <1>1, OneVbType
  <2> QED BY <1>1, <2>1 DEF Vblank, LostWindow
<1> HIDE DEF b
<1>5. /\ c \in State /\ c.execQ = a.execQ /\ c.winPix = a.winPix
      /\ SameFlip(a, c) /\ SameUnflip(a, c) /\ SameClient(a, c)
      /\ c.vb[p] = b /\ \A u \in Ids \ {p} : c.vb[u] = a.vb[u]
  <2>1. c \in State
    BY <1>1, <1>4, SetOneVb
  <2> QED BY <1>1, FieldTypes, <2>1, ZenonT(30)
          DEF State, SameFlip, SameUnflip, SameOwed, SameClient
<1> HIDE DEF c
<1>6. LostWindow(s.vb[p], c.vb[p])
  BY <1>1, <1>4, <1>5 DEF LostWindow, SameName, SameShow
<1>7. /\ SameFlip(s, c) /\ SameUnflip(s, c) /\ SameClient(s, c) /\ c.execQ = s.execQ
  BY <1>1, <1>5 DEF SameFlip, SameUnflip, SameClient
<1>8. \A u \in Ids \ {p} : c.vb[u] = s.vb[u]
  BY <1>1, <1>5
<1> QED BY <1>2, <1>3, <1>5, <1>6, <1>7, <1>8

(* present_clear_window_flip: what becomes of the requests. *)
Cleared(s, k, w) ==
  /\ k.execQ = s.execQ /\ SameClient(s, k) /\ k.pending = s.pending
  /\ k.flipOf = s.flipOf /\ k.flipPix = s.flipPix
  /\ k.flipWin = IF s.flipWin = w THEN NoWin ELSE s.flipWin
  /\ \A u \in Ids :
       /\ k.vb[u].pix = s.vb[u].pix /\ k.vb[u].queued = s.vb[u].queued
       /\ k.vb[u].cb = s.vb[u].cb /\ k.vb[u].kind = s.vb[u].kind
       /\ k.vb[u].target = s.vb[u].target /\ k.vb[u].update = s.vb[u].update
       /\ u # s.pending => k.vb[u].win = s.vb[u].win
       /\ u = s.pending => k.vb[u].win = IF s.vb[u].win = w THEN NoWin ELSE s.vb[u].win

LEMMA ClearWindowFlipFrame ==
  ASSUME NEW s \in State, NEW w \in Windows
  PROVE  Cleared(s, ClearWindowFlip(s, w), w)
<1> DEFINE t == IF s.pending # Unset /\ s.vb[s.pending].win = w
                THEN [SetAbortFlip(s) EXCEPT !.vb[s.pending].win = NoWin] ELSE s
           r == RestoreScreenPixmap(t)
           e == [r EXCEPT !.flipWin = NoWin]
           k == ClearWindowFlip(s, w)
<1>1. /\ t \in State /\ SameFlip(s, t) /\ SameClient(s, t) /\ t.execQ = s.execQ
      /\ \A u \in Ids : /\ t.vb[u].pix = s.vb[u].pix /\ t.vb[u].queued = s.vb[u].queued
                        /\ t.vb[u].cb = s.vb[u].cb
                        /\ t.vb[u].kind = s.vb[u].kind /\ t.vb[u].target = s.vb[u].target
                        /\ t.vb[u].update = s.vb[u].update
                        /\ u # s.pending => t.vb[u].win = s.vb[u].win
                        /\ u = s.pending => t.vb[u].win = IF s.vb[u].win = w THEN NoWin
                                                          ELSE s.vb[u].win
  <2>1. CASE s.pending # Unset /\ s.vb[s.pending].win = w
    <3> DEFINE c == [SetAbortFlip(s) EXCEPT !.vb[s.pending].win = NoWin]
    <3>1. /\ c \in State /\ c.execQ = s.execQ /\ SameFlip(s, c) /\ SameClient(s, c)
          /\ LostWindow(s.vb[s.pending], c.vb[s.pending])
          /\ \A u \in Ids \ {s.pending} : c.vb[u] = s.vb[u]
      BY <2>1, LoseWindowFrame
    <3>2. t = c
      BY <2>1
    <3> HIDE DEF c, t
    <3> QED BY <2>1, <3>1, <3>2 DEF LostWindow
  <2>2. CASE ~(s.pending # Unset /\ s.vb[s.pending].win = w)
    <3>1. t = s
      BY <2>2
    <3> HIDE DEF t
    <3>2. \A u \in Ids : u # Unset
      BY DEF Ids, Unset
    <3> QED BY <2>2, <3>1, <3>2 DEF SameFlip, SameClient
  <2> QED BY <2>1, <2>2
<1>2. k = IF t.flipWin = w THEN e ELSE t
  BY DEF ClearWindowFlip
<1> HIDE DEF t, k
<1>3. /\ SameQueues(t, k) /\ SameClient(t, k) /\ k.pending = t.pending
      /\ k.flipOf = t.flipOf /\ k.flipPix = t.flipPix
      /\ k.flipWin = IF t.flipWin = w THEN NoWin ELSE t.flipWin
  <2>1. CASE t.flipWin = w
    <3>1. r \in State /\ SameState(t, r)
      BY <1>1, RestoreScreenPixmapType, RestoreFrame
    <3> HIDE DEF r
    <3>2. /\ SameQueues(r, e) /\ SameClient(r, e) /\ e.pending = r.pending
          /\ e.flipOf = r.flipOf /\ e.flipPix = r.flipPix /\ e.flipWin = NoWin
      BY <3>1 DEF State, SameQueues, SameClient
    <3> HIDE DEF e
    <3> QED BY <1>2, <2>1, <3>1, <3>2
            DEF SameState, SameQueues, SameFlip, SameClient
  <2>2. CASE t.flipWin # w
    BY <1>2, <2>2 DEF SameQueues, SameClient
  <2> QED BY <2>1, <2>2
<1>4. ASSUME NEW u \in Ids
      PROVE  /\ k.vb[u].pix = s.vb[u].pix /\ k.vb[u].queued = s.vb[u].queued
             /\ k.vb[u].cb = s.vb[u].cb /\ k.vb[u].kind = s.vb[u].kind
             /\ k.vb[u].target = s.vb[u].target /\ k.vb[u].update = s.vb[u].update
             /\ u # s.pending => k.vb[u].win = s.vb[u].win
             /\ u = s.pending => k.vb[u].win = IF s.vb[u].win = w THEN NoWin
                                               ELSE s.vb[u].win
  BY <1>1, <1>3 DEF SameQueues
<1>5. /\ k.execQ = s.execQ /\ SameClient(s, k) /\ k.pending = s.pending
      /\ k.flipOf = s.flipOf /\ k.flipPix = s.flipPix
      /\ k.flipWin = IF s.flipWin = w THEN NoWin ELSE s.flipWin
  BY <1>1, <1>3 DEF SameQueues, SameFlip, SameClient
<1>6. Cleared(s, k, w)
  BY <1>4, <1>5 DEF Cleared
<1> QED BY <1>6 DEF k

(* present_clear_window_flip, after which nothing is known of the window. *)
LEMMA ClearWindowFlipBooked ==
  ASSUME NEW s \in State, NEW w \in Windows,
         NEW n, NEW a \in SUBSET Windows, NEW h \in SUBSET Windows, NEW d,
         Sound(s, n, Unset), Booked(s, n, Unset, a, h, d),
         \A v \in Ids : s.vb[v].queued => s.vb[v].win # w
  PROVE  Booked(ClearWindowFlip(s, w), n, Unset, a \ {w}, h \ {w}, d)
<1> DEFINE k == ClearWindowFlip(s, w)
<1>0. Cleared(s, k, w)
  BY ClearWindowFlipFrame
<1> HIDE DEF k
<1>1. ASSUME NEW u \in Ids
      PROVE  /\ k.vb[u].pix = s.vb[u].pix /\ k.vb[u].queued = s.vb[u].queued
             /\ k.vb[u].cb = s.vb[u].cb /\ k.vb[u].kind = s.vb[u].kind
             /\ k.vb[u].target = s.vb[u].target /\ k.vb[u].update = s.vb[u].update
             /\ u # s.pending => k.vb[u].win = s.vb[u].win
             /\ u = s.pending => k.vb[u].win = IF s.vb[u].win = w THEN NoWin
                                               ELSE s.vb[u].win
  BY <1>0 DEF Cleared
<1>2. /\ k.execQ = s.execQ /\ SameClient(s, k) /\ k.pending = s.pending
      /\ k.flipOf = s.flipOf /\ k.flipPix = s.flipPix
      /\ k.flipWin = IF s.flipWin = w THEN NoWin ELSE s.flipWin
  BY <1>0 DEF Cleared
<1>3. ASSUME NEW u \in Ids PROVE Entry(k, u, n, Unset, a \ {w}, h \ {w}, d)
  <2>1. Entry(s, u, n, Unset, a, h, d) /\ u # Unset
    BY DEF Booked, Ids, Unset
  <2>2. Unfinished(k, u, Unset) <=> Unfinished(s, u, Unset)
    BY <1>1, <1>2 DEF Unfinished
  <2>3. u # s.pending => k.vb[u].win = s.vb[u].win
    BY <1>1
  <2>4. u = s.pending => Unfinished(s, u, Unset)
    BY DEF Unfinished
  <2>5. Owes(k, u, n, Unset, a \ {w})
    BY <1>1, <1>2, <2>1, <2>2, <2>3, <2>4 DEF Entry, Owes, SameClient
  <2>6. Housed(k, u, Unset, h \ {w})
    <3>1. u = s.pending => ~s.vb[u].queued
      BY <2>1 DEF Sound
    <3> QED BY <1>1, <1>2, <2>1, <3>1 DEF Entry, Housed
  <2>7. Reached(k, u, Unset, d)
    BY <1>1, <1>2, <2>1, <2>2 DEF Entry, Reached
  <2> QED BY <2>5, <2>6, <2>7 DEF Entry
<1>4. Ages(s, k, Unset, Unset)
  <2> SUFFICES ASSUME NEW u \in Ids
      PROVE /\ k.vb[u].kind = s.vb[u].kind /\ k.vb[u].target = s.vb[u].target
            /\ k.vb[u].update = s.vb[u].update
            /\ k.vb[u].win = s.vb[u].win \/ k.vb[u].win = NoWin
            /\ k.vb[u].queued \/ u = Unset =>
                 /\ s.vb[u].queued \/ u = Unset
                 /\ k.vb[u].win = s.vb[u].win /\ k.vb[u].win # NoWin
                 /\ s.vb[u].pix = NoPix => k.vb[u].pix = NoPix
    BY DEF Ages
  <2>1. Entry(s, u, n, Unset, a, h, d) /\ u # Unset
    BY DEF Booked, Ids, Unset
  <2>2. s.vb[u].queued => s.vb[u].win # NoWin /\ u # s.pending
    BY <2>1, SentinelAssumption DEF Entry, Housed, Sound
  <2> QED BY <1>1, <2>1, <2>2
<1>5. Replaced(k, Unset)
  BY <1>4, ReplacedAges DEF Booked
<1>6. k.flipWin \in (h \ {w}) \cup {NoWin} /\ (k.flipOf = Unset <=> k.flipPix = NoPix)
  BY <1>2 DEF Booked
<1>7. Booked(k, n, Unset, a \ {w}, h \ {w}, d)
  BY <1>3, <1>5, <1>6 DEF Booked
<1> QED BY <1>7 DEF k

-----------------------------------------------------------------------------
(* present_scmd_pixmap.                                                     *)

(* A loop has less to do, and fewer windows are left. *)
LEMMA BookedLess ==
  ASSUME NEW s, NEW n, NEW x, NEW a, NEW b \in SUBSET a, NEW h, NEW d, NEW e \in SUBSET d,
         Booked(s, n, x, a, h, d)
  PROVE  Booked(s, n, x, b, h, e)
<1>1. ASSUME NEW v \in Ids PROVE Entry(s, v, n, x, b, h, e)
  <2>1. Entry(s, v, n, x, a, h, d)
    BY DEF Booked
  <2>2. Owes(s, v, n, x, b)
    BY <2>1 DEF Entry, Owes
  <2>3. Reached(s, v, x, e)
    BY <2>1 DEF Entry, Reached
  <2> QED BY <2>1, <2>2, <2>3 DEF Entry
<1> QED BY <1>1 DEF Booked

(* A loop over requests that are not over. *)
LEMMA BookedLoop ==
  ASSUME NEW s, NEW n, NEW x, NEW a, NEW h, NEW d,
         Booked(s, n, x, a, h, {}), \A v \in d : Unfinished(s, v, x)
  PROVE  Booked(s, n, x, a, h, d)
BY DEF Booked, Entry, Reached

(* Replaced requests lose their buffer; what wanted to flip is re-executed. *)
LEMMA ScrapBooked ==
  ASSUME NEW s \in State, NEW old \in SUBSET Ids,
         NEW n, NEW a \in SUBSET Windows, NEW h \in SUBSET Windows,
         Sound(s, n, Unset), Booked(s, n, Unset, a, h, {}),
         \A v \in old : s.vb[v].queued /\ s.vb[v].pix # NoPix
  PROVE  Booked(Scrap(s, old), n, Unset, a, h, old)
<1> DEFINE t == Scrap(s, old)
<1>1. /\ t.execQ = s.execQ /\ SameFlip(s, t) /\ t.done = s.done
      /\ \A v \in Ids \ old : t.vb[v] = s.vb[v] /\ t.idle[v] = s.idle[v]
      /\ \A v \in old : /\ SameName(s.vb[v], t.vb[v]) /\ t.vb[v].pix = NoPix
                        /\ t.vb[v].queued = s.vb[v].queued
                        /\ t.vb[v].cb = s.vb[v].cb
                        /\ t.idle[v] = s.idle[v] + 1
  BY ScrapFrame
<1> HIDE DEF t
<1>2. ASSUME NEW v \in Ids PROVE Entry(t, v, n, Unset, a, h, old)
  <2>1. Entry(s, v, n, Unset, a, h, {})
    BY DEF Booked
  <2>2. CASE v \in old
    <3>1. Unfinished(s, v, Unset) /\ Unfinished(t, v, Unset)
      BY <1>1, <2>2 DEF Unfinished
    <3>2. s.vb[v].kind = "pixmap" /\ s.idle[v] = 0 /\ s.done[v].n = 0 /\ v # s.flipOf
      BY <2>1, <2>2, <3>1 DEF Entry, Owes
    <3>3. t.idle[v] = 1 /\ t.vb[v].kind = "pixmap" /\ t.vb[v].pix = NoPix
          /\ t.done[v] = s.done[v] /\ v # t.flipOf
      BY <1>1, <2>2, <3>2 DEF SameName, SameFlip
    <3>4. ~(v >= n)
      BY <2>1, <3>1 DEF Entry, Owes
    <3>5. Owes(t, v, n, Unset, a)
      BY <3>1, <3>2, <3>3, <3>4 DEF Owes
    <3>6. Housed(t, v, Unset, h)
      BY <1>1, <2>1, <2>2 DEF Entry, Housed, SameName, SameFlip
    <3>7. Reached(t, v, Unset, old)
      BY <1>1, <2>1, <2>2, <3>1 DEF Entry, Reached
    <3> QED BY <3>5, <3>6, <3>7 DEF Entry
  <2>3. CASE v \notin old
    <3>1. SameRequest(s, t, v)
      BY <1>1, <2>3 DEF SameRequest, SameFlip, SameName
    <3>2. Entry(t, v, n, Unset, a, h, {})
      BY <2>1, <3>1, EntrySame
    <3> QED BY <2>3, <3>2 DEF Entry, Reached
  <2> QED BY <2>2, <2>3
<1>3. Replaced(t, Unset)
  <2>1. Replaced(s, Unset)
    BY DEF Booked
  <2>2. \A v \in Ids : /\ SameName(s.vb[v], t.vb[v]) /\ t.vb[v].queued = s.vb[v].queued
                       /\ s.vb[v].pix = NoPix => t.vb[v].pix = NoPix
    BY <1>1 DEF SameName
  <2> QED BY <2>1, <2>2 DEF Replaced, SameName
<1> QED BY <1>1, <1>2, <1>3 DEF Booked, SameFlip, t

(* What a new request replaces has no pixmap. *)
Vacant(s, w, p, opt, target) ==
  \/ p = NoPix \/ opt.update
  \/ \A u \in Ids : s.vb[u].queued /\ s.vb[u].win = w /\ s.vb[u].target = target
                      => s.vb[u].pix = NoPix

(* A new request. *)
LEMMA VblankCreateBooked ==
  ASSUME NEW s \in State, NEW v \in Ids, NEW w \in Windows, NEW p \in Pixmaps \cup {NoPix},
         NEW opt \in OptionRecord, NEW f \in Fences \cup {NoFence}, NEW target \in Mscs,
         msc \in Mscs, NEW a \in SUBSET Windows, NEW h \in SUBSET Windows, NEW d,
         Booked(s, v, Unset, a, h, d), w \in h, Vacant(s, w, p, opt, target)
  PROVE  Booked(VblankCreate(s, v, w, p, opt, f, target), v + 1, Unset, a, h, d)
<1> DEFINE t == VblankCreate(s, v, w, p, opt, f, target)
<1>0. t = VblankCreate(s, v, w, p, opt, f, target)
  OBVIOUS
<1> HIDE DEF t
<1>1. /\ t.execQ = s.execQ \cup {v} /\ SameFlip(s, t) /\ SameClient(s, t)
      /\ Created(t.vb[v], w, p, opt, target)
      /\ \A u \in Ids \ {v} : t.vb[u] = s.vb[u]
  BY <1>0, VblankCreateFrame
<1>2. /\ v \in Nat /\ v >= v /\ v + 1 > v /\ ~(v >= v + 1) /\ v # Unset
      /\ \A u \in Ids : u >= v + 1 => u >= v /\ u # v
      /\ \A u \in Ids : u < v + 1 /\ u # v => u < v
      /\ \A u \in Ids : v < u => u >= v
  BY DEF Ids, Unset
<1>3. /\ s.vb[v].kind = "none" /\ ~Unfinished(s, v, Unset)
      /\ s.idle[v] = 0 /\ s.done[v].n = 0 /\ v # s.flipOf
      /\ v \notin d
  <2>1. Entry(s, v, v, Unset, a, h, d)
    BY DEF Booked
  <2> QED BY <1>2, <2>1 DEF Entry, Owes, Reached
<1>4. ASSUME NEW u \in Ids PROVE Entry(t, u, v + 1, Unset, a, h, d)
  <2>1. CASE u = v
    <3>1. /\ t.vb[v].queued /\ ~t.vb[v].cb /\ t.vb[v].win = w /\ t.vb[v].pix = p
          /\ t.vb[v].kind = IF p = NoPix THEN "msc" ELSE "pixmap"
      BY <1>1 DEF Created
    <3>2. t.idle[v] = 0 /\ t.done[v].n = 0 /\ v # t.flipOf /\ v # t.pending
      BY <1>1, <1>3 DEF SameFlip, SameClient, Unfinished
    <3>3. Unfinished(t, v, Unset)
      BY <3>1 DEF Unfinished
    <3>4. Owes(t, v, v + 1, Unset, a)
      BY <1>2, <3>1, <3>2, <3>3 DEF Owes
    <3>5. Housed(t, v, Unset, h)
      BY <3>1, <3>2 DEF Housed
    <3>6. Reached(t, v, Unset, d)
      BY <3>1, <3>3 DEF Reached
    <3> QED BY <2>1, <3>4, <3>5, <3>6 DEF Entry
  <2>2. CASE u # v
    <3>1. Entry(s, u, v, Unset, a, h, d)
      BY DEF Booked
    <3>2. t.vb[u] = s.vb[u] /\ t.idle[u] = s.idle[u] /\ t.done[u] = s.done[u]
          /\ (u = t.flipOf <=> u = s.flipOf) /\ (u = t.pending <=> u = s.pending)
          /\ (u \in t.execQ <=> u \in s.execQ)
      BY <1>1, <2>2 DEF SameFlip, SameClient
    <3>3. Unfinished(t, u, Unset) <=> Unfinished(s, u, Unset)
      BY <3>2 DEF Unfinished
    <3>4. Owes(t, u, v + 1, Unset, a)
      BY <1>2, <2>2, <3>1, <3>2, <3>3 DEF Entry, Owes
    <3>5. Housed(t, u, Unset, h)
      BY <3>1, <3>2 DEF Entry, Housed
    <3>6. Reached(t, u, Unset, d)
      BY <3>1, <3>2, <3>3 DEF Entry, Reached
    <3> QED BY <3>4, <3>5, <3>6 DEF Entry
  <2> QED BY <2>1, <2>2
<1>5. Replaced(t, Unset)
  <2> SUFFICES ASSUME NEW u \in Ids, NEW o \in Ids, o < u, t.vb[o].queued,
                      t.vb[u].kind = "pixmap", ~t.vb[u].update,
                      t.vb[o].win = t.vb[u].win, t.vb[o].target = t.vb[u].target
               PROVE  t.vb[o].pix = NoPix
    BY DEF Replaced, Ids, Unset
  <2>1. o # v
    <3>1. Entry(s, u, v, Unset, a, h, d)
      BY DEF Booked
    <3>2. SUFFICES ASSUME o = v PROVE FALSE
      OBVIOUS
    <3>3. u >= v /\ u # v
      BY <3>2 DEF Ids
    <3>4. t.vb[u] = s.vb[u]
      BY <1>1, <3>3
    <3>5. s.vb[u].kind = "none"
      BY <3>1, <3>3 DEF Entry, Owes
    <3> QED BY <3>4, <3>5
  <2>2. t.vb[o] = s.vb[o]
    BY <1>1, <2>1
  <2>3. CASE u = v
    <3>1. t.vb[v].win = w /\ t.vb[v].target = target /\ t.vb[v].update = opt.update
          /\ (p = NoPix => t.vb[v].kind = "msc")
      BY <1>1 DEF Created
    <3> QED BY <2>2, <2>3, <3>1 DEF Vacant
  <2>4. CASE u # v
    <3>1. t.vb[u] = s.vb[u] /\ Replaced(s, Unset)
      BY <1>1, <2>4 DEF Booked
    <3> QED BY <2>2, <3>1 DEF Replaced
  <2> QED BY <2>3, <2>4
<1> QED BY <1>1, <1>4, <1>5 DEF Booked, SameFlip, t

(* present_scmd_pixmap, whole. *)
LEMMA SubmittedBooked ==
  ASSUME NEW s \in State, NEW v \in Ids, NEW w \in Windows, NEW p \in Pixmaps \cup {NoPix},
         NEW opt \in OptionRecord, NEW f \in Fences \cup {NoFence}, NEW target \in Mscs,
         NEW refuse, msc \in Mscs, NEW a \in SUBSET Windows, NEW h \in SUBSET Windows,
         Sound(s, v, Unset), Booked(s, v, Unset, a, h, {}), w \in h
  PROVE  Booked(Submitted(s, v, w, p, opt, f, target, refuse), v + 1, Unset, a, h,
                IF p = NoPix \/ opt.update THEN {} ELSE Superseded(s, w, target))
<1> DEFINE old == IF p = NoPix \/ opt.update THEN {} ELSE Superseded(s, w, target)
           c == Scrap(s, old)
           t == VblankCreate(c, v, w, p, opt, f, target)
<1>1. old \in SUBSET Ids /\ \A u \in old : s.vb[u].queued /\ s.vb[u].pix # NoPix
  BY DEF Superseded
<1>2. Submitted(s, v, w, p, opt, f, target, refuse)
        \in {QueueVblank(t, v), Execute(t, v, msc, refuse)}
  BY DEF Submitted
<1>3. \/ p = NoPix \/ opt.update
      \/ \A u \in Ids : s.vb[u].queued /\ s.vb[u].win = w /\ s.vb[u].target = target
                          => s.vb[u].pix = NoPix \/ u \in old
  BY DEF Superseded
<1> HIDE DEF old
<1>4. c \in State /\ Sound(c, v, Unset) /\ Booked(c, v, Unset, a, h, old)
  BY <1>1, ScrapType, ScrapSound, ScrapBooked
<1>5. Vacant(c, w, p, opt, target)
  <2>1. /\ \A u \in Ids \ old : c.vb[u] = s.vb[u]
        /\ \A u \in old : c.vb[u].pix = NoPix
    BY <1>1, ScrapFrame
  <2> HIDE DEF c
  <2> QED BY <1>3, <2>1 DEF Vacant
<1> HIDE DEF c
<1>6. v \notin old
  <2>1. Entry(s, v, v, Unset, a, h, {}) /\ v >= v
    BY DEF Booked, Ids
  <2> QED BY <1>1, <2>1 DEF Entry, Owes, Unfinished
<1>7. t \in State /\ Sound(t, v + 1, Unset)
  BY <1>4, VblankCreateType, VblankCreateSound
<1>8. Booked(t, v + 1, Unset, a, h, old)
  BY <1>4, <1>5, VblankCreateBooked
<1>9. t.vb[v].queued
  <2>1. Created(t.vb[v], w, p, opt, target)
    BY <1>4, VblankCreateFrame
  <2> QED BY <2>1 DEF Created
<1> HIDE DEF t
<1>10. Booked(QueueVblank(t, v), v + 1, Unset, a, h, old)
  BY <1>7, <1>8, WaitingBook, BookedSame
<1>11. Booked(Execute(t, v, msc, refuse), v + 1, Unset, a, h, old)
  BY <1>6, <1>7, <1>8, <1>9, ExecuteBooked
<1> QED BY <1>2, <1>10, <1>11 DEF old

-----------------------------------------------------------------------------
(* Actions.                                                                 *)

(* The windows not destroyed, and the one that is going.                     *)
Homes == alive \cup ({dying} \ {NoWin})

BookedInv ==
  /\ Booked(Cur, nextId, Unset, alive, Homes, todo)
  /\ dying \notin alive /\ (dying # NoWin => todo = {})

(* An action that becomes a booked state. *)
LEMMA BecomeBooked ==
  ASSUME NEW s \in State, Become(s),
         Booked(s, nextId', Unset, alive', Homes', todo'),
         dying' \notin alive', dying' # NoWin => todo' = {}
  PROVE  BookedInv'
<1> DEFINE t == Cur'
<1>1. SameBook(s, t)
  BY BecomeFields DEF SameBook, SameFlip, SameClient, SameName
<1> HIDE DEF t
<1>2. Booked(t, nextId', Unset, alive', Homes', todo')
  BY <1>1, BookedSame
<1>3. Booked(Cur, nextId, Unset, alive, Homes, todo)'
  BY <1>2 DEF t
<1> QED BY <1>3 DEF BookedInv

(* The same, outside any loop. *)
LEMMA ServingBooked ==
  ASSUME TypeOK, NEW s \in State, Become(s), Serving, nextId' = nextId, todo' = todo,
         dying' = dying, alive' = alive, Booked(s, nextId, Unset, alive, alive, {})
  PROVE  BookedInv'
<1>1. dying' = NoWin /\ todo' = {} /\ Homes' = alive /\ NoWin \notin alive'
  BY SentinelAssumption DEF Serving, Homes, TypeOK
<1> QED BY <1>1, BecomeBooked

(* Nothing is owed at first. *)
LEMMA BookedInit == Init => BookedInv
<1> SUFFICES ASSUME Init PROVE BookedInv
  OBVIOUS
<1>1. /\ Cur.vb = vb /\ Cur.execQ = {} /\ Cur.pending = Unset /\ Cur.flipOf = Unset
      /\ Cur.flipWin = NoWin /\ Cur.flipPix = NoPix
      /\ Cur.idle = idle /\ Cur.done = done /\ nextId = 1
  BY DEF Init, Cur
<1>2. todo = {} /\ dying = NoWin /\ dying \notin alive
  BY SentinelAssumption DEF Init
<1>3. ASSUME NEW v \in Ids PROVE Entry(Cur, v, nextId, Unset, alive, Homes, todo)
  <2>1. /\ Cur.vb[v].kind = "none" /\ ~Cur.vb[v].queued /\ ~Cur.vb[v].cb
        /\ Cur.idle[v] = 0 /\ Cur.done[v].n = 0
    BY <1>1 DEF Init, Fresh
  <2>2. v # Unset /\ ~(v < nextId)
    BY <1>1 DEF Ids, Unset
  <2>3. ~Unfinished(Cur, v, Unset)
    BY <1>1, <2>1, <2>2 DEF Unfinished
  <2> QED BY <1>1, <1>2, <2>1, <2>2, <2>3 DEF Entry, Owes, Housed, Reached
<1>4. Replaced(Cur, Unset)
  <2>1. \A v \in Ids : ~Cur.vb[v].queued /\ v # Unset
    BY <1>1 DEF Init, Fresh, Ids, Unset
  <2> QED BY <2>1 DEF Replaced
<1> QED BY <1>1, <1>2, <1>3, <1>4 DEF BookedInv, Booked

(* A request keeps it; the loop that follows is over requests it replaced. *)
LEMMA SubmitBooked ==
  ASSUME TypeOK, SoundInv, BookedInv, NEW w \in Windows, NEW p \in Pixmaps \cup {NoPix},
         NEW opt \in OptionRecord, NEW f \in Fences \cup {NoFence},
         NEW wmsc \in Nat, NEW m \in Nat \X Nat, NEW refuse,
         Submit(w, p, opt, f, wmsc, m, refuse)
  PROVE  BookedInv'
<1> DEFINE target == AdjustTimings(opt.async, msc, wmsc, m[1], m[2])
           s == Submitted(Cur, nextId, w, p, opt, f, target, refuse)
           old == IF p = NoPix \/ opt.update THEN {} ELSE Superseded(Cur, w, target)
<1>1. msc \in Mscs /\ msc \in Nat /\ Cur \in State /\ nextId \in Ids /\ target <= MaxMsc
  BY BoundsAssumption DEF TypeOK, Mscs, Submit
<1>2. target \in Nat
  BY <1>1, AdjustTimingsType DEF OptionRecord
<1>3. target \in Mscs
  <2> HIDE DEF target
  <2> QED BY <1>1, <1>2, BoundsAssumption DEF Mscs
<1>4. /\ Become(s) /\ nextId' = nextId + 1 /\ alive' = alive /\ dying' = dying
      /\ Serving /\ w \in alive
  BY DEF Submit
<1>5. todo' \in SUBSET old
  BY DEF Submit
<1> HIDE DEF target
<1>6. /\ alive \in SUBSET Windows /\ dying = NoWin /\ todo = {}
      /\ Homes = alive /\ Homes' = alive /\ dying' \notin alive'
  BY <1>4, SentinelAssumption DEF TypeOK, Serving, Homes
<1>7. Booked(Cur, nextId, Unset, alive, alive, {}) /\ Sound(Cur, nextId, Unset)
  BY <1>6 DEF BookedInv, SoundInv
<1>8. s \in State
  BY <1>1, <1>3, SubmittedType
<1>9. Booked(s, nextId + 1, Unset, alive, alive, old)
  BY <1>1, <1>3, <1>4, <1>6, <1>7, SubmittedBooked
<1> HIDE DEF s, old
<1>10. Booked(s, nextId + 1, Unset, alive, alive, todo')
  BY <1>5, <1>9, BookedLess
<1> QED BY <1>4, <1>6, <1>8, <1>10, BecomeBooked

(* Every step keeps it: one step of the proof for each action. *)
LEMMA BookedNext ==
  ASSUME TypeOK, SoundInv, BookedInv, [Next]_vars
  PROVE  BookedInv'
<1>0. /\ msc \in Mscs /\ Cur \in State /\ nextId \in Nat
      /\ alive \in SUBSET Windows /\ Homes \in SUBSET Windows
      /\ Sound(Cur, nextId, Unset)
      /\ Booked(Cur, nextId, Unset, alive, Homes, todo)
  BY BoundsAssumption DEF Mscs, TypeOK, SoundInv, BookedInv, Homes
<1>00. Serving => Homes = alive /\ Booked(Cur, nextId, Unset, alive, alive, {})
  BY <1>0 DEF Serving, Homes
<1>1. CASE ClientRequest
  <2>1. PICK w \in Windows, wmsc \in Targets, m \in Moduli, refuse \in SUBSET Refusable :
          \/ \E p \in Pixmaps, opt \in Options, f \in Fences \cup {NoFence} :
                PresentPixmap(w, p, opt, f, wmsc, m, refuse)
          \/ NotifyMsc(w, wmsc, m, refuse)
    BY <1>1 DEF ClientRequest
  <2>2. wmsc \in Nat /\ m \in Nat \X Nat
    BY InputAssumption
  <2>3. CASE \E p \in Pixmaps, opt \in Options, f \in Fences \cup {NoFence} :
               PresentPixmap(w, p, opt, f, wmsc, m, refuse)
    BY <2>2, <2>3, SubmitBooked, InputAssumption DEF PresentPixmap
  <2>4. CASE NotifyMsc(w, wmsc, m, refuse)
    <3> DEFINE opt == [async |-> m[1] = 0, copy |-> FALSE, update |-> FALSE]
    <3>1. opt \in OptionRecord
      BY DEF OptionRecord
    <3>2. Submit(w, NoPix, opt, NoFence, wmsc, m, refuse)
      BY <2>4 DEF NotifyMsc
    <3> HIDE DEF opt
    <3> QED BY <2>2, <3>1, <3>2, SubmitBooked
  <2> QED BY <2>1, <2>3, <2>4
<1>2. ASSUME NEW e \in Events, NEW at \in 0..MaxMsc, NEW refuse \in SUBSET Refusable,
             VblankEvent(e, at, refuse)
      PROVE  BookedInv'
  <2> DEFINE f == [vbl EXCEPT ![e] = @ - 1]
             s == [Cur EXCEPT !.vbl = f]
             t == EventNotify(s, e[1], at, refuse)
  <2>1. f \in [Events -> Nat]
    <3>1. vbl \in [Events -> Nat] /\ vbl[e] > 0
      BY <1>0, <1>2 DEF Cur, State, VblankEvent
    <3> QED BY <3>1
  <2>2. /\ Become(t) /\ nextId' = nextId /\ todo' = todo /\ Serving
        /\ dying' = dying /\ alive' = alive
    <3>1. s = [Cur EXCEPT !.vbl[e] = @ - 1]
      BY DEF Cur
    <3> QED BY <1>2, <3>1 DEF VblankEvent
  <2> HIDE DEF f
  <2>3. s \in State /\ SameBook(Cur, s) /\ SameFlips(Cur, s)
    BY <1>0, <2>1 DEF State, SameBook, SameFlip, SameClient, SameName, SameFlips
  <2> HIDE DEF s
  <2>4. Booked(s, nextId, Unset, alive, alive, {}) /\ Sound(s, nextId, Unset)
    BY <1>0, <1>00, <2>2, <2>3, BookedSame, SoundSame
  <2>5. e[1] \in Ids /\ at \in Mscs
    BY BoundsAssumption DEF Events, Mscs
  <2>6. t \in State
    BY <1>0, <2>3, <2>5, EventNotifyType
  <2>7. Booked(t, nextId, Unset, alive, alive, {})
    BY <1>0, <2>3, <2>4, <2>5, EventNotifyBooked
  <2> HIDE DEF t
  <2> QED BY <2>2, <2>6, <2>7, ServingBooked
<1>3. ASSUME NEW e \in hwFlip, NEW at \in 0..MaxMsc, NEW refuse \in SUBSET Refusable,
             FlipEvent(e, at, refuse)
      PROVE  BookedInv'
  <2> DEFINE f == hwFlip \ {e}
             s == [Cur EXCEPT !.hwFlip = f]
             t == EventNotify(s, e[1], at, refuse)
  <2>1. f \in SUBSET Events /\ e \in Events
    BY <1>0 DEF Cur, State
  <2>2. /\ Become(t) /\ nextId' = nextId /\ todo' = todo /\ Serving
        /\ dying' = dying /\ alive' = alive
    <3>1. s = [Cur EXCEPT !.hwFlip = @ \ {e}]
      BY DEF Cur
    <3> QED BY <1>3, <3>1 DEF FlipEvent
  <2> HIDE DEF f
  <2>3. s \in State /\ SameBook(Cur, s) /\ SameFlips(Cur, s)
    BY <1>0, <2>1 DEF State, SameBook, SameFlip, SameClient, SameName, SameFlips
  <2> HIDE DEF s
  <2>4. Booked(s, nextId, Unset, alive, alive, {}) /\ Sound(s, nextId, Unset)
    BY <1>0, <1>00, <2>2, <2>3, BookedSame, SoundSame
  <2>5. e[1] \in Ids /\ at \in Mscs
    BY <2>1, BoundsAssumption DEF Events, Mscs
  <2>6. t \in State
    BY <1>0, <2>3, <2>5, EventNotifyType
  <2>7. Booked(t, nextId, Unset, alive, alive, {})
    BY <1>0, <2>3, <2>4, <2>5, EventNotifyBooked
  <2> HIDE DEF t
  <2> QED BY <2>2, <2>6, <2>7, ServingBooked
<1>4. ASSUME NEW refuse \in SUBSET Refusable, UnflipEvent(refuse)
      PROVE  BookedInv'
  <2> DEFINE n == hwUnflip - 1
             s == [Cur EXCEPT !.hwUnflip = n]
             t == UnflipNotify(s, refuse)
  <2>1. n \in Nat
    <3>1. hwUnflip > 0 /\ hwUnflip \in Nat
      BY <1>0, <1>4 DEF Cur, State, UnflipEvent
    <3> QED BY <3>1
  <2>2. /\ Become(t) \/ Become(s)
        /\ nextId' = nextId /\ todo' = todo /\ Serving
        /\ dying' = dying /\ alive' = alive
    <3>1. s = [Cur EXCEPT !.hwUnflip = @ - 1]
      BY DEF Cur
    <3> QED BY <1>4, <3>1 DEF UnflipEvent
  <2> HIDE DEF n
  <2>3. s \in State /\ SameBook(Cur, s) /\ SameFlips(Cur, s)
    BY <1>0, <2>1 DEF State, SameBook, SameFlip, SameClient, SameName, SameFlips
  <2> HIDE DEF s
  <2>4. Booked(s, nextId, Unset, alive, alive, {}) /\ Sound(s, nextId, Unset)
    BY <1>0, <1>00, <2>2, <2>3, BookedSame, SoundSame
  <2>5. t \in State /\ Booked(t, nextId, Unset, alive, alive, {})
    BY <1>0, <2>3, <2>4, UnflipNotifyType, UnflipNotifyBooked
  <2> HIDE DEF t
  <2> QED BY <2>2, <2>3, <2>4, <2>5, ServingBooked
<1>5. ASSUME NEW refuse \in SUBSET Refusable, ReExecute(refuse)
      PROVE  BookedInv'
  <2> DEFINE v == Max(todo)
             d == todo \ {v}
             t == Execute(Cur, v, msc, refuse)
  <2>1. v \in Ids /\ v \in todo
    <3>1. todo \in SUBSET Ids /\ todo # {}
      BY <1>5 DEF ReExecute, TypeOK
    <3>2. \E x \in todo : \A y \in todo : x >= y
      BY <3>1, GreatestId
    <3> QED BY <3>1, <3>2 DEF Max
  <2>2. /\ Become(t) /\ nextId' = nextId /\ todo' = d
        /\ alive' = alive /\ dying' = dying /\ todo # {}
    BY <1>5 DEF ReExecute
  <2> HIDE DEF v
  <2>3. Cur.vb[v].queued \/ v = Cur.pending
    <3>1. Entry(Cur, v, nextId, Unset, alive, Homes, todo) /\ v # Unset
      BY <1>0, <2>1 DEF Booked, Ids, Unset
    <3> QED BY <2>1, <3>1 DEF Entry, Reached, Unfinished
  <2>4. v \notin d /\ d \in SUBSET todo
    OBVIOUS
  <2> HIDE DEF d
  <2>5. Booked(Cur, nextId, Unset, alive, Homes, d)
    BY <1>0, <2>4, BookedLess
  <2>6. t \in State /\ Booked(t, nextId, Unset, alive, Homes, d)
    BY <1>0, <2>1, <2>3, <2>4, <2>5, ExecuteType, ExecuteBooked
  <2> HIDE DEF t
  <2>7. Homes' = Homes /\ dying' \notin alive' /\ dying' = NoWin
    BY <2>2 DEF Homes, BookedInv
  <2> QED BY <2>2, <2>6, <2>7, BecomeBooked
<1>6. ASSUME NEW drop \in BOOLEAN, FreeWindowVblank(drop)
      PROVE  BookedInv'
  <2> DEFINE v == Min(QueuedOn(dying))
             f == [e \in Events |-> IF drop /\ e[1] = v THEN 0 ELSE vbl[e]]
             s == [Cur EXCEPT !.vbl = f]
             t == VblankDestroy(s, v)
  <2>1. v \in Ids /\ Cur.vb[v].queued /\ Cur.vb[v].win = dying
    <3>1. QueuedOn(dying) \in SUBSET Nat /\ QueuedOn(dying) # {}
          /\ \A u \in QueuedOn(dying) :
               u \in Ids /\ Cur.vb[u].queued /\ Cur.vb[u].win = dying
      BY <1>6 DEF FreeWindowVblank, QueuedOn, Ids, Cur
    <3> QED BY <3>1, MinIsLeast
  <2>2. /\ Become(t) /\ nextId' = nextId /\ todo' = todo
        /\ alive' = alive /\ dying' = dying /\ dying # NoWin
    <3>1. s = [Cur EXCEPT !.vbl = [e \in Events |-> IF drop /\ e[1] = v THEN 0 ELSE @[e]]]
      BY DEF Cur
    <3> HIDE DEF s
    <3> QED BY <1>6, <3>1 DEF FreeWindowVblank
  <2> HIDE DEF v
  <2>3. f \in [Events -> Nat]
    BY <1>0 DEF Cur, State
  <2> HIDE DEF f
  <2>4. s \in State /\ SameBook(Cur, s) /\ s.vb = Cur.vb /\ s.pending = Cur.pending
    BY <1>0, <2>3 DEF State, SameBook, SameFlip, SameClient, SameName
  <2> HIDE DEF s
  <2>5. v # Cur.pending
    BY <1>0, <2>1 DEF Sound, Ids, Unset
  <2>6. todo = {} /\ dying \notin alive /\ Homes' = Homes
    BY <2>2 DEF BookedInv, Homes
  <2>7. Booked(s, nextId, Unset, alive, Homes, {})
    BY <1>0, <2>4, <2>6, BookedSame
  <2>8. t \in State /\ Booked(t, nextId, Unset, alive, Homes, {})
    BY <1>0, <2>1, <2>4, <2>5, <2>6, <2>7, VblankDestroyType, DestroyedBooked
  <2> HIDE DEF t
  <2> QED BY <2>2, <2>6, <2>8, BecomeBooked
<1>7. CASE FinishDestroy
  <2> DEFINE t == ClearWindowFlip(Cur, dying)
  <2>1. /\ Become(t) /\ nextId' = nextId /\ dying \in Windows /\ alive' = alive
        /\ todo' = todo /\ dying' = NoWin /\ dying # NoWin
    BY <1>7 DEF FinishDestroy, TypeOK
  <2>2. \A u \in Ids : Cur.vb[u].queued => Cur.vb[u].win # dying
    BY <1>7 DEF FinishDestroy, QueuedOn, Cur
  <2>3. /\ todo = {} /\ alive \ {dying} = alive /\ Homes \ {dying} = alive
        /\ Homes' = alive /\ NoWin \notin alive
    BY <2>1, SentinelAssumption DEF BookedInv, Homes, TypeOK
  <2>4. Booked(t, nextId, Unset, alive \ {dying}, Homes \ {dying}, {})
    BY <1>0, <2>1, <2>2, <2>3, ClearWindowFlipBooked
  <2>5. t \in State
    BY <1>0, <2>1, ClearWindowFlipType
  <2> HIDE DEF t
  <2> QED BY <2>1, <2>3, <2>4, <2>5, BecomeBooked
<1>8. ASSUME NEW f \in Fences, TriggerFence(f) \/ ResetFence(f) \/ DestroyFence(f)
      PROVE  BookedInv'
  <2>1. Become(Cur) /\ UNCHANGED <<nextId, dying>>
    BY <1>8, FenceSteps
  <2>2. Serving /\ alive' = alive /\ \A v \in todo' : v \in Ids /\ Cur.vb[v].cb
    BY <1>8 DEF TriggerFence, ResetFence, DestroyFence, Serving, Cur
  <2>3. \A v \in todo' : Unfinished(Cur, v, Unset)
    <3>1. \A v \in Ids : Entry(Cur, v, nextId, Unset, alive, Homes, todo)
      BY <1>0 DEF Booked
    <3> QED BY <2>2, <3>1 DEF Entry, Reached
  <2>4. Booked(Cur, nextId, Unset, alive, alive, todo')
    BY <1>00, <2>2, <2>3, BookedLoop
  <2>5. Homes' = alive /\ dying' = NoWin /\ NoWin \notin alive
    BY <1>0, <2>1, <2>2, SentinelAssumption DEF Serving, Homes
  <2> QED BY <1>0, <2>1, <2>2, <2>4, <2>5, BecomeBooked
<1>9. ASSUME NEW w \in Windows, ClipNotify(w) \/ DestroyWindow(w)
      PROVE  BookedInv'
  <2>1. PICK x \in SUBSET Windows : Become(CheckFlipWindow([Cur EXCEPT !.full = x], w))
    BY <1>9, ClipSteps
  <2> DEFINE s == [Cur EXCEPT !.full = x]
             t == CheckFlipWindow(s, w)
  <2>2. s \in State /\ SameBook(Cur, s)
    BY <1>0 DEF State, SameBook, SameFlip, SameClient, SameName
  <2>3. /\ Become(t) /\ nextId' = nextId /\ todo' = todo /\ Serving /\ w \in alive
        /\ \/ alive' = alive /\ dying' = dying
           \/ alive' = alive \ {w} /\ dying' = w
    BY <1>9, <2>1 DEF ClipNotify, DestroyWindow
  <2> HIDE DEF s
  <2>4. t \in State /\ SameBook(s, t)
    BY <2>2, CheckFlipWindowType, CheckFlipWindowBook
  <2> HIDE DEF t
  <2>5. Booked(t, nextId, Unset, alive, alive, {})
    BY <1>00, <2>2, <2>3, <2>4, BookedSame
  <2>6. CASE alive' = alive /\ dying' = dying
    BY <2>3, <2>4, <2>5, <2>6, ServingBooked
  <2>7. CASE alive' = alive \ {w} /\ dying' = w
    <3>1. /\ alive' \in SUBSET alive /\ Homes' = alive /\ dying' \notin alive'
          /\ todo' = {}
      BY <1>0, <2>3, <2>7, SentinelAssumption DEF Serving, Homes
    <3>2. Booked(t, nextId, Unset, alive', alive, {})
      BY <2>5, <3>1, BookedLess
    <3> QED BY <2>3, <2>4, <3>1, <3>2, BecomeBooked
  <2> QED BY <2>3, <2>6, <2>7
<1>10. ASSUME NEW p \in Pixmaps, FreePixmap(p)
       PROVE  BookedInv'
  <2> DEFINE f == [refs EXCEPT ![p] = @ - 1]
             s == [Cur EXCEPT !.refs = f]
  <2>1. f \in [Pixmaps -> Int]
    <3>1. refs \in [Pixmaps -> Int]
      BY <1>0 DEF Cur, State
    <3> QED BY <3>1
  <2>2. /\ Become(s) /\ nextId' = nextId /\ todo' = todo /\ Serving
        /\ alive' = alive /\ dying' = dying
    BY <1>10 DEF FreePixmap, Become, Cur, server, driver, client
  <2> HIDE DEF f
  <2>3. s \in State /\ SameBook(Cur, s)
    BY <1>0, <2>1 DEF State, SameBook, SameFlip, SameClient, SameName
  <2> HIDE DEF s
  <2> QED BY <1>00, <2>2, <2>3, BookedSame, ServingBooked
<1>11. CASE CloseScreen
  <2> DEFINE s == IF pending # Unset THEN SetAbortFlip(Cur) ELSE Cur
             u == FlipIdle(s)
             t == Halt(u, "closed")
  <2>1. /\ Become(t) /\ nextId' = nextId /\ todo' = todo /\ Serving
        /\ alive' = alive /\ dying' = dying
    BY <1>11 DEF CloseScreen
  <2>2. s \in State /\ SameBook(Cur, s)
    <3>1. CASE pending # Unset
      <4>1. Cur.pending # Unset
        BY <3>1 DEF Cur
      <4> QED BY <1>0, <3>1, <4>1, SetAbortFlipType, SetAbortBook
    <3>2. CASE pending = Unset
      BY <1>0, <3>2, SameBookSelf
    <3> QED BY <3>1, <3>2
  <2> HIDE DEF s
  <2>3. Booked(s, nextId, Unset, alive, alive, {})
    BY <1>00, <2>1, <2>2, BookedSame
  <2>4. u \in State /\ Booked(u, nextId, Unset, alive, alive, {})
    BY <1>0, <2>2, <2>3, FlipIdleType, FlipIdleBooked
  <2> HIDE DEF u
  <2>5. t \in State /\ Booked(t, nextId, Unset, alive, alive, {})
    BY <2>4, HaltType, HaltBook, BookedSame
  <2> HIDE DEF t
  <2> QED BY <2>1, <2>5, ServingBooked
<1>12. CASE Tick \/ UNCHANGED vars
  <2>1. Become(Cur) /\ UNCHANGED <<nextId, alive, todo, dying>>
    BY <1>12 DEF Tick, vars, server, dix, driver, client, Cur, Become
  <2>2. Homes' = Homes /\ dying' \notin alive' /\ (dying' # NoWin => todo' = {})
    BY <2>1 DEF Homes, BookedInv
  <2>3. Booked(Cur, nextId', Unset, alive', Homes', todo')
    BY <1>0, <2>1, <2>2
  <2> QED BY <1>0, <2>1, <2>2, <2>3, BecomeBooked
<1> QED
  BY <1>1, <1>2, <1>3, <1>4, <1>5, <1>6, <1>7, <1>8, <1>9, <1>10, <1>11, <1>12,
     InputAssumption
  DEF Next, DriverEvent, Loop, Environment

(* What is owed to each client is on the books in every behaviour, even when
   the driver refuses calls. *)
THEOREM BookedAlways == Spec => []BookedInv
<1>1. Init => TypeOK /\ SoundInv /\ BookedInv
  BY TypeInit, SoundInit, BookedInit
<1>2. TypeOK /\ SoundInv /\ BookedInv /\ [Next]_vars => TypeOK' /\ SoundInv' /\ BookedInv'
  BY TypeNext, SoundNext, BookedNext
<1>3. Spec => [](TypeOK /\ SoundInv /\ BookedInv)
  BY <1>1, <1>2, PTL DEF Spec
<1> QED BY <1>3, PTL

(* No request gets lost: unless its window was destroyed, one that has left
   the queues was completed exactly once, and its buffer went back to the
   client or is the one on the screen, whichever of executing, deferring,
   replacing, flipping, aborting or a refused call brought it there. *)
THEOREM NothingLostAlways == Spec => []NothingLost
<1>1. BookedInv => NothingLost
  <2> SUFFICES ASSUME BookedInv, NEW v \in Ids, v < nextId, ~Live(v)
               PROVE  /\ vb[v].win \in alive => done[v].n = 1
                      /\ vb[v].kind = "pixmap" /\ vb[v].win \in alive \cup {NoWin}
                           => idle[v] = 1 \/ v = flipOf
    BY DEF NothingLost
  <2>1. Owes(Cur, v, nextId, Unset, alive)
    BY DEF BookedInv, Booked, Entry
  <2>2. ~Unfinished(Cur, v, Unset)
    BY DEF Live, Unfinished, Cur, Ids, Unset
  <2>3. /\ Cur.vb = vb /\ Cur.done = done /\ Cur.idle = idle /\ Cur.flipOf = flipOf
    BY DEF Cur
  <2> QED BY <2>1, <2>2, <2>3 DEF Owes
<1> QED BY <1>1, BookedAlways, PTL

(* A frame that a later request for the same window and MSC replaces has no
   pixmap left to show, however long it stays queued. *)
THEOREM SupersededNeverShownAlways == Spec => []SupersededNeverShown
<1>1. BookedInv => SupersededNeverShown
  <2> SUFFICES ASSUME BookedInv PROVE SupersededNeverShown
    OBVIOUS
  <2>1. Replaced(Cur, Unset) /\ Cur.vb = vb
    BY DEF BookedInv, Booked, Cur
  <2> QED BY <2>1 DEF Replaced, SupersededNeverShown
<1> QED BY <1>1, BookedAlways, PTL

(* A buffer goes back to its client exactly once, when neither the server nor
   the hardware uses it any more, and no request that gave one is lost. *)
THEOREM BuffersComeBackAlways ==
  ASSUME "vblank" \notin Refusable PROVE Spec => []BuffersComeBack
<1>1. SoundInv /\ PacedInv /\ BookedInv => IdleOnlyWhenReleased
  <2> SUFFICES ASSUME SoundInv, PacedInv, BookedInv, NEW v \in Ids
               PROVE  /\ idle[v] <= 1
                      /\ idle[v] = 1 =>
                           /\ v # pending
                           /\ halted # "closed" =>
                                v # scanout /\ v \notin {e[1] : e \in hwFlip}
                           /\ vb[v].queued => vb[v].pix = NoPix
    BY DEF IdleOnlyWhenReleased
  <2>1. /\ Cur.vb = vb /\ Cur.idle = idle /\ Cur.flipOf = flipOf /\ Cur.pending = pending
        /\ Cur.hwFlip = hwFlip
    BY DEF Cur
  <2>2. Owes(Cur, v, nextId, Unset, alive)
    BY DEF BookedInv, Booked, Entry
  <2>3. Unfinished(Cur, v, Unset) <=> vb[v].queued \/ v = pending
    BY <2>1 DEF Unfinished, Ids, Unset
  <2>4. idle[v] \in {0, 1}
    BY <2>1, <2>2 DEF Owes
  <2>5. v = pending => idle[v] = 0
    <3>1. v = pending => vb[v].pix # NoPix
      BY <2>1 DEF SoundInv, Sound, Ids, Unset
    <3> QED BY <2>1, <2>2, <2>3, <3>1 DEF Owes
  <2>6. v = flipOf => idle[v] = 0
    BY <2>1, <2>2 DEF Owes
  <2>7. vb[v].queued /\ vb[v].pix # NoPix => idle[v] = 0
    BY <2>1, <2>2, <2>3 DEF Owes
  <2>8. \A e \in hwFlip : e[1] = pending
    BY <2>1 DEF PacedInv, Paced, OnScreen
  <2>9. halted # "closed" => scanout = flipOf
    BY DEF PacedInv
  <2> QED BY <2>4, <2>5, <2>6, <2>7, <2>8, <2>9
<1>2. Spec => []IdleOnlyWhenReleased
  BY <1>1, SoundAlways, PacedAlways, BookedAlways, PTL
<1>3. IdleOnlyWhenReleased /\ NothingLost => BuffersComeBack
  BY DEF BuffersComeBack
<1> QED BY <1>2, <1>3, NothingLostAlways, PTL

(* What a window shows follows its clients' requests in time: no frame comes
   before its MSC, and no replaced frame after the one that replaced it. *)
THEOREM ShownInTurnAlways ==
  ASSUME "vblank" \notin Refusable PROVE Spec => []ShownInTurn
<1>1. NeverEarly /\ SupersededNeverShown => ShownInTurn
  BY DEF ShownInTurn
<1> QED BY <1>1, NeverEarlyAlways, SupersededNeverShownAlways, PTL

-----------------------------------------------------------------------------
(* What windows draw into.                                                  *)

(* The pixmap that drawing may go to besides the screen's.                   *)
Shown(s, p) ==
  \/ s.pending # Unset /\ ~s.vb[s.pending].abort /\ p = s.vb[s.pending].pix
  \/ s.pending = Unset /\ ~s.unflip /\ s.flipWin # NoWin /\ p = s.flipPix

(* Every window draws where the root does, or into the screen pixmap.        *)
Drawn(s, x) ==
  /\ \A w \in Windows : s.winPix[w] \in {Screen, s.winPix[Root]}
  /\ s.winPix[Root] = Screen \/ Shown(s, s.winPix[Root])
  /\ \A v \in Ids : s.vb[v].queued \/ v = x => ~s.vb[v].abort
  /\ s.pending # Unset /\ s.vb[s.pending].win = NoWin => s.vb[s.pending].abort

(* Every window draws into the screen pixmap.                                *)
Restored(s) == \A w \in Windows \cup {Root} : s.winPix[w] = Screen

(* Handlers that leave the windows and the flips alone.                      *)
SameFrame(b, c) == c.pix = b.pix /\ c.win = b.win /\ c.abort = b.abort

SameDrawn(s, t, x, y) ==
  /\ SameFlip(s, t) /\ t.unflip = s.unflip /\ t.winPix = s.winPix
  /\ \A v \in Ids : t.vb[v].queued \/ v = y =>
                      (s.vb[v].queued \/ v = x) /\ t.vb[v].abort = s.vb[v].abort
  /\ s.pending # Unset => SameFrame(s.vb[s.pending], t.vb[s.pending])

LEMMA DrawnSame ==
  ASSUME NEW s, NEW t, NEW x, NEW y, Drawn(s, x), SameDrawn(s, t, x, y)
  PROVE  Drawn(t, y)
<1>1. \A p : Shown(t, p) <=> Shown(s, p)
  BY DEF SameDrawn, SameFlip, SameFrame, Shown
<1>2. t.pending # Unset /\ t.vb[t.pending].win = NoWin => t.vb[t.pending].abort
  BY DEF Drawn, SameDrawn, SameFlip, SameFrame
<1>3. \A v \in Ids : t.vb[v].queued \/ v = y => ~t.vb[v].abort
  BY DEF Drawn, SameDrawn
<1> QED BY <1>1, <1>2, <1>3 DEF Drawn, SameDrawn

(* One request's record changes, but not how it is shown. *)
LEMMA OneSameDrawn ==
  ASSUME NEW s \in State, NEW t, NEW v \in Ids, NEW x, NEW y \in {v, Unset},
         SameFlip(s, t), SameUnflip(s, t), t.winPix = s.winPix,
         SameFrame(s.vb[v], t.vb[v]),
         t.vb[v].queued \/ v = y => s.vb[v].queued \/ v = x,
         \A u \in Ids \ {v} : t.vb[u] = s.vb[u]
  PROVE  SameDrawn(s, t, x, y)
<1>1. s.pending # Unset => s.pending \in Ids
  BY FieldTypes
<1>2. \A u \in Ids : u # Unset
  BY DEF Ids, Unset
<1>3. \A u \in Ids : SameFrame(s.vb[u], t.vb[u])
  BY DEF SameFrame
<1> QED BY <1>1, <1>2, <1>3 DEF SameDrawn, SameUnflip, SameFrame

(* The same, when the request is not the pending flip and leaves the queues. *)
LEMMA OneOverDrawn ==
  ASSUME NEW s \in State, NEW t, NEW v \in Ids, NEW x \in {v, Unset},
         SameFlip(s, t), SameUnflip(s, t), t.winPix = s.winPix,
         v # s.pending, ~t.vb[v].queued,
         \A u \in Ids \ {v} : t.vb[u] = s.vb[u]
  PROVE  SameDrawn(s, t, x, Unset)
<1>1. s.pending # Unset => s.pending \in Ids \ {v}
  BY FieldTypes
<1>2. \A u \in Ids : u # Unset
  BY DEF Ids, Unset
<1>3. s.pending # Unset => SameFrame(s.vb[s.pending], t.vb[s.pending])
  BY <1>1 DEF SameFrame
<1> QED BY <1>2, <1>3 DEF SameDrawn, SameUnflip

LEMMA QueuesSameDrawn ==
  ASSUME NEW s, NEW t, NEW x, SameQueues(s, t), SameFlip(s, t), SameUnflip(s, t),
         t.winPix = s.winPix
  PROVE  SameDrawn(s, t, x, x)
BY DEF SameDrawn, SameQueues, SameUnflip, SameFrame

(* Restoring the screen pixmap reaches every window. *)
LEMMA RestoreRestores ==
  ASSUME NEW s \in State, \A w \in Windows : s.winPix[w] \in {Screen, s.winPix[Root]}
  PROVE  Restored(RestoreScreenPixmap(s))
<1> DEFINE fw == IF s.pending # Unset THEN s.vb[s.pending].win ELSE s.flipWin
           fp == IF s.pending # Unset THEN s.vb[s.pending].pix ELSE s.flipPix
           t  == IF fp = NoPix THEN Halt(s, "assert") ELSE s
           a  == s.winPix
           b  == IF fw # NoWin THEN SetTreePixmap(a, fw, fp, Screen) ELSE a
           c  == SetTreePixmap(b, Root, NoPix, Screen)
           D  == Windows \cup {Root}
<1>1. t \in State /\ t.winPix = a
  BY HaltType, HaltFrame
<1>2. fw \in Windows \cup {NoWin}
  <2>1. s.pending # Unset => s.vb[s.pending] \in Vblank
    BY PendingType
  <2> QED BY <2>1 DEF Vblank, State
<1>3. RestoreScreenPixmap(s) = [t EXCEPT !.winPix = c]
  BY <1>1 DEF RestoreScreenPixmap
<1>4. DOMAIN a = D
  BY DEF State
<1> HIDE DEF fw, fp, t, a
<1>5. DOMAIN b = D /\ \A x \in D : b[x] \in {a[x], Screen}
  BY <1>2, <1>4 DEF SetTreePixmap
<1>6. b[Root] = a[Root]
  BY <1>2, <1>4, SentinelAssumption DEF SetTreePixmap
<1> HIDE DEF b
<1>7. c = [x \in DOMAIN b |-> IF b[x] = b[Root] THEN Screen ELSE b[x]]
  BY DEF SetTreePixmap
<1>8. \A x \in D : b[x] \in {Screen, b[Root]}
  BY <1>5, <1>6 DEF a
<1>9. \A x \in D : c[x] = Screen
  BY <1>5, <1>7, <1>8
<1> HIDE DEF c
<1>10. [t EXCEPT !.winPix = c].winPix = c
  BY <1>1 DEF State
<1> QED BY <1>3, <1>9, <1>10 DEF Restored

(* A restored screen is all that Drawn asks of the windows. *)
LEMMA RestoredDrawn ==
  ASSUME NEW s, NEW x, Restored(s),
         \A v \in Ids : s.vb[v].queued \/ v = x => ~s.vb[v].abort,
         s.pending # Unset /\ s.vb[s.pending].win = NoWin => s.vb[s.pending].abort
  PROVE  Drawn(s, x)
BY DEF Restored, Drawn

(* present_set_abort_flip, of a flip that is not the request in hand. *)
LEMMA SetAbortDrawn ==
  ASSUME NEW s \in State, NEW x, s.pending # Unset, s.pending # x,
         ~s.vb[s.pending].queued, Drawn(s, x)
  PROVE  Drawn(SetAbortFlip(s), x)
<1> DEFINE t == SetAbortFlip(s)
           r == RestoreScreenPixmap(s)
           p == s.pending
<1>1. CASE s.vb[p].abort
  BY <1>1 DEF SetAbortFlip
<1>2. CASE ~s.vb[p].abort
  <2>1. r \in State /\ Restored(r)
    BY RestoreScreenPixmapType, RestoreRestores DEF Drawn
  <2>2. t = [r EXCEPT !.vb[p].abort = TRUE]
    BY <1>2 DEF SetAbortFlip
  <2>3. p \in Ids /\ SameFlip(s, t) /\ t.vb[p].abort /\ t.vb[p].queued = s.vb[p].queued
        /\ \A u \in Ids \ {p} : t.vb[u] = s.vb[u]
    BY PendingType, SetAbortFrame
  <2> HIDE DEF r
  <2>4. t.winPix = r.winPix
    BY <2>1, <2>2 DEF State
  <2> HIDE DEF t
  <2>5. Restored(t)
    BY <2>1, <2>4 DEF Restored
  <2>6. \A v \in Ids : t.vb[v].queued \/ v = x => ~t.vb[v].abort
    BY <2>3 DEF Drawn
  <2>7. Drawn(t, x)
    BY <2>3, <2>5, <2>6, RestoredDrawn DEF SameFlip
  <2> QED BY <2>7 DEF t
<1> QED BY <1>1, <1>2

(* present_unflip. *)
LEMMA UnflipDrawn ==
  ASSUME NEW s \in State, NEW x, Drawn(s, x)
  PROVE  Drawn(Unflip(s), x) /\ Restored(Unflip(s))
<1> DEFINE a == IF s.unflip \/ s.pending # Unset THEN Halt(s, "assert") ELSE s
           r == RestoreScreenPixmap(a)
           h == r.hwUnflip + 1
           u == [r EXCEPT !.unflip = TRUE, !.hwUnflip = h]
<1>1. a \in State /\ a.winPix = s.winPix
  BY HaltType, HaltFrame
<1>2. Unflip(s) = u
  BY DEF Unflip
<1> HIDE DEF a
<1>3. r \in State /\ Restored(r)
  BY <1>1, RestoreScreenPixmapType, RestoreRestores DEF Drawn
<1> HIDE DEF r, h
<1>4. u.winPix = r.winPix
  BY <1>3 DEF State
<1> HIDE DEF u
<1>5. Restored(u)
  BY <1>3, <1>4 DEF Restored
<1>6. SameQueues(s, u) /\ SameFlip(s, u)
  BY <1>2, UnflipFrame
<1>7. Drawn(u, x)
  BY <1>5, <1>6, RestoredDrawn DEF Drawn, SameQueues, SameFlip
<1> QED BY <1>2, <1>5, <1>7

LEMMA StopFlippingDrawn ==
  ASSUME NEW s \in State, NEW w, NEW x, NEW n, Sound(s, n, x), s.pending # x \/ x = Unset,
         Drawn(s, x)
  PROVE  Drawn(StopFlipping(s, w), x)
<1>1. s.pending # Unset => Drawn(SetAbortFlip(s), x)
  BY SetAbortDrawn DEF Sound
<1>2. Drawn(Unflip(s), x)
  BY UnflipDrawn
<1> QED BY <1>1, <1>2 DEF StopFlipping

(* present_check_flip_window. *)
LEMMA CheckFlipWindowDrawn ==
  ASSUME NEW s \in State, NEW w \in Windows, NEW n, Sound(s, n, Unset), Drawn(s, Unset)
  PROVE  Drawn(CheckFlipWindow(s, w), Unset)
<1> DEFINE r == StopLostFlip(s, w)
           t == RecheckQueued(r, w)
<1>1. CheckFlipWindow(s, w) = IF s.unflip THEN s ELSE t
  BY DEF CheckFlipWindow
<1>2. CASE s.unflip
  BY <1>1, <1>2
<1>3. CASE ~s.unflip
  <2>1. s.pending # Unset => Drawn(SetAbortFlip(s), Unset)
    BY SetAbortDrawn DEF Sound
  <2>2. Drawn(Unflip(s), Unset)
    BY UnflipDrawn
  <2>3. r \in State /\ Drawn(r, Unset)
    BY <2>1, <2>2, StopLostFlipType DEF StopLostFlip
  <2>4. Sound(r, n, Unset)
    BY <1>3, StopLostFlipSound
  <2> HIDE DEF r
  <2>5. /\ SameFlip(r, t) /\ SameUnflip(r, t) /\ t.winPix = r.winPix
        /\ \A v \in Ids : Relaxed(r.vb[v], t.vb[v])
    BY <2>3, RecheckFrame
  <2> HIDE DEF t
  <2>6. r.pending # Unset => r.pending \in Ids /\ ~r.vb[r.pending].queued
    BY <2>3, <2>4, FieldTypes DEF Sound
  <2>7. r.pending # Unset => t.vb[r.pending] = r.vb[r.pending]
    BY <2>5, <2>6 DEF Relaxed
  <2>8. SameDrawn(r, t, Unset, Unset)
    BY <2>5, <2>7 DEF SameDrawn, SameUnflip, SameFrame, Relaxed, Ids, Unset
  <2> QED BY <1>1, <1>3, <2>3, <2>8, DrawnSame
<1> QED BY <1>2, <1>3

(* Waiting, in one way or another. *)
LEMMA WaitingDrawn ==
  ASSUME NEW s \in State, NEW v \in Ids, NEW x, NEW y \in {v, Unset}, Drawn(s, x),
         s.vb[v].queued \/ v = y => s.vb[v].queued \/ v = x
  PROVE  /\ Drawn(AwaitFence(s, v), y) /\ Drawn(DeferFlip(s, v), y)
         /\ Drawn(FlipRefused(s, v), y)
<1>1. Drawn(AwaitFence(s, v), y)
  <2> DEFINE t == AwaitFence(s, v)
  <2>1. /\ SameFlip(s, t) /\ SameUnflip(s, t) /\ t.winPix = s.winPix
        /\ SameName(s.vb[v], t.vb[v]) /\ SameShow(s.vb[v], t.vb[v])
        /\ t.vb[v].queued = s.vb[v].queued /\ t.vb[v].abort = s.vb[v].abort
        /\ \A u \in Ids \ {v} : t.vb[u] = s.vb[u]
    BY AwaitFenceFrame
  <2> HIDE DEF t
  <2>2. SameFrame(s.vb[v], t.vb[v])
    BY <2>1 DEF SameFrame, SameName, SameShow
  <2>3. Drawn(t, y)
    BY <2>1, <2>2, OneSameDrawn, DrawnSame
  <2> QED BY <2>3 DEF t
<1>2. Drawn(DeferFlip(s, v), y)
  <2> DEFINE t == DeferFlip(s, v)
  <2>1. /\ SameFlip(s, t) /\ SameUnflip(s, t) /\ t.winPix = s.winPix
        /\ SameName(s.vb[v], t.vb[v]) /\ SameShow(s.vb[v], t.vb[v])
        /\ t.vb[v].queued = s.vb[v].queued /\ t.vb[v].abort = s.vb[v].abort
        /\ \A u \in Ids \ {v} : t.vb[u] = s.vb[u]
    BY DeferFlipFrame
  <2> HIDE DEF t
  <2>2. SameFrame(s.vb[v], t.vb[v])
    BY <2>1 DEF SameFrame, SameName, SameShow
  <2>3. Drawn(t, y)
    BY <2>1, <2>2, OneSameDrawn, DrawnSame
  <2> QED BY <2>3 DEF t
<1>3. Drawn(FlipRefused(s, v), y)
  <2> DEFINE t == FlipRefused(s, v)
  <2>1. /\ SameFlip(s, t) /\ SameUnflip(s, t) /\ t.winPix = s.winPix
        /\ SameName(s.vb[v], t.vb[v]) /\ t.vb[v].pix = s.vb[v].pix
        /\ t.vb[v].queued = s.vb[v].queued /\ t.vb[v].abort = s.vb[v].abort
        /\ \A u \in Ids \ {v} : t.vb[u] = s.vb[u]
    BY FlipRefusedFrame
  <2> HIDE DEF t
  <2>2. SameFrame(s.vb[v], t.vb[v])
    BY <2>1 DEF SameFrame, SameName
  <2>3. Drawn(t, y)
    BY <2>1, <2>2, OneSameDrawn, DrawnSame
  <2> QED BY <2>3 DEF t
<1> QED BY <1>1, <1>2, <1>3

(* present_execute_post of a request in hand. *)
LEMMA ExecutePostDrawn ==
  ASSUME NEW s \in State, NEW v \in Ids, NEW x \in {v, Unset}, NEW now \in Mscs,
         v # s.pending, Drawn(s, x)
  PROVE  Drawn(ExecutePost(s, v, now), Unset)
<1> DEFINE mode == IF s.vb[v].kind = "pixmap" /\ s.vb[v].pix = NoPix THEN "skip" ELSE "copy"
           a == VblankNotify(s, v, mode, now)
           t == VblankDestroy(a, v)
<1>1. ExecutePost(s, v, now) = t /\ mode \in Modes
  BY DEF ExecutePost, Modes
<1> HIDE DEF mode
<1>2. /\ a \in State /\ SameQueues(s, a) /\ SameFlip(s, a) /\ SameUnflip(s, a)
      /\ a.winPix = s.winPix
  <2>1. a \in State
    BY <1>1, VblankNotifyType
  <2> QED BY <2>1, VblankNotifyFrame
<1> HIDE DEF a
<1>3. /\ SameFlip(a, t) /\ SameUnflip(a, t) /\ t.winPix = a.winPix
      /\ ~t.vb[v].queued /\ \A u \in Ids \ {v} : t.vb[u] = a.vb[u]
  BY <1>2, VblankDestroyFrame
<1> HIDE DEF t
<1>4. /\ SameFlip(s, t) /\ SameUnflip(s, t) /\ t.winPix = s.winPix
      /\ \A u \in Ids \ {v} : t.vb[u] = s.vb[u]
  BY <1>2, <1>3 DEF SameQueues, SameFlip, SameUnflip
<1>5. Drawn(t, Unset)
  BY <1>3, <1>4, OneOverDrawn, DrawnSame
<1> QED BY <1>1, <1>5

(* present_execute_copy of a request in hand. *)
LEMMA ExecuteCopyDrawn ==
  ASSUME NEW s \in State, NEW v \in Ids, NEW now \in Mscs, NEW refuse, v # s.pending, Drawn(s, v)
  PROVE  Drawn(ExecuteCopy(s, v, now, refuse), Unset)
<1> DEFINE t == ExecuteCopy(s, v, now, refuse)
           r == PixmapIdle(s, v)
<1>1. CASE Requeues(s, v, now, refuse)
  <2> DEFINE e == <<v, s.vb[v].exec>>
  <2>1. /\ SameFlip(s, t) /\ SameUnflip(s, t) /\ SameClient(s, t)
        /\ t.hwFlip = s.hwFlip /\ t.winPix = s.winPix
        /\ t.execQ = s.execQ \cup {v} /\ t.flipQ = s.flipQ
        /\ e \in Events /\ t.vbl[e] = s.vbl[e] + 1
        /\ SameName(s.vb[v], t.vb[v]) /\ SameShow(s.vb[v], t.vb[v])
        /\ t.vb[v].queued /\ t.vb[v].ready = s.vb[v].ready
        /\ t.vb[v].cb = s.vb[v].cb /\ t.vb[v].abort = s.vb[v].abort
        /\ \A u \in Ids \ {v} : t.vb[u] = s.vb[u]
    BY <1>1, RequeueFrame
  <2> HIDE DEF t
  <2>2. SameFrame(s.vb[v], t.vb[v])
    BY <2>1 DEF SameFrame, SameName, SameShow
  <2>3. Drawn(t, Unset)
    BY <2>1, <2>2, OneSameDrawn, DrawnSame
  <2> QED BY <2>3 DEF t
<1>2. CASE ~Requeues(s, v, now, refuse)
  <2>1. t = ExecutePost(r, v, now)
    BY <1>2 DEF ExecuteCopy
  <2> HIDE DEF t
  <2>2. /\ r \in State /\ SameQueues(s, r) /\ SameFlip(s, r) /\ SameUnflip(s, r)
        /\ r.winPix = s.winPix
    BY PixmapIdleType, PixmapIdleFrame
  <2> HIDE DEF r
  <2>3. Drawn(r, v) /\ v # r.pending
    BY <2>2, QueuesSameDrawn, DrawnSame DEF SameFlip
  <2>4. Drawn(t, Unset)
    BY <2>1, <2>2, <2>3, ExecutePostDrawn
  <2> QED BY <2>4 DEF t
<1> QED BY <1>1, <1>2

(* present_flip: the flipped window gives up its pixmap, the new one and the
   root and all that draw where it does take the new pixmap. *)
LEMMA StartFlipDrawn ==
  ASSUME NEW s \in State, NEW v \in Ids, s.pending = Unset, s.vb[v].win # NoWin,
         Drawn(s, v)
  PROVE  Drawn(StartFlip(s, v), Unset)
<1> DEFINE b == s.vb[v]
           due == IF b.sync /\ msc < MaxMsc THEN msc + 1 ELSE msc
           k == b.win
           p == b.pix
           a == s.winPix
           f == s.flipWin
           D == Windows \cup {Root}
           c == IF f \notin {NoWin, k} THEN SetTreePixmap(a, f, s.flipPix, Screen) ELSE a
           d == SetTreePixmap(c, k, NoPix, p)
           e == SetTreePixmap(d, Root, NoPix, p)
           t == [s EXCEPT !.pending = v, !.flipQ = <<v>> \o @,
                          !.hwFlip = @ \cup {<<v, due>>}, !.winPix = e]
<1>1. StartFlip(s, v) = t
  BY DEF StartFlip
<1>2. t.winPix = e
  <2> HIDE DEF e
  <2> QED BY DEF State
<1>3. t.vb = s.vb /\ t.pending = v
  BY <1>1, StartFlipFrame
<1> HIDE DEF t
<1>4. k \in Windows /\ f \in Windows \cup {NoWin} /\ DOMAIN a = D
  <2>1. s.vb[v] \in Vblank
    BY OneVbType
  <2> QED BY <2>1 DEF Vblank, State
<1>5. \A x \in D : a[x] \in {Screen, a[Root]}
  BY DEF Drawn
<1>6. ~s.vb[v].abort /\ \A u \in Ids : s.vb[u].queued => ~s.vb[u].abort
  BY DEF Drawn
<1> HIDE DEF k, p, a, f
<1>7. DOMAIN c = D /\ c[Root] = a[Root] /\ \A x \in D : c[x] \in {a[x], Screen}
  BY <1>4, SentinelAssumption DEF SetTreePixmap
<1> HIDE DEF c
<1>8. DOMAIN d = D /\ d[k] = p /\ d[Root] = c[Root] /\ \A x \in D : x # k => d[x] = c[x]
  BY <1>4, <1>7, SentinelAssumption DEF SetTreePixmap
<1> HIDE DEF d
<1>9. e = [x \in DOMAIN d |-> IF d[x] = d[Root] THEN p ELSE d[x]]
  BY DEF SetTreePixmap
<1> HIDE DEF e
<1>10. \A x \in D : d[x] \in {p, Screen, d[Root]}
  BY <1>5, <1>7, <1>8
<1>11. e[Root] = p /\ \A x \in D : e[x] \in {Screen, p}
  BY <1>8, <1>9, <1>10
<1>12. Shown(t, p) /\ v # Unset
  BY <1>3, <1>6 DEF Shown, p, Ids, Unset
<1>13. \A u \in Ids : t.vb[u].queued \/ u = Unset => ~t.vb[u].abort
  BY <1>3, <1>6 DEF Ids, Unset
<1>14. Drawn(t, Unset)
  BY <1>2, <1>3, <1>11, <1>12, <1>13 DEF Drawn
<1> QED BY <1>1, <1>14

(* present_execute_copy or present_flip of a request in hand. *)
LEMMA PresentDrawn ==
  ASSUME NEW s \in State, NEW v \in Ids, NEW now \in Mscs, NEW refuse, NEW n, Sound(s, n, v),
         v # s.pending, s.vb[v].flip => s.pending = Unset, s.vb[v].win # NoWin,
         Drawn(s, v)
  PROVE  Drawn(Present(s, v, now, refuse), Unset)
<1> DEFINE r == IF s.vb[v].flip THEN FlipRefused(s, v) ELSE s
           w == s.vb[v].win
           u == StopFlipping(r, w)
           t == ExecuteCopy(u, v, now, refuse)
<1>1. Present(s, v, now, refuse)
        = IF s.vb[v].flip /\ "flip" \notin refuse THEN StartFlip(s, v) ELSE t
  BY DEF Present
<1>2. CASE s.vb[v].flip /\ "flip" \notin refuse
  <2>1. Present(s, v, now, refuse) = StartFlip(s, v)
    BY <1>1, <1>2
  <2> QED BY <1>2, <2>1, StartFlipDrawn
<1>3. CASE ~(s.vb[v].flip /\ "flip" \notin refuse)
  <2>1. r \in State /\ Drawn(r, v) /\ Sound(r, n, v) /\ r.pending = s.pending
    <3>1. FlipRefused(s, v) \in State /\ Drawn(FlipRefused(s, v), v)
      BY FlipRefusedType, WaitingDrawn
    <3>2. SameFlip(s, FlipRefused(s, v))
      BY FlipRefusedFrame
    <3>3. v # s.pending => Sound(FlipRefused(s, v), n, v)
      BY FlipRefusedSound, SoundInHand
    <3> QED BY <3>1, <3>2, <3>3 DEF SameFlip
  <2> HIDE DEF r
  <2>2. u \in State /\ Drawn(u, v)
    BY <2>1, StopFlippingType, StopFlippingDrawn
  <2>3. u.pending = s.pending
    <3>1. SameBook(r, u)
      BY <2>1, StopFlippingBook
    <3> QED BY <2>1, <3>1 DEF SameBook, SameFlip
  <2> HIDE DEF u
  <2>4. Drawn(t, Unset)
    BY <2>2, <2>3, ExecuteCopyDrawn
  <2> HIDE DEF t
  <2> QED BY <1>1, <1>3, <2>4
<1> QED BY <1>2, <1>3

(* present_execute. *)
LEMMA ExecuteDrawn ==
  ASSUME NEW s \in State, NEW v \in Ids, NEW now \in Mscs, NEW refuse, NEW n, Sound(s, n, Unset),
         s.vb[v].queued \/ v = s.pending, Drawn(s, Unset)
  PROVE  Drawn(Execute(s, v, now, refuse), Unset)
<1>0. /\ v = s.pending => s.vb[v].flip /\ s.vb[v].pix # NoPix
      /\ v # Unset
  BY DEF Sound, Ids, Unset
<1>1. CASE s.vb[v].win = NoWin
  <2>1. Execute(s, v, now, refuse) = Halt(s, "null")
    BY <1>1 DEF Execute
  <2>2. SameState(s, Halt(s, "null")) /\ Halt(s, "null").winPix = s.winPix
    BY HaltFrame
  <2> QED BY <2>1, <2>2, QueuesSameDrawn, DrawnSame DEF SameState
<1>2. CASE s.vb[v].win # NoWin /\ Requeues(s, v, now, refuse)
  <2>1. Execute(s, v, now, refuse) = QueueVblank(s, v)
    BY <1>2 DEF Execute
  <2> DEFINE t == QueueVblank(s, v)
             e == <<v, s.vb[v].exec>>
  <2>2. SameQueues(s, t) /\ SameFlip(s, t) /\ SameUnflip(s, t) /\ t.winPix = s.winPix
    BY QueueVblankFrame
  <2> HIDE DEF t
  <2>3. Drawn(t, Unset)
    BY <2>2, QueuesSameDrawn, DrawnSame
  <2> QED BY <2>1, <2>3 DEF t
<1>3. CASE s.vb[v].win # NoWin /\ ~Requeues(s, v, now, refuse) /\ WaitsForFence(s, v)
  <2>1. Execute(s, v, now, refuse) = AwaitFence(s, v)
    BY <1>3 DEF Execute
  <2> QED BY <1>0, <2>1, WaitingDrawn
<1>4. CASE /\ s.vb[v].win # NoWin /\ ~Requeues(s, v, now, refuse)
           /\ ~WaitsForFence(s, v) /\ MustDefer(s, v)
  <2>1. Execute(s, v, now, refuse) = DeferFlip(s, v)
    BY <1>4 DEF Execute
  <2> QED BY <1>0, <2>1, WaitingDrawn
<1>5. CASE /\ s.vb[v].win # NoWin /\ ~Requeues(s, v, now, refuse)
           /\ ~WaitsForFence(s, v) /\ ~MustDefer(s, v)
  <2> DEFINE t == Dequeue(s, v)
             p == Present(t, v, now, refuse)
             x == ExecutePost(t, v, now)
  <2>1. v # s.pending /\ s.vb[v].queued
    BY <1>0, <1>5 DEF MustDefer
  <2>2. t \in State /\ Sound(t, n, v)
    <3>1. Sound(s, n, v)
      BY SoundInHand
    <3> QED BY <2>1, <3>1, DequeueType, DequeueSound
  <2>3. /\ SameFlip(s, t) /\ SameUnflip(s, t) /\ t.winPix = s.winPix
        /\ SameName(s.vb[v], t.vb[v]) /\ SameShow(s.vb[v], t.vb[v])
        /\ t.vb[v].abort = s.vb[v].abort
        /\ \A u \in Ids \ {v} : t.vb[u] = s.vb[u]
    BY DequeueFrame
  <2>4. Execute(s, v, now, refuse) = IF s.vb[v].pix # NoPix THEN p ELSE x
    BY <1>5 DEF Execute
  <2> HIDE DEF t
  <2>5. SameFrame(s.vb[v], t.vb[v])
    BY <2>3 DEF SameFrame, SameName, SameShow
  <2>6. Drawn(t, v) /\ v # t.pending /\ t.vb[v].win # NoWin
    BY <1>5, <2>1, <2>3, <2>5, OneSameDrawn, DrawnSame DEF SameFlip, SameFrame
  <2>7. s.vb[v].pix # NoPix => (t.vb[v].flip => t.pending = Unset)
    BY <1>5, <2>3 DEF MustDefer, SameShow, SameFlip
  <2>8. s.vb[v].pix # NoPix => Drawn(p, Unset)
    BY <2>2, <2>6, <2>7, PresentDrawn
  <2>9. Drawn(x, Unset)
    BY <2>2, <2>6, ExecutePostDrawn
  <2> HIDE DEF p, x
  <2> QED BY <2>4, <2>8, <2>9
<1> QED BY <1>1, <1>2, <1>3, <1>4, <1>5


(* present_flip_try_ready. *)
LEMMA FlipTryReadyDrawn ==
  ASSUME NEW s \in State, NEW refuse, msc \in Mscs, NEW n, Sound(s, n, Unset),
         Drawn(s, Unset)
  PROVE  Drawn(FlipTryReady(s, refuse), Unset)
<1>1. CASE FlipTryReady(s, refuse) = s
  BY <1>1
<1>2. CASE \E v \in Ids : /\ Contains(s.flipQ, v) /\ s.vb[v].queued
                          /\ FlipTryReady(s, refuse) = Execute(s, v, msc, refuse)
  BY <1>2, ExecuteDrawn
<1> QED BY <1>1, <1>2, FlipTryReadyRuns

(* present_flip_idle, when a flip is in progress or the screen is restored. *)
LEMMA FlipIdleDrawn ==
  ASSUME NEW s \in State, NEW x, s.flipOf = Unset <=> s.flipPix = NoPix, Drawn(s, x),
         s.pending = Unset => s.winPix[Root] = Screen
  PROVE  Drawn(FlipIdle(s), x)
<1> DEFINE t == FlipIdle(s)
<1>1. /\ SameQueues(s, t) /\ SameUnflip(s, t)
      /\ t.pending = s.pending /\ t.winPix = s.winPix
  BY FlipIdleFrame
<1> HIDE DEF t
<1>2. t.winPix[Root] = Screen \/ Shown(t, t.winPix[Root])
  BY <1>1 DEF Drawn, Shown, SameQueues
<1>3. Drawn(t, x)
  BY <1>1, <1>2 DEF Drawn, SameQueues
<1> QED BY <1>3 DEF t

(* The pending flip is what is shown now: its window draws into its pixmap. *)
LEMMA TakeFlipDrawn ==
  ASSUME NEW s \in State, NEW v \in Ids, NEW n, Sound(s, n, Unset), s.pending = v,
         Drawn(s, Unset)
  PROVE  Drawn(TakeFlip(s, v), Unset)
<1> DEFINE t == TakeFlip(s, v)
<1>1. v # Unset /\ ~s.unflip /\ ~s.vb[v].queued /\ \A u \in Ids : u # Unset
  BY DEF Sound, Ids, Unset
<1>2. /\ t.pending = Unset /\ t.flipWin = s.vb[v].win /\ t.flipPix = s.vb[v].pix
      /\ SameUnflip(s, t) /\ t.winPix = s.winPix
      /\ t.vb[v].queued = s.vb[v].queued
      /\ \A u \in Ids \ {v} : t.vb[u] = s.vb[u]
  BY TakeFlipFrame
<1> HIDE DEF t
<1>3. s.winPix[Root] # Screen => Shown(t, s.winPix[Root])
  BY <1>1, <1>2 DEF Drawn, Shown, SameUnflip
<1>4. \A u \in Ids : t.vb[u].queued \/ u = Unset => ~t.vb[u].abort
  BY <1>1, <1>2 DEF Drawn
<1>5. Drawn(t, Unset)
  BY <1>2, <1>3, <1>4 DEF Drawn
<1> QED BY <1>5 DEF t

(* present_flip_notify. *)
LEMMA FlipNotifyDrawn ==
  ASSUME NEW s \in State, NEW v \in Ids, NEW now \in Mscs, NEW refuse, msc \in Mscs,
         NEW n, Sound(s, n, Unset), s.flipOf = Unset <=> s.flipPix = NoPix,
         Drawn(s, Unset)
  PROVE  Drawn(FlipNotify(s, v, now, refuse), Unset)
<1> DEFINE i == FlipIdle(s)
           t == TakeFlip(i, v)
           u == IF s.vb[v].abort THEN Unflip(t) ELSE t
           y == VblankNotify(u, v, "flip", now)
           x == VblankDestroy(y, v)
<1>1. CASE v # s.pending
  <2>1. FlipNotify(s, v, now, refuse) = Halt(s, "assert")
    BY <1>1 DEF FlipNotify
  <2>2. SameState(s, Halt(s, "assert")) /\ Halt(s, "assert").winPix = s.winPix
    BY HaltFrame
  <2> QED BY <2>1, <2>2, QueuesSameDrawn, DrawnSame DEF SameState
<1>2. CASE v = s.pending
  <2>1. FlipNotify(s, v, now, refuse) = FlipTryReady(x, refuse)
    BY <1>2 DEF FlipNotify
  <2>2. v # Unset
    BY DEF Ids, Unset
  <2>3. i \in State /\ Sound(i, n, Unset) /\ Drawn(i, Unset) /\ i.pending = v
    <3>1. i.pending = s.pending
      BY FlipIdleFrame
    <3>2. Drawn(i, Unset)
      BY <1>2, <2>2, FlipIdleDrawn
    <3> QED BY <1>2, <3>1, <3>2, FlipIdleType, FlipIdleSound
  <2> HIDE DEF i
  <2>4. i.vb[v].pix # NoPix
    BY <2>2, <2>3 DEF Sound
  <2>5. t \in State /\ Sound(t, n, v) /\ t.pending = Unset /\ t.flipPix = i.vb[v].pix
    BY <2>3, TakeFlipType, TakeFlipSound, TakeFlipFrame
  <2>6. Drawn(t, Unset) /\ ~t.unflip
    <3>1. ~t.unflip
      BY <2>2, <2>3, TakeFlipSound DEF t
    <3> QED BY <2>3, <3>1, TakeFlipDrawn
  <2> HIDE DEF t
  <2>7. u \in State /\ Sound(u, n, v) /\ Drawn(u, Unset) /\ u.pending = Unset
    <3>1. CASE s.vb[v].abort
      <4>1. u = Unflip(t)
        BY <3>1
      <4> HIDE DEF u
      <4>2. u \in State /\ Sound(u, n, v)
        BY <2>4, <2>5, <2>6, <4>1, UnflipType, UnflipSound
      <4>3. SameFlip(t, u) /\ Drawn(u, Unset)
        BY <2>5, <2>6, <4>1, UnflipFrame, UnflipDrawn
      <4> QED BY <2>5, <4>2, <4>3 DEF SameFlip
    <3>2. CASE ~s.vb[v].abort
      <4>1. u = t
        BY <3>2
      <4> HIDE DEF u
      <4> QED BY <2>5, <2>6, <4>1
    <3> QED BY <3>1, <3>2
  <2> HIDE DEF u
  <2>8. y \in State /\ SameQueues(u, y) /\ SameFlip(u, y) /\ SameUnflip(u, y)
        /\ y.winPix = u.winPix
    <3>1. y \in State
      BY <2>7, VblankNotifyType DEF Modes
    <3> QED BY <2>7, <3>1, VblankNotifyFrame
  <2>9. Sound(y, n, v) /\ y.pending = Unset
    <3>1. SameFlips(u, y)
      BY <2>7, VblankNotifySame
    <3> HIDE DEF y
    <3> QED BY <2>7, <2>8, <3>1, SoundSame DEF SameFlip
  <2> HIDE DEF y
  <2>10. Drawn(y, Unset)
    BY <2>7, <2>8, QueuesSameDrawn, DrawnSame
  <2>11. x \in State /\ Sound(x, n, Unset)
    <3>1. IsInjective(y.flipQ) /\ v # y.pending
      BY <2>2, <2>9 DEF Sound
    <3> QED BY <2>8, <2>9, <3>1, VblankDestroyType, VblankDestroySound
  <2>12. /\ SameFlip(y, x) /\ SameUnflip(y, x) /\ x.winPix = y.winPix
         /\ ~x.vb[v].queued /\ \A k \in Ids \ {v} : x.vb[k] = y.vb[k]
    BY <2>8, VblankDestroyFrame
  <2> HIDE DEF x
  <2>13. Drawn(x, Unset)
    <3>1. SameDrawn(y, x, Unset, Unset)
      BY <2>2, <2>8, <2>9, <2>12, OneOverDrawn
    <3> QED BY <2>10, <3>1, DrawnSame
  <2> QED BY <2>1, <2>11, <2>13, FlipTryReadyDrawn
<1> QED BY <1>1, <1>2

(* present_unflip's completion: the windows have been restored. *)
LEMMA UnflipNotifyDrawn ==
  ASSUME NEW s \in State, NEW refuse, msc \in Mscs,
         NEW n, Sound(s, n, Unset), s.flipOf = Unset <=> s.flipPix = NoPix, s.unflip,
         Drawn(s, Unset)
  PROVE  Drawn(UnflipNotify(s, refuse), Unset)
<1> DEFINE t == [s EXCEPT !.unflip = FALSE]
           u == FlipIdle(t)
<1>1. /\ t \in State /\ SameQueues(s, t) /\ SameFlip(s, t)
      /\ t.winPix = s.winPix /\ ~t.unflip /\ t.halted = s.halted
  BY DEF State, SameQueues, SameFlip
<1>2. UnflipNotify(s, refuse) = FlipTryReady(u, refuse)
  BY DEF UnflipNotify
<1> HIDE DEF t
<1>3. Sound(t, n, Unset)
  BY <1>1 DEF Sound, SameQueues, SameFlip
<1>4. t.pending = Unset /\ t.winPix[Root] = Screen
  BY <1>1 DEF Drawn, Shown, Sound, SameFlip
<1>5. Drawn(t, Unset) /\ (t.flipOf = Unset <=> t.flipPix = NoPix)
  BY <1>1, <1>4 DEF Drawn, SameQueues, SameFlip
<1>6. u \in State /\ Sound(u, n, Unset) /\ Drawn(u, Unset)
  BY <1>1, <1>3, <1>4, <1>5, FlipIdleType, FlipIdleSound, FlipIdleDrawn
<1> HIDE DEF u
<1> QED BY <1>2, <1>6, FlipTryReadyDrawn

(* present_event_notify. *)
LEMMA EventNotifyDrawn ==
  ASSUME NEW s \in State, NEW v \in Ids, NEW now \in Mscs, NEW refuse, msc \in Mscs,
         NEW n, Sound(s, n, Unset), s.flipOf = Unset <=> s.flipPix = NoPix,
         v \in s.execQ => s.vb[v].queued, Drawn(s, Unset)
  PROVE  Drawn(EventNotify(s, v, now, refuse), Unset)
<1>1. s.vb[v].queued => Drawn(Execute(s, v, now, refuse), Unset)
  BY ExecuteDrawn
<1>2. Drawn(FlipNotify(s, v, now, refuse), Unset)
  BY FlipNotifyDrawn
<1> QED BY <1>1, <1>2 DEF EventNotify

-----------------------------------------------------------------------------
(* Windows that go, and requests that come.                                 *)

(* present_clear_window_flip: a window that was flipping is restored. *)
LEMMA ClearWindowFlipDrawn ==
  ASSUME NEW s \in State, NEW w \in Windows, NEW n, Sound(s, n, Unset), Drawn(s, Unset)
  PROVE  Drawn(ClearWindowFlip(s, w), Unset)
<1> DEFINE t == IF s.pending # Unset /\ s.vb[s.pending].win = w
                THEN [SetAbortFlip(s) EXCEPT !.vb[s.pending].win = NoWin] ELSE s
           r == RestoreScreenPixmap(t)
           e == [r EXCEPT !.flipWin = NoWin]
           k == ClearWindowFlip(s, w)
<1>1. t \in State /\ Drawn(t, Unset)
  <2>1. CASE s.pending # Unset /\ s.vb[s.pending].win = w
    <3> DEFINE a == SetAbortFlip(s)
               c == [SetAbortFlip(s) EXCEPT !.vb[s.pending].win = NoWin]
    <3>1. /\ c \in State /\ c.execQ = s.execQ /\ SameFlip(s, c) /\ SameClient(s, c)
          /\ SameUnflip(s, c) /\ c.winPix = a.winPix
          /\ LostWindow(s.vb[s.pending], c.vb[s.pending])
          /\ \A u \in Ids \ {s.pending} : c.vb[u] = s.vb[u]
      BY <2>1, LoseWindowFrame
    <3>2. Drawn(a, Unset) /\ SameFlip(s, a) /\ a.vb[s.pending].abort
      <4>1. ~s.vb[s.pending].queued
        BY <2>1 DEF Sound
      <4> QED BY <2>1, <4>1, SetAbortDrawn, SetAbortFrame
    <3>3. t = c
      BY <2>1
    <3> HIDE DEF c, t, a
    <3>4. s.pending \in Ids /\ \A u \in Ids : u # Unset
      BY <2>1, PendingType DEF Ids, Unset
    <3>5. a.winPix[Root] = Screen
      BY <2>1, <3>2 DEF Drawn, Shown, SameFlip
    <3>6. ~c.vb[s.pending].queued
      BY <2>1, <3>1 DEF Sound, LostWindow
    <3>7. \A u \in Ids : c.vb[u].queued \/ u = Unset => ~c.vb[u].abort
      BY <3>1, <3>4, <3>6 DEF Drawn
    <3>8. Drawn(c, Unset)
      BY <3>1, <3>2, <3>5, <3>7 DEF Drawn, SameFlip, LostWindow
    <3> QED BY <3>1, <3>3, <3>8
  <2>2. CASE ~(s.pending # Unset /\ s.vb[s.pending].win = w)
    BY <2>2
  <2> QED BY <2>1, <2>2
<1>2. k = IF t.flipWin = w THEN e ELSE t
  BY DEF ClearWindowFlip
<1> HIDE DEF t, k
<1>3. CASE t.flipWin = w
  <2>1. r \in State /\ SameState(t, r) /\ Restored(r)
    BY <1>1, RestoreScreenPixmapType, RestoreFrame, RestoreRestores DEF Drawn
  <2> HIDE DEF r
  <2>2. SameQueues(r, e) /\ e.pending = r.pending /\ e.winPix = r.winPix
    BY <2>1 DEF State, SameQueues
  <2> HIDE DEF e
  <2>3. SameQueues(t, e) /\ e.pending = t.pending /\ Restored(e)
    BY <2>1, <2>2 DEF SameState, SameQueues, SameFlip, Restored
  <2>4. Drawn(e, Unset)
    BY <1>1, <2>3, RestoredDrawn DEF Drawn, SameQueues
  <2> QED BY <1>2, <1>3, <2>4 DEF k
<1>4. CASE t.flipWin # w
  BY <1>1, <1>2, <1>4 DEF k
<1> QED BY <1>3, <1>4

(* Replaced requests are queued ones, none of them being flipped. *)
LEMMA ScrapDrawn ==
  ASSUME NEW s \in State, NEW old \in SUBSET Ids, NEW n, Sound(s, n, Unset),
         Drawn(s, Unset), \A v \in old : s.vb[v].queued /\ s.vb[v].pix # NoPix
  PROVE  Drawn(Scrap(s, old), Unset)
<1> DEFINE t == Scrap(s, old)
<1>1. /\ SameFlip(s, t) /\ SameUnflip(s, t) /\ t.winPix = s.winPix
      /\ \A v \in Ids \ old : t.vb[v] = s.vb[v]
      /\ \A v \in old : t.vb[v].queued = s.vb[v].queued
  BY ScrapFrame
<1>2. \A v \in old : t.vb[v].abort = s.vb[v].abort
  <2>1. s.vb \in [Ids -> Vblank]
    BY FieldTypes
  <2>2. \A v \in old : t.vb[v] = [s.vb[v] EXCEPT !.pix = NoPix, !.flip = FALSE]
    BY DEF Scrap, State
  <2> HIDE DEF t
  <2> QED BY <2>1, <2>2 DEF Vblank
<1> HIDE DEF t
<1>3. s.pending # Unset => s.pending \in Ids \ old
  BY FieldTypes DEF Sound
<1>4. s.pending # Unset => SameFrame(s.vb[s.pending], t.vb[s.pending])
  BY <1>1, <1>3 DEF SameFrame
<1>5. \A v \in Ids : t.vb[v].queued = s.vb[v].queued /\ t.vb[v].abort = s.vb[v].abort
  BY <1>1, <1>2
<1>6. SameDrawn(s, t, Unset, Unset)
  BY <1>1, <1>4, <1>5 DEF SameDrawn, SameUnflip, Ids, Unset
<1> QED BY <1>6, DrawnSame DEF t

(* A new request is not aborted. *)
LEMMA VblankCreateDrawn ==
  ASSUME NEW s \in State, NEW v \in Ids, NEW w \in Windows, NEW p \in Pixmaps \cup {NoPix},
         NEW opt \in OptionRecord, NEW f \in Fences \cup {NoFence}, NEW target \in Mscs,
         msc \in Mscs, v # s.pending, Drawn(s, Unset)
  PROVE  Drawn(VblankCreate(s, v, w, p, opt, f, target), Unset)
<1> DEFINE t == VblankCreate(s, v, w, p, opt, f, target)
<1>0. t = VblankCreate(s, v, w, p, opt, f, target)
  OBVIOUS
<1> HIDE DEF t
<1>1. /\ t.execQ = s.execQ \cup {v} /\ t.flipQ = s.flipQ
      /\ SameFlip(s, t) /\ SameUnflip(s, t) /\ SameOwed(s, t) /\ SameClient(s, t)
      /\ t.winPix = s.winPix
      /\ Created(t.vb[v], w, p, opt, target)
      /\ \A u \in Ids \ {v} : t.vb[u] = s.vb[u]
  BY <1>0, VblankCreateFrame
<1>2. s.pending # Unset => s.pending \in Ids \ {v}
  BY FieldTypes
<1>3. \A u \in Ids : u # Unset
  BY DEF Ids, Unset
<1>4. ~t.vb[v].abort
  BY <1>1 DEF Created
<1>5. \A u \in Ids : t.vb[u].queued \/ u = Unset => ~t.vb[u].abort
  BY <1>1, <1>3, <1>4 DEF Drawn
<1>6. s.pending # Unset => t.vb[s.pending] = s.vb[s.pending]
  BY <1>1, <1>2
<1>7. \A q : Shown(s, q) <=> Shown(t, q)
  BY <1>1, <1>6 DEF Shown, SameFlip, SameUnflip
<1>8. Drawn(t, Unset)
  BY <1>1, <1>5, <1>6, <1>7 DEF Drawn, SameFlip
<1> QED BY <1>0, <1>8

(* present_scmd_pixmap, whole. *)
LEMMA SubmittedDrawn ==
  ASSUME NEW s \in State, NEW v \in Ids, NEW w \in Windows, NEW p \in Pixmaps \cup {NoPix},
         NEW opt \in OptionRecord, NEW f \in Fences \cup {NoFence}, NEW target \in Mscs,
         NEW refuse, msc \in Mscs, Sound(s, v, Unset), v # s.pending, Drawn(s, Unset)
  PROVE  Drawn(Submitted(s, v, w, p, opt, f, target, refuse), Unset)
<1> DEFINE old == IF p = NoPix \/ opt.update THEN {} ELSE Superseded(s, w, target)
           c == Scrap(s, old)
           t == VblankCreate(c, v, w, p, opt, f, target)
           q == QueueVblank(t, v)
<1>1. old \in SUBSET Ids /\ \A u \in old : s.vb[u].queued /\ s.vb[u].pix # NoPix
  BY DEF Superseded
<1>2. Submitted(s, v, w, p, opt, f, target, refuse)
        \in {q, Execute(t, v, msc, refuse)}
  BY DEF Submitted
<1> HIDE DEF old
<1>3. c \in State /\ Sound(c, v, Unset) /\ Drawn(c, Unset)
  BY <1>1, ScrapType, ScrapSound, ScrapDrawn
<1>4. c.pending = s.pending
  <2>1. SameFlip(s, c)
    BY <1>1, ScrapFrame
  <2> QED BY <2>1 DEF SameFlip
<1> HIDE DEF c
<1>5. t \in State /\ Sound(t, v + 1, Unset)
  BY <1>3, VblankCreateType, VblankCreateSound
<1>6. Drawn(t, Unset)
  BY <1>3, <1>4, VblankCreateDrawn
<1>7. t.vb[v].queued
  <2>1. Created(t.vb[v], w, p, opt, target)
    BY <1>3, VblankCreateFrame
  <2> QED BY <2>1 DEF Created
<1> HIDE DEF t
<1>8. Drawn(q, Unset)
  <2>1. SameQueues(t, q) /\ SameFlip(t, q) /\ SameUnflip(t, q) /\ q.winPix = t.winPix
    BY <1>5, QueueVblankFrame
  <2> HIDE DEF q
  <2> QED BY <1>6, <2>1, QueuesSameDrawn, DrawnSame
<1>9. Drawn(Execute(t, v, msc, refuse), Unset)
  BY <1>5, <1>6, <1>7, ExecuteDrawn
<1> QED BY <1>2, <1>8, <1>9

-----------------------------------------------------------------------------
(* Every action.                                                            *)

DrawnInv == Drawn(Cur, Unset)

(* An action that becomes a state in which windows draw where they may. *)
LEMMA BecomeDrawn ==
  ASSUME NEW s \in State, Become(s), Drawn(s, Unset)
  PROVE  DrawnInv'
<1> DEFINE t == Cur'
<1>1. SameQueues(s, t) /\ SameFlip(s, t) /\ t.unflip = s.unflip /\ t.winPix = s.winPix
  BY BecomeFields DEF SameQueues, SameFlip
<1> HIDE DEF t
<1>2. SameDrawn(s, t, Unset, Unset)
  BY <1>1 DEF SameDrawn, SameQueues, SameFrame
<1>3. Drawn(t, Unset)
  BY <1>2, DrawnSame
<1>4. Drawn(Cur, Unset)'
  BY <1>3 DEF t
<1> QED BY <1>4 DEF DrawnInv

(* Every window draws into the screen pixmap at first. *)
LEMMA DrawnInit == Init => DrawnInv
<1> SUFFICES ASSUME Init PROVE DrawnInv
  OBVIOUS
<1>1. /\ Cur.vb = vb /\ Cur.pending = Unset
      /\ Cur.winPix = [x \in Windows \cup {Root} |-> Screen]
  BY DEF Init, Cur
<1>2. \A v \in Ids : ~Cur.vb[v].queued /\ v # Unset
  BY <1>1 DEF Init, Fresh, Ids, Unset
<1> QED BY <1>1, <1>2 DEF DrawnInv, Drawn

(* A request keeps it. *)
LEMMA SubmitDrawn ==
  ASSUME TypeOK, SoundInv, BookedInv, DrawnInv,
         NEW w \in Windows, NEW p \in Pixmaps \cup {NoPix},
         NEW opt \in OptionRecord, NEW f \in Fences \cup {NoFence},
         NEW wmsc \in Nat, NEW m \in Nat \X Nat, NEW refuse,
         Submit(w, p, opt, f, wmsc, m, refuse)
  PROVE  DrawnInv'
<1> DEFINE target == AdjustTimings(opt.async, msc, wmsc, m[1], m[2])
           s == Submitted(Cur, nextId, w, p, opt, f, target, refuse)
<1>1. msc \in Mscs /\ msc \in Nat /\ Cur \in State /\ nextId \in Ids /\ target <= MaxMsc
  BY BoundsAssumption DEF TypeOK, Mscs, Submit
<1>2. target \in Nat
  BY <1>1, AdjustTimingsType DEF OptionRecord
<1>3. target \in Mscs
  <2> HIDE DEF target
  <2> QED BY <1>1, <1>2, BoundsAssumption DEF Mscs
<1>4. Become(s)
  BY DEF Submit
<1> HIDE DEF target
<1>5. nextId # Cur.pending
  <2>1. Entry(Cur, nextId, nextId, Unset, alive, Homes, todo)
    BY <1>1 DEF BookedInv, Booked
  <2>2. nextId >= nextId
    BY <1>1 DEF Ids
  <2> QED BY <2>1, <2>2 DEF Entry, Owes, Unfinished
<1>6. s \in State
  BY <1>1, <1>3, SubmittedType
<1>7. Drawn(s, Unset)
  BY <1>1, <1>3, <1>5, SubmittedDrawn DEF SoundInv, DrawnInv
<1> HIDE DEF s
<1> QED BY <1>4, <1>6, <1>7, BecomeDrawn

(* Every step keeps it: one step of the proof for each action. *)
LEMMA DrawnNext ==
  ASSUME TypeOK, SoundInv, BookedInv, DrawnInv, [Next]_vars
  PROVE  DrawnInv'
<1>0. /\ msc \in Mscs /\ Cur \in State /\ Sound(Cur, nextId, Unset) /\ Drawn(Cur, Unset)
      /\ Cur.flipOf = Unset <=> Cur.flipPix = NoPix
      /\ \A v \in Ids : v \in Cur.execQ => Cur.vb[v].queued
      /\ Cur.flipWin \in Homes \cup {NoWin}
  BY BoundsAssumption
  DEF Mscs, TypeOK, SoundInv, DrawnInv, BookedInv, Booked, Entry, Reached
<1>1. CASE ClientRequest
  <2>1. PICK w \in Windows, wmsc \in Targets, m \in Moduli, refuse \in SUBSET Refusable :
          \/ \E p \in Pixmaps, opt \in Options, f \in Fences \cup {NoFence} :
                PresentPixmap(w, p, opt, f, wmsc, m, refuse)
          \/ NotifyMsc(w, wmsc, m, refuse)
    BY <1>1 DEF ClientRequest
  <2>2. wmsc \in Nat /\ m \in Nat \X Nat
    BY InputAssumption
  <2>3. CASE \E p \in Pixmaps, opt \in Options, f \in Fences \cup {NoFence} :
               PresentPixmap(w, p, opt, f, wmsc, m, refuse)
    BY <2>2, <2>3, SubmitDrawn, InputAssumption DEF PresentPixmap
  <2>4. CASE NotifyMsc(w, wmsc, m, refuse)
    <3> DEFINE opt == [async |-> m[1] = 0, copy |-> FALSE, update |-> FALSE]
    <3>1. opt \in OptionRecord
      BY DEF OptionRecord
    <3>2. Submit(w, NoPix, opt, NoFence, wmsc, m, refuse)
      BY <2>4 DEF NotifyMsc
    <3> HIDE DEF opt
    <3> QED BY <2>2, <3>1, <3>2, SubmitDrawn
  <2> QED BY <2>1, <2>3, <2>4
<1>2. ASSUME NEW e \in Events, NEW at \in 0..MaxMsc, NEW refuse \in SUBSET Refusable,
             VblankEvent(e, at, refuse)
      PROVE  DrawnInv'
  <2> DEFINE f == [vbl EXCEPT ![e] = @ - 1]
             s == [Cur EXCEPT !.vbl = f]
             t == EventNotify(s, e[1], at, refuse)
  <2>1. f \in [Events -> Nat]
    <3>1. vbl \in [Events -> Nat] /\ vbl[e] > 0
      BY <1>0, <1>2 DEF Cur, State, VblankEvent
    <3> QED BY <3>1
  <2>2. Become(t)
    <3>1. s = [Cur EXCEPT !.vbl[e] = @ - 1]
      BY DEF Cur
    <3> QED BY <1>2, <3>1 DEF VblankEvent
  <2> HIDE DEF f
  <2>3. /\ s \in State /\ SameQueues(Cur, s) /\ SameFlip(Cur, s) /\ SameUnflip(Cur, s)
        /\ s.winPix = Cur.winPix /\ SameFlips(Cur, s)
    BY <1>0, <2>1 DEF State, SameQueues, SameFlip, SameUnflip, SameFlips
  <2> HIDE DEF s
  <2>4. Drawn(s, Unset) /\ Sound(s, nextId, Unset)
    BY <1>0, <2>3, QueuesSameDrawn, DrawnSame, SoundSame
  <2>5. e[1] \in Ids /\ at \in Mscs
    BY BoundsAssumption DEF Events, Mscs
  <2>6. /\ s.flipOf = Unset <=> s.flipPix = NoPix
        /\ e[1] \in s.execQ => s.vb[e[1]].queued
    BY <1>0, <2>3, <2>5 DEF SameQueues, SameFlip
  <2>7. t \in State /\ Drawn(t, Unset)
    BY <1>0, <2>3, <2>4, <2>5, <2>6, EventNotifyType, EventNotifyDrawn
  <2> HIDE DEF t
  <2> QED BY <2>2, <2>7, BecomeDrawn
<1>3. ASSUME NEW e \in hwFlip, NEW at \in 0..MaxMsc, NEW refuse \in SUBSET Refusable,
             FlipEvent(e, at, refuse)
      PROVE  DrawnInv'
  <2> DEFINE f == hwFlip \ {e}
             s == [Cur EXCEPT !.hwFlip = f]
             t == EventNotify(s, e[1], at, refuse)
  <2>1. f \in SUBSET Events /\ e \in Events
    BY <1>0 DEF Cur, State
  <2>2. Become(t)
    <3>1. s = [Cur EXCEPT !.hwFlip = @ \ {e}]
      BY DEF Cur
    <3> QED BY <1>3, <3>1 DEF FlipEvent
  <2> HIDE DEF f
  <2>3. /\ s \in State /\ SameQueues(Cur, s) /\ SameFlip(Cur, s) /\ SameUnflip(Cur, s)
        /\ s.winPix = Cur.winPix /\ SameFlips(Cur, s)
    BY <1>0, <2>1 DEF State, SameQueues, SameFlip, SameUnflip, SameFlips
  <2> HIDE DEF s
  <2>4. Drawn(s, Unset) /\ Sound(s, nextId, Unset)
    BY <1>0, <2>3, QueuesSameDrawn, DrawnSame, SoundSame
  <2>5. e[1] \in Ids /\ at \in Mscs
    BY <2>1, BoundsAssumption DEF Events, Mscs
  <2>6. /\ s.flipOf = Unset <=> s.flipPix = NoPix
        /\ e[1] \in s.execQ => s.vb[e[1]].queued
    BY <1>0, <2>3, <2>5 DEF SameQueues, SameFlip
  <2>7. t \in State /\ Drawn(t, Unset)
    BY <1>0, <2>3, <2>4, <2>5, <2>6, EventNotifyType, EventNotifyDrawn
  <2> HIDE DEF t
  <2> QED BY <2>2, <2>7, BecomeDrawn
<1>4. ASSUME NEW refuse \in SUBSET Refusable, UnflipEvent(refuse)
      PROVE  DrawnInv'
  <2> DEFINE k == hwUnflip - 1
             s == [Cur EXCEPT !.hwUnflip = k]
             t == UnflipNotify(s, refuse)
  <2>1. k \in Nat
    <3>1. hwUnflip > 0 /\ hwUnflip \in Nat
      BY <1>0, <1>4 DEF Cur, State, UnflipEvent
    <3> QED BY <3>1
  <2>2. Become(IF Cur.unflip THEN t ELSE s)
    <3>1. s = [Cur EXCEPT !.hwUnflip = @ - 1] /\ Cur.unflip = unflip
      BY DEF Cur
    <3> QED BY <1>4, <3>1 DEF UnflipEvent
  <2> HIDE DEF k
  <2>3. /\ s \in State /\ SameQueues(Cur, s) /\ SameFlip(Cur, s) /\ SameFlips(Cur, s)
        /\ s.unflip = Cur.unflip /\ s.winPix = Cur.winPix
    BY <1>0, <2>1 DEF State, SameQueues, SameFlip, SameFlips
  <2> HIDE DEF s
  <2>4. Drawn(s, Unset) /\ Sound(s, nextId, Unset)
    <3>1. SameDrawn(Cur, s, Unset, Unset)
      BY <2>3 DEF SameDrawn, SameQueues, SameFrame
    <3> QED BY <1>0, <2>3, <3>1, DrawnSame, SoundSame
  <2>5. s.flipOf = Unset <=> s.flipPix = NoPix
    BY <1>0, <2>3 DEF SameFlip
  <2>6. t \in State /\ (Cur.unflip => Drawn(t, Unset))
    BY <1>0, <2>3, <2>4, <2>5, UnflipNotifyType, UnflipNotifyDrawn
  <2> HIDE DEF t
  <2> QED BY <2>2, <2>3, <2>4, <2>6, BecomeDrawn
<1>5. ASSUME NEW refuse \in SUBSET Refusable, ReExecute(refuse)
      PROVE  DrawnInv'
  <2> DEFINE v == Max(todo)
             t == Execute(Cur, v, msc, refuse)
  <2>1. v \in Ids /\ v \in todo
    <3>1. todo \in SUBSET Ids /\ todo # {}
      BY <1>5 DEF ReExecute, TypeOK
    <3>2. \E x \in todo : \A y \in todo : x >= y
      BY <3>1, GreatestId
    <3> QED BY <3>1, <3>2 DEF Max
  <2>2. Become(t)
    BY <1>5 DEF ReExecute
  <2> HIDE DEF v
  <2>3. Cur.vb[v].queued \/ v = Cur.pending
    <3>1. Entry(Cur, v, nextId, Unset, alive, Homes, todo) /\ v # Unset
      BY <2>1 DEF BookedInv, Booked, Ids, Unset
    <3> QED BY <2>1, <3>1 DEF Entry, Reached, Unfinished
  <2>4. t \in State /\ Drawn(t, Unset)
    BY <1>0, <2>1, <2>3, ExecuteType, ExecuteDrawn
  <2> HIDE DEF t
  <2> QED BY <2>2, <2>4, BecomeDrawn
<1>6. ASSUME NEW drop \in BOOLEAN, FreeWindowVblank(drop)
      PROVE  DrawnInv'
  <2> DEFINE v == Min(QueuedOn(dying))
             f == [e \in Events |-> IF drop /\ e[1] = v THEN 0 ELSE vbl[e]]
             s == [Cur EXCEPT !.vbl = f]
             t == VblankDestroy(s, v)
  <2>1. v \in Ids /\ Cur.vb[v].queued
    <3>1. QueuedOn(dying) \in SUBSET Nat /\ QueuedOn(dying) # {}
          /\ \A u \in QueuedOn(dying) : u \in Ids /\ Cur.vb[u].queued
      BY <1>6 DEF FreeWindowVblank, QueuedOn, Ids, Cur
    <3> QED BY <3>1, MinIsLeast
  <2>2. Become(t)
    <3>1. s = [Cur EXCEPT !.vbl = [e \in Events |-> IF drop /\ e[1] = v THEN 0 ELSE @[e]]]
      BY DEF Cur
    <3> HIDE DEF s
    <3> QED BY <1>6, <3>1 DEF FreeWindowVblank
  <2> HIDE DEF v
  <2>3. f \in [Events -> Nat]
    BY <1>0 DEF Cur, State
  <2> HIDE DEF f
  <2>4. /\ s \in State /\ SameQueues(Cur, s) /\ SameFlip(Cur, s) /\ SameUnflip(Cur, s)
        /\ s.winPix = Cur.winPix
    BY <1>0, <2>3 DEF State, SameQueues, SameFlip, SameUnflip
  <2> HIDE DEF s
  <2>5. v # Cur.pending
    BY <1>0, <2>1 DEF Sound, Ids, Unset
  <2>6. Drawn(s, Unset) /\ v # s.pending
    BY <1>0, <2>4, <2>5, QueuesSameDrawn, DrawnSame DEF SameFlip
  <2>7. /\ SameFlip(s, t) /\ SameUnflip(s, t) /\ t.winPix = s.winPix
        /\ ~t.vb[v].queued /\ \A u \in Ids \ {v} : t.vb[u] = s.vb[u]
    BY <2>1, <2>4, VblankDestroyFrame
  <2>8. t \in State
    BY <2>1, <2>4, VblankDestroyType
  <2> HIDE DEF t
  <2>9. Drawn(t, Unset)
    <3>1. SameDrawn(s, t, Unset, Unset)
      BY <2>1, <2>4, <2>6, <2>7, OneOverDrawn
    <3> QED BY <2>6, <3>1, DrawnSame
  <2> QED BY <2>2, <2>8, <2>9, BecomeDrawn
<1>7. CASE FinishDestroy
  <2> DEFINE t == ClearWindowFlip(Cur, dying)
  <2>1. Become(t) /\ dying \in Windows
    BY <1>7 DEF FinishDestroy, TypeOK
  <2>2. t \in State /\ Drawn(t, Unset)
    BY <1>0, <2>1, ClearWindowFlipType, ClearWindowFlipDrawn
  <2> HIDE DEF t
  <2> QED BY <2>1, <2>2, BecomeDrawn
<1>8. ASSUME NEW f \in Fences, TriggerFence(f) \/ ResetFence(f) \/ DestroyFence(f)
      PROVE  DrawnInv'
  <2>1. Become(Cur)
    BY <1>8, FenceSteps
  <2> QED BY <1>0, <2>1, BecomeDrawn
<1>9. ASSUME NEW w \in Windows, ClipNotify(w) \/ DestroyWindow(w)
      PROVE  DrawnInv'
  <2>1. PICK x \in SUBSET Windows : Become(CheckFlipWindow([Cur EXCEPT !.full = x], w))
    BY <1>9, ClipSteps
  <2> DEFINE s == [Cur EXCEPT !.full = x]
             t == CheckFlipWindow(s, w)
  <2>2. /\ s \in State /\ SameQueues(Cur, s) /\ SameFlip(Cur, s) /\ SameUnflip(Cur, s)
        /\ s.winPix = Cur.winPix /\ SameFlips(Cur, s)
    BY <1>0 DEF State, SameQueues, SameFlip, SameUnflip, SameFlips
  <2>3. Become(t)
    BY <2>1
  <2> HIDE DEF s
  <2>4. Drawn(s, Unset) /\ Sound(s, nextId, Unset)
    BY <1>0, <2>2, QueuesSameDrawn, DrawnSame, SoundSame
  <2>5. t \in State /\ Drawn(t, Unset)
    BY <2>2, <2>4, CheckFlipWindowType, CheckFlipWindowDrawn
  <2> HIDE DEF t
  <2> QED BY <2>3, <2>5, BecomeDrawn
<1>10. ASSUME NEW p \in Pixmaps, FreePixmap(p)
       PROVE  DrawnInv'
  <2> DEFINE f == [refs EXCEPT ![p] = @ - 1]
             s == [Cur EXCEPT !.refs = f]
  <2>1. f \in [Pixmaps -> Int]
    <3>1. refs \in [Pixmaps -> Int]
      BY <1>0 DEF Cur, State
    <3> QED BY <3>1
  <2>2. Become(s)
    BY <1>10 DEF FreePixmap, Become, Cur, server, driver, client
  <2> HIDE DEF f
  <2>3. /\ s \in State /\ SameQueues(Cur, s) /\ SameFlip(Cur, s) /\ SameUnflip(Cur, s)
        /\ s.winPix = Cur.winPix
    BY <1>0, <2>1 DEF State, SameQueues, SameFlip, SameUnflip
  <2> HIDE DEF s
  <2>4. Drawn(s, Unset)
    BY <1>0, <2>3, QueuesSameDrawn, DrawnSame
  <2> QED BY <2>2, <2>3, <2>4, BecomeDrawn
<1>11. CASE CloseScreen
  <2> DEFINE s == IF pending # Unset THEN SetAbortFlip(Cur) ELSE Cur
             u == FlipIdle(s)
             t == Halt(u, "closed")
  <2>1. Become(t)
    BY <1>11 DEF CloseScreen
  <2>2. Cur.pending = pending /\ Cur.flipWin = NoWin
    <3>1. Homes = {}
      BY <1>11 DEF CloseScreen, Serving, Homes
    <3> QED BY <1>0, <3>1 DEF Cur
  <2>3. s \in State /\ SameFlip(Cur, s) /\ Drawn(s, Unset)
    <3>1. CASE pending # Unset
      <4>1. ~Cur.vb[Cur.pending].queued
        BY <1>0, <2>2, <3>1 DEF Sound
      <4>2. SameFlip(Cur, SetAbortFlip(Cur))
        BY <1>0, <2>2, <3>1, SetAbortFrame
      <4> QED BY <1>0, <2>2, <3>1, <4>1, <4>2, SetAbortFlipType, SetAbortDrawn
    <3>2. CASE pending = Unset
      BY <1>0, <3>2 DEF SameFlip
    <3> QED BY <3>1, <3>2
  <2> HIDE DEF s
  <2>4. s.flipOf = Unset <=> s.flipPix = NoPix
    BY <1>0, <2>3 DEF SameFlip
  <2>5. s.pending = Unset => s.winPix[Root] = Screen
    BY <2>2, <2>3 DEF Drawn, Shown, SameFlip
  <2>6. u \in State /\ Drawn(u, Unset)
    BY <2>3, <2>4, <2>5, FlipIdleType, FlipIdleDrawn
  <2> HIDE DEF u
  <2>7. SameState(u, t) /\ t.winPix = u.winPix /\ t \in State
    BY <2>6, HaltFrame, HaltType
  <2> HIDE DEF t
  <2>8. Drawn(t, Unset)
    BY <2>6, <2>7, QueuesSameDrawn, DrawnSame DEF SameState
  <2> QED BY <2>1, <2>7, <2>8, BecomeDrawn
<1>12. CASE Tick \/ UNCHANGED vars
  <2>1. Become(Cur)
    BY <1>12 DEF Tick, vars, server, dix, driver, client, Cur, Become
  <2> QED BY <1>0, <2>1, BecomeDrawn
<1> QED
  BY <1>1, <1>2, <1>3, <1>4, <1>5, <1>6, <1>7, <1>8, <1>9, <1>10, <1>11, <1>12,
     InputAssumption
  DEF Next, DriverEvent, Loop, Environment

(* In every behaviour, whatever the driver refuses, windows draw into the
   screen pixmap or into the one that is shown or about to be. *)
THEOREM DrawnAlways == Spec => []DrawnInv
<1>1. Init => TypeOK /\ SoundInv /\ BookedInv /\ DrawnInv
  BY TypeInit, SoundInit, BookedInit, DrawnInit
<1>2. TypeOK /\ SoundInv /\ BookedInv /\ DrawnInv /\ [Next]_vars
        => TypeOK' /\ SoundInv' /\ BookedInv' /\ DrawnInv'
  BY TypeNext, SoundNext, BookedNext, DrawnNext
<1>3. Spec => [](TypeOK /\ SoundInv /\ BookedInv /\ DrawnInv)
  BY <1>1, <1>2, PTL DEF Spec
<1> QED BY <1>3, PTL

(* No window is left drawing into a pixmap that Present no longer holds: the
   reference of the flip shown, or of the flip pending, keeps it. *)
THEOREM NoDanglingRenderTargetAlways == Spec => []NoDanglingRenderTarget
<1>1. TypeOK /\ DrawnInv => NoDanglingRenderTarget
  <2> SUFFICES ASSUME TypeOK, DrawnInv, NEW x \in DOMAIN winPix, winPix[x] # Screen
               PROVE  winPix[x] \in {flipPix, PendingPixmap(Cur)}
    BY DEF NoDanglingRenderTarget
  <2>1. /\ Cur.winPix = winPix /\ Cur.flipPix = flipPix
        /\ DOMAIN winPix = Windows \cup {Root}
    BY DEF TypeOK, State, Cur
  <2>2. winPix[x] = winPix[Root]
    BY <2>1 DEF DrawnInv, Drawn
  <2>3. Shown(Cur, winPix[Root])
    BY <2>1, <2>2 DEF DrawnInv, Drawn
  <2> QED BY <2>1, <2>2, <2>3 DEF Shown, PendingPixmap
<1> QED BY <1>1, TypeCorrect, DrawnAlways, PTL

-----------------------------------------------------------------------------
(* What the root draws into, when windows keep the screen until they go.     *)

(* The pending flip's pixmap, unless it is aborted, or the one shown, unless *)
(* it is going: the root draws there, and its window is one of a.            *)
Rooted(s, a) ==
  /\ s.pending # Unset /\ ~s.vb[s.pending].abort =>
       s.winPix[Root] = s.vb[s.pending].pix /\ s.vb[s.pending].win \in a
  /\ s.pending = Unset /\ ~s.unflip /\ s.flipPix # NoPix =>
       s.winPix[Root] = s.flipPix /\ s.flipWin \in a

(* Only k covers the screen, flips, or wants to.                             *)
OneFlips(s, k) ==
  /\ s.full \subseteq {k} /\ s.flipWin \in {k, NoWin}
  /\ \A v \in Ids : s.vb[v].flip => s.vb[v].win \in {k, NoWin}

(* Requests that may still be shown have their windows.                      *)
Lodged(s, x, a) == \A v \in Ids : s.vb[v].queued \/ v = x => s.vb[v].win \in a

Held(s, x, a, k) == Rooted(s, a) /\ OneFlips(s, k) /\ Lodged(s, x, a)

(* Handlers that leave the windows and the flips alone.                      *)
Keeps(s, t, x, y) ==
  /\ SameFlip(s, t) /\ t.unflip = s.unflip /\ t.winPix = s.winPix /\ t.full = s.full
  /\ \A v \in Ids : /\ t.vb[v].queued \/ v = y => s.vb[v].queued \/ v = x
                    /\ t.vb[v].win = s.vb[v].win /\ (t.vb[v].flip => s.vb[v].flip)
  /\ s.pending # Unset => SameFrame(s.vb[s.pending], t.vb[s.pending])

LEMMA KeptRooted ==
  ASSUME NEW s, NEW t, NEW x, NEW y, NEW a, NEW k, Rooted(s, a), OneFlips(s, k),
         Keeps(s, t, x, y)
  PROVE  Rooted(t, a) /\ OneFlips(t, k)
<1>1. Rooted(t, a)
  BY DEF Rooted, Keeps, SameFlip, SameFrame
<1>2. OneFlips(t, k)
  BY DEF OneFlips, Keeps, SameFlip
<1> QED BY <1>1, <1>2

LEMMA KeptHeld ==
  ASSUME NEW s, NEW t, NEW x, NEW y, NEW a, NEW k, Held(s, x, a, k), Keeps(s, t, x, y)
  PROVE  Held(t, y, a, k)
<1>1. Rooted(t, a) /\ OneFlips(t, k)
  BY KeptRooted DEF Held
<1>2. Lodged(t, y, a)
  BY DEF Held, Lodged, Keeps
<1> QED BY <1>1, <1>2 DEF Held

(* One request's record changes, but not how it is shown. *)
LEMMA OneKeeps ==
  ASSUME NEW s \in State, NEW t, NEW v \in Ids, NEW x, NEW y \in {v, Unset},
         SameFlip(s, t), SameUnflip(s, t), t.winPix = s.winPix, t.full = s.full,
         SameFrame(s.vb[v], t.vb[v]), t.vb[v].flip => s.vb[v].flip,
         t.vb[v].queued \/ v = y => s.vb[v].queued \/ v = x,
         \A u \in Ids \ {v} : t.vb[u] = s.vb[u]
  PROVE  Keeps(s, t, x, y)
<1>1. s.pending # Unset => s.pending \in Ids
  BY FieldTypes
<1>2. \A u \in Ids : u # Unset
  BY DEF Ids, Unset
<1>3. \A u \in Ids : SameFrame(s.vb[u], t.vb[u]) /\ (t.vb[u].flip => s.vb[u].flip)
  BY DEF SameFrame
<1>4. \A u \in Ids : t.vb[u].queued \/ u = y => s.vb[u].queued \/ u = x
  BY <1>2
<1> QED BY <1>1, <1>3, <1>4 DEF Keeps, SameUnflip, SameFrame

(* The same, when the request is not the pending flip and leaves the queues. *)
LEMMA OneOverKeeps ==
  ASSUME NEW s \in State, NEW t, NEW v \in Ids, NEW x,
         SameFlip(s, t), SameUnflip(s, t), t.winPix = s.winPix, t.full = s.full,
         v # s.pending, ~t.vb[v].queued, ~t.vb[v].flip, t.vb[v].win = s.vb[v].win,
         \A u \in Ids \ {v} : t.vb[u] = s.vb[u]
  PROVE  Keeps(s, t, x, Unset)
<1>1. s.pending # Unset => s.pending \in Ids \ {v}
  BY FieldTypes
<1>2. \A u \in Ids : u # Unset
  BY DEF Ids, Unset
<1>3. s.pending # Unset => SameFrame(s.vb[s.pending], t.vb[s.pending])
  BY <1>1 DEF SameFrame
<1>4. \A u \in Ids : /\ t.vb[u].queued \/ u = Unset => s.vb[u].queued \/ u = x
                     /\ t.vb[u].win = s.vb[u].win /\ (t.vb[u].flip => s.vb[u].flip)
  BY <1>2
<1> QED BY <1>3, <1>4 DEF Keeps, SameUnflip

LEMMA QueuesKeeps ==
  ASSUME NEW s, NEW t, NEW x, SameQueues(s, t), SameFlip(s, t), SameUnflip(s, t),
         t.winPix = s.winPix, t.full = s.full
  PROVE  Keeps(s, t, x, x)
BY DEF Keeps, SameQueues, SameUnflip, SameFrame

(* No handler touches the clip lists. *)
LEMMA HaltClip ==
  ASSUME NEW s \in State, NEW why
  PROVE  Halt(s, why).full = s.full
BY DEF Halt, State

LEMMA RecordClip ==
  ASSUME NEW s \in State, NEW v \in Ids, NEW b, NEW p, NEW mode, NEW now, NEW old
  PROVE  /\ [s EXCEPT !.vb[v] = b].full = s.full
         /\ HoldPixmap(s, p).full = s.full /\ DropPixmap(s, p).full = s.full
         /\ PixmapIdle(s, v).full = s.full
         /\ VblankNotify(s, v, mode, now).full = s.full
         /\ Dequeue(s, v).full = s.full /\ QueueVblank(s, v).full = s.full
         /\ AwaitFence(s, v).full = s.full /\ DeferFlip(s, v).full = s.full
         /\ FlipRefused(s, v).full = s.full /\ StartFlip(s, v).full = s.full
         /\ TakeFlip(s, v).full = s.full /\ Scrap(s, old).full = s.full
<1>1. [s EXCEPT !.vb[v] = b].full = s.full
  BY DEF State
<1>2. HoldPixmap(s, p).full = s.full /\ DropPixmap(s, p).full = s.full
  BY DEF HoldPixmap, DropPixmap, State
<1>3. PixmapIdle(s, v).full = s.full /\ VblankNotify(s, v, mode, now).full = s.full
  BY DEF PixmapIdle, VblankNotify, State
<1>4. Dequeue(s, v).full = s.full /\ QueueVblank(s, v).full = s.full
  BY DEF Dequeue, QueueVblank, State
<1>5. AwaitFence(s, v).full = s.full /\ DeferFlip(s, v).full = s.full
  BY DEF AwaitFence, DeferFlip, State
<1>6. FlipRefused(s, v).full = s.full /\ StartFlip(s, v).full = s.full
  BY DEF FlipRefused, StartFlip, State
<1>7. TakeFlip(s, v).full = s.full /\ Scrap(s, old).full = s.full
  BY DEF TakeFlip, Scrap, State
<1> QED BY <1>1, <1>2, <1>3, <1>4, <1>5, <1>6, <1>7

LEMMA VblankDestroyClip ==
  ASSUME NEW s \in State, NEW v \in Ids
  PROVE  VblankDestroy(s, v).full = s.full
<1> DEFINE b == s.vb[v]
           c == [Fresh EXCEPT !.win = b.win, !.kind = b.kind,
                              !.target = b.target, !.update = b.update]
           t == DropPixmap(s, b.pix)
           u == Dequeue(t, v)
<1>1. VblankDestroy(s, v) = [u EXCEPT !.vb[v] = c]
  BY DEF VblankDestroy
<1>2. t \in State /\ t.full = s.full
  BY DropPixmapType, OneVbType, RecordClip DEF Vblank
<1> HIDE DEF t, c
<1>3. u \in State /\ u.full = t.full
  BY <1>2, DequeueType, RecordClip
<1> HIDE DEF u
<1> QED BY <1>1, <1>2, <1>3, RecordClip

(* present_restore_screen_pixmap and who calls it. *)
LEMMA RestoreClip ==
  ASSUME NEW s \in State
  PROVE  /\ RestoreScreenPixmap(s).full = s.full
         /\ SetAbortFlip(s).full = s.full
         /\ Unflip(s).full = s.full
<1>1. ASSUME NEW r \in State PROVE RestoreScreenPixmap(r).full = r.full
  <2> DEFINE fw == IF r.pending # Unset THEN r.vb[r.pending].win ELSE r.flipWin
             fp == IF r.pending # Unset THEN r.vb[r.pending].pix ELSE r.flipPix
             t  == IF fp = NoPix THEN Halt(r, "assert") ELSE r
             w1 == IF fw # NoWin THEN SetTreePixmap(t.winPix, fw, fp, Screen)
                                 ELSE t.winPix
             w2 == SetTreePixmap(w1, Root, NoPix, Screen)
  <2>1. RestoreScreenPixmap(r) = [t EXCEPT !.winPix = w2]
    BY DEF RestoreScreenPixmap
  <2>2. t \in State /\ t.full = r.full
    BY HaltType, HaltClip
  <2> HIDE DEF t, w2
  <2>3. [t EXCEPT !.winPix = w2].full = t.full
    BY <2>2 DEF State
  <2> QED BY <2>1, <2>2, <2>3
<1>2. SetAbortFlip(s).full = s.full
  <2> DEFINE r == RestoreScreenPixmap(s)
  <2>1. r \in State /\ r.full = s.full
    BY <1>1, RestoreScreenPixmapType
  <2>2. SetAbortFlip(s) \in {s, [r EXCEPT !.vb[s.pending].abort = TRUE]}
    BY DEF SetAbortFlip
  <2> HIDE DEF r
  <2>3. [r EXCEPT !.vb[s.pending].abort = TRUE].full = r.full
    BY <2>1 DEF State
  <2> QED BY <2>1, <2>2, <2>3
<1>3. Unflip(s).full = s.full
  <2> DEFINE t == IF s.unflip \/ s.pending # Unset THEN Halt(s, "assert") ELSE s
             r == RestoreScreenPixmap(t)
  <2>1. t \in State /\ t.full = s.full
    BY HaltType, HaltClip
  <2>2. Unflip(s) = [r EXCEPT !.unflip = TRUE, !.hwUnflip = @ + 1]
    BY DEF Unflip
  <2> HIDE DEF t
  <2>3. r \in State /\ r.full = t.full
    BY <1>1, <2>1, RestoreScreenPixmapType
  <2> HIDE DEF r
  <2>4. [r EXCEPT !.unflip = TRUE, !.hwUnflip = @ + 1].full = r.full
    BY <2>3 DEF State
  <2> QED BY <2>1, <2>2, <2>3, <2>4
<1> QED BY <1>1, <1>2, <1>3

(* present_set_abort_flip. *)
LEMMA SetAbortHeld ==
  ASSUME NEW s \in State, s.pending # Unset
  PROVE  LET t == SetAbortFlip(s)
         IN  /\ \A a : Rooted(t, a)
             /\ \A k : OneFlips(s, k) => OneFlips(t, k)
             /\ \A x, a : Lodged(s, x, a) => Lodged(t, x, a)
<1> DEFINE t == SetAbortFlip(s)
           p == s.pending
<1>1. /\ SameFlip(s, t) /\ t.vb[p].abort
      /\ SameName(s.vb[p], t.vb[p]) /\ SameShow(s.vb[p], t.vb[p])
      /\ t.vb[p].queued = s.vb[p].queued
      /\ \A u \in Ids \ {p} : t.vb[u] = s.vb[u]
  BY SetAbortFrame
<1>2. t.full = s.full
  BY RestoreClip
<1> HIDE DEF t
<1>3. \A u \in Ids : /\ t.vb[u].win = s.vb[u].win /\ t.vb[u].flip = s.vb[u].flip
                     /\ t.vb[u].queued = s.vb[u].queued
  BY <1>1 DEF SameName, SameShow
<1>4. \A a : Rooted(t, a)
  BY <1>1 DEF Rooted, SameFlip
<1>5. \A k : OneFlips(s, k) => OneFlips(t, k)
  BY <1>1, <1>2, <1>3 DEF OneFlips, SameFlip
<1>6. \A x, a : Lodged(s, x, a) => Lodged(t, x, a)
  BY <1>3 DEF Lodged
<1> QED BY <1>4, <1>5, <1>6 DEF t

(* present_unflip. *)
LEMMA UnflipHeld ==
  ASSUME NEW s \in State, s.pending = Unset
  PROVE  LET t == Unflip(s)
         IN  /\ \A a : Rooted(t, a)
             /\ \A k : OneFlips(s, k) => OneFlips(t, k)
             /\ \A x, a : Lodged(s, x, a) => Lodged(t, x, a)
<1> DEFINE t == Unflip(s)
<1>1. SameQueues(s, t) /\ SameFlip(s, t) /\ t.unflip
  BY UnflipFrame
<1>2. t.full = s.full
  BY RestoreClip
<1> HIDE DEF t
<1>3. \A a : Rooted(t, a)
  BY <1>1 DEF Rooted, SameFlip
<1>4. \A k : OneFlips(s, k) => OneFlips(t, k)
  BY <1>1, <1>2 DEF OneFlips, SameFlip, SameQueues
<1>5. \A x, a : Lodged(s, x, a) => Lodged(t, x, a)
  BY <1>1 DEF Lodged, SameQueues
<1> QED BY <1>3, <1>4, <1>5 DEF t

LEMMA StopFlippingHeld ==
  ASSUME NEW s \in State, NEW w, NEW x, NEW a, NEW k, Held(s, x, a, k)
  PROVE  Held(StopFlipping(s, w), x, a, k)
<1>1. s.pending # Unset => Held(SetAbortFlip(s), x, a, k)
  BY SetAbortHeld DEF Held
<1>2. s.pending = Unset => Held(Unflip(s), x, a, k)
  BY UnflipHeld DEF Held
<1> QED BY <1>1, <1>2 DEF StopFlipping

(* present_check_flip_window, of a window that no longer covers the screen. *)
LEMMA LeavingRooted ==
  ASSUME NEW s \in State, NEW w \in Windows, NEW n, Sound(s, n, Unset),
         NEW a, NEW k, Rooted(s, a), OneFlips(s, k), w \notin s.full
  PROVE  LET t == CheckFlipWindow(s, w)
         IN  Rooted(t, a \ {w}) /\ OneFlips(t, k)
<1> DEFINE r == StopLostFlip(s, w)
           t == RecheckQueued(r, w)
<1>1. CASE s.unflip
  <2>1. CheckFlipWindow(s, w) = s
    BY <1>1 DEF CheckFlipWindow
  <2>2. Rooted(s, a \ {w})
    BY <1>1 DEF Rooted, Sound
  <2> QED BY <2>1, <2>2
<1>2. CASE ~s.unflip
  <2>1. CheckFlipWindow(s, w) = t
    BY <1>2 DEF CheckFlipWindow
  <2>2. \A p : ~CheckFlip(s, w, p)
    BY DEF CheckFlip
  <2>3. r \in State /\ Sound(r, n, Unset)
    BY <1>2, StopLostFlipType, StopLostFlipSound
  <2>4. Rooted(r, a \ {w}) /\ OneFlips(r, k)
    <3>1. CASE s.pending # Unset /\ s.vb[s.pending].win = w
      <4>1. r = SetAbortFlip(s)
        BY <2>2, <3>1 DEF StopLostFlip
      <4> HIDE DEF r
      <4> QED BY <3>1, <4>1, SetAbortHeld
    <3>2. CASE s.pending # Unset /\ s.vb[s.pending].win # w
      <4>1. r = s
        BY <3>2 DEF StopLostFlip
      <4> HIDE DEF r
      <4> QED BY <3>2, <4>1 DEF Rooted
    <3>3. CASE s.pending = Unset /\ s.flipWin = w
      <4>1. r = Unflip(s)
        BY <2>2, <3>3 DEF StopLostFlip
      <4> HIDE DEF r
      <4> QED BY <3>3, <4>1, UnflipHeld
    <3>4. CASE s.pending = Unset /\ s.flipWin # w
      <4>1. r = s
        BY <3>4 DEF StopLostFlip
      <4> HIDE DEF r
      <4> QED BY <3>4, <4>1 DEF Rooted
    <3> QED BY <3>1, <3>2, <3>3, <3>4
  <2> HIDE DEF r
  <2>5. /\ SameFlip(r, t) /\ SameUnflip(r, t) /\ t.winPix = r.winPix
        /\ \A v \in Ids : Relaxed(r.vb[v], t.vb[v])
    BY <2>3, RecheckFrame
  <2>6. t.full = r.full
    BY <2>3 DEF RecheckQueued, State
  <2> HIDE DEF t
  <2>7. r.pending # Unset => t.vb[r.pending] = r.vb[r.pending]
    BY <2>3, <2>5, FieldTypes DEF Sound, Relaxed
  <2>8. Keeps(r, t, Unset, Unset)
    BY <2>5, <2>6, <2>7 DEF Keeps, SameUnflip, SameFrame, Relaxed, SameName
  <2> QED BY <2>1, <2>4, <2>8, KeptRooted
<1> QED BY <1>1, <1>2

(* Waiting, in one way or another. *)
LEMMA WaitingHeld ==
  ASSUME NEW s \in State, NEW v \in Ids, NEW x, NEW y \in {v, Unset},
         NEW a, NEW k, Held(s, x, a, k), s.vb[v].queued \/ v = y => s.vb[v].queued \/ v = x
  PROVE  /\ Held(AwaitFence(s, v), y, a, k) /\ Held(DeferFlip(s, v), y, a, k)
         /\ Held(FlipRefused(s, v), y, a, k)
<1>1. Held(AwaitFence(s, v), y, a, k)
  <2> DEFINE t == AwaitFence(s, v)
  <2>1. /\ SameFlip(s, t) /\ SameUnflip(s, t) /\ t.winPix = s.winPix /\ t.full = s.full
        /\ SameName(s.vb[v], t.vb[v]) /\ SameShow(s.vb[v], t.vb[v])
        /\ t.vb[v].queued = s.vb[v].queued /\ t.vb[v].abort = s.vb[v].abort
        /\ \A u \in Ids \ {v} : t.vb[u] = s.vb[u]
    BY AwaitFenceFrame, RecordClip
  <2> HIDE DEF t
  <2>2. SameFrame(s.vb[v], t.vb[v]) /\ (t.vb[v].flip => s.vb[v].flip)
    BY <2>1 DEF SameFrame, SameName, SameShow
  <2>3. Held(t, y, a, k)
    BY <2>1, <2>2, OneKeeps, KeptHeld
  <2> QED BY <2>3 DEF t
<1>2. Held(DeferFlip(s, v), y, a, k)
  <2> DEFINE t == DeferFlip(s, v)
  <2>1. /\ SameFlip(s, t) /\ SameUnflip(s, t) /\ t.winPix = s.winPix /\ t.full = s.full
        /\ SameName(s.vb[v], t.vb[v]) /\ SameShow(s.vb[v], t.vb[v])
        /\ t.vb[v].queued = s.vb[v].queued /\ t.vb[v].abort = s.vb[v].abort
        /\ \A u \in Ids \ {v} : t.vb[u] = s.vb[u]
    BY DeferFlipFrame, RecordClip
  <2> HIDE DEF t
  <2>2. SameFrame(s.vb[v], t.vb[v]) /\ (t.vb[v].flip => s.vb[v].flip)
    BY <2>1 DEF SameFrame, SameName, SameShow
  <2>3. Held(t, y, a, k)
    BY <2>1, <2>2, OneKeeps, KeptHeld
  <2> QED BY <2>3 DEF t
<1>3. Held(FlipRefused(s, v), y, a, k)
  <2> DEFINE t == FlipRefused(s, v)
  <2>1. /\ SameFlip(s, t) /\ SameUnflip(s, t) /\ t.winPix = s.winPix /\ t.full = s.full
        /\ SameName(s.vb[v], t.vb[v]) /\ t.vb[v].pix = s.vb[v].pix /\ ~t.vb[v].flip
        /\ t.vb[v].queued = s.vb[v].queued /\ t.vb[v].abort = s.vb[v].abort
        /\ \A u \in Ids \ {v} : t.vb[u] = s.vb[u]
    BY FlipRefusedFrame, RecordClip
  <2> HIDE DEF t
  <2>2. SameFrame(s.vb[v], t.vb[v])
    BY <2>1 DEF SameFrame, SameName
  <2>3. Held(t, y, a, k)
    BY <2>1, <2>2, OneKeeps, KeptHeld
  <2> QED BY <2>3 DEF t
<1> QED BY <1>1, <1>2, <1>3

(* present_execute_post of a request in hand. *)
LEMMA ExecutePostHeld ==
  ASSUME NEW s \in State, NEW v \in Ids, NEW x, NEW now \in Mscs, NEW a, NEW k,
         v # s.pending, Held(s, x, a, k)
  PROVE  Held(ExecutePost(s, v, now), Unset, a, k)
<1> DEFINE mode == IF s.vb[v].kind = "pixmap" /\ s.vb[v].pix = NoPix THEN "skip" ELSE "copy"
           c == VblankNotify(s, v, mode, now)
           t == VblankDestroy(c, v)
<1>1. ExecutePost(s, v, now) = t /\ mode \in Modes
  BY DEF ExecutePost, Modes
<1> HIDE DEF mode
<1>2. /\ c \in State /\ SameQueues(s, c) /\ SameFlip(s, c) /\ SameUnflip(s, c)
      /\ c.winPix = s.winPix /\ c.full = s.full
  <2>1. c \in State
    BY <1>1, VblankNotifyType
  <2> QED BY <2>1, VblankNotifyFrame, RecordClip
<1> HIDE DEF c
<1>3. /\ SameFlip(c, t) /\ SameUnflip(c, t) /\ t.winPix = c.winPix /\ t.full = c.full
      /\ ~t.vb[v].queued /\ ~t.vb[v].flip /\ SameName(c.vb[v], t.vb[v])
      /\ \A u \in Ids \ {v} : t.vb[u] = c.vb[u]
  BY <1>2, VblankDestroyFrame, VblankDestroyClip
<1> HIDE DEF t
<1>4. /\ SameFlip(s, t) /\ SameUnflip(s, t) /\ t.winPix = s.winPix /\ t.full = s.full
      /\ t.vb[v].win = s.vb[v].win /\ \A u \in Ids \ {v} : t.vb[u] = s.vb[u]
  BY <1>2, <1>3 DEF SameQueues, SameFlip, SameUnflip, SameName
<1>5. Held(t, Unset, a, k)
  BY <1>3, <1>4, OneOverKeeps, KeptHeld
<1> QED BY <1>1, <1>5

(* present_execute_copy of a request in hand. *)
LEMMA ExecuteCopyHeld ==
  ASSUME NEW s \in State, NEW v \in Ids, NEW now \in Mscs, NEW refuse, v # s.pending,
         NEW a, NEW k, Held(s, v, a, k)
  PROVE  Held(ExecuteCopy(s, v, now, refuse), Unset, a, k)
<1> DEFINE t == ExecuteCopy(s, v, now, refuse)
           r == PixmapIdle(s, v)
<1>1. CASE Requeues(s, v, now, refuse)
  <2> DEFINE e == <<v, s.vb[v].exec>>
  <2>1. /\ SameFlip(s, t) /\ SameUnflip(s, t) /\ SameClient(s, t)
        /\ t.hwFlip = s.hwFlip /\ t.winPix = s.winPix
        /\ t.execQ = s.execQ \cup {v} /\ t.flipQ = s.flipQ
        /\ e \in Events /\ t.vbl[e] = s.vbl[e] + 1
        /\ SameName(s.vb[v], t.vb[v]) /\ SameShow(s.vb[v], t.vb[v])
        /\ t.vb[v].queued /\ t.vb[v].ready = s.vb[v].ready
        /\ t.vb[v].cb = s.vb[v].cb /\ t.vb[v].abort = s.vb[v].abort
        /\ \A u \in Ids \ {v} : t.vb[u] = s.vb[u]
    BY <1>1, RequeueFrame
  <2>2. t.full = s.full
    <3> DEFINE q == QueueVblank(s, v)
    <3>1. t = [q EXCEPT !.execQ = @ \cup {v}, !.vb[v].queued = TRUE]
      BY <1>1 DEF ExecuteCopy
    <3>2. q \in State /\ q.full = s.full
      BY QueueVblankType, RecordClip
    <3> HIDE DEF t, q
    <3> QED BY <3>1, <3>2 DEF State
  <2> HIDE DEF t
  <2>3. SameFrame(s.vb[v], t.vb[v]) /\ (t.vb[v].flip => s.vb[v].flip)
    BY <2>1 DEF SameFrame, SameName, SameShow
  <2>4. Held(t, Unset, a, k)
    BY <2>1, <2>2, <2>3, OneKeeps, KeptHeld
  <2> QED BY <2>4 DEF t
<1>2. CASE ~Requeues(s, v, now, refuse)
  <2>1. t = ExecutePost(r, v, now)
    BY <1>2 DEF ExecuteCopy
  <2> HIDE DEF t
  <2>2. /\ r \in State /\ SameQueues(s, r) /\ SameFlip(s, r) /\ SameUnflip(s, r)
        /\ r.winPix = s.winPix /\ r.full = s.full
    BY PixmapIdleType, PixmapIdleFrame, RecordClip
  <2> HIDE DEF r
  <2>3. Held(r, v, a, k) /\ v # r.pending
    BY <2>2, QueuesKeeps, KeptHeld DEF SameFlip
  <2>4. Held(t, Unset, a, k)
    BY <2>1, <2>2, <2>3, ExecutePostHeld
  <2> QED BY <2>4 DEF t
<1> QED BY <1>1, <1>2

(* present_flip: the root draws into the new pixmap. *)
LEMMA StartFlipHeld ==
  ASSUME NEW s \in State, NEW v \in Ids, s.vb[v].win # NoWin,
         NEW a, NEW k, Held(s, v, a, k)
  PROVE  Held(StartFlip(s, v), Unset, a, k)
<1> DEFINE b == s.vb[v]
           due == IF b.sync /\ msc < MaxMsc THEN msc + 1 ELSE msc
           w == b.win
           p == b.pix
           f == s.flipWin
           D == Windows \cup {Root}
           c == IF f \notin {NoWin, w} THEN SetTreePixmap(s.winPix, f, s.flipPix, Screen)
                ELSE s.winPix
           d == SetTreePixmap(c, w, NoPix, p)
           e == SetTreePixmap(d, Root, NoPix, p)
           q == <<v>> \o s.flipQ
           h == s.hwFlip \cup {<<v, due>>}
           t == [s EXCEPT !.pending = v, !.flipQ = q, !.hwFlip = h, !.winPix = e]
<1>1. StartFlip(s, v) = t
  BY DEF StartFlip
<1>2. t.winPix = e
  <2> HIDE DEF e, q, h
  <2> QED BY DEF State
<1>3. t.vb = s.vb /\ t.pending = v /\ t.flipWin = s.flipWin
  BY <1>1, StartFlipFrame
<1>4. t.full = s.full
  BY <1>1, RecordClip
<1> HIDE DEF t
<1>5. DOMAIN c = D
  BY DEF SetTreePixmap, State
<1> HIDE DEF c
<1>6. w \in Windows
  BY OneVbType DEF Vblank
<1>7. DOMAIN d = D
  BY <1>5, <1>6, SentinelAssumption DEF SetTreePixmap
<1> HIDE DEF d
<1>8. e = [x \in DOMAIN d |-> IF d[x] = d[Root] THEN p ELSE d[x]]
  BY DEF SetTreePixmap
<1> HIDE DEF e
<1>9. e[Root] = p
  BY <1>7, <1>8
<1>10. v # Unset /\ s.vb[v].win \in a
  BY DEF Held, Lodged, Ids, Unset
<1>11. Rooted(t, a)
  BY <1>2, <1>3, <1>9, <1>10 DEF Rooted
<1>12. OneFlips(t, k)
  BY <1>3, <1>4 DEF Held, OneFlips
<1>13. Lodged(t, Unset, a)
  BY <1>3 DEF Held, Lodged, Ids, Unset
<1> QED BY <1>1, <1>11, <1>12, <1>13 DEF Held

(* present_execute_copy or present_flip of a request in hand. *)
LEMMA PresentHeld ==
  ASSUME NEW s \in State, NEW v \in Ids, NEW now \in Mscs, NEW refuse,
         v # s.pending, s.vb[v].win # NoWin, NEW a, NEW k, Held(s, v, a, k)
  PROVE  Held(Present(s, v, now, refuse), Unset, a, k)
<1> DEFINE r == IF s.vb[v].flip THEN FlipRefused(s, v) ELSE s
           w == s.vb[v].win
           u == StopFlipping(r, w)
           t == ExecuteCopy(u, v, now, refuse)
<1>1. Present(s, v, now, refuse)
        = IF s.vb[v].flip /\ "flip" \notin refuse THEN StartFlip(s, v) ELSE t
  BY DEF Present
<1>2. Held(StartFlip(s, v), Unset, a, k)
  BY StartFlipHeld
<1>3. Held(t, Unset, a, k)
  <2>1. r \in State /\ Held(r, v, a, k) /\ r.pending = s.pending
    <3>1. FlipRefused(s, v) \in State /\ Held(FlipRefused(s, v), v, a, k)
      BY FlipRefusedType, WaitingHeld
    <3>2. SameFlip(s, FlipRefused(s, v))
      BY FlipRefusedFrame
    <3> QED BY <3>1, <3>2 DEF SameFlip
  <2> HIDE DEF r
  <2>2. u \in State /\ Held(u, v, a, k)
    BY <2>1, StopFlippingType, StopFlippingHeld
  <2>3. u.pending = s.pending
    <3>1. SameBook(r, u)
      BY <2>1, StopFlippingBook
    <3> QED BY <2>1, <3>1 DEF SameBook, SameFlip
  <2> HIDE DEF u
  <2> QED BY <2>2, <2>3, ExecuteCopyHeld
<1> HIDE DEF t
<1> QED BY <1>1, <1>2, <1>3

(* present_execute. *)
LEMMA ExecuteHeld ==
  ASSUME NEW s \in State, NEW v \in Ids, NEW now \in Mscs, NEW refuse, NEW n, Sound(s, n, Unset),
         s.vb[v].queued \/ v = s.pending, NEW a, NEW k, Held(s, Unset, a, k)
  PROVE  Held(Execute(s, v, now, refuse), Unset, a, k)
<1>0. /\ v = s.pending => s.vb[v].flip /\ s.vb[v].pix # NoPix
      /\ v # Unset
  BY DEF Sound, Ids, Unset
<1>1. CASE s.vb[v].win = NoWin
  <2>1. Execute(s, v, now, refuse) = Halt(s, "null")
    BY <1>1 DEF Execute
  <2>2. SameState(s, Halt(s, "null")) /\ Halt(s, "null").winPix = s.winPix
    BY HaltFrame
  <2>3. Halt(s, "null").full = s.full
    BY HaltClip
  <2> QED BY <2>1, <2>2, <2>3, QueuesKeeps, KeptHeld DEF SameState
<1>2. CASE s.vb[v].win # NoWin /\ Requeues(s, v, now, refuse)
  <2> DEFINE t == QueueVblank(s, v)
  <2>1. Execute(s, v, now, refuse) = t
    BY <1>2 DEF Execute
  <2>2. /\ SameQueues(s, t) /\ SameFlip(s, t) /\ SameUnflip(s, t) /\ t.winPix = s.winPix
        /\ t.full = s.full
    BY QueueVblankFrame, RecordClip
  <2> HIDE DEF t
  <2> QED BY <2>1, <2>2, QueuesKeeps, KeptHeld
<1>3. CASE s.vb[v].win # NoWin /\ ~Requeues(s, v, now, refuse) /\ WaitsForFence(s, v)
  <2>1. Execute(s, v, now, refuse) = AwaitFence(s, v)
    BY <1>3 DEF Execute
  <2> QED BY <1>0, <2>1, WaitingHeld
<1>4. CASE /\ s.vb[v].win # NoWin /\ ~Requeues(s, v, now, refuse)
           /\ ~WaitsForFence(s, v) /\ MustDefer(s, v)
  <2>1. Execute(s, v, now, refuse) = DeferFlip(s, v)
    BY <1>4 DEF Execute
  <2> QED BY <1>0, <2>1, WaitingHeld
<1>5. CASE /\ s.vb[v].win # NoWin /\ ~Requeues(s, v, now, refuse)
           /\ ~WaitsForFence(s, v) /\ ~MustDefer(s, v)
  <2> DEFINE t == Dequeue(s, v)
             p == Present(t, v, now, refuse)
             x == ExecutePost(t, v, now)
  <2>1. v # s.pending /\ s.vb[v].queued
    BY <1>0, <1>5 DEF MustDefer
  <2>2. t \in State
    BY DequeueType
  <2>3. /\ SameFlip(s, t) /\ SameUnflip(s, t) /\ t.winPix = s.winPix /\ t.full = s.full
        /\ SameName(s.vb[v], t.vb[v]) /\ SameShow(s.vb[v], t.vb[v])
        /\ t.vb[v].abort = s.vb[v].abort
        /\ \A u \in Ids \ {v} : t.vb[u] = s.vb[u]
    BY DequeueFrame, RecordClip
  <2>4. Execute(s, v, now, refuse) = IF s.vb[v].pix # NoPix THEN p ELSE x
    BY <1>5 DEF Execute
  <2> HIDE DEF t
  <2>5. SameFrame(s.vb[v], t.vb[v]) /\ (t.vb[v].flip => s.vb[v].flip)
    BY <2>3 DEF SameFrame, SameName, SameShow
  <2>6. Held(t, v, a, k) /\ v # t.pending /\ t.vb[v].win # NoWin
    BY <1>5, <2>1, <2>3, <2>5, OneKeeps, KeptHeld DEF SameFlip, SameFrame
  <2>7. Held(p, Unset, a, k)
    BY <2>2, <2>6, PresentHeld
  <2>8. Held(x, Unset, a, k)
    BY <2>2, <2>6, ExecutePostHeld
  <2> HIDE DEF p, x
  <2> QED BY <2>4, <2>7, <2>8
<1> QED BY <1>1, <1>2, <1>3, <1>4, <1>5

(* present_flip_try_ready. *)
LEMMA FlipTryReadyHeld ==
  ASSUME NEW s \in State, NEW refuse, msc \in Mscs, NEW n, Sound(s, n, Unset),
         NEW a, NEW k, Held(s, Unset, a, k)
  PROVE  Held(FlipTryReady(s, refuse), Unset, a, k)
<1>1. CASE FlipTryReady(s, refuse) = s
  BY <1>1
<1>2. CASE \E v \in Ids : /\ Contains(s.flipQ, v) /\ s.vb[v].queued
                          /\ FlipTryReady(s, refuse) = Execute(s, v, msc, refuse)
  BY <1>2, ExecuteHeld
<1> QED BY <1>1, <1>2, FlipTryReadyRuns

(* present_flip_idle: what was shown is not any more. *)
LEMMA FlipIdleHeld ==
  ASSUME NEW s \in State, s.flipOf = Unset <=> s.flipPix = NoPix,
         NEW a, NEW k, s.pending # Unset => Rooted(s, a), OneFlips(s, k)
  PROVE  LET t == FlipIdle(s)
         IN  /\ Rooted(t, a) /\ OneFlips(t, k)
             /\ \A x : Lodged(s, x, a) => Lodged(t, x, a)
<1> DEFINE t == FlipIdle(s)
<1>1. /\ SameQueues(s, t) /\ SameUnflip(s, t) /\ t.pending = s.pending
      /\ t.flipPix = NoPix /\ t.flipWin \in {s.flipWin, NoWin} /\ t.winPix = s.winPix
  BY FlipIdleFrame
<1>2. t.full = s.full
  <2>1. CASE s.flipPix = NoPix
    BY <2>1 DEF FlipIdle
  <2>2. CASE s.flipPix # NoPix
    <3> DEFINE i == PixmapIdle(s, s.flipOf)
               d == DropPixmap(i, s.flipPix)
    <3>1. s.flipOf \in Ids
      BY <2>2 DEF State
    <3>2. i \in State /\ i.full = s.full
      BY <3>1, PixmapIdleType, RecordClip
    <3>3. t = [d EXCEPT !.flipWin = NoWin, !.flipOf = Unset, !.flipPix = NoPix]
      BY <2>2 DEF FlipIdle
    <3> HIDE DEF i
    <3>4. d \in State /\ d.full = i.full
      BY <3>1, <3>2, FieldTypes, DropPixmapType, RecordClip
    <3> HIDE DEF d, t
    <3> QED BY <3>2, <3>3, <3>4 DEF State
  <2> QED BY <2>1, <2>2
<1> HIDE DEF t
<1>3. Rooted(t, a)
  BY <1>1 DEF Rooted, SameQueues
<1>4. OneFlips(t, k)
  BY <1>1, <1>2 DEF OneFlips, SameQueues
<1>5. \A x : Lodged(s, x, a) => Lodged(t, x, a)
  BY <1>1 DEF Lodged, SameQueues
<1> QED BY <1>3, <1>4, <1>5 DEF t

(* present_flip_notify: the flip shown is the pending one, or is taken off. *)
LEMMA FlipNotifyHeld ==
  ASSUME NEW s \in State, NEW v \in Ids, NEW now \in Mscs, NEW refuse, msc \in Mscs,
         NEW n, Sound(s, n, Unset), s.flipOf = Unset <=> s.flipPix = NoPix,
         NEW a, NEW k, Held(s, Unset, a, k)
  PROVE  Held(FlipNotify(s, v, now, refuse), Unset, a, k)
<1> DEFINE i == FlipIdle(s)
           t == TakeFlip(i, v)
           u == IF s.vb[v].abort THEN Unflip(t) ELSE t
           y == VblankNotify(u, v, "flip", now)
           x == VblankDestroy(y, v)
<1>1. CASE v # s.pending
  <2>1. FlipNotify(s, v, now, refuse) = Halt(s, "assert")
    BY <1>1 DEF FlipNotify
  <2>2. SameState(s, Halt(s, "assert")) /\ Halt(s, "assert").winPix = s.winPix
    BY HaltFrame
  <2>3. Halt(s, "assert").full = s.full
    BY HaltClip
  <2> QED BY <2>1, <2>2, <2>3, QueuesKeeps, KeptHeld DEF SameState
<1>2. CASE v = s.pending
  <2>1. FlipNotify(s, v, now, refuse) = FlipTryReady(x, refuse)
    BY <1>2 DEF FlipNotify
  <2>2. v # Unset
    BY DEF Ids, Unset
  <2>3. /\ i \in State /\ Sound(i, n, Unset) /\ Held(i, Unset, a, k)
        /\ i.pending = v /\ i.vb[v].abort = s.vb[v].abort
    <3>1. i.pending = s.pending /\ SameQueues(s, i)
      BY FlipIdleFrame
    <3>2. Held(i, Unset, a, k)
      BY FlipIdleHeld DEF Held
    <3> QED BY <1>2, <3>1, <3>2, FlipIdleType, FlipIdleSound DEF SameQueues
  <2> HIDE DEF i
  <2>4. i.vb[v].pix # NoPix /\ i.vb[v].flip
    BY <2>2, <2>3 DEF Sound
  <2>5. /\ t \in State /\ Sound(t, n, v) /\ ~t.unflip
        /\ t.pending = Unset /\ t.flipWin = i.vb[v].win /\ t.flipPix = i.vb[v].pix
        /\ t.winPix = i.winPix /\ t.full = i.full
        /\ SameName(i.vb[v], t.vb[v]) /\ t.vb[v].queued = i.vb[v].queued
        /\ \A w \in Ids \ {v} : t.vb[w] = i.vb[w]
    <3>1. t \in State /\ Sound(t, n, v) /\ ~t.unflip
      BY <2>2, <2>3, TakeFlipType, TakeFlipSound
    <3>2. /\ t.pending = Unset /\ t.flipWin = i.vb[v].win /\ t.flipPix = i.vb[v].pix
          /\ t.winPix = i.winPix /\ t.full = i.full
          /\ SameName(i.vb[v], t.vb[v]) /\ t.vb[v].queued = i.vb[v].queued
          /\ \A w \in Ids \ {v} : t.vb[w] = i.vb[w]
      BY <2>3, TakeFlipFrame, RecordClip
    <3> QED BY <3>1, <3>2
  <2> HIDE DEF t
  <2>6. /\ OneFlips(t, k) /\ Lodged(t, Unset, a)
        /\ ~s.vb[v].abort => Rooted(t, a)
    <3>1. \A w \in Ids : t.vb[w].win = i.vb[w].win /\ t.vb[w].queued = i.vb[w].queued
      BY <2>5 DEF SameName
    <3>2. OneFlips(t, k)
      BY <2>3, <2>4, <2>5, <3>1 DEF Held, OneFlips
    <3>3. Lodged(t, Unset, a)
      BY <2>3, <3>1 DEF Held, Lodged
    <3>4. ~s.vb[v].abort => Rooted(t, a)
      BY <2>2, <2>3, <2>5 DEF Held, Rooted
    <3> QED BY <3>2, <3>3, <3>4
  <2>7. u \in State /\ Sound(u, n, v) /\ Held(u, Unset, a, k) /\ u.pending = Unset
    <3>1. CASE s.vb[v].abort
      <4>1. u = Unflip(t)
        BY <3>1
      <4> HIDE DEF u
      <4>2. u \in State /\ Sound(u, n, v)
        BY <2>4, <2>5, <4>1, UnflipType, UnflipSound
      <4>3. SameFlip(t, u) /\ Held(u, Unset, a, k)
        BY <2>5, <2>6, <4>1, UnflipFrame, UnflipHeld DEF Held
      <4> QED BY <2>5, <4>2, <4>3 DEF SameFlip
    <3>2. CASE ~s.vb[v].abort
      <4>1. u = t
        BY <3>2
      <4> HIDE DEF u
      <4> QED BY <2>5, <2>6, <3>2, <4>1 DEF Held
    <3> QED BY <3>1, <3>2
  <2> HIDE DEF u
  <2>8. /\ y \in State /\ SameQueues(u, y) /\ SameFlip(u, y) /\ SameUnflip(u, y)
        /\ y.winPix = u.winPix /\ y.full = u.full
    <3>1. y \in State
      BY <2>7, VblankNotifyType DEF Modes
    <3> QED BY <2>7, <3>1, VblankNotifyFrame, RecordClip
  <2>9. Sound(y, n, v) /\ y.pending = Unset
    <3>1. SameFlips(u, y)
      BY <2>7, VblankNotifySame
    <3> HIDE DEF y
    <3> QED BY <2>7, <2>8, <3>1, SoundSame DEF SameFlip
  <2> HIDE DEF y
  <2>10. Held(y, Unset, a, k)
    BY <2>7, <2>8, QueuesKeeps, KeptHeld
  <2>11. x \in State /\ Sound(x, n, Unset)
    <3>1. IsInjective(y.flipQ) /\ v # y.pending
      BY <2>2, <2>9 DEF Sound
    <3> QED BY <2>8, <2>9, <3>1, VblankDestroyType, VblankDestroySound
  <2>12. /\ SameFlip(y, x) /\ SameUnflip(y, x) /\ x.winPix = y.winPix /\ x.full = y.full
         /\ ~x.vb[v].queued /\ ~x.vb[v].flip /\ SameName(y.vb[v], x.vb[v])
         /\ \A w \in Ids \ {v} : x.vb[w] = y.vb[w]
    BY <2>8, VblankDestroyFrame, VblankDestroyClip
  <2> HIDE DEF x
  <2>13. Held(x, Unset, a, k)
    <3>1. Keeps(y, x, Unset, Unset)
      BY <2>2, <2>8, <2>9, <2>12, OneOverKeeps DEF SameName
    <3> QED BY <2>10, <3>1, KeptHeld
  <2> QED BY <2>1, <2>11, <2>13, FlipTryReadyHeld
<1> QED BY <1>1, <1>2

(* present_unflip's completion: nothing is shown but the screen pixmap. *)
LEMMA UnflipNotifyHeld ==
  ASSUME NEW s \in State, NEW refuse, msc \in Mscs,
         NEW n, Sound(s, n, Unset), s.flipOf = Unset <=> s.flipPix = NoPix, s.unflip,
         NEW a, NEW k, Held(s, Unset, a, k)
  PROVE  Held(UnflipNotify(s, refuse), Unset, a, k)
<1> DEFINE t == [s EXCEPT !.unflip = FALSE]
           u == FlipIdle(t)
<1>1. /\ t \in State /\ SameQueues(s, t) /\ SameFlip(s, t) /\ t.full = s.full
      /\ ~t.unflip /\ t.halted = s.halted
  BY DEF State, SameQueues, SameFlip
<1>2. UnflipNotify(s, refuse) = FlipTryReady(u, refuse)
  BY DEF UnflipNotify
<1> HIDE DEF t
<1>3. Sound(t, n, Unset) /\ t.pending = Unset
  BY <1>1 DEF Sound, SameQueues, SameFlip
<1>4. OneFlips(t, k) /\ Lodged(t, Unset, a) /\ (t.flipOf = Unset <=> t.flipPix = NoPix)
  BY <1>1 DEF Held, OneFlips, Lodged, SameQueues, SameFlip
<1>5. u \in State /\ Sound(u, n, Unset)
  BY <1>1, <1>3, <1>4, FlipIdleType, FlipIdleSound
<1>6. Held(u, Unset, a, k)
  BY <1>1, <1>3, <1>4, FlipIdleHeld DEF Held
<1> HIDE DEF u
<1> QED BY <1>2, <1>5, <1>6, FlipTryReadyHeld

(* present_event_notify. *)
LEMMA EventNotifyHeld ==
  ASSUME NEW s \in State, NEW v \in Ids, NEW now \in Mscs, NEW refuse, msc \in Mscs,
         NEW n, Sound(s, n, Unset), s.flipOf = Unset <=> s.flipPix = NoPix,
         v \in s.execQ => s.vb[v].queued, NEW a, NEW k, Held(s, Unset, a, k)
  PROVE  Held(EventNotify(s, v, now, refuse), Unset, a, k)
<1>1. s.vb[v].queued => Held(Execute(s, v, now, refuse), Unset, a, k)
  BY ExecuteHeld
<1>2. Held(FlipNotify(s, v, now, refuse), Unset, a, k)
  BY FlipNotifyHeld
<1> QED BY <1>1, <1>2 DEF EventNotify

(* present_clear_window_flip: the window that goes is not shown any more, and
   as only one flips, no other is. *)
LEMMA ClearWindowFlipRooted ==
  ASSUME NEW s \in State, NEW w \in Windows, NEW n, Sound(s, n, Unset), Drawn(s, Unset),
         NEW a, NEW k, w \notin a, NoWin \notin a, Rooted(s, a), OneFlips(s, k)
  PROVE  LET t == ClearWindowFlip(s, w)
         IN  Rooted(t, a) /\ OneFlips(t, k)
<1> DEFINE t == IF s.pending # Unset /\ s.vb[s.pending].win = w
                THEN [SetAbortFlip(s) EXCEPT !.vb[s.pending].win = NoWin] ELSE s
           r == RestoreScreenPixmap(t)
           e == [r EXCEPT !.flipWin = NoWin]
           c == ClearWindowFlip(s, w)
<1>1. c = IF t.flipWin = w THEN e ELSE t
  BY DEF ClearWindowFlip
<1>2. /\ t \in State /\ SameFlip(s, t) /\ t.unflip = s.unflip
      /\ Rooted(t, a) /\ OneFlips(t, k)
      /\ t.pending # Unset /\ t.flipWin = w => t.vb[t.pending].abort
  <2>1. CASE s.pending # Unset /\ s.vb[s.pending].win = w
    <3> DEFINE g == [SetAbortFlip(s) EXCEPT !.vb[s.pending].win = NoWin]
    <3>1. /\ g \in State /\ SameFlip(s, g) /\ SameUnflip(s, g)
          /\ LostWindow(s.vb[s.pending], g.vb[s.pending])
          /\ \A u \in Ids \ {s.pending} : g.vb[u] = s.vb[u]
      BY <2>1, LoseWindowFrame
    <3>2. g.full = s.full
      <4> DEFINE h == SetAbortFlip(s)
      <4>1. h \in State /\ h.full = s.full
        BY <2>1, SetAbortFlipType, RestoreClip
      <4>2. g = [h EXCEPT !.vb[s.pending].win = NoWin]
        OBVIOUS
      <4> HIDE DEF g, h
      <4> QED BY <4>1, <4>2 DEF State
    <3>3. t = g
      BY <2>1
    <3> HIDE DEF g, t
    <3>4. g.vb[g.pending].abort /\ g.pending # Unset
      BY <2>1, <3>1 DEF SameFlip, LostWindow
    <3>5. Rooted(g, a)
      BY <3>4 DEF Rooted
    <3>6. OneFlips(g, k)
      BY <3>1, <3>2 DEF OneFlips, SameFlip, LostWindow
    <3> QED BY <3>1, <3>3, <3>4, <3>5, <3>6 DEF SameUnflip
  <2>2. CASE ~(s.pending # Unset /\ s.vb[s.pending].win = w)
    <3>1. t = s
      BY <2>2
    <3>2. s.pending # Unset /\ s.flipWin = w => s.vb[s.pending].win = NoWin
      BY <2>2, SentinelAssumption, FieldTypes DEF OneFlips, Sound
    <3> HIDE DEF t
    <3> QED BY <3>1, <3>2 DEF SameFlip, Drawn
  <2> QED BY <2>1, <2>2
<1> HIDE DEF t, c
<1>3. CASE t.flipWin = w
  <2>1. r \in State /\ SameState(t, r) /\ r.full = t.full
    BY <1>2, RestoreScreenPixmapType, RestoreFrame, RestoreClip
  <2> HIDE DEF r
  <2>2. /\ SameQueues(r, e) /\ e.pending = r.pending /\ e.unflip = r.unflip
        /\ e.flipPix = r.flipPix /\ e.full = r.full /\ e.flipWin = NoWin
    BY <2>1 DEF State, SameQueues
  <2> HIDE DEF e
  <2>3. /\ e.vb = t.vb /\ e.pending = t.pending /\ e.unflip = t.unflip
        /\ e.flipPix = t.flipPix /\ e.full = t.full /\ e.flipWin = NoWin
    BY <2>1, <2>2 DEF SameState, SameQueues, SameFlip, SameUnflip
  <2>4. Rooted(e, a)
    BY <1>2, <1>3, <2>3 DEF Rooted
  <2>5. OneFlips(e, k)
    BY <1>2, <2>3 DEF OneFlips
  <2> QED BY <1>1, <1>3, <2>4, <2>5 DEF c
<1>4. CASE t.flipWin # w
  BY <1>1, <1>2, <1>4 DEF c
<1> QED BY <1>3, <1>4

(* Replaced requests are queued ones, none of them being flipped. *)
LEMMA ScrapHeld ==
  ASSUME NEW s \in State, NEW old \in SUBSET Ids, NEW n, Sound(s, n, Unset),
         \A v \in old : s.vb[v].queued /\ s.vb[v].pix # NoPix,
         NEW a, NEW k, Held(s, Unset, a, k)
  PROVE  Held(Scrap(s, old), Unset, a, k)
<1> DEFINE t == Scrap(s, old)
<1>1. /\ SameFlip(s, t) /\ SameUnflip(s, t) /\ t.winPix = s.winPix
      /\ \A v \in Ids \ old : t.vb[v] = s.vb[v]
      /\ \A v \in old : /\ SameName(s.vb[v], t.vb[v]) /\ ~t.vb[v].flip
                        /\ t.vb[v].queued = s.vb[v].queued
  BY ScrapFrame
<1>2. t.full = s.full
  BY DEF Scrap, State
<1> HIDE DEF t
<1>3. s.pending # Unset => s.pending \in Ids \ old
  BY FieldTypes DEF Sound
<1>4. s.pending # Unset => SameFrame(s.vb[s.pending], t.vb[s.pending])
  BY <1>1, <1>3 DEF SameFrame
<1>5. \A v \in Ids : /\ t.vb[v].queued = s.vb[v].queued /\ t.vb[v].win = s.vb[v].win
                     /\ t.vb[v].flip => s.vb[v].flip
  BY <1>1 DEF SameName
<1>6. Keeps(s, t, Unset, Unset)
  BY <1>1, <1>2, <1>4, <1>5 DEF Keeps, SameUnflip
<1> QED BY <1>6, KeptHeld DEF t

(* A new request wants to flip only if its window covers the screen. *)
LEMMA VblankCreateHeld ==
  ASSUME NEW s \in State, NEW v \in Ids, NEW w \in Windows, NEW p \in Pixmaps \cup {NoPix},
         NEW opt \in OptionRecord, NEW f \in Fences \cup {NoFence}, NEW target \in Mscs,
         msc \in Mscs, v # s.pending, NEW a, NEW k, w \in a, Held(s, Unset, a, k)
  PROVE  Held(VblankCreate(s, v, w, p, opt, f, target), Unset, a, k)
<1> DEFINE t == VblankCreate(s, v, w, p, opt, f, target)
<1>0. t = VblankCreate(s, v, w, p, opt, f, target)
  OBVIOUS
<1>1. t.full = s.full /\ (t.vb[v].flip => w \in s.full)
  <2> DEFINE h == HoldPixmap(s, p)
             able == p # NoPix /\ ~opt.copy /\ CheckFlip(s, w, p)
             sync == able /\ target > msc
             flip == able /\ (sync \/ AsyncCap)
             b == [win |-> w, pix |-> p, kind |-> IF p = NoPix THEN "msc" ELSE "pixmap",
                   target |-> target, exec |-> ExecMsc(sync, target),
                   update |-> opt.update, flip |-> flip, sync |-> sync,
                   ready |-> FALSE, queued |-> TRUE, abort |-> FALSE,
                   wait |-> f, cb |-> FALSE]
             e == h.execQ \cup {v}
             g == [h EXCEPT !.execQ = e]
             d == [g EXCEPT !.vb[v] = b]
  <2>1. h \in State /\ h.full = s.full
    BY HoldPixmapType, RecordClip
  <2>2. t = d
    <3>1. VblankCreate(s, v, w, p, opt, f, target) = [h EXCEPT !.vb[v] = b, !.execQ = e]
      BY DEF VblankCreate
    <3> HIDE DEF b, e, h
    <3> QED BY <1>0, <2>1, <3>1 DEF State
  <2>3. b.flip => w \in s.full
    BY DEF CheckFlip
  <2> HIDE DEF b, h, t
  <2>4. e \in SUBSET Ids
    BY <2>1, FieldTypes
  <2> HIDE DEF e
  <2>5. g \in State /\ g.full = h.full
    BY <2>1, <2>4 DEF State
  <2> HIDE DEF g
  <2>6. /\ d.execQ = g.execQ /\ d.flipQ = g.flipQ
        /\ SameFlip(g, d) /\ SameUnflip(g, d) /\ SameOwed(g, d) /\ SameClient(g, d)
        /\ d.winPix = g.winPix
        /\ d.vb[v] = b /\ \A u \in Ids \ {v} : d.vb[u] = g.vb[u]
    BY <2>5, OneVbFrame
  <2>7. d.full = g.full
    BY <2>5 DEF State
  <2> HIDE DEF d
  <2> QED BY <2>1, <2>2, <2>3, <2>5, <2>6, <2>7
<1>2. /\ t.execQ = s.execQ \cup {v} /\ t.flipQ = s.flipQ
      /\ SameFlip(s, t) /\ SameUnflip(s, t) /\ SameOwed(s, t) /\ SameClient(s, t)
      /\ t.winPix = s.winPix
      /\ Created(t.vb[v], w, p, opt, target)
      /\ \A u \in Ids \ {v} : t.vb[u] = s.vb[u]
  BY VblankCreateFrame
<1> HIDE DEF t
<1>7. t.vb[v].win = w
  BY <1>2 DEF Created
<1>3. s.pending # Unset => t.vb[s.pending] = s.vb[s.pending]
  BY <1>2, FieldTypes
<1>4. Rooted(t, a)
  BY <1>2, <1>3, <1>7 DEF Held, Rooted, SameFlip, SameUnflip
<1>5. OneFlips(t, k)
  BY <1>1, <1>2, <1>7 DEF Held, OneFlips, SameFlip
<1>6. Lodged(t, Unset, a)
  BY <1>2, <1>7 DEF Held, Lodged
<1> QED BY <1>0, <1>4, <1>5, <1>6 DEF Held

(* present_scmd_pixmap, whole. *)
LEMMA SubmittedHeld ==
  ASSUME NEW s \in State, NEW v \in Ids, NEW w \in Windows, NEW p \in Pixmaps \cup {NoPix},
         NEW opt \in OptionRecord, NEW f \in Fences \cup {NoFence}, NEW target \in Mscs,
         NEW refuse, msc \in Mscs, Sound(s, v, Unset), v # s.pending,
         NEW a, NEW k, w \in a, Held(s, Unset, a, k)
  PROVE  Held(Submitted(s, v, w, p, opt, f, target, refuse), Unset, a, k)
<1> DEFINE old == IF p = NoPix \/ opt.update THEN {} ELSE Superseded(s, w, target)
           c == Scrap(s, old)
           t == VblankCreate(c, v, w, p, opt, f, target)
           q == QueueVblank(t, v)
<1>1. old \in SUBSET Ids /\ \A u \in old : s.vb[u].queued /\ s.vb[u].pix # NoPix
  BY DEF Superseded
<1>2. Submitted(s, v, w, p, opt, f, target, refuse)
        \in {q, Execute(t, v, msc, refuse)}
  BY DEF Submitted
<1> HIDE DEF old
<1>3. c \in State /\ Sound(c, v, Unset) /\ Held(c, Unset, a, k)
  BY <1>1, ScrapType, ScrapSound, ScrapHeld
<1>4. c.pending = s.pending
  <2>1. SameFlip(s, c)
    BY <1>1, ScrapFrame
  <2> QED BY <2>1 DEF SameFlip
<1> HIDE DEF c
<1>5. t \in State /\ Sound(t, v + 1, Unset)
  BY <1>3, VblankCreateType, VblankCreateSound
<1>6. Held(t, Unset, a, k)
  BY <1>3, <1>4, VblankCreateHeld
<1>7. t.vb[v].queued
  <2>1. Created(t.vb[v], w, p, opt, target)
    BY <1>3, VblankCreateFrame
  <2> QED BY <2>1 DEF Created
<1> HIDE DEF t
<1>8. Held(q, Unset, a, k)
  <2>1. /\ SameQueues(t, q) /\ SameFlip(t, q) /\ SameUnflip(t, q) /\ q.winPix = t.winPix
        /\ q.full = t.full
    BY <1>5, QueueVblankFrame, RecordClip
  <2> HIDE DEF q
  <2> QED BY <1>6, <2>1, QueuesKeeps, KeptHeld
<1>9. Held(Execute(t, v, msc, refuse), Unset, a, k)
  BY <1>5, <1>6, <1>7, ExecuteHeld
<1> QED BY <1>2, <1>8, <1>9

-----------------------------------------------------------------------------
(* Every action.                                                            *)

RootedInv == \E k \in Windows \cup {NoWin} : Rooted(Cur, alive) /\ OneFlips(Cur, k)

(* An action that becomes a state in which the root draws where it may. *)
LEMMA BecomeRooted ==
  ASSUME NEW s \in State, Become(s), NEW k \in Windows \cup {NoWin},
         Rooted(s, alive'), OneFlips(s, k)
  PROVE  RootedInv'
<1> DEFINE t == Cur'
<1>1. /\ SameQueues(s, t) /\ SameFlip(s, t) /\ t.unflip = s.unflip /\ t.winPix = s.winPix
      /\ t.full = s.full
  <2>1. t.full = s.full
    BY DEF Become, Cur
  <2> QED BY <2>1, BecomeFields DEF SameQueues, SameFlip
<1> HIDE DEF t
<1>2. Rooted(t, alive') /\ OneFlips(t, k)
  <2>1. Keeps(s, t, Unset, Unset)
    BY <1>1 DEF Keeps, SameQueues, SameFrame
  <2> QED BY <2>1, KeptRooted
<1>3. (Rooted(Cur, alive) /\ OneFlips(Cur, k))'
  BY <1>2 DEF t
<1> QED BY <1>3 DEF RootedInv

(* The same, after a handler that no window leaves. *)
LEMMA BecomeHeld ==
  ASSUME NEW s \in State, Become(s), NEW k \in Windows \cup {NoWin}, UNCHANGED alive,
         Held(s, Unset, alive, k)
  PROVE  RootedInv'
BY BecomeRooted DEF Held

(* At most one window covers the screen at first, and nothing flips. *)
LEMMA RootedInit == Init => RootedInv
<1> SUFFICES ASSUME Init PROVE RootedInv
  OBVIOUS
<1>1. /\ Cur.vb = vb /\ Cur.pending = Unset /\ Cur.flipPix = NoPix /\ Cur.flipWin = NoWin
      /\ Cur.full = full
  BY DEF Init, Cur
<1>2. PICK k \in Windows \cup {NoWin} : full \subseteq {k}
  BY DEF Init
<1>3. Rooted(Cur, alive)
  BY <1>1 DEF Rooted
<1>4. \A v \in Ids : ~Cur.vb[v].flip
  BY <1>1 DEF Init, Fresh
<1>5. OneFlips(Cur, k)
  BY <1>1, <1>2, <1>4 DEF OneFlips
<1> QED BY <1>3, <1>5 DEF RootedInv

(* Between two windows' deaths, queued requests have their windows. *)
LEMMA LodgedNow ==
  ASSUME BookedInv, dying = NoWin
  PROVE  Lodged(Cur, Unset, alive)
<1>1. Homes = alive
  BY DEF Homes
<1>2. \A v \in Ids : Cur.vb[v].queued => Cur.vb[v].win \in alive
  BY <1>1 DEF BookedInv, Booked, Entry, Housed
<1> QED BY <1>2 DEF Lodged, Ids, Unset

(* A request keeps it. *)
LEMMA SubmitRooted ==
  ASSUME TypeOK, SoundInv, BookedInv, RootedInv,
         NEW w \in Windows, NEW p \in Pixmaps \cup {NoPix},
         NEW opt \in OptionRecord, NEW f \in Fences \cup {NoFence},
         NEW wmsc \in Nat, NEW m \in Nat \X Nat, NEW refuse,
         Submit(w, p, opt, f, wmsc, m, refuse)
  PROVE  RootedInv'
<1> DEFINE target == AdjustTimings(opt.async, msc, wmsc, m[1], m[2])
           s == Submitted(Cur, nextId, w, p, opt, f, target, refuse)
<1>1. /\ msc \in Mscs /\ msc \in Nat /\ Cur \in State /\ nextId \in Ids /\ target <= MaxMsc
      /\ w \in alive /\ UNCHANGED alive /\ dying = NoWin
  BY BoundsAssumption DEF TypeOK, Mscs, Submit, Serving
<1>2. target \in Nat
  BY <1>1, AdjustTimingsType DEF OptionRecord
<1>3. target \in Mscs
  <2> HIDE DEF target
  <2> QED BY <1>1, <1>2, BoundsAssumption DEF Mscs
<1>4. Become(s)
  BY DEF Submit
<1> HIDE DEF target
<1>5. nextId # Cur.pending
  <2>1. Entry(Cur, nextId, nextId, Unset, alive, Homes, todo)
    BY <1>1 DEF BookedInv, Booked
  <2>2. nextId >= nextId
    BY <1>1 DEF Ids
  <2> QED BY <2>1, <2>2 DEF Entry, Owes, Unfinished
<1>6. s \in State
  BY <1>1, <1>3, SubmittedType
<1>7. PICK k \in Windows \cup {NoWin} : Rooted(Cur, alive) /\ OneFlips(Cur, k)
  BY DEF RootedInv
<1>8. Held(Cur, Unset, alive, k)
  BY <1>1, <1>7, LodgedNow DEF Held
<1>9. Held(s, Unset, alive, k)
  BY <1>1, <1>3, <1>5, <1>8, SubmittedHeld DEF SoundInv
<1> HIDE DEF s
<1> QED BY <1>1, <1>4, <1>6, <1>9, BecomeHeld

(* Every step keeps it, as long as windows keep the screen until they go: one
   step of the proof for each action. *)
LEMMA RootedNext ==
  ASSUME Movable = {}, TypeOK, SoundInv, BookedInv, DrawnInv, RootedInv, [Next]_vars
  PROVE  RootedInv'
<1>0. /\ msc \in Mscs /\ Cur \in State /\ Sound(Cur, nextId, Unset) /\ Drawn(Cur, Unset)
      /\ Cur.flipOf = Unset <=> Cur.flipPix = NoPix
      /\ \A v \in Ids : v \in Cur.execQ => Cur.vb[v].queued
      /\ alive \in SUBSET Windows /\ dying \notin alive /\ (dying # NoWin => todo = {})
  BY BoundsAssumption
  DEF Mscs, TypeOK, SoundInv, DrawnInv, BookedInv, Booked, Entry, Reached
<1>k. PICK k \in Windows \cup {NoWin} : Rooted(Cur, alive) /\ OneFlips(Cur, k)
  BY DEF RootedInv
<1>h. dying = NoWin => Held(Cur, Unset, alive, k)
  BY <1>k, LodgedNow DEF Held
<1>1. CASE ClientRequest
  <2>1. PICK w \in Windows, wmsc \in Targets, m \in Moduli, refuse \in SUBSET Refusable :
          \/ \E p \in Pixmaps, opt \in Options, f \in Fences \cup {NoFence} :
                PresentPixmap(w, p, opt, f, wmsc, m, refuse)
          \/ NotifyMsc(w, wmsc, m, refuse)
    BY <1>1 DEF ClientRequest
  <2>2. wmsc \in Nat /\ m \in Nat \X Nat
    BY InputAssumption
  <2>3. CASE \E p \in Pixmaps, opt \in Options, f \in Fences \cup {NoFence} :
               PresentPixmap(w, p, opt, f, wmsc, m, refuse)
    BY <2>2, <2>3, SubmitRooted, InputAssumption DEF PresentPixmap
  <2>4. CASE NotifyMsc(w, wmsc, m, refuse)
    <3> DEFINE opt == [async |-> m[1] = 0, copy |-> FALSE, update |-> FALSE]
    <3>1. opt \in OptionRecord
      BY DEF OptionRecord
    <3>2. Submit(w, NoPix, opt, NoFence, wmsc, m, refuse)
      BY <2>4 DEF NotifyMsc
    <3> HIDE DEF opt
    <3> QED BY <2>2, <3>1, <3>2, SubmitRooted
  <2> QED BY <2>1, <2>3, <2>4
<1>2. ASSUME NEW e \in Events, NEW at \in 0..MaxMsc, NEW refuse \in SUBSET Refusable,
             VblankEvent(e, at, refuse)
      PROVE  RootedInv'
  <2> DEFINE f == [vbl EXCEPT ![e] = @ - 1]
             s == [Cur EXCEPT !.vbl = f]
             t == EventNotify(s, e[1], at, refuse)
  <2>1. f \in [Events -> Nat]
    <3>1. vbl \in [Events -> Nat] /\ vbl[e] > 0
      BY <1>0, <1>2 DEF Cur, State, VblankEvent
    <3> QED BY <3>1
  <2>2. Become(t) /\ UNCHANGED alive /\ dying = NoWin
    <3>1. s = [Cur EXCEPT !.vbl[e] = @ - 1]
      BY DEF Cur
    <3> QED BY <1>2, <3>1 DEF VblankEvent, Serving
  <2> HIDE DEF f
  <2>3. /\ s \in State /\ SameQueues(Cur, s) /\ SameFlip(Cur, s) /\ SameUnflip(Cur, s)
        /\ s.winPix = Cur.winPix /\ s.full = Cur.full /\ SameFlips(Cur, s)
    BY <1>0, <2>1 DEF State, SameQueues, SameFlip, SameUnflip, SameFlips
  <2> HIDE DEF s
  <2>4. Held(s, Unset, alive, k) /\ Sound(s, nextId, Unset)
    BY <1>0, <1>h, <2>2, <2>3, QueuesKeeps, KeptHeld, SoundSame
  <2>5. e[1] \in Ids /\ at \in Mscs
    BY BoundsAssumption DEF Events, Mscs
  <2>6. /\ s.flipOf = Unset <=> s.flipPix = NoPix
        /\ e[1] \in s.execQ => s.vb[e[1]].queued
    BY <1>0, <2>3, <2>5 DEF SameQueues, SameFlip
  <2>7. t \in State /\ Held(t, Unset, alive, k)
    BY <1>0, <2>3, <2>4, <2>5, <2>6, EventNotifyType, EventNotifyHeld
  <2> HIDE DEF t
  <2> QED BY <2>2, <2>7, BecomeHeld
<1>3. ASSUME NEW e \in hwFlip, NEW at \in 0..MaxMsc, NEW refuse \in SUBSET Refusable,
             FlipEvent(e, at, refuse)
      PROVE  RootedInv'
  <2> DEFINE f == hwFlip \ {e}
             s == [Cur EXCEPT !.hwFlip = f]
             t == EventNotify(s, e[1], at, refuse)
  <2>1. f \in SUBSET Events /\ e \in Events
    BY <1>0 DEF Cur, State
  <2>2. Become(t) /\ UNCHANGED alive /\ dying = NoWin
    <3>1. s = [Cur EXCEPT !.hwFlip = @ \ {e}]
      BY DEF Cur
    <3> QED BY <1>3, <3>1 DEF FlipEvent, Serving
  <2> HIDE DEF f
  <2>3. /\ s \in State /\ SameQueues(Cur, s) /\ SameFlip(Cur, s) /\ SameUnflip(Cur, s)
        /\ s.winPix = Cur.winPix /\ s.full = Cur.full /\ SameFlips(Cur, s)
    BY <1>0, <2>1 DEF State, SameQueues, SameFlip, SameUnflip, SameFlips
  <2> HIDE DEF s
  <2>4. Held(s, Unset, alive, k) /\ Sound(s, nextId, Unset)
    BY <1>0, <1>h, <2>2, <2>3, QueuesKeeps, KeptHeld, SoundSame
  <2>5. e[1] \in Ids /\ at \in Mscs
    BY <2>1, BoundsAssumption DEF Events, Mscs
  <2>6. /\ s.flipOf = Unset <=> s.flipPix = NoPix
        /\ e[1] \in s.execQ => s.vb[e[1]].queued
    BY <1>0, <2>3, <2>5 DEF SameQueues, SameFlip
  <2>7. t \in State /\ Held(t, Unset, alive, k)
    BY <1>0, <2>3, <2>4, <2>5, <2>6, EventNotifyType, EventNotifyHeld
  <2> HIDE DEF t
  <2> QED BY <2>2, <2>7, BecomeHeld
<1>4. ASSUME NEW refuse \in SUBSET Refusable, UnflipEvent(refuse)
      PROVE  RootedInv'
  <2> DEFINE d == hwUnflip - 1
             s == [Cur EXCEPT !.hwUnflip = d]
             t == UnflipNotify(s, refuse)
  <2>1. d \in Nat
    <3>1. hwUnflip > 0 /\ hwUnflip \in Nat
      BY <1>0, <1>4 DEF Cur, State, UnflipEvent
    <3> QED BY <3>1
  <2>2. Become(IF Cur.unflip THEN t ELSE s) /\ UNCHANGED alive /\ dying = NoWin
    <3>1. s = [Cur EXCEPT !.hwUnflip = @ - 1] /\ Cur.unflip = unflip
      BY DEF Cur
    <3> QED BY <1>4, <3>1 DEF UnflipEvent, Serving
  <2> HIDE DEF d
  <2>3. /\ s \in State /\ SameQueues(Cur, s) /\ SameFlip(Cur, s) /\ SameFlips(Cur, s)
        /\ s.unflip = Cur.unflip /\ s.winPix = Cur.winPix /\ s.full = Cur.full
    BY <1>0, <2>1 DEF State, SameQueues, SameFlip, SameFlips
  <2> HIDE DEF s
  <2>4. Held(s, Unset, alive, k) /\ Sound(s, nextId, Unset)
    <3>1. Keeps(Cur, s, Unset, Unset)
      BY <2>3 DEF Keeps, SameQueues, SameFrame
    <3> QED BY <1>0, <1>h, <2>2, <2>3, <3>1, KeptHeld, SoundSame
  <2>5. s.flipOf = Unset <=> s.flipPix = NoPix
    BY <1>0, <2>3 DEF SameFlip
  <2>6. t \in State /\ (Cur.unflip => Held(t, Unset, alive, k))
    BY <1>0, <2>3, <2>4, <2>5, UnflipNotifyType, UnflipNotifyHeld
  <2> HIDE DEF t
  <2> QED BY <2>2, <2>3, <2>4, <2>6, BecomeHeld
<1>5. ASSUME NEW refuse \in SUBSET Refusable, ReExecute(refuse)
      PROVE  RootedInv'
  <2> DEFINE v == Max(todo)
             t == Execute(Cur, v, msc, refuse)
  <2>1. v \in Ids /\ v \in todo
    <3>1. todo \in SUBSET Ids /\ todo # {}
      BY <1>5 DEF ReExecute, TypeOK
    <3>2. \E x \in todo : \A y \in todo : x >= y
      BY <3>1, GreatestId
    <3> QED BY <3>1, <3>2 DEF Max
  <2>2. Become(t) /\ UNCHANGED alive
    BY <1>5 DEF ReExecute
  <2> HIDE DEF v
  <2>3. Cur.vb[v].queued \/ v = Cur.pending
    <3>1. Entry(Cur, v, nextId, Unset, alive, Homes, todo) /\ v # Unset
      BY <2>1 DEF BookedInv, Booked, Ids, Unset
    <3> QED BY <2>1, <3>1 DEF Entry, Reached, Unfinished
  <2>4. t \in State /\ Held(t, Unset, alive, k)
    BY <1>0, <1>h, <2>1, <2>3, ExecuteType, ExecuteHeld
  <2> HIDE DEF t
  <2> QED BY <2>2, <2>4, BecomeHeld
<1>6. ASSUME NEW drop \in BOOLEAN, FreeWindowVblank(drop)
      PROVE  RootedInv'
  <2> DEFINE v == Min(QueuedOn(dying))
             f == [e \in Events |-> IF drop /\ e[1] = v THEN 0 ELSE vbl[e]]
             s == [Cur EXCEPT !.vbl = f]
             t == VblankDestroy(s, v)
  <2>1. v \in Ids /\ Cur.vb[v].queued
    <3>1. QueuedOn(dying) \in SUBSET Nat /\ QueuedOn(dying) # {}
          /\ \A u \in QueuedOn(dying) : u \in Ids /\ Cur.vb[u].queued
      BY <1>6 DEF FreeWindowVblank, QueuedOn, Ids, Cur
    <3> QED BY <3>1, MinIsLeast
  <2>2. Become(t) /\ UNCHANGED alive
    <3>1. s = [Cur EXCEPT !.vbl = [e \in Events |-> IF drop /\ e[1] = v THEN 0 ELSE @[e]]]
      BY DEF Cur
    <3> HIDE DEF s
    <3> QED BY <1>6, <3>1 DEF FreeWindowVblank
  <2> HIDE DEF v
  <2>3. f \in [Events -> Nat]
    BY <1>0 DEF Cur, State
  <2> HIDE DEF f
  <2>4. /\ s \in State /\ SameQueues(Cur, s) /\ SameFlip(Cur, s) /\ SameUnflip(Cur, s)
        /\ s.winPix = Cur.winPix /\ s.full = Cur.full
    BY <1>0, <2>3 DEF State, SameQueues, SameFlip, SameUnflip
  <2> HIDE DEF s
  <2>5. v # Cur.pending
    BY <1>0, <2>1 DEF Sound, Ids, Unset
  <2>6. Rooted(s, alive) /\ OneFlips(s, k) /\ v # s.pending
    BY <1>k, <2>4, <2>5, QueuesKeeps, KeptRooted DEF SameFlip
  <2>7. /\ SameFlip(s, t) /\ SameUnflip(s, t) /\ t.winPix = s.winPix /\ t.full = s.full
        /\ ~t.vb[v].queued /\ ~t.vb[v].flip /\ SameName(s.vb[v], t.vb[v])
        /\ \A u \in Ids \ {v} : t.vb[u] = s.vb[u]
    BY <2>1, <2>4, VblankDestroyFrame, VblankDestroyClip
  <2>8. t \in State
    BY <2>1, <2>4, VblankDestroyType
  <2> HIDE DEF t
  <2>9. Rooted(t, alive) /\ OneFlips(t, k)
    <3>1. Keeps(s, t, Unset, Unset)
      BY <2>1, <2>4, <2>6, <2>7, OneOverKeeps DEF SameName
    <3> QED BY <2>6, <3>1, KeptRooted
  <2> QED BY <2>2, <2>8, <2>9, BecomeRooted
<1>7. CASE FinishDestroy
  <2> DEFINE t == ClearWindowFlip(Cur, dying)
  <2>1. Become(t) /\ UNCHANGED alive /\ dying \in Windows
    BY <1>7 DEF FinishDestroy, TypeOK
  <2>2. NoWin \notin alive
    BY <1>0, SentinelAssumption
  <2>3. t \in State /\ Rooted(t, alive) /\ OneFlips(t, k)
    BY <1>0, <1>k, <2>1, <2>2, ClearWindowFlipType, ClearWindowFlipRooted
  <2> HIDE DEF t
  <2> QED BY <2>1, <2>3, BecomeRooted
<1>8. ASSUME NEW f \in Fences, TriggerFence(f) \/ ResetFence(f) \/ DestroyFence(f)
      PROVE  RootedInv'
  <2>1. Become(Cur) /\ UNCHANGED alive
    BY <1>8, FenceSteps DEF TriggerFence, ResetFence, DestroyFence
  <2> QED BY <1>0, <1>k, <2>1, BecomeRooted
<1>9. ASSUME NEW w \in Windows, DestroyWindow(w)
      PROVE  RootedInv'
  <2> DEFINE x == Cur.full \ {w}
             s == [Cur EXCEPT !.full = x]
             t == CheckFlipWindow(s, w)
  <2>1. Become(t) /\ alive' = alive \ {w}
    <3>1. s = [Cur EXCEPT !.full = @ \ {w}]
      OBVIOUS
    <3> QED BY <1>9, <3>1 DEF DestroyWindow
  <2>2. x \in SUBSET Cur.full /\ w \notin x /\ x \in SUBSET Windows
    BY <1>0 DEF State
  <2> HIDE DEF x
  <2>3. /\ s \in State /\ SameQueues(Cur, s) /\ SameFlip(Cur, s) /\ SameUnflip(Cur, s)
        /\ s.winPix = Cur.winPix /\ s.full = x /\ SameFlips(Cur, s)
    BY <1>0, <2>2 DEF State, SameQueues, SameFlip, SameUnflip, SameFlips
  <2> HIDE DEF s
  <2>4. Rooted(s, alive) /\ OneFlips(s, k) /\ Sound(s, nextId, Unset)
    <3>1. Rooted(s, alive)
      BY <1>k, <2>3 DEF Rooted, SameQueues, SameFlip, SameUnflip
    <3>2. OneFlips(s, k)
      BY <1>k, <2>2, <2>3 DEF OneFlips, SameQueues, SameFlip
    <3> QED BY <1>0, <2>3, <3>1, <3>2, SoundSame
  <2>5. t \in State /\ Rooted(t, alive \ {w}) /\ OneFlips(t, k)
    BY <2>2, <2>3, <2>4, CheckFlipWindowType, LeavingRooted
  <2> HIDE DEF t
  <2> QED BY <2>1, <2>5, BecomeRooted
<1>10. ASSUME NEW p \in Pixmaps, FreePixmap(p)
       PROVE  RootedInv'
  <2> DEFINE f == [refs EXCEPT ![p] = @ - 1]
             s == [Cur EXCEPT !.refs = f]
  <2>1. f \in [Pixmaps -> Int]
    <3>1. refs \in [Pixmaps -> Int]
      BY <1>0 DEF Cur, State
    <3> QED BY <3>1
  <2>2. Become(s) /\ UNCHANGED alive
    BY <1>10 DEF FreePixmap, Become, Cur, server, driver, client
  <2> HIDE DEF f
  <2>3. /\ s \in State /\ SameQueues(Cur, s) /\ SameFlip(Cur, s) /\ SameUnflip(Cur, s)
        /\ s.winPix = Cur.winPix /\ s.full = Cur.full
    BY <1>0, <2>1 DEF State, SameQueues, SameFlip, SameUnflip
  <2> HIDE DEF s
  <2>4. Rooted(s, alive) /\ OneFlips(s, k)
    BY <1>k, <2>3, QueuesKeeps, KeptRooted
  <2> QED BY <2>2, <2>3, <2>4, BecomeRooted
<1>11. CASE CloseScreen
  <2> DEFINE s == IF pending # Unset THEN SetAbortFlip(Cur) ELSE Cur
             u == FlipIdle(s)
             t == Halt(u, "closed")
  <2>1. Become(t) /\ UNCHANGED alive
    BY <1>11 DEF CloseScreen
  <2>2. Cur.pending = pending
    BY DEF Cur
  <2>3. /\ s \in State /\ SameFlip(Cur, s) /\ OneFlips(s, k)
        /\ s.pending # Unset => Rooted(s, alive)
    <3>1. CASE pending # Unset
      <4>1. s = SetAbortFlip(Cur)
        BY <3>1
      <4> HIDE DEF s
      <4>2. SameFlip(Cur, s)
        BY <1>0, <2>2, <3>1, <4>1, SetAbortFrame
      <4> QED BY <1>0, <1>k, <2>2, <3>1, <4>1, <4>2, SetAbortFlipType, SetAbortHeld
    <3>2. CASE pending = Unset
      <4>1. s = Cur
        BY <3>2
      <4> HIDE DEF s
      <4> QED BY <1>0, <1>k, <4>1 DEF SameFlip
    <3> QED BY <3>1, <3>2
  <2> HIDE DEF s
  <2>4. s.flipOf = Unset <=> s.flipPix = NoPix
    BY <1>0, <2>3 DEF SameFlip
  <2>5. u \in State /\ Rooted(u, alive) /\ OneFlips(u, k)
    BY <2>3, <2>4, FlipIdleType, FlipIdleHeld
  <2> HIDE DEF u
  <2>6. SameState(u, t) /\ t.winPix = u.winPix /\ t \in State /\ t.full = u.full
    BY <2>5, HaltFrame, HaltType, HaltClip
  <2> HIDE DEF t
  <2>7. Rooted(t, alive) /\ OneFlips(t, k)
    BY <2>5, <2>6, QueuesKeeps, KeptRooted DEF SameState
  <2> QED BY <2>1, <2>6, <2>7, BecomeRooted
<1>12. CASE Tick \/ UNCHANGED vars
  <2>1. Become(Cur) /\ UNCHANGED alive
    BY <1>12 DEF Tick, vars, server, dix, driver, client, Cur, Become
  <2> QED BY <1>0, <1>k, <2>1, BecomeRooted
<1> QED
  BY <1>1, <1>2, <1>3, <1>4, <1>5, <1>6, <1>7, <1>8, <1>9, <1>10, <1>11, <1>12,
     InputAssumption
  DEF Next, DriverEvent, Loop, Environment

(* In every behaviour in which windows keep the screen until they are
   destroyed, whatever the driver refuses, the root draws into the pixmap of
   the flip that is pending or shown, unless that is to be undone. *)
THEOREM RootedAlways == ASSUME Movable = {} PROVE Spec => []RootedInv
<1>1. Init => TypeOK /\ SoundInv /\ BookedInv /\ DrawnInv /\ RootedInv
  BY TypeInit, SoundInit, BookedInit, DrawnInit, RootedInit
<1>2. TypeOK /\ SoundInv /\ BookedInv /\ DrawnInv /\ RootedInv /\ [Next]_vars
        => TypeOK' /\ SoundInv' /\ BookedInv' /\ DrawnInv' /\ RootedInv'
  BY TypeNext, SoundNext, BookedNext, DrawnNext, RootedNext
<1>3. Spec => [](TypeOK /\ SoundInv /\ BookedInv /\ DrawnInv /\ RootedInv)
  BY <1>1, <1>2, PTL DEF Spec
<1> QED BY <1>3, PTL

(* Once nothing is in flight, the root draws into what Present has put on the
   screen: flips started and refused, copies that undo a flip, requests that
   wait in line and windows that die never leave the root drawing into the
   screen pixmap while another is shown, or the other way round.  Windows
   that stop covering the screen are excluded because they break this: see
   the README. *)
THEOREM RootDrawsToScanoutAlways ==
  ASSUME Movable = {} PROVE Spec => []RootDrawsToScanout
<1>1. TypeOK /\ DrawnInv /\ RootedInv => RootDrawsToScanout
  <2> SUFFICES ASSUME TypeOK, DrawnInv, RootedInv, pending = Unset, ~unflip
               PROVE  winPix[Root] = (IF flipPix = NoPix THEN Screen ELSE flipPix)
    BY DEF RootDrawsToScanout
  <2>1. /\ Cur \in State /\ Cur.winPix = winPix /\ Cur.flipPix = flipPix
        /\ Cur.pending = pending /\ Cur.unflip = unflip
    BY DEF TypeOK, Cur
  <2>2. CASE flipPix = NoPix
    <3>1. winPix[Root] \in Pixmaps \cup {Screen}
      BY <2>1 DEF State
    <3>2. winPix[Root] = Screen \/ winPix[Root] = NoPix
      BY <2>1, <2>2 DEF DrawnInv, Drawn, Shown
    <3> QED BY <2>2, <3>1, <3>2, SentinelAssumption
  <2>3. CASE flipPix # NoPix
    BY <2>1, <2>3 DEF RootedInv, Rooted
  <2> QED BY <2>2, <2>3
<1> QED BY <1>1, TypeCorrect, DrawnAlways, RootedAlways, PTL

-----------------------------------------------------------------------------
(* What each client can tell of its requests: every handler takes one        *)
(* request, or several at once, one of the steps of PresentRequests.         *)

View(s, u, n, x) ==
  [phase  |-> IF u >= n THEN "none"
              ELSE IF s.done[u].n > 0 THEN s.done[u].mode
              ELSE IF Unfinished(s, u, x) /\ s.vb[u].win # NoWin THEN "queued"
              ELSE "dropped",
   buffer |-> IF s.vb[u].kind # "pixmap" THEN "none"
              ELSE IF s.idle[u] > 0 THEN "idle"
              ELSE IF u = s.flipOf THEN "screen"
              ELSE IF Unfinished(s, u, x) THEN "server" ELSE "lost"]

Turn(s, t, n, x, y) ==
  \A u \in Ids : ClientView!Step(View(s, u, n, x), View(t, u, n, y))

(* What the view of one request depends on.                                  *)
SameView(s, t, u, x, y) ==
  /\ t.vb[u].win = NoWin <=> s.vb[u].win = NoWin
  /\ t.vb[u].kind = s.vb[u].kind /\ t.idle[u] = s.idle[u] /\ t.done[u] = s.done[u]
  /\ u = t.flipOf <=> u = s.flipOf
  /\ Unfinished(t, u, y) <=> Unfinished(s, u, x)

(* v completes: skipped if its buffer has gone back already, or copied.      *)
Over(s, t, v) ==
  /\ s.vb[v].win # NoWin /\ t.vb[v].kind = s.vb[v].kind /\ v # t.flipOf
  /\ t.done[v].n > 0
  /\ t.done[v].mode = IF s.vb[v].kind = "pixmap" /\ s.idle[v] > 0 THEN "skip" ELSE "copy"
  /\ s.vb[v].kind = "pixmap" => t.idle[v] > 0

(* present_execute, for all but v and for v.                                 *)
Served(s, t, v, x) ==
  /\ \A u \in Ids \ {v} : SameView(s, t, u, x, Unset)
  /\ SameView(s, t, v, x, Unset) \/ Over(s, t, v)

LEMMA ViewSame ==
  ASSUME NEW s, NEW t, NEW u, NEW n, NEW x, NEW y, SameView(s, t, u, x, y)
  PROVE  View(t, u, n, y) = View(s, u, n, x)
BY DEF SameView, View

LEMMA RequestView ==
  ASSUME NEW s, NEW t, NEW u, NEW x, NEW y, SameRequest(s, t, u), u = x <=> u = y
  PROVE  SameView(s, t, u, x, y)
BY DEF SameRequest, SameView, SameName, Unfinished

LEMMA BookView ==
  ASSUME NEW s, NEW t, NEW x, SameBook(s, t)
  PROVE  \A u \in Ids : SameView(s, t, u, x, x)
BY DEF SameBook, SameFlip, SameClient, SameName, SameView, Unfinished

LEMMA SameViewTwice ==
  ASSUME NEW s, NEW t, NEW r, NEW u, NEW x, NEW y, NEW z,
         SameView(s, t, u, x, y), SameView(t, r, u, y, z)
  PROVE  SameView(s, r, u, x, z)
BY DEF SameView

(* A request that does not change its name keeps its view until it is over. *)
LEMMA ServedAfter ==
  ASSUME NEW s, NEW t, NEW r, NEW v, NEW x, NEW y,
         \A u \in Ids : SameView(s, t, u, x, y), v \in Ids, Served(t, r, v, y)
  PROVE  Served(s, r, v, x)
<1>1. \A u \in Ids \ {v} : SameView(s, r, u, x, Unset)
  BY SameViewTwice DEF Served
<1>2. SameView(t, r, v, y, Unset) => SameView(s, r, v, x, Unset)
  BY SameViewTwice
<1>3. Over(t, r, v) => Over(s, r, v)
  BY DEF Over, SameView
<1> QED BY <1>1, <1>2, <1>3 DEF Served

(* Being served is a step for the client of v, and for nobody else. *)
LEMMA ServedTurn ==
  ASSUME NEW s, NEW t, NEW v \in Ids, NEW n, NEW x, NEW a, NEW h, NEW d,
         Entry(s, v, n, x, a, h, d), Unfinished(s, v, x), Served(s, t, v, x)
  PROVE  Turn(s, t, n, x, Unset)
<1>1. ASSUME NEW u \in Ids, SameView(s, t, u, x, Unset)
      PROVE  ClientView!Step(View(s, u, n, x), View(t, u, n, Unset))
  <2>1. View(t, u, n, Unset) = View(s, u, n, x)
    BY <1>1, ViewSame
  <2> QED BY <2>1 DEF ClientView!Step
<1>2. ASSUME Over(s, t, v)
      PROVE  ClientView!Step(View(s, v, n, x), View(t, v, n, Unset))
  <2> DEFINE a1 == View(s, v, n, x)
             b1 == View(t, v, n, Unset)
  <2>1. /\ ~(v >= n) /\ s.done[v].n = 0 /\ v # s.flipOf
        /\ s.idle[v] = (IF s.vb[v].kind = "pixmap" /\ s.vb[v].pix = NoPix THEN 1 ELSE 0)
    BY DEF Entry, Owes
  <2>2. a1 = [phase |-> "queued",
              buffer |-> IF s.vb[v].kind # "pixmap" THEN "none"
                         ELSE IF s.idle[v] > 0 THEN "idle" ELSE "server"]
    BY <1>2, <2>1 DEF View, Over
  <2>3. b1 = [phase |-> t.done[v].mode,
              buffer |-> IF s.vb[v].kind # "pixmap" THEN "none" ELSE "idle"]
    BY <1>2, <2>1 DEF View, Over
  <2> HIDE DEF a1, b1
  <2>4. CASE s.vb[v].kind = "pixmap" /\ s.idle[v] > 0
    <3>1. t.done[v].mode = "skip"
      BY <1>2, <2>4 DEF Over
    <3>2. ClientView!Skip(a1, b1)
      BY <2>2, <2>3, <2>4, <3>1 DEF ClientView!Skip
    <3> QED BY <3>2 DEF ClientView!Step, a1, b1
  <2>5. CASE ~(s.vb[v].kind = "pixmap" /\ s.idle[v] > 0)
    <3>1. t.done[v].mode = "copy"
      BY <1>2, <2>5 DEF Over
    <3>2. ClientView!Copy(a1, b1)
      BY <2>2, <2>3, <2>5, <3>1 DEF ClientView!Copy
    <3> QED BY <3>2 DEF ClientView!Step, a1, b1
  <2> QED BY <2>4, <2>5
<1> QED BY <1>1, <1>2 DEF Turn, Served

(* present_execute_post, after the release of the buffer. *)
LEMMA ExecutePostServed ==
  ASSUME NEW s \in State, NEW r \in State, NEW v \in Ids, NEW now \in Mscs,
         NEW n, NEW a, NEW h \in SUBSET Windows, NEW d,
         Entry(s, v, n, v, a, h, d), v # s.pending,
         SameQueues(s, r), SameFlip(s, r), r.done = s.done,
         \A u \in Ids \ {v} : r.idle[u] = s.idle[u],
         s.vb[v].kind = "pixmap" => r.idle[v] > 0
  PROVE  Served(s, ExecutePost(r, v, now), v, v)
<1> DEFINE b    == r.vb[v]
           mode == IF b.kind = "pixmap" /\ b.pix = NoPix THEN "skip" ELSE "copy"
           y    == VblankNotify(r, v, mode, now)
           t    == VblankDestroy(y, v)
<1>1. ExecutePost(r, v, now) = t
  BY DEF ExecutePost
<1>2. /\ mode \in Modes
      /\ mode = IF s.vb[v].kind = "pixmap" /\ s.vb[v].pix = NoPix THEN "skip" ELSE "copy"
  BY DEF Modes, SameQueues
<1> HIDE DEF mode
<1>3. /\ s.done[v].n = 0 /\ s.vb[v].win # NoWin /\ v # s.flipOf
      /\ s.idle[v] = (IF s.vb[v].kind = "pixmap" /\ s.vb[v].pix = NoPix THEN 1 ELSE 0)
  BY SentinelAssumption DEF Entry, Owes, Unfinished, Housed
<1>4. mode = IF s.vb[v].kind = "pixmap" /\ s.idle[v] > 0 THEN "skip" ELSE "copy"
  BY <1>2, <1>3
<1>5. /\ y \in State /\ SameQueues(r, y) /\ SameFlip(r, y) /\ y.idle = r.idle
      /\ \A u \in Ids \ {v} : y.done[u] = r.done[u]
      /\ r.vb[v].win # NoWin => y.done[v].n = r.done[v].n + 1 /\ y.done[v].mode = mode
  <2>1. y \in State
    BY <1>2, VblankNotifyType
  <2> QED BY <2>1, VblankNotifyFrame
<1> HIDE DEF y
<1>6. y.done[v].n > 0 /\ y.done[v].mode = mode
  BY <1>3, <1>5 DEF SameQueues
<1>7. /\ t.execQ = y.execQ \ {v} /\ SameFlip(y, t) /\ SameClient(y, t)
      /\ SameName(y.vb[v], t.vb[v]) /\ t.vb[v].pix = NoPix
      /\ ~t.vb[v].queued /\ ~t.vb[v].cb
      /\ \A u \in Ids \ {v} : t.vb[u] = y.vb[u]
  BY <1>5, VblankDestroyFrame
<1> HIDE DEF t
<1>8. ASSUME NEW u \in Ids \ {v} PROVE SameView(s, t, u, v, Unset)
  <2>1. t.vb[u] = s.vb[u] /\ t.idle[u] = s.idle[u] /\ t.done[u] = s.done[u]
    BY <1>5, <1>7 DEF SameQueues, SameClient
  <2>2. t.pending = s.pending /\ t.flipOf = s.flipOf /\ u # Unset
    BY <1>5, <1>7 DEF SameFlip, Ids, Unset
  <2> QED BY <2>1, <2>2 DEF SameView, Unfinished
<1>9. Over(s, t, v)
  <2>1. t.vb[v].kind = s.vb[v].kind /\ t.idle[v] = r.idle[v] /\ t.done[v] = y.done[v]
    BY <1>5, <1>7 DEF SameQueues, SameClient, SameName
  <2>2. v # t.flipOf
    BY <1>3, <1>5, <1>7 DEF SameFlip
  <2> QED BY <1>3, <1>4, <1>6, <2>1, <2>2 DEF Over
<1> QED BY <1>1, <1>8, <1>9 DEF Served

(* present_execute_copy of a request in hand. *)
LEMMA ExecuteCopyServed ==
  ASSUME NEW s \in State, NEW v \in Ids, NEW now \in Mscs, NEW refuse,
         NEW n, NEW a, NEW h \in SUBSET Windows, NEW d,
         Entry(s, v, n, v, a, h, d), v # s.pending
  PROVE  Served(s, ExecuteCopy(s, v, now, refuse), v, v)
<1> DEFINE r == PixmapIdle(s, v)
           t == ExecuteCopy(s, v, now, refuse)
<1>1. CASE Requeues(s, v, now, refuse)
  <2> DEFINE e == <<v, s.vb[v].exec>>
  <2>1. /\ SameFlip(s, t) /\ SameClient(s, t) /\ t.execQ = s.execQ \cup {v}
        /\ e \in Events /\ t.vbl[e] = s.vbl[e] + 1
        /\ SameName(s.vb[v], t.vb[v]) /\ SameShow(s.vb[v], t.vb[v])
        /\ t.vb[v].queued /\ \A u \in Ids \ {v} : t.vb[u] = s.vb[u]
    BY <1>1, RequeueFrame
  <2> HIDE DEF t, e
  <2>2. ASSUME NEW u \in Ids \ {v} PROVE SameView(s, t, u, v, Unset)
    BY <2>1 DEF SameView, SameFlip, SameClient, Unfinished, Ids, Unset
  <2>3. SameView(s, t, v, v, Unset)
    BY <2>1 DEF SameView, SameFlip, SameClient, SameName, Unfinished
  <2> QED BY <2>2, <2>3 DEF Served, t
<1>2. CASE ~Requeues(s, v, now, refuse)
  <2>1. t = ExecutePost(r, v, now)
    BY <1>2 DEF ExecuteCopy
  <2> HIDE DEF t
  <2>2. /\ r \in State /\ SameQueues(s, r) /\ SameFlip(s, r) /\ r.done = s.done
        /\ r.idle[v] = s.idle[v] + 1 /\ \A u \in Ids \ {v} : r.idle[u] = s.idle[u]
    BY PixmapIdleType, PixmapIdleFrame
  <2> HIDE DEF r
  <2>3. s.idle[v] \in Nat
    BY FieldTypes
  <2>4. r.idle[v] > 0
    BY <2>2, <2>3
  <2>5. Served(s, t, v, v)
    BY <2>1, <2>2, <2>4, ExecutePostServed
  <2> QED BY <2>5 DEF t
<1> QED BY <1>1, <1>2

(* present_flip of a request in hand. *)
LEMMA StartFlipServed ==
  ASSUME NEW s \in State, NEW v \in Ids, s.pending = Unset
  PROVE  Served(s, StartFlip(s, v), v, v)
<1> DEFINE t == StartFlip(s, v)
<1>1. /\ t.vb = s.vb /\ t.execQ = s.execQ /\ t.pending = v /\ t.flipOf = s.flipOf
      /\ t.flipWin = s.flipWin /\ t.flipPix = s.flipPix /\ SameClient(s, t)
  BY StartFlipFrame
<1> HIDE DEF t
<1>2. ASSUME NEW u \in Ids PROVE SameView(s, t, u, v, Unset)
  BY <1>1 DEF SameView, SameClient, Unfinished, Ids, Unset
<1> QED BY <1>2 DEF Served, t

LEMMA EntryBook ==
  ASSUME NEW s, NEW t, NEW v \in Ids, NEW n, NEW x, NEW a, NEW h, NEW d,
         SameBook(s, t), Entry(s, v, n, x, a, h, d)
  PROVE  Entry(t, v, n, x, a, h, d)
<1>1. SameRequest(s, t, v)
  BY DEF SameBook, SameRequest, SameFlip, SameClient
<1> QED BY <1>1, EntrySame

(* Leaving the queues to be executed. *)
LEMMA DequeueView ==
  ASSUME NEW s \in State, NEW v \in Ids, s.vb[v].queued
  PROVE  \A u \in Ids : SameView(s, Dequeue(s, v), u, Unset, v)
<1> DEFINE t == Dequeue(s, v)
<1>1. /\ SameFlip(s, t) /\ SameClient(s, t)
      /\ SameName(s.vb[v], t.vb[v]) /\ SameShow(s.vb[v], t.vb[v])
      /\ \A u \in Ids \ {v} : t.vb[u] = s.vb[u]
  BY DequeueFrame
<1> HIDE DEF t
<1>2. ASSUME NEW u \in Ids \ {v} PROVE SameView(s, t, u, Unset, v)
  BY <1>1 DEF SameView, SameFlip, SameClient, Unfinished, Ids, Unset
<1>3. SameView(s, t, v, Unset, v)
  BY <1>1 DEF SameView, SameFlip, SameClient, SameName, Unfinished
<1> QED BY <1>2, <1>3 DEF t

(* A copy or a flip of a request in hand. *)
LEMMA PresentServed ==
  ASSUME NEW s \in State, NEW v \in Ids, NEW now \in Mscs, NEW refuse,
         NEW n, NEW a, NEW h \in SUBSET Windows, NEW d,
         Entry(s, v, n, v, a, h, d), v # s.pending, s.vb[v].flip => s.pending = Unset
  PROVE  Served(s, Present(s, v, now, refuse), v, v)
<1> DEFINE r == IF s.vb[v].flip THEN FlipRefused(s, v) ELSE s
           w == s.vb[v].win
           u == StopFlipping(r, w)
           t == ExecuteCopy(u, v, now, refuse)
<1>1. Present(s, v, now, refuse)
        = IF s.vb[v].flip /\ "flip" \notin refuse THEN StartFlip(s, v) ELSE t
  BY DEF Present
<1>2. CASE s.vb[v].flip /\ "flip" \notin refuse
  <2>1. Present(s, v, now, refuse) = StartFlip(s, v)
    BY <1>1, <1>2
  <2> QED BY <1>2, <2>1, StartFlipServed
<1>3. CASE ~(s.vb[v].flip /\ "flip" \notin refuse)
  <2>1. r \in State /\ SameBook(s, r)
    BY FlipRefusedType, WaitingBook, SameBookSelf
  <2> HIDE DEF r
  <2>2. u \in State /\ SameBook(r, u)
    BY <2>1, StopFlippingType, StopFlippingBook
  <2> HIDE DEF u
  <2>3. SameBook(s, u)
    BY <2>1, <2>2, SameBookTwice
  <2>4. Entry(u, v, n, v, a, h, d)
    BY <2>3, EntryBook
  <2>5. v # u.pending
    BY <2>3 DEF SameBook, SameFlip
  <2>6. Served(u, t, v, v)
    BY <2>2, <2>4, <2>5, ExecuteCopyServed
  <2> HIDE DEF t
  <2>7. Served(s, t, v, v)
    BY <2>3, <2>6, BookView, ServedAfter
  <2>8. Present(s, v, now, refuse) = t
    BY <1>1, <1>3
  <2> QED BY <2>7, <2>8
<1> QED BY <1>2, <1>3

(* Waiting leaves every view as it was. *)
LEMMA BookServed ==
  ASSUME NEW s, NEW t, NEW v \in Ids, SameBook(s, t)
  PROVE  Served(s, t, v, Unset)
BY BookView DEF Served

(* present_execute. *)
LEMMA ExecuteServed ==
  ASSUME NEW s \in State, NEW v \in Ids, NEW now \in Mscs, NEW refuse,
         NEW n, NEW a \in SUBSET Windows, NEW h \in SUBSET Windows, NEW d,
         Sound(s, n, Unset), Booked(s, n, Unset, a, h, d),
         s.vb[v].queued \/ v = s.pending
  PROVE  Served(s, Execute(s, v, now, refuse), v, Unset)
<1>0. /\ v = s.pending => s.vb[v].flip /\ s.vb[v].pix # NoPix
      /\ v # Unset
  BY DEF Sound, Ids, Unset
<1>1. CASE s.vb[v].win = NoWin
  <2>1. Execute(s, v, now, refuse) = Halt(s, "null")
    BY <1>1 DEF Execute
  <2> QED BY <2>1, HaltBook, BookServed
<1>2. CASE s.vb[v].win # NoWin /\ Requeues(s, v, now, refuse)
  <2>1. Execute(s, v, now, refuse) = QueueVblank(s, v)
    BY <1>2 DEF Execute
  <2> QED BY <2>1, WaitingBook, BookServed
<1>3. CASE s.vb[v].win # NoWin /\ ~Requeues(s, v, now, refuse) /\ WaitsForFence(s, v)
  <2>1. Execute(s, v, now, refuse) = AwaitFence(s, v)
    BY <1>3 DEF Execute
  <2> QED BY <2>1, WaitingBook, BookServed
<1>4. CASE /\ s.vb[v].win # NoWin /\ ~Requeues(s, v, now, refuse)
           /\ ~WaitsForFence(s, v) /\ MustDefer(s, v)
  <2>1. Execute(s, v, now, refuse) = DeferFlip(s, v)
    BY <1>4 DEF Execute
  <2> QED BY <2>1, WaitingBook, BookServed
<1>5. CASE /\ s.vb[v].win # NoWin /\ ~Requeues(s, v, now, refuse)
           /\ ~WaitsForFence(s, v) /\ ~MustDefer(s, v)
  <2> DEFINE t == Dequeue(s, v)
             p == Present(t, v, now, refuse)
             x == ExecutePost(t, v, now)
  <2>1. v # s.pending /\ s.vb[v].queued
    BY <1>0, <1>5 DEF MustDefer
  <2>2. /\ t \in State /\ Booked(t, n, v, a, h, d)
        /\ \A u \in Ids : SameView(s, t, u, Unset, v)
    BY <2>1, DequeueType, DequeueBooked, DequeueView
  <2>3. /\ t.vb[v].flip = s.vb[v].flip /\ t.vb[v].pix = s.vb[v].pix
        /\ t.pending = s.pending
    BY DequeueFrame DEF SameShow, SameFlip
  <2>4. Execute(s, v, now, refuse) = IF s.vb[v].pix # NoPix THEN p ELSE x
    BY <1>5 DEF Execute
  <2> HIDE DEF t
  <2>5. Entry(t, v, n, v, a, h, d)
    BY <2>2 DEF Booked
  <2>6. CASE s.vb[v].pix # NoPix
    <3>1. t.vb[v].flip => t.pending = Unset
      BY <1>5, <2>3, <2>6 DEF MustDefer
    <3>2. Served(t, p, v, v)
      BY <2>1, <2>2, <2>3, <2>5, <3>1, PresentServed
    <3> HIDE DEF p
    <3>3. Served(s, p, v, Unset)
      BY <2>2, <3>2, ServedAfter
    <3> QED BY <2>4, <2>6, <3>3
  <2>7. CASE s.vb[v].pix = NoPix
    <3>1. t.idle[v] = IF t.vb[v].kind = "pixmap" THEN 1 ELSE 0
      BY <2>3, <2>5, <2>7 DEF Entry, Owes, Unfinished
    <3>2. t.vb[v].kind = "pixmap" => t.idle[v] > 0
      BY <3>1
    <3>3. SameQueues(t, t) /\ SameFlip(t, t)
      BY DEF SameQueues, SameFlip
    <3>4. v # t.pending
      BY <2>1, <2>3
    <3>5. Served(t, x, v, v)
      BY <2>2, <2>5, <3>2, <3>3, <3>4, ExecutePostServed
    <3> HIDE DEF x
    <3>6. Served(s, x, v, Unset)
      BY <2>2, <3>5, ServedAfter
    <3> QED BY <2>4, <2>7, <3>6
  <2> QED BY <2>6, <2>7
<1> QED BY <1>1, <1>2, <1>3, <1>4, <1>5

(* present_flip_try_ready serves one queued request, or none. *)
LEMMA FlipTryReadyServed ==
  ASSUME NEW s \in State, NEW refuse, msc \in Mscs,
         NEW n, NEW a \in SUBSET Windows, NEW h \in SUBSET Windows,
         Sound(s, n, Unset), Booked(s, n, Unset, a, h, {})
  PROVE  \/ FlipTryReady(s, refuse) = s
         \/ \E k \in Ids : s.vb[k].queued /\ Served(s, FlipTryReady(s, refuse), k, Unset)
<1>1. CASE FlipTryReady(s, refuse) = s
  BY <1>1
<1>2. CASE \E v \in Ids : /\ Contains(s.flipQ, v) /\ s.vb[v].queued
                          /\ FlipTryReady(s, refuse) = Execute(s, v, msc, refuse)
  <2>1. PICK v \in Ids : /\ s.vb[v].queued
                         /\ FlipTryReady(s, refuse) = Execute(s, v, msc, refuse)
    BY <1>2
  <2>2. Served(s, Execute(s, v, msc, refuse), v, Unset)
    BY <2>1, ExecuteServed
  <2> QED BY <2>1, <2>2
<1> QED BY <1>1, <1>2, FlipTryReadyRuns

(* Two steps, of different requests, are one step for each of them. *)
LEMMA TurnTwice ==
  ASSUME NEW s, NEW t, NEW r, NEW n, NEW x, NEW y, NEW z,
         Turn(s, t, n, x, y), Turn(t, r, n, y, z),
         \A u \in Ids : SameView(s, t, u, x, y) \/ SameView(t, r, u, y, z)
  PROVE  Turn(s, r, n, x, z)
<1> SUFFICES ASSUME NEW u \in Ids
             PROVE  ClientView!Step(View(s, u, n, x), View(r, u, n, z))
  BY DEF Turn
<1>1. /\ ClientView!Step(View(s, u, n, x), View(t, u, n, y))
      /\ ClientView!Step(View(t, u, n, y), View(r, u, n, z))
  BY DEF Turn
<1>2. CASE SameView(s, t, u, x, y)
  BY <1>1, <1>2, ViewSame
<1>3. CASE SameView(t, r, u, y, z)
  BY <1>1, <1>3, ViewSame
<1> QED BY <1>2, <1>3

(* No request moves. *)
LEMMA SameTurn ==
  ASSUME NEW s, NEW t, NEW n, NEW x, NEW y, \A u \in Ids : SameView(s, t, u, x, y)
  PROVE  Turn(s, t, n, x, y)
<1> SUFFICES ASSUME NEW u \in Ids
             PROVE  ClientView!Step(View(s, u, n, x), View(t, u, n, y))
  BY DEF Turn
<1>1. View(t, u, n, y) = View(s, u, n, x)
  BY ViewSame
<1> QED BY <1>1 DEF ClientView!Step

(* Executing a request is a step for its client alone. *)
LEMMA ExecuteTurn ==
  ASSUME NEW s \in State, NEW v \in Ids, NEW now \in Mscs, NEW refuse,
         NEW n, NEW a \in SUBSET Windows, NEW h \in SUBSET Windows, NEW d,
         Sound(s, n, Unset), Booked(s, n, Unset, a, h, d),
         s.vb[v].queued \/ v = s.pending
  PROVE  Turn(s, Execute(s, v, now, refuse), n, Unset, Unset)
<1>1. Served(s, Execute(s, v, now, refuse), v, Unset)
  BY ExecuteServed
<1>2. Entry(s, v, n, Unset, a, h, d) /\ Unfinished(s, v, Unset)
  BY DEF Booked, Unfinished
<1> QED BY <1>1, <1>2, ServedTurn

LEMMA FlipTryReadyTurn ==
  ASSUME NEW s \in State, NEW refuse, msc \in Mscs,
         NEW n, NEW a \in SUBSET Windows, NEW h \in SUBSET Windows,
         Sound(s, n, Unset), Booked(s, n, Unset, a, h, {})
  PROVE  /\ Turn(s, FlipTryReady(s, refuse), n, Unset, Unset)
         /\ \A u \in Ids : ~s.vb[u].queued
                             => SameView(s, FlipTryReady(s, refuse), u, Unset, Unset)
<1> DEFINE t == FlipTryReady(s, refuse)
<1>1. CASE t = s
  <2>1. \A u \in Ids : SameView(s, t, u, Unset, Unset)
    BY <1>1 DEF SameView
  <2> QED BY <2>1, SameTurn
<1>2. ASSUME NEW k \in Ids, s.vb[k].queued, Served(s, t, k, Unset)
      PROVE  /\ Turn(s, t, n, Unset, Unset)
             /\ \A u \in Ids : ~s.vb[u].queued => SameView(s, t, u, Unset, Unset)
  <2>1. Entry(s, k, n, Unset, a, h, {}) /\ Unfinished(s, k, Unset)
    BY <1>2 DEF Booked, Unfinished
  <2> HIDE DEF t
  <2>2. Turn(s, t, n, Unset, Unset)
    BY <1>2, <2>1, ServedTurn
  <2> QED BY <1>2, <2>2 DEF Served
<1> QED BY <1>1, <1>2, FlipTryReadyServed

(* present_flip_idle: the buffer on the screen goes back. *)
LEMMA FlipIdleTurn ==
  ASSUME NEW s \in State, NEW n, NEW a, NEW h, NEW d, Booked(s, n, Unset, a, h, d)
  PROVE  /\ Turn(s, FlipIdle(s), n, Unset, Unset)
         /\ \A u \in Ids : u # s.flipOf => SameView(s, FlipIdle(s), u, Unset, Unset)
<1> DEFINE t == FlipIdle(s)
<1>1. /\ SameQueues(s, t) /\ t.pending = s.pending /\ t.flipOf = Unset /\ t.done = s.done
      /\ s.flipOf \in Ids => t.idle[s.flipOf] = s.idle[s.flipOf] + 1
      /\ \A u \in Ids \ {s.flipOf} : t.idle[u] = s.idle[u]
  BY FlipIdleFrame DEF Booked
<1> HIDE DEF t
<1>2. ASSUME NEW u \in Ids, u # s.flipOf PROVE SameView(s, t, u, Unset, Unset)
  BY <1>1, <1>2 DEF SameView, SameQueues, Unfinished, Ids, Unset
<1>3. ASSUME NEW u \in Ids, u = s.flipOf
      PROVE  ClientView!Step(View(s, u, n, Unset), View(t, u, n, Unset))
  <2> DEFINE a1 == View(s, u, n, Unset)
             b1 == View(t, u, n, Unset)
  <2>1. /\ ~Unfinished(s, u, Unset) /\ s.idle[u] \in {0, 1} /\ s.idle[u] = 0
    BY <1>3 DEF Booked, Entry, Owes
  <2>2. t.idle[u] > 0
    BY <1>1, <1>3, <2>1
  <2>3. /\ t.vb[u] = s.vb[u] /\ t.done[u] = s.done[u]
        /\ Unfinished(t, u, Unset) <=> Unfinished(s, u, Unset)
    BY <1>1 DEF SameQueues, Unfinished
  <2>4. b1.phase = a1.phase
    BY <2>3 DEF View
  <2>5. CASE s.vb[u].kind = "pixmap"
    <3>1. a1.buffer = "screen" /\ b1.buffer = "idle"
      BY <1>3, <2>1, <2>2, <2>3, <2>5 DEF View
    <3>2. b1 = [a1 EXCEPT !.buffer = "idle"]
      BY <2>4, <3>1 DEF View
    <3> HIDE DEF a1, b1
    <3>3. ClientView!Retire(a1, b1)
      BY <3>1, <3>2 DEF ClientView!Retire
    <3> QED BY <3>3 DEF ClientView!Step, a1, b1
  <2>6. CASE s.vb[u].kind # "pixmap"
    <3>1. b1 = a1
      BY <2>3, <2>6 DEF View
    <3> QED BY <3>1 DEF ClientView!Step
  <2> QED BY <2>5, <2>6
<1>4. ASSUME NEW u \in Ids
      PROVE  ClientView!Step(View(s, u, n, Unset), View(t, u, n, Unset))
  <2>1. CASE u # s.flipOf
    <3>1. View(t, u, n, Unset) = View(s, u, n, Unset)
      BY <1>2, <2>1, ViewSame
    <3> QED BY <3>1 DEF ClientView!Step
  <2> QED BY <1>3, <2>1
<1> QED BY <1>2, <1>4 DEF Turn, t

(* The pending flip comes on the screen. *)
LEMMA TakenTurn ==
  ASSUME NEW s, NEW t, NEW v \in Ids, NEW n, NEW a, NEW h, NEW d,
         Booked(s, n, Unset, a, h, d), s.pending = v, s.flipOf = Unset,
         s.vb[v].pix # NoPix, Taken(s, t, v)
  PROVE  /\ Turn(s, t, n, Unset, Unset)
         /\ \A u \in Ids \ {v} : SameView(s, t, u, Unset, Unset)
<1>1. v # Unset /\ Unset \notin Ids
  BY DEF Ids, Unset
<1>2. ASSUME NEW u \in Ids \ {v} PROVE SameView(s, t, u, Unset, Unset)
  BY <1>1 DEF SameView, Taken, Unfinished
<1>3. ClientView!Step(View(s, v, n, Unset), View(t, v, n, Unset))
  <2> DEFINE a1 == View(s, v, n, Unset)
             b1 == View(t, v, n, Unset)
  <2>1. /\ Unfinished(s, v, Unset) /\ ~(v >= n) /\ s.vb[v].kind = "pixmap"
        /\ s.idle[v] = 0 /\ s.done[v].n = 0 /\ v # s.flipOf
    BY DEF Booked, Entry, Owes, Unfinished
  <2>2. ~Unfinished(t, v, Unset)
    BY <1>1 DEF Taken, Unfinished
  <2>3. a1 = [phase |-> IF s.vb[v].win # NoWin THEN "queued" ELSE "dropped",
              buffer |-> "server"]
    BY <2>1 DEF View
  <2>4. t.vb[v].kind = "pixmap" /\ t.idle[v] = 0 /\ v = t.flipOf
    BY <2>1 DEF Taken, SameName
  <2>5. b1.buffer = "screen"
    BY <2>4 DEF View
  <2>6. b1.phase = IF s.vb[v].win # NoWin THEN "flip" ELSE "dropped"
    <3>1. CASE s.vb[v].win # NoWin
      <4>1. t.done[v].n > 0 /\ t.done[v].mode = "flip"
        BY <2>1, <3>1 DEF Taken
      <4> QED BY <2>1, <3>1, <4>1 DEF View
    <3>2. CASE s.vb[v].win = NoWin
      <4>1. t.done[v].n = 0
        BY <2>1, <3>2 DEF Taken
      <4> QED BY <2>1, <2>2, <3>2, <4>1 DEF View
    <3> QED BY <3>1, <3>2
  <2>7. b1 = [phase |-> b1.phase, buffer |-> b1.buffer]
    BY DEF View
  <2> HIDE DEF a1, b1
  <2>8. ClientView!Show(a1, b1)
    BY <2>3, <2>5, <2>6, <2>7 DEF ClientView!Show
  <2> QED BY <2>8 DEF ClientView!Step, a1, b1
<1>4. ASSUME NEW u \in Ids
      PROVE  ClientView!Step(View(s, u, n, Unset), View(t, u, n, Unset))
  <2>1. CASE u # v
    <3>1. View(t, u, n, Unset) = View(s, u, n, Unset)
      BY <1>2, <2>1, ViewSame
    <3> QED BY <3>1 DEF ClientView!Step
  <2> QED BY <1>3, <2>1
<1> QED BY <1>2, <1>4 DEF Turn

(* present_flip_notify: one buffer leaves the screen, another comes on it, and
   the next request waiting to flip is executed. *)
LEMMA FlipNotifyTurn ==
  ASSUME NEW s \in State, NEW v \in Ids, NEW now \in Mscs, NEW refuse, msc \in Mscs,
         NEW n, NEW a \in SUBSET Windows, NEW h \in SUBSET Windows,
         Sound(s, n, Unset), Booked(s, n, Unset, a, h, {})
  PROVE  Turn(s, FlipNotify(s, v, now, refuse), n, Unset, Unset)
<1> DEFINE i == FlipIdle(s)
           t == FlipNotify(s, v, now, refuse)
<1>1. CASE v # s.pending
  <2>1. t = Halt(s, "assert")
    BY <1>1 DEF FlipNotify
  <2>2. SameBook(s, t)
    BY <2>1, HaltBook
  <2> HIDE DEF t
  <2>3. \A u \in Ids : SameView(s, t, u, Unset, Unset)
    BY <2>2, BookView
  <2> QED BY <2>3, SameTurn DEF t
<1>2. CASE v = s.pending
  <2>1. PICK x \in State : t = FlipTryReady(x, refuse) /\ Sound(x, n, Unset) /\ Taken(i, x, v)
    BY <1>2, FlipNotifySteps
  <2> HIDE DEF t
  <2>2. /\ Booked(i, n, Unset, a, h, {}) /\ i.pending = v /\ i.flipOf = Unset
        /\ i.vb = s.vb /\ ~i.vb[v].queued /\ i.vb[v].pix # NoPix
    <3>1. i.pending = s.pending /\ i.flipOf = Unset /\ i.vb = s.vb
      BY FlipIdleFrame DEF Booked, SameQueues
    <3>2. ~s.vb[v].queued /\ s.vb[v].pix # NoPix
      BY <1>2 DEF Sound, Ids, Unset
    <3> QED BY <1>2, <3>1, <3>2, FlipIdleBooked
  <2>3. /\ Turn(s, i, n, Unset, Unset)
        /\ \A u \in Ids : u # s.flipOf => SameView(s, i, u, Unset, Unset)
    BY FlipIdleTurn
  <2> HIDE DEF i
  <2>4. Booked(x, n, Unset, a, h, {})
    BY <2>1, <2>2, TakenBooked
  <2>5. /\ Turn(i, x, n, Unset, Unset)
        /\ \A u \in Ids \ {v} : SameView(i, x, u, Unset, Unset)
    BY <2>1, <2>2, TakenTurn
  <2>6. /\ Turn(x, t, n, Unset, Unset)
        /\ \A u \in Ids : ~x.vb[u].queued => SameView(x, t, u, Unset, Unset)
    BY <2>1, <2>4, FlipTryReadyTurn
  <2>7. \A u \in Ids : Unfinished(s, u, Unset) => u # s.flipOf
    BY DEF Booked, Entry, Owes
  <2>8. Turn(s, x, n, Unset, Unset)
    <3>1. \A u \in Ids : SameView(s, i, u, Unset, Unset) \/ SameView(i, x, u, Unset, Unset)
      BY <1>2, <2>3, <2>5, <2>7 DEF Unfinished
    <3> QED BY <2>3, <2>5, <3>1, TurnTwice
  <2>9. ASSUME NEW u \in Ids
        PROVE  SameView(s, x, u, Unset, Unset) \/ SameView(x, t, u, Unset, Unset)
    <3>1. CASE x.vb[u].queued
      <4>1. u # v /\ s.vb[u].queued
        BY <2>1, <2>2, <3>1 DEF Taken
      <4>2. SameView(s, i, u, Unset, Unset) /\ SameView(i, x, u, Unset, Unset)
        BY <2>3, <2>5, <2>7, <4>1 DEF Unfinished
      <4> QED BY <4>2, SameViewTwice
    <3>2. CASE ~x.vb[u].queued
      BY <2>6, <3>2
    <3> QED BY <3>1, <3>2
  <2>10. Turn(s, t, n, Unset, Unset)
    BY <2>6, <2>8, <2>9, TurnTwice
  <2> QED BY <2>10 DEF t
<1> QED BY <1>1, <1>2

(* present_unflip's completion. *)
LEMMA UnflipNotifyTurn ==
  ASSUME NEW s \in State, NEW refuse, msc \in Mscs,
         NEW n, NEW a \in SUBSET Windows, NEW h \in SUBSET Windows,
         Sound(s, n, Unset), Booked(s, n, Unset, a, h, {})
  PROVE  Turn(s, UnflipNotify(s, refuse), n, Unset, Unset)
<1> DEFINE t == [s EXCEPT !.unflip = FALSE]
           i == FlipIdle(t)
           r == FlipTryReady(i, refuse)
<1>1. /\ t \in State /\ SameQueues(s, t) /\ SameFlip(s, t) /\ SameClient(s, t)
      /\ ~t.unflip /\ t.halted = s.halted
  BY DEF State, SameQueues, SameFlip, SameClient
<1>2. UnflipNotify(s, refuse) = r
  BY DEF UnflipNotify
<1> HIDE DEF t
<1>3. Sound(t, n, Unset)
  BY <1>1 DEF Sound, SameQueues, SameFlip
<1>4. SameBook(s, t) /\ Booked(t, n, Unset, a, h, {})
  BY <1>1, QueuesSameBook, BookedSame
<1>5. \A u \in Ids : SameView(s, t, u, Unset, Unset)
  BY <1>4, BookView
<1>6. /\ i \in State /\ Sound(i, n, Unset) /\ Booked(i, n, Unset, a, h, {}) /\ i.vb = t.vb
  <2>1. i.vb = t.vb
    BY <1>1, <1>4, FlipIdleFrame DEF Booked, SameQueues
  <2> QED BY <1>1, <1>3, <1>4, <2>1, FlipIdleType, FlipIdleSound, FlipIdleBooked
<1>7. /\ Turn(t, i, n, Unset, Unset)
      /\ \A u \in Ids : u # t.flipOf => SameView(t, i, u, Unset, Unset)
  BY <1>1, <1>4, FlipIdleTurn
<1> HIDE DEF i
<1>8. /\ Turn(i, r, n, Unset, Unset)
      /\ \A u \in Ids : ~i.vb[u].queued => SameView(i, r, u, Unset, Unset)
  BY <1>6, FlipTryReadyTurn
<1> HIDE DEF r
<1>9. ASSUME NEW u \in Ids
      PROVE  SameView(t, i, u, Unset, Unset) \/ SameView(i, r, u, Unset, Unset)
  <2>1. t.vb[u].queued => u # t.flipOf
    BY <1>4 DEF Booked, Entry, Owes, Unfinished
  <2> QED BY <1>6, <1>7, <1>8, <2>1
<1>10. Turn(t, r, n, Unset, Unset)
  BY <1>7, <1>8, <1>9, TurnTwice
<1>11. Turn(s, t, n, Unset, Unset)
  BY <1>5, SameTurn
<1>12. Turn(s, r, n, Unset, Unset)
  BY <1>5, <1>10, <1>11, TurnTwice
<1> QED BY <1>2, <1>12

(* present_event_notify. *)
LEMMA EventNotifyTurn ==
  ASSUME NEW s \in State, NEW v \in Ids, NEW now \in Mscs, NEW refuse, msc \in Mscs,
         NEW n, NEW a \in SUBSET Windows, NEW h \in SUBSET Windows,
         Sound(s, n, Unset), Booked(s, n, Unset, a, h, {})
  PROVE  Turn(s, EventNotify(s, v, now, refuse), n, Unset, Unset)
<1>1. v \in s.execQ => s.vb[v].queued
  BY DEF Booked, Entry, Reached
<1>2. s.vb[v].queued => Turn(s, Execute(s, v, now, refuse), n, Unset, Unset)
  BY ExecuteTurn
<1>3. Turn(s, FlipNotify(s, v, now, refuse), n, Unset, Unset)
  BY FlipNotifyTurn
<1>4. Turn(s, s, n, Unset, Unset)
  BY DEF Turn, ClientView!Step
<1> QED BY <1>1, <1>2, <1>3, <1>4 DEF EventNotify

(* A request of a window being destroyed is dropped. *)
LEMMA DestroyedTurn ==
  ASSUME NEW s \in State, NEW v \in Ids, NEW n, NEW a, NEW h \in SUBSET Windows,
         Booked(s, n, Unset, a, h, {}), s.vb[v].queued, v # s.pending
  PROVE  Turn(s, VblankDestroy(s, v), n, Unset, Unset)
<1> DEFINE t == VblankDestroy(s, v)
           a1 == View(s, v, n, Unset)
           b1 == View(t, v, n, Unset)
<1>1. /\ SameFlip(s, t) /\ SameClient(s, t) /\ SameName(s.vb[v], t.vb[v])
      /\ ~t.vb[v].queued /\ \A u \in Ids \ {v} : t.vb[u] = s.vb[u]
  BY VblankDestroyFrame
<1> HIDE DEF t
<1>2. Entry(s, v, n, Unset, a, h, {}) /\ Unfinished(s, v, Unset) /\ v # Unset
  BY DEF Booked, Unfinished, Ids, Unset
<1>3. /\ ~(v >= n) /\ s.done[v].n = 0 /\ s.vb[v].win # NoWin /\ v # s.flipOf
  BY <1>2, SentinelAssumption DEF Entry, Owes, Housed
<1>4. ~Unfinished(t, v, Unset) /\ t.done[v].n = 0 /\ v # t.flipOf
      /\ t.vb[v].kind = s.vb[v].kind /\ t.idle[v] = s.idle[v]
  BY <1>1, <1>2, <1>3 DEF SameFlip, SameClient, SameName, Unfinished
<1>5. a1.phase = "queued" /\ b1.phase = "dropped"
  BY <1>2, <1>3, <1>4 DEF View
<1>6. b1.buffer = a1.buffer \/ (a1.buffer = "server" /\ b1.buffer = "lost")
  BY <1>2, <1>3, <1>4 DEF View
<1> HIDE DEF a1, b1
<1>7. ClientView!Step(a1, b1)
  BY <1>5, <1>6 DEF ClientView!Step, ClientView!Drop
<1>8. ASSUME NEW u \in Ids PROVE ClientView!Step(View(s, u, n, Unset), View(t, u, n, Unset))
  <2>1. CASE u # v
    <3>1. SameView(s, t, u, Unset, Unset)
      BY <1>1, <2>1 DEF SameView, SameFlip, SameClient, Unfinished
    <3>2. View(t, u, n, Unset) = View(s, u, n, Unset)
      BY <3>1, ViewSame
    <3> QED BY <3>2 DEF ClientView!Step
  <2> QED BY <1>7, <2>1 DEF a1, b1
<1> QED BY <1>8 DEF Turn, t

(* present_clear_window_flip: nobody is told of the flip that is pending. *)
LEMMA ClearWindowFlipTurn ==
  ASSUME NEW s \in State, NEW w \in Windows, NEW n, NEW a, NEW h, NEW d,
         Booked(s, n, Unset, a, h, d)
  PROVE  Turn(s, ClearWindowFlip(s, w), n, Unset, Unset)
<1> DEFINE t == ClearWindowFlip(s, w)
<1>1. Cleared(s, t, w)
  BY ClearWindowFlipFrame
<1> HIDE DEF t
<1>2. ASSUME NEW u \in Ids PROVE ClientView!Step(View(s, u, n, Unset), View(t, u, n, Unset))
  <2> DEFINE a1 == View(s, u, n, Unset)
             b1 == View(t, u, n, Unset)
  <2>1. /\ t.vb[u].kind = s.vb[u].kind /\ t.idle[u] = s.idle[u] /\ t.done[u] = s.done[u]
        /\ t.flipOf = s.flipOf /\ u # Unset
        /\ Unfinished(t, u, Unset) <=> Unfinished(s, u, Unset)
    BY <1>1 DEF Cleared, SameClient, Unfinished, Ids, Unset
  <2>2. CASE (t.vb[u].win = NoWin) <=> (s.vb[u].win = NoWin)
    <3>1. SameView(s, t, u, Unset, Unset)
      BY <2>1, <2>2 DEF SameView
    <3>2. b1 = a1
      BY <3>1, ViewSame
    <3> QED BY <3>2 DEF ClientView!Step
  <2>3. CASE ~((t.vb[u].win = NoWin) <=> (s.vb[u].win = NoWin))
    <3>1. u = s.pending /\ s.vb[u].win # NoWin /\ t.vb[u].win = NoWin
      BY <1>1, <2>3 DEF Cleared
    <3>2. Unfinished(s, u, Unset) /\ Unfinished(t, u, Unset)
      BY <2>1, <3>1 DEF Unfinished
    <3>3. ~(u >= n) /\ s.done[u].n = 0
      BY <3>2 DEF Booked, Entry, Owes
    <3>4. a1.phase = "queued" /\ b1.phase = "dropped" /\ b1.buffer = a1.buffer
      BY <2>1, <3>1, <3>2, <3>3 DEF View
    <3> HIDE DEF a1, b1
    <3>5. ClientView!Drop(a1, b1)
      BY <3>4 DEF ClientView!Drop
    <3> QED BY <3>5 DEF ClientView!Step, a1, b1
  <2> QED BY <2>2, <2>3
<1> QED BY <1>2 DEF Turn, t

(* A request that a later one replaces gives its buffer back. *)
LEMMA ScrapTurn ==
  ASSUME NEW s \in State, NEW old \in SUBSET Ids, NEW n, NEW a, NEW h \in SUBSET Windows,
         Booked(s, n, Unset, a, h, {}),
         \A v \in old : s.vb[v].queued /\ s.vb[v].pix # NoPix
  PROVE  Turn(s, Scrap(s, old), n, Unset, Unset)
<1> DEFINE t == Scrap(s, old)
<1>1. /\ SameFlip(s, t) /\ t.done = s.done
      /\ \A v \in Ids \ old : t.vb[v] = s.vb[v] /\ t.idle[v] = s.idle[v]
      /\ \A v \in old : /\ SameName(s.vb[v], t.vb[v])
                        /\ t.vb[v].queued = s.vb[v].queued
                        /\ t.idle[v] = s.idle[v] + 1
  BY ScrapFrame
<1> HIDE DEF t
<1>2. ASSUME NEW u \in Ids PROVE ClientView!Step(View(s, u, n, Unset), View(t, u, n, Unset))
  <2> DEFINE a1 == View(s, u, n, Unset)
             b1 == View(t, u, n, Unset)
  <2>1. CASE u \in old
    <3>1. Entry(s, u, n, Unset, a, h, {}) /\ Unfinished(s, u, Unset)
      BY <2>1 DEF Booked, Unfinished
    <3>2. /\ ~(u >= n) /\ s.done[u].n = 0 /\ s.vb[u].win # NoWin /\ u # s.flipOf
          /\ s.vb[u].kind = "pixmap" /\ s.idle[u] = 0
      BY <2>1, <3>1, SentinelAssumption DEF Entry, Owes, Housed
    <3>3. /\ t.done[u].n = 0 /\ t.vb[u].win # NoWin /\ t.vb[u].kind = "pixmap"
          /\ t.idle[u] = 1 /\ Unfinished(t, u, Unset)
      BY <1>1, <2>1, <3>1, <3>2 DEF SameName, Unfinished, SameFlip
    <3>4. a1 = [phase |-> "queued", buffer |-> "server"]
      BY <3>1, <3>2 DEF View
    <3>5. b1 = [phase |-> "queued", buffer |-> "idle"]
      BY <3>2, <3>3 DEF View
    <3> HIDE DEF a1, b1
    <3>6. ClientView!Supersede(a1, b1)
      BY <3>4, <3>5 DEF ClientView!Supersede
    <3> QED BY <3>6 DEF ClientView!Step, a1, b1
  <2>2. CASE u \notin old
    <3>1. SameView(s, t, u, Unset, Unset)
      BY <1>1, <2>2 DEF SameView, SameFlip, Unfinished
    <3>2. b1 = a1
      BY <3>1, ViewSame
    <3> QED BY <3>2 DEF ClientView!Step
  <2> QED BY <2>1, <2>2
<1> QED BY <1>2 DEF Turn, t

(* Creating a request, and executing it if its time has come. *)
LEMMA AcceptedTurn ==
  ASSUME NEW c, NEW t, NEW r, NEW v \in Ids, NEW w \in Windows, NEW p, NEW opt,
         NEW target, NEW a, NEW h, NEW d,
         Booked(c, v, Unset, a, h, d), SameFlip(c, t), SameClient(c, t),
         Created(t.vb[v], w, p, opt, target), Served(t, r, v, Unset)
  PROVE  ClientView!Step(View(c, v, v, Unset), View(r, v, v + 1, Unset))
<1> DEFINE a1 == View(c, v, v, Unset)
           b1 == View(t, v, v + 1, Unset)
           c1 == View(r, v, v + 1, Unset)
<1>1. v >= v /\ ~(v >= v + 1)
  BY DEF Ids
<1>2. /\ c.vb[v].kind = "none" /\ c.idle[v] = 0 /\ c.done[v].n = 0 /\ v # c.flipOf
  BY <1>1 DEF Booked, Entry, Owes
<1>3. a1 = ClientView!New
  BY <1>1, <1>2 DEF View, ClientView!New
<1>4. /\ t.vb[v].win # NoWin /\ Unfinished(t, v, Unset)
      /\ t.vb[v].kind \in {"pixmap", "msc"}
      /\ t.idle[v] = 0 /\ t.done[v].n = 0 /\ v # t.flipOf
  BY <1>2, SentinelAssumption DEF Created, Unfinished, SameFlip, SameClient
<1>5. b1 = [phase |-> "queued",
            buffer |-> IF t.vb[v].kind # "pixmap" THEN "none" ELSE "server"]
  BY <1>1, <1>4 DEF View
<1>6. CASE SameView(t, r, v, Unset, Unset)
  <2>1. c1 = b1
    BY <1>6, ViewSame
  <2> HIDE DEF a1, b1, c1
  <2>2. ClientView!Accept(a1, c1)
    BY <1>3, <1>5, <2>1 DEF ClientView!Accept
  <2> QED BY <2>2 DEF ClientView!Step, a1, c1
<1>7. CASE Over(t, r, v)
  <2>1. /\ r.done[v].n > 0 /\ r.done[v].mode = "copy"
        /\ r.vb[v].kind = t.vb[v].kind /\ (t.vb[v].kind = "pixmap" => r.idle[v] > 0)
    BY <1>4, <1>7 DEF Over
  <2>2. c1.phase = "copy"
    BY <1>1, <2>1 DEF View
  <2>3. c1.buffer = IF t.vb[v].kind # "pixmap" THEN "none" ELSE "idle"
    BY <2>1 DEF View
  <2> HIDE DEF a1, b1, c1
  <2>4. a1.buffer = "none"
    BY <1>3 DEF ClientView!New
  <2>5. ClientView!Copy(a1, c1)
    BY <1>3, <2>2, <2>3, <2>4 DEF ClientView!Copy
  <2> QED BY <2>5 DEF ClientView!Step, a1, c1
<1> QED BY <1>6, <1>7 DEF Served

(* present_scmd_pixmap: the new request is accepted, and copied at once if it
   is due; those it replaces give their buffers back. *)
LEMMA SubmittedTurn ==
  ASSUME NEW s \in State, NEW v \in Ids, NEW w \in Windows, NEW p \in Pixmaps \cup {NoPix},
         NEW opt \in OptionRecord, NEW f \in Fences \cup {NoFence}, NEW target \in Mscs,
         NEW refuse, msc \in Mscs, NEW a \in SUBSET Windows, NEW h \in SUBSET Windows,
         Sound(s, v, Unset), Booked(s, v, Unset, a, h, {}), w \in h, NEW u \in Ids
  PROVE  ClientView!Step(View(s, u, v, Unset),
           View(Submitted(s, v, w, p, opt, f, target, refuse), u, v + 1, Unset))
<1> DEFINE old == IF p = NoPix \/ opt.update THEN {} ELSE Superseded(s, w, target)
           c == Scrap(s, old)
           t == VblankCreate(c, v, w, p, opt, f, target)
           r == Submitted(s, v, w, p, opt, f, target, refuse)
<1>1. old \in SUBSET Ids /\ \A k \in old : s.vb[k].queued /\ s.vb[k].pix # NoPix
  BY DEF Superseded
<1>2. r \in {QueueVblank(t, v), Execute(t, v, msc, refuse)}
  BY DEF Submitted
<1>3. \/ p = NoPix \/ opt.update
      \/ \A k \in Ids : s.vb[k].queued /\ s.vb[k].win = w /\ s.vb[k].target = target
                          => s.vb[k].pix = NoPix \/ k \in old
  BY DEF Superseded
<1> HIDE DEF old, r
<1>4. /\ c \in State /\ Sound(c, v, Unset) /\ Booked(c, v, Unset, a, h, old)
      /\ Turn(s, c, v, Unset, Unset)
  BY <1>1, ScrapType, ScrapSound, ScrapBooked, ScrapTurn
<1>5. Vacant(c, w, p, opt, target)
  <2>1. /\ \A k \in Ids \ old : c.vb[k] = s.vb[k]
        /\ \A k \in old : c.vb[k].pix = NoPix
    BY <1>1, ScrapFrame
  <2> HIDE DEF c
  <2> QED BY <1>3, <2>1 DEF Vacant
<1>6. v \notin old
  <2>1. Entry(s, v, v, Unset, a, h, {}) /\ v >= v
    BY DEF Booked, Ids
  <2> QED BY <1>1, <2>1 DEF Entry, Owes, Unfinished
<1>7. View(c, v, v, Unset) = View(s, v, v, Unset)
  <2>1. SameFlip(s, c) /\ c.done = s.done /\ c.vb[v] = s.vb[v] /\ c.idle[v] = s.idle[v]
    BY <1>1, <1>6, ScrapFrame
  <2> HIDE DEF c
  <2>2. SameView(s, c, v, Unset, Unset)
    BY <2>1 DEF SameView, SameFlip, Unfinished
  <2> QED BY <2>2, ViewSame
<1> HIDE DEF c
<1>8. t \in State /\ Sound(t, v + 1, Unset) /\ Booked(t, v + 1, Unset, a, h, old)
  <2>1. t \in State /\ Sound(t, v + 1, Unset)
    BY <1>4, VblankCreateType, VblankCreateSound
  <2>2. Booked(t, v + 1, Unset, a, h, old)
    BY <1>4, <1>5, VblankCreateBooked
  <2> QED BY <2>1, <2>2
<1>9. /\ SameFlip(c, t) /\ SameClient(c, t) /\ Created(t.vb[v], w, p, opt, target)
      /\ \A k \in Ids \ {v} : t.vb[k] = c.vb[k]
  <2>1. t = VblankCreate(c, v, w, p, opt, f, target)
    OBVIOUS
  <2> HIDE DEF t
  <2> QED BY <1>4, <2>1, VblankCreateFrame
<1> HIDE DEF t
<1>10. Served(t, r, v, Unset)
  <2>1. t.vb[v].queued
    BY <1>9 DEF Created
  <2>2. Served(t, Execute(t, v, msc, refuse), v, Unset)
    BY <1>8, <2>1, ExecuteServed
  <2>3. Served(t, QueueVblank(t, v), v, Unset)
    BY <1>8, WaitingBook, BookServed
  <2> QED BY <1>2, <2>2, <2>3
<1>11. CASE u = v
  <2>1. ClientView!Step(View(c, v, v, Unset), View(r, v, v + 1, Unset))
    BY <1>4, <1>9, <1>10, AcceptedTurn
  <2> QED BY <1>7, <1>11, <2>1 DEF r
<1>12. CASE u # v
  <2>1. SameView(c, t, u, Unset, Unset) /\ SameView(t, r, u, Unset, Unset)
    BY <1>9, <1>10, <1>12 DEF Served, SameView, SameFlip, SameClient, Unfinished
  <2>2. View(r, u, v, Unset) = View(c, u, v, Unset)
    BY <2>1, SameViewTwice, ViewSame
  <2>3. View(r, u, v + 1, Unset) = View(r, u, v, Unset)
    <3>1. u >= v + 1 <=> u >= v
      BY <1>12 DEF Ids
    <3> QED BY <3>1 DEF View
  <2>4. ClientView!Step(View(s, u, v, Unset), View(c, u, v, Unset))
    BY <1>4 DEF Turn
  <2> QED BY <2>2, <2>3, <2>4 DEF r
<1> QED BY <1>11, <1>12

-----------------------------------------------------------------------------
(* Actions.                                                                 *)

(* What happens to a request in one step.                                    *)
Turned == \A v \in Ids : ClientView!Step(View(Cur, v, nextId, Unset),
                                         View(Cur, v, nextId, Unset)')

(* An action that becomes a state where every client has had its turn. *)
LEMMA BecomeTurned ==
  ASSUME NEW s, Become(s),
         \A v \in Ids : ClientView!Step(View(Cur, v, nextId, Unset),
                                        View(s, v, nextId', Unset))
  PROVE  Turned
<1> DEFINE t == Cur'
<1>1. /\ t.vb = s.vb /\ t.pending = s.pending /\ t.flipOf = s.flipOf
      /\ t.idle = s.idle /\ t.done = s.done
  BY DEF Become, Cur
<1> HIDE DEF t
<1>2. \A v \in Ids : View(t, v, nextId', Unset) = View(s, v, nextId', Unset)
  BY <1>1 DEF View, Unfinished
<1>3. \A v \in Ids : View(Cur, v, nextId, Unset)' = View(t, v, nextId', Unset)
  BY DEF t, Unset
<1> QED BY <1>2, <1>3 DEF Turned

(* The same, when no request is new. *)
LEMMA TurnTurned ==
  ASSUME NEW s, Become(s), nextId' = nextId, Turn(Cur, s, nextId, Unset, Unset)
  PROVE  Turned
BY BecomeTurned DEF Turn

(* A request is accepted. *)
LEMMA SubmitTurned ==
  ASSUME TypeOK, SoundInv, BookedInv, NEW w \in Windows, NEW p \in Pixmaps \cup {NoPix},
         NEW opt \in OptionRecord, NEW f \in Fences \cup {NoFence},
         NEW wmsc \in Nat, NEW m \in Nat \X Nat, NEW refuse,
         Submit(w, p, opt, f, wmsc, m, refuse)
  PROVE  Turned
<1> DEFINE target == AdjustTimings(opt.async, msc, wmsc, m[1], m[2])
           s == Submitted(Cur, nextId, w, p, opt, f, target, refuse)
<1>1. msc \in Mscs /\ msc \in Nat /\ Cur \in State /\ nextId \in Ids /\ target <= MaxMsc
  BY BoundsAssumption DEF TypeOK, Mscs, Submit
<1>2. target \in Nat
  BY <1>1, AdjustTimingsType DEF OptionRecord
<1>3. target \in Mscs
  <2> HIDE DEF target
  <2> QED BY <1>1, <1>2, BoundsAssumption DEF Mscs
<1>4. Become(s) /\ nextId' = nextId + 1 /\ Serving /\ w \in alive
  BY DEF Submit
<1> HIDE DEF target
<1>5. alive \in SUBSET Windows /\ Homes = alive /\ todo = {}
  BY <1>4 DEF TypeOK, Serving, Homes
<1>6. Booked(Cur, nextId, Unset, alive, alive, {}) /\ Sound(Cur, nextId, Unset)
  BY <1>5 DEF BookedInv, SoundInv
<1>7. \A v \in Ids : ClientView!Step(View(Cur, v, nextId, Unset),
                                     View(s, v, nextId + 1, Unset))
  BY <1>1, <1>3, <1>4, <1>5, <1>6, SubmittedTurn
<1> HIDE DEF s
<1> QED BY <1>4, <1>7, BecomeTurned

(* What touches no request first leaves the turn to what comes after. *)
LEMMA BookTurn ==
  ASSUME NEW s, NEW t, NEW r, NEW n, SameBook(s, t), Turn(t, r, n, Unset, Unset)
  PROVE  Turn(s, r, n, Unset, Unset)
<1>1. \A u \in Ids : SameView(s, t, u, Unset, Unset)
  BY BookView
<1>2. Turn(s, t, n, Unset, Unset)
  BY <1>1, SameTurn
<1> QED BY <1>1, <1>2, TurnTwice

(* Every action takes each request one step of the promise, or leaves it. *)
LEMMA TurnedNext ==
  ASSUME TypeOK, SoundInv, BookedInv, [Next]_vars
  PROVE  Turned
<1>0. /\ msc \in Mscs /\ Cur \in State /\ nextId \in Nat
      /\ alive \in SUBSET Windows /\ Homes \in SUBSET Windows
      /\ Sound(Cur, nextId, Unset)
      /\ Booked(Cur, nextId, Unset, alive, Homes, todo)
  BY BoundsAssumption DEF Mscs, TypeOK, SoundInv, BookedInv, Homes
<1>00. Serving => Booked(Cur, nextId, Unset, alive, alive, {})
  BY <1>0 DEF Serving, Homes
<1>1. CASE ClientRequest
  <2>1. PICK w \in Windows, wmsc \in Targets, m \in Moduli, refuse \in SUBSET Refusable :
          \/ \E p \in Pixmaps, opt \in Options, f \in Fences \cup {NoFence} :
                PresentPixmap(w, p, opt, f, wmsc, m, refuse)
          \/ NotifyMsc(w, wmsc, m, refuse)
    BY <1>1 DEF ClientRequest
  <2>2. wmsc \in Nat /\ m \in Nat \X Nat
    BY InputAssumption
  <2>3. CASE \E p \in Pixmaps, opt \in Options, f \in Fences \cup {NoFence} :
               PresentPixmap(w, p, opt, f, wmsc, m, refuse)
    BY <2>2, <2>3, SubmitTurned, InputAssumption DEF PresentPixmap
  <2>4. CASE NotifyMsc(w, wmsc, m, refuse)
    <3> DEFINE opt == [async |-> m[1] = 0, copy |-> FALSE, update |-> FALSE]
    <3>1. opt \in OptionRecord
      BY DEF OptionRecord
    <3>2. Submit(w, NoPix, opt, NoFence, wmsc, m, refuse)
      BY <2>4 DEF NotifyMsc
    <3> HIDE DEF opt
    <3> QED BY <2>2, <3>1, <3>2, SubmitTurned
  <2> QED BY <2>1, <2>3, <2>4
<1>2. ASSUME NEW e \in Events, NEW at \in 0..MaxMsc, NEW refuse \in SUBSET Refusable,
             VblankEvent(e, at, refuse)
      PROVE  Turned
  <2> DEFINE f == [vbl EXCEPT ![e] = @ - 1]
             s == [Cur EXCEPT !.vbl = f]
             t == EventNotify(s, e[1], at, refuse)
  <2>1. f \in [Events -> Nat]
    <3>1. vbl \in [Events -> Nat] /\ vbl[e] > 0
      BY <1>0, <1>2 DEF Cur, State, VblankEvent
    <3> QED BY <3>1
  <2>2. Become(t) /\ nextId' = nextId /\ Serving
    <3>1. s = [Cur EXCEPT !.vbl[e] = @ - 1]
      BY DEF Cur
    <3> QED BY <1>2, <3>1 DEF VblankEvent
  <2> HIDE DEF f
  <2>3. s \in State /\ SameBook(Cur, s) /\ SameFlips(Cur, s)
    BY <1>0, <2>1 DEF State, SameBook, SameFlip, SameClient, SameName, SameFlips
  <2> HIDE DEF s
  <2>4. Booked(s, nextId, Unset, alive, alive, {}) /\ Sound(s, nextId, Unset)
    BY <1>0, <1>00, <2>2, <2>3, BookedSame, SoundSame
  <2>5. e[1] \in Ids /\ at \in Mscs
    BY BoundsAssumption DEF Events, Mscs
  <2>6. Turn(s, t, nextId, Unset, Unset)
    BY <1>0, <2>3, <2>4, <2>5, EventNotifyTurn
  <2> HIDE DEF t
  <2>7. Turn(Cur, t, nextId, Unset, Unset)
    BY <2>3, <2>6, BookTurn
  <2> QED BY <2>2, <2>7, TurnTurned
<1>3. ASSUME NEW e \in hwFlip, NEW at \in 0..MaxMsc, NEW refuse \in SUBSET Refusable,
             FlipEvent(e, at, refuse)
      PROVE  Turned
  <2> DEFINE f == hwFlip \ {e}
             s == [Cur EXCEPT !.hwFlip = f]
             t == EventNotify(s, e[1], at, refuse)
  <2>1. f \in SUBSET Events /\ e \in Events
    BY <1>0 DEF Cur, State
  <2>2. Become(t) /\ nextId' = nextId /\ Serving
    <3>1. s = [Cur EXCEPT !.hwFlip = @ \ {e}]
      BY DEF Cur
    <3> QED BY <1>3, <3>1 DEF FlipEvent
  <2> HIDE DEF f
  <2>3. s \in State /\ SameBook(Cur, s) /\ SameFlips(Cur, s)
    BY <1>0, <2>1 DEF State, SameBook, SameFlip, SameClient, SameName, SameFlips
  <2> HIDE DEF s
  <2>4. Booked(s, nextId, Unset, alive, alive, {}) /\ Sound(s, nextId, Unset)
    BY <1>0, <1>00, <2>2, <2>3, BookedSame, SoundSame
  <2>5. e[1] \in Ids /\ at \in Mscs
    BY <2>1, BoundsAssumption DEF Events, Mscs
  <2>6. Turn(s, t, nextId, Unset, Unset)
    BY <1>0, <2>3, <2>4, <2>5, EventNotifyTurn
  <2> HIDE DEF t
  <2>7. Turn(Cur, t, nextId, Unset, Unset)
    BY <2>3, <2>6, BookTurn
  <2> QED BY <2>2, <2>7, TurnTurned
<1>4. ASSUME NEW refuse \in SUBSET Refusable, UnflipEvent(refuse)
      PROVE  Turned
  <2> DEFINE n == hwUnflip - 1
             s == [Cur EXCEPT !.hwUnflip = n]
             t == UnflipNotify(s, refuse)
  <2>1. n \in Nat
    <3>1. hwUnflip > 0 /\ hwUnflip \in Nat
      BY <1>0, <1>4 DEF Cur, State, UnflipEvent
    <3> QED BY <3>1
  <2>2. (Become(t) \/ Become(s)) /\ nextId' = nextId /\ Serving
    <3>1. s = [Cur EXCEPT !.hwUnflip = @ - 1]
      BY DEF Cur
    <3> QED BY <1>4, <3>1 DEF UnflipEvent
  <2> HIDE DEF n
  <2>3. s \in State /\ SameBook(Cur, s) /\ SameFlips(Cur, s)
    BY <1>0, <2>1 DEF State, SameBook, SameFlip, SameClient, SameName, SameFlips
  <2> HIDE DEF s
  <2>4. Booked(s, nextId, Unset, alive, alive, {}) /\ Sound(s, nextId, Unset)
    BY <1>0, <1>00, <2>2, <2>3, BookedSame, SoundSame
  <2>5. Turn(s, t, nextId, Unset, Unset)
    BY <1>0, <2>3, <2>4, UnflipNotifyTurn
  <2> HIDE DEF t
  <2>6. Turn(Cur, t, nextId, Unset, Unset)
    BY <2>3, <2>5, BookTurn
  <2>7. Turn(Cur, s, nextId, Unset, Unset)
    BY <2>3, BookView, SameTurn
  <2> QED BY <2>2, <2>6, <2>7, TurnTurned
<1>5. ASSUME NEW refuse \in SUBSET Refusable, ReExecute(refuse)
      PROVE  Turned
  <2> DEFINE v == Max(todo)
             t == Execute(Cur, v, msc, refuse)
  <2>1. v \in Ids /\ v \in todo
    <3>1. todo \in SUBSET Ids /\ todo # {}
      BY <1>5 DEF ReExecute, TypeOK
    <3>2. \E x \in todo : \A y \in todo : x >= y
      BY <3>1, GreatestId
    <3> QED BY <3>1, <3>2 DEF Max
  <2>2. Become(t) /\ nextId' = nextId
    BY <1>5 DEF ReExecute
  <2> HIDE DEF v
  <2>3. Cur.vb[v].queued \/ v = Cur.pending
    <3>1. Entry(Cur, v, nextId, Unset, alive, Homes, todo) /\ v # Unset
      BY <1>0, <2>1 DEF Booked, Ids, Unset
    <3> QED BY <2>1, <3>1 DEF Entry, Reached, Unfinished
  <2>4. Turn(Cur, t, nextId, Unset, Unset)
    BY <1>0, <2>1, <2>3, ExecuteTurn
  <2> HIDE DEF t
  <2> QED BY <2>2, <2>4, TurnTurned
<1>6. ASSUME NEW drop \in BOOLEAN, FreeWindowVblank(drop)
      PROVE  Turned
  <2> DEFINE v == Min(QueuedOn(dying))
             f == [e \in Events |-> IF drop /\ e[1] = v THEN 0 ELSE vbl[e]]
             s == [Cur EXCEPT !.vbl = f]
             t == VblankDestroy(s, v)
  <2>1. v \in Ids /\ Cur.vb[v].queued
    <3>1. QueuedOn(dying) \in SUBSET Nat /\ QueuedOn(dying) # {}
          /\ \A u \in QueuedOn(dying) : u \in Ids /\ Cur.vb[u].queued
      BY <1>6 DEF FreeWindowVblank, QueuedOn, Ids, Cur
    <3> QED BY <3>1, MinIsLeast
  <2>2. Become(t) /\ nextId' = nextId /\ dying # NoWin
    <3>1. s = [Cur EXCEPT !.vbl = [e \in Events |-> IF drop /\ e[1] = v THEN 0 ELSE @[e]]]
      BY DEF Cur
    <3> HIDE DEF s
    <3> QED BY <1>6, <3>1 DEF FreeWindowVblank
  <2> HIDE DEF v
  <2>3. f \in [Events -> Nat]
    BY <1>0 DEF Cur, State
  <2> HIDE DEF f
  <2>4. s \in State /\ SameBook(Cur, s) /\ s.vb = Cur.vb /\ s.pending = Cur.pending
    BY <1>0, <2>3 DEF State, SameBook, SameFlip, SameClient, SameName
  <2> HIDE DEF s
  <2>5. v # Cur.pending
    BY <1>0, <2>1 DEF Sound, Ids, Unset
  <2>6. todo = {}
    BY <2>2 DEF BookedInv
  <2>7. Booked(s, nextId, Unset, alive, Homes, {})
    BY <1>0, <2>4, <2>6, BookedSame
  <2>8. Turn(s, t, nextId, Unset, Unset)
    BY <1>0, <2>1, <2>4, <2>5, <2>7, DestroyedTurn
  <2> HIDE DEF t
  <2>9. Turn(Cur, t, nextId, Unset, Unset)
    BY <2>4, <2>8, BookTurn
  <2> QED BY <2>2, <2>9, TurnTurned
<1>7. CASE FinishDestroy
  <2> DEFINE t == ClearWindowFlip(Cur, dying)
  <2>1. Become(t) /\ nextId' = nextId /\ dying \in Windows
    BY <1>7 DEF FinishDestroy, TypeOK
  <2>2. Turn(Cur, t, nextId, Unset, Unset)
    BY <1>0, <2>1, ClearWindowFlipTurn
  <2> HIDE DEF t
  <2> QED BY <2>1, <2>2, TurnTurned
<1>8. ASSUME NEW f \in Fences, TriggerFence(f) \/ ResetFence(f) \/ DestroyFence(f)
      PROVE  Turned
  <2>1. Become(Cur) /\ nextId' = nextId
    BY <1>8, FenceSteps
  <2> QED BY <2>1, BookView, SameBookSelf, SameTurn, TurnTurned
<1>9. ASSUME NEW w \in Windows, ClipNotify(w) \/ DestroyWindow(w)
      PROVE  Turned
  <2>1. PICK x \in SUBSET Windows : Become(CheckFlipWindow([Cur EXCEPT !.full = x], w))
    BY <1>9, ClipSteps
  <2> DEFINE s == [Cur EXCEPT !.full = x]
             t == CheckFlipWindow(s, w)
  <2>2. s \in State /\ SameBook(Cur, s)
    BY <1>0 DEF State, SameBook, SameFlip, SameClient, SameName
  <2>3. Become(t) /\ nextId' = nextId
    BY <1>9, <2>1 DEF ClipNotify, DestroyWindow
  <2> HIDE DEF s
  <2>4. SameBook(s, t)
    BY <2>2, CheckFlipWindowBook
  <2> HIDE DEF t
  <2>5. SameBook(Cur, t)
    BY <2>2, <2>4, SameBookTwice
  <2> QED BY <2>3, <2>5, BookView, SameTurn, TurnTurned
<1>10. ASSUME NEW p \in Pixmaps, FreePixmap(p)
       PROVE  Turned
  <2> DEFINE s == [Cur EXCEPT !.refs = [refs EXCEPT ![p] = @ - 1]]
  <2>1. Become(s) /\ nextId' = nextId
    BY <1>10 DEF FreePixmap, Become, Cur, server, driver, client
  <2>2. SameBook(Cur, s)
    BY DEF SameBook, SameFlip, SameClient, SameName, Cur
  <2> HIDE DEF s
  <2> QED BY <2>1, <2>2, BookView, SameTurn, TurnTurned
<1>11. CASE CloseScreen
  <2> DEFINE s == IF pending # Unset THEN SetAbortFlip(Cur) ELSE Cur
             u == FlipIdle(s)
             t == Halt(u, "closed")
  <2>1. Become(t) /\ nextId' = nextId /\ Serving
    BY <1>11 DEF CloseScreen
  <2>2. s \in State /\ SameBook(Cur, s)
    <3>1. CASE pending # Unset
      <4>1. Cur.pending # Unset
        BY <3>1 DEF Cur
      <4> QED BY <1>0, <3>1, <4>1, SetAbortFlipType, SetAbortBook
    <3>2. CASE pending = Unset
      BY <1>0, <3>2, SameBookSelf
    <3> QED BY <3>1, <3>2
  <2> HIDE DEF s
  <2>3. Booked(s, nextId, Unset, alive, alive, {})
    BY <1>00, <2>1, <2>2, BookedSame
  <2>4. u \in State /\ Turn(s, u, nextId, Unset, Unset)
    BY <2>2, <2>3, FlipIdleType, FlipIdleTurn DEF Booked
  <2> HIDE DEF u
  <2>5. Turn(Cur, u, nextId, Unset, Unset)
    BY <2>2, <2>4, BookTurn
  <2>6. Turn(Cur, t, nextId, Unset, Unset)
    <3>1. SameBook(u, t)
      BY <2>4, HaltBook
    <3> HIDE DEF t
    <3>2. \A k \in Ids : SameView(u, t, k, Unset, Unset)
      BY <3>1, BookView
    <3>3. Turn(u, t, nextId, Unset, Unset)
      BY <3>2, SameTurn
    <3> QED BY <2>5, <3>2, <3>3, TurnTwice
  <2> HIDE DEF t
  <2> QED BY <2>1, <2>6, TurnTurned
<1>12. CASE Tick \/ UNCHANGED vars
  <2>1. Become(Cur) /\ nextId' = nextId
    BY <1>12 DEF Tick, vars, server, dix, driver, client, Cur, Become
  <2> QED BY <2>1, BookView, SameBookSelf, SameTurn, TurnTurned
<1> QED
  BY <1>1, <1>2, <1>3, <1>4, <1>5, <1>6, <1>7, <1>8, <1>9, <1>10, <1>11, <1>12,
     InputAssumption
  DEF Next, DriverEvent, Loop, Environment

(* The view of a request in a state of the server is what PresentScmd says. *)
LEMMA ViewIsRequest ==
  \A v \in Ids : [phase |-> RequestPhase(v), buffer |-> RequestBuffer(v)]
                   = View(Cur, v, nextId, Unset)
<1> SUFFICES ASSUME NEW v \in Ids
             PROVE  /\ RequestPhase(v) = View(Cur, v, nextId, Unset).phase
                    /\ RequestBuffer(v) = View(Cur, v, nextId, Unset).buffer
  BY DEF View
<1>1. /\ Cur.vb = vb /\ Cur.pending = pending /\ Cur.flipOf = flipOf
      /\ Cur.idle = idle /\ Cur.done = done
  BY DEF Cur
<1>2. Unfinished(Cur, v, Unset) <=> Live(v)
  BY <1>1 DEF Unfinished, Live, Ids, Unset
<1>3. RequestPhase(v) = View(Cur, v, nextId, Unset).phase
  BY <1>1, <1>2 DEF RequestPhase, View
<1>4. RequestBuffer(v) = View(Cur, v, nextId, Unset).buffer
  BY <1>1, <1>2 DEF RequestBuffer, View
<1> QED BY <1>3, <1>4

(* What a client sees is one of the phases of PresentRequests. *)
LEMMA RequestType ==
  TypeOK => \A v \in Ids : [phase |-> RequestPhase(v), buffer |-> RequestBuffer(v)]
                            \in ClientView!Request
<1> SUFFICES ASSUME TypeOK, NEW v \in Ids
             PROVE  [phase |-> RequestPhase(v), buffer |-> RequestBuffer(v)]
                      \in ClientView!Request
  OBVIOUS
<1>1. done[v].mode \in Modes
  BY DEF TypeOK, State, Cur
<1>2. RequestPhase(v) \in ClientView!Phase
  BY <1>1 DEF RequestPhase, ClientView!Phase, Modes
<1>3. RequestBuffer(v) \in ClientView!Buffer
  BY DEF RequestBuffer, ClientView!Buffer
<1> QED BY <1>2, <1>3 DEF ClientView!Request

(* The server keeps every promise of PresentRequests, whatever the driver
   refuses: each of its steps moves each client's request by one promised step
   or not at all, and one buffer at a time is on the screen. *)
THEOREM PromisesImplemented == Spec => ImplementsRequests
<1> DEFINE req == [v \in Ids |-> [phase |-> RequestPhase(v), buffer |-> RequestBuffer(v)]]
           Typed == \A v \in Ids : [phase |-> RequestPhase(v), buffer |-> RequestBuffer(v)]
                                    \in ClientView!Request
           Seen == \A v \in Ids : [phase |-> RequestPhase(v), buffer |-> RequestBuffer(v)]
                                   = View(Cur, v, nextId, Unset)
<1>1. Init => ClientView!Init
  <2> SUFFICES ASSUME Init, NEW v \in Ids
               PROVE  [phase |-> RequestPhase(v), buffer |-> RequestBuffer(v)] = ClientView!New
    BY DEF ClientView!Init
  <2>1. v >= nextId /\ vb[v].kind = "none"
    BY DEF Init, Fresh, Ids
  <2> QED BY <2>1 DEF RequestPhase, RequestBuffer, ClientView!New
<1>2. ASSUME Typed', Seen, Seen', Turned PROVE ClientView!Next
  <2>1. req' \in [Ids -> ClientView!Request]
    BY <1>2
  <2>2. \A v \in Ids : ClientView!Step(req[v], req'[v])
    BY <1>2 DEF Turned
  <2>3. ClientView!OneOnScreen(req')
    BY DEF ClientView!OneOnScreen, RequestBuffer
  <2> QED BY <2>1, <2>2, <2>3 DEF ClientView!Next
<1>3. TypeOK /\ SoundInv /\ BookedInv /\ [Next]_vars
        => TypeOK' /\ SoundInv' /\ BookedInv' /\ Turned
  BY TypeNext, SoundNext, BookedNext, TurnedNext
<1>4. Init => TypeOK /\ SoundInv /\ BookedInv
  BY TypeInit, SoundInit, BookedInit
<1>5. (TypeOK => Typed) /\ Seen
  BY RequestType, ViewIsRequest
<1>6. Typed' /\ Seen /\ Seen' /\ Turned => [ClientView!Next]_req
  BY <1>2
<1> QED
  BY <1>1, <1>3, <1>4, <1>5, <1>6, PTL DEF Spec, ImplementsRequests, ClientView!Spec

(* In every promised step a final phase stays, and a returned buffer. *)
LEMMA StepFinal ==
  ASSUME NEW a \in ClientView!Request, NEW b \in ClientView!Request, ClientView!Step(a, b)
  PROVE  /\ a.phase \in {"copy", "skip", "flip"} => b.phase = a.phase
         /\ a.buffer = "idle" => b.buffer = "idle"
<1>1. CASE a = b
  BY <1>1
<1>2. CASE ClientView!Accept(a, b)
  BY <1>2 DEF ClientView!Accept, ClientView!New
<1>3. CASE ClientView!Copy(a, b)
  BY <1>3 DEF ClientView!Copy, ClientView!New
<1>4. CASE ClientView!Supersede(a, b) \/ ClientView!Skip(a, b)
  BY <1>4 DEF ClientView!Supersede, ClientView!Skip
<1>5. CASE ClientView!Show(a, b)
  BY <1>5 DEF ClientView!Show
<1>6. CASE ClientView!Retire(a, b)
  BY <1>6 DEF ClientView!Retire, ClientView!Request
<1>7. CASE ClientView!Drop(a, b)
  BY <1>7 DEF ClientView!Drop
<1> QED BY <1>1, <1>2, <1>3, <1>4, <1>5, <1>6, <1>7 DEF ClientView!Step

(* So what a client was told is never taken back: a request that completed
   keeps its mode, and a buffer that was returned stays returned, whatever is
   flipped, aborted or destroyed later. *)
THEOREM PromisesKept == Spec => ClientView!Final
<1> DEFINE req == [v \in Ids |-> [phase |-> RequestPhase(v), buffer |-> RequestBuffer(v)]]
           I == req \in [Ids -> ClientView!Request]
           F == \A v \in Ids :
                  /\ req[v].phase \in {"copy", "skip", "flip"} => req'[v].phase = req[v].phase
                  /\ req[v].buffer = "idle" => req'[v].buffer = "idle"
<1>1. ClientView!Init => I
  BY DEF ClientView!Init, ClientView!Request, ClientView!New, ClientView!Phase, ClientView!Buffer
<1>2. I /\ [ClientView!Next]_req => I'
  BY DEF ClientView!Next
<1>3. I /\ [ClientView!Next]_req => [F]_req
  <2> HIDE DEF req
  <2>1. SUFFICES ASSUME I, ClientView!Next, NEW v \in Ids
                 PROVE  /\ req[v].phase \in {"copy", "skip", "flip"}
                             => req'[v].phase = req[v].phase
                        /\ req[v].buffer = "idle" => req'[v].buffer = "idle"
    BY DEF req
  <2>2. req[v] \in ClientView!Request /\ req'[v] \in ClientView!Request
        /\ ClientView!Step(req[v], req'[v])
    BY <2>1 DEF ClientView!Next, req
  <2> QED BY <2>2, StepFinal
<1> QED BY <1>1, <1>2, <1>3, PromisesImplemented, PTL DEF ImplementsRequests, ClientView!Spec, ClientView!Final
==============================================================================
