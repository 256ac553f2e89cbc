-------------------------- MODULE PresentScmdProofs --------------------------
(****************************************************************************)
(* The type invariant of PresentScmd holds for every number of windows,      *)
(* pixmaps, fences and requests, and every contract of the driver.           *)
(*                                                                           *)
(* An action is Become(handler(Cur)), and handlers are operators from state  *)
(* to state, so the proof follows the calls of the code: a lemma for each    *)
(* operator says that it takes a well typed state to a well typed state,     *)
(* citing the lemmas of the operators it calls.                              *)
(****************************************************************************)
EXTENDS PresentScmd, SequenceTheorems, FiniteSetTheorems,
        WellFoundedInduction, TLAPS

(* Every non-empty set of naturals has a least element. *)
LEMMA LeastElement ==
  ASSUME NEW I \in SUBSET Nat, I # {}
  PROVE  \E i \in I : \A j \in I : i <= j
<1> DEFINE R == {ss \in Nat \X Nat : ss[1] < ss[2]}
<1>1. IsWellFoundedOn(R, Nat)
  BY NatLessThanWellFounded, Zenon DEF OpToRel
<1>2. PICK i \in I : \A j \in I : ~ (<<j, i>> \in R)
  <2> HIDE DEF R
  <2> QED BY <1>1, WFMin
<1>3. \A j \in I : ~ (j < i)
  BY <1>2
<1> QED BY <1>3

(* What Min returns: present_free_window_vblank takes the first of its list. *)
LEMMA MinIsLeast ==
  ASSUME NEW I \in SUBSET Nat, I # {}
  PROVE  Min(I) \in I /\ \A j \in I : Min(I) <= j
BY LeastElement DEF Min

(* Every non-empty set of event ids has a greatest: the trigger list is run newest first. *)
LEMMA GreatestId ==
  ASSUME NEW I \in SUBSET Ids, I # {}
  PROVE  \E i \in I : \A j \in I : i >= j
<1> DEFINE J == {MaxReq - i : i \in I}
<1>1. J \in SUBSET Nat /\ J # {}
  <2>1. \A i \in I : MaxReq - i \in Nat
    BY BoundsAssumption DEF Ids
  <2> QED BY <2>1
<1>2. PICK k \in J : \A j \in J : k <= j
  <2> HIDE DEF J
  <2> QED BY <1>1, LeastElement
<1>3. PICK i \in I : k = MaxReq - i
  OBVIOUS
<1>4. ASSUME NEW j \in I PROVE i >= j
  <2>1. MaxReq - j \in J
    OBVIOUS
  <2>2. MaxReq - i <= MaxReq - j
    <3> HIDE DEF J
    <3> QED BY <1>2, <1>3, <2>1
  <2>3. i \in Int /\ j \in Int /\ MaxReq \in Int
    BY <1>3, BoundsAssumption DEF Ids
  <2> QED BY <2>2, <2>3
<1> QED BY <1>3, <1>4

(* Cutting an entry out of a list leaves a list. *)
LEMMA RemoveAtType ==
  ASSUME NEW S, NEW q \in Seq(S), NEW k \in 1..Len(q)
  PROVE  RemoveAt(q, k) \in Seq(S)
<1>1. Len(q) \in Nat
  BY LenProperties
<1>2. SubSeq(q, 1, k - 1) \in Seq(S)
  BY <1>1, SubSeqProperties
<1>3. SubSeq(q, k + 1, Len(q)) \in Seq(S)
  BY <1>1, SubSeqProperties
<1> QED
  BY <1>2, <1>3, ConcatProperties DEF RemoveAt

(* xorg_list_del leaves a list of the same kind of entries. *)
LEMMA RemoveFirstType ==
  ASSUME NEW S, NEW q \in Seq(S), NEW v
  PROVE  RemoveFirst(q, v) \in Seq(S)
<1> DEFINE I == {i \in 1..Len(q) : q[i] = v}
<1>1. CASE ~ \E i \in 1..Len(q) : q[i] = v
  BY <1>1 DEF RemoveFirst
<1>2. CASE \E i \in 1..Len(q) : q[i] = v
  <2>1. RemoveFirst(q, v) = RemoveAt(q, Min(I))
    BY <1>2 DEF RemoveFirst, SelectInSeq
  <2>2. Min(I) \in I
    <3>1. I \in SUBSET Nat /\ I # {}
      BY <1>2, LenProperties
    <3> QED BY <3>1, MinIsLeast
  <2> QED
    BY <2>1, <2>2, RemoveAtType
<1> QED BY <1>1, <1>2

(* The flags of a request. *)
LEMMA FlagType ==
  ASSUME NEW b \in Vblank, NEW x \in BOOLEAN
  PROVE  /\ [b EXCEPT !.queued = x] \in Vblank
         /\ [b EXCEPT !.cb = x] \in Vblank
         /\ [b EXCEPT !.ready = x] \in Vblank
<1>1. [b EXCEPT !.queued = x] \in Vblank
  BY DEF Vblank
<1>2. [b EXCEPT !.cb = x] \in Vblank
  BY DEF Vblank
<1>3. [b EXCEPT !.ready = x] \in Vblank
  BY DEF Vblank
<1> QED
  BY <1>1, <1>2, <1>3

(* Each handler keeps the state well typed: one lemma for each, from the
   leaves of the call graph up.  Taking a request off the queues. *)
LEMMA DequeueType ==
  ASSUME NEW s \in State, NEW v \in Ids
  PROVE  Dequeue(s, v) \in State
<1> DEFINE b == [s.vb[v] EXCEPT !.queued = FALSE]
           f == [s.vb EXCEPT ![v] = b]
           q == RemoveFirst(s.flipQ, v)
           e == s.execQ \ {v}
<1>1. s.vb \in [Ids -> Vblank] /\ s.execQ \in SUBSET Ids /\ s.flipQ \in Seq(Ids)
  BY DEF State
<1>2. b \in Vblank
  <2>1. s.vb[v] \in Vblank
    BY <1>1
  <2> QED BY <2>1, FlagType
<1>3. f \in [Ids -> Vblank]
  BY <1>1, <1>2
<1>4. q \in Seq(Ids)
  BY <1>1, RemoveFirstType
<1>6. e \in SUBSET Ids
  BY <1>1
<1>5. Dequeue(s, v) = [s EXCEPT !.execQ = e, !.flipQ = q, !.vb = f]
  BY DEF Dequeue
<1> HIDE DEF f, q, e
<1> QED BY <1>1, <1>3, <1>4, <1>5, <1>6, ZenonT(30) DEF State

(* Taking a reference. *)
LEMMA HoldPixmapType ==
  ASSUME NEW s \in State, NEW p \in Pixmaps \cup {NoPix}
  PROVE  HoldPixmap(s, p) \in State
<1>1. CASE p = NoPix
  BY <1>1 DEF HoldPixmap
<1>2. CASE p # NoPix
  <2> DEFINE f == [s.refs EXCEPT ![p] = @ + 1]
  <2>1. s.refs \in [Pixmaps -> Int]
    BY DEF State
  <2>2. f \in [Pixmaps -> Int]
    BY <1>2, <2>1
  <2>3. HoldPixmap(s, p) = [s EXCEPT !.refs = f]
    BY <1>2 DEF HoldPixmap
  <2> HIDE DEF f
  <2> QED BY <2>2, <2>3 DEF State
<1> QED BY <1>1, <1>2

(* Dropping a reference. *)
LEMMA DropPixmapType ==
  ASSUME NEW s \in State, NEW p \in Pixmaps \cup {NoPix}
  PROVE  DropPixmap(s, p) \in State
<1>1. CASE p = NoPix
  BY <1>1 DEF DropPixmap
<1>2. CASE p # NoPix
  <2> DEFINE f == [s.refs EXCEPT ![p] = @ - 1]
  <2>1. s.refs \in [Pixmaps -> Int]
    BY DEF State
  <2>2. f \in [Pixmaps -> Int]
    BY <1>2, <2>1
  <2>3. DropPixmap(s, p) = [s EXCEPT !.refs = f]
    BY <1>2 DEF DropPixmap
  <2> HIDE DEF f
  <2> QED BY <2>2, <2>3 DEF State
<1> QED BY <1>1, <1>2

(* Stopping on an assertion. *)
LEMMA HaltType ==
  ASSUME NEW s \in State, NEW why \in {"assert", "null", "closed"}
  PROVE  Halt(s, why) \in State
BY DEF Halt, State

WinPix == [Windows \cup {Root} -> Pixmaps \cup {Screen}]

(* present_set_tree_pixmap gives windows only pixmaps or the screen's. *)
LEMMA SetTreePixmapType ==
  ASSUME NEW wp \in WinPix, NEW w \in Windows \cup {Root}, NEW expected,
         NEW new \in Pixmaps \cup {Screen}
  PROVE  SetTreePixmap(wp, w, expected, new) \in WinPix
<1>1. CASE w = Root
  BY <1>1 DEF SetTreePixmap, WinPix
<1>2. CASE w # Root
  <2>1. [wp EXCEPT ![w] = new] \in WinPix
    BY DEF WinPix
  <2> QED BY <1>2, <2>1 DEF SetTreePixmap
<1> QED BY <1>1, <1>2

(* The fields of a well typed state. *)
LEMMA FieldTypes ==
  ASSUME NEW s \in State
  PROVE  /\ s.vb \in [Ids -> Vblank] /\ s.execQ \in SUBSET Ids
         /\ s.flipQ \in Seq(Ids) /\ s.pending \in Ids \cup {Unset}
         /\ s.flipWin \in Windows \cup {NoWin} /\ s.flipPix \in Pixmaps \cup {NoPix}
         /\ s.winPix \in WinPix /\ s.refs \in [Pixmaps -> Int]
         /\ s.idle \in [Ids -> Nat] /\ s.hwUnflip \in Nat
         /\ s.vbl \in [Events -> Nat] /\ s.hwFlip \in SUBSET Events
BY DEF State, WinPix

(* One vblank of a well typed state. *)
LEMMA OneVbType ==
  ASSUME NEW s \in State, NEW v \in Ids
  PROVE  s.vb[v] \in Vblank
BY FieldTypes

(* A pending flip is a request. *)
LEMMA PendingType ==
  ASSUME NEW s \in State, s.pending # Unset
  PROVE  s.pending \in Ids /\ s.vb[s.pending] \in Vblank
BY FieldTypes

(* Updates of one field keep the type: the windows' pixmaps, *)
LEMMA SetWinPix ==
  ASSUME NEW s \in State, NEW wp \in WinPix
  PROVE  [s EXCEPT !.winPix = wp] \in State
BY DEF State, WinPix

(* all vblanks, *)
LEMMA SetVb ==
  ASSUME NEW s \in State, NEW f \in [Ids -> Vblank]
  PROVE  [s EXCEPT !.vb = f] \in State
BY DEF State

(* one vblank. *)
LEMMA SetOneVb ==
  ASSUME NEW s \in State, NEW v \in Ids, NEW b \in Vblank
  PROVE  [s EXCEPT !.vb[v] = b] \in State
<1> DEFINE f == [s.vb EXCEPT ![v] = b]
<1>1. f \in [Ids -> Vblank]
  BY FieldTypes
<1>2. [s EXCEPT !.vb[v] = b] = [s EXCEPT !.vb = f]
  OBVIOUS
<1> QED BY <1>1, <1>2, SetVb

(* present_restore_screen_pixmap. *)
LEMMA RestoreScreenPixmapType ==
  ASSUME NEW s \in State
  PROVE  RestoreScreenPixmap(s) \in State
<1> DEFINE fw == IF s.pending # Unset THEN s.vb[s.pending].win ELSE s.flipWin
           fp == IF s.pending # Unset THEN s.vb[s.pending].pix ELSE s.flipPix
           t  == IF fp = NoPix THEN Halt(s, "assert") ELSE s
           w1 == IF fw # NoWin THEN SetTreePixmap(t.winPix, fw, fp, Screen)
                               ELSE t.winPix
           w2 == SetTreePixmap(w1, Root, NoPix, Screen)
<1>1. t \in State
  BY HaltType
<1>2. fw \in Windows \cup {NoWin}
  BY PendingType, FieldTypes DEF Vblank
<1> HIDE DEF fw, t
<1>3. t.winPix \in WinPix
  BY <1>1, FieldTypes
<1>4. w1 \in WinPix
  BY <1>2, <1>3, SetTreePixmapType
<1> HIDE DEF w1
<1>5. w2 \in WinPix
  BY <1>4, SetTreePixmapType
<1>6. RestoreScreenPixmap(s) = [t EXCEPT !.winPix = w2]
  BY DEF RestoreScreenPixmap, t, w1, fw
<1> HIDE DEF w2
<1> QED BY <1>1, <1>5, <1>6, SetWinPix

(* It touches no vblank and not the pending flip. *)
LEMMA RestoreKeeps ==
  ASSUME NEW s \in State
  PROVE  /\ RestoreScreenPixmap(s).vb = s.vb
         /\ RestoreScreenPixmap(s).pending = s.pending
         /\ RestoreScreenPixmap(s).hwUnflip = s.hwUnflip
BY DEF RestoreScreenPixmap, Halt, State

(* present_set_abort_flip. *)
LEMMA SetAbortFlipType ==
  ASSUME NEW s \in State, s.pending # Unset
  PROVE  SetAbortFlip(s) \in State
<1> DEFINE t == RestoreScreenPixmap(s)
           b == [s.vb[s.pending] EXCEPT !.abort = TRUE]
<1>1. t \in State /\ t.vb = s.vb
  BY RestoreScreenPixmapType, RestoreKeeps
<1>2. s.pending \in Ids /\ b \in Vblank
  BY PendingType DEF Vblank
<1>3. [t EXCEPT !.vb[s.pending].abort = TRUE] = [t EXCEPT !.vb[s.pending] = b]
  BY <1>1
<1>4. SetAbortFlip(s) \in {s, [t EXCEPT !.vb[s.pending] = b]}
  BY <1>3 DEF SetAbortFlip
<1> HIDE DEF t, b
<1> QED BY <1>1, <1>2, <1>4, SetOneVb

(* It leaves every vblank's window and pixmap, and the pending flip. *)
LEMMA SetAbortFlipKeeps ==
  ASSUME NEW s \in State, s.pending # Unset
  PROVE  /\ SetAbortFlip(s).pending = s.pending
         /\ SetAbortFlip(s).vb[s.pending] \in Vblank
<1>1. SetAbortFlip(s).pending = s.pending
  BY RestoreKeeps DEF SetAbortFlip
<1>2. SetAbortFlip(s) \in State
  BY SetAbortFlipType
<1> HIDE DEF SetAbortFlip
<1> QED BY <1>1, <1>2, PendingType

(* present_unflip. *)
LEMMA UnflipType ==
  ASSUME NEW s \in State
  PROVE  Unflip(s) \in State
<1> DEFINE t == IF s.unflip \/ s.pending # Unset THEN Halt(s, "assert") ELSE s
           r == RestoreScreenPixmap(t)
<1>1. t \in State
  BY HaltType
<1> HIDE DEF t
<1>2. r \in State
  BY <1>1, RestoreScreenPixmapType
<1>3. Unflip(s) = [r EXCEPT !.unflip = TRUE, !.hwUnflip = @ + 1]
  BY DEF Unflip, t
<1> HIDE DEF r
<1>4. r.hwUnflip + 1 \in Nat
  BY <1>2, FieldTypes
<1> DEFINE n == r.hwUnflip + 1
<1>5. Unflip(s) = [r EXCEPT !.unflip = TRUE, !.hwUnflip = n]
  BY <1>3
<1> HIDE DEF n
<1> QED BY <1>2, <1>4, <1>5, ZenonT(30) DEF State, n

(* present_pixmap_idle. *)
LEMMA PixmapIdleType ==
  ASSUME NEW s \in State, NEW v
  PROVE  PixmapIdle(s, v) \in State
<1> DEFINE f == [s.idle EXCEPT ![v] = @ + 1]
<1>1. f \in [Ids -> Nat]
  <2>1. s.idle \in [Ids -> Nat]
    BY FieldTypes
  <2>2. CASE v \in Ids
    BY <2>1, <2>2
  <2>3. CASE v \notin Ids
    BY <2>1, <2>3
  <2> QED BY <2>2, <2>3
<1>2. PixmapIdle(s, v) = [s EXCEPT !.idle = f]
  BY DEF PixmapIdle
<1> HIDE DEF f
<1> QED BY <1>1, <1>2 DEF State

(* present_vblank_notify. *)
LEMMA VblankNotifyType ==
  ASSUME NEW s \in State, NEW v \in Ids, NEW mode \in Modes, NEW now \in Mscs
  PROVE  VblankNotify(s, v, mode, now) \in State
<1> DEFINE d == [n |-> s.done[v].n + 1, mode |-> mode, early |-> now < s.vb[v].target]
           f == [s.done EXCEPT ![v] = d]
<1>1. s.done \in [Ids -> [n : Nat, mode : Modes, early : BOOLEAN]]
  BY DEF State
<1>2. d \in [n : Nat, mode : Modes, early : BOOLEAN]
  BY <1>1
<1> HIDE DEF d
<1>3. f \in [Ids -> [n : Nat, mode : Modes, early : BOOLEAN]]
  BY <1>1, <1>2
<1>4. VblankNotify(s, v, mode, now) \in {s, [s EXCEPT !.done = f]}
  BY DEF VblankNotify, d
<1> HIDE DEF f
<1>5. [s EXCEPT !.done = f] \in State
  BY <1>3 DEF State
<1> QED BY <1>4, <1>5

(* Dropping a reference touches no vblank. *)
LEMMA DropPixmapKeeps ==
  ASSUME NEW s \in State, NEW p
  PROVE  DropPixmap(s, p).vb = s.vb
BY DEF DropPixmap, State

(* Leaving the queues keeps the other fields of the vblank. *)
LEMMA DequeueKeeps ==
  ASSUME NEW s \in State, NEW v \in Ids
  PROVE  /\ Dequeue(s, v).vb[v] = [s.vb[v] EXCEPT !.queued = FALSE]
         /\ Dequeue(s, v).vb[v] \in Vblank
         /\ Dequeue(s, v).pending = s.pending
<1>1. Dequeue(s, v) \in State
  BY DequeueType
<1>2. Dequeue(s, v).pending = s.pending
  BY DEF Dequeue, State
<1>3. v \in DOMAIN s.vb
  BY FieldTypes
<1>4. Dequeue(s, v).vb[v] = [s.vb[v] EXCEPT !.queued = FALSE]
  BY <1>3 DEF Dequeue, State
<1> QED BY <1>1, <1>2, <1>4, FieldTypes

(* A freed record is a vblank. *)
LEMMA FreshType ==
  ASSUME NEW b \in Vblank
  PROVE  [Fresh EXCEPT !.win = b.win, !.kind = b.kind, !.target = b.target,
                       !.update = b.update] \in Vblank
<1>1. Fresh \in Vblank
  <2> 0 \in Mscs
    BY BoundsAssumption DEF Mscs
  <2> QED BY DEF Fresh, Vblank
<1>2. b.win \in Windows \cup {NoWin} /\ b.kind \in {"none", "pixmap", "msc"}
      /\ b.target \in Mscs /\ b.update \in BOOLEAN
  BY DEF Vblank
<1> QED BY <1>1, <1>2 DEF Vblank

(* present_vblank_destroy. *)
LEMMA VblankDestroyType ==
  ASSUME NEW s \in State, NEW v \in Ids
  PROVE  VblankDestroy(s, v) \in State
<1> DEFINE b == s.vb[v]
           t == DropPixmap(s, b.pix)
           u == Dequeue(t, v)
           c == [Fresh EXCEPT !.win = b.win, !.kind = b.kind,
                              !.target = b.target, !.update = b.update]
<1>1. b \in Vblank
  BY FieldTypes
<1>2. t \in State
  BY <1>1, DropPixmapType DEF Vblank
<1>3. u \in State
  BY <1>2, DequeueType
<1>4. c \in Vblank
  BY <1>1, FreshType
<1>5. VblankDestroy(s, v) = [u EXCEPT !.vb[v] = c]
  BY DEF VblankDestroy
<1> HIDE DEF u, c
<1> QED BY <1>3, <1>4, <1>5, SetOneVb

(* Asking the driver for the MSC of exec_msc. *)
LEMMA QueueVblankType ==
  ASSUME NEW s \in State, NEW v \in Ids
  PROVE  QueueVblank(s, v) \in State
<1> DEFINE f == [s.vbl EXCEPT ![<<v, s.vb[v].exec>>] = @ + 1]
<1>1. f \in [Events -> Nat]
  <2>1. s.vbl \in [Events -> Nat] /\ s.vb[v] \in Vblank
    BY FieldTypes
  <2>2. <<v, s.vb[v].exec>> \in Events
    BY <2>1 DEF Vblank, Events
  <2> QED BY <2>1, <2>2
<1>2. QueueVblank(s, v) = [s EXCEPT !.vbl = f]
  BY DEF QueueVblank
<1> HIDE DEF f
<1> QED BY <1>1, <1>2 DEF State

(* present_execute_post. *)
LEMMA ExecutePostType ==
  ASSUME NEW s \in State, NEW v \in Ids, NEW now \in Mscs
  PROVE  ExecutePost(s, v, now) \in State
<1> DEFINE mode == IF s.vb[v].kind = "pixmap" /\ s.vb[v].pix = NoPix
                   THEN "skip" ELSE "copy"
<1>1. mode \in Modes
  BY DEF Modes
<1>2. ExecutePost(s, v, now) = VblankDestroy(VblankNotify(s, v, mode, now), v)
  BY DEF ExecutePost
<1> QED BY <1>1, <1>2, VblankNotifyType, VblankDestroyType

(* present_execute_copy. *)
LEMMA ExecuteCopyType ==
  ASSUME NEW s \in State, NEW v \in Ids, NEW now \in Mscs, NEW refuse
  PROVE  ExecuteCopy(s, v, now, refuse) \in State
<1> DEFINE t == QueueVblank(s, v)
           b == [t.vb[v] EXCEPT !.queued = TRUE]
           x == t.execQ \cup {v}
           u == [t EXCEPT !.execQ = x]
<1>1. t \in State
  BY QueueVblankType
<1>2. b \in Vblank /\ x \in SUBSET Ids
  <2>1. t.vb[v] \in Vblank /\ t.execQ \in SUBSET Ids
    BY <1>1, FieldTypes
  <2> HIDE DEF t
  <2> QED BY <2>1 DEF Vblank
<1>3. u \in State
  <2> HIDE DEF t, x
  <2> QED BY <1>1, <1>2 DEF State
<1>4. [t EXCEPT !.execQ = @ \cup {v}, !.vb[v].queued = TRUE] = [u EXCEPT !.vb[v] = b]
  BY <1>1 DEF State
<1>5. ExecuteCopy(s, v, now, refuse)
        \in {[u EXCEPT !.vb[v] = b], ExecutePost(PixmapIdle(s, v), v, now)}
  BY <1>4 DEF ExecuteCopy
<1> HIDE DEF u, b
<1> QED BY <1>2, <1>3, <1>5, SetOneVb, PixmapIdleType, ExecutePostType

(* The abort or unflip that precedes a copy to the flipping window. *)
LEMMA StopFlippingType ==
  ASSUME NEW s \in State, NEW w
  PROVE  StopFlipping(s, w) \in State
BY SetAbortFlipType, UnflipType DEF StopFlipping

(* Leaving a callback with the wait fence. *)
LEMMA AwaitFenceType ==
  ASSUME NEW s \in State, NEW v \in Ids
  PROVE  AwaitFence(s, v) \in State
<1> DEFINE b == [s.vb[v] EXCEPT !.cb = TRUE]
<1>1. b \in Vblank
  <2>1. s.vb[v] \in Vblank
    BY OneVbType
  <2> QED BY <2>1, FlagType
<1>2. AwaitFence(s, v) = [s EXCEPT !.vb[v] = b]
  BY DEF AwaitFence
<1> HIDE DEF b
<1> QED BY <1>1, <1>2, SetOneVb

(* Waiting for the previous flip or unflip. *)
LEMMA DeferFlipType ==
  ASSUME NEW s \in State, NEW v \in Ids
  PROVE  DeferFlip(s, v) \in State
<1> DEFINE b == [s.vb[v] EXCEPT !.ready = TRUE]
           e == s.execQ \ {v}
           q == Append(RemoveFirst(s.flipQ, v), v)
           t == [s EXCEPT !.execQ = e, !.flipQ = q]
<1>1. b \in Vblank
  <2>1. s.vb[v] \in Vblank
    BY OneVbType
  <2> QED BY <2>1, FlagType
<1>2. e \in SUBSET Ids
  BY FieldTypes
<1>3. q \in Seq(Ids)
  BY FieldTypes, RemoveFirstType, AppendProperties
<1>4. DeferFlip(s, v) = [t EXCEPT !.vb[v] = b]
  <2> HIDE DEF e, q
  <2> QED BY DEF DeferFlip, State, e, q
<1>5. t \in State
  <2> HIDE DEF e, q
  <2> QED BY <1>2, <1>3 DEF State
<1> HIDE DEF t, b
<1> QED BY <1>1, <1>4, <1>5, SetOneVb

(* Handing a flip to the driver. *)
LEMMA StartFlipType ==
  ASSUME NEW s \in State, NEW v \in Ids, msc \in Mscs,
         s.vb[v].win # NoWin, s.vb[v].pix # NoPix
  PROVE  StartFlip(s, v) \in State
<1> DEFINE b   == s.vb[v]
           due == IF b.sync /\ msc < MaxMsc THEN msc + 1 ELSE msc
           wp0 == IF s.flipWin \notin {NoWin, b.win}
                  THEN SetTreePixmap(s.winPix, s.flipWin, s.flipPix, Screen)
                  ELSE s.winPix
           wp1 == SetTreePixmap(wp0, b.win, NoPix, b.pix)
           wp2 == SetTreePixmap(wp1, Root, NoPix, b.pix)
           q   == <<v>> \o s.flipQ
           h   == s.hwFlip \cup {<<v, due>>}
<1>1. b.win \in Windows /\ b.pix \in Pixmaps
  BY OneVbType DEF Vblank
<1>2. wp0 \in WinPix
  <2>1. s.winPix \in WinPix /\ s.flipWin \in Windows \cup {NoWin}
    BY FieldTypes
  <2> QED BY <2>1, SetTreePixmapType
<1> HIDE DEF wp0
<1>3. wp1 \in WinPix
  BY <1>1, <1>2, SetTreePixmapType
<1> HIDE DEF wp1
<1>4. wp2 \in WinPix
  BY <1>1, <1>3, SetTreePixmapType
<1>5. q \in Seq(Ids)
  <2>1. <<v>> \in Seq(Ids) /\ s.flipQ \in Seq(Ids)
    BY FieldTypes
  <2> QED BY <2>1, ConcatProperties
<1>6. h \in SUBSET Events
  <2>1. due \in Mscs
    BY BoundsAssumption DEF Mscs
  <2> HIDE DEF due
  <2> QED BY <2>1, FieldTypes DEF Events
<1>7. StartFlip(s, v) = [s EXCEPT !.pending = v, !.flipQ = q, !.hwFlip = h,
                                   !.winPix = wp2]
  BY DEF StartFlip, wp0, wp1
<1> HIDE DEF wp2, q, h
<1>8. wp2 \in [Windows \cup {Root} -> Pixmaps \cup {Screen}]
  BY <1>4 DEF WinPix
<1>9. [s EXCEPT !.pending = v, !.flipQ = q, !.hwFlip = h, !.winPix = wp2] \in State
  BY <1>5, <1>6, <1>8 DEF State
<1> QED BY <1>7, <1>9

(* A refused flip becomes a copy at its own target. *)
LEMMA FlipRefusedType ==
  ASSUME NEW s \in State, NEW v \in Ids
  PROVE  FlipRefused(s, v) \in State
<1> DEFINE b == [s.vb[v] EXCEPT !.flip = FALSE, !.exec = s.vb[v].target]
<1>1. b \in Vblank
  <2>1. s.vb[v] \in Vblank
    BY FieldTypes
  <2>2. s.vb[v].target \in Mscs
    BY <2>1 DEF Vblank
  <2> QED BY <2>1, <2>2 DEF Vblank
<1>2. FlipRefused(s, v) = [s EXCEPT !.vb[v] = b]
  BY DEF FlipRefused, State
<1> HIDE DEF b
<1> QED BY <1>1, <1>2, SetOneVb

(* The second half of present_execute: flip or copy. *)
LEMMA PresentType ==
  ASSUME NEW s \in State, NEW v \in Ids, NEW now \in Mscs, NEW refuse, msc \in Mscs,
         s.vb[v].win # NoWin, s.vb[v].pix # NoPix
  PROVE  Present(s, v, now, refuse) \in State
<1> DEFINE t == IF s.vb[v].flip THEN FlipRefused(s, v) ELSE s
<1>1. t \in State
  BY FlipRefusedType
<1>2. Present(s, v, now, refuse)
        \in {StartFlip(s, v), ExecuteCopy(StopFlipping(t, s.vb[v].win), v, now, refuse)}
  BY DEF Present
<1> HIDE DEF t
<1> QED BY <1>1, <1>2, StartFlipType, StopFlippingType, ExecuteCopyType

(* present_execute, whole. *)
LEMMA ExecuteType ==
  ASSUME NEW s \in State, NEW v \in Ids, NEW now \in Mscs, NEW refuse, msc \in Mscs
  PROVE  Execute(s, v, now, refuse) \in State
<1>1. CASE s.vb[v].win = NoWin
  BY <1>1, HaltType DEF Execute
<1>2. CASE s.vb[v].win # NoWin
  <2> DEFINE t == Dequeue(s, v)
  <2>1. t \in State /\ t.vb[v].win = s.vb[v].win /\ t.vb[v].pix = s.vb[v].pix
    <3>1. s.vb[v] \in Vblank
      BY FieldTypes
    <3>2. t.vb[v] = [s.vb[v] EXCEPT !.queued = FALSE]
      BY DequeueKeeps
    <3> QED BY <3>1, <3>2, DequeueType DEF Vblank
  <2>2. CASE Requeues(s, v, now, refuse)
    BY <1>2, <2>2, QueueVblankType DEF Execute
  <2>3. CASE ~Requeues(s, v, now, refuse) /\ WaitsForFence(s, v)
    BY <1>2, <2>3, AwaitFenceType DEF Execute
  <2>4. CASE ~Requeues(s, v, now, refuse) /\ ~WaitsForFence(s, v) /\ MustDefer(s, v)
    BY <1>2, <2>4, DeferFlipType DEF Execute
  <2>5. CASE /\ ~Requeues(s, v, now, refuse) /\ ~WaitsForFence(s, v)
             /\ ~MustDefer(s, v)
    <3> HIDE DEF t
    <3>1. CASE s.vb[v].pix # NoPix
      <4>1. Execute(s, v, now, refuse) = Present(t, v, now, refuse)
        BY <1>2, <2>5, <3>1 DEF Execute, t
      <4> QED BY <1>2, <2>1, <3>1, <4>1, PresentType
    <3>2. CASE s.vb[v].pix = NoPix
      <4>1. Execute(s, v, now, refuse) = ExecutePost(t, v, now)
        BY <1>2, <2>5, <3>2 DEF Execute, t
      <4> QED BY <2>1, <4>1, ExecutePostType
    <3> QED BY <3>1, <3>2
  <2> QED
    BY <2>2, <2>3, <2>4, <2>5
<1> QED BY <1>1, <1>2

(* present_flip_try_ready. *)
LEMMA FlipTryReadyType ==
  ASSUME NEW s \in State, NEW refuse, msc \in Mscs
  PROVE  FlipTryReady(s, refuse) \in State
<1> DEFINE I == {i \in 1..Len(s.flipQ) : s.vb[s.flipQ[i]].queued}
           i0 == IF I # {} THEN Min(I) ELSE 0
<1>1. FlipTryReady(s, refuse) =
        IF i0 = 0 THEN s ELSE Execute(s, s.flipQ[i0], msc, refuse)
  BY SMTT(20) DEF FlipTryReady, SelectInSeq
<1>2. i0 # 0 => s.flipQ[i0] \in Ids
  <2>1. s.flipQ \in Seq(Ids)
    BY FieldTypes
  <2>2. I \in SUBSET Nat
    BY <2>1, LenProperties
  <2>3. I # {} => Min(I) \in I
    BY <2>2, MinIsLeast
  <2> QED
    BY <2>1, <2>3, ElementOfSeq
<1> HIDE DEF i0
<1> QED BY <1>1, <1>2, ExecuteType

(* present_flip_idle. *)
LEMMA FlipIdleType ==
  ASSUME NEW s \in State
  PROVE  FlipIdle(s) \in State
<1> DEFINE t == DropPixmap(PixmapIdle(s, s.flipOf), s.flipPix)
<1>1. t \in State
  BY PixmapIdleType, DropPixmapType, FieldTypes
<1>2. FlipIdle(s) \in {s, [t EXCEPT !.flipWin = NoWin, !.flipOf = Unset, !.flipPix = NoPix]}
  BY DEF FlipIdle
<1> HIDE DEF t
<1>3. [t EXCEPT !.flipWin = NoWin, !.flipOf = Unset, !.flipPix = NoPix] \in State
  BY <1>1 DEF State
<1> QED BY <1>2, <1>3

(* The move of a completed flip to the screen. *)
LEMMA TakeFlipType ==
  ASSUME NEW s \in State, NEW v \in Ids
  PROVE  TakeFlip(s, v) \in State
<1> DEFINE b == [s.vb[v] EXCEPT !.pix = NoPix]
           q == RemoveFirst(s.flipQ, v)
           w == s.vb[v].win
           p == s.vb[v].pix
           t == [s EXCEPT !.flipQ = q, !.flipOf = v, !.flipWin = w, !.flipPix = p,
                          !.pending = Unset]
<1>1. b \in Vblank /\ w \in Windows \cup {NoWin} /\ p \in Pixmaps \cup {NoPix}
  BY OneVbType DEF Vblank
<1>2. q \in Seq(Ids)
  BY FieldTypes, RemoveFirstType
<1>3. t \in State
  <2> HIDE DEF q, w, p
  <2> QED BY <1>1, <1>2 DEF State
<1>4. TakeFlip(s, v) = [t EXCEPT !.vb[v] = b]
  <2> HIDE DEF q, w, p
  <2> QED BY ZenonT(30) DEF TakeFlip, State, q, w, p
<1> HIDE DEF t, b
<1> QED BY <1>1, <1>3, <1>4, SetOneVb

(* present_flip_notify. *)
LEMMA FlipNotifyType ==
  ASSUME NEW s \in State, NEW v \in Ids, NEW now \in Mscs, NEW refuse, msc \in Mscs
  PROVE  FlipNotify(s, v, now, refuse) \in State
<1> DEFINE t == TakeFlip(FlipIdle(s), v)
           u == IF s.vb[v].abort THEN Unflip(t) ELSE t
           x == VblankDestroy(VblankNotify(u, v, "flip", now), v)
<1>1. t \in State
  BY FlipIdleType, TakeFlipType
<1> HIDE DEF t
<1>2. u \in State
  BY <1>1, UnflipType
<1> HIDE DEF u
<1>3. x \in State
  BY <1>2, VblankNotifyType, VblankDestroyType DEF Modes
<1>4. FlipNotify(s, v, now, refuse) \in {Halt(s, "assert"), FlipTryReady(x, refuse)}
  BY DEF FlipNotify, t, u
<1> HIDE DEF x
<1> QED BY <1>3, <1>4, HaltType, FlipTryReadyType

(* The end of an unflip. *)
LEMMA UnflipNotifyType ==
  ASSUME NEW s \in State, NEW refuse, msc \in Mscs
  PROVE  UnflipNotify(s, refuse) \in State
<1> DEFINE t == [s EXCEPT !.unflip = FALSE]
<1>1. t \in State
  BY DEF State
<1>2. UnflipNotify(s, refuse) = FlipTryReady(FlipIdle(t), refuse)
  BY DEF UnflipNotify
<1> HIDE DEF t
<1> QED BY <1>1, <1>2, FlipIdleType, FlipTryReadyType

(* present_event_notify, whatever the id names. *)
LEMMA EventNotifyType ==
  ASSUME NEW s \in State, NEW v \in Ids, NEW now \in Mscs, NEW refuse, msc \in Mscs
  PROVE  EventNotify(s, v, now, refuse) \in State
BY ExecuteType, FlipNotifyType DEF EventNotify

(* The part of present_check_flip_window about the screen. *)
LEMMA StopLostFlipType ==
  ASSUME NEW s \in State, NEW w
  PROVE  StopLostFlip(s, w) \in State
BY SetAbortFlipType, UnflipType DEF StopLostFlip

(* A queued request that loses its flip asks for an MSC in range. *)
LEMMA LoseFlipType ==
  ASSUME NEW b \in Vblank
  PROVE  LoseFlip(b) \in Vblank
<1> DEFINE e == IF b.sync THEN b.target ELSE b.exec
<1>1. e \in Mscs
  BY DEF Vblank
<1>2. LoseFlip(b) = [b EXCEPT !.flip = FALSE, !.exec = e]
  BY DEF LoseFlip
<1> HIDE DEF e
<1> QED BY <1>1, <1>2 DEF Vblank

(* The part of present_check_flip_window about queued requests. *)
LEMMA RecheckQueuedType ==
  ASSUME NEW s \in State, NEW w
  PROVE  RecheckQueued(s, w) \in State
<1> DEFINE f == [v \in Ids |->
                   IF s.vb[v].queued /\ s.vb[v].win = w /\ s.vb[v].flip
                      /\ ~CheckFlip(s, w, s.vb[v].pix)
                   THEN LoseFlip(s.vb[v]) ELSE s.vb[v]]
<1>1. f \in [Ids -> Vblank]
  BY OneVbType, LoseFlipType
<1>2. RecheckQueued(s, w) = [s EXCEPT !.vb = f]
  BY DEF RecheckQueued
<1> HIDE DEF f
<1> QED BY <1>1, <1>2, SetVb

(* present_check_flip_window. *)
LEMMA CheckFlipWindowType ==
  ASSUME NEW s \in State, NEW w
  PROVE  CheckFlipWindow(s, w) \in State
BY StopLostFlipType, RecheckQueuedType DEF CheckFlipWindow

(* present_clear_window_flip. *)
LEMMA ClearWindowFlipType ==
  ASSUME NEW s \in State, NEW w
  PROVE  ClearWindowFlip(s, w) \in State
<1> DEFINE a == SetAbortFlip(s)
           b == [a.vb[s.pending] EXCEPT !.win = NoWin]
           t == IF s.pending # Unset /\ s.vb[s.pending].win = w
                THEN [SetAbortFlip(s) EXCEPT !.vb[s.pending].win = NoWin] ELSE s
           r == RestoreScreenPixmap(t)
<1>1. t \in State
  <2>1. CASE s.pending # Unset
    <3>1. a \in State /\ s.pending \in Ids /\ a.vb[s.pending] \in Vblank
      BY <2>1, SetAbortFlipType, SetAbortFlipKeeps, PendingType
    <3>2. b \in Vblank
      <4> HIDE DEF a
      <4> QED BY <3>1 DEF Vblank
    <3>3. t \in {s, [a EXCEPT !.vb[s.pending] = b]}
      OBVIOUS
    <3> HIDE DEF a, b, t
    <3> QED BY <3>1, <3>2, <3>3, SetOneVb
  <2>2. CASE s.pending = Unset
    BY <2>2
  <2> QED BY <2>1, <2>2
<1> HIDE DEF t
<1>2. r \in State
  BY <1>1, RestoreScreenPixmapType
<1>3. ClearWindowFlip(s, w) \in {t, [r EXCEPT !.flipWin = NoWin]}
  BY DEF ClearWindowFlip, t
<1> HIDE DEF r
<1>4. [r EXCEPT !.flipWin = NoWin] \in State
  BY <1>2 DEF State
<1> QED BY <1>1, <1>3, <1>4

(* present_adjust_timings returns an MSC, for every modulus. *)
LEMMA AdjustTimingsType ==
  ASSUME NEW async \in BOOLEAN, NEW now \in Nat, NEW target \in Nat,
         NEW d \in Nat, NEW r \in Nat
  PROVE  AdjustTimings(async, now, target, d, r) \in Nat
<1>1. CASE target > now \/ d = 0
  BY <1>1 DEF AdjustTimings
<1>2. CASE ~(target > now \/ d = 0)
  <2> DEFINE t == now - (now % d) + r
  <2>1. now % d \in 0..(d - 1) /\ now = d * (now \div d) + (now % d) /\ now \div d \in Nat
    BY <1>2
  <2>2. d * (now \div d) \in Nat
    BY <2>1
  <2>3. t \in Nat
    BY <2>1, <2>2
  <2>4. AdjustTimings(async, now, target, d, r) \in {t, t + d}
    BY <1>2 DEF AdjustTimings
  <2> QED BY <2>3, <2>4
<1> QED BY <1>1, <1>2

(* Scrapping any set of requests at once. *)
LEMMA ScrapType ==
  ASSUME NEW s \in State, NEW old \in SUBSET Ids
  PROVE  Scrap(s, old) \in State
<1> DEFINE i == [v \in Ids |-> IF v \in old THEN s.idle[v] + 1 ELSE s.idle[v]]
           n(p) == Cardinality({v \in old : s.vb[v].pix = p})
           f == [p \in Pixmaps |-> s.refs[p] - n(p)]
           g == [v \in Ids |-> IF v \in old
                   THEN [s.vb[v] EXCEPT !.pix = NoPix, !.flip = FALSE] ELSE s.vb[v]]
<1>1. i \in [Ids -> Nat]
  BY FieldTypes
<1>2. f \in [Pixmaps -> Int]
  <2>1. \A p \in Pixmaps : n(p) \in Nat
    <3>1. IsFiniteSet(Ids)
      BY FS_Interval, BoundsAssumption DEF Ids
    <3> QED BY <3>1, FS_Subset, FS_CardinalityType
  <2> HIDE DEF n
  <2> QED BY <2>1, FieldTypes
<1>3. g \in [Ids -> Vblank]
  <2>1. \A v \in Ids : [s.vb[v] EXCEPT !.pix = NoPix, !.flip = FALSE] \in Vblank
    <3>1. TAKE v \in Ids
    <3>2. s.vb[v] \in Vblank
      BY OneVbType
    <3> HIDE DEF n
    <3> DEFINE b == s.vb[v]
    <3>3. b \in Vblank
      BY <3>2
    <3> HIDE DEF b
    <3>4. [b EXCEPT !.pix = NoPix, !.flip = FALSE] \in Vblank
      BY <3>3 DEF Vblank
    <3> QED BY <3>4 DEF b
  <2> QED BY <2>1, OneVbType
<1>4. Scrap(s, old) = [s EXCEPT !.idle = i, !.refs = f, !.vb = g]
  BY DEF Scrap
<1> HIDE DEF i, f, g
<1>5. [s EXCEPT !.idle = i, !.refs = f, !.vb = g] \in State
  BY <1>1, <1>2, <1>3 DEF State
<1> QED BY <1>4, <1>5

(* present_scmd_create and what it decides: exec_msc does not fall
   below zero, because only a target after the current MSC is made earlier. *)
LEMMA VblankCreateType ==
  ASSUME NEW s \in State, NEW v \in Ids, NEW w \in Windows, NEW p \in Pixmaps \cup {NoPix},
         NEW opt \in OptionRecord, NEW f \in Fences \cup {NoFence}, NEW target \in Mscs,
         msc \in Mscs
  PROVE  VblankCreate(s, v, w, p, opt, f, target) \in State
<1> DEFINE able == p # NoPix /\ ~opt.copy /\ CheckFlip(s, w, p)
           sync == able /\ target > msc
           flip == able /\ (sync \/ AsyncCap)
           kind == IF p = NoPix THEN "msc" ELSE "pixmap"
           exec == ExecMsc(sync, target)
           b == [win |-> w, pix |-> p, kind |-> kind, target |-> target, exec |-> exec,
                 update |-> opt.update, flip |-> flip, sync |-> sync,
                 ready |-> FALSE, queued |-> TRUE, abort |-> FALSE,
                 wait |-> f, cb |-> FALSE]
           h == HoldPixmap(s, p)
           e == h.execQ \cup {v}
           t == [h EXCEPT !.execQ = e]
<1>1. able \in BOOLEAN /\ sync \in BOOLEAN /\ flip \in BOOLEAN
  BY InputAssumption DEF CheckFlip
<1>2. exec \in Mscs
  <2>1. sync => target > msc
    OBVIOUS
  <2> HIDE DEF sync
  <2> QED BY <1>1, <2>1, BoundsAssumption DEF ExecMsc, Mscs
<1>3. opt.update \in BOOLEAN /\ kind \in {"none", "pixmap", "msc"}
  BY DEF OptionRecord
<1>4. b \in Vblank
  <2> HIDE DEF flip, sync, able, exec, kind
  <2> QED BY <1>1, <1>2, <1>3 DEF Vblank
<1>5. h \in State
  BY HoldPixmapType
<1>6. e \in SUBSET Ids
  <2> HIDE DEF h
  <2> QED BY <1>5, FieldTypes
<1>7. t \in State
  <2> HIDE DEF h, e
  <2> QED BY <1>5, <1>6 DEF State
<1>8. VblankCreate(s, v, w, p, opt, f, target) = [t EXCEPT !.vb[v] = b]
  <2>1. VblankCreate(s, v, w, p, opt, f, target) = [h EXCEPT !.vb[v] = b, !.execQ = e]
    BY DEF VblankCreate
  <2> HIDE DEF b, e, h
  <2> QED BY <1>5, <2>1 DEF State
<1> HIDE DEF t, b
<1> QED BY <1>4, <1>7, <1>8, SetOneVb

(* present_scmd_pixmap, whole. *)
LEMMA SubmittedType ==
  ASSUME NEW s \in State, NEW v \in Ids, NEW w \in Windows, NEW p \in Pixmaps \cup {NoPix},
         NEW opt \in OptionRecord, NEW f \in Fences \cup {NoFence}, NEW target \in Mscs,
         NEW refuse, msc \in Mscs
  PROVE  Submitted(s, v, w, p, opt, f, target, refuse) \in State
<1> DEFINE old == IF p = NoPix \/ opt.update THEN {} ELSE Superseded(s, w, target)
           t == VblankCreate(Scrap(s, old), v, w, p, opt, f, target)
<1>1. old \in SUBSET Ids
  BY DEF Superseded
<1> HIDE DEF old
<1>2. t \in State
  BY <1>1, ScrapType, VblankCreateType
<1>3. Submitted(s, v, w, p, opt, f, target, refuse)
        \in {QueueVblank(t, v), Execute(t, v, msc, refuse)}
  BY DEF Submitted, old
<1> HIDE DEF t
<1> QED BY <1>2, <1>3, QueueVblankType, ExecuteType

(* An action that becomes a well typed state is well typed. *)
LEMMA BecomeType ==
  ASSUME NEW s \in State, Become(s)
  PROVE  Cur' \in State
BY DEF Become, Cur, State

(* The initial states are well typed. *)
LEMMA TypeInit == Init => TypeOK
<1> SUFFICES ASSUME Init PROVE TypeOK
  OBVIOUS
<1>1. Fresh \in Vblank
  <2> 0 \in Mscs
    BY BoundsAssumption DEF Mscs
  <2> QED BY DEF Fresh, Vblank
<1>2. vb \in [Ids -> Vblank] /\ vbl \in [Events -> Nat] /\ idle \in [Ids -> Nat]
  BY <1>1 DEF Init
<1>3. winPix \in [Windows \cup {Root} -> Pixmaps \cup {Screen}]
      /\ refs \in [Pixmaps -> Int] /\ full \in SUBSET Windows
  BY DEF Init
<1>4. done \in [Ids -> [n : Nat, mode : Modes, early : BOOLEAN]]
  BY DEF Init, Modes
<1>5. flipQ \in Seq(Ids)
  BY DEF Init
<1>6. Cur \in State
  BY <1>2, <1>3, <1>4, <1>5 DEF Init, Cur, State
<1>7. nextId \in 1..MaxReq + 1 /\ msc \in 0..MaxMsc /\ scanout \in Ids \cup {Unset}
  BY BoundsAssumption DEF Init
<1>8. fence \in [Fences -> {"reset", "triggered", "destroyed"}]
  BY DEF Init
<1> QED BY <1>6, <1>7, <1>8 DEF Init, TypeOK

(* A request keeps the type. *)
LEMMA SubmitType ==
  ASSUME TypeOK, NEW w \in Windows, NEW p \in Pixmaps \cup {NoPix},
         NEW opt \in OptionRecord, NEW f \in Fences \cup {NoFence},
         NEW wmsc \in Nat, NEW m \in Nat \X Nat, NEW refuse,
         Submit(w, p, opt, f, wmsc, m, refuse)
  PROVE  TypeOK'
<1> DEFINE target == AdjustTimings(opt.async, msc, wmsc, m[1], m[2])
           s == Submitted(Cur, nextId, w, p, opt, f, target, refuse)
<1>1. msc \in Mscs /\ msc \in Nat /\ Cur \in State /\ nextId \in Ids /\ target <= MaxMsc
  BY BoundsAssumption DEF TypeOK, Mscs, Submit
<1>2. target \in Nat
  BY <1>1, AdjustTimingsType DEF OptionRecord
<1>3. target \in Mscs
  <2> HIDE DEF target
  <2> QED BY <1>1, <1>2, BoundsAssumption DEF Mscs
<1> HIDE DEF target
<1>4. s \in State
  BY <1>1, <1>3, SubmittedType
<1>5. Become(s)
  BY DEF Submit, target
<1> HIDE DEF s
<1>6. Cur' \in State
  BY <1>4, <1>5, BecomeType
<1>7. todo' \in SUBSET Ids
  BY DEF Submit, Superseded
<1>8. nextId' \in 1..MaxReq + 1
  BY <1>1, BoundsAssumption DEF Submit, Ids
<1> QED BY <1>6, <1>7, <1>8 DEF Submit, TypeOK

(* What happens to a fence changes none of the state that handlers share. *)
LEMMA FenceSteps ==
  ASSUME NEW f \in Fences, TriggerFence(f) \/ ResetFence(f) \/ DestroyFence(f)
  PROVE  Become(Cur) /\ UNCHANGED <<held, nextId, msc, scanout, dying>>
<1>1. UNCHANGED <<server, winPix, full, refs, held, nextId, halted, dying, driver, client>>
  BY DEF TriggerFence, ResetFence, DestroyFence
<1> QED
  BY <1>1 DEF Become, Cur, server, driver, client

(* A clip change and a window's end check the flip, with other windows full. *)
LEMMA ClipSteps ==
  ASSUME TypeOK, NEW w \in Windows, ClipNotify(w) \/ DestroyWindow(w)
  PROVE  \E x \in SUBSET Windows : Become(CheckFlipWindow([Cur EXCEPT !.full = x], w))
<1>1. Cur.full \in SUBSET Windows
  BY DEF TypeOK, State
<1>2. CASE ClipNotify(w)
  <2> DEFINE x == IF w \in Cur.full THEN {} ELSE {w}
  <2>1. x \in SUBSET Windows
    OBVIOUS
  <2>2. Become(CheckFlipWindow([Cur EXCEPT !.full = x], w))
    BY <1>2, Zenon DEF ClipNotify
  <2> QED BY <2>1, <2>2, Zenon
<1>3. CASE DestroyWindow(w)
  <2> DEFINE x == Cur.full \ {w}
  <2>1. x \in SUBSET Windows
    BY <1>1
  <2>2. Become(CheckFlipWindow([Cur EXCEPT !.full = x], w))
    BY <1>3, Zenon DEF DestroyWindow
  <2> QED BY <2>1, <2>2, Zenon
<1> QED BY <1>2, <1>3

(* Every step keeps the type: one step of the proof for each action. *)
LEMMA TypeNext ==
  ASSUME TypeOK, [Next]_vars
  PROVE  TypeOK'
<1> USE DEF TypeOK
<1>0. msc \in Mscs /\ Cur \in State
  BY DEF Mscs
<1>1. CASE ClientRequest
  <2>1. PICK w \in Windows, wmsc \in Targets, m \in Moduli, refuse \in SUBSET Refusable :
          \/ \E p \in Pixmaps, opt \in Options, f \in Fences \cup {NoFence} :
                PresentPixmap(w, p, opt, f, wmsc, m, refuse)
          \/ NotifyMsc(w, wmsc, m, refuse)
    BY <1>1 DEF ClientRequest
  <2>2. wmsc \in Nat /\ m \in Nat \X Nat
    BY InputAssumption
  <2>3. CASE \E p \in Pixmaps, opt \in Options, f \in Fences \cup {NoFence} :
               PresentPixmap(w, p, opt, f, wmsc, m, refuse)
    <3> HIDE DEF TypeOK
    <3> QED BY <2>2, <2>3, SubmitType, InputAssumption DEF PresentPixmap
  <2>4. CASE NotifyMsc(w, wmsc, m, refuse)
    <3> HIDE DEF TypeOK
    <3> DEFINE opt == [async |-> m[1] = 0, copy |-> FALSE, update |-> FALSE]
    <3>1. opt \in OptionRecord
      BY DEF OptionRecord
    <3>2. Submit(w, NoPix, opt, NoFence, wmsc, m, refuse)
      BY <2>4 DEF NotifyMsc
    <3> HIDE DEF opt
    <3> QED BY <2>2, <3>1, <3>2, SubmitType
  <2> QED BY <2>1, <2>3, <2>4
<1>2. ASSUME NEW e \in Events, NEW at \in 0..MaxMsc, NEW refuse, VblankEvent(e, at, refuse)
      PROVE  TypeOK'
  <2> DEFINE f == [vbl EXCEPT ![e] = @ - 1]
             s == [Cur EXCEPT !.vbl = f]
             t == EventNotify(s, e[1], at, refuse)
  <2>1. f \in [Events -> Nat]
    <3>1. vbl \in [Events -> Nat]
      BY DEF Cur, State
    <3> QED BY <3>1, <1>2 DEF VblankEvent
  <2>2. s \in State
    <3> HIDE DEF f
    <3> QED BY <1>0, <2>1 DEF State
  <2>3. t \in State
    <3> HIDE DEF s
    <3> QED BY <1>0, <2>2, EventNotifyType DEF Events, Mscs
  <2>4. Become(t)
    <3>1. s = [Cur EXCEPT !.vbl[e] = @ - 1]
      BY DEF Cur
    <3> QED BY <1>2, <3>1 DEF VblankEvent
  <2> HIDE DEF t
  <2>5. Cur' \in State
    BY <2>3, <2>4, BecomeType
  <2> QED BY <1>2, <2>5 DEF VblankEvent
<1>3. ASSUME NEW e \in hwFlip, NEW at \in 0..MaxMsc, NEW refuse, FlipEvent(e, at, refuse)
      PROVE  TypeOK'
  <2> DEFINE h == hwFlip \ {e}
             s == [Cur EXCEPT !.hwFlip = h]
             t == EventNotify(s, e[1], at, refuse)
  <2>1. h \in SUBSET Events /\ e[1] \in Ids
    BY SMTT(20) DEF Cur, State, Events
  <2>2. s \in State
    <3> HIDE DEF h
    <3> QED BY <1>0, <2>1 DEF State
  <2>3. t \in State
    <3> HIDE DEF s
    <3> QED BY <1>0, <2>1, <2>2, EventNotifyType DEF Mscs
  <2>4. Become(t)
    <3>1. s = [Cur EXCEPT !.hwFlip = @ \ {e}]
      BY DEF Cur
    <3> QED BY <1>3, <3>1 DEF FlipEvent
  <2> HIDE DEF t
  <2>5. Cur' \in State
    BY <2>3, <2>4, BecomeType
  <2> QED BY <1>3, <2>1, <2>5 DEF FlipEvent
<1>4. ASSUME NEW refuse, UnflipEvent(refuse)
      PROVE  TypeOK'
  <2> DEFINE n == hwUnflip - 1
             s == [Cur EXCEPT !.hwUnflip = n]
             t == IF unflip THEN UnflipNotify(s, refuse) ELSE s
  <2>1. n \in Nat
    <3>1. hwUnflip \in Nat
      BY DEF Cur, State
    <3> QED BY <1>4, <3>1 DEF UnflipEvent
  <2>2. s \in State
    <3> HIDE DEF n
    <3> QED BY <1>0, <2>1 DEF State
  <2>3. t \in State
    <3> HIDE DEF s
    <3> QED BY <1>0, <2>2, UnflipNotifyType
  <2>4. Become(t)
    <3>1. s = [Cur EXCEPT !.hwUnflip = @ - 1]
      BY DEF Cur
    <3> QED BY <1>4, <3>1 DEF UnflipEvent
  <2> HIDE DEF t
  <2>5. Cur' \in State
    BY <2>3, <2>4, BecomeType
  <2> QED BY <1>4, <2>5 DEF UnflipEvent, Unset
<1>5. ASSUME NEW refuse, ReExecute(refuse)
      PROVE  TypeOK'
  <2> DEFINE v == Max(todo)
             t == Execute(Cur, v, msc, refuse)
  <2>1. v \in Ids
    <3>1. todo \in SUBSET Int /\ todo # {} /\ todo \in SUBSET Ids
      BY <1>5 DEF ReExecute, Ids
    <3>2. \E x \in todo : \A y \in todo : x >= y
      BY <3>1, GreatestId
    <3> QED BY <3>1, <3>2 DEF Max
  <2>2. t \in State
    BY <1>0, <2>1, ExecuteType
  <2>3. Become(t) /\ todo' \in SUBSET Ids
    BY <1>5 DEF ReExecute
  <2> HIDE DEF t
  <2>4. Cur' \in State
    BY <2>2, <2>3, BecomeType
  <2> QED BY <1>5, <2>3, <2>4 DEF ReExecute
<1>6. ASSUME NEW drop \in BOOLEAN, FreeWindowVblank(drop)
      PROVE  TypeOK'
  <2> DEFINE v == Min(QueuedOn(dying))
             f == [e \in Events |-> IF drop /\ e[1] = v THEN 0 ELSE vbl[e]]
             s == [Cur EXCEPT !.vbl = f]
             t == VblankDestroy(s, v)
  <2>1. v \in Ids
    <3>1. QueuedOn(dying) \in SUBSET Nat /\ QueuedOn(dying) # {}
          /\ QueuedOn(dying) \in SUBSET Ids
      BY <1>6 DEF FreeWindowVblank, QueuedOn, Ids
    <3> QED BY <3>1, MinIsLeast
  <2> HIDE DEF v
  <2>2. f \in [Events -> Nat]
    BY DEF Cur, State
  <2>3. s \in State
    <3> HIDE DEF f
    <3> QED BY <1>0, <2>2 DEF State
  <2>4. t \in State
    <3> HIDE DEF s
    <3> QED BY <2>1, <2>3, VblankDestroyType
  <2>5. Become(t)
    <3>1. s = [Cur EXCEPT !.vbl = [e \in Events |-> IF drop /\ e[1] = v THEN 0 ELSE @[e]]]
      BY DEF Cur
    <3> QED BY <1>6, <3>1 DEF FreeWindowVblank, v
  <2> HIDE DEF t
  <2>6. Cur' \in State
    BY <2>4, <2>5, BecomeType
  <2> QED BY <1>6, <2>6 DEF FreeWindowVblank
<1>7. CASE FinishDestroy
  <2> DEFINE t == ClearWindowFlip(Cur, dying)
  <2>1. t \in State
    BY <1>0, ClearWindowFlipType
  <2>2. Become(t)
    BY <1>7 DEF FinishDestroy
  <2> HIDE DEF t
  <2>3. Cur' \in State
    BY <2>1, <2>2, BecomeType
  <2> QED BY <1>7, <2>3 DEF FinishDestroy
<1>8. ASSUME NEW f \in Fences, TriggerFence(f) \/ ResetFence(f) \/ DestroyFence(f)
      PROVE  TypeOK'
  <2>1. fence' \in [Fences -> {"reset", "triggered", "destroyed"}]
    BY <1>8 DEF TriggerFence, ResetFence, DestroyFence
  <2>2. todo' \in SUBSET Ids
    BY <1>8 DEF TriggerFence, ResetFence, DestroyFence
  <2> HIDE DEF TypeOK
  <2>0. Become(Cur)
    BY <1>8, FenceSteps
  <2>3. Cur' \in State
    BY <1>0, <2>0, BecomeType
  <2>4. UNCHANGED <<held, nextId, msc, scanout, dying, alive>>
    BY <1>8, FenceSteps DEF TriggerFence, ResetFence, DestroyFence
  <2> QED
    BY <2>1, <2>2, <2>3, <2>4 DEF TypeOK
<1>9. ASSUME NEW w \in Windows, ClipNotify(w) \/ DestroyWindow(w)
      PROVE  TypeOK'
  <2>1. PICK x \in SUBSET Windows : Become(CheckFlipWindow([Cur EXCEPT !.full = x], w))
    BY <1>9, ClipSteps
  <2> DEFINE s == [Cur EXCEPT !.full = x]
             t == CheckFlipWindow(s, w)
  <2>2. s \in State
    BY <1>0 DEF State
  <2>3. t \in State
    <3> HIDE DEF s
    <3> QED BY <2>2, CheckFlipWindowType
  <2> HIDE DEF t
  <2>4. Cur' \in State
    BY <2>1, <2>3, BecomeType DEF t
  <2> QED BY <1>9, <2>4 DEF ClipNotify, DestroyWindow
<1>10. ASSUME NEW p \in Pixmaps, FreePixmap(p)
       PROVE  TypeOK'
  <2> DEFINE f == [refs EXCEPT ![p] = @ - 1]
  <2>1. f \in [Pixmaps -> Int]
    BY DEF Cur, State
  <2>2. Cur' = [Cur EXCEPT !.refs = f]
    BY <1>10 DEF FreePixmap, Cur, server, driver, client
  <2> HIDE DEF f
  <2>3. Cur' \in State
    BY <1>0, <2>1, <2>2 DEF State
  <2> QED BY <1>10, <2>3 DEF FreePixmap, driver
<1>11. CASE CloseScreen
  <2> DEFINE s == IF pending # Unset THEN SetAbortFlip(Cur) ELSE Cur
             t == Halt(FlipIdle(s), "closed")
  <2>1. s \in State
    BY <1>0, SetAbortFlipType DEF Cur
  <2>2. t \in State
    <3> HIDE DEF s
    <3> QED BY <2>1, FlipIdleType, HaltType
  <2>3. Become(t)
    BY <1>11 DEF CloseScreen
  <2> HIDE DEF t
  <2>4. Cur' \in State
    BY <2>2, <2>3, BecomeType
  <2> QED BY <1>11, <2>4 DEF CloseScreen
<1>12. CASE Tick
  <2>1. Cur' = Cur
    BY <1>12 DEF Tick, Cur, server, dix, client
  <2>2. msc' \in 0..MaxMsc
    BY <1>12, BoundsAssumption DEF Tick
  <2> QED BY <1>12, <2>1, <2>2 DEF Tick, dix
<1>13. CASE UNCHANGED vars
  BY <1>13 DEF vars, server, dix, driver, client, Cur
<1> QED
  BY <1>1, <1>2, <1>3, <1>4, <1>5, <1>6, <1>7, <1>8, <1>9, <1>10, <1>11, <1>12, <1>13,
     InputAssumption
  DEF Next, DriverEvent, Loop, Environment

(* The variables of the server, the clients and the driver keep their types
   in every behaviour; in particular every MSC asked of the driver lies within
   the CRTC's range, so exec_msc = target - 1 (present_scmd.c:756) does not
   wrap, and every id on a queue names a request. *)
THEOREM TypeCorrect == Spec => []TypeOK
<1>1. Init => TypeOK
  BY TypeInit
<1>2. TypeOK /\ [Next]_vars => TypeOK'
  BY TypeNext
<1> QED BY <1>1, <1>2, PTL DEF Spec

-----------------------------------------------------------------------------
(* What present_adjust_timings chooses.                                     *)

(* A greater factor makes a product greater by at least the other one. *)
LEMMA ProductGrows ==
  ASSUME NEW d \in Nat, NEW k \in Nat, NEW q \in Nat, k < q
  PROVE  d * k + d <= d * q
<1>1. PICK n \in Nat : q = k + 1 + n
  <2>1. q - k - 1 \in Nat /\ q = k + 1 + (q - k - 1)
    OBVIOUS
  <2> QED BY <2>1
<1>2. d * q = d * k + d + d * n
  BY <1>1
<1>3. d * n \in Nat /\ d * k \in Nat
  BY <1>1
<1> QED BY <1>2, <1>3

(* Quotient and remainder of a division. *)
LEMMA Division ==
  ASSUME NEW x \in Nat, NEW d \in Nat \ {0}
  PROVE  /\ x \div d \in Nat /\ x % d \in Nat /\ x % d < d
         /\ d * (x \div d) \in Nat /\ x = d * (x \div d) + (x % d)
<1>1. x \div d \in Nat /\ x % d \in 0..(d - 1) /\ x = d * (x \div d) + (x % d)
  OBVIOUS
<1> QED BY <1>1

(* They are unique. *)
LEMMA RemainderUnique ==
  ASSUME NEW q \in Nat, NEW d \in Nat \ {0}, NEW r \in Nat, r < d
  PROVE  (d * q + r) % d = r
<1> DEFINE x == d * q + r
           k == x \div d
           p == x % d
<1>1. x \in Nat /\ d * q \in Nat
  OBVIOUS
<1> HIDE DEF x
<1>2. k \in Nat /\ p \in Nat /\ p < d /\ d * k \in Nat /\ x = d * k + p
  BY <1>1, Division
<1>3. x = d * q + r
  BY DEF x
<1> HIDE DEF k, p
<1>4. ~ (k < q)
  <2>1. k < q => d * k + d <= d * q
    BY <1>2, ProductGrows
  <2> QED BY <1>1, <1>2, <1>3, <2>1
<1>5. ~ (q < k)
  <2>1. q < k => d * q + d <= d * k
    BY <1>2, ProductGrows
  <2> QED BY <1>1, <1>2, <1>3, <2>1
<1>6. k = q
  BY <1>2, <1>4, <1>5
<1>7. p = r
  BY <1>1, <1>2, <1>3, <1>6
<1> QED BY <1>7 DEF p, x

(* present_adjust_timings of a target not after the current MSC: the MSC     *)
(* chosen has the remainder asked for, an asynchronous request may have the  *)
(* current MSC and another may not, and no earlier MSC would do.             *)
THEOREM AdjustTimingsEarliest ==
  ASSUME NEW async \in BOOLEAN, NEW now \in Nat, NEW target \in Nat,
         NEW d \in Nat \ {0}, NEW r \in Nat, r < d, target <= now
  PROVE  LET t == AdjustTimings(async, now, target, d, r)
             Meets(x) == x % d = r /\ (now < x \/ (async /\ now = x))
         IN  Meets(t) /\ \A x \in Nat : Meets(x) => t <= x
<1> DEFINE q == now \div d
           m == now % d
           u == d * q + r
           t == AdjustTimings(async, now, target, d, r)
<1>1. q \in Nat /\ m \in Nat /\ m < d /\ d * q \in Nat /\ now = d * q + m
  BY Division
<1>2. t = IF (async /\ now > u) \/ (~async /\ now >= u) THEN u + d ELSE u
  <2>1. now - m + r = u
    BY <1>1
  <2> QED BY <2>1 DEF AdjustTimings
<1>3. u % d = r /\ (u + d) % d = r
  <2>1. u + d = d * (q + 1) + r /\ q + 1 \in Nat
    BY <1>1
  <2>2. u % d = r
    BY <1>1, RemainderUnique
  <2>3. (d * (q + 1) + r) % d = r
    BY <2>1, RemainderUnique
  <2> QED BY <2>1, <2>2, <2>3
<1>4. t % d = r
  BY <1>2, <1>3
<1> HIDE DEF q, m
<1>5. now < t \/ (async /\ now = t)
  BY <1>1, <1>2
<1>6. ASSUME NEW x \in Nat, x % d = r, now < x \/ (async /\ now = x)
      PROVE  t <= x
  <2> DEFINE k == x \div d
  <2>1. k \in Nat /\ d * k \in Nat /\ x = d * k + r
    BY <1>6, Division
  <2> HIDE DEF k
  <2>2. ~ (k < q)
    <3>1. k < q => d * k + d <= d * q
      BY <1>1, <2>1, ProductGrows
    <3> QED BY <1>1, <1>6, <2>1, <3>1
  <2>3. CASE k = q
    BY <1>1, <1>2, <1>6, <2>1, <2>3
  <2>4. CASE q < k
    <3>1. d * q + d <= d * k
      BY <1>1, <2>1, <2>4, ProductGrows
    <3> QED BY <1>1, <1>2, <2>1, <3>1
  <2> QED BY <1>1, <2>1, <2>2, <2>3, <2>4
<1> QED BY <1>4, <1>5, <1>6

------------------------------------------------------------------------------
(****************************************************************************)
(* No assertion of present_scmd.c fails, and pixmaps are referenced exactly  *)
(* by those that use them, for every number of windows, pixmaps, fences and  *)
(* requests and every contract of the driver.                                *)
(*                                                                           *)
(* NoAssertionFails is not inductive: present_unflip asserts that no flip is *)
(* pending, present_restore_screen_pixmap that there is a pixmap to take     *)
(* windows off, present_flip_notify that the event is the pending flip's.    *)
(* Sound is the strengthening: what the flip queue, the pending flip and the *)
(* screen's flip say of each other.  Handlers keep it, one lemma for each.   *)
(*                                                                           *)
(* RefsExact is almost inductive: Counted adds that requests not made yet    *)
(* hold nothing.  Most handlers touch no reference (SameRefs); the others    *)
(* give one up, take one, or move it from a request to the screen.           *)
(****************************************************************************)

(* While a request x is between its queue and its fate, it may want to flip  *)
(* without being queued or pending; x is Unset between handlers.  Requests   *)
(* from n on do not exist yet.                                               *)
Sound(s, n, x) ==
  /\ s.halted # "assert"
  /\ s.flipWin # NoWin => s.flipPix # NoPix
  /\ s.pending # Unset =>
       /\ ~s.unflip
       /\ s.vb[s.pending].flip /\ s.vb[s.pending].pix # NoPix
       /\ ~s.vb[s.pending].queued
  /\ IsInjective(s.flipQ)
  /\ \A v \in Ids : Contains(s.flipQ, v) => s.vb[v].queued \/ v = s.pending
  /\ \A v \in Ids : s.vb[v].flip =>
       v < n /\ (s.vb[v].queued \/ v = s.pending \/ v = x)

(* What Sound depends on.                                                    *)
SameFlips(s, t) ==
  /\ t.flipQ = s.flipQ /\ t.pending = s.pending /\ t.unflip = s.unflip
  /\ t.flipWin = s.flipWin /\ t.flipPix = s.flipPix /\ t.halted = s.halted
  /\ \A v \in Ids : /\ t.vb[v].flip = s.vb[v].flip /\ t.vb[v].pix = s.vb[v].pix
                    /\ t.vb[v].queued = s.vb[v].queued

-----------------------------------------------------------------------------
(* Lists: entries after one is taken out, put at the end, put in front.     *)

(* Cutting out entry k. *)
LEMMA RemoveAtEntries ==
  ASSUME NEW S, NEW q \in Seq(S), NEW k \in 1..Len(q)
  PROVE  /\ RemoveAt(q, k) \in Seq(S) /\ Len(RemoveAt(q, k)) = Len(q) - 1
         /\ \A i \in 1..Len(q) - 1 : RemoveAt(q, k)[i] = IF i < k THEN q[i] ELSE q[i + 1]
<1> DEFINE a == SubSeq(q, 1, k - 1)
           b == SubSeq(q, k + 1, Len(q))
<1>1. Len(q) \in Nat
  BY LenProperties
<1>2. a \in Seq(S) /\ Len(a) = k - 1 /\ \A i \in 1..k - 1 : a[i] = q[i]
  BY <1>1, SubSeqProperties
<1>3. b \in Seq(S) /\ Len(b) = Len(q) - k /\ \A i \in 1..Len(q) - k : b[i] = q[i + k]
  BY <1>1, SubSeqProperties
<1>4. RemoveAt(q, k) = a \o b
  BY DEF RemoveAt
<1> HIDE DEF a, b
<1>5. /\ a \o b \in Seq(S) /\ Len(a \o b) = Len(a) + Len(b)
      /\ \A i \in 1..Len(a) + Len(b) :
            (a \o b)[i] = IF i <= Len(a) THEN a[i] ELSE b[i - Len(a)]
  BY <1>2, <1>3, ConcatProperties
<1>6. ASSUME NEW i \in 1..Len(q) - 1
      PROVE  (a \o b)[i] = IF i < k THEN q[i] ELSE q[i + 1]
  <2>1. CASE i < k
    BY <1>1, <1>2, <1>3, <1>5, <2>1
  <2>2. CASE ~(i < k)
    <3>1. i - (k - 1) \in 1..Len(q) - k
      BY <1>1, <2>2
    <3>2. b[i - (k - 1)] = q[i - (k - 1) + k]
      BY <1>3, <3>1
    <3>3. i - (k - 1) + k = i + 1
      BY <1>1
    <3> QED BY <1>1, <1>2, <1>3, <1>5, <2>2, <3>2, <3>3
  <2> QED BY <2>1, <2>2
<1>7. a \o b \in Seq(S) /\ Len(a \o b) = Len(q) - 1
  <2>1. Len(a) + Len(b) = Len(q) - 1
    BY <1>1, <1>2, <1>3
  <2> QED BY <1>5, <2>1
<1> DEFINE r == a \o b
<1>8. RemoveAt(q, k) = r
  BY <1>4
<1>9. \A i \in 1..Len(q) - 1 : r[i] = IF i < k THEN q[i] ELSE q[i + 1]
  BY <1>6
<1> HIDE DEF r
<1> QED BY <1>7, <1>8, <1>9 DEF r

(* xorg_list_del of an entry of a list without repetitions. *)
LEMMA RemoveFirstEntries ==
  ASSUME NEW q \in Seq(Ids), NEW v, IsInjective(q)
  PROVE  /\ IsInjective(RemoveFirst(q, v))
         /\ \A u : Contains(RemoveFirst(q, v), u) => Contains(q, u) /\ u # v
<1> DEFINE I == {i \in 1..Len(q) : q[i] = v}
           k == Min(I)
           r == RemoveAt(q, k)
<1>0. Len(q) \in Nat /\ DOMAIN q = 1..Len(q)
  BY LenProperties
<1>1. CASE ~ \E i \in 1..Len(q) : q[i] = v
  <2>1. RemoveFirst(q, v) = q
    BY <1>1 DEF RemoveFirst
  <2>2. \A u : Contains(q, u) => u # v
    BY <1>1 DEF Contains
  <2> QED BY <2>1, <2>2
<1>2. CASE \E i \in 1..Len(q) : q[i] = v
  <2>1. RemoveFirst(q, v) = r
    BY <1>2 DEF RemoveFirst, SelectInSeq
  <2>2. k \in 1..Len(q) /\ q[k] = v
    <3>1. I \in SUBSET Nat /\ I # {}
      BY <1>2, LenProperties
    <3> QED BY <3>1, MinIsLeast
  <2> HIDE DEF k
  <2>3. /\ r \in Seq(Ids) /\ Len(r) = Len(q) - 1
        /\ \A i \in 1..Len(q) - 1 : r[i] = IF i < k THEN q[i] ELSE q[i + 1]
    BY <2>2, RemoveAtEntries
  <2> HIDE DEF r
  <2>4. DOMAIN r = 1..Len(q) - 1
    BY <2>3, LenProperties
  <2>5. \A i, j \in 1..Len(q) : q[i] = q[j] => i = j
    BY <1>0 DEF IsInjective
  <2>6. ASSUME NEW i \in 1..Len(q) - 1
        PROVE  \E m \in 1..Len(q) : m = (IF i < k THEN i ELSE i + 1) /\ r[i] = q[m] /\ m # k
    BY <1>0, <2>2, <2>3
  <2>7. IsInjective(r)
    <3>1. ASSUME NEW i \in 1..Len(q) - 1, NEW j \in 1..Len(q) - 1, r[i] = r[j]
          PROVE  i = j
      <4>1. PICK m \in 1..Len(q) : m = (IF i < k THEN i ELSE i + 1) /\ r[i] = q[m]
        BY <2>6
      <4>2. PICK p \in 1..Len(q) : p = (IF j < k THEN j ELSE j + 1) /\ r[j] = q[p]
        BY <2>6
      <4>3. m = p
        BY <2>5, <3>1, <4>1, <4>2
      <4> QED BY <1>0, <2>2, <4>1, <4>2, <4>3
    <3> QED BY <2>4, <3>1 DEF IsInjective
  <2>8. ASSUME NEW u, Contains(r, u)
        PROVE  Contains(q, u) /\ u # v
    <3>1. PICK i \in 1..Len(q) - 1 : r[i] = u
      BY <2>3, <2>8 DEF Contains
    <3>2. PICK m \in 1..Len(q) : r[i] = q[m] /\ m # k
      BY <2>6
    <3>3. u = q[m]
      BY <3>1, <3>2
    <3> QED BY <2>2, <2>5, <3>2, <3>3 DEF Contains
  <2> QED BY <2>1, <2>7, <2>8
<1> QED BY <1>1, <1>2

(* An entry added in front or at the end of a list that does not have it. *)
LEMMA AddEntry ==
  ASSUME NEW q \in Seq(Ids), NEW v \in Ids, IsInjective(q), ~Contains(q, v)
  PROVE  /\ IsInjective(<<v>> \o q) /\ IsInjective(Append(q, v))
         /\ \A u : Contains(<<v>> \o q, u) \/ Contains(Append(q, v), u)
                     => Contains(q, u) \/ u = v
<1> DEFINE a == Append(q, v)
           p == <<v>> \o q
<1>1. Len(q) \in Nat /\ DOMAIN q = 1..Len(q)
  BY LenProperties
<1>2. \A i, j \in 1..Len(q) : q[i] = q[j] => i = j
  BY <1>1 DEF IsInjective
<1>3. \A i \in 1..Len(q) : q[i] # v
  BY DEF Contains
<1>4. /\ a \in Seq(Ids) /\ Len(a) = Len(q) + 1
      /\ \A i \in 1..Len(q) : a[i] = q[i]
      /\ a[Len(q) + 1] = v
  BY AppendProperties
<1>5. /\ p \in Seq(Ids) /\ Len(p) = Len(q) + 1 /\ p[1] = v
      /\ \A i \in 2..Len(q) + 1 : p[i] = q[i - 1]
  <2>1. <<v>> \in Seq(Ids) /\ Len(<<v>>) = 1 /\ <<v>>[1] = v
    OBVIOUS
  <2>2. /\ p \in Seq(Ids) /\ Len(p) = 1 + Len(q)
        /\ \A i \in 1..1 + Len(q) : p[i] = IF i <= 1 THEN <<v>>[i] ELSE q[i - 1]
    BY <2>1, ConcatProperties
  <2> HIDE DEF p
  <2> QED BY <1>1, <2>1, <2>2
<1> HIDE DEF a, p
<1>6. DOMAIN a = 1..Len(q) + 1 /\ DOMAIN p = 1..Len(q) + 1
  BY <1>4, <1>5, LenProperties
<1>7. IsInjective(a)
  <2>1. ASSUME NEW i \in 1..Len(q) + 1, NEW j \in 1..Len(q) + 1, a[i] = a[j]
        PROVE  i = j
    BY <1>1, <1>2, <1>3, <1>4, <2>1
  <2> QED BY <1>6, <2>1 DEF IsInjective
<1>8. IsInjective(p)
  <2>1. ASSUME NEW i \in 1..Len(q) + 1, NEW j \in 1..Len(q) + 1, p[i] = p[j]
        PROVE  i = j
    <3>1. CASE i = 1 /\ j = 1
      BY <3>1
    <3>2. CASE i = 1 /\ j # 1
      BY <1>1, <1>3, <1>5, <2>1, <3>2
    <3>3. CASE i # 1 /\ j = 1
      BY <1>1, <1>3, <1>5, <2>1, <3>3
    <3>4. CASE i # 1 /\ j # 1
      <4>1. i - 1 \in 1..Len(q) /\ j - 1 \in 1..Len(q)
        BY <1>1, <3>4
      <4>2. q[i - 1] = q[j - 1]
        BY <1>1, <1>5, <2>1, <3>4
      <4> QED BY <1>2, <4>1, <4>2
    <3> QED BY <3>1, <3>2, <3>3, <3>4
  <2> QED BY <1>6, <2>1 DEF IsInjective
<1>9. ASSUME NEW u, Contains(a, u) PROVE Contains(q, u) \/ u = v
  BY <1>1, <1>4, <1>9 DEF Contains
<1>10. ASSUME NEW u, Contains(p, u) PROVE Contains(q, u) \/ u = v
  <2>1. PICK i \in 1..Len(q) + 1 : p[i] = u
    BY <1>5, <1>10 DEF Contains
  <2>2. CASE i = 1
    BY <1>5, <2>1, <2>2
  <2>3. CASE i # 1
    <3>1. i - 1 \in 1..Len(q) /\ q[i - 1] = u
      BY <1>1, <1>5, <2>1, <2>3
    <3> QED BY <3>1 DEF Contains
  <2> QED BY <2>2, <2>3
<1> QED BY <1>7, <1>8, <1>9, <1>10 DEF a, p

-----------------------------------------------------------------------------
(* Handlers, from the leaves of the call graph up.                          *)

(* Sound says nothing of the rest of the state. *)
LEMMA SoundSame ==
  ASSUME NEW s \in State, NEW t, NEW n, NEW x, Sound(s, n, x), SameFlips(s, t)
  PROVE  Sound(t, n, x)
<1>1. s.pending \in Ids \cup {Unset}
  BY FieldTypes
<1> QED BY <1>1 DEF Sound, SameFlips

(* A step that leaves the flips alone, then another. *)
LEMMA SameTwice ==
  ASSUME NEW s, NEW t, NEW u, SameFlips(s, t), SameFlips(t, u)
  PROVE  SameFlips(s, u)
BY DEF SameFlips

(* Writing one vblank. *)
LEMMA OneVbFields ==
  ASSUME NEW s \in State, NEW v \in Ids, NEW b
  PROVE  LET t == [s EXCEPT !.vb[v] = b]
         IN  /\ t.flipQ = s.flipQ /\ t.pending = s.pending /\ t.unflip = s.unflip
             /\ t.flipWin = s.flipWin /\ t.flipPix = s.flipPix /\ t.halted = s.halted
             /\ t.vb[v] = b /\ \A u \in Ids \ {v} : t.vb[u] = s.vb[u]
BY FieldTypes DEF State

(* A vblank written with the same flip, pixmap and queued. *)
LEMMA OneVbSame ==
  ASSUME NEW s \in State, NEW v \in Ids, NEW b, b.flip = s.vb[v].flip,
         b.pix = s.vb[v].pix, b.queued = s.vb[v].queued
  PROVE  SameFlips(s, [s EXCEPT !.vb[v] = b])
<1> DEFINE t == [s EXCEPT !.vb[v] = b]
<1>1. /\ t.flipQ = s.flipQ /\ t.pending = s.pending /\ t.unflip = s.unflip
      /\ t.flipWin = s.flipWin /\ t.flipPix = s.flipPix /\ t.halted = s.halted
      /\ t.vb[v] = b /\ \A u \in Ids \ {v} : t.vb[u] = s.vb[u]
  BY OneVbFields
<1> HIDE DEF t
<1> QED BY <1>1 DEF SameFlips

(* present_restore_screen_pixmap finds a pixmap. *)
LEMMA RestoreSame ==
  ASSUME NEW s \in State, NEW n, NEW x, Sound(s, n, x),
         s.pending # Unset \/ s.flipPix # NoPix
  PROVE  SameFlips(s, RestoreScreenPixmap(s))
<1> DEFINE fw == IF s.pending # Unset THEN s.vb[s.pending].win ELSE s.flipWin
           fp == IF s.pending # Unset THEN s.vb[s.pending].pix ELSE s.flipPix
           w1 == IF fw # NoWin THEN SetTreePixmap(s.winPix, fw, fp, Screen)
                               ELSE s.winPix
           w2 == SetTreePixmap(w1, Root, NoPix, Screen)
<1>1. fp # NoPix
  BY DEF Sound
<1>2. RestoreScreenPixmap(s) = [s EXCEPT !.winPix = w2]
  BY <1>1 DEF RestoreScreenPixmap
<1> HIDE DEF w2
<1> QED BY <1>2 DEF SameFlips, State

(* present_set_abort_flip. *)
LEMMA SetAbortSame ==
  ASSUME NEW s \in State, NEW n, NEW x, Sound(s, n, x), s.pending # Unset
  PROVE  SameFlips(s, SetAbortFlip(s))
<1>1. CASE s.vb[s.pending].abort
  <2>1. SetAbortFlip(s) = s
    BY <1>1 DEF SetAbortFlip
  <2> QED BY <2>1 DEF SameFlips
<1>2. CASE ~s.vb[s.pending].abort
  <2> DEFINE t == RestoreScreenPixmap(s)
             v == s.pending
             b == [t.vb[v] EXCEPT !.abort = TRUE]
  <2>1. t \in State /\ SameFlips(s, t) /\ v \in Ids
    BY RestoreScreenPixmapType, RestoreSame, PendingType
  <2>2. SetAbortFlip(s) = [t EXCEPT !.vb[v] = b]
    BY <1>2 DEF SetAbortFlip
  <2> HIDE DEF t, v
  <2>3. b.flip = t.vb[v].flip /\ b.pix = t.vb[v].pix /\ b.queued = t.vb[v].queued
    <3>1. t.vb[v] \in Vblank
      BY <2>1, OneVbType
    <3> QED BY <3>1 DEF Vblank
  <2> HIDE DEF b
  <2>4. SameFlips(t, [t EXCEPT !.vb[v] = b])
    BY <2>1, <2>3, OneVbSame
  <2> QED BY <2>1, <2>2, <2>4, SameTwice
<1> QED BY <1>1, <1>2

(* present_unflip: nothing is pending and a pixmap is on the screen. *)
LEMMA UnflipSound ==
  ASSUME NEW s \in State, NEW n, NEW x, Sound(s, n, x),
         s.pending = Unset, ~s.unflip, s.flipPix # NoPix
  PROVE  Sound(Unflip(s), n, x) /\ Unflip(s).pending = Unset
         /\ Unflip(s).vb = s.vb /\ Unflip(s).flipQ = s.flipQ
<1> DEFINE r == RestoreScreenPixmap(s)
           h == r.hwUnflip + 1
           u == [r EXCEPT !.unflip = TRUE, !.hwUnflip = h]
<1>1. r \in State /\ SameFlips(s, r) /\ r.vb = s.vb
  BY RestoreScreenPixmapType, RestoreSame, RestoreKeeps
<1>2. Unflip(s) = u
  BY DEF Unflip
<1> HIDE DEF r, h
<1>3. Sound(r, n, x) /\ r.pending = Unset /\ r.flipQ = s.flipQ
  BY <1>1, SoundSame DEF SameFlips
<1>4. /\ u.flipQ = r.flipQ /\ u.pending = r.pending /\ u.flipWin = r.flipWin
      /\ u.flipPix = r.flipPix /\ u.halted = r.halted /\ u.vb = r.vb
  BY <1>1 DEF State
<1> HIDE DEF u
<1> QED BY <1>1, <1>2, <1>3, <1>4 DEF Sound

(* Handlers that touch no flip. *)
LEMMA PixmapIdleSame ==
  ASSUME NEW s \in State, NEW v
  PROVE  SameFlips(s, PixmapIdle(s, v))
<1> DEFINE f == [s.idle EXCEPT ![v] = @ + 1]
<1>1. PixmapIdle(s, v) = [s EXCEPT !.idle = f]
  BY DEF PixmapIdle
<1> HIDE DEF f
<1> QED BY <1>1 DEF SameFlips, State

(* present_vblank_notify. *)
LEMMA VblankNotifySame ==
  ASSUME NEW s \in State, NEW v, NEW mode, NEW now
  PROVE  SameFlips(s, VblankNotify(s, v, mode, now))
<1> DEFINE d == [n |-> s.done[v].n + 1, mode |-> mode, early |-> now < s.vb[v].target]
           f == [s.done EXCEPT ![v] = d]
<1>1. VblankNotify(s, v, mode, now) \in {s, [s EXCEPT !.done = f]}
  BY DEF VblankNotify
<1> HIDE DEF f
<1>2. SameFlips(s, s) /\ SameFlips(s, [s EXCEPT !.done = f])
  BY DEF SameFlips, State
<1> QED BY <1>1, <1>2

(* Dropping a reference. *)
LEMMA DropPixmapSame ==
  ASSUME NEW s \in State, NEW p
  PROVE  SameFlips(s, DropPixmap(s, p))
<1> DEFINE f == [s.refs EXCEPT ![p] = @ - 1]
<1>1. DropPixmap(s, p) \in {s, [s EXCEPT !.refs = f]}
  BY DEF DropPixmap
<1> HIDE DEF f
<1>2. SameFlips(s, s) /\ SameFlips(s, [s EXCEPT !.refs = f])
  BY DEF SameFlips, State
<1> QED BY <1>1, <1>2

(* Taking a reference. *)
LEMMA HoldPixmapSame ==
  ASSUME NEW s \in State, NEW p
  PROVE  SameFlips(s, HoldPixmap(s, p))
<1> DEFINE f == [s.refs EXCEPT ![p] = @ + 1]
<1>1. HoldPixmap(s, p) \in {s, [s EXCEPT !.refs = f]}
  BY DEF HoldPixmap
<1> HIDE DEF f
<1>2. SameFlips(s, s) /\ SameFlips(s, [s EXCEPT !.refs = f])
  BY DEF SameFlips, State
<1> QED BY <1>1, <1>2

(* Asking the driver for a vblank. *)
LEMMA QueueVblankSame ==
  ASSUME NEW s \in State, NEW v
  PROVE  SameFlips(s, QueueVblank(s, v))
<1> DEFINE f == [s.vbl EXCEPT ![<<v, s.vb[v].exec>>] = @ + 1]
<1>1. QueueVblank(s, v) = [s EXCEPT !.vbl = f]
  BY DEF QueueVblank
<1> HIDE DEF f
<1> QED BY <1>1 DEF SameFlips, State

(* Leaving a callback with the wait fence. *)
LEMMA AwaitFenceSame ==
  ASSUME NEW s \in State, NEW v \in Ids
  PROVE  SameFlips(s, AwaitFence(s, v))
<1> DEFINE b == [s.vb[v] EXCEPT !.cb = TRUE]
<1>1. b.flip = s.vb[v].flip /\ b.pix = s.vb[v].pix /\ b.queued = s.vb[v].queued
  BY OneVbType DEF Vblank
<1>2. AwaitFence(s, v) = [s EXCEPT !.vb[v] = b]
  BY DEF AwaitFence
<1> HIDE DEF b
<1> QED BY <1>1, <1>2, OneVbSame

(* Leaving the queues. *)
LEMMA DequeueFields ==
  ASSUME NEW s \in State, NEW v \in Ids
  PROVE  LET t == Dequeue(s, v)
         IN  /\ t \in State /\ t.flipQ = RemoveFirst(s.flipQ, v)
             /\ t.pending = s.pending /\ t.unflip = s.unflip
             /\ t.flipWin = s.flipWin /\ t.flipPix = s.flipPix /\ t.halted = s.halted
             /\ ~t.vb[v].queued /\ t.vb[v].flip = s.vb[v].flip
             /\ t.vb[v].pix = s.vb[v].pix /\ t.vb[v].win = s.vb[v].win
             /\ \A u \in Ids \ {v} : t.vb[u] = s.vb[u]
<1> DEFINE t == Dequeue(s, v)
           b == [s.vb[v] EXCEPT !.queued = FALSE]
           f == [s.vb EXCEPT ![v] = b]
           q == RemoveFirst(s.flipQ, v)
           e == s.execQ \ {v}
<1>1. t \in State
  BY DequeueType
<1>2. t = [s EXCEPT !.execQ = e, !.flipQ = q, !.vb = f]
  BY DEF Dequeue
<1> HIDE DEF t
<1>3. f[v] = b /\ \A u \in Ids \ {v} : f[u] = s.vb[u]
  BY FieldTypes
<1>4. /\ ~b.queued /\ b.flip = s.vb[v].flip
      /\ b.pix = s.vb[v].pix /\ b.win = s.vb[v].win
  BY OneVbType DEF Vblank
<1> HIDE DEF f, b, q, e
<1>5. /\ t.flipQ = q /\ t.vb = f
      /\ t.pending = s.pending /\ t.unflip = s.unflip
      /\ t.flipWin = s.flipWin /\ t.flipPix = s.flipPix /\ t.halted = s.halted
  BY <1>2 DEF State
<1> QED BY <1>1, <1>3, <1>4, <1>5 DEF t, q

(* A request that is not pending leaves the queues. *)
LEMMA DequeueSound ==
  ASSUME NEW s \in State, NEW v \in Ids, NEW n, Sound(s, n, v), v # s.pending
  PROVE  /\ Sound(Dequeue(s, v), n, v)
         /\ ~Contains(Dequeue(s, v).flipQ, v)
<1> DEFINE t == Dequeue(s, v)
<1>1. /\ t \in State /\ t.flipQ = RemoveFirst(s.flipQ, v)
      /\ t.pending = s.pending /\ t.unflip = s.unflip
      /\ t.flipWin = s.flipWin /\ t.flipPix = s.flipPix /\ t.halted = s.halted
      /\ ~t.vb[v].queued /\ t.vb[v].flip = s.vb[v].flip
      /\ \A u \in Ids \ {v} : t.vb[u] = s.vb[u]
  BY DequeueFields
<1> HIDE DEF t
<1>2. /\ IsInjective(t.flipQ)
      /\ \A u : Contains(t.flipQ, u) => Contains(s.flipQ, u) /\ u # v
  BY <1>1, FieldTypes, RemoveFirstEntries DEF Sound
<1>3. s.pending \in Ids \cup {Unset}
  BY FieldTypes
<1> QED BY <1>1, <1>2, <1>3 DEF Sound, t

(* present_vblank_destroy of a request that is not pending. *)
LEMMA VblankDestroySound ==
  ASSUME NEW s \in State, NEW v \in Ids, NEW n, Sound(s, n, v), v # s.pending
  PROVE  Sound(VblankDestroy(s, v), n, Unset)
<1> DEFINE t == DropPixmap(s, s.vb[v].pix)
           u == Dequeue(t, v)
           b == s.vb[v]
           c == [Fresh EXCEPT !.win = b.win, !.kind = b.kind,
                              !.target = b.target, !.update = b.update]
           d == [u EXCEPT !.vb[v] = c]
<1>1. t \in State /\ SameFlips(s, t)
  BY DropPixmapType, DropPixmapSame, OneVbType DEF Vblank
<1>2. VblankDestroy(s, v) = d
  BY DEF VblankDestroy
<1>3. ~c.flip /\ ~c.queued
  BY DEF Fresh
<1> HIDE DEF t, c
<1>4. Sound(t, n, v) /\ v # t.pending
  BY <1>1, SoundSame DEF SameFlips
<1>5. u \in State /\ Sound(u, n, v) /\ ~Contains(u.flipQ, v) /\ v # u.pending
  BY <1>1, <1>4, DequeueFields, DequeueSound
<1> HIDE DEF u
<1>6. /\ d.flipQ = u.flipQ /\ d.pending = u.pending /\ d.unflip = u.unflip
      /\ d.flipWin = u.flipWin /\ d.flipPix = u.flipPix /\ d.halted = u.halted
      /\ d.vb[v] = c /\ \A w \in Ids \ {v} : d.vb[w] = u.vb[w]
  BY <1>5, OneVbFields
<1> HIDE DEF d
<1>7. u.pending \in Ids \cup {Unset}
  BY <1>5, FieldTypes
<1> QED BY <1>2, <1>3, <1>5, <1>6, <1>7 DEF Sound

(* Weaker when a request is in hand. *)
LEMMA SoundInHand ==
  ASSUME NEW s, NEW n, NEW v, Sound(s, n, Unset)
  PROVE  Sound(s, n, v)
<1>1. \A u \in Ids : u # Unset
  BY DEF Ids, Unset
<1> QED BY <1>1 DEF Sound

(* A request that does not want to flip needs no exception. *)
LEMMA SoundOutOfHand ==
  ASSUME NEW s, NEW n, NEW v \in Ids, Sound(s, n, v), ~s.vb[v].flip
  PROVE  Sound(s, n, Unset)
BY DEF Sound

(* present_execute_post. *)
LEMMA ExecutePostSound ==
  ASSUME NEW s \in State, NEW v \in Ids, NEW now \in Mscs, NEW n,
         Sound(s, n, v), v # s.pending
  PROVE  Sound(ExecutePost(s, v, now), n, Unset)
<1> DEFINE mode == IF s.vb[v].kind = "pixmap" /\ s.vb[v].pix = NoPix
                   THEN "skip" ELSE "copy"
           t == VblankNotify(s, v, mode, now)
<1>1. mode \in Modes
  BY DEF Modes
<1>2. ExecutePost(s, v, now) = VblankDestroy(t, v)
  BY DEF ExecutePost
<1> HIDE DEF mode
<1>3. t \in State /\ SameFlips(s, t)
  BY <1>1, VblankNotifyType, VblankNotifySame
<1> HIDE DEF t
<1>4. Sound(t, n, v) /\ v # t.pending
  BY <1>3, SoundSame DEF SameFlips
<1> QED BY <1>2, <1>3, <1>4, VblankDestroySound

(* present_execute_copy. *)
LEMMA ExecuteCopySound ==
  ASSUME NEW s \in State, NEW v \in Ids, NEW now \in Mscs, NEW refuse, NEW n,
         Sound(s, n, Unset), v # s.pending
  PROVE  Sound(ExecuteCopy(s, v, now, refuse), n, Unset)
<1>1. CASE Requeues(s, v, now, refuse)
  <2> DEFINE t == QueueVblank(s, v)
             b == [t.vb[v] EXCEPT !.queued = TRUE]
             x == t.execQ \cup {v}
             u == [t EXCEPT !.execQ = x]
             d == [u EXCEPT !.vb[v] = b]
  <2>1. t \in State /\ SameFlips(s, t)
    BY QueueVblankType, QueueVblankSame
  <2>2. Sound(t, n, Unset) /\ v # t.pending
    BY <2>1, SoundSame DEF SameFlips
  <2>3. b.queued /\ b.flip = t.vb[v].flip
    <3> HIDE DEF t
    <3> QED BY <2>1, OneVbType DEF Vblank
  <2>4. ExecuteCopy(s, v, now, refuse) = d
    <3>1. [t EXCEPT !.execQ = @ \cup {v}, !.vb[v].queued = TRUE] = d
      BY <2>1 DEF State
    <3> QED BY <1>1, <3>1 DEF ExecuteCopy
  <2> HIDE DEF t, b
  <2>5. x \in SUBSET Ids
    BY <2>1, FieldTypes
  <2> HIDE DEF x
  <2>6. u \in State /\ SameFlips(t, u) /\ u.vb = t.vb
    BY <2>1, <2>5 DEF State, SameFlips
  <2> HIDE DEF u
  <2>7. Sound(u, n, Unset) /\ v # u.pending
    BY <2>1, <2>2, <2>6, SoundSame DEF SameFlips
  <2>8. /\ d.flipQ = u.flipQ /\ d.pending = u.pending /\ d.unflip = u.unflip
        /\ d.flipWin = u.flipWin /\ d.flipPix = u.flipPix /\ d.halted = u.halted
        /\ d.vb[v] = b /\ \A w \in Ids \ {v} : d.vb[w] = u.vb[w]
    BY <2>6, OneVbFields
  <2> HIDE DEF d
  <2>9. u.pending \in Ids \cup {Unset} /\ b.flip = u.vb[v].flip
    BY <2>3, <2>6, FieldTypes
  <2> QED BY <2>3, <2>4, <2>7, <2>8, <2>9 DEF Sound
<1>2. CASE ~Requeues(s, v, now, refuse)
  <2> DEFINE t == PixmapIdle(s, v)
  <2>1. t \in State /\ SameFlips(s, t)
    BY PixmapIdleType, PixmapIdleSame
  <2>2. ExecuteCopy(s, v, now, refuse) = ExecutePost(t, v, now)
    BY <1>2 DEF ExecuteCopy
  <2> HIDE DEF t
  <2>3. Sound(t, n, v) /\ v # t.pending
    BY <2>1, SoundSame, SoundInHand DEF SameFlips
  <2> QED BY <2>1, <2>2, <2>3, ExecutePostSound
<1> QED BY <1>1, <1>2

(* The abort or unflip that precedes a copy to the flipping window. *)
LEMMA StopFlippingSound ==
  ASSUME NEW s \in State, NEW w, w # NoWin, NEW n, Sound(s, n, Unset)
  PROVE  /\ Sound(StopFlipping(s, w), n, Unset)
         /\ StopFlipping(s, w).pending = s.pending
<1>1. CASE s.pending # Unset
  <2>1. StopFlipping(s, w) \in {s, SetAbortFlip(s)}
    BY <1>1 DEF StopFlipping
  <2>2. SameFlips(s, SetAbortFlip(s))
    BY <1>1, SetAbortSame
  <2> QED BY <2>1, <2>2, SoundSame DEF SameFlips
<1>2. CASE s.pending = Unset /\ ~s.unflip /\ w = s.flipWin
  <2>1. s.flipPix # NoPix
    BY <1>2 DEF Sound
  <2>2. StopFlipping(s, w) = Unflip(s)
    BY <1>2 DEF StopFlipping
  <2> QED BY <1>2, <2>1, <2>2, UnflipSound
<1>3. CASE s.pending = Unset /\ ~(~s.unflip /\ w = s.flipWin)
  BY <1>3 DEF StopFlipping
<1> QED BY <1>1, <1>2, <1>3

(* A flip that must wait keeps its place on the queue, at the end. *)
LEMMA DeferFlipSound ==
  ASSUME NEW s \in State, NEW v \in Ids, NEW n, Sound(s, n, Unset), s.vb[v].flip
  PROVE  Sound(DeferFlip(s, v), n, Unset)
<1> DEFINE b == [s.vb[v] EXCEPT !.ready = TRUE]
           e == s.execQ \ {v}
           r == RemoveFirst(s.flipQ, v)
           q == Append(r, v)
           t == [s EXCEPT !.execQ = e, !.flipQ = q]
           d == [t EXCEPT !.vb[v] = b]
<1>1. DeferFlip(s, v) = d
  <2> HIDE DEF e, q
  <2> QED BY DEF DeferFlip, State, e, q
<1>2. /\ r \in Seq(Ids) /\ IsInjective(r)
      /\ \A u : Contains(r, u) => Contains(s.flipQ, u) /\ u # v
  BY FieldTypes, RemoveFirstType, RemoveFirstEntries DEF Sound
<1> HIDE DEF r
<1>3. q \in Seq(Ids) /\ IsInjective(q)
      /\ \A u : Contains(q, u) => Contains(s.flipQ, u) \/ u = v
  BY <1>2, AddEntry, AppendProperties
<1>4. e \in SUBSET Ids
  BY FieldTypes
<1> HIDE DEF e, q
<1>5. t \in State /\ t.flipQ = q /\ t.vb = s.vb
      /\ t.pending = s.pending /\ t.unflip = s.unflip
      /\ t.flipWin = s.flipWin /\ t.flipPix = s.flipPix /\ t.halted = s.halted
  BY <1>3, <1>4 DEF State
<1>6. b.flip = s.vb[v].flip /\ b.pix = s.vb[v].pix /\ b.queued = s.vb[v].queued
  BY OneVbType, ZenonT(30) DEF Vblank
<1> HIDE DEF t, b
<1>7. /\ d.flipQ = t.flipQ /\ d.pending = t.pending /\ d.unflip = t.unflip
      /\ d.flipWin = t.flipWin /\ d.flipPix = t.flipPix /\ d.halted = t.halted
      /\ d.vb[v] = b /\ \A w \in Ids \ {v} : d.vb[w] = t.vb[w]
  BY <1>5, OneVbFields
<1> HIDE DEF d
<1>8. s.pending \in Ids \cup {Unset} /\ v # Unset
  BY FieldTypes DEF Ids, Unset
<1>9. \A u \in Ids : /\ d.vb[u].flip = s.vb[u].flip /\ d.vb[u].pix = s.vb[u].pix
                     /\ d.vb[u].queued = s.vb[u].queued
  BY <1>5, <1>6, <1>7
<1>10. /\ d.flipQ = q /\ d.pending = s.pending /\ d.unflip = s.unflip
       /\ d.flipWin = s.flipWin /\ d.flipPix = s.flipPix /\ d.halted = s.halted
  BY <1>5, <1>7
<1>11. s.vb[v].queued \/ v = s.pending
  BY <1>8 DEF Sound
<1> QED BY <1>1, <1>3, <1>8, <1>9, <1>10, <1>11 DEF Sound

(* A flip starts when none is pending: v becomes the pending one. *)
LEMMA StartFlipSound ==
  ASSUME NEW s \in State, NEW v \in Ids, NEW n, Sound(s, n, v),
         s.pending = Unset, ~s.unflip, ~Contains(s.flipQ, v),
         s.vb[v].flip, s.vb[v].pix # NoPix, ~s.vb[v].queued
  PROVE  Sound(StartFlip(s, v), n, Unset)
<1> DEFINE b   == s.vb[v]
           due == IF b.sync /\ msc < MaxMsc THEN msc + 1 ELSE msc
           wp0 == IF s.flipWin \notin {NoWin, b.win}
                  THEN SetTreePixmap(s.winPix, s.flipWin, s.flipPix, Screen)
                  ELSE s.winPix
           wp1 == SetTreePixmap(wp0, b.win, NoPix, b.pix)
           wp2 == SetTreePixmap(wp1, Root, NoPix, b.pix)
           q   == <<v>> \o s.flipQ
           h   == s.hwFlip \cup {<<v, due>>}
           t   == [s EXCEPT !.pending = v, !.flipQ = q, !.hwFlip = h, !.winPix = wp2]
<1>1. StartFlip(s, v) = t
  BY DEF StartFlip
<1>2. /\ IsInjective(q)
      /\ \A u : Contains(q, u) => Contains(s.flipQ, u) \/ u = v
  BY FieldTypes, AddEntry DEF Sound
<1> HIDE DEF q, h, wp2
<1>3. /\ t.flipQ = q /\ t.vb = s.vb /\ t.pending = v /\ t.unflip = s.unflip
      /\ t.flipWin = s.flipWin /\ t.flipPix = s.flipPix /\ t.halted = s.halted
  BY DEF State
<1> HIDE DEF t
<1>4. \A u \in Ids : u # Unset
  BY DEF Ids, Unset
<1> QED BY <1>1, <1>2, <1>3, <1>4 DEF Sound

(* A refused flip. *)
LEMMA FlipRefusedSound ==
  ASSUME NEW s \in State, NEW v \in Ids, NEW n, Sound(s, n, v), v # s.pending
  PROVE  LET t == FlipRefused(s, v)
         IN  /\ t \in State /\ Sound(t, n, Unset) /\ t.pending = s.pending
<1> DEFINE b == [s.vb[v] EXCEPT !.flip = FALSE, !.exec = s.vb[v].target]
           t == [s EXCEPT !.vb[v] = b]
<1>1. FlipRefused(s, v) = t
  BY DEF FlipRefused, State
<1>0. t \in State
  BY <1>1, FlipRefusedType
<1>2. ~b.flip /\ b.queued = s.vb[v].queued
  BY OneVbType DEF Vblank
<1> HIDE DEF b
<1>3. /\ t.flipQ = s.flipQ /\ t.pending = s.pending /\ t.unflip = s.unflip
      /\ t.flipWin = s.flipWin /\ t.flipPix = s.flipPix /\ t.halted = s.halted
      /\ t.vb[v] = b /\ \A u \in Ids \ {v} : t.vb[u] = s.vb[u]
  BY OneVbFields
<1> HIDE DEF t
<1>4. s.pending \in Ids \cup {Unset}
  BY FieldTypes
<1> QED BY <1>0, <1>1, <1>2, <1>3, <1>4 DEF Sound

(* The second half of present_execute: a dequeued request flips or is copied. *)
LEMMA PresentSound ==
  ASSUME NEW s \in State, NEW v \in Ids, NEW now \in Mscs, NEW refuse, msc \in Mscs,
         NEW n, Sound(s, n, v), v # s.pending, ~Contains(s.flipQ, v),
         ~s.vb[v].queued, s.vb[v].win # NoWin, s.vb[v].pix # NoPix,
         s.vb[v].flip => s.pending = Unset /\ ~s.unflip
  PROVE  Sound(Present(s, v, now, refuse), n, Unset)
<1> DEFINE w == s.vb[v].win
           t == IF s.vb[v].flip THEN FlipRefused(s, v) ELSE s
           u == StopFlipping(t, w)
<1>1. t \in State /\ Sound(t, n, Unset) /\ t.pending = s.pending
  BY FlipRefusedSound, SoundOutOfHand
<1>2. Present(s, v, now, refuse)
        = IF s.vb[v].flip /\ "flip" \notin refuse THEN StartFlip(s, v)
          ELSE ExecuteCopy(u, v, now, refuse)
  BY DEF Present
<1> HIDE DEF t
<1>3. u \in State /\ Sound(u, n, Unset) /\ u.pending = s.pending
  BY <1>1, StopFlippingType, StopFlippingSound
<1> HIDE DEF u
<1>4. Sound(ExecuteCopy(u, v, now, refuse), n, Unset)
  BY <1>3, ExecuteCopySound
<1>5. CASE s.vb[v].flip /\ "flip" \notin refuse
  BY <1>2, <1>5, StartFlipSound
<1> QED BY <1>2, <1>4, <1>5

(* present_execute of any request: one that is already the pending flip only
   waits again, since it wants to flip while a flip is pending. *)
LEMMA ExecuteSound ==
  ASSUME NEW s \in State, NEW v \in Ids, NEW now \in Mscs, NEW refuse, msc \in Mscs,
         NEW n, Sound(s, n, Unset)
  PROVE  Sound(Execute(s, v, now, refuse), n, Unset)
<1>1. CASE s.vb[v].win = NoWin
  <2>1. Execute(s, v, now, refuse) = Halt(s, "null")
    BY <1>1 DEF Execute
  <2> DEFINE t == Halt(s, "null")
  <2>2. /\ t.flipQ = s.flipQ /\ t.pending = s.pending /\ t.unflip = s.unflip
        /\ t.flipWin = s.flipWin /\ t.flipPix = s.flipPix /\ t.vb = s.vb
        /\ t.halted \in {s.halted, "null"}
    BY DEF Halt, State
  <2> HIDE DEF t
  <2> QED BY <2>1, <2>2 DEF Sound, t
<1>2. CASE s.vb[v].win # NoWin /\ Requeues(s, v, now, refuse)
  <2>1. Execute(s, v, now, refuse) = QueueVblank(s, v)
    BY <1>2 DEF Execute
  <2> QED BY <2>1, QueueVblankSame, SoundSame
<1>3. CASE s.vb[v].win # NoWin /\ ~Requeues(s, v, now, refuse) /\ WaitsForFence(s, v)
  <2>1. Execute(s, v, now, refuse) = AwaitFence(s, v)
    BY <1>3 DEF Execute
  <2> QED BY <2>1, AwaitFenceSame, SoundSame
<1>4. CASE /\ s.vb[v].win # NoWin /\ ~Requeues(s, v, now, refuse)
           /\ ~WaitsForFence(s, v) /\ MustDefer(s, v)
  <2>1. Execute(s, v, now, refuse) = DeferFlip(s, v) /\ s.vb[v].flip
    BY <1>4 DEF Execute, MustDefer
  <2> QED BY <2>1, DeferFlipSound
<1>5. CASE /\ s.vb[v].win # NoWin /\ ~Requeues(s, v, now, refuse)
           /\ ~WaitsForFence(s, v) /\ ~MustDefer(s, v)
  <2> DEFINE t == Dequeue(s, v)
  <2>1. v # s.pending
    BY <1>5 DEF Sound, MustDefer, Ids, Unset
  <2>2. t \in State /\ Sound(t, n, v) /\ ~Contains(t.flipQ, v) /\ v # t.pending
        /\ ~t.vb[v].queued /\ t.vb[v].flip = s.vb[v].flip
        /\ t.vb[v].win = s.vb[v].win /\ t.vb[v].pix = s.vb[v].pix
        /\ t.pending = s.pending /\ t.unflip = s.unflip
    BY <2>1, SoundInHand, DequeueFields, DequeueSound
  <2> HIDE DEF t
  <2>3. CASE s.vb[v].pix # NoPix
    <3>1. Execute(s, v, now, refuse) = Present(t, v, now, refuse)
      BY <1>5, <2>3 DEF Execute, t
    <3>2. t.vb[v].flip => t.pending = Unset /\ ~t.unflip
      BY <1>5, <2>2, <2>3 DEF MustDefer
    <3> QED BY <1>5, <2>2, <2>3, <3>1, <3>2, PresentSound
  <2>4. CASE s.vb[v].pix = NoPix
    <3>1. Execute(s, v, now, refuse) = ExecutePost(t, v, now)
      BY <1>5, <2>4 DEF Execute, t
    <3> QED BY <2>2, <3>1, ExecutePostSound
  <2> QED BY <2>3, <2>4
<1> QED BY <1>1, <1>2, <1>3, <1>4, <1>5

(* present_flip_try_ready. *)
LEMMA FlipTryReadySound ==
  ASSUME NEW s \in State, NEW refuse, msc \in Mscs, NEW n, Sound(s, n, Unset)
  PROVE  Sound(FlipTryReady(s, refuse), n, Unset)
<1> DEFINE I == {i \in 1..Len(s.flipQ) : s.vb[s.flipQ[i]].queued}
           i0 == IF I # {} THEN Min(I) ELSE 0
<1>1. FlipTryReady(s, refuse) =
        IF i0 = 0 THEN s ELSE Execute(s, s.flipQ[i0], msc, refuse)
  BY SMTT(20) DEF FlipTryReady, SelectInSeq
<1>2. i0 # 0 => s.flipQ[i0] \in Ids
  <2>1. s.flipQ \in Seq(Ids)
    BY FieldTypes
  <2>2. I \in SUBSET Nat
    BY <2>1, LenProperties
  <2>3. I # {} => Min(I) \in I
    BY <2>2, MinIsLeast
  <2> QED
    BY <2>1, <2>3, ElementOfSeq
<1> HIDE DEF i0
<1> QED BY <1>1, <1>2, ExecuteSound

(* present_flip_idle: the screen's flip is forgotten whole. *)
LEMMA FlipIdleSound ==
  ASSUME NEW s \in State, NEW n, NEW x, Sound(s, n, x)
  PROVE  LET t == FlipIdle(s)
         IN  Sound(t, n, x) /\ t.pending = s.pending /\ t.unflip = s.unflip
<1>1. CASE s.flipPix = NoPix
  BY <1>1 DEF FlipIdle
<1>2. CASE s.flipPix # NoPix
  <2> DEFINE r == PixmapIdle(s, s.flipOf)
             t == DropPixmap(r, s.flipPix)
             u == [t EXCEPT !.flipWin = NoWin, !.flipOf = Unset, !.flipPix = NoPix]
  <2>1. r \in State /\ SameFlips(s, r)
    BY PixmapIdleType, PixmapIdleSame
  <2>2. FlipIdle(s) = u
    BY <1>2 DEF FlipIdle
  <2> HIDE DEF r
  <2>3. t \in State /\ SameFlips(r, t)
    BY <2>1, DropPixmapType, DropPixmapSame, FieldTypes
  <2> HIDE DEF t
  <2>4. Sound(t, n, x) /\ t.pending = s.pending /\ t.unflip = s.unflip
    BY <2>1, <2>3, SoundSame DEF SameFlips
  <2>5. /\ u.flipQ = t.flipQ /\ u.pending = t.pending /\ u.unflip = t.unflip
        /\ u.flipWin = NoWin /\ u.halted = t.halted /\ u.vb = t.vb
    BY <2>3 DEF State
  <2> HIDE DEF u
  <2> QED BY <2>2, <2>4, <2>5 DEF Sound
<1> QED BY <1>1, <1>2

(* The completed flip moves to the screen, and nothing is pending. *)
LEMMA TakeFlipSound ==
  ASSUME NEW s \in State, NEW v \in Ids, NEW n, Sound(s, n, Unset), s.pending = v
  PROVE  LET t == TakeFlip(s, v)
         IN  Sound(t, n, v) /\ t.pending = Unset /\ ~t.unflip /\ t.flipPix # NoPix
<1> DEFINE b == [s.vb[v] EXCEPT !.pix = NoPix]
           q == RemoveFirst(s.flipQ, v)
           w == s.vb[v].win
           p == s.vb[v].pix
           t == [s EXCEPT !.flipQ = q, !.flipOf = v, !.flipWin = w, !.flipPix = p,
                          !.pending = Unset]
           d == [t EXCEPT !.vb[v] = b]
<1>1. b \in Vblank /\ w \in Windows \cup {NoWin} /\ p \in Pixmaps \cup {NoPix}
      /\ b.flip = s.vb[v].flip /\ b.queued = s.vb[v].queued
  BY OneVbType DEF Vblank
<1>2. q \in Seq(Ids) /\ IsInjective(q)
      /\ \A u : Contains(q, u) => Contains(s.flipQ, u) /\ u # v
  BY FieldTypes, RemoveFirstType, RemoveFirstEntries DEF Sound
<1>3. p # NoPix /\ ~s.unflip
  BY DEF Sound, Ids, Unset
<1>4. TakeFlip(s, v) = d
  <2> HIDE DEF q, w, p
  <2> QED BY ZenonT(30) DEF TakeFlip, State, q, w, p
<1> HIDE DEF q, w, p
<1>5. t \in State /\ t.flipQ = q /\ t.vb = s.vb /\ t.pending = Unset
      /\ t.unflip = s.unflip /\ t.flipWin = w /\ t.flipPix = p /\ t.halted = s.halted
  BY <1>1, <1>2, ZenonT(30) DEF State
<1> HIDE DEF t, b
<1>6. /\ d.flipQ = t.flipQ /\ d.pending = t.pending /\ d.unflip = t.unflip
      /\ d.flipWin = t.flipWin /\ d.flipPix = t.flipPix /\ d.halted = t.halted
      /\ d.vb[v] = b /\ \A u \in Ids \ {v} : d.vb[u] = t.vb[u]
  BY <1>5, OneVbFields
<1> HIDE DEF d
<1> QED BY <1>1, <1>2, <1>3, <1>4, <1>5, <1>6 DEF Sound

(* present_flip_notify of the pending flip. *)
LEMMA FlipNotifySound ==
  ASSUME NEW s \in State, NEW v \in Ids, NEW now \in Mscs, NEW refuse, msc \in Mscs,
         NEW n, Sound(s, n, Unset), s.pending = v
  PROVE  Sound(FlipNotify(s, v, now, refuse), n, Unset)
<1> DEFINE i == FlipIdle(s)
           t == TakeFlip(i, v)
           u == IF s.vb[v].abort THEN Unflip(t) ELSE t
           y == VblankNotify(u, v, "flip", now)
           x == VblankDestroy(y, v)
<1>1. i \in State /\ Sound(i, n, Unset) /\ i.pending = v
  BY FlipIdleType, FlipIdleSound
<1>2. FlipNotify(s, v, now, refuse) = FlipTryReady(x, refuse)
  BY DEF FlipNotify
<1> HIDE DEF i
<1>3. t \in State /\ Sound(t, n, v) /\ t.pending = Unset /\ ~t.unflip /\ t.flipPix # NoPix
  BY <1>1, TakeFlipType, TakeFlipSound
<1> HIDE DEF t
<1>4. u \in State /\ Sound(u, n, v) /\ u.pending = Unset
  BY <1>3, UnflipType, UnflipSound
<1> HIDE DEF u
<1>5. y \in State /\ SameFlips(u, y)
  BY <1>4, VblankNotifyType, VblankNotifySame DEF Modes
<1> HIDE DEF y
<1>6. Sound(y, n, v) /\ v # y.pending
  BY <1>4, <1>5, SoundSame DEF SameFlips, Ids, Unset
<1>7. x \in State /\ Sound(x, n, Unset)
  BY <1>5, <1>6, VblankDestroyType, VblankDestroySound
<1> HIDE DEF x
<1> QED BY <1>2, <1>7, FlipTryReadySound

(* The end of an unflip. *)
LEMMA UnflipNotifySound ==
  ASSUME NEW s \in State, NEW refuse, msc \in Mscs, NEW n, Sound(s, n, Unset)
  PROVE  Sound(UnflipNotify(s, refuse), n, Unset)
<1> DEFINE t == [s EXCEPT !.unflip = FALSE]
           u == FlipIdle(t)
<1>1. /\ t \in State /\ t.flipQ = s.flipQ /\ t.pending = s.pending /\ ~t.unflip
      /\ t.flipWin = s.flipWin /\ t.flipPix = s.flipPix /\ t.vb = s.vb
      /\ t.halted = s.halted
  BY DEF State
<1>2. UnflipNotify(s, refuse) = FlipTryReady(u, refuse)
  BY DEF UnflipNotify
<1> HIDE DEF t
<1>3. Sound(t, n, Unset)
  BY <1>1 DEF Sound
<1>4. u \in State /\ Sound(u, n, Unset)
  BY <1>1, <1>3, FlipIdleType, FlipIdleSound
<1> HIDE DEF u
<1> QED BY <1>2, <1>4, FlipTryReadySound

(* present_event_notify: an unqueued id on the flip queue is the pending flip. *)
LEMMA EventNotifySound ==
  ASSUME NEW s \in State, NEW v \in Ids, NEW now \in Mscs, NEW refuse, msc \in Mscs,
         NEW n, Sound(s, n, Unset)
  PROVE  Sound(EventNotify(s, v, now, refuse), n, Unset)
<1>1. CASE v \notin s.execQ /\ Contains(s.flipQ, v) /\ ~s.vb[v].queued
  <2>1. s.pending = v
    BY <1>1 DEF Sound
  <2>2. EventNotify(s, v, now, refuse) = FlipNotify(s, v, now, refuse)
    BY <1>1 DEF EventNotify
  <2> QED BY <2>1, <2>2, FlipNotifySound
<1>2. CASE ~(v \notin s.execQ /\ Contains(s.flipQ, v) /\ ~s.vb[v].queued)
  <2>1. EventNotify(s, v, now, refuse) \in {s, Execute(s, v, now, refuse)}
    BY <1>2 DEF EventNotify
  <2> QED BY <2>1, ExecuteSound
<1> QED BY <1>1, <1>2

(* present_check_flip_window, the screen's part. *)
LEMMA StopLostFlipSound ==
  ASSUME NEW s \in State, NEW w \in Windows, NEW n, Sound(s, n, Unset), ~s.unflip
  PROVE  Sound(StopLostFlip(s, w), n, Unset)
<1>1. CASE s.pending # Unset
  <2>1. StopLostFlip(s, w) \in {s, SetAbortFlip(s)}
    BY <1>1 DEF StopLostFlip
  <2>2. SameFlips(s, SetAbortFlip(s))
    BY <1>1, SetAbortSame
  <2> QED BY <2>1, <2>2, SoundSame
<1>2. CASE s.pending = Unset /\ w = s.flipWin
  <2>1. s.flipPix # NoPix
    BY <1>2, SentinelAssumption DEF Sound
  <2>2. StopLostFlip(s, w) \in {s, Unflip(s)}
    BY <1>2 DEF StopLostFlip
  <2> QED BY <1>2, <2>1, <2>2, UnflipSound
<1>3. CASE s.pending = Unset /\ w # s.flipWin
  BY <1>3 DEF StopLostFlip
<1> QED BY <1>1, <1>2, <1>3

(* present_check_flip_window, the queued requests. *)
LEMMA RecheckQueuedSound ==
  ASSUME NEW s \in State, NEW w, NEW n, Sound(s, n, Unset)
  PROVE  Sound(RecheckQueued(s, w), n, Unset)
<1> DEFINE f == [v \in Ids |->
                   IF s.vb[v].queued /\ s.vb[v].win = w /\ s.vb[v].flip
                      /\ ~CheckFlip(s, w, s.vb[v].pix)
                   THEN LoseFlip(s.vb[v]) ELSE s.vb[v]]
           t == [s EXCEPT !.vb = f]
<1>1. RecheckQueued(s, w) = t
  BY DEF RecheckQueued
<1>2. ASSUME NEW v \in Ids
      PROVE  /\ f[v].queued = s.vb[v].queued /\ f[v].pix = s.vb[v].pix
             /\ f[v].flip => s.vb[v].flip
             /\ ~s.vb[v].queued => f[v].flip = s.vb[v].flip
  <2>1. s.vb[v] \in Vblank
    BY OneVbType
  <2>2. f[v] = s.vb[v] \/ (s.vb[v].queued /\ f[v] = LoseFlip(s.vb[v]))
    OBVIOUS
  <2>3. /\ LoseFlip(s.vb[v]).queued = s.vb[v].queued
        /\ LoseFlip(s.vb[v]).pix = s.vb[v].pix /\ ~LoseFlip(s.vb[v]).flip
    BY <2>1 DEF LoseFlip, Vblank
  <2> HIDE DEF f
  <2> QED BY <2>2, <2>3
<1> HIDE DEF f
<1>3. /\ t.flipQ = s.flipQ /\ t.pending = s.pending /\ t.unflip = s.unflip
      /\ t.flipWin = s.flipWin /\ t.flipPix = s.flipPix /\ t.vb = f
      /\ t.halted = s.halted
  BY DEF State
<1> HIDE DEF t
<1>4. s.pending \in Ids \cup {Unset}
  BY FieldTypes
<1> QED BY <1>1, <1>2, <1>3, <1>4 DEF Sound

(* present_check_flip_window. *)
LEMMA CheckFlipWindowSound ==
  ASSUME NEW s \in State, NEW w \in Windows, NEW n, Sound(s, n, Unset)
  PROVE  Sound(CheckFlipWindow(s, w), n, Unset)
<1>1. CASE s.unflip
  BY <1>1 DEF CheckFlipWindow
<1>2. CASE ~s.unflip
  BY <1>2, StopLostFlipType, StopLostFlipSound, RecheckQueuedSound DEF CheckFlipWindow
<1> QED BY <1>1, <1>2

(* present_clear_window_flip. *)
LEMMA ClearWindowFlipSound ==
  ASSUME NEW s \in State, NEW w \in Windows, NEW n, Sound(s, n, Unset)
  PROVE  Sound(ClearWindowFlip(s, w), n, Unset)
<1> DEFINE a == SetAbortFlip(s)
           p == s.pending
           b == [a.vb[p] EXCEPT !.win = NoWin]
           c == [a EXCEPT !.vb[p] = b]
           t == IF s.pending # Unset /\ s.vb[s.pending].win = w
                THEN [SetAbortFlip(s) EXCEPT !.vb[s.pending].win = NoWin] ELSE s
           r == RestoreScreenPixmap(t)
           d == [r EXCEPT !.flipWin = NoWin]
<1>1. t \in State /\ Sound(t, n, Unset)
  <2>1. CASE s.pending # Unset /\ s.vb[s.pending].win = w
    <3>1. a \in State /\ SameFlips(s, a) /\ p \in Ids
      BY <2>1, SetAbortFlipType, SetAbortSame, PendingType
    <3>2. t = c
      BY <2>1
    <3> HIDE DEF a, p, t
    <3>3. b \in Vblank /\ b.flip = a.vb[p].flip /\ b.pix = a.vb[p].pix
          /\ b.queued = a.vb[p].queued
      <4>1. a.vb[p] \in Vblank
        BY <3>1, OneVbType
      <4> QED BY <4>1 DEF Vblank
    <3> HIDE DEF b
    <3>4. c \in State /\ SameFlips(a, c)
      BY <3>1, <3>3, SetOneVb, OneVbSame
    <3> HIDE DEF c
    <3> QED BY <3>1, <3>2, <3>4, SoundSame
  <2>2. CASE ~(s.pending # Unset /\ s.vb[s.pending].win = w)
    BY <2>2
  <2> QED BY <2>1, <2>2
<1>2. ClearWindowFlip(s, w) = IF t.flipWin = w THEN d ELSE t
  BY DEF ClearWindowFlip
<1> HIDE DEF t
<1>3. CASE t.flipWin = w
  <2>1. t.flipPix # NoPix
    BY <1>1, <1>3, SentinelAssumption DEF Sound
  <2>2. r \in State /\ SameFlips(t, r)
    BY <1>1, <2>1, RestoreScreenPixmapType, RestoreSame
  <2> HIDE DEF r
  <2>3. Sound(r, n, Unset)
    BY <1>1, <2>2, SoundSame
  <2>4. /\ d.flipQ = r.flipQ /\ d.pending = r.pending /\ d.unflip = r.unflip
        /\ d.flipWin = NoWin /\ d.flipPix = r.flipPix /\ d.vb = r.vb
        /\ d.halted = r.halted
    BY <2>2 DEF State
  <2> HIDE DEF d
  <2> QED BY <1>2, <1>3, <2>3, <2>4 DEF Sound
<1> QED BY <1>1, <1>2, <1>3

(* Scrapping queued requests: the pending flip is not one. *)
LEMMA ScrapSound ==
  ASSUME NEW s \in State, NEW old \in SUBSET Ids, NEW n, Sound(s, n, Unset),
         \A v \in old : s.vb[v].queued
  PROVE  Sound(Scrap(s, old), n, Unset)
<1> DEFINE i == [v \in Ids |-> IF v \in old THEN s.idle[v] + 1 ELSE s.idle[v]]
           f == [p \in Pixmaps |->
                   s.refs[p] - Cardinality({v \in old : s.vb[v].pix = p})]
           g == [v \in Ids |-> IF v \in old
                   THEN [s.vb[v] EXCEPT !.pix = NoPix, !.flip = FALSE] ELSE s.vb[v]]
           t == [s EXCEPT !.idle = i, !.refs = f, !.vb = g]
<1>1. Scrap(s, old) = t
  BY DEF Scrap
<1>2. \A v \in Ids \ old : g[v] = s.vb[v]
  OBVIOUS
<1>3. ASSUME NEW v \in old
      PROVE  ~g[v].flip /\ g[v].queued
  <2>1. s.vb[v] \in Vblank /\ v \in Ids
    BY OneVbType
  <2>2. g[v] = [s.vb[v] EXCEPT !.pix = NoPix, !.flip = FALSE]
    BY <2>1
  <2> QED BY <2>1, <2>2 DEF Vblank
<1> HIDE DEF i, f, g
<1>4. /\ t.flipQ = s.flipQ /\ t.pending = s.pending /\ t.unflip = s.unflip
      /\ t.flipWin = s.flipWin /\ t.flipPix = s.flipPix /\ t.vb = g
      /\ t.halted = s.halted
  BY DEF State
<1> HIDE DEF t
<1>5. s.pending \in Ids \cup {Unset} /\ s.pending \notin old
  BY FieldTypes DEF Sound, Ids, Unset
<1> QED BY <1>1, <1>2, <1>3, <1>4, <1>5 DEF Sound

(* A new request, queued, takes the next id. *)
LEMMA VblankCreateSound ==
  ASSUME NEW s \in State, NEW n \in Ids, NEW w \in Windows, NEW p \in Pixmaps \cup {NoPix},
         NEW opt \in OptionRecord, NEW f \in Fences \cup {NoFence}, NEW target \in Mscs,
         msc \in Mscs, Sound(s, n, Unset)
  PROVE  Sound(VblankCreate(s, n, w, p, opt, f, target), n + 1, Unset)
<1> DEFINE able == p # NoPix /\ ~opt.copy /\ CheckFlip(s, w, p)
           sync == able /\ target > msc
           flip == able /\ (sync \/ AsyncCap)
           kind == IF p = NoPix THEN "msc" ELSE "pixmap"
           exec == ExecMsc(sync, target)
           b == [win |-> w, pix |-> p, kind |-> kind, target |-> target, exec |-> exec,
                 update |-> opt.update, flip |-> flip, sync |-> sync,
                 ready |-> FALSE, queued |-> TRUE, abort |-> FALSE,
                 wait |-> f, cb |-> FALSE]
           h == HoldPixmap(s, p)
           e == h.execQ \cup {n}
           t == [h EXCEPT !.execQ = e]
           d == [t EXCEPT !.vb[n] = b]
<1>1. h \in State /\ SameFlips(s, h)
  BY HoldPixmapType, HoldPixmapSame
<1>2. VblankCreate(s, n, w, p, opt, f, target) = d
  <2>1. VblankCreate(s, n, w, p, opt, f, target) = [h EXCEPT !.vb[n] = b, !.execQ = e]
    BY DEF VblankCreate
  <2> HIDE DEF b, e, h
  <2> QED BY <1>1, <2>1 DEF State
<1>3. b.queued
  OBVIOUS
<1> HIDE DEF b, h
<1>4. e \in SUBSET Ids
  BY <1>1, FieldTypes
<1> HIDE DEF e
<1>5. t \in State /\ SameFlips(h, t) /\ t.vb = h.vb
  BY <1>1, <1>4 DEF State, SameFlips
<1> HIDE DEF t
<1>6. Sound(t, n, Unset)
  BY <1>1, <1>5, SoundSame
<1>7. /\ d.flipQ = t.flipQ /\ d.pending = t.pending /\ d.unflip = t.unflip
      /\ d.flipWin = t.flipWin /\ d.flipPix = t.flipPix /\ d.halted = t.halted
      /\ d.vb[n] = b /\ \A u \in Ids \ {n} : d.vb[u] = t.vb[u]
  BY <1>5, OneVbFields
<1> HIDE DEF d
<1>8. t.pending \in Ids \cup {Unset}
  BY <1>5, FieldTypes
<1>9. n \in Int /\ \A u \in Ids : u \in Int
  BY DEF Ids
<1>10. t.pending # n
  BY <1>6, <1>9 DEF Sound, Ids, Unset
<1>11. \A u \in Ids : d.vb[u].flip => u < n + 1 /\ (d.vb[u].queued \/ u = d.pending)
  <2>1. TAKE u \in Ids
  <2>2. CASE u = n
    BY <1>3, <1>7, <1>9, <2>2
  <2>3. CASE u # n
    <3>1. d.vb[u] = t.vb[u]
      BY <1>7, <2>3
    <3>2. t.vb[u].flip => u < n /\ (t.vb[u].queued \/ u = t.pending)
      BY <1>6 DEF Sound, Ids, Unset
    <3> QED BY <1>7, <1>9, <3>1, <3>2
  <2> QED BY <2>2, <2>3
<1> QED BY <1>2, <1>3, <1>6, <1>7, <1>8, <1>10, <1>11 DEF Sound

(* present_scmd_pixmap, whole. *)
LEMMA SubmittedSound ==
  ASSUME NEW s \in State, NEW n \in Ids, NEW w \in Windows, NEW p \in Pixmaps \cup {NoPix},
         NEW opt \in OptionRecord, NEW f \in Fences \cup {NoFence}, NEW target \in Mscs,
         NEW refuse, msc \in Mscs, Sound(s, n, Unset)
  PROVE  Sound(Submitted(s, n, w, p, opt, f, target, refuse), n + 1, Unset)
<1> DEFINE old == IF p = NoPix \/ opt.update THEN {} ELSE Superseded(s, w, target)
           c == Scrap(s, old)
           t == VblankCreate(c, n, w, p, opt, f, target)
<1>1. old \in SUBSET Ids /\ \A v \in old : s.vb[v].queued
  BY DEF Superseded
<1>2. Submitted(s, n, w, p, opt, f, target, refuse)
        \in {QueueVblank(t, n), Execute(t, n, msc, refuse)}
  BY DEF Submitted
<1> HIDE DEF old
<1>3. c \in State /\ Sound(c, n, Unset)
  BY <1>1, ScrapType, ScrapSound
<1> HIDE DEF c
<1>4. t \in State /\ Sound(t, n + 1, Unset)
  BY <1>3, VblankCreateType, VblankCreateSound
<1> HIDE DEF t
<1>5. Sound(QueueVblank(t, n), n + 1, Unset)
  BY <1>4, QueueVblankSame, SoundSame
<1> QED BY <1>2, <1>4, <1>5, ExecuteSound

-----------------------------------------------------------------------------
(* Actions.                                                                 *)

(* Between actions no request is in hand, and ids from nextId on are new. *)
SoundInv == Sound(Cur, nextId, Unset)

(* An action that becomes a sound state. *)
LEMMA BecomeSound ==
  ASSUME NEW s \in State, NEW n, Sound(s, n, Unset), Become(s), nextId' = n
  PROVE  SoundInv'
<1>1. /\ Cur'.flipQ = s.flipQ /\ Cur'.pending = s.pending /\ Cur'.unflip = s.unflip
      /\ Cur'.flipWin = s.flipWin /\ Cur'.flipPix = s.flipPix /\ Cur'.vb = s.vb
      /\ Cur'.halted = s.halted
  BY DEF Become, Cur
<1> QED BY <1>1 DEF Sound, SoundInv

(* The initial states are sound. *)
LEMMA SoundInit == Init => SoundInv
<1> SUFFICES ASSUME Init PROVE SoundInv
  OBVIOUS
<1>1. /\ Cur.vb = vb /\ Cur.flipQ = <<>> /\ Cur.pending = Unset
      /\ Cur.flipWin = NoWin /\ Cur.halted = "no"
  BY DEF Init, Cur
<1>2. \A v \in Ids : ~vb[v].flip
  BY DEF Init, Fresh
<1>3. IsInjective(<<>>) /\ \A v : ~Contains(<<>>, v)
  BY DEF IsInjective, Contains
<1> QED BY <1>1, <1>2, <1>3 DEF SoundInv, Sound

(* A request keeps it. *)
LEMMA SubmitSound ==
  ASSUME TypeOK, SoundInv, NEW w \in Windows, NEW p \in Pixmaps \cup {NoPix},
         NEW opt \in OptionRecord, NEW f \in Fences \cup {NoFence},
         NEW wmsc \in Nat, NEW m \in Nat \X Nat, NEW refuse,
         Submit(w, p, opt, f, wmsc, m, refuse)
  PROVE  SoundInv'
<1> DEFINE target == AdjustTimings(opt.async, msc, wmsc, m[1], m[2])
           s == Submitted(Cur, nextId, w, p, opt, f, target, refuse)
<1>1. msc \in Mscs /\ msc \in Nat /\ Cur \in State /\ nextId \in Ids /\ target <= MaxMsc
  BY BoundsAssumption DEF TypeOK, Mscs, Submit
<1>2. target \in Nat
  BY <1>1, AdjustTimingsType DEF OptionRecord
<1>3. target \in Mscs
  <2> HIDE DEF target
  <2> QED BY <1>1, <1>2, BoundsAssumption DEF Mscs
<1>4. Become(s) /\ nextId' = nextId + 1
  BY DEF Submit
<1> HIDE DEF target
<1>5. s \in State /\ Sound(s, nextId + 1, Unset)
  BY <1>1, <1>3, SubmittedType, SubmittedSound DEF SoundInv
<1> HIDE DEF s
<1> QED BY <1>4, <1>5, BecomeSound

(* Every step keeps it: one step of the proof for each action. *)
LEMMA SoundNext ==
  ASSUME TypeOK, SoundInv, [Next]_vars
  PROVE  SoundInv'
<1>0. msc \in Mscs /\ Cur \in State /\ Sound(Cur, nextId, Unset)
  BY DEF Mscs, TypeOK, SoundInv
<1>1. CASE ClientRequest
  <2>1. PICK w \in Windows, wmsc \in Targets, m \in Moduli, refuse \in SUBSET Refusable :
          \/ \E p \in Pixmaps, opt \in Options, f \in Fences \cup {NoFence} :
                PresentPixmap(w, p, opt, f, wmsc, m, refuse)
          \/ NotifyMsc(w, wmsc, m, refuse)
    BY <1>1 DEF ClientRequest
  <2>2. wmsc \in Nat /\ m \in Nat \X Nat
    BY InputAssumption
  <2>3. CASE \E p \in Pixmaps, opt \in Options, f \in Fences \cup {NoFence} :
               PresentPixmap(w, p, opt, f, wmsc, m, refuse)
    BY <2>2, <2>3, SubmitSound, InputAssumption DEF PresentPixmap
  <2>4. CASE NotifyMsc(w, wmsc, m, refuse)
    <3> DEFINE opt == [async |-> m[1] = 0, copy |-> FALSE, update |-> FALSE]
    <3>1. opt \in OptionRecord
      BY DEF OptionRecord
    <3>2. Submit(w, NoPix, opt, NoFence, wmsc, m, refuse)
      BY <2>4 DEF NotifyMsc
    <3> HIDE DEF opt
    <3> QED BY <2>2, <3>1, <3>2, SubmitSound
  <2> QED BY <2>1, <2>3, <2>4
<1>2. ASSUME NEW e \in Events, NEW at \in 0..MaxMsc, NEW refuse, VblankEvent(e, at, refuse)
      PROVE  SoundInv'
  <2> DEFINE f == [vbl EXCEPT ![e] = @ - 1]
             s == [Cur EXCEPT !.vbl = f]
             t == EventNotify(s, e[1], at, refuse)
  <2>1. f \in [Events -> Nat]
    <3>1. vbl \in [Events -> Nat]
      BY <1>0 DEF Cur, State
    <3> QED BY <3>1, <1>2 DEF VblankEvent
  <2>2. Become(t) /\ nextId' = nextId
    <3>1. s = [Cur EXCEPT !.vbl[e] = @ - 1]
      BY DEF Cur
    <3> QED BY <1>2, <3>1 DEF VblankEvent
  <2> HIDE DEF f
  <2>3. s \in State /\ SameFlips(Cur, s)
    BY <1>0, <2>1 DEF State, SameFlips
  <2> HIDE DEF s
  <2>4. Sound(s, nextId, Unset)
    BY <1>0, <2>3, SoundSame
  <2>5. t \in State /\ Sound(t, nextId, Unset)
    BY <1>0, <2>3, <2>4, EventNotifyType, EventNotifySound DEF Events, Mscs
  <2> HIDE DEF t
  <2> QED BY <2>2, <2>5, BecomeSound
<1>3. ASSUME NEW e \in hwFlip, NEW at \in 0..MaxMsc, NEW refuse, FlipEvent(e, at, refuse)
      PROVE  SoundInv'
  <2> DEFINE h == hwFlip \ {e}
             s == [Cur EXCEPT !.hwFlip = h]
             t == EventNotify(s, e[1], at, refuse)
  <2>1. h \in SUBSET Events /\ e[1] \in Ids
    BY <1>0 DEF Cur, State, Events
  <2>2. Become(t) /\ nextId' = nextId
    <3>1. s = [Cur EXCEPT !.hwFlip = @ \ {e}]
      BY DEF Cur
    <3> QED BY <1>3, <3>1 DEF FlipEvent
  <2> HIDE DEF h
  <2>3. s \in State /\ SameFlips(Cur, s)
    BY <1>0, <2>1 DEF State, SameFlips
  <2> HIDE DEF s
  <2>4. Sound(s, nextId, Unset)
    BY <1>0, <2>3, SoundSame
  <2>5. t \in State /\ Sound(t, nextId, Unset)
    BY <1>0, <2>1, <2>3, <2>4, EventNotifyType, EventNotifySound DEF Mscs
  <2> HIDE DEF t
  <2> QED BY <2>2, <2>5, BecomeSound
<1>4. ASSUME NEW refuse, UnflipEvent(refuse)
      PROVE  SoundInv'
  <2> DEFINE n == hwUnflip - 1
             s == [Cur EXCEPT !.hwUnflip = n]
             t == IF unflip THEN UnflipNotify(s, refuse) ELSE s
  <2>1. n \in Nat
    <3>1. hwUnflip \in Nat
      BY <1>0 DEF Cur, State
    <3> QED BY <1>4, <3>1 DEF UnflipEvent
  <2>2. Become(t) /\ nextId' = nextId
    <3>1. s = [Cur EXCEPT !.hwUnflip = @ - 1]
      BY DEF Cur
    <3> QED BY <1>4, <3>1 DEF UnflipEvent
  <2> HIDE DEF n
  <2>3. s \in State /\ SameFlips(Cur, s)
    BY <1>0, <2>1 DEF State, SameFlips
  <2> HIDE DEF s
  <2>4. Sound(s, nextId, Unset)
    BY <1>0, <2>3, SoundSame
  <2>5. t \in State /\ Sound(t, nextId, Unset)
    BY <1>0, <2>3, <2>4, UnflipNotifyType, UnflipNotifySound
  <2> HIDE DEF t
  <2> QED BY <2>2, <2>5, BecomeSound
<1>5. ASSUME NEW refuse, ReExecute(refuse)
      PROVE  SoundInv'
  <2> DEFINE v == Max(todo)
             t == Execute(Cur, v, msc, refuse)
  <2>1. v \in Ids
    <3>1. todo \in SUBSET Ids /\ todo # {}
      BY <1>5 DEF ReExecute, TypeOK
    <3>2. \E x \in todo : \A y \in todo : x >= y
      BY <3>1, GreatestId
    <3> QED BY <3>1, <3>2 DEF Max
  <2>2. Become(t) /\ nextId' = nextId
    BY <1>5 DEF ReExecute
  <2> HIDE DEF v
  <2>3. t \in State /\ Sound(t, nextId, Unset)
    BY <1>0, <2>1, ExecuteType, ExecuteSound
  <2> HIDE DEF t
  <2> QED BY <2>2, <2>3, BecomeSound
<1>6. ASSUME NEW drop \in BOOLEAN, FreeWindowVblank(drop)
      PROVE  SoundInv'
  <2> DEFINE v == Min(QueuedOn(dying))
             f == [e \in Events |-> IF drop /\ e[1] = v THEN 0 ELSE vbl[e]]
             s == [Cur EXCEPT !.vbl = f]
             t == VblankDestroy(s, v)
  <2>1. v \in Ids /\ Cur.vb[v].queued
    <3>1. QueuedOn(dying) \in SUBSET Nat /\ QueuedOn(dying) # {}
          /\ \A u \in QueuedOn(dying) : u \in Ids /\ Cur.vb[u].queued
      BY <1>6 DEF FreeWindowVblank, QueuedOn, Ids, Cur
    <3> QED BY <3>1, MinIsLeast
  <2>2. Become(t) /\ nextId' = nextId
    <3>1. s = [Cur EXCEPT !.vbl = [e \in Events |-> IF drop /\ e[1] = v THEN 0 ELSE @[e]]]
      BY DEF Cur
    <3> HIDE DEF s
    <3> QED BY <1>6, <3>1 DEF FreeWindowVblank
  <2> HIDE DEF v
  <2>3. f \in [Events -> Nat]
    BY <1>0 DEF Cur, State
  <2> HIDE DEF f
  <2>4. s \in State /\ SameFlips(Cur, s) /\ s.pending = Cur.pending
    BY <1>0, <2>3 DEF State, SameFlips
  <2> HIDE DEF s
  <2>5. Sound(s, nextId, v) /\ v # s.pending
    <3>1. v # Unset /\ v # Cur.pending
      BY <1>0, <2>1 DEF Sound, Ids, Unset
    <3> QED BY <1>0, <2>4, <3>1, SoundSame, SoundInHand
  <2>6. t \in State /\ Sound(t, nextId, Unset)
    BY <2>1, <2>4, <2>5, VblankDestroyType, VblankDestroySound
  <2> HIDE DEF t
  <2> QED BY <2>2, <2>6, BecomeSound
<1>7. CASE FinishDestroy
  <2> DEFINE t == ClearWindowFlip(Cur, dying)
  <2>1. Become(t) /\ nextId' = nextId /\ dying \in Windows
    BY <1>7 DEF FinishDestroy, TypeOK
  <2>2. t \in State /\ Sound(t, nextId, Unset)
    BY <1>0, <2>1, ClearWindowFlipType, ClearWindowFlipSound
  <2> HIDE DEF t
  <2> QED BY <2>1, <2>2, BecomeSound
<1>8. ASSUME NEW f \in Fences, TriggerFence(f) \/ ResetFence(f) \/ DestroyFence(f)
      PROVE  SoundInv'
  <2>1. Become(Cur) /\ UNCHANGED <<held, nextId>>
    BY <1>8, FenceSteps
  <2> QED BY <1>0, <2>1, BecomeSound
<1>9. ASSUME NEW w \in Windows, ClipNotify(w) \/ DestroyWindow(w)
      PROVE  SoundInv'
  <2>1. PICK x \in SUBSET Windows : Become(CheckFlipWindow([Cur EXCEPT !.full = x], w))
    BY <1>9, ClipSteps
  <2> DEFINE s == [Cur EXCEPT !.full = x]
             t == CheckFlipWindow(s, w)
  <2>2. s \in State /\ SameFlips(Cur, s)
    BY <1>0 DEF State, SameFlips
  <2>3. Become(t) /\ nextId' = nextId
    BY <1>9, <2>1 DEF ClipNotify, DestroyWindow
  <2> HIDE DEF s
  <2>4. Sound(s, nextId, Unset)
    BY <1>0, <2>2, SoundSame
  <2>5. t \in State /\ Sound(t, nextId, Unset)
    BY <2>2, <2>4, CheckFlipWindowType, CheckFlipWindowSound
  <2> HIDE DEF t
  <2> QED BY <2>3, <2>5, BecomeSound
<1>10. ASSUME NEW p \in Pixmaps, FreePixmap(p)
       PROVE  SoundInv'
  <2>1. /\ Cur'.flipQ = Cur.flipQ /\ Cur'.pending = Cur.pending
        /\ Cur'.unflip = Cur.unflip /\ Cur'.flipWin = Cur.flipWin
        /\ Cur'.flipPix = Cur.flipPix /\ Cur'.vb = Cur.vb /\ Cur'.halted = Cur.halted
        /\ nextId' = nextId
    BY <1>10 DEF FreePixmap, Cur, server
  <2> QED BY <1>0, <2>1 DEF SoundInv, Sound
<1>11. CASE CloseScreen
  <2> DEFINE s == IF pending # Unset THEN SetAbortFlip(Cur) ELSE Cur
             u == FlipIdle(s)
             t == Halt(u, "closed")
  <2>1. Become(t) /\ nextId' = nextId
    BY <1>11 DEF CloseScreen
  <2>2. s \in State /\ Sound(s, nextId, Unset)
    <3>1. CASE pending # Unset
      <4>1. Cur.pending # Unset
        BY <3>1 DEF Cur
      <4>2. SetAbortFlip(Cur) \in State /\ SameFlips(Cur, SetAbortFlip(Cur))
        BY <1>0, <4>1, SetAbortFlipType, SetAbortSame
      <4> QED BY <1>0, <3>1, <4>2, SoundSame
    <3>2. CASE pending = Unset
      BY <1>0, <3>2
    <3> QED BY <3>1, <3>2
  <2> HIDE DEF s
  <2>3. u \in State /\ Sound(u, nextId, Unset)
    BY <2>2, FlipIdleType, FlipIdleSound
  <2> HIDE DEF u
  <2>4. t \in State
    BY <2>3, HaltType
  <2>5. /\ t.flipQ = u.flipQ /\ t.pending = u.pending /\ t.unflip = u.unflip
        /\ t.flipWin = u.flipWin /\ t.flipPix = u.flipPix /\ t.vb = u.vb
        /\ t.halted \in {u.halted, "closed"}
    BY <2>3 DEF Halt, State
  <2> HIDE DEF t
  <2>6. Sound(t, nextId, Unset)
    BY <2>3, <2>5 DEF Sound
  <2> QED BY <2>1, <2>4, <2>6, BecomeSound
<1>12. CASE Tick
  BY <1>12 DEF Tick, SoundInv, Cur, server, dix, client
<1>13. CASE UNCHANGED vars
  BY <1>13 DEF vars, server, dix, driver, client, Cur, SoundInv
<1> QED
  BY <1>1, <1>2, <1>3, <1>4, <1>5, <1>6, <1>7, <1>8, <1>9, <1>10, <1>11, <1>12, <1>13,
     InputAssumption
  DEF Next, DriverEvent, Loop, Environment

(* What the flip queue, the pending flip and the screen's flip say of each
   other holds in every behaviour: no flip is pending during an unflip, an
   unqueued entry of the flip queue is the pending flip, which keeps its
   pixmap, and a flipping window has a flipping pixmap. *)
THEOREM SoundAlways == Spec => []SoundInv
<1>1. Init => TypeOK /\ SoundInv
  BY TypeInit, SoundInit
<1>2. TypeOK /\ SoundInv /\ [Next]_vars => TypeOK' /\ SoundInv'
  BY TypeNext, SoundNext
<1>3. Spec => [](TypeOK /\ SoundInv)
  BY <1>1, <1>2, PTL DEF Spec
<1> QED BY <1>3, PTL

(* No assertion of present_unflip, present_flip_notify or
   present_restore_screen_pixmap fails, whatever windows, fences, requests,
   refusals and driver events there are. *)
THEOREM AssertionsHold == Spec => []NoAssertionFails
<1>1. SoundInv => NoAssertionFails
  BY DEF SoundInv, Sound, NoAssertionFails, Cur
<1> QED BY <1>1, SoundAlways, PTL

-----------------------------------------------------------------------------
(* References of pixmaps.  RefsExact is inductive once it says that requests *)
(* from n on hold nothing; h is the set of pixmaps the client has not freed. *)

Holders(s, p) == {v \in Ids : s.vb[v].pix = p}

One(b) == IF b THEN 1 ELSE 0

Counted(s, h, n) ==
  /\ \A p \in Pixmaps : s.refs[p] = One(p \in h) + One(p = s.flipPix)
                                    + Cardinality(Holders(s, p))
  /\ \A v \in Ids : v >= n => s.vb[v].pix = NoPix

(* What Counted depends on.                                                  *)
SameRefs(s, t) ==
  /\ t.refs = s.refs /\ t.flipPix = s.flipPix
  /\ \A v \in Ids : t.vb[v].pix = s.vb[v].pix

(* Holders are finitely many. *)
LEMMA HoldersFinite ==
  ASSUME NEW s, NEW p
  PROVE  IsFiniteSet(Holders(s, p)) /\ Cardinality(Holders(s, p)) \in Nat
<1>1. IsFiniteSet(Ids)
  BY FS_Interval, BoundsAssumption DEF Ids
<1> QED BY <1>1, FS_Subset, FS_CardinalityType DEF Holders

(* Counted says nothing of the rest of the state. *)
LEMMA CountedSame ==
  ASSUME NEW s, NEW t, NEW h, NEW n, Counted(s, h, n), SameRefs(s, t)
  PROVE  Counted(t, h, n)
<1>1. \A p : Holders(t, p) = Holders(s, p)
  BY DEF Holders, SameRefs
<1> QED BY <1>1 DEF Counted, SameRefs

(* A step that leaves references alone, then another. *)
LEMMA SameRefsTwice ==
  ASSUME NEW s, NEW t, NEW u, SameRefs(s, t), SameRefs(t, u)
  PROVE  SameRefs(s, u)
BY DEF SameRefs

(* Writing one vblank. *)
LEMMA OneVbRefs ==
  ASSUME NEW s \in State, NEW v \in Ids, NEW b
  PROVE  LET t == [s EXCEPT !.vb[v] = b]
         IN  /\ t.refs = s.refs /\ t.flipPix = s.flipPix
             /\ t.vb[v] = b /\ \A u \in Ids \ {v} : t.vb[u] = s.vb[u]
BY FieldTypes DEF State

(* A vblank written with the same pixmap. *)
LEMMA OneVbSameRefs ==
  ASSUME NEW s \in State, NEW v \in Ids, NEW b, b.pix = s.vb[v].pix
  PROVE  SameRefs(s, [s EXCEPT !.vb[v] = b])
<1> DEFINE t == [s EXCEPT !.vb[v] = b]
<1>1. /\ t.refs = s.refs /\ t.flipPix = s.flipPix
      /\ t.vb[v] = b /\ \A u \in Ids \ {v} : t.vb[u] = s.vb[u]
  BY OneVbRefs
<1> HIDE DEF t
<1> QED BY <1>1 DEF SameRefs

(* Stopping on an assertion. *)
LEMMA HaltRefs ==
  ASSUME NEW s \in State, NEW why
  PROVE  SameRefs(s, Halt(s, why))
BY DEF Halt, SameRefs, State

(* present_restore_screen_pixmap. *)
LEMMA RestoreRefs ==
  ASSUME NEW s \in State
  PROVE  SameRefs(s, RestoreScreenPixmap(s))
<1> DEFINE fw == IF s.pending # Unset THEN s.vb[s.pending].win ELSE s.flipWin
           fp == IF s.pending # Unset THEN s.vb[s.pending].pix ELSE s.flipPix
           t  == IF fp = NoPix THEN Halt(s, "assert") ELSE s
           w1 == IF fw # NoWin THEN SetTreePixmap(t.winPix, fw, fp, Screen)
                               ELSE t.winPix
           w2 == SetTreePixmap(w1, Root, NoPix, Screen)
           r  == [t EXCEPT !.winPix = w2]
<1>1. t \in State /\ SameRefs(s, t)
  <2>1. SameRefs(s, s)
    BY DEF SameRefs
  <2> QED BY <2>1, HaltType, HaltRefs
<1>2. RestoreScreenPixmap(s) = r
  BY DEF RestoreScreenPixmap
<1> HIDE DEF t, w2
<1>3. SameRefs(t, r)
  BY <1>1 DEF SameRefs, State
<1> HIDE DEF r
<1> QED BY <1>1, <1>2, <1>3, SameRefsTwice

(* present_set_abort_flip. *)
LEMMA SetAbortRefs ==
  ASSUME NEW s \in State, s.pending # Unset
  PROVE  SameRefs(s, SetAbortFlip(s))
<1> DEFINE t == RestoreScreenPixmap(s)
           v == s.pending
           b == [t.vb[v] EXCEPT !.abort = TRUE]
<1>1. t \in State /\ SameRefs(s, t) /\ v \in Ids
  BY RestoreScreenPixmapType, RestoreRefs, PendingType
<1>2. SetAbortFlip(s) \in {s, [t EXCEPT !.vb[v] = b]}
  BY DEF SetAbortFlip
<1>3. SameRefs(s, s)
  BY DEF SameRefs
<1> HIDE DEF t, v
<1>4. b.pix = t.vb[v].pix
  BY <1>1, OneVbType DEF Vblank
<1> HIDE DEF b
<1>5. SameRefs(t, [t EXCEPT !.vb[v] = b])
  BY <1>1, <1>4, OneVbSameRefs
<1> QED BY <1>1, <1>2, <1>3, <1>5, SameRefsTwice

(* present_unflip. *)
LEMMA UnflipRefs ==
  ASSUME NEW s \in State
  PROVE  SameRefs(s, Unflip(s))
<1> DEFINE t == IF s.unflip \/ s.pending # Unset THEN Halt(s, "assert") ELSE s
           r == RestoreScreenPixmap(t)
           n == r.hwUnflip + 1
           u == [r EXCEPT !.unflip = TRUE, !.hwUnflip = n]
<1>1. t \in State /\ SameRefs(s, t)
  <2>1. SameRefs(s, s)
    BY DEF SameRefs
  <2> QED BY <2>1, HaltType, HaltRefs
<1>2. Unflip(s) = u
  BY DEF Unflip
<1> HIDE DEF t
<1>3. r \in State /\ SameRefs(t, r)
  BY <1>1, RestoreScreenPixmapType, RestoreRefs
<1> HIDE DEF r, n
<1>4. SameRefs(r, u)
  BY <1>3 DEF SameRefs, State
<1> HIDE DEF u
<1> QED BY <1>1, <1>2, <1>3, <1>4, SameRefsTwice

(* present_pixmap_idle. *)
LEMMA PixmapIdleRefs ==
  ASSUME NEW s \in State, NEW v
  PROVE  SameRefs(s, PixmapIdle(s, v))
<1> DEFINE f == [s.idle EXCEPT ![v] = @ + 1]
<1>1. PixmapIdle(s, v) = [s EXCEPT !.idle = f]
  BY DEF PixmapIdle
<1> HIDE DEF f
<1> QED BY <1>1 DEF SameRefs, State

(* present_vblank_notify. *)
LEMMA VblankNotifyRefs ==
  ASSUME NEW s \in State, NEW v, NEW mode, NEW now
  PROVE  SameRefs(s, VblankNotify(s, v, mode, now))
<1> DEFINE d == [n |-> s.done[v].n + 1, mode |-> mode, early |-> now < s.vb[v].target]
           f == [s.done EXCEPT ![v] = d]
<1>1. VblankNotify(s, v, mode, now) \in {s, [s EXCEPT !.done = f]}
  BY DEF VblankNotify
<1> HIDE DEF f
<1>2. SameRefs(s, s) /\ SameRefs(s, [s EXCEPT !.done = f])
  BY DEF SameRefs, State
<1> QED BY <1>1, <1>2

(* Asking the driver for a vblank. *)
LEMMA QueueVblankRefs ==
  ASSUME NEW s \in State, NEW v
  PROVE  SameRefs(s, QueueVblank(s, v))
<1> DEFINE f == [s.vbl EXCEPT ![<<v, s.vb[v].exec>>] = @ + 1]
<1>1. QueueVblank(s, v) = [s EXCEPT !.vbl = f]
  BY DEF QueueVblank
<1> HIDE DEF f
<1> QED BY <1>1 DEF SameRefs, State

(* Leaving a callback with the wait fence. *)
LEMMA AwaitFenceRefs ==
  ASSUME NEW s \in State, NEW v \in Ids
  PROVE  SameRefs(s, AwaitFence(s, v))
<1> DEFINE b == [s.vb[v] EXCEPT !.cb = TRUE]
<1>1. b.pix = s.vb[v].pix
  BY OneVbType DEF Vblank
<1>2. AwaitFence(s, v) = [s EXCEPT !.vb[v] = b]
  BY DEF AwaitFence
<1> HIDE DEF b
<1> QED BY <1>1, <1>2, OneVbSameRefs

(* Leaving the queues. *)
LEMMA DequeueRefs ==
  ASSUME NEW s \in State, NEW v \in Ids
  PROVE  SameRefs(s, Dequeue(s, v)) /\ Dequeue(s, v).vb[v].win = s.vb[v].win
<1> DEFINE t == Dequeue(s, v)
           b == [s.vb[v] EXCEPT !.queued = FALSE]
           f == [s.vb EXCEPT ![v] = b]
           q == RemoveFirst(s.flipQ, v)
           e == s.execQ \ {v}
<1>1. t = [s EXCEPT !.execQ = e, !.flipQ = q, !.vb = f]
  BY DEF Dequeue
<1> HIDE DEF t
<1>2. f[v] = b /\ \A u \in Ids \ {v} : f[u] = s.vb[u]
  BY FieldTypes
<1>3. b.pix = s.vb[v].pix /\ b.win = s.vb[v].win
  BY OneVbType DEF Vblank
<1> HIDE DEF f, b, q, e
<1>4. t.vb = f /\ t.refs = s.refs /\ t.flipPix = s.flipPix
  BY <1>1 DEF State
<1> QED BY <1>2, <1>3, <1>4 DEF t, SameRefs

(* A flip that must wait. *)
LEMMA DeferFlipRefs ==
  ASSUME NEW s \in State, NEW v \in Ids
  PROVE  SameRefs(s, DeferFlip(s, v))
<1> DEFINE b == [s.vb[v] EXCEPT !.ready = TRUE]
           e == s.execQ \ {v}
           q == Append(RemoveFirst(s.flipQ, v), v)
           t == [s EXCEPT !.execQ = e, !.flipQ = q]
<1>1. b.pix = s.vb[v].pix
  BY OneVbType DEF Vblank
<1>2. e \in SUBSET Ids /\ q \in Seq(Ids)
  BY FieldTypes, RemoveFirstType, AppendProperties
<1>3. DeferFlip(s, v) = [t EXCEPT !.vb[v] = b]
  <2> HIDE DEF e, q
  <2> QED BY DEF DeferFlip, State, e, q
<1> HIDE DEF e, q
<1>4. t \in State /\ SameRefs(s, t) /\ t.vb = s.vb
  BY <1>2 DEF State, SameRefs
<1> HIDE DEF t, b
<1>5. SameRefs(t, [t EXCEPT !.vb[v] = b])
  BY <1>1, <1>4, OneVbSameRefs
<1> QED BY <1>3, <1>4, <1>5, SameRefsTwice

(* Handing a flip to the driver. *)
LEMMA StartFlipRefs ==
  ASSUME NEW s \in State, NEW v \in Ids
  PROVE  SameRefs(s, StartFlip(s, v))
<1> DEFINE b   == s.vb[v]
           due == IF b.sync /\ msc < MaxMsc THEN msc + 1 ELSE msc
           wp0 == IF s.flipWin \notin {NoWin, b.win}
                  THEN SetTreePixmap(s.winPix, s.flipWin, s.flipPix, Screen)
                  ELSE s.winPix
           wp1 == SetTreePixmap(wp0, b.win, NoPix, b.pix)
           wp2 == SetTreePixmap(wp1, Root, NoPix, b.pix)
           q   == <<v>> \o s.flipQ
           h   == s.hwFlip \cup {<<v, due>>}
           t   == [s EXCEPT !.pending = v, !.flipQ = q, !.hwFlip = h, !.winPix = wp2]
<1>1. StartFlip(s, v) = t
  BY DEF StartFlip
<1> HIDE DEF q, h, wp2
<1> QED BY <1>1 DEF State, SameRefs

(* A refused flip. *)
LEMMA FlipRefusedRefs ==
  ASSUME NEW s \in State, NEW v \in Ids
  PROVE  SameRefs(s, FlipRefused(s, v))
<1> DEFINE b == [s.vb[v] EXCEPT !.flip = FALSE, !.exec = s.vb[v].target]
<1>1. FlipRefused(s, v) = [s EXCEPT !.vb[v] = b]
  BY DEF FlipRefused, State
<1>2. b.pix = s.vb[v].pix
  BY OneVbType DEF Vblank
<1> HIDE DEF b
<1> QED BY <1>1, <1>2, OneVbSameRefs

(* The abort or unflip before a copy, or after a lost flip. *)
LEMMA StopRefs ==
  ASSUME NEW s \in State, NEW w
  PROVE  SameRefs(s, StopFlipping(s, w)) /\ SameRefs(s, StopLostFlip(s, w))
<1>1. /\ SameRefs(s, s) /\ SameRefs(s, Unflip(s))
      /\ s.pending # Unset => SameRefs(s, SetAbortFlip(s))
  BY UnflipRefs, SetAbortRefs DEF SameRefs
<1> QED BY <1>1 DEF StopFlipping, StopLostFlip

(* present_check_flip_window. *)
LEMMA CheckFlipWindowRefs ==
  ASSUME NEW s \in State, NEW w
  PROVE  SameRefs(s, CheckFlipWindow(s, w))
<1>1. CASE s.unflip
  BY <1>1 DEF CheckFlipWindow, SameRefs
<1>2. CASE ~s.unflip
  <2> DEFINE r == StopLostFlip(s, w)
             f == [v \in Ids |->
                   IF r.vb[v].queued /\ r.vb[v].win = w /\ r.vb[v].flip
                      /\ ~CheckFlip(r, w, r.vb[v].pix)
                   THEN LoseFlip(r.vb[v]) ELSE r.vb[v]]
             t == [r EXCEPT !.vb = f]
  <2>1. r \in State /\ SameRefs(s, r)
    BY StopLostFlipType, StopRefs
  <2>2. CheckFlipWindow(s, w) = t
    BY <1>2 DEF CheckFlipWindow, RecheckQueued
  <2> HIDE DEF r
  <2>3. ASSUME NEW v \in Ids PROVE f[v].pix = r.vb[v].pix
    <3>1. r.vb[v] \in Vblank
      BY <2>1, OneVbType
    <3>2. f[v] \in {r.vb[v], LoseFlip(r.vb[v])}
      OBVIOUS
    <3>3. LoseFlip(r.vb[v]).pix = r.vb[v].pix
      BY <3>1 DEF LoseFlip, Vblank
    <3> HIDE DEF f
    <3> QED BY <3>2, <3>3
  <2> HIDE DEF f
  <2>4. SameRefs(r, t)
    BY <2>1, <2>3 DEF State, SameRefs
  <2> HIDE DEF t
  <2> QED BY <2>1, <2>2, <2>4, SameRefsTwice
<1> QED BY <1>1, <1>2

(* present_clear_window_flip. *)
LEMMA ClearWindowFlipRefs ==
  ASSUME NEW s \in State, NEW w
  PROVE  SameRefs(s, ClearWindowFlip(s, w))
<1> DEFINE a == SetAbortFlip(s)
           p == s.pending
           b == [a.vb[p] EXCEPT !.win = NoWin]
           c == [a EXCEPT !.vb[p] = b]
           t == IF s.pending # Unset /\ s.vb[s.pending].win = w
                THEN [SetAbortFlip(s) EXCEPT !.vb[s.pending].win = NoWin] ELSE s
           r == RestoreScreenPixmap(t)
           d == [r EXCEPT !.flipWin = NoWin]
<1>1. t \in State /\ SameRefs(s, t)
  <2>1. CASE s.pending # Unset /\ s.vb[s.pending].win = w
    <3>1. a \in State /\ SameRefs(s, a) /\ p \in Ids
      BY <2>1, SetAbortFlipType, SetAbortRefs, PendingType
    <3>2. t = c
      BY <2>1
    <3> HIDE DEF a, p, t
    <3>3. b \in Vblank /\ b.pix = a.vb[p].pix
      <4>1. a.vb[p] \in Vblank
        BY <3>1, OneVbType
      <4> QED BY <4>1 DEF Vblank
    <3> HIDE DEF b
    <3>4. c \in State /\ SameRefs(a, c)
      BY <3>1, <3>3, SetOneVb, OneVbSameRefs
    <3> HIDE DEF c
    <3> QED BY <3>1, <3>2, <3>4, SameRefsTwice
  <2>2. CASE ~(s.pending # Unset /\ s.vb[s.pending].win = w)
    BY <2>2 DEF SameRefs
  <2> QED BY <2>1, <2>2
<1>2. ClearWindowFlip(s, w) \in {d, t}
  BY DEF ClearWindowFlip
<1> HIDE DEF t
<1>3. r \in State /\ SameRefs(t, r)
  BY <1>1, RestoreScreenPixmapType, RestoreRefs
<1> HIDE DEF r
<1>4. SameRefs(r, d)
  BY <1>3 DEF State, SameRefs
<1> HIDE DEF d
<1> QED BY <1>1, <1>2, <1>3, <1>4, SameRefsTwice

(* One reference and its holder gone: *)
LEMMA HoldersLose ==
  ASSUME NEW s, NEW t, NEW v \in Ids, NEW p \in Pixmaps, t.vb[v].pix = NoPix,
         \A u \in Ids \ {v} : t.vb[u].pix = s.vb[u].pix
  PROVE  Cardinality(Holders(s, p)) = Cardinality(Holders(t, p)) + One(p = s.vb[v].pix)
<1>1. p # NoPix
  BY SentinelAssumption
<1>2. CASE p = s.vb[v].pix
  <2>1. Holders(s, p) = Holders(t, p) \cup {v} /\ v \notin Holders(t, p)
    BY <1>1, <1>2 DEF Holders
  <2>2. Cardinality(Holders(t, p) \cup {v}) = Cardinality(Holders(t, p)) + 1
    BY <2>1, HoldersFinite, FS_AddElement
  <2> QED BY <1>2, <2>1, <2>2 DEF One
<1>3. CASE p # s.vb[v].pix
  <2>1. Holders(s, p) = Holders(t, p)
    BY <1>1, <1>3 DEF Holders
  <2> QED BY <1>3, <2>1, HoldersFinite DEF One
<1> QED BY <1>2, <1>3

(* dix_destroy_pixmap, as far as references go. *)
LEMMA DropRefs ==
  ASSUME NEW s \in State, NEW q \in Pixmaps \cup {NoPix}
  PROVE  LET t == DropPixmap(s, q)
         IN  /\ t.vb = s.vb /\ t.flipPix = s.flipPix
             /\ \A p \in Pixmaps : t.refs[p] = s.refs[p] - One(p = q)
<1>1. s.refs \in [Pixmaps -> Int]
  BY FieldTypes
<1>2. CASE q = NoPix
  <2>1. \A p \in Pixmaps : p # q
    BY <1>2, SentinelAssumption
  <2> QED BY <1>1, <1>2, <2>1 DEF DropPixmap, One
<1>3. CASE q # NoPix
  <2> DEFINE f == [s.refs EXCEPT ![q] = @ - 1]
             t == [s EXCEPT !.refs = f]
  <2>1. \A p \in Pixmaps : f[p] = s.refs[p] - One(p = q)
    BY <1>1, <1>3 DEF One
  <2>2. DropPixmap(s, q) = t
    BY <1>3 DEF DropPixmap
  <2> HIDE DEF f
  <2>3. t.refs = f /\ t.vb = s.vb /\ t.flipPix = s.flipPix
    BY DEF State
  <2> HIDE DEF t
  <2> QED BY <2>1, <2>2, <2>3
<1> QED BY <1>2, <1>3

(* A reference taken. *)
LEMMA HoldRefs ==
  ASSUME NEW s \in State, NEW q \in Pixmaps \cup {NoPix}
  PROVE  LET t == HoldPixmap(s, q)
         IN  /\ t.vb = s.vb /\ t.flipPix = s.flipPix
             /\ \A p \in Pixmaps : t.refs[p] = s.refs[p] + One(p = q)
<1>1. s.refs \in [Pixmaps -> Int]
  BY FieldTypes
<1>2. CASE q = NoPix
  <2>1. \A p \in Pixmaps : p # q
    BY <1>2, SentinelAssumption
  <2> QED BY <1>1, <1>2, <2>1 DEF HoldPixmap, One
<1>3. CASE q # NoPix
  <2> DEFINE f == [s.refs EXCEPT ![q] = @ + 1]
             t == [s EXCEPT !.refs = f]
  <2>1. \A p \in Pixmaps : f[p] = s.refs[p] + One(p = q)
    BY <1>1, <1>3 DEF One
  <2>2. HoldPixmap(s, q) = t
    BY <1>3 DEF HoldPixmap
  <2> HIDE DEF f
  <2>3. t.refs = f /\ t.vb = s.vb /\ t.flipPix = s.flipPix
    BY DEF State
  <2> HIDE DEF t
  <2> QED BY <2>1, <2>2, <2>3
<1> QED BY <1>2, <1>3

(* present_vblank_destroy gives up the request's own reference. *)
LEMMA VblankDestroyRefs ==
  ASSUME NEW s \in State, NEW v \in Ids, NEW h, NEW n, Counted(s, h, n)
  PROVE  Counted(VblankDestroy(s, v), h, n)
<1> DEFINE b == s.vb[v]
           t == DropPixmap(s, b.pix)
           u == Dequeue(t, v)
           c == [Fresh EXCEPT !.win = b.win, !.kind = b.kind,
                              !.target = b.target, !.update = b.update]
           r == [u EXCEPT !.vb[v] = c]
<1>1. b.pix \in Pixmaps \cup {NoPix}
  BY OneVbType DEF Vblank
<1>2. t \in State /\ t.vb = s.vb /\ t.flipPix = s.flipPix
      /\ \A p \in Pixmaps : t.refs[p] = s.refs[p] - One(p = b.pix)
  BY <1>1, DropPixmapType, DropRefs
<1>3. VblankDestroy(s, v) = r
  BY DEF VblankDestroy
<1>4. c.pix = NoPix
  BY DEF Fresh
<1> HIDE DEF t, c
<1>5. u \in State /\ SameRefs(t, u)
  BY <1>2, DequeueType, DequeueRefs
<1> HIDE DEF u
<1>6. /\ r.refs = u.refs /\ r.flipPix = u.flipPix
      /\ r.vb[v] = c /\ \A x \in Ids \ {v} : r.vb[x] = u.vb[x]
  BY <1>5, OneVbRefs
<1> HIDE DEF r
<1>7. /\ r.flipPix = s.flipPix /\ r.vb[v].pix = NoPix
      /\ \A x \in Ids \ {v} : r.vb[x].pix = s.vb[x].pix
      /\ \A p \in Pixmaps : r.refs[p] = s.refs[p] - One(p = b.pix)
  BY <1>2, <1>4, <1>5, <1>6 DEF SameRefs
<1>8. ASSUME NEW p \in Pixmaps
      PROVE  r.refs[p] = One(p \in h) + One(p = r.flipPix) + Cardinality(Holders(r, p))
  <2>1. Cardinality(Holders(s, p)) = Cardinality(Holders(r, p)) + One(p = b.pix)
    BY <1>7, HoldersLose
  <2>2. s.refs[p] = One(p \in h) + One(p = r.flipPix) + Cardinality(Holders(s, p))
    BY <1>7 DEF Counted
  <2>3. /\ Cardinality(Holders(r, p)) \in Nat
        /\ One(p \in h) \in Nat /\ One(p = r.flipPix) \in Nat /\ One(p = b.pix) \in Nat
    BY HoldersFinite DEF One
  <2>4. r.refs[p] = s.refs[p] - One(p = b.pix)
    BY <1>7
  <2> HIDE DEF b
  <2> QED BY <2>1, <2>2, <2>3, <2>4
<1>9. \A x \in Ids : x >= n => r.vb[x].pix = NoPix
  BY <1>7 DEF Counted
<1> QED BY <1>3, <1>8, <1>9 DEF Counted

(* present_execute_post. *)
LEMMA ExecutePostRefs ==
  ASSUME NEW s \in State, NEW v \in Ids, NEW now \in Mscs, NEW h, NEW n, Counted(s, h, n)
  PROVE  Counted(ExecutePost(s, v, now), h, n)
<1> DEFINE mode == IF s.vb[v].kind = "pixmap" /\ s.vb[v].pix = NoPix
                   THEN "skip" ELSE "copy"
           t == VblankNotify(s, v, mode, now)
<1>1. ExecutePost(s, v, now) = VblankDestroy(t, v)
  BY DEF ExecutePost
<1>2. mode \in Modes
  BY DEF Modes
<1> HIDE DEF mode
<1>3. t \in State /\ Counted(t, h, n)
  BY <1>2, VblankNotifyType, VblankNotifyRefs, CountedSame
<1> HIDE DEF t
<1> QED BY <1>1, <1>3, VblankDestroyRefs

(* present_execute_copy. *)
LEMMA ExecuteCopyRefs ==
  ASSUME NEW s \in State, NEW v \in Ids, NEW now \in Mscs, NEW refuse,
         NEW h, NEW n, Counted(s, h, n)
  PROVE  Counted(ExecuteCopy(s, v, now, refuse), h, n)
<1> DEFINE t == QueueVblank(s, v)
           b == [t.vb[v] EXCEPT !.queued = TRUE]
           x == t.execQ \cup {v}
           u == [t EXCEPT !.execQ = x]
           r == [u EXCEPT !.vb[v] = b]
           i == PixmapIdle(s, v)
<1>1. t \in State /\ SameRefs(s, t)
  BY QueueVblankType, QueueVblankRefs
<1>2. [t EXCEPT !.execQ = @ \cup {v}, !.vb[v].queued = TRUE] = r
  BY <1>1 DEF State
<1>3. ExecuteCopy(s, v, now, refuse) \in {r, ExecutePost(i, v, now)}
  BY <1>2 DEF ExecuteCopy
<1>4. b.pix = t.vb[v].pix
  BY <1>1, OneVbType DEF Vblank
<1>5. x \in SUBSET Ids
  BY <1>1, FieldTypes
<1> HIDE DEF t, x
<1>6. u \in State /\ SameRefs(t, u) /\ u.vb = t.vb
  BY <1>1, <1>5 DEF State, SameRefs
<1> HIDE DEF u, b
<1>7. SameRefs(u, r)
  BY <1>4, <1>6, OneVbSameRefs
<1> HIDE DEF r
<1>8. Counted(r, h, n)
  BY <1>1, <1>6, <1>7, CountedSame
<1>9. i \in State /\ Counted(i, h, n)
  BY PixmapIdleType, PixmapIdleRefs, CountedSame
<1> HIDE DEF i
<1> QED BY <1>3, <1>8, <1>9, ExecutePostRefs

(* The second half of present_execute. *)
LEMMA PresentRefs ==
  ASSUME NEW s \in State, NEW v \in Ids, NEW now \in Mscs, NEW refuse,
         NEW h, NEW n, Counted(s, h, n)
  PROVE  Counted(Present(s, v, now, refuse), h, n)
<1> DEFINE t == IF s.vb[v].flip THEN FlipRefused(s, v) ELSE s
           w == s.vb[v].win
           u == StopFlipping(t, w)
<1>1. t \in State /\ Counted(t, h, n)
  BY FlipRefusedType, FlipRefusedRefs, CountedSame
<1>2. Present(s, v, now, refuse) \in {StartFlip(s, v), ExecuteCopy(u, v, now, refuse)}
  BY DEF Present
<1> HIDE DEF t, w
<1>3. u \in State /\ Counted(u, h, n)
  BY <1>1, StopFlippingType, StopRefs, CountedSame
<1> HIDE DEF u
<1> QED BY <1>2, <1>3, StartFlipRefs, CountedSame, ExecuteCopyRefs

(* present_execute, whole. *)
LEMMA ExecuteRefs ==
  ASSUME NEW s \in State, NEW v \in Ids, NEW now \in Mscs, NEW refuse,
         NEW h, NEW n, Counted(s, h, n)
  PROVE  Counted(Execute(s, v, now, refuse), h, n)
<1> DEFINE t == Dequeue(s, v)
<1>1. t \in State /\ Counted(t, h, n)
  BY DequeueType, DequeueRefs, CountedSame
<1>2. Execute(s, v, now, refuse)
        \in {Halt(s, "null"), QueueVblank(s, v), AwaitFence(s, v), DeferFlip(s, v),
             Present(t, v, now, refuse), ExecutePost(t, v, now)}
  BY DEF Execute
<1> HIDE DEF t
<1> QED BY <1>1, <1>2, HaltRefs, QueueVblankRefs, AwaitFenceRefs, DeferFlipRefs,
           CountedSame, PresentRefs, ExecutePostRefs

(* present_flip_try_ready. *)
LEMMA FlipTryReadyRefs ==
  ASSUME NEW s \in State, NEW refuse, msc \in Mscs, NEW h, NEW n, Counted(s, h, n)
  PROVE  Counted(FlipTryReady(s, refuse), h, n)
<1> DEFINE I == {i \in 1..Len(s.flipQ) : s.vb[s.flipQ[i]].queued}
           i0 == IF I # {} THEN Min(I) ELSE 0
<1>1. FlipTryReady(s, refuse) =
        IF i0 = 0 THEN s ELSE Execute(s, s.flipQ[i0], msc, refuse)
  BY SMTT(20) DEF FlipTryReady, SelectInSeq
<1>2. i0 # 0 => s.flipQ[i0] \in Ids
  <2>1. s.flipQ \in Seq(Ids)
    BY FieldTypes
  <2>2. I \in SUBSET Nat
    BY <2>1, LenProperties
  <2>3. I # {} => Min(I) \in I
    BY <2>2, MinIsLeast
  <2> QED BY <2>1, <2>3, ElementOfSeq
<1> HIDE DEF i0
<1> QED BY <1>1, <1>2, ExecuteRefs

(* present_flip_idle gives up the screen's reference. *)
LEMMA FlipIdleRefs ==
  ASSUME NEW s \in State, NEW h, NEW n, Counted(s, h, n)
  PROVE  Counted(FlipIdle(s), h, n) /\ FlipIdle(s).flipPix = NoPix
<1> DEFINE q == s.flipPix
           i == PixmapIdle(s, s.flipOf)
           t == DropPixmap(i, q)
           r == [t EXCEPT !.flipWin = NoWin, !.flipOf = Unset, !.flipPix = NoPix]
<1>1. CASE q = NoPix
  BY <1>1 DEF FlipIdle
<1>2. CASE q # NoPix
  <2>1. FlipIdle(s) = r
    BY <1>2 DEF FlipIdle
  <2>2. q \in Pixmaps \cup {NoPix}
    BY FieldTypes
  <2>3. i \in State /\ SameRefs(s, i)
    BY PixmapIdleType, PixmapIdleRefs
  <2> HIDE DEF i, q
  <2>4. t \in State /\ t.vb = i.vb
        /\ \A p \in Pixmaps : t.refs[p] = i.refs[p] - One(p = q)
    BY <2>2, <2>3, DropPixmapType, DropRefs
  <2> HIDE DEF t
  <2>5. r.vb = t.vb /\ r.refs = t.refs /\ r.flipPix = NoPix
    BY <2>4 DEF State
  <2> HIDE DEF r
  <2>6. \A p : Holders(r, p) = Holders(s, p)
    BY <2>3, <2>4, <2>5 DEF Holders, SameRefs
  <2>7. ASSUME NEW p \in Pixmaps
        PROVE  r.refs[p] = One(p \in h) + One(p = r.flipPix) + Cardinality(Holders(r, p))
    <3>1. r.refs[p] = s.refs[p] - One(p = q)
      BY <2>3, <2>4, <2>5 DEF SameRefs
    <3>2. s.refs[p] = One(p \in h) + One(p = q) + Cardinality(Holders(r, p))
      BY <2>6 DEF Counted, q
    <3>3. /\ Cardinality(Holders(r, p)) \in Nat
          /\ One(p \in h) \in Nat /\ One(p = q) \in Nat /\ One(p = r.flipPix) \in Nat
      BY HoldersFinite DEF One
    <3>4. One(p = r.flipPix) = 0
      BY <2>5, SentinelAssumption DEF One
    <3> QED BY <3>1, <3>2, <3>3, <3>4
  <2>8. \A x \in Ids : x >= n => r.vb[x].pix = NoPix
    BY <2>3, <2>4, <2>5 DEF Counted, SameRefs
  <2> QED BY <2>1, <2>5, <2>7, <2>8 DEF Counted
<1> QED BY <1>1, <1>2

(* A completed flip's reference moves from the request to the screen. *)
LEMMA TakeFlipRefs ==
  ASSUME NEW s \in State, NEW v \in Ids, NEW h, NEW n, Counted(s, h, n), s.flipPix = NoPix
  PROVE  Counted(TakeFlip(s, v), h, n)
<1> DEFINE b == [s.vb[v] EXCEPT !.pix = NoPix]
           q == RemoveFirst(s.flipQ, v)
           w == s.vb[v].win
           p0 == s.vb[v].pix
           t == [s EXCEPT !.flipQ = q, !.flipOf = v, !.flipWin = w, !.flipPix = p0,
                          !.pending = Unset]
           r == [t EXCEPT !.vb[v] = b]
<1>1. b.pix = NoPix /\ w \in Windows \cup {NoWin} /\ p0 \in Pixmaps \cup {NoPix}
  BY OneVbType DEF Vblank
<1>2. q \in Seq(Ids)
  BY FieldTypes, RemoveFirstType
<1>3. t \in State /\ t.vb = s.vb /\ t.refs = s.refs /\ t.flipPix = p0
  <2> HIDE DEF q, w, p0
  <2> QED BY <1>1, <1>2 DEF State
<1>4. TakeFlip(s, v) = r
  <2> HIDE DEF q, w, p0
  <2> QED BY ZenonT(30) DEF TakeFlip, State, q, w, p0
<1> HIDE DEF t, b
<1>5. /\ r.refs = s.refs /\ r.flipPix = p0 /\ r.vb[v].pix = NoPix
      /\ \A x \in Ids \ {v} : r.vb[x].pix = s.vb[x].pix
  <2>1. /\ r.refs = t.refs /\ r.flipPix = t.flipPix
        /\ r.vb[v] = b /\ \A x \in Ids \ {v} : r.vb[x] = t.vb[x]
    BY <1>3, OneVbRefs
  <2> HIDE DEF r
  <2> QED BY <1>1, <1>3, <2>1
<1> HIDE DEF r
<1>6. ASSUME NEW p \in Pixmaps
      PROVE  r.refs[p] = One(p \in h) + One(p = r.flipPix) + Cardinality(Holders(r, p))
  <2>1. Cardinality(Holders(s, p)) = Cardinality(Holders(r, p)) + One(p = r.flipPix)
    BY <1>5, HoldersLose
  <2>2. s.refs[p] = One(p \in h) + One(p = s.flipPix) + Cardinality(Holders(s, p))
    BY DEF Counted
  <2>3. /\ Cardinality(Holders(r, p)) \in Nat
        /\ One(p \in h) \in Nat /\ One(p = r.flipPix) \in Nat /\ One(p = s.flipPix) \in Nat
    BY HoldersFinite DEF One
  <2>4. One(p = s.flipPix) = 0
    BY SentinelAssumption DEF One
  <2>5. r.refs[p] = s.refs[p]
    BY <1>5
  <2> QED BY <2>1, <2>2, <2>3, <2>4, <2>5
<1>7. \A x \in Ids : x >= n => r.vb[x].pix = NoPix
  BY <1>5 DEF Counted
<1> QED BY <1>4, <1>6, <1>7 DEF Counted

(* present_flip_notify. *)
LEMMA FlipNotifyRefs ==
  ASSUME NEW s \in State, NEW v \in Ids, NEW now \in Mscs, NEW refuse, msc \in Mscs,
         NEW h, NEW n, Counted(s, h, n)
  PROVE  Counted(FlipNotify(s, v, now, refuse), h, n)
<1> DEFINE i == FlipIdle(s)
           t == TakeFlip(i, v)
           u == IF s.vb[v].abort THEN Unflip(t) ELSE t
           y == VblankNotify(u, v, "flip", now)
           x == VblankDestroy(y, v)
<1>1. FlipNotify(s, v, now, refuse) \in {Halt(s, "assert"), FlipTryReady(x, refuse)}
  BY DEF FlipNotify
<1>2. i \in State /\ Counted(i, h, n) /\ i.flipPix = NoPix
  BY FlipIdleType, FlipIdleRefs
<1> HIDE DEF i
<1>3. t \in State /\ Counted(t, h, n)
  BY <1>2, TakeFlipType, TakeFlipRefs
<1> HIDE DEF t
<1>4. u \in State /\ Counted(u, h, n)
  BY <1>3, UnflipType, UnflipRefs, CountedSame
<1> HIDE DEF u
<1>5. y \in State /\ Counted(y, h, n)
  BY <1>4, VblankNotifyType, VblankNotifyRefs, CountedSame DEF Modes
<1> HIDE DEF y
<1>6. x \in State /\ Counted(x, h, n)
  BY <1>5, VblankDestroyType, VblankDestroyRefs
<1> HIDE DEF x
<1> QED BY <1>1, <1>6, HaltRefs, CountedSame, FlipTryReadyRefs

(* The end of an unflip. *)
LEMMA UnflipNotifyRefs ==
  ASSUME NEW s \in State, NEW refuse, msc \in Mscs, NEW h, NEW n, Counted(s, h, n)
  PROVE  Counted(UnflipNotify(s, refuse), h, n)
<1> DEFINE t == [s EXCEPT !.unflip = FALSE]
           i == FlipIdle(t)
<1>1. t \in State /\ SameRefs(s, t)
  BY DEF State, SameRefs
<1>2. UnflipNotify(s, refuse) = FlipTryReady(i, refuse)
  BY DEF UnflipNotify
<1> HIDE DEF t
<1>3. i \in State /\ Counted(i, h, n)
  BY <1>1, CountedSame, FlipIdleType, FlipIdleRefs
<1> HIDE DEF i
<1> QED BY <1>2, <1>3, FlipTryReadyRefs

(* present_event_notify, whatever the id names. *)
LEMMA EventNotifyRefs ==
  ASSUME NEW s \in State, NEW v \in Ids, NEW now \in Mscs, NEW refuse, msc \in Mscs,
         NEW h, NEW n, Counted(s, h, n)
  PROVE  Counted(EventNotify(s, v, now, refuse), h, n)
BY ExecuteRefs, FlipNotifyRefs DEF EventNotify

(* Scrapped requests give up theirs. *)
LEMMA ScrapRefs ==
  ASSUME NEW s \in State, NEW old \in SUBSET Ids, NEW h, NEW n, Counted(s, h, n)
  PROVE  Counted(Scrap(s, old), h, n)
<1> DEFINE i == [v \in Ids |-> IF v \in old THEN s.idle[v] + 1 ELSE s.idle[v]]
           H(p) == {v \in old : s.vb[v].pix = p}
           k(p) == Cardinality(H(p))
           f == [p \in Pixmaps |-> s.refs[p] - k(p)]
           g == [v \in Ids |-> IF v \in old
                   THEN [s.vb[v] EXCEPT !.pix = NoPix, !.flip = FALSE] ELSE s.vb[v]]
           r == [s EXCEPT !.idle = i, !.refs = f, !.vb = g]
<1>1. Scrap(s, old) = r
  BY DEF Scrap
<1>2. \A v \in Ids : g[v].pix = IF v \in old THEN NoPix ELSE s.vb[v].pix
  <2>1. TAKE v \in Ids
  <2>2. [s.vb[v] EXCEPT !.pix = NoPix, !.flip = FALSE].pix = NoPix
    BY OneVbType DEF Vblank
  <2>3. g[v] = IF v \in old THEN [s.vb[v] EXCEPT !.pix = NoPix, !.flip = FALSE]
                            ELSE s.vb[v]
    OBVIOUS
  <2> HIDE DEF g
  <2> QED BY <2>2, <2>3
<1>3. \A p \in Pixmaps : f[p] = s.refs[p] - k(p)
  OBVIOUS
<1> HIDE DEF i, f, g
<1>4. r.refs = f /\ r.vb = g /\ r.flipPix = s.flipPix
  BY DEF State
<1> HIDE DEF r
<1>5. ASSUME NEW p \in Pixmaps
      PROVE  r.refs[p] = One(p \in h) + One(p = r.flipPix) + Cardinality(Holders(r, p))
  <2>1. Holders(r, p) = Holders(s, p) \ H(p) /\ Holders(s, p) \cap H(p) = H(p)
    BY <1>2, <1>4, SentinelAssumption DEF Holders
  <2>2. IsFiniteSet(Holders(s, p)) /\ IsFiniteSet(H(p))
    <3>1. H(p) \subseteq Holders(s, p)
      BY DEF Holders
    <3> HIDE DEF H
    <3> QED BY <3>1, HoldersFinite, FS_Subset
  <2> HIDE DEF H
  <2>3. Cardinality(Holders(r, p)) = Cardinality(Holders(s, p)) - k(p)
    BY <2>1, <2>2, FS_Difference
  <2>4. k(p) \in Nat /\ Cardinality(Holders(s, p)) \in Nat
    BY <2>2, FS_CardinalityType
  <2> HIDE DEF k
  <2>5. s.refs[p] = One(p \in h) + One(p = r.flipPix) + Cardinality(Holders(s, p))
    BY <1>4 DEF Counted
  <2>6. One(p \in h) \in Nat /\ One(p = r.flipPix) \in Nat
    BY DEF One
  <2>7. r.refs[p] = s.refs[p] - k(p)
    BY <1>3, <1>4
  <2> QED BY <2>3, <2>4, <2>5, <2>6, <2>7
<1>6. \A x \in Ids : x >= n => r.vb[x].pix = NoPix
  BY <1>2, <1>4 DEF Counted
<1> QED BY <1>1, <1>5, <1>6 DEF Counted

(* A new request holds its pixmap. *)
LEMMA VblankCreateRefs ==
  ASSUME NEW s \in State, NEW m \in Ids, NEW w \in Windows, NEW q \in Pixmaps \cup {NoPix},
         NEW opt \in OptionRecord, NEW fe \in Fences \cup {NoFence}, NEW target \in Mscs,
         NEW h, Counted(s, h, m)
  PROVE  Counted(VblankCreate(s, m, w, q, opt, fe, target), h, m + 1)
<1> DEFINE able == q # NoPix /\ ~opt.copy /\ CheckFlip(s, w, q)
           sync == able /\ target > msc
           flip == able /\ (sync \/ AsyncCap)
           kind == IF q = NoPix THEN "msc" ELSE "pixmap"
           exec == ExecMsc(sync, target)
           b == [win |-> w, pix |-> q, kind |-> kind, target |-> target, exec |-> exec,
                 update |-> opt.update, flip |-> flip, sync |-> sync,
                 ready |-> FALSE, queued |-> TRUE, abort |-> FALSE,
                 wait |-> fe, cb |-> FALSE]
           t == HoldPixmap(s, q)
           e == t.execQ \cup {m}
           u == [t EXCEPT !.execQ = e]
           d == [u EXCEPT !.vb[m] = b]
<1>1. t \in State /\ t.vb = s.vb /\ t.flipPix = s.flipPix
      /\ \A p \in Pixmaps : t.refs[p] = s.refs[p] + One(p = q)
  BY HoldPixmapType, HoldRefs
<1>2. VblankCreate(s, m, w, q, opt, fe, target) = d
  <2>1. VblankCreate(s, m, w, q, opt, fe, target) = [t EXCEPT !.vb[m] = b, !.execQ = e]
    BY DEF VblankCreate
  <2> HIDE DEF b, e, t
  <2> QED BY <1>1, <2>1 DEF State
<1>3. b.pix = q
  OBVIOUS
<1> HIDE DEF b, t
<1>4. e \in SUBSET Ids
  BY <1>1, FieldTypes
<1> HIDE DEF e
<1>5. u \in State /\ u.vb = t.vb /\ u.refs = t.refs /\ u.flipPix = t.flipPix
  BY <1>1, <1>4 DEF State
<1> HIDE DEF u
<1>6. /\ d.refs = u.refs /\ d.flipPix = u.flipPix
      /\ d.vb[m] = b /\ \A x \in Ids \ {m} : d.vb[x] = u.vb[x]
  BY <1>5, OneVbRefs
<1> HIDE DEF d
<1>7. /\ d.flipPix = s.flipPix /\ d.vb[m].pix = q /\ s.vb[m].pix = NoPix
      /\ \A x \in Ids \ {m} : d.vb[x].pix = s.vb[x].pix
      /\ \A p \in Pixmaps : d.refs[p] = s.refs[p] + One(p = q)
  <2>1. s.vb[m].pix = NoPix
    BY DEF Counted, Ids
  <2> QED BY <1>1, <1>3, <1>5, <1>6, <2>1
<1>8. ASSUME NEW p \in Pixmaps
      PROVE  d.refs[p] = One(p \in h) + One(p = d.flipPix) + Cardinality(Holders(d, p))
  <2>1. Cardinality(Holders(d, p)) = Cardinality(Holders(s, p)) + One(p = q)
    <3>1. Cardinality(Holders(d, p)) = Cardinality(Holders(s, p)) + One(p = d.vb[m].pix)
      BY <1>7, HoldersLose
    <3> QED BY <1>7, <3>1
  <2>2. s.refs[p] = One(p \in h) + One(p = d.flipPix) + Cardinality(Holders(s, p))
    BY <1>7 DEF Counted
  <2>3. /\ Cardinality(Holders(s, p)) \in Nat
        /\ One(p \in h) \in Nat /\ One(p = d.flipPix) \in Nat /\ One(p = q) \in Nat
    BY HoldersFinite DEF One
  <2>4. d.refs[p] = s.refs[p] + One(p = q)
    BY <1>7
  <2> QED BY <2>1, <2>2, <2>3, <2>4
<1>9. \A x \in Ids : x >= m + 1 => d.vb[x].pix = NoPix
  <2>1. TAKE x \in Ids
  <2>2. HAVE x >= m + 1
  <2>3. x >= m /\ x # m
    BY <2>2 DEF Ids
  <2> QED BY <1>7, <2>3 DEF Counted
<1> QED BY <1>2, <1>8, <1>9 DEF Counted

(* present_scmd_pixmap, whole. *)
LEMMA SubmittedRefs ==
  ASSUME NEW s \in State, NEW m \in Ids, NEW w \in Windows, NEW p \in Pixmaps \cup {NoPix},
         NEW opt \in OptionRecord, NEW f \in Fences \cup {NoFence}, NEW target \in Mscs,
         NEW refuse, msc \in Mscs, NEW h, Counted(s, h, m)
  PROVE  Counted(Submitted(s, m, w, p, opt, f, target, refuse), h, m + 1)
<1> DEFINE old == IF p = NoPix \/ opt.update THEN {} ELSE Superseded(s, w, target)
           c == Scrap(s, old)
           t == VblankCreate(c, m, w, p, opt, f, target)
<1>1. old \in SUBSET Ids
  BY DEF Superseded
<1>2. Submitted(s, m, w, p, opt, f, target, refuse)
        \in {QueueVblank(t, m), Execute(t, m, msc, refuse)}
  BY DEF Submitted
<1> HIDE DEF old
<1>3. c \in State /\ Counted(c, h, m)
  BY <1>1, ScrapType, ScrapRefs
<1> HIDE DEF c
<1>4. t \in State /\ Counted(t, h, m + 1)
  BY <1>3, VblankCreateType, VblankCreateRefs
<1> HIDE DEF t
<1> QED BY <1>2, <1>4, QueueVblankRefs, CountedSame, ExecuteRefs

-----------------------------------------------------------------------------
(* Actions and references.                                                  *)

(* Requests from nextId on hold nothing. *)
RefsInv == Counted(Cur, held, nextId)

(* An action that becomes a state with exact counts. *)
LEMMA BecomeRefs ==
  ASSUME NEW s \in State, NEW n, Counted(s, held, n), Become(s), nextId' = n, held' = held
  PROVE  RefsInv'
<1>1. Cur'.refs = s.refs /\ Cur'.flipPix = s.flipPix /\ Cur'.vb = s.vb
  BY DEF Become, Cur
<1>2. \A p : Holders(Cur', p) = Holders(s, p)
  BY <1>1 DEF Holders
<1> QED BY <1>1, <1>2 DEF Counted, RefsInv

(* At first the client holds every pixmap. *)
LEMMA RefsInit == Init => RefsInv
<1> SUFFICES ASSUME Init PROVE RefsInv
  OBVIOUS
<1>1. /\ Cur.vb = [v \in Ids |-> Fresh] /\ Cur.flipPix = NoPix
      /\ Cur.refs = [p \in Pixmaps |-> 1] /\ held = Pixmaps
  BY DEF Init, Cur
<1>2. \A v \in Ids : Cur.vb[v].pix = NoPix
  BY <1>1 DEF Fresh
<1>3. ASSUME NEW p \in Pixmaps
      PROVE  Cur.refs[p] = One(p \in held) + One(p = Cur.flipPix)
                           + Cardinality(Holders(Cur, p))
  <2>1. Holders(Cur, p) = {}
    BY <1>2, SentinelAssumption DEF Holders
  <2>2. Cardinality(Holders(Cur, p)) = 0
    BY <2>1, FS_EmptySet
  <2>3. One(p \in held) = 1 /\ One(p = Cur.flipPix) = 0 /\ Cur.refs[p] = 1
    BY <1>1, SentinelAssumption DEF One
  <2> QED BY <2>2, <2>3
<1> QED BY <1>2, <1>3 DEF RefsInv, Counted

(* A request keeps it. *)
LEMMA SubmitRefs ==
  ASSUME TypeOK, RefsInv, NEW w \in Windows, NEW p \in Pixmaps \cup {NoPix},
         NEW opt \in OptionRecord, NEW f \in Fences \cup {NoFence},
         NEW wmsc \in Nat, NEW m \in Nat \X Nat, NEW refuse,
         Submit(w, p, opt, f, wmsc, m, refuse)
  PROVE  RefsInv'
<1> DEFINE target == AdjustTimings(opt.async, msc, wmsc, m[1], m[2])
           s == Submitted(Cur, nextId, w, p, opt, f, target, refuse)
<1>1. msc \in Mscs /\ msc \in Nat /\ Cur \in State /\ nextId \in Ids /\ target <= MaxMsc
  BY BoundsAssumption DEF TypeOK, Mscs, Submit
<1>2. target \in Nat
  BY <1>1, AdjustTimingsType DEF OptionRecord
<1>3. target \in Mscs
  <2> HIDE DEF target
  <2> QED BY <1>1, <1>2, BoundsAssumption DEF Mscs
<1>4. Become(s) /\ nextId' = nextId + 1 /\ held' = held
  BY DEF Submit
<1> HIDE DEF target
<1>5. s \in State /\ Counted(s, held, nextId + 1)
  BY <1>1, <1>3, SubmittedType, SubmittedRefs DEF RefsInv
<1> HIDE DEF s
<1> QED BY <1>4, <1>5, BecomeRefs

(* Every step keeps it: one step of the proof for each action. *)
LEMMA RefsNext ==
  ASSUME TypeOK, RefsInv, [Next]_vars
  PROVE  RefsInv'
<1>0. msc \in Mscs /\ Cur \in State /\ Counted(Cur, held, nextId)
  BY DEF Mscs, TypeOK, RefsInv
<1>1. CASE ClientRequest
  <2>1. PICK w \in Windows, wmsc \in Targets, m \in Moduli, refuse \in SUBSET Refusable :
          \/ \E p \in Pixmaps, opt \in Options, f \in Fences \cup {NoFence} :
                PresentPixmap(w, p, opt, f, wmsc, m, refuse)
          \/ NotifyMsc(w, wmsc, m, refuse)
    BY <1>1 DEF ClientRequest
  <2>2. wmsc \in Nat /\ m \in Nat \X Nat
    BY InputAssumption
  <2>3. CASE \E p \in Pixmaps, opt \in Options, f \in Fences \cup {NoFence} :
               PresentPixmap(w, p, opt, f, wmsc, m, refuse)
    BY <2>2, <2>3, SubmitRefs, InputAssumption DEF PresentPixmap
  <2>4. CASE NotifyMsc(w, wmsc, m, refuse)
    <3> DEFINE opt == [async |-> m[1] = 0, copy |-> FALSE, update |-> FALSE]
    <3>1. opt \in OptionRecord
      BY DEF OptionRecord
    <3>2. Submit(w, NoPix, opt, NoFence, wmsc, m, refuse)
      BY <2>4 DEF NotifyMsc
    <3> HIDE DEF opt
    <3> QED BY <2>2, <3>1, <3>2, SubmitRefs
  <2> QED BY <2>1, <2>3, <2>4
<1>2. ASSUME NEW e \in Events, NEW at \in 0..MaxMsc, NEW refuse, VblankEvent(e, at, refuse)
      PROVE  RefsInv'
  <2> DEFINE f == [vbl EXCEPT ![e] = @ - 1]
             s == [Cur EXCEPT !.vbl = f]
             t == EventNotify(s, e[1], at, refuse)
  <2>1. f \in [Events -> Nat]
    <3>1. vbl \in [Events -> Nat]
      BY <1>0 DEF Cur, State
    <3> QED BY <3>1, <1>2 DEF VblankEvent
  <2>2. Become(t) /\ nextId' = nextId /\ held' = held
    <3>1. s = [Cur EXCEPT !.vbl[e] = @ - 1]
      BY DEF Cur
    <3> QED BY <1>2, <3>1 DEF VblankEvent
  <2> HIDE DEF f
  <2>3. s \in State /\ SameRefs(Cur, s)
    BY <1>0, <2>1 DEF State, SameRefs
  <2> HIDE DEF s
  <2>4. Counted(s, held, nextId)
    BY <1>0, <2>3, CountedSame
  <2>5. t \in State /\ Counted(t, held, nextId)
    BY <1>0, <2>3, <2>4, EventNotifyType, EventNotifyRefs DEF Events, Mscs
  <2> HIDE DEF t
  <2> QED BY <2>2, <2>5, BecomeRefs
<1>3. ASSUME NEW e \in hwFlip, NEW at \in 0..MaxMsc, NEW refuse, FlipEvent(e, at, refuse)
      PROVE  RefsInv'
  <2> DEFINE h == hwFlip \ {e}
             s == [Cur EXCEPT !.hwFlip = h]
             t == EventNotify(s, e[1], at, refuse)
  <2>1. h \in SUBSET Events /\ e[1] \in Ids
    BY <1>0 DEF Cur, State, Events
  <2>2. Become(t) /\ nextId' = nextId /\ held' = held
    <3>1. s = [Cur EXCEPT !.hwFlip = @ \ {e}]
      BY DEF Cur
    <3> QED BY <1>3, <3>1 DEF FlipEvent
  <2> HIDE DEF h
  <2>3. s \in State /\ SameRefs(Cur, s)
    BY <1>0, <2>1 DEF State, SameRefs
  <2> HIDE DEF s
  <2>4. Counted(s, held, nextId)
    BY <1>0, <2>3, CountedSame
  <2>5. t \in State /\ Counted(t, held, nextId)
    BY <1>0, <2>1, <2>3, <2>4, EventNotifyType, EventNotifyRefs DEF Mscs
  <2> HIDE DEF t
  <2> QED BY <2>2, <2>5, BecomeRefs
<1>4. ASSUME NEW refuse, UnflipEvent(refuse)
      PROVE  RefsInv'
  <2> DEFINE n == hwUnflip - 1
             s == [Cur EXCEPT !.hwUnflip = n]
             t == IF unflip THEN UnflipNotify(s, refuse) ELSE s
  <2>1. n \in Nat
    <3>1. hwUnflip \in Nat
      BY <1>0 DEF Cur, State
    <3> QED BY <1>4, <3>1 DEF UnflipEvent
  <2>2. Become(t) /\ nextId' = nextId /\ held' = held
    <3>1. s = [Cur EXCEPT !.hwUnflip = @ - 1]
      BY DEF Cur
    <3> QED BY <1>4, <3>1 DEF UnflipEvent
  <2> HIDE DEF n
  <2>3. s \in State /\ SameRefs(Cur, s)
    BY <1>0, <2>1 DEF State, SameRefs
  <2> HIDE DEF s
  <2>4. Counted(s, held, nextId)
    BY <1>0, <2>3, CountedSame
  <2>5. t \in State /\ Counted(t, held, nextId)
    BY <1>0, <2>3, <2>4, UnflipNotifyType, UnflipNotifyRefs
  <2> HIDE DEF t
  <2> QED BY <2>2, <2>5, BecomeRefs
<1>5. ASSUME NEW refuse, ReExecute(refuse)
      PROVE  RefsInv'
  <2> DEFINE v == Max(todo)
             t == Execute(Cur, v, msc, refuse)
  <2>1. v \in Ids
    <3>1. todo \in SUBSET Ids /\ todo # {}
      BY <1>5 DEF ReExecute, TypeOK
    <3>2. \E x \in todo : \A y \in todo : x >= y
      BY <3>1, GreatestId
    <3> QED BY <3>1, <3>2 DEF Max
  <2>2. Become(t) /\ nextId' = nextId /\ held' = held
    BY <1>5 DEF ReExecute
  <2> HIDE DEF v
  <2>3. t \in State /\ Counted(t, held, nextId)
    BY <1>0, <2>1, ExecuteType, ExecuteRefs
  <2> HIDE DEF t
  <2> QED BY <2>2, <2>3, BecomeRefs
<1>6. ASSUME NEW drop \in BOOLEAN, FreeWindowVblank(drop)
      PROVE  RefsInv'
  <2> DEFINE v == Min(QueuedOn(dying))
             f == [e \in Events |-> IF drop /\ e[1] = v THEN 0 ELSE vbl[e]]
             s == [Cur EXCEPT !.vbl = f]
             t == VblankDestroy(s, v)
  <2>1. v \in Ids
    <3>1. QueuedOn(dying) \in SUBSET Nat /\ QueuedOn(dying) # {}
          /\ \A u \in QueuedOn(dying) : u \in Ids
      BY <1>6 DEF FreeWindowVblank, QueuedOn, Ids
    <3> QED BY <3>1, MinIsLeast
  <2>2. Become(t) /\ nextId' = nextId /\ held' = held
    <3>1. s = [Cur EXCEPT !.vbl = [e \in Events |-> IF drop /\ e[1] = v THEN 0 ELSE @[e]]]
      BY DEF Cur
    <3> HIDE DEF s
    <3> QED BY <1>6, <3>1 DEF FreeWindowVblank
  <2> HIDE DEF v
  <2>3. f \in [Events -> Nat]
    BY <1>0 DEF Cur, State
  <2> HIDE DEF f
  <2>4. s \in State /\ SameRefs(Cur, s)
    BY <1>0, <2>3 DEF State, SameRefs
  <2> HIDE DEF s
  <2>5. Counted(s, held, nextId)
    BY <1>0, <2>4, CountedSame
  <2>6. t \in State /\ Counted(t, held, nextId)
    BY <2>1, <2>4, <2>5, VblankDestroyType, VblankDestroyRefs
  <2> HIDE DEF t
  <2> QED BY <2>2, <2>6, BecomeRefs
<1>7. CASE FinishDestroy
  <2> DEFINE t == ClearWindowFlip(Cur, dying)
  <2>1. Become(t) /\ nextId' = nextId /\ held' = held /\ dying \in Windows
    BY <1>7 DEF FinishDestroy, TypeOK
  <2>2. t \in State /\ Counted(t, held, nextId)
    BY <1>0, <2>1, ClearWindowFlipType, ClearWindowFlipRefs, CountedSame
  <2> HIDE DEF t
  <2> QED BY <2>1, <2>2, BecomeRefs
<1>8. ASSUME NEW f \in Fences, TriggerFence(f) \/ ResetFence(f) \/ DestroyFence(f)
      PROVE  RefsInv'
  <2>1. Become(Cur) /\ UNCHANGED <<held, nextId>>
    BY <1>8, FenceSteps
  <2> QED BY <1>0, <2>1, BecomeRefs
<1>9. ASSUME NEW w \in Windows, ClipNotify(w) \/ DestroyWindow(w)
      PROVE  RefsInv'
  <2>1. PICK x \in SUBSET Windows : Become(CheckFlipWindow([Cur EXCEPT !.full = x], w))
    BY <1>9, ClipSteps
  <2> DEFINE s == [Cur EXCEPT !.full = x]
             t == CheckFlipWindow(s, w)
  <2>2. s \in State /\ SameRefs(Cur, s)
    BY <1>0 DEF State, SameRefs
  <2>3. Become(t) /\ nextId' = nextId /\ held' = held
    BY <1>9, <2>1 DEF ClipNotify, DestroyWindow
  <2> HIDE DEF s
  <2>4. Counted(s, held, nextId)
    BY <1>0, <2>2, CountedSame
  <2>5. t \in State /\ Counted(t, held, nextId)
    BY <2>2, <2>4, CheckFlipWindowType, CheckFlipWindowRefs, CountedSame
  <2> HIDE DEF t
  <2> QED BY <2>3, <2>5, BecomeRefs
<1>10. ASSUME NEW q \in Pixmaps, FreePixmap(q)
       PROVE  RefsInv'
  <2>1. /\ Cur'.flipPix = Cur.flipPix /\ Cur'.vb = Cur.vb /\ Cur'.refs = refs'
        /\ nextId' = nextId /\ q \in held /\ held' = held \ {q}
        /\ refs' = [refs EXCEPT ![q] = @ - 1] /\ Cur.refs = refs
    BY <1>10 DEF FreePixmap, Cur, server
  <2>2. refs \in [Pixmaps -> Int]
    BY <1>0, <2>1, FieldTypes
  <2>3. ASSUME NEW p \in Pixmaps
        PROVE  Cur'.refs[p] = One(p \in held') + One(p = Cur'.flipPix)
                              + Cardinality(Holders(Cur', p))
    <3>1. refs[p] = One(p \in held) + One(p = Cur.flipPix) + Cardinality(Holders(Cur, p))
      BY <1>0, <2>1 DEF Counted
    <3>2. Holders(Cur', p) = Holders(Cur, p)
      BY <2>1 DEF Holders
    <3>3. Cardinality(Holders(Cur, p)) \in Nat /\ One(p = Cur.flipPix) \in Nat
      BY HoldersFinite DEF One
    <3>4. CASE p = q
      <4>1. One(p \in held) = 1 /\ One(p \in held') = 0
        BY <2>1, <3>4 DEF One
      <4>2. Cur'.refs[p] = refs[p] - 1
        BY <2>1, <2>2, <3>4
      <4> QED BY <2>1, <3>1, <3>2, <3>3, <4>1, <4>2
    <3>5. CASE p # q
      <4>1. One(p \in held) = One(p \in held')
        BY <2>1, <3>5 DEF One
      <4>2. Cur'.refs[p] = refs[p]
        BY <2>1, <2>2, <3>5
      <4> QED BY <2>1, <3>1, <3>2, <4>1, <4>2
    <3> QED BY <3>4, <3>5
  <2> QED BY <1>0, <2>1, <2>3 DEF RefsInv, Counted
<1>11. CASE CloseScreen
  <2> DEFINE s == IF pending # Unset THEN SetAbortFlip(Cur) ELSE Cur
             u == FlipIdle(s)
             t == Halt(u, "closed")
  <2>1. Become(t) /\ nextId' = nextId /\ held' = held
    BY <1>11 DEF CloseScreen
  <2>2. s \in State /\ Counted(s, held, nextId)
    <3>1. CASE pending # Unset
      <4>1. Cur.pending # Unset
        BY <3>1 DEF Cur
      <4>2. SetAbortFlip(Cur) \in State /\ SameRefs(Cur, SetAbortFlip(Cur))
        BY <1>0, <4>1, SetAbortFlipType, SetAbortRefs
      <4> QED BY <1>0, <3>1, <4>2, CountedSame
    <3>2. CASE pending = Unset
      BY <1>0, <3>2
    <3> QED BY <3>1, <3>2
  <2> HIDE DEF s
  <2>3. u \in State /\ Counted(u, held, nextId)
    BY <2>2, FlipIdleType, FlipIdleRefs
  <2> HIDE DEF u
  <2>4. t \in State
    BY <2>3, HaltType
  <2>5. Counted(t, held, nextId)
    BY <2>3, HaltRefs, CountedSame
  <2> HIDE DEF t
  <2> QED BY <2>1, <2>4, <2>5, BecomeRefs
<1>12. CASE Tick
  BY <1>12 DEF Tick, RefsInv, Cur, server, dix, client
<1>13. CASE UNCHANGED vars
  BY <1>13 DEF vars, server, dix, driver, client, Cur, RefsInv
<1> QED
  BY <1>1, <1>2, <1>3, <1>4, <1>5, <1>6, <1>7, <1>8, <1>9, <1>10, <1>11, <1>12, <1>13,
     InputAssumption
  DEF Next, DriverEvent, Loop, Environment

(* Each pixmap is referenced exactly by the client that made it, by the
   requests that present it and by the screen that flipped to it: none is
   freed while Present may still use it, and none leaks, however flips,
   skips, refusals, aborts and destroyed windows interleave. *)
THEOREM RefsExactAlways == Spec => []RefsExact
<1>1. Init => TypeOK /\ RefsInv
  BY TypeInit, RefsInit
<1>2. TypeOK /\ RefsInv /\ [Next]_vars => TypeOK' /\ RefsInv'
  BY TypeNext, RefsNext
<1>3. Spec => [](TypeOK /\ RefsInv)
  BY <1>1, <1>2, PTL DEF Spec
<1>4. RefsInv => RefsExact
  <2> SUFFICES ASSUME RefsInv, NEW p \in Pixmaps
               PROVE  refs[p] = (IF p \in held THEN 1 ELSE 0)
                                + (IF p = flipPix THEN 1 ELSE 0)
                                + Cardinality({v \in Ids : vb[v].pix = p})
    BY DEF RefsExact
  <2>1. Cur.refs = refs /\ Cur.flipPix = flipPix
        /\ Holders(Cur, p) = {v \in Ids : vb[v].pix = p}
    BY DEF Cur, Holders
  <2> QED BY <2>1 DEF RefsInv, Counted, One
<1> QED BY <1>3, <1>4, PTL
==============================================================================
