------------------------------ MODULE MsVblank ------------------------------
(****************************************************************************)
(* The modesetting driver's side of Present: the vblank counters, the queue *)
(* of DRM events (vblank.c), page flips of all CRTCs at once (pageflip.c)   *)
(* and what Present calls (present.c), in hw/xfree86/drivers/modesetting.   *)
(* The kernel is external: it accepts or refuses each ioctl, its counters   *)
(* advance, flips complete, and events wait in the device's file.           *)
(* Functions call each other and, when the device's file is full, handle    *)
(* events in the middle of a call: each is an operator from state to state  *)
(* over the record s, and s.calls is the stack of the calls under way.      *)
(* The framebuffer a flip makes is named by its event id.  Memory never     *)
(* runs out, and the CRTCs that are on stay on (what the kernel does to one *)
(* whose framebuffer is removed is left open: it shows the one removed).    *)
(****************************************************************************)
EXTENDS Integers, FiniteSets, SequencesExt

CONSTANTS
  Setups,           \* the screens considered: records of the number of CRTCs,
                    \* the counters when the server starts, the last count (a
                    \* bound), and how far ahead Present's targets are
  FirstEvent, LastEvent,   \* event ids Present uses, in order
  Word,             \* number of values of a 32-bit integer
  Quarter,          \* 0x40000000
  Long,             \* number of values of a 64-bit integer, a multiple of Word
  Passed,           \* how far behind the kernel takes a 32-bit target for passed
  MaxUnseen,        \* how far the counter runs ahead of the driver
  Flipping,         \* Present flips
  PartialRefusals,  \* the kernel refuses some CRTCs of a flip and not others
  Space             \* events the device's file has space for

ASSUME MsVblankAssumption ==
  /\ Setups \subseteq [crtcs : Nat \ {0}, start : Nat, last : Nat, aheads : SUBSET Nat]
  /\ FirstEvent \in Nat \ {0} /\ LastEvent \in Nat
  /\ Word \in Nat \ {0} /\ Quarter \in 1..Word /\ Passed \in 0..Word
  /\ Long \in Nat \ {0} /\ Long % Word = 0
  /\ MaxUnseen \in Nat /\ Flipping \in BOOLEAN /\ PartialRefusals \in BOOLEAN /\ Space \in Nat \ {0}

VARIABLES
  s,        \* see StateType
  setup     \* the one of Setups that this server lives in

vars == <<s, setup>>

NumCrtcs == setup.crtcs      \* config->num_crtc, all on
Crtcs == 1..NumCrtcs
Start == setup.start
MaxCount == setup.last
Aheads == setup.aheads
Events == FirstEvent..LastEvent
(* 0 is the first, e that of a flip; where e sets the modes, LastEvent + e    *)
(* is that of the last CRTC and 2 * LastEvent + e stands for the others'.     *)
Fbs == 0..(3 * LastEvent)
Nothing == [seq |-> 0, fb |-> 0]

Entry == [seq : Nat, crtc : Crtcs, event : Events, flip : BOOLEAN, ref : BOOLEAN]
Call == [kind : {"vblank", "flip", "unflip"}, event : Events, ref : 0..NumCrtcs,
         seq : Nat, crtc : Crtcs, reentrant : BOOLEAN]

StateType ==
  [ \* the kernel: counters, vblanks asked for, flips, buffers, events to read
   count : [Crtcs -> Nat], requests : SUBSET [crtc : Crtcs, msc : Nat, seq : Nat],
   flips : [Crtcs -> [seq : Nat, fb : Fbs]], shows : [Crtcs -> Fbs], fbs : SUBSET Fbs,
   events : Seq([crtc : Crtcs, seq : Nat, count : Nat, wide : BOOLEAN]),
   \* the driver: has_queue_sequence, msc_prev, msc_high, ms_drm_seq, ms_drm_queue
   \* (newest first), fb_id, the flipdata of each event (freed: no references)
   hasSeq : BOOLEAN, prev : [Crtcs -> 0..(Word - 1)], high : [Crtcs -> 0..(Long - 1)],
   next : Nat, queue : Seq(Entry), fb : Fbs,
   data : [Events -> [refs : Nat, old : Fbs, msc : Nat, true : Nat]],
   calls : Seq(Call),
   \* the counts last converted, what Present asked for and was told, and the
   \* last msc it was given
   seen : [Crtcs -> Nat],
   life : [Events -> {"unused", "waiting", "told", "aborted", "refused"}],
   asked : [Events -> [kind : {"none", "vblank", "flip", "unflip"}, crtc : Crtcs, msc : Nat]],
   tells : [Events -> Nat], answer : [given : Nat, true : Nat]]

(***************************** vblank counters *****************************)

(* ms_kernel_msc_to_crtc_msc: wide counts are 64-bit ones.                   *)
ConvertMutantNoUnwind(t, c, n, wide) ==
  LET low == n % Word
      base == IF wide THEN n - low
              ELSE IF low < t.prev[c] - Quarter THEN t.high[c] + Word
              ELSE t.high[c]
  IN [t EXCEPT !.prev[c] = low, !.high[c] = base % Long, !.seen[c] = n]

Convert(t, c, n, wide) ==
  LET low == n % Word
      base == IF wide THEN n - low
              ELSE IF low < t.prev[c] - Quarter THEN t.high[c] + Word
              ELSE IF low > t.prev[c] + Quarter THEN t.high[c] - Word
              ELSE t.high[c]
  IN [t EXCEPT !.prev[c] = low, !.high[c] = base % Long, !.seen[c] = n]

Converted(t, c) == (t.high[c] + t.prev[c]) % Long

(* ms_get_crtc_ust_msc                                                       *)
GetMsc(t, c) ==
  LET u == Convert(t, c, t.count[c], t.hasSeq)
  IN [u EXCEPT !.answer = [given |-> Converted(u, c), true |-> t.count[c]]]

(*************************** the kernel's events ***************************)

HasSpace(t) ==
  Len(t.events) + Cardinality(t.requests) + Cardinality({c \in Crtcs : t.flips[c] # Nothing})
    < Space

(* A 32-bit target is compared within the width of the counter.              *)
HasPassed(t, r, n) ==
  IF t.hasSeq THEN n >= r.msc ELSE (n - r.msc) % Word <= Passed

Sent(c, seq, n, wide) == [crtc |-> c, seq |-> seq, count |-> n, wide |-> wide]

(* The next vblank of a CRTC, with the events it brings, in any order.        *)
Due(t, c) == {r \in t.requests : r.crtc = c /\ HasPassed(t, r, t.count[c] + 1)}
DueEvents(t, c) == {Sent(c, r.seq, t.count[c] + 1, t.hasSeq) : r \in Due(t, c)}
KernelVblank(t, c, news) ==
  [t EXCEPT !.count[c] = @ + 1, !.requests = @ \ Due(t, c), !.events = @ \o news]

KernelAsked(t, c, msc, seq) ==
  LET r == [crtc |-> c, msc |-> IF t.hasSeq THEN msc ELSE msc % Word, seq |-> seq]
  IN IF HasPassed(t, r, t.count[c])
     THEN [t EXCEPT !.events = Append(@, Sent(c, seq, t.count[c], t.hasSeq))]
     ELSE [t EXCEPT !.requests = @ \cup {r}]

(* A page flip of a CRTC takes place: its event has a 32-bit count.           *)
KernelFlip(t, c) ==
  [t EXCEPT !.shows[c] = t.flips[c].fb, !.flips[c] = Nothing,
            !.events = Append(@, Sent(c, t.flips[c].seq, t.count[c], FALSE))]

RemoveFb(t, fb) == [t EXCEPT !.fbs = @ \ {fb}]

(************************** the queue of DRM events *************************)

(* present_event_notify: Present is told of an event.                         *)
Tell(t, e) == [t EXCEPT !.life[e] = IF @ = "waiting" THEN "told" ELSE @, !.tells[e] = @ + 1]

(* ms_drm_queue_alloc: the sequence number and the new entry.                 *)
QueueAlloc(t, c, e, flip, ref) ==
  [t EXCEPT !.next = @ + 1,
            !.queue = <<[seq |-> t.next, crtc |-> c, event |-> e, flip |-> flip, ref |-> ref]>> \o @]

(* ms_pageflip_free: the last reference frees the flipdata.                   *)
PageflipFree(t, e) == [t EXCEPT !.data[e].refs = @ - 1]

(* ms_drm_abort_one: the entry's event is freed, or a reference to it.        *)
AbortOne(t, i) ==
  LET q == t.queue[i]
      u == [t EXCEPT !.queue = RemoveAt(@, i)]
  IN IF q.flip THEN PageflipFree(u, q.event) ELSE u

(* ms_drm_abort_seq                                                          *)
AbortSeq(t, seq) ==
  LET at == {i \in DOMAIN t.queue : t.queue[i].seq = seq}
  IN IF at = {} THEN t ELSE AbortOne(t, CHOOSE i \in at : TRUE)

(* ms_present_event_match: of whatever kind the entry's data is.  A flip's    *)
(* data begins with on_reference_crtc, where a vblank's has its event id.     *)
MatchesMutantAny(q, e) == TRUE
Matches(q, e) == IF q.flip THEN e = (IF q.ref THEN 1 ELSE 0) ELSE q.event = e

(* ms_drm_abort: the first entry that matches.                                *)
AbortMatch(t, e) ==
  LET at == {i \in DOMAIN t.queue : Matches(t.queue[i], e)}
  IN IF at = {} THEN t ELSE AbortOne(t, CHOOSE i \in at : \A j \in at : i <= j)

(* The flip is over: Present is told, and the framebuffer before it removed.  *)
FlipOver(t, e) ==
  LET u == RemoveFb(Tell(t, e), t.data[e].old)
  IN IF t.asked[e].kind = "unflip" THEN u
     ELSE [u EXCEPT !.answer = [given |-> t.data[e].msc, true |-> t.data[e].true]]

(* ms_pageflip_handler: the last event of a flip tells Present the msc of the *)
(* reference CRTC.                                                            *)
FlipMsc(t, q, n) ==
  IF q.ref THEN [t EXCEPT !.data[q.event].msc = Converted(t, q.crtc), !.data[q.event].true = n]
  ELSE t

PageflipHandlerMutantFirst(t, q, n) ==
  LET u == FlipMsc(t, q, n)
  IN PageflipFree(IF u.data[q.event].refs = NumCrtcs THEN FlipOver(u, q.event) ELSE u, q.event)
PageflipHandlerMutantRemovesAtOnce(t, q, n) ==
  LET u == RemoveFb(FlipMsc(t, q, n), t.data[q.event].old)
  IN PageflipFree(IF u.data[q.event].refs = 1 THEN FlipOver(u, q.event) ELSE u, q.event)
PageflipHandler(t, q, n) ==
  LET u == FlipMsc(t, q, n)
  IN PageflipFree(IF u.data[q.event].refs = 1 THEN FlipOver(u, q.event) ELSE u, q.event)

(* ms_drm_sequence_handler: an event of an aborted entry is dropped.          *)
SequenceHandler(t, ev) ==
  LET at == {i \in DOMAIN t.queue : t.queue[i].seq = ev.seq}
      i == CHOOSE i \in at : TRUE
      q == t.queue[i]
      u == [Convert(t, q.crtc, ev.count, ev.wide) EXCEPT !.queue = RemoveAt(@, i)]
  IN IF at = {} THEN t
     ELSE IF q.flip THEN PageflipHandler(u, q, ev.count)
     ELSE [Tell(u, q.event) EXCEPT !.answer = [given |-> Converted(u, q.crtc), true |-> ev.count]]

(* drmHandleEvent, one event of those to read.                                *)
ReadEvent(t) == SequenceHandler([t EXCEPT !.events = Tail(@)], Head(t.events))

(************************* calls that take several steps ********************)

Busy(t) == t.calls # <<>>
Top(t) == Head(t.calls)
(* Present calls the driver from its own handlers too, which run inside a     *)
(* call that handles events to make space.                                    *)
MayCall(t) == Busy(t) => Top(t).reentrant
Push(t, kind, e, ref, c, seq) ==
  [t EXCEPT !.calls = <<[kind |-> kind, event |-> e, ref |-> ref, seq |-> seq, crtc |-> c,
                         reentrant |-> FALSE]>> \o @]
Pop(t) == [t EXCEPT !.calls = Tail(@)]

(* ms_flush_drm_events in a call that the kernel has refused.                 *)
Flush(t) ==
  LET u == ReadEvent(t)
  IN [u EXCEPT !.calls[1].reentrant = @ \/ u.tells # t.tells]

(* ms_present_queue_vblank, up to the ioctl.                                  *)
QueueVblank(t, c, e, msc) ==
  Push([QueueAlloc(t, c, e, FALSE, FALSE) EXCEPT
          !.life[e] = "waiting", !.asked[e] = [kind |-> "vblank", crtc |-> c, msc |-> msc]],
       "vblank", e, 0, c, t.next)

(* ms_queue_vblank: the kernel has space.                                     *)
VblankAccepted(t) ==
  LET call == Top(t) IN Pop(KernelAsked(t, call.crtc, t.asked[call.event].msc, call.seq))

(* ms_queue_vblank: the kernel refuses for another reason than space.         *)
VblankRefused(t) ==
  [Pop(AbortSeq(t, Top(t).seq)) EXCEPT !.life[Top(t).event] = "refused"]

(* queue_flip_on_crtc, up to the ioctl.                                       *)
StartCrtc(t, kind, e, ref, c) ==
  Push([QueueAlloc(t, c, e, TRUE, c = ref) EXCEPT !.data[e].refs = @ + 1], kind, e, ref, c, t.next)

(* ms_present_flip and ms_present_unflip (ref: 0), ms_do_pageflip up to the   *)
(* first CRTC: one reference is the call's own.                               *)
DoPageflip(t, kind, e, ref) ==
  StartCrtc([t EXCEPT !.life[e] = "waiting", !.asked[e].kind = kind,
                      !.data[e] = [refs |-> 1, old |-> t.fb, msc |-> 0, true |-> 0],
                      !.fb = e, !.fbs = @ \cup {e}],
            kind, e, ref, 1)

(* The kernel takes the flip of a CRTC: the next CRTC, or the call's own      *)
(* reference is dropped.                                                      *)
FlipAccepted(t) ==
  LET call == Top(t)
      u == Pop([t EXCEPT !.flips[call.crtc] = [seq |-> call.seq, fb |-> t.fb]])
  IN IF call.crtc < NumCrtcs
     THEN StartCrtc(u, call.kind, call.event, call.ref, call.crtc + 1)
     ELSE PageflipFree(u, call.event)

(* ms_present_unflip, when it cannot flip: the modes are set, one CRTC after  *)
(* the other, after the flips under way.  For each CRTC the framebuffer that  *)
(* the driver knows is removed and one of the screen made, so that each pass  *)
(* removes that of the pass before: only the last one stays.                  *)
SetModes(t, e) ==
  LET late == {Sent(c, t.flips[c].seq, t.count[c], FALSE) : c \in {d \in Crtcs : t.flips[d] # Nothing}}
      new == LastEvent + e
  IN Tell([t EXCEPT !.flips = [c \in Crtcs |-> Nothing], !.events = @ \o SetToSeq(late),
                    !.fbs = (@ \ {t.fb}) \cup {new}, !.fb = new,
                    !.shows = [c \in Crtcs |-> IF c = NumCrtcs THEN new ELSE LastEvent + new]], e)

(* The kernel refuses the flip of a CRTC and there is no event to read:       *)
(* queue_flip_on_crtc aborts the entry, ms_do_pageflip removes the            *)
(* framebuffer if only its own reference is left, and drops it.               *)
FlipRefused(t) ==
  LET call == Top(t)
      e == call.event
      u == AbortSeq(Pop(t), call.seq)
      v == IF u.data[e].refs = 1 THEN [RemoveFb(u, u.fb) EXCEPT !.fb = u.data[e].old] ELSE u
      w == PageflipFree(v, e)
  IN IF call.kind = "unflip" THEN SetModes(w, e) ELSE [w EXCEPT !.life[e] = "refused"]

(********************************* actions **********************************)

Kinds(k) == {e \in Events : s.asked[e].kind = k}
Fresh(e) == s.life[e] = "unused" /\ \A f \in Events : f < e => s.life[f] # "unused"
NoFlip == \A e \in Kinds("flip") \cup Kinds("unflip") : s.life[e] # "waiting"
(* The screen shows a client's pixmap, as far as Present was told.            *)
Flipped == \E e \in Kinds("flip") : s.life[e] = "told" /\ \A f \in Kinds("unflip") : f < e

(* The counter, the count last converted and those of the events to read stay *)
(* close to each other.                                                       *)
NotUnseen(c) ==
  /\ s.count[c] - s.seen[c] < MaxUnseen
  /\ \A i \in DOMAIN s.events : s.events[i].crtc = c => s.count[c] - s.events[i].count < MaxUnseen

Vblank(c) ==
  /\ s.count[c] < MaxCount /\ NotUnseen(c)
  /\ \E news \in SetToSeqs(DueEvents(s, c)) : s' = KernelVblank(s, c, news)
FlipDone(c) == s.flips[c] # Nothing /\ s' = KernelFlip(s, c)

AskMsc(c) == ~Busy(s) /\ s' = GetMsc(s, c)
AskVblank(c, e) ==
  /\ MayCall(s) /\ Fresh(e)
  /\ \E n \in Aheads : s.count[c] + n <= MaxCount /\ s' = QueueVblank(s, c, e, s.count[c] + n)
AskFlip(c, e) ==
  /\ Flipping /\ MayCall(s) /\ Fresh(e) /\ NoFlip
  /\ s' = DoPageflip(s, "flip", e, c)
(* Present cannot always flip back (ms_present_check_unflip).                 *)
AskUnflip(e) ==
  /\ Flipping /\ MayCall(s) /\ Fresh(e) /\ NoFlip /\ Flipped
  /\ \/ s' = DoPageflip(s, "unflip", e, 0)
     \/ s' = SetModes([s EXCEPT !.life[e] = "waiting", !.asked[e].kind = "unflip"], e)
AskAbort(e) ==
  /\ ~Busy(s) /\ e \in Kinds("vblank") /\ s.life[e] = "waiting"
  /\ s' = [AbortMatch(s, e) EXCEPT !.life[e] = "aborted"]

Accepted ==
  /\ Busy(s) /\ HasSpace(s)
  /\ s' = IF Top(s).kind = "vblank" THEN VblankAccepted(s) ELSE FlipAccepted(s)
  /\ Top(s).kind # "vblank" => s.flips[Top(s).crtc] = Nothing
Refused ==
  /\ Busy(s)
  /\ IF Top(s).kind = "vblank" THEN s' = VblankRefused(s)
     ELSE /\ s.events = <<>>
          /\ Top(s).crtc = 1 \/ PartialRefusals
          /\ s' = FlipRefused(s)
FlushEvents ==
  /\ Busy(s) /\ s.events # <<>>
  /\ Top(s).kind = "vblank" => ~HasSpace(s)
  /\ s' = Flush(s)
(* ms_drm_socket_handler *)
ReadEvents == ~Busy(s) /\ s.events # <<>> /\ s' = ReadEvent(s)

Init ==
  /\ setup \in Setups
  /\ \E seq \in BOOLEAN :
    s = [count |-> [c \in Crtcs |-> Start], requests |-> {},
         flips |-> [c \in Crtcs |-> Nothing], shows |-> [c \in Crtcs |-> 0], fbs |-> {0},
         events |-> <<>>, hasSeq |-> seq, prev |-> [c \in Crtcs |-> 0],
         high |-> [c \in Crtcs |-> 0], next |-> 1, queue |-> <<>>, fb |-> 0,
         data |-> [e \in Events |-> [refs |-> 0, old |-> 0, msc |-> 0, true |-> 0]],
         calls |-> <<>>, seen |-> [c \in Crtcs |-> 0], life |-> [e \in Events |-> "unused"],
         asked |-> [e \in Events |-> [kind |-> "none", crtc |-> 1, msc |-> 0]],
         tells |-> [e \in Events |-> 0], answer |-> [given |-> 0, true |-> 0]]

Next ==
  /\ \/ \E c \in Crtcs : Vblank(c) \/ FlipDone(c) \/ AskMsc(c)
     \/ \E c \in Crtcs, e \in Events : AskVblank(c, e) \/ AskFlip(c, e)
     \/ \E e \in Events : AskUnflip(e) \/ AskAbort(e)
     \/ Accepted \/ Refused \/ FlushEvents \/ ReadEvents
  /\ UNCHANGED setup

Spec == Init /\ [][Next]_vars

----------------------------------------------------------------------------
(******************************** properties *******************************)

TypeOK == s \in StateType

(* The msc Present is given, by a query or with an event, is the count of     *)
(* that moment, in whatever width and order the counts came                   *)
(* (ms_kernel_msc_to_crtc_msc).                                               *)
MscExact == s.answer.given = s.answer.true % Long

(* Present is told of a vblank when its msc has come                          *)
(* (ms_present_queue_vblank, ms_queue_vblank).                                *)
NeverEarly ==
  [][\A e \in Kinds("vblank") : s.tells[e] # s'.tells[e] =>
       s.count[s.asked[e].crtc] >= s.asked[e].msc]_s

(* Present is told once of what it asked for, and never of what was refused   *)
(* or aborted (ms_pageflip_handler, ms_drm_abort_seq, ms_present_unflip).     *)
OneAnswer ==
  \A e \in Events : s.tells[e] = (IF s.life[e] = "told" THEN 1 ELSE 0)

(* Present is told of a flip when it is done on all CRTCs                     *)
(* (ms_pageflip_handler), unless the modes were set in its place.             *)
DoneOnAll ==
  [][\A e \in Kinds("flip") \cup Kinds("unflip") : s.tells[e] # s'.tells[e] =>
       (\A c \in Crtcs : s'.shows[c] = e) \/ s'.fb = LastEvent + e]_s

(* Present is told once, and neither before its frame nor before the screen   *)
(* is flipped, in whatever order the kernel sends and the driver reads events.*)
ToldOnceInTime == []OneAnswer /\ NeverEarly /\ DoneOnAll

(* No framebuffer is removed that a CRTC shows: "fb_id still points to the FB *)
(* for the last flipped BO.  Clear it" (present.c:381).                       *)
ShownExists == \A c \in Crtcs : s.shows[c] \in s.fbs

(* No framebuffer is removed that a CRTC shows or is about to show            *)
(* (ms_pageflip_handler, ms_do_pageflip), but those that ms_present_unflip    *)
(* makes for a CRTC and removes for the next one.                             *)
ShownKept ==
  \A c \in Crtcs :
    /\ s.shows[c] \notin s.fbs => c < NumCrtcs /\ s.shows[c] > 2 * LastEvent
    /\ s.flips[c] # Nothing => s.flips[c].fb \in s.fbs

(* With no flip under way just one framebuffer is left, and it is the one the *)
(* driver knows (ms_do_pageflip, ms_present_unflip).                          *)
OneFbAtRest == NoFlip => s.fbs = {s.fb}

(* The flipdata of a flip has a reference for each entry of the queue, and    *)
(* one for the call that queues it (struct ms_flipdata, flip_count).          *)
CountsReferences ==
  \A e \in Events :
    s.data[e].refs = Cardinality({i \in DOMAIN s.queue : s.queue[i].flip /\ s.queue[i].event = e})
                   + Cardinality({i \in DOMAIN s.calls : s.calls[i].kind # "vblank" /\ s.calls[i].event = e})

(* A framebuffer lives as long as a CRTC shows it, or a flip to or from it    *)
(* is under way, and no longer: removed too early the screen goes dark, never *)
(* removed it leaks (ms_do_pageflip, ms_pageflip_handler, ms_pageflip_free).  *)
FramebuffersKept == TypeOK /\ ShownKept /\ OneFbAtRest /\ CountsReferences

(* What Present waits for has an entry in the queue, and each entry of it an  *)
(* event that is to come or a call under way (ms_drm_abort, ms_present_abort_ *)
(* vblank).                                                                   *)
ToCome(seq) ==
  \/ \E r \in s.requests : r.seq = seq
  \/ \E c \in Crtcs : s.flips[c].seq = seq
  \/ \E i \in DOMAIN s.events : s.events[i].seq = seq
  \/ \E i \in DOMAIN s.calls : s.calls[i].seq = seq
NobodyForgotten ==
  \A e \in Events : s.life[e] = "waiting" =>
    LET mine == {i \in DOMAIN s.queue : s.queue[i].event = e}
    IN mine # {} /\ \A i \in mine : ToCome(s.queue[i].seq)

(* A flip that was refused is shown nowhere (ms_present_flip).                *)
RefusedNeverShown ==
  \A e \in Events : s.life[e] = "refused" =>
    \A c \in Crtcs : s.shows[c] # e /\ s.flips[c].fb # e

(* When a flip is refused, its framebuffer is not removed while a CRTC shows  *)
(* it (ms_do_pageflip, error_undo).                                           *)
UndoneUnshown ==
  \A e \in Events : s.life[e] = "refused" /\ e \notin s.fbs => \A c \in Crtcs : s.shows[c] # e
=============================================================================
