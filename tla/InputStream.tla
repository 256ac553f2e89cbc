---------------------------- MODULE InputStream ----------------------------
(****************************************************************************)
(* What the input event queue promises (mi/mieq.c, test/input.c): events are *)
(* handled once each, in the order they were queued.  A motion may replace   *)
(* the motion of the same device queued just before it, and an event may be  *)
(* tossed only if many are waiting.                                          *)
(****************************************************************************)
EXTENDS Sequences, Naturals, SequencesExt

CONSTANTS
  Event,      \* records with fields dev and motion
  NoEvent,
  Capacity    \* events that are never tossed

VARIABLES
  stream,     \* events waiting
  handled     \* the event handled last

vars == <<stream, handled>>

Supersedes(e, s) == s # <<>> /\ e.motion /\ Last(s).motion /\ Last(s).dev = e.dev

Accept(e) ==
  /\ stream' = Append(stream, e)
  /\ UNCHANGED handled

Supersede(e) ==
  /\ Supersedes(e, stream)
  /\ stream' = ReplaceAt(stream, Len(stream), e)
  /\ UNCHANGED handled

Handle ==
  /\ stream # <<>>
  /\ handled' = Head(stream) /\ stream' = Tail(stream)

(* An event replaced by nothing leaves the variables as they are.           *)
Toss == Len(stream) >= Capacity /\ UNCHANGED vars

Init == stream = <<>> /\ handled = NoEvent

Next == Handle \/ Toss \/ \E e \in Event : Accept(e) \/ Supersede(e)

Spec == Init /\ [][Next]_vars
=============================================================================
