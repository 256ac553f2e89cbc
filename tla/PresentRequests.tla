---------------------------- MODULE PresentRequests ----------------------------
(****************************************************************************)
(* What the Present extension promises a client about each request and the   *)
(* buffer it hands over (presentproto.txt, PresentPixmap), with no queues,   *)
(* flips or hardware: a request completes at most once, a buffer comes back  *)
(* at most once and not while it is on the screen, and one buffer at a time  *)
(* is on the screen.                                                         *)
(****************************************************************************)
CONSTANT Requests

VARIABLE req

(* "none" before the request, and for the buffer of a request without one.  *)
Phase  == {"none", "queued", "copy", "skip", "flip", "dropped"}
Buffer == {"none", "server", "screen", "idle", "lost"}

Request == [phase : Phase, buffer : Buffer]

New == [phase |-> "none", buffer |-> "none"]

(* How one request and its buffer may change in one step.                   *)
Accept(a, b) ==
  a = New /\ b \in {[phase |-> "queued", buffer |-> "server"],
                    [phase |-> "queued", buffer |-> "none"]}

(* Copied to the window, at once or later; MSC notifications end alike.     *)
Copy(a, b) ==
  /\ a = New \/ (a.phase = "queued" /\ a.buffer \in {"none", "server"})
  /\ b.phase = "copy"
  /\ b.buffer = "idle" \/ (b.buffer = "none" /\ a.buffer = "none")

(* A later request for the same frame gives the buffer back unseen.         *)
Supersede(a, b) ==
  a = [phase |-> "queued", buffer |-> "server"] /\ b = [a EXCEPT !.buffer = "idle"]

Skip(a, b) ==
  a = [phase |-> "queued", buffer |-> "idle"] /\ b = [a EXCEPT !.phase = "skip"]

(* On the screen; nobody is told when the window is gone.                   *)
Show(a, b) ==
  /\ a.phase \in {"queued", "dropped"} /\ a.buffer = "server"
  /\ b = [phase |-> IF a.phase = "queued" THEN "flip" ELSE "dropped",
          buffer |-> "screen"]

Retire(a, b) == a.buffer = "screen" /\ b = [a EXCEPT !.buffer = "idle"]

(* The window is destroyed: a buffer not yet on its way to the screen is    *)
(* forgotten, one that is stays with the server.                            *)
Drop(a, b) ==
  /\ a.phase = "queued" /\ b.phase = "dropped"
  /\ b.buffer = a.buffer \/ (a.buffer = "server" /\ b.buffer = "lost")

Step(a, b) ==
  \/ a = b
  \/ Accept(a, b) \/ Copy(a, b) \/ Supersede(a, b) \/ Skip(a, b)
  \/ Show(a, b) \/ Retire(a, b) \/ Drop(a, b)

OneOnScreen(r) ==
  \A u, v \in Requests : r[u].buffer = "screen" /\ r[v].buffer = "screen" => u = v

Init == req = [v \in Requests |-> New]

Next ==
  /\ req' \in [Requests -> Request]
  /\ \A v \in Requests : Step(req[v], req'[v])
  /\ OneOnScreen(req')

Spec == Init /\ [][Next]_req

(* A completed request stays completed and a returned buffer stays returned. *)
Final ==
  [][\A v \in Requests :
       /\ req[v].phase \in {"copy", "skip", "flip"} => req'[v].phase = req[v].phase
       /\ req[v].buffer = "idle" => req'[v].buffer = "idle"]_req
=============================================================================
