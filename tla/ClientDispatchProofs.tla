------------------------ MODULE ClientDispatchProofs ------------------------
(****************************************************************************)
(* Theorems about ClientDispatch for any set of clients and any amount of    *)
(* input: what the run client_turns checks on three clients.  They assume    *)
(* that no client fails in the middle of another's request, and InTurn also  *)
(* that no client gives up being impervious; the README says what these do.  *)
(****************************************************************************)
EXTENDS ClientDispatch, TLAPS

(* c may be served during the grab of t, if there is one.                   *)
Allowed(c, t) == t.grabber \in {NoClient, c} \/ c \in t.impervious

(* An open client sleeps or waits, or neither, and is ignored accordingly;  *)
(* one on a list is not ignored.                                            *)
Counted(c, t) ==
  /\ t.list[c] # "none" => t.count[c] = 0
  /\ t.status[c] # "gone" =>
       /\ t.count[c] \in {0, 1} /\ t.asleep[c] \in {0, 1}
       /\ t.count[c] = 1 <=> c \in t.ignored
       /\ t.count[c] = 1 <=> t.asleep[c] = 1 \/ c \in t.waiters
       /\ ~(t.asleep[c] = 1 /\ c \in t.waiters)

(* Nothing refers to a client that is gone.                                 *)
Forgotten(c, t) ==
  t.status[c] = "gone" =>
    /\ t.asleep[c] = 0 /\ c \notin t.waiters \cup t.signalled
    /\ t.list[c] = "none" /\ t.grabber # c

(* A client is on the second list only during a grab, and on the first only  *)
(* if it may be served.                                                     *)
Listed(c, t) ==
  /\ t.list[c] = "saved" => t.grabber # NoClient
  /\ "pervious" \notin Kinds /\ t.list[c] = "ready" => Allowed(c, t)

Good(t) ==
  /\ t \in SharedType
  /\ \A c \in Clients : Counted(c, t) /\ Forgotten(c, t) /\ Listed(c, t)

(* The client whose requests are run may run another.                       *)
Runs(c, t) ==
  /\ t.status[c] # "gone"
  /\ ~t.yield => t.count[c] = 0 /\ ("pervious" \notin Kinds => Allowed(c, t))

(* From t to u no client that is still there loses its place on a list,     *)
(* unless it is ignored, nor what poll has to report of it.                 *)
Keeps(t, u) ==
  \A d \in Clients : u.status[d] # "gone" =>
    /\ u.status[d] = t.status[d]
    /\ u.count[d] = 0 /\ u.list[d] = "none" => t.count[d] = 0 /\ t.list[d] = "none"
    /\ t.edge[d] => u.edge[d]

(* What the client sent will be seen.                                       *)
Noticed(c) ==
  s.status[c] # "gone" /\ s.count[c] = 0 =>
    /\ buffered[c] > 0 \/ running = c => s.list[c] # "none"
    /\ socket[c] > 0 /\ s.status[c] = "open" => s.list[c] # "none" \/ s.edge[c]

IInv ==
  /\ Good(s)
  /\ socket \in [Clients -> 0..MaxInput] /\ buffered \in [Clients -> 0..MaxInput]
  /\ running \in Clients \cup {NoClient}
  /\ \A c \in Clients : socket[c] + buffered[c] <= MaxInput /\ Noticed(c)
  /\ running # NoClient => Runs(running, s)

USE ClientDispatchAssumption

----------------------------------------------------------------------------
(* Polling changes nothing but what poll will report, and only adds to it.  *)
LEMMA PollEffect ==
  ASSUME NEW t \in SharedType, NEW cs \in SUBSET Clients
  PROVE  LET u == PollClients(cs, t) IN
         /\ u \in SharedType /\ u = [t EXCEPT !.edge = u.edge]
         /\ \A d \in Clients : t.edge[d] => u.edge[d]
<1> DEFINE e == [c \in Clients |->
       t.edge[c] \/ (c \in cs /\ t.status[c] = "open" /\ Listens(c, t) /\ socket[c] > 0)]
<1>1. PollClients(cs, t) = [t EXCEPT !.edge = e]
  BY Zenon DEF PollClients
<1>2. e \in [Clients -> BOOLEAN]
  <2>1. \A c \in Clients :
          (t.edge[c] \/ (c \in cs /\ t.status[c] = "open" /\ Listens(c, t) /\ socket[c] > 0))
            \in BOOLEAN
    BY Zenon
  <2> QED
    BY <2>1, Zenon
<1>3. \A d \in Clients : t.edge[d] => e[d]
  BY Zenon
<1> HIDE DEF e
<1> QED
  BY <1>1, <1>2, <1>3 DEF SharedType

(* Each handler keeps the invariant of what the handlers share.             *)
LEMMA IgnoreGood ==
  ASSUME NEW t, Good(t), NEW c \in Clients, t.status[c] # "gone", t.count[c] = 0
  PROVE  LET u == IgnoreClient(c, t) IN
         /\ u \in SharedType /\ Keeps(t, u) /\ u.yield
         /\ \A d \in Clients : d # c =>
              u.count[d] = t.count[d] /\ u.list[d] = t.list[d]
         /\ u.count[c] = 1 /\ u.list[c] = "none" /\ u.ignored = t.ignored \cup {c}
         /\ u.status = t.status /\ u.impervious = t.impervious /\ u.grabber = t.grabber
         /\ u.waiters = t.waiters /\ u.asleep = t.asleep /\ u.signalled = t.signalled
<1> DEFINE v == [t EXCEPT !.count[c] = 1, !.yield = TRUE, !.ignored = @ \cup {c}]
           w == MarkNotReady(c, v)
<1>1. IgnoreClient(c, t) = PollClients({c}, w)
  BY DEF IgnoreClient
<1>2. w \in SharedType
  BY DEF MarkNotReady, SharedType, Good
<1>3. LET u == PollClients({c}, w) IN
      /\ u \in SharedType /\ u = [w EXCEPT !.edge = u.edge]
      /\ \A d \in Clients : w.edge[d] => u.edge[d]
  BY <1>2, PollEffect
<1> DEFINE u == PollClients({c}, w)
<1>4. w = [t EXCEPT !.count = [t.count EXCEPT ![c] = 1], !.yield = TRUE,
                    !.ignored = t.ignored \cup {c}, !.list = [t.list EXCEPT ![c] = "none"]]
  BY DEF MarkNotReady, SharedType, Good
<1> HIDE DEF w, v
<1>5. /\ u.count = [t.count EXCEPT ![c] = 1] /\ u.list = [t.list EXCEPT ![c] = "none"]
      /\ u.yield /\ u.ignored = t.ignored \cup {c}
      /\ u.status = t.status /\ u.impervious = t.impervious /\ u.grabber = t.grabber
      /\ u.waiters = t.waiters /\ u.asleep = t.asleep /\ u.signalled = t.signalled
      /\ \A d \in Clients : t.edge[d] => u.edge[d]
  <2>1. /\ u \in SharedType /\ u = [w EXCEPT !.edge = u.edge]
        /\ \A d \in Clients : w.edge[d] => u.edge[d]
    BY <1>3
  <2> HIDE DEF u
  <2>2. t \in SharedType
    BY DEF Good
  <2>3. /\ w.count = [t.count EXCEPT ![c] = 1] /\ w.list = [t.list EXCEPT ![c] = "none"]
        /\ w.yield /\ w.ignored = t.ignored \cup {c} /\ w.edge = t.edge
        /\ w.status = t.status /\ w.impervious = t.impervious /\ w.grabber = t.grabber
        /\ w.waiters = t.waiters /\ w.asleep = t.asleep /\ w.signalled = t.signalled
    BY <1>4, <2>2 DEF SharedType
  <2> QED
    BY <1>2, <2>1, <2>3 DEF SharedType
<1>6. u = IgnoreClient(c, t) /\ u \in SharedType
  BY <1>1, <1>3
<1> HIDE DEF u
<1>7. Keeps(t, u)
  BY <1>5 DEF SharedType, Good, Keeps
<1>8. \A d \in Clients : d # c => u.count[d] = t.count[d] /\ u.list[d] = t.list[d]
  BY <1>5 DEF SharedType, Good
<1>9. u.count[c] = 1 /\ u.list[c] = "none"
  BY <1>5 DEF SharedType, Good
<1> QED
  BY <1>5, <1>6, <1>7, <1>8, <1>9, Zenon

(* What attending an ignored client does, once the reason to ignore it is gone. *)
LEMMA AttendEffect ==
  ASSUME NEW t \in SharedType, NEW c \in Clients,
         t.status[c] # "gone", t.count[c] = 1, t.list[c] = "none"
  PROVE  LET u == AttendClient(c, t) IN
         /\ u \in SharedType
         /\ u.count = [t.count EXCEPT ![c] = 0] /\ u.ignored = t.ignored \ {c}
         /\ u.list = [t.list EXCEPT ![c] = IF Allowed(c, t) THEN "ready" ELSE "saved"]
         /\ \A d \in Clients : t.edge[d] => u.edge[d]
         /\ u.status = t.status /\ u.impervious = t.impervious /\ u.grabber = t.grabber
         /\ u.waiters = t.waiters /\ u.asleep = t.asleep /\ u.signalled = t.signalled
         /\ u.yield = t.yield
<1> DEFINE v == [t EXCEPT !.count = [t.count EXCEPT ![c] = 0], !.ignored = t.ignored \ {c}]
           w == PollClients({c}, v)
           u == [w EXCEPT !.list = [t.list EXCEPT ![c] =
                                      IF Allowed(c, t) THEN "ready" ELSE "saved"]]
<1>1. v \in SharedType
  BY DEF SharedType
<1>2. /\ w \in SharedType /\ w = [v EXCEPT !.edge = w.edge]
      /\ \A d \in Clients : v.edge[d] => w.edge[d]
  BY <1>1, PollEffect
<1>3. [t EXCEPT !.count[c] = 0, !.ignored = @ \ {c}] = v
  BY DEF SharedType
<1>4. AttendClient(c, t) = IF Listens(c, w) THEN MarkReady(c, w) ELSE MarkSavedReady(c, w)
  BY <1>3 DEF AttendClient
<1> HIDE DEF w
<1>5. w.list = t.list /\ (Listens(c, w) <=> Allowed(c, t))
  <2>1. /\ w.list = t.list /\ w.ignored = t.ignored \ {c}
        /\ w.grabber = t.grabber /\ w.impervious = t.impervious
    BY <1>2 DEF SharedType
  <2>2. c \notin w.ignored
    BY <2>1
  <2> QED
    BY <2>1, <2>2, Zenon DEF Listens, Allowed
<1>6. AttendClient(c, t) = u
  <2>1. CASE Listens(c, w)
    BY <1>2, <1>4, <1>5, <2>1 DEF SharedType, MarkReady
  <2>2. CASE ~Listens(c, w)
    BY <1>2, <1>4, <1>5, <2>2 DEF SharedType, MarkSavedReady
  <2> QED
    BY <2>1, <2>2
<1> DEFINE l == [t.list EXCEPT ![c] = IF Allowed(c, t) THEN "ready" ELSE "saved"]
<1>7. l \in [Clients -> {"none", "ready", "saved"}]
  BY DEF SharedType
<1>8. u = [w EXCEPT !.list = l]
  BY Zenon
<1> HIDE DEF l, u
<1>9. /\ u \in SharedType /\ u.list = l
      /\ u.count = [t.count EXCEPT ![c] = 0] /\ u.ignored = t.ignored \ {c}
      /\ \A d \in Clients : t.edge[d] => u.edge[d]
      /\ u.status = t.status /\ u.impervious = t.impervious /\ u.grabber = t.grabber
      /\ u.waiters = t.waiters /\ u.asleep = t.asleep /\ u.signalled = t.signalled
      /\ u.yield = t.yield
  BY <1>2, <1>7, <1>8, ZenonT(30) DEF SharedType
<1> QED
  BY <1>6, <1>9, Zenon DEF l

(* A client that sleeps is ignored for it, and its turn is over.            *)
LEMMA SleepGood ==
  ASSUME NEW t, Good(t), NEW c \in Clients, t.status[c] # "gone", t.count[c] = 0
  PROVE  LET u == ClientSleep(c, t) IN
         /\ Good(u) /\ Keeps(t, u) /\ u.yield /\ c \in u.ignored
         /\ u.status = t.status /\ u.count[c] = 1
<1> DEFINE w == IgnoreClient(c, t)
           u == ClientSleep(c, t)
<1>1. /\ w \in SharedType /\ Keeps(t, w) /\ w.yield
      /\ \A d \in Clients : d # c => w.count[d] = t.count[d] /\ w.list[d] = t.list[d]
      /\ w.count[c] = 1 /\ w.list[c] = "none" /\ w.ignored = t.ignored \cup {c}
      /\ w.status = t.status /\ w.impervious = t.impervious /\ w.grabber = t.grabber
      /\ w.waiters = t.waiters /\ w.asleep = t.asleep /\ w.signalled = t.signalled
  BY IgnoreGood
<1>2. u = [w EXCEPT !.asleep[c] = @ + 1]
  BY DEF ClientSleep
<1> HIDE DEF w, u
<1>3. /\ u \in SharedType /\ u.asleep = [t.asleep EXCEPT ![c] = @ + 1]
      /\ u.status = t.status /\ u.impervious = t.impervious /\ u.grabber = t.grabber
      /\ u.waiters = t.waiters /\ u.signalled = t.signalled /\ u.yield
      /\ u.count = w.count /\ u.list = w.list /\ u.ignored = w.ignored /\ u.edge = w.edge
  BY <1>1, <1>2, SMTT(20) DEF SharedType
<1>4. t \in SharedType
  BY DEF Good
<1>5. ASSUME NEW d \in Clients PROVE Counted(d, u)
  <2>1. CASE d = c
    BY <1>1, <1>3, <1>4, <2>1 DEF Good, Counted, SharedType
  <2>2. CASE d # c
    BY <1>1, <1>3, <1>4, <2>2 DEF Good, Counted, SharedType
  <2> QED
    BY <2>1, <2>2
<1>6. ASSUME NEW d \in Clients PROVE Forgotten(d, u)
  BY <1>1, <1>3, <1>4 DEF Good, Forgotten, SharedType
<1>7. ASSUME NEW d \in Clients PROVE Listed(d, u)
  BY <1>1, <1>3, <1>4 DEF Good, Listed, Allowed
<1>8. Keeps(t, u)
  BY <1>1, <1>3 DEF Keeps
<1> QED
  BY <1>1, <1>3, <1>5, <1>6, <1>7, <1>8 DEF Good, u

(* A woken client is attended: its sleep was the reason to ignore it.       *)
LEMMA WakeupGood ==
  ASSUME NEW t, Good(t), NEW c \in Clients, t.status[c] # "gone"
  PROVE  LET u == ClientWakeup(c, t) IN
         /\ Good(u) /\ Keeps(t, u) /\ u.status = t.status
         /\ u.signalled = t.signalled
<1>0. t \in SharedType
  BY DEF Good
<1>1. CASE t.asleep[c] = 0
  BY <1>1 DEF ClientWakeup, Keeps
<1>2. CASE t.asleep[c] # 0
  <2> DEFINE v == [t EXCEPT !.asleep[c] = @ - 1]
             u == AttendClient(c, v)
  <2>1. ClientWakeup(c, t) = u
    BY <1>2 DEF ClientWakeup
  <2>2. t.asleep[c] = 1 /\ t.count[c] = 1 /\ t.list[c] = "none" /\ c \notin t.waiters
    BY <1>0, <1>2 DEF Good, Counted, SharedType
  <2>3. /\ v \in SharedType /\ v.asleep = [t.asleep EXCEPT ![c] = 0]
        /\ v.status = t.status /\ v.list = t.list /\ v.edge = t.edge /\ v.count = t.count
        /\ v.ignored = t.ignored /\ v.impervious = t.impervious /\ v.grabber = t.grabber
        /\ v.waiters = t.waiters /\ v.signalled = t.signalled
    BY <1>0, <2>2, SMTT(20) DEF SharedType
  <2> HIDE DEF v
  <2>4. v.status[c] # "gone" /\ v.count[c] = 1 /\ v.list[c] = "none"
        /\ (Allowed(c, v) <=> Allowed(c, t))
    BY <2>2, <2>3 DEF Allowed
  <2>5. /\ u \in SharedType
        /\ u.count = [v.count EXCEPT ![c] = 0] /\ u.ignored = v.ignored \ {c}
        /\ u.list = [v.list EXCEPT ![c] = IF Allowed(c, v) THEN "ready" ELSE "saved"]
        /\ \A d \in Clients : v.edge[d] => u.edge[d]
        /\ u.status = v.status /\ u.impervious = v.impervious /\ u.grabber = v.grabber
        /\ u.waiters = v.waiters /\ u.asleep = v.asleep /\ u.signalled = v.signalled
    BY <2>3, <2>4, AttendEffect
  <2> HIDE DEF u
  <2>6. ASSUME NEW d \in Clients PROVE Counted(d, u) /\ Forgotten(d, u)
    <3>1. CASE d = c
      BY <1>0, <2>2, <2>3, <2>4, <2>5, <3>1 DEF Good, Counted, Forgotten, SharedType
    <3>2. CASE d # c
      BY <1>0, <2>2, <2>3, <2>5, <3>2 DEF Good, Counted, Forgotten, SharedType
    <3> QED
      BY <3>1, <3>2
  <2>7. ASSUME NEW d \in Clients PROVE Listed(d, u)
    <3>1. CASE d = c
      BY <1>0, <2>3, <2>4, <2>5, <3>1 DEF Good, Listed, Allowed, SharedType
    <3>2. CASE d # c
      BY <1>0, <2>3, <2>5, <3>2 DEF Good, Listed, Allowed, SharedType
    <3> QED
      BY <3>1, <3>2
  <2>8. Keeps(t, u)
    BY <1>0, <2>2, <2>3, <2>5 DEF Keeps, SharedType
  <2> QED
    BY <2>1, <2>3, <2>5, <2>6, <2>7, <2>8 DEF Good
<1> QED
  BY <1>1, <1>2

(* A signal to a sleeping client queues its wakeup.                         *)
LEMMA SignalGood ==
  ASSUME NEW t, Good(t), NEW c \in Clients, NEW r \in Clients
  PROVE  LET u == ClientSignal(c, t) IN
         /\ Good(u) /\ Keeps(t, u) /\ (Runs(r, t) => Runs(r, u))
<1>0. t \in SharedType
  BY DEF Good
<1>1. CASE t.asleep[c] > 0
  <2> DEFINE u == [t EXCEPT !.signalled = @ \cup {c}]
  <2>1. ClientSignal(c, t) = u
    BY <1>1 DEF ClientSignal
  <2>2. t.status[c] # "gone"
    BY <1>1 DEF Good, Forgotten
  <2>3. /\ u \in SharedType /\ u.signalled = t.signalled \cup {c} /\ u.asleep = t.asleep
        /\ u.status = t.status /\ u.list = t.list /\ u.edge = t.edge /\ u.count = t.count
        /\ u.ignored = t.ignored /\ u.impervious = t.impervious /\ u.grabber = t.grabber
        /\ u.waiters = t.waiters /\ u.yield = t.yield
    BY <1>0 DEF SharedType
  <2> HIDE DEF u
  <2>4. ASSUME NEW d \in Clients PROVE Counted(d, u) /\ Forgotten(d, u) /\ Listed(d, u)
    BY <2>2, <2>3 DEF Good, Counted, Forgotten, Listed, Allowed
  <2> QED
    BY <2>1, <2>3, <2>4 DEF Good, Keeps, Runs, Allowed
<1>2. CASE ~(t.asleep[c] > 0)
  BY <1>2 DEF ClientSignal, Keeps
<1> QED
  BY <1>1, <1>2

(* A request that waits for the grab to end, and one that takes it.         *)
LEMMA GrabGood ==
  ASSUME NEW t, Good(t), NEW c \in Clients, t.status[c] # "gone", t.count[c] = 0
  PROVE  LET u == GrabServer(c, t) IN
         /\ Good(u) /\ Keeps(t, u) /\ Runs(c, u)
<1>0. t \in SharedType /\ c # NoClient
  BY DEF Good
<1>1. CASE Waits(c, t)
  <2> DEFINE v == ResetCurrentRequest(c, t)
             w == [v EXCEPT !.waiters = @ \cup {c}]
             u == IgnoreClient(c, w)
             l == IF Listens(c, t) /\ t.list[c] = "none"
                    THEN [t.list EXCEPT ![c] = "ready"] ELSE t.list
  <2>1. GrabServer(c, t) = u
    BY <1>1 DEF GrabServer
  <2>2. v = [t EXCEPT !.list = l, !.yield = TRUE]
    BY <1>0 DEF ResetCurrentRequest, MarkReady, SharedType
  <2>3. l \in [Clients -> {"none", "ready", "saved"}]
    BY <1>0 DEF SharedType
  <2> HIDE DEF l, v
  <2> DEFINE x == MarkNotReady(c, [w EXCEPT !.count[c] = 1, !.yield = TRUE,
                                            !.ignored = @ \cup {c}])
  <2>4. /\ w \in SharedType /\ w.list = l /\ w.waiters = t.waiters \cup {c}
        /\ w.status = t.status /\ w.edge = t.edge /\ w.count = t.count
        /\ w.ignored = t.ignored /\ w.impervious = t.impervious /\ w.grabber = t.grabber
        /\ w.asleep = t.asleep /\ w.signalled = t.signalled
    BY <1>0, <2>2, <2>3, ZenonT(30) DEF SharedType
  <2> HIDE DEF w
  <2>5. u = PollClients({c}, x)
    BY <2>4 DEF IgnoreClient
  <2>6. /\ x \in SharedType /\ x.list = [l EXCEPT ![c] = "none"] /\ x.yield
        /\ x.count = [t.count EXCEPT ![c] = 1] /\ x.ignored = t.ignored \cup {c}
        /\ x.waiters = t.waiters \cup {c} /\ x.status = t.status /\ x.edge = t.edge
        /\ x.impervious = t.impervious /\ x.grabber = t.grabber
        /\ x.asleep = t.asleep /\ x.signalled = t.signalled
    BY <2>4 DEF MarkNotReady, SharedType
  <2>7. [l EXCEPT ![c] = "none"] = [t.list EXCEPT ![c] = "none"]
    BY <1>0 DEF l, SharedType
  <2> HIDE DEF x, u
  <2>8. /\ u \in SharedType /\ u = [x EXCEPT !.edge = u.edge]
        /\ \A d \in Clients : x.edge[d] => u.edge[d]
    BY <2>5, <2>6, PollEffect
  <2>9. /\ u.list = [t.list EXCEPT ![c] = "none"] /\ u.yield
        /\ u.count = [t.count EXCEPT ![c] = 1] /\ u.ignored = t.ignored \cup {c}
        /\ u.waiters = t.waiters \cup {c} /\ u.status = t.status
        /\ \A d \in Clients : t.edge[d] => u.edge[d]
        /\ u.impervious = t.impervious /\ u.grabber = t.grabber
        /\ u.asleep = t.asleep /\ u.signalled = t.signalled
    BY <2>6, <2>7, <2>8, ZenonT(30) DEF SharedType
  <2>10. ASSUME NEW d \in Clients PROVE Counted(d, u) /\ Forgotten(d, u)
    <3>1. CASE d = c
      BY <1>0, <2>8, <2>9, <3>1 DEF Good, Counted, Forgotten, SharedType
    <3>2. CASE d # c
      BY <1>0, <2>8, <2>9, <3>2 DEF Good, Counted, Forgotten, SharedType
    <3> QED
      BY <3>1, <3>2
  <2>11. ASSUME NEW d \in Clients PROVE Listed(d, u)
    BY <1>0, <2>9 DEF Good, Listed, Allowed, SharedType
  <2>12. Keeps(t, u) /\ Runs(c, u)
    BY <1>0, <2>9 DEF Keeps, Runs, SharedType
  <2> QED
    BY <2>1, <2>8, <2>10, <2>11, <2>12 DEF Good
<1>2. CASE ~Waits(c, t)
  <2> DEFINE v == [t EXCEPT !.grabber = c]
             w == IF t.grabber = NoClient THEN PollClients(Clients, v) ELSE v
             u == MarkGrab(c, w)
             l == [d \in Clients |-> IF d # c /\ t.list[d] = "ready" THEN "saved" ELSE t.list[d]]
  <2>1. GrabServer(c, t) = u
    BY <1>2, Zenon DEF GrabServer
  <2>2. v \in SharedType
    BY <1>0 DEF SharedType
  <2>3. /\ w \in SharedType /\ w = [v EXCEPT !.edge = w.edge]
        /\ \A d \in Clients : v.edge[d] => w.edge[d]
    <3>1. CASE t.grabber = NoClient
      BY <2>2, <3>1, PollEffect
    <3>2. CASE t.grabber # NoClient
      BY <2>2, <3>2 DEF SharedType
    <3> QED
      BY <3>1, <3>2
  <2> HIDE DEF w
  <2>4. /\ w.list = t.list /\ w.grabber = c /\ w.count = t.count /\ w.ignored = t.ignored
        /\ w.waiters = t.waiters /\ w.status = t.status
        /\ w.impervious = t.impervious /\ w.asleep = t.asleep
        /\ w.signalled = t.signalled /\ w.yield = t.yield
        /\ \A d \in Clients : t.edge[d] => w.edge[d]
    BY <1>0, <2>3 DEF SharedType
  <2>5. u = [w EXCEPT !.list = l]
    BY <2>4 DEF MarkGrab
  <2>6. l \in [Clients -> {"none", "ready", "saved"}]
    BY <1>0 DEF SharedType
  <2>7. \A d \in Clients : l[d] = IF d # c /\ t.list[d] = "ready" THEN "saved" ELSE t.list[d]
    BY Zenon
  <2> HIDE DEF l, u
  <2>8. /\ u \in SharedType /\ u.list = l
        /\ u.grabber = c /\ u.count = t.count /\ u.ignored = t.ignored
        /\ u.waiters = t.waiters /\ u.status = t.status
        /\ u.impervious = t.impervious /\ u.asleep = t.asleep
        /\ u.signalled = t.signalled /\ u.yield = t.yield
        /\ \A d \in Clients : t.edge[d] => u.edge[d]
    BY <2>3, <2>4, <2>5, <2>6 DEF SharedType
  <2>9. ASSUME NEW d \in Clients PROVE Counted(d, u) /\ Forgotten(d, u) /\ Listed(d, u)
    <3>1. Counted(d, t) /\ Forgotten(d, t)
      BY DEF Good
    <3>2. Counted(d, u)
      BY <2>7, <2>8, <3>1 DEF Counted
    <3>3. Forgotten(d, u)
      BY <2>7, <2>8, <3>1 DEF Forgotten
    <3>4. Listed(d, u)
      BY <1>0, <2>7, <2>8 DEF Listed, Allowed
    <3> QED
      BY <3>2, <3>3, <3>4
  <2>10. Keeps(t, u) /\ Runs(c, u)
    BY <1>0, <2>7, <2>8 DEF Keeps, Runs, Allowed, SharedType
  <2> QED
    BY <2>1, <2>8, <2>9, <2>10 DEF Good
<1> QED
  BY <1>1, <1>2

(* At the end of a grab one client that waits for it is attended, and all   *)
(* that are listed can be run.                                              *)
LEMMA UngrabGood ==
  ASSUME NEW t, Good(t), NEW u \in UngrabServer(t)
  PROVE  /\ Good(u) /\ Keeps(t, u) /\ u.status = t.status /\ u.grabber = NoClient
         /\ \A r \in Clients : Runs(r, t) => Runs(r, u)
<1>0. t \in SharedType
  BY DEF Good
<1> DEFINE g == [t EXCEPT !.grabber = NoClient]
           p == PollClients(Clients, g)
           m == MarkUngrab(p)
           l == [d \in Clients |-> IF t.list[d] = "saved" THEN "ready" ELSE t.list[d]]
<1>1. g \in SharedType
  BY <1>0 DEF SharedType
<1>2. /\ p \in SharedType /\ p = [g EXCEPT !.edge = p.edge]
      /\ \A d \in Clients : g.edge[d] => p.edge[d]
  BY <1>1, PollEffect
<1> HIDE DEF p
<1>3. /\ p.list = t.list /\ p.grabber = NoClient /\ p.count = t.count
      /\ p.ignored = t.ignored /\ p.waiters = t.waiters /\ p.status = t.status
      /\ p.impervious = t.impervious /\ p.asleep = t.asleep
      /\ p.signalled = t.signalled /\ p.yield = t.yield
      /\ \A d \in Clients : t.edge[d] => p.edge[d]
  BY <1>0, <1>2 DEF SharedType
<1>4. m = [p EXCEPT !.list = l]
  BY <1>3 DEF MarkUngrab
<1>5. l \in [Clients -> {"none", "ready", "saved"}]
  BY <1>0 DEF SharedType
<1>6. \A d \in Clients : l[d] = IF t.list[d] = "saved" THEN "ready" ELSE t.list[d]
  BY Zenon
<1>7. UngrabServer(t) = IF m.waiters = {} THEN {m}
        ELSE {AttendClient(w, [m EXCEPT !.waiters = @ \ {w}]) : w \in m.waiters}
  BY Zenon DEF UngrabServer, p
<1> HIDE DEF l, m
<1>8. /\ m \in SharedType /\ m.list = l /\ m.grabber = NoClient /\ m.count = t.count
      /\ m.ignored = t.ignored /\ m.waiters = t.waiters /\ m.status = t.status
      /\ m.impervious = t.impervious /\ m.asleep = t.asleep
      /\ m.signalled = t.signalled /\ m.yield = t.yield
      /\ \A d \in Clients : t.edge[d] => m.edge[d]
  BY <1>2, <1>3, <1>4, <1>5 DEF SharedType
<1>9. Good(m)
  <2> SUFFICES ASSUME NEW d \in Clients
               PROVE  Counted(d, m) /\ Forgotten(d, m) /\ Listed(d, m)
    BY <1>8 DEF Good
  <2>1. Counted(d, t) /\ Forgotten(d, t)
    BY DEF Good
  <2>2. Counted(d, m)
    BY <1>6, <1>8, <2>1 DEF Counted
  <2>3. Forgotten(d, m)
    BY <1>6, <1>8, <2>1 DEF Forgotten
  <2>4. Listed(d, m)
    BY <1>0, <1>6, <1>8 DEF Listed, Allowed, SharedType
  <2> QED
    BY <2>2, <2>3, <2>4
<1>10. CASE m.waiters = {}
  <2>1. u = m
    BY <1>7, <1>10
  <2> QED
    BY <1>0, <1>6, <1>8, <1>9, <2>1 DEF Keeps, Runs, Allowed, SharedType
<1>11. CASE m.waiters # {}
  <2>1. PICK w \in m.waiters : u = AttendClient(w, [m EXCEPT !.waiters = @ \ {w}])
    BY <1>7, <1>11
  <2> DEFINE v == [m EXCEPT !.waiters = @ \ {w}]
  <2>2. w \in Clients
    BY <1>8 DEF SharedType
  <2>3. /\ v \in SharedType /\ v.list = l /\ v.grabber = NoClient /\ v.count = t.count
        /\ v.ignored = t.ignored /\ v.waiters = t.waiters \ {w} /\ v.status = t.status
        /\ v.impervious = t.impervious /\ v.asleep = t.asleep
        /\ v.signalled = t.signalled /\ v.yield = t.yield /\ v.edge = m.edge
    BY <1>8 DEF SharedType
  <2> HIDE DEF v
  <2>4. w \in t.waiters /\ t.status[w] # "gone" /\ t.count[w] = 1 /\ t.list[w] = "none"
        /\ t.asleep[w] = 0 /\ l[w] = "none"
    BY <1>0, <1>6, <1>8, <2>1, <2>2 DEF Good, Counted, Forgotten, SharedType
  <2>5. Allowed(w, v)
    BY <2>3 DEF Allowed
  <2>6. /\ u \in SharedType
        /\ u.count = [v.count EXCEPT ![w] = 0] /\ u.ignored = v.ignored \ {w}
        /\ u.list = [v.list EXCEPT ![w] = IF Allowed(w, v) THEN "ready" ELSE "saved"]
        /\ \A d \in Clients : v.edge[d] => u.edge[d]
        /\ u.status = v.status /\ u.impervious = v.impervious /\ u.grabber = v.grabber
        /\ u.waiters = v.waiters /\ u.asleep = v.asleep /\ u.signalled = v.signalled
        /\ u.yield = v.yield
    <3>1. v \in SharedType /\ v.status[w] # "gone" /\ v.count[w] = 1 /\ v.list[w] = "none"
      BY <2>3, <2>4
    <3>2. u = AttendClient(w, v)
      BY <2>1 DEF v
    <3> QED
      BY <2>2, <3>1, <3>2, AttendEffect
  <2>7. ASSUME NEW d \in Clients
        PROVE  Counted(d, u) /\ Forgotten(d, u) /\ Listed(d, u)
    <3>1. Counted(d, m) /\ Forgotten(d, m)
      BY <1>9 DEF Good
    <3>2. CASE d = w
      BY <1>0, <1>8, <2>3, <2>4, <2>5, <2>6, <3>1, <3>2
         DEF Counted, Forgotten, Listed, Allowed, SharedType
    <3>3. CASE d # w
      <4>1. u.count[d] = t.count[d] /\ u.list[d] = l[d]
        BY <1>0, <1>8, <2>3, <2>6, <3>3 DEF SharedType
      <4>2. Counted(d, u)
        BY <1>8, <2>3, <2>6, <3>1, <3>3, <4>1 DEF Counted
      <4>3. Forgotten(d, u)
        BY <1>8, <2>3, <2>6, <3>1, <3>3, <4>1 DEF Forgotten
      <4>4. Listed(d, u)
        BY <1>0, <1>6, <2>3, <2>6, <4>1 DEF Listed, Allowed, SharedType
      <4> QED
        BY <4>2, <4>3, <4>4
    <3> QED
      BY <3>2, <3>3
  <2>8. Keeps(t, u)
    BY <1>0, <1>5, <1>6, <1>8, <2>2, <2>3, <2>4, <2>5, <2>6 DEF Keeps, SharedType
  <2>9. \A r \in Clients : Runs(r, t) => Runs(r, u)
    BY <1>0, <1>8, <2>3, <2>6 DEF Runs, Allowed, SharedType
  <2> QED
    BY <2>3, <2>6, <2>7, <2>8, <2>9 DEF Good
<1> QED
  BY <1>10, <1>11

(* The results of a request keep the invariant, and the right to go on.     *)
LEMMA HandleGood ==
  ASSUME NEW t, Good(t), NEW c \in Clients, Runs(c, t), ~t.yield, NEW d \in Clients,
         "fail" \notin Kinds, NEW kind \in Kinds, NEW u \in Handle(kind, c, d, t)
  PROVE  Good(u) /\ Keeps(t, u) /\ Runs(c, u)
<1>0. /\ t \in SharedType /\ t.status[c] # "gone" /\ t.count[c] = 0
      /\ Keeps(t, t) /\ kind \in AllKinds \ {"fail"}
  BY DEF Good, Runs, Keeps
<1>1. CASE kind = "plain"
  BY <1>0, <1>1 DEF Handle
<1>2. CASE kind = "grab"
  <2>1. u = GrabServer(c, t)
    BY <1>2 DEF Handle
  <2> QED
    BY <1>0, <2>1, GrabGood
<1>3. CASE kind = "ungrab"
  <2>1. u \in UngrabServer(t)
    BY <1>3 DEF Handle
  <2> QED
    BY <2>1, UngrabGood
<1>4. CASE kind = "impervious"
  <2> DEFINE v == [t EXCEPT !.impervious = @ \cup {c}]
  <2>1. u = PollClients({c}, v)
    BY <1>4 DEF Handle, Impervious
  <2>2. v \in SharedType
    BY <1>0 DEF SharedType
  <2>3. u \in SharedType /\ u = [v EXCEPT !.edge = u.edge]
        /\ \A e \in Clients : v.edge[e] => u.edge[e]
    BY <2>1, <2>2, PollEffect
  <2>4. /\ u.list = t.list /\ u.grabber = t.grabber /\ u.count = t.count
        /\ u.ignored = t.ignored /\ u.waiters = t.waiters /\ u.status = t.status
        /\ u.impervious = t.impervious \cup {c} /\ u.asleep = t.asleep
        /\ u.signalled = t.signalled /\ u.yield = t.yield
        /\ \A e \in Clients : t.edge[e] => u.edge[e]
    BY <1>0, <2>3 DEF SharedType
  <2>5. ASSUME NEW e \in Clients PROVE Counted(e, u) /\ Forgotten(e, u) /\ Listed(e, u)
    BY <2>4 DEF Good, Counted, Forgotten, Listed, Allowed
  <2> QED
    BY <2>3, <2>4, <2>5 DEF Good, Keeps, Runs, Allowed
<1>5. CASE kind = "pervious"
  <2> DEFINE v == [t EXCEPT !.impervious = @ \ {c}]
             w == PollClients({c}, v)
  <2>1. u = [w EXCEPT !.yield = TRUE]
    BY <1>5 DEF Handle, Pervious
  <2>2. v \in SharedType
    BY <1>0 DEF SharedType
  <2>3. w \in SharedType /\ w = [v EXCEPT !.edge = w.edge]
        /\ \A e \in Clients : v.edge[e] => w.edge[e]
    BY <2>2, PollEffect
  <2> HIDE DEF w
  <2>4. /\ u \in SharedType /\ u.list = t.list /\ u.grabber = t.grabber
        /\ u.count = t.count /\ u.ignored = t.ignored /\ u.waiters = t.waiters
        /\ u.status = t.status /\ u.asleep = t.asleep
        /\ u.signalled = t.signalled /\ u.yield
        /\ \A e \in Clients : t.edge[e] => u.edge[e]
    BY <1>0, <2>1, <2>3 DEF SharedType
  <2>5. ASSUME NEW e \in Clients PROVE Counted(e, u) /\ Forgotten(e, u) /\ Listed(e, u)
    BY <1>5, <2>4 DEF Good, Counted, Forgotten, Listed
  <2> QED
    BY <1>0, <2>4, <2>5 DEF Good, Keeps, Runs
<1>6. CASE kind = "sleep"
  <2>1. u = ClientSleep(c, t)
    BY <1>6 DEF Handle
  <2> QED
    BY <1>0, <2>1, SleepGood DEF Runs
<1>7. CASE kind = "retry"
  <2> DEFINE v == ClientSleep(c, t)
  <2>1. u = ResetCurrentRequest(c, v)
    BY <1>7 DEF Handle
  <2>2. Good(v) /\ Keeps(t, v) /\ v.yield /\ c \in v.ignored /\ v.status = t.status
    BY <1>0, SleepGood
  <2> HIDE DEF v
  <2>3. u = v
    BY <2>1, <2>2 DEF ResetCurrentRequest, Listens, Good, SharedType
  <2> QED
    BY <1>0, <2>2, <2>3 DEF Runs
<1>8. CASE kind = "signal"
  <2>1. u = ClientSignal(d, t)
    BY <1>8 DEF Handle
  <2> QED
    BY <2>1, SignalGood
<1> QED
  BY <1>0, <1>1, <1>2, <1>3, <1>4, <1>5, <1>6, <1>7, <1>8 DEF AllKinds

(* Nothing is left of a client that goes, and the others lose nothing.      *)
LEMMA BuryGood ==
  ASSUME NEW t, Good(t), NEW c \in Clients, t.status[c] # "gone", t.grabber # c
  PROVE  Good(Bury(c, t)) /\ Keeps(t, Bury(c, t))
<1>0. t \in SharedType /\ t.asleep[c] \in {0, 1}
  BY DEF Good, Counted
<1> DEFINE v == [t EXCEPT !.waiters = @ \ {c}, !.status[c] = "gone"]
           w == ClientSignal(c, v)
           x == ClientWakeup(c, w)
           y == [x EXCEPT !.signalled = @ \ {c}]
           u == MarkNotReady(c, y)
<1>1. Bury(c, t) = u
  BY DEF Bury
<1>2. /\ v \in SharedType /\ v.waiters = t.waiters \ {c} /\ v.asleep = t.asleep
      /\ v.status = [t.status EXCEPT ![c] = "gone"] /\ v.list = t.list
      /\ v.edge = t.edge /\ v.count = t.count /\ v.ignored = t.ignored
      /\ v.impervious = t.impervious /\ v.grabber = t.grabber
      /\ v.signalled = t.signalled /\ v.yield = t.yield
  BY <1>0 DEF SharedType
<1> HIDE DEF v
<1>3. /\ w \in SharedType /\ w.waiters = t.waiters \ {c} /\ w.asleep = t.asleep
      /\ w.status = [t.status EXCEPT ![c] = "gone"] /\ w.list = t.list
      /\ w.edge = t.edge /\ w.count = t.count /\ w.ignored = t.ignored
      /\ w.impervious = t.impervious /\ w.grabber = t.grabber
      /\ w.signalled \ {c} = t.signalled \ {c}
  BY <1>0, <1>2 DEF ClientSignal, SharedType
<1> HIDE DEF w
<1>4. x = [w EXCEPT !.asleep = [t.asleep EXCEPT ![c] = 0]]
  <2>1. CASE t.asleep[c] = 0
    BY <1>0, <1>3, <2>1 DEF ClientWakeup, SharedType
  <2>2. CASE t.asleep[c] = 1
    <3> DEFINE z == [w EXCEPT !.asleep[c] = @ - 1]
    <3>1. x = AttendClient(c, z)
      BY <1>3, <2>2 DEF ClientWakeup
    <3>2. z = [w EXCEPT !.asleep = [t.asleep EXCEPT ![c] = 0]]
      BY <1>0, <1>3, <2>2 DEF SharedType
    <3>3. z.status[c] = "gone"
      BY <1>0, <1>3, <3>2 DEF SharedType
    <3> HIDE DEF z
    <3> QED
      BY <3>1, <3>2, <3>3 DEF AttendClient
  <2> QED
    BY <1>0, <2>1, <2>2
<1> HIDE DEF x
<1>5. y = [x EXCEPT !.signalled = t.signalled \ {c}]
  BY <1>3, <1>4 DEF SharedType
<1> HIDE DEF y
<1>6. u = [y EXCEPT !.list = [t.list EXCEPT ![c] = "none"]]
  BY <1>3, <1>4, <1>5 DEF MarkNotReady, SharedType
<1> HIDE DEF u
<1>7. /\ u \in SharedType /\ u.waiters = t.waiters \ {c}
      /\ u.asleep = [t.asleep EXCEPT ![c] = 0]
      /\ u.status = [t.status EXCEPT ![c] = "gone"]
      /\ u.list = [t.list EXCEPT ![c] = "none"]
      /\ u.edge = t.edge /\ u.count = t.count /\ u.ignored = t.ignored
      /\ u.impervious = t.impervious /\ u.grabber = t.grabber
      /\ u.signalled = t.signalled \ {c}
  BY <1>0, <1>3, <1>4, <1>5, <1>6 DEF SharedType
<1>8. ASSUME NEW d \in Clients PROVE Counted(d, u) /\ Forgotten(d, u) /\ Listed(d, u)
  <2>1. Counted(d, t) /\ Forgotten(d, t) /\ Listed(d, t)
    BY DEF Good
  <2>2. CASE d = c
    BY <1>0, <1>7, <2>2 DEF Counted, Forgotten, Listed, SharedType
  <2>3. CASE d # c
    BY <1>0, <1>7, <2>1, <2>3 DEF Counted, Forgotten, Listed, Allowed, SharedType
  <2> QED
    BY <2>2, <2>3
<1>9. Keeps(t, u)
  BY <1>0, <1>7 DEF Keeps, SharedType
<1> QED
  BY <1>1, <1>7, <1>8, <1>9 DEF Good

(* Nor if it has the grab, which ends first.                                *)
LEMMA CloseDownGood ==
  ASSUME NEW t, Good(t), NEW c \in Clients, t.status[c] # "gone",
         NEW u \in CloseDownClient(c, t)
  PROVE  Good(u) /\ Keeps(t, u)
<1>1. PICK v \in (IF t.grabber = c THEN UngrabServer(t) ELSE {t}) : u = Bury(c, v)
  BY DEF CloseDownClient
<1>2. Good(v) /\ Keeps(t, v) /\ v.status = t.status /\ v.grabber # c
  <2>1. CASE t.grabber = c
    BY <1>1, <2>1, UngrabGood
  <2>2. CASE t.grabber # c
    BY <1>1, <2>2 DEF Keeps
  <2> QED
    BY <2>1, <2>2
<1>3. Good(u) /\ Keeps(v, u)
  BY <1>1, <1>2, BuryGood
<1> QED
  BY <1>2, <1>3 DEF Keeps, Good, SharedType

----------------------------------------------------------------------------
(* The initial states satisfy the invariant.                                *)
LEMMA InitIInv == Init => IInv
<1> SUFFICES ASSUME Init PROVE IInv
  OBVIOUS
<1>1. s \in SharedType
  BY DEF Init, SharedType
<1>2. ASSUME NEW c \in Clients PROVE Counted(c, s) /\ Forgotten(c, s) /\ Listed(c, s)
  BY DEF Init, Counted, Forgotten, Listed
<1>3. ASSUME NEW c \in Clients PROVE socket[c] + buffered[c] <= MaxInput /\ Noticed(c)
  BY DEF Init, Noticed
<1>4. socket \in [Clients -> 0..MaxInput] /\ buffered \in [Clients -> 0..MaxInput]
  BY DEF Init
<1>5. running = NoClient
  BY DEF Init
<1> QED
  BY <1>1, <1>2, <1>3, <1>4, <1>5 DEF IInv, Good

(* Every step keeps it.                                                     *)
LEMMA NextIInv ==
  ASSUME "fail" \notin Kinds, IInv, [Next]_vars
  PROVE  IInv'
<1>0. /\ Good(s) /\ s \in SharedType
      /\ socket \in [Clients -> 0..MaxInput] /\ buffered \in [Clients -> 0..MaxInput]
      /\ running \in Clients \cup {NoClient}
      /\ \A c \in Clients : socket[c] + buffered[c] <= MaxInput /\ Noticed(c)
      /\ running # NoClient => Runs(running, s)
  BY DEF IInv, Good
<1>1. CASE UNCHANGED vars
  BY <1>1 DEF IInv, vars, Good, Counted, Forgotten, Listed, Allowed, Noticed, Runs
<1>2. CASE EndTurn
  BY <1>0, <1>2 DEF EndTurn, IInv, Good, Counted, Forgotten, Listed, Allowed, Noticed
<1>3. ASSUME NEW c \in Clients, Schedule(c) PROVE IInv'
  <2>1. /\ s.list[c] = "ready" /\ running' = c /\ s' = [s EXCEPT !.yield = FALSE]
        /\ socket' = socket /\ buffered' = buffered
    BY <1>3 DEF Schedule
  <2>2. s' \in SharedType /\ \A d \in Clients :
          /\ s'.list[d] = s.list[d] /\ s'.count[d] = s.count[d]
          /\ s'.status[d] = s.status[d] /\ s'.asleep[d] = s.asleep[d]
          /\ s'.edge[d] = s.edge[d]
    BY <1>0, <2>1 DEF SharedType
  <2>3. /\ s'.ignored = s.ignored /\ s'.impervious = s.impervious
        /\ s'.grabber = s.grabber /\ s'.waiters = s.waiters
        /\ s'.signalled = s.signalled
    BY <1>0, <2>1 DEF SharedType
  <2>4. Good(s)'
    BY <1>0, <2>2, <2>3 DEF Good, Counted, Forgotten, Listed, Allowed
  <2>5. Runs(c, s')
    BY <1>0, <2>1, <2>2, <2>3 DEF Good, Counted, Forgotten, Listed, Allowed, Runs
  <2>6. ASSUME NEW d \in Clients PROVE Noticed(d)'
    BY <1>0, <2>1, <2>2 DEF Noticed
  <2> QED
    BY <1>0, <2>1, <2>4, <2>5, <2>6 DEF IInv
<1>4. ASSUME NEW c \in Clients, NEW kind \in Kinds, NEW d \in Clients, Request(c, kind, d)
      PROVE  IInv'
  <2>1. /\ running = c /\ running' = c /\ c # NoClient /\ ~s.yield
        /\ buffered[c] > 0 \/ (socket[c] > 0 /\ s.status[c] = "open")
        /\ s' \in Handle(kind, c, d, s)
    BY <1>4 DEF Request
  <2>2. Runs(c, s)
    BY <1>0, <2>1
  <2>3. Good(s') /\ Keeps(s, s') /\ Runs(c, s')
    BY <1>0, <2>1, <2>2, HandleGood
  <2> DEFINE left == IF buffered[c] > 0 THEN buffered[c] ELSE socket[c]
  <2>4. /\ left \in 1..MaxInput
        /\ buffered' = [buffered EXCEPT ![c] = IF IsReset(kind, c, s) THEN left ELSE left - 1]
        /\ socket' = IF buffered[c] > 0 THEN socket ELSE [socket EXCEPT ![c] = 0]
    BY <1>0, <1>4, <2>1 DEF Request
  <2>5. /\ socket' \in [Clients -> 0..MaxInput] /\ buffered' \in [Clients -> 0..MaxInput]
        /\ socket'[c] + buffered'[c] <= MaxInput
        /\ \A e \in Clients : e # c => socket'[e] = socket[e] /\ buffered'[e] = buffered[e]
        /\ socket'[c] <= socket[c]
    <3> HIDE DEF left
    <3>1. CASE buffered[c] > 0
      BY <1>0, <2>4, <3>1 DEF left
    <3>2. CASE ~(buffered[c] > 0)
      BY <1>0, <2>4, <3>2 DEF left
    <3> QED
      BY <3>1, <3>2
  <2>6. ASSUME NEW e \in Clients PROVE Noticed(e)'
    <3>1. Noticed(e)
      BY <1>0
    <3>2. CASE e = c
      BY <1>0, <2>1, <2>3, <2>5, <3>1, <3>2 DEF Noticed, Keeps
    <3>3. CASE e # c
      BY <1>0, <2>1, <2>3, <2>5, <3>1, <3>3 DEF Noticed, Keeps
    <3> QED
      BY <3>2, <3>3
  <2> QED
    BY <1>0, <2>1, <2>3, <2>5, <2>6 DEF IInv, Good, Counted, Forgotten, Listed, Runs, Allowed
<1>5. ASSUME socket' = socket, buffered' = buffered, running' = NoClient,
             Good(s'), Keeps(s, s')
      PROVE  IInv'
  <2>1. ASSUME NEW e \in Clients PROVE Noticed(e)'
    BY <1>0, <1>5 DEF Noticed, Keeps
  <2>2. Good(s)'
    BY <1>5 DEF Good, Counted, Forgotten, Listed, Allowed
  <2> QED
    BY <1>0, <1>5, <2>1, <2>2 DEF IInv
<1>6. ASSUME NEW c \in Clients, NoInput(c) PROVE IInv'
  <2>1. /\ running = c /\ running' = NoClient /\ buffered[c] = 0
        /\ socket' = socket /\ buffered' = buffered
        /\ Runs(c, s)
    BY <1>0, <1>6 DEF NoInput
  <2>2. CASE s.status[c] = "aborted" /\ s' \in CloseDownClient(c, s)
    BY <1>0, <1>5, <2>1, <2>2, CloseDownGood DEF Runs
  <2>3. CASE s.status[c] = "open" /\ socket[c] = 0 /\ s' = MarkNotReady(c, s)
    <3>1. /\ s' \in SharedType /\ s'.list = [s.list EXCEPT ![c] = "none"]
          /\ s'.status = s.status /\ s'.edge = s.edge /\ s'.count = s.count
          /\ s'.ignored = s.ignored /\ s'.impervious = s.impervious
          /\ s'.grabber = s.grabber /\ s'.waiters = s.waiters
          /\ s'.asleep = s.asleep /\ s'.signalled = s.signalled
      BY <1>0, <2>3 DEF MarkNotReady, SharedType
    <3>2. ASSUME NEW d \in Clients
          PROVE  (Counted(d, s) /\ Forgotten(d, s) /\ Listed(d, s))' /\ Noticed(d)'
      <4>1. Counted(d, s) /\ Forgotten(d, s) /\ Listed(d, s) /\ Noticed(d)
        BY <1>0 DEF Good
      <4>2. CASE d = c
        BY <1>0, <2>1, <2>3, <3>1, <4>1, <4>2
           DEF Counted, Forgotten, Listed, Allowed, Noticed, SharedType
      <4>3. CASE d # c
        BY <1>0, <2>1, <3>1, <4>1, <4>3
           DEF Counted, Forgotten, Listed, Allowed, Noticed, SharedType
      <4> QED
        BY <4>2, <4>3
    <3> QED
      BY <1>0, <2>1, <3>1, <3>2 DEF IInv, Good
  <2> QED
    BY <1>6, <2>2, <2>3 DEF NoInput
<1>7. ASSUME NEW c \in Clients, Readable(c) PROVE IInv'
  <2>1. /\ running = NoClient /\ running' = NoClient /\ s.status[c] = "open"
        /\ socket' = socket /\ buffered' = buffered
        /\ Listens(c, s) /\ s' = MarkReady(c, [s EXCEPT !.edge[c] = FALSE])
    BY <1>7 DEF Readable
  <2> DEFINE l == [s.list EXCEPT ![c] = IF @ = "none" THEN "ready" ELSE @]
  <2>2. /\ s' \in SharedType /\ s'.list = l
        /\ s'.status = s.status /\ s'.edge = [s.edge EXCEPT ![c] = FALSE]
        /\ s'.count = s.count
        /\ s'.ignored = s.ignored /\ s'.impervious = s.impervious
        /\ s'.grabber = s.grabber /\ s'.waiters = s.waiters
        /\ s'.asleep = s.asleep /\ s'.signalled = s.signalled
    BY <1>0, <2>1 DEF MarkReady, SharedType
  <2>3. ASSUME NEW d \in Clients
        PROVE  (Counted(d, s) /\ Forgotten(d, s) /\ Listed(d, s))' /\ Noticed(d)'
    <3>1. Counted(d, s) /\ Forgotten(d, s) /\ Listed(d, s) /\ Noticed(d)
      BY <1>0 DEF Good
    <3>2. CASE d = c
      BY <1>0, <2>1, <2>2, <3>1, <3>2
         DEF Counted, Forgotten, Listed, Listens, Allowed, Noticed, SharedType
    <3>3. CASE d # c
      BY <1>0, <2>1, <2>2, <3>1, <3>3
         DEF Counted, Forgotten, Listed, Allowed, Noticed, SharedType
    <3> QED
      BY <3>2, <3>3
  <2> QED
    BY <1>0, <2>1, <2>2, <2>3 DEF IInv, Good
<1>8. ASSUME NEW c \in Clients, HangUp(c) PROVE IInv'
  <2>1. /\ running' = NoClient /\ s.status[c] # "gone"
        /\ socket' = socket /\ buffered' = buffered /\ s' \in CloseDownClient(c, s)
    BY <1>8 DEF HangUp
  <2> QED
    BY <1>0, <1>5, <2>1, CloseDownGood
<1>9. ASSUME NEW c \in Clients, Work(c) PROVE IInv'
  <2> DEFINE v == [s EXCEPT !.signalled = @ \ {c}]
  <2>1. /\ running' = NoClient /\ socket' = socket /\ buffered' = buffered
        /\ s' = ClientWakeup(c, v) /\ s.status[c] # "gone"
    BY <1>0, <1>9 DEF Work, Good, Forgotten
  <2>2. /\ v \in SharedType /\ v.signalled = s.signalled \ {c} /\ v.list = s.list
        /\ v.status = s.status /\ v.edge = s.edge /\ v.count = s.count
        /\ v.ignored = s.ignored /\ v.impervious = s.impervious
        /\ v.grabber = s.grabber /\ v.waiters = s.waiters /\ v.asleep = s.asleep
    BY <1>0 DEF SharedType
  <2> HIDE DEF v
  <2>3. Good(v) /\ Keeps(s, v)
    BY <1>0, <2>2 DEF Good, Counted, Forgotten, Listed, Allowed, Keeps
  <2>4. Good(s') /\ Keeps(v, s')
    BY <2>1, <2>2, <2>3, WakeupGood
  <2>5. Keeps(s, s')
    BY <2>2, <2>4 DEF Keeps
  <2> QED
    BY <1>5, <2>1, <2>4, <2>5
<1>10. ASSUME NEW c \in Clients, Happens(c) PROVE IInv'
  <2>1. /\ running' = NoClient /\ socket' = socket /\ buffered' = buffered
        /\ s' = ClientSignal(c, s)
    BY <1>10 DEF Happens
  <2> QED
    BY <1>0, <1>5, <2>1, SignalGood
<1>11. ASSUME NEW c \in Clients, Send(c) PROVE IInv'
  <2>1. /\ socket' = [socket EXCEPT ![c] = @ + 1] /\ buffered' = buffered
        /\ running' = running /\ s' = [s EXCEPT !.edge[c] = TRUE]
        /\ socket[c] + buffered[c] < MaxInput
    BY <1>11 DEF Send
  <2>2. /\ s' \in SharedType /\ s'.list = s.list /\ s'.yield = s.yield
        /\ s'.status = s.status /\ s'.edge = [s.edge EXCEPT ![c] = TRUE]
        /\ s'.count = s.count
        /\ s'.ignored = s.ignored /\ s'.impervious = s.impervious
        /\ s'.grabber = s.grabber /\ s'.waiters = s.waiters
        /\ s'.asleep = s.asleep /\ s'.signalled = s.signalled
    BY <1>0, <2>1 DEF SharedType
  <2>3. socket' \in [Clients -> 0..MaxInput]
        /\ \A d \in Clients : socket'[d] + buffered'[d] <= MaxInput
    BY <1>0, <2>1
  <2>4. ASSUME NEW d \in Clients PROVE Noticed(d)'
    <3>1. CASE d = c
      BY <1>0, <2>1, <2>2, <3>1 DEF Noticed, SharedType
    <3>2. CASE d # c
      BY <1>0, <2>1, <2>2, <3>2 DEF Noticed, SharedType
    <3> QED
      BY <3>1, <3>2
  <2>5. Good(s)'
    BY <1>0, <2>2 DEF Good, Counted, Forgotten, Listed, Allowed
  <2>6. running' # NoClient => Runs(running, s)'
    BY <1>0, <2>1, <2>2 DEF Runs, Allowed
  <2> QED
    BY <1>0, <2>1, <2>3, <2>4, <2>5, <2>6 DEF IInv
<1> QED
  BY <1>1, <1>2, <1>3, <1>4, <1>6, <1>7, <1>8, <1>9, <1>10, <1>11 DEF Next

----------------------------------------------------------------------------
(* The invariant, of every behaviour in which no client fails.              *)
LEMMA Invariance == "fail" \notin Kinds => (Spec => []IInv)
<1> SUFFICES ASSUME "fail" \notin Kinds PROVE Spec => []IInv
  OBVIOUS
<1>1. Init => IInv
  BY InitIInv
<1>2. IInv /\ [Next]_vars => IInv'
  BY NextIInv
<1> QED
  BY <1>1, <1>2, PTL DEF Spec

(* Ignoring and attending come in pairs whatever clients do to each other,  *)
(* and what is gone is referred to nowhere.                                 *)
THEOREM Accounted == "fail" \notin Kinds => (Spec => []ClientsAccounted)
<1> SUFFICES ASSUME "fail" \notin Kinds PROVE Spec => []ClientsAccounted
  OBVIOUS
<1>1. IInv => ClientsAccounted
  <2> SUFFICES ASSUME IInv PROVE ClientsAccounted
    OBVIOUS
  <2>1. TypeOK
    BY DEF IInv, Good, TypeOK
  <2>2. IgnoredForAReason
    BY <2>1 DEF IInv, Good, Counted, IgnoredForAReason, Open, TypeOK, SharedType
  <2>3. NothingOfTheGone
    BY <2>1 DEF IInv, Good, Forgotten, Runs, NothingOfTheGone, Open, TypeOK, SharedType
  <2> QED
    BY <2>1, <2>2, <2>3 DEF ClientsAccounted
<1>2. Spec => []IInv
  BY Invariance
<1> QED
  BY <1>1, <1>2, PTL

(* Nothing a client sends is lost from sight.                               *)
THEOREM Seen == "fail" \notin Kinds => (Spec => []NobodyForgotten)
<1> SUFFICES ASSUME "fail" \notin Kinds PROVE Spec => []NobodyForgotten
  OBVIOUS
<1>1. IInv => NobodyForgotten
  BY DEF IInv, Good, Listed, Noticed, NobodyForgotten, Open
<1>2. Spec => []IInv
  BY Invariance
<1> QED
  BY <1>1, <1>2, PTL

(* Only clients that are awake are served, and during a grab only the one   *)
(* that has it and the impervious ones.                                     *)
THEOREM InTurn ==
  "fail" \notin Kinds /\ "pervious" \notin Kinds => (Spec => ServedInTurn)
<1> SUFFICES ASSUME "fail" \notin Kinds, "pervious" \notin Kinds
             PROVE  Spec => ServedInTurn
  OBVIOUS
<1>1. ASSUME IInv, Next, NEW c \in Clients, Serves(c)
      PROVE  s.count[c] = 0 /\ Allowed(c, s)
  <2>1. socket \in [Clients -> 0..MaxInput] /\ buffered \in [Clients -> 0..MaxInput]
    BY <1>1 DEF IInv
  <2>2. ~(socket' = socket /\ buffered' = buffered)
    <3> SUFFICES ASSUME socket' = socket, buffered' = buffered PROVE FALSE
      OBVIOUS
    <3>1. socket[c] + buffered[c] < socket[c] + buffered[c]
      BY <1>1 DEF Serves
    <3>2. socket[c] \in Nat /\ buffered[c] \in Nat
      BY <2>1
    <3> QED
      BY <3>1, <3>2
  <2>3. \/ \E d \in Clients : Send(d)
        \/ \E d \in Clients, kind \in Kinds, e \in Clients : Request(d, kind, e)
    <3>1. ~EndTurn
      BY <2>2 DEF EndTurn
    <3>2. ASSUME NEW d \in Clients
          PROVE  ~(Schedule(d) \/ NoInput(d) \/ Readable(d) \/ HangUp(d)
                   \/ Work(d) \/ Happens(d))
      BY <2>2 DEF Schedule, NoInput, Readable, HangUp, Work, Happens
    <3> QED
      BY <1>1, <3>1, <3>2, Zenon DEF Next
  <2>4. ASSUME NEW d \in Clients, Send(d) PROVE FALSE
    BY <1>1, <2>1, <2>4 DEF Serves, Send
  <2>5. PICK d \in Clients, e \in Clients, kind \in Kinds : Request(d, kind, e)
    BY <2>3, <2>4
  <2>6. d = c
    <3> SUFFICES ASSUME d # c PROVE FALSE
      OBVIOUS
    <3>1. socket'[c] = socket[c] /\ buffered'[c] = buffered[c]
      BY <2>1, <2>5 DEF Request
    <3> QED
      BY <1>1, <2>1, <3>1 DEF Serves
  <2>7. running = c /\ ~s.yield
    BY <2>5, <2>6 DEF Request
  <2> QED
    BY <1>1, <2>7 DEF IInv, Runs
<1>3. IInv /\ [Next]_vars => [\A c \in Clients : Serves(c) => s.count[c] = 0]_vars
  BY <1>1
<1>4. IInv /\ [Next]_vars =>
        [\A c \in Clients :
           Serves(c) => s.grabber \in {NoClient, c} \/ c \in s.impervious]_vars
  BY <1>1 DEF Allowed
<1>2. Spec => []IInv
  BY Invariance
<1> QED
  BY <1>2, <1>3, <1>4, PTL DEF Spec, ServedInTurn, SleepersRunNothing, GrabIsExclusive
=============================================================================
