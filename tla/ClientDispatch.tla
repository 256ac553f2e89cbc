--------------------------- MODULE ClientDispatch ---------------------------
(****************************************************************************)
(* Whose requests the server runs: the ready lists, server grabs, clients    *)
(* that are ignored while they sleep or wait for a grab, and clients that    *)
(* die (dix/dispatch.c, dix/dixutils.c, os/connection.c, os/io.c).           *)
(* A handler is a function on the record s of what the handlers share, so    *)
(* one can call another.  Requests are sent whole.  Which ready client is    *)
(* next is SmartSchedule's question; here it is any.                         *)
(****************************************************************************)
EXTENDS Integers, FiniteSets

CONSTANTS
  Clients,
  Kinds,       \* what requests do, of AllKinds
  MaxInput,    \* bound: requests sent and not read
  NoClient

AllKinds == {"plain", "grab", "ungrab", "impervious", "pervious", "sleep",
             "retry", "signal", "fail"}

ASSUME ClientDispatchAssumption ==
  NoClient \notin Clients /\ Kinds \subseteq AllKinds /\ MaxInput \in Nat

VARIABLES
  s,         \* see SharedType
  socket,    \* requests that can be read from the connection
  buffered,  \* requests in the input buffer
  running    \* whose requests Dispatch is running

vars == <<s, socket, buffered, running>>

SharedType ==
  [status     : [Clients -> {"open", "aborted", "gone"}],
   list       : [Clients -> {"none", "ready", "saved"}],   \* client->ready
   edge       : [Clients -> BOOLEAN],       \* poll will report new input
   count      : [Clients -> Nat],           \* ignoreCount
   ignored    : SUBSET Clients,             \* OS_COMM_IGNORED
   impervious : SUBSET Clients,             \* OS_COMM_GRAB_IMPERVIOUS
   grabber    : Clients \cup {NoClient},    \* grabClient and GrabInProgress
   waiters    : SUBSET Clients,             \* grabWaiters
   asleep     : [Clients -> Nat],           \* entries of sleepQueue
   signalled  : SUBSET Clients,             \* work queue
   yield      : BOOLEAN]                    \* isItTimeToYield

----------------------------------------------------------------------------
(* Lists and poll.                                                          *)
Listens(c, t) ==
  /\ c \notin t.ignored
  /\ t.grabber \in {NoClient, c} \/ c \in t.impervious

(* set_poll_client: epoll reports again what is there when it is listened to.*)
PollClients(cs, t) ==
  [t EXCEPT !.edge = [c \in Clients |->
     t.edge[c] \/ (c \in cs /\ t.status[c] = "open" /\ Listens(c, t) /\ socket[c] > 0)]]

MarkReady(c, t) == [t EXCEPT !.list[c] = IF @ = "none" THEN "ready" ELSE @]
MarkSavedReady(c, t) == [t EXCEPT !.list[c] = IF @ = "none" THEN "saved" ELSE @]
MarkNotReady(c, t) == [t EXCEPT !.list[c] = "none"]

MarkGrab(c, t) ==
  [t EXCEPT !.list = [d \in Clients |->
     IF d # c /\ t.list[d] = "ready" THEN "saved" ELSE t.list[d]]]

MarkUngrab(t) ==
  [t EXCEPT !.list = [d \in Clients |->
     IF t.list[d] = "saved" THEN "ready" ELSE t.list[d]]]

IgnoreClientMutantStaysReady(c, t) ==
  IF t.count[c] > 0 THEN [t EXCEPT !.count[c] = @ + 1]
  ELSE PollClients({c}, [t EXCEPT !.count[c] = 1, !.yield = TRUE,
                                  !.ignored = @ \cup {c}])

IgnoreClient(c, t) ==
  IF t.count[c] > 0 THEN [t EXCEPT !.count[c] = @ + 1]
  ELSE PollClients({c}, MarkNotReady(c, [t EXCEPT !.count[c] = 1, !.yield = TRUE,
                                                  !.ignored = @ \cup {c}]))

AttendClientMutantNotReady(c, t) ==
  IF t.status[c] = "gone" THEN t
  ELSE IF t.count[c] # 1 THEN [t EXCEPT !.count[c] = @ - 1]
  ELSE PollClients({c}, [t EXCEPT !.count[c] = 0, !.ignored = @ \ {c}])

AttendClient(c, t) ==
  IF t.status[c] = "gone" THEN t
  ELSE IF t.count[c] # 1 THEN [t EXCEPT !.count[c] = @ - 1]
  ELSE LET u == PollClients({c}, [t EXCEPT !.count[c] = 0, !.ignored = @ \ {c}])
       IN IF Listens(c, u) THEN MarkReady(c, u) ELSE MarkSavedReady(c, u)

(* ResetCurrentRequest: the request stays in the buffer.                    *)
ResetCurrentRequest(c, t) ==
  [(IF Listens(c, t) THEN MarkReady(c, t) ELSE t) EXCEPT !.yield = TRUE]

----------------------------------------------------------------------------
(* Server grabs.                                                            *)
Waits(c, t) == t.grabber \notin {NoClient, c}

GrabServer(c, t) ==
  IF Waits(c, t)
  THEN IgnoreClient(c, [ResetCurrentRequest(c, t) EXCEPT !.waiters = @ \cup {c}])
  ELSE LET u == [t EXCEPT !.grabber = c]
       IN MarkGrab(c, IF t.grabber = NoClient THEN PollClients(Clients, u) ELSE u)

(* The results of UngrabServer: one waiter, if there is any, is attended.    *)
UngrabServer(t) ==
  LET u == MarkUngrab(PollClients(Clients, [t EXCEPT !.grabber = NoClient]))
  IN IF u.waiters = {} THEN {u}
     ELSE {AttendClient(w, [u EXCEPT !.waiters = @ \ {w}]) : w \in u.waiters}

Impervious(c, t) == PollClients({c}, [t EXCEPT !.impervious = @ \cup {c}])

Pervious(c, t) == [PollClients({c}, [t EXCEPT !.impervious = @ \ {c}]) EXCEPT !.yield = TRUE]

----------------------------------------------------------------------------
(* Sleeping and dying.                                                      *)
ClientSleep(c, t) == [IgnoreClient(c, t) EXCEPT !.asleep[c] = @ + 1]

ClientSignal(c, t) ==
  IF t.asleep[c] > 0 THEN [t EXCEPT !.signalled = @ \cup {c}] ELSE t

ClientWakeup(c, t) ==
  IF t.asleep[c] = 0 THEN t ELSE AttendClient(c, [t EXCEPT !.asleep[c] = @ - 1])

AbortClient(c, t) ==
  IF t.status[c] = "open" THEN MarkReady(c, [t EXCEPT !.status[c] = "aborted"]) ELSE t

(* The results of CloseDownClient.                                          *)
BuryMutantKeepsWaiter(c, t) ==
  LET u == [t EXCEPT !.status[c] = "gone"]
  IN MarkNotReady(c, [ClientWakeup(c, ClientSignal(c, u)) EXCEPT !.signalled = @ \ {c}])

Bury(c, t) ==
  LET u == [t EXCEPT !.waiters = @ \ {c}, !.status[c] = "gone"]
  IN MarkNotReady(c, [ClientWakeup(c, ClientSignal(c, u)) EXCEPT !.signalled = @ \ {c}])

CloseDownClient(c, t) ==
  {Bury(c, u) : u \in IF t.grabber = c THEN UngrabServer(t) ELSE {t}}

----------------------------------------------------------------------------
(* The results of a request of c that concerns the client d.                *)
Handle(kind, c, d, t) ==
  CASE kind = "plain"      -> {t}
    [] kind = "grab"       -> {GrabServer(c, t)}
    [] kind = "ungrab"     -> UngrabServer(t)
    [] kind = "impervious" -> {Impervious(c, t)}
    [] kind = "pervious"   -> {Pervious(c, t)}
    [] kind = "sleep"      -> {ClientSleep(c, t)}
    [] kind = "retry"      -> {ResetCurrentRequest(c, ClientSleep(c, t))}
    [] kind = "signal"     -> {ClientSignal(d, t)}
    [] kind = "fail"       -> {AbortClient(d, t)}

IsReset(kind, c, t) == kind = "retry" \/ (kind = "grab" /\ Waits(c, t))

(* Dispatch: the next client, its requests one by one, the end of its turn.  *)
Schedule(c) ==
  /\ running = NoClient /\ s.list[c] = "ready"
  /\ running' = c /\ s' = [s EXCEPT !.yield = FALSE]
  /\ UNCHANGED <<socket, buffered>>

Request(c, kind, d) ==
  /\ running = c /\ ~s.yield
  /\ buffered[c] > 0 \/ (socket[c] > 0 /\ s.status[c] = "open")
  /\ LET left == IF buffered[c] > 0 THEN buffered[c] ELSE socket[c]
     IN /\ buffered' = [buffered EXCEPT ![c] =
                          IF IsReset(kind, c, s) THEN left ELSE left - 1]
        /\ socket' = IF buffered[c] > 0 THEN socket ELSE [socket EXCEPT ![c] = 0]
  /\ s' \in Handle(kind, c, d, s)
  /\ UNCHANGED running

NoInput(c) ==
  /\ running = c /\ ~s.yield /\ buffered[c] = 0
  /\ \/ s.status[c] = "aborted" /\ s' \in CloseDownClient(c, s)
     \/ s.status[c] = "open" /\ socket[c] = 0 /\ s' = MarkNotReady(c, s)
  /\ running' = NoClient
  /\ UNCHANGED <<socket, buffered>>

EndTurn ==
  /\ running # NoClient /\ running' = NoClient
  /\ UNCHANGED <<s, socket, buffered>>

(* WaitForSomething: connections with news, and the work queue.             *)
Readable(c) ==
  /\ running = NoClient /\ s.status[c] = "open" /\ s.edge[c] /\ Listens(c, s)
  /\ s' = MarkReady(c, [s EXCEPT !.edge[c] = FALSE])
  /\ UNCHANGED <<socket, buffered, running>>

HangUp(c) ==
  /\ running = NoClient /\ s.status[c] = "open"
  /\ s' \in CloseDownClient(c, s)
  /\ UNCHANGED <<socket, buffered, running>>

Work(c) ==
  /\ running = NoClient /\ c \in s.signalled
  /\ s' = ClientWakeup(c, [s EXCEPT !.signalled = @ \ {c}])
  /\ UNCHANGED <<socket, buffered, running>>

(* What a sleeping client waits for happens.                                *)
Happens(c) ==
  /\ running = NoClient /\ s.asleep[c] > 0
  /\ s' = ClientSignal(c, s)
  /\ UNCHANGED <<socket, buffered, running>>

Send(c) ==
  /\ s.status[c] = "open" /\ socket[c] + buffered[c] < MaxInput
  /\ socket' = [socket EXCEPT ![c] = @ + 1]
  /\ s' = [s EXCEPT !.edge[c] = TRUE]
  /\ UNCHANGED <<buffered, running>>

Init ==
  /\ s = [status |-> [c \in Clients |-> "open"], list |-> [c \in Clients |-> "none"],
          edge |-> [c \in Clients |-> FALSE], count |-> [c \in Clients |-> 0],
          ignored |-> {}, impervious |-> {}, grabber |-> NoClient, waiters |-> {},
          asleep |-> [c \in Clients |-> 0], signalled |-> {}, yield |-> FALSE]
  /\ socket = [c \in Clients |-> 0] /\ buffered = [c \in Clients |-> 0]
  /\ running = NoClient

Next ==
  \/ EndTurn
  \/ \E c \in Clients :
       \/ Schedule(c) \/ NoInput(c) \/ Readable(c) \/ HangUp(c)
       \/ Work(c) \/ Happens(c) \/ Send(c)
       \/ \E kind \in Kinds, d \in Clients : Request(c, kind, d)

Spec == Init /\ [][Next]_vars

----------------------------------------------------------------------------
TypeOK ==
  /\ s \in SharedType
  /\ socket \in [Clients -> 0..MaxInput] /\ buffered \in [Clients -> 0..MaxInput]
  /\ running \in Clients \cup {NoClient}

Open == {c \in Clients : s.status[c] # "gone"}

(* A client is ignored as often as it sleeps or waits for a grab, so the     *)
(* last reason that ends, whichever it is, has it attended (IgnoreClient,   *)
(* AttendClient).                                                           *)
IgnoredForAReason ==
  \A c \in Open :
    /\ s.count[c] = s.asleep[c] + (IF c \in s.waiters THEN 1 ELSE 0)
    /\ c \in s.ignored <=> s.count[c] > 0

(* Nothing refers to a client that is gone (CloseDownClient).               *)
NothingOfTheGone ==
  \A c \in Clients \ Open :
    /\ s.asleep[c] = 0 /\ c \notin s.waiters \cup s.signalled
    /\ s.list[c] = "none" /\ s.grabber # c /\ running # c

(* What keeps a client from being served is counted and undone in pairs, and *)
(* nothing of it is left when it goes.                                       *)
ClientsAccounted == TypeOK /\ IgnoredForAReason /\ NothingOfTheGone

(* Requests that a client has sent, and that it is not ignored for, are not  *)
(* forgotten: it is on a list, or poll will report it (mark_client_ready,    *)
(* set_poll_client).  It waits on the second list only while there is a grab.*)
NobodyForgotten ==
  \A c \in Open :
    /\ s.count[c] = 0 /\ running # c =>
         /\ buffered[c] > 0 => s.list[c] # "none"
         /\ socket[c] > 0 /\ s.status[c] = "open" => s.list[c] # "none" \/ s.edge[c]
    /\ s.list[c] = "saved" => s.grabber # NoClient

Serves(c) == socket'[c] + buffered'[c] < socket[c] + buffered[c]

(* No request of a client runs while it sleeps or waits (IgnoreClient), nor   *)
(* while another has the server: "Only accept requests from one client", but *)
(* for those made "impervious to grabs" (OnlyListenToOneClient,              *)
(* MakeClientGrabImpervious).                                                *)
SleepersRunNothing == [][\A c \in Clients : Serves(c) => s.count[c] = 0]_vars
GrabIsExclusive ==
  [][\A c \in Clients :
       Serves(c) => s.grabber \in {NoClient, c} \/ c \in s.impervious]_vars
ServedInTurn == SleepersRunNothing /\ GrabIsExclusive

(* A client on the list of those that await "a server grab release" is not   *)
(* impervious to grabs (mark_client_saved_ready).                           *)
OnlyOthersAwaitRelease ==
  \A c \in Clients : s.list[c] = "saved" => ~Listens(c, s)

(* IgnoreClient: "Must have cooresponding call to AttendClient".  With no    *)
(* grab, and nothing for the server to do, nobody waits for a grab to end.   *)
WaitersAttended ==
  (/\ s.grabber = NoClient /\ s.signalled = {} /\ running = NoClient
   /\ \A c \in Open : s.list[c] = "none" /\ (c \in s.waiters \/ buffered[c] + socket[c] = 0))
  => s.waiters = {}
=============================================================================
