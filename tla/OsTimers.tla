----------------------------- MODULE OsTimers ------------------------------
(****************************************************************************)
(* The server's timers and the main wait (os/WaitFor.c): a list sorted by    *)
(* expiry on a 32-bit clock that wraps and may jump back.  A callback may    *)
(* set, force and cancel any timer, its own too, so a stack of the calls in  *)
(* progress is part of the state.  The clock is read at each step; the time  *)
(* that passes is not the clock's but the one poll() sleeps by.              *)
(* Left out: TimerForceOld, which nothing in the repository uses.            *)
(****************************************************************************)
EXTENDS Integers, Sequences, SequencesExt

CONSTANTS
  Timers,
  Word,        \* 2^32
  Margin,      \* 250 ms
  Delays,      \* milliseconds that callers and callbacks ask for
  Offsets,     \* absolute times that callers ask for, from now
  Jumps,       \* amounts the clock may jump back, once
  MaxLate,     \* bound: the server looks at a timer this soon after it is due,
               \* and a round of callbacks takes no longer
  MaxDepth,    \* bound: calls within calls
  MaxSets,     \* bound: timers set or forced, other than by a callback's result
  Nobody, Awake, Forever

ASSUME OsTimersAssumption ==
  /\ Word \in Nat \ {0} /\ Margin \in Nat /\ MaxLate \in Nat
  /\ MaxDepth \in Nat /\ MaxSets \in Nat
  /\ Delays \subseteq 1..(Word - 1) /\ Offsets \subseteq Int /\ Jumps \subseteq Nat
  /\ Nobody \notin Timers /\ Awake \notin Nat /\ Forever \notin Nat /\ Awake # Forever

VARIABLES
  clock,     \* GetTimeInMillis
  expires, delta,
  timers,    \* the list
  calls,     \* what runs, innermost first
  sleep,     \* Awake, or what is left of poll's timeout
  left,      \* for each timer, the real time until it is due
  jumped,    \* how far the clock jumped back
  sets       \* calls of TimerSet and TimerForce

vars == <<clock, expires, delta, timers, calls, sleep, left, jumped, sets>>
recs == <<expires, delta>>

Call(what, timer, now) == [what |-> what, timer |-> timer, now |-> now]
Callback(t) == Call("callback", t, 0)

Pending == {timers[i] : i \in 1..Len(timers)}

Wrap(n) == n % Word
AsInt(n) == IF Wrap(n) < Word \div 2 THEN Wrap(n) ELSE Wrap(n) - Word

(* Code may run, other than the loops over the list.                        *)
InCode == sleep = Awake /\ (calls # <<>> => Head(calls).what = "callback")

(* TimerSet, while the calls in c are in progress.                          *)
SortedMutantUnsigned(list, t, at) ==
  LET later == {i \in 1..Len(list) : expires[list[i]] > at}
  IN IF later = {} THEN Append(list, t)
     ELSE InsertAt(list, CHOOSE i \in later : \A j \in later : i <= j, t)

Sorted(list, t, at) ==
  LET later == {i \in 1..Len(list) : AsInt(expires[list[i]] - at) > 0}
  IN IF later = {} THEN Append(list, t)
     ELSE InsertAt(list, CHOOSE i \in later : \A j \in later : i <= j, t)

SetAt(t, c, at, wait) ==
  /\ expires' = [expires EXCEPT ![t] = Wrap(at)]
  /\ delta' = [delta EXCEPT ![t] = Wrap(wait)]
  /\ IF AsInt(at - clock) <= 0
     THEN /\ timers' = RemoveFirst(timers, t) /\ calls' = <<Callback(t)>> \o c
          /\ left' = [left EXCEPT ![t] = 0]
     ELSE /\ timers' = Sorted(RemoveFirst(timers, t), t, Wrap(at)) /\ calls' = c
          /\ left' = [left EXCEPT ![t] = AsInt(at - clock)]

Unlist(t) ==
  /\ timers' = RemoveFirst(timers, t) /\ left' = [left EXCEPT ![t] = 0]
  /\ UNCHANGED recs

Unset(t, c) == Unlist(t) /\ calls' = c

TimerSet(t, millis) ==
  /\ InCode /\ sets < MaxSets /\ sets' = sets + 1
  /\ SetAt(t, calls, clock + millis, millis)
  /\ UNCHANGED <<clock, sleep, jumped>>

TimerSetAbsolute(t, at) ==
  /\ InCode /\ sets < MaxSets /\ sets' = sets + 1
  /\ IF Wrap(at) = 0 THEN Unset(t, calls) ELSE SetAt(t, calls, at, at - clock)
  /\ UNCHANGED <<clock, sleep, jumped>>

TimerCancel(t) ==
  /\ InCode /\ t \in Pending
  /\ Unset(t, calls)
  /\ UNCHANGED <<clock, sleep, jumped, sets>>

(* DoTimer, up to the callback and after it.                                *)
DoTimer(t) == Unlist(t) /\ calls' = <<Callback(t)>> \o calls

TimerForce(t) ==
  /\ InCode /\ t \in Pending /\ sets < MaxSets /\ sets' = sets + 1
  /\ DoTimer(t)
  /\ UNCHANGED <<clock, sleep, jumped>>

Return(newTime) ==
  /\ InCode /\ calls # <<>>
  /\ LET t == Head(calls).timer
     IN IF newTime = 0 THEN calls' = Tail(calls) /\ UNCHANGED <<timers, left, recs>>
        ELSE SetAt(t, Tail(calls), clock + newTime, newTime)
  /\ UNCHANGED <<clock, sleep, jumped, sets>>

(* DoTimers: one round of its loop, at the time it was called with.         *)
RunExpiredMutantUnsigned ==
  /\ calls # <<>> /\ Head(calls).what = "DoTimers"
  /\ IF timers # <<>> /\ expires[Head(timers)] <= Head(calls).now
     THEN DoTimer(Head(timers))
     ELSE calls' = Tail(calls) /\ UNCHANGED <<timers, left, recs>>
  /\ UNCHANGED <<clock, sleep, jumped, sets>>

RunExpiredMutantLast ==
  /\ calls # <<>> /\ Head(calls).what = "DoTimers"
  /\ IF timers # <<>> /\ AsInt(expires[Last(timers)] - Head(calls).now) <= 0
     THEN DoTimer(Last(timers))
     ELSE calls' = Tail(calls) /\ UNCHANGED <<timers, left, recs>>
  /\ UNCHANGED <<clock, sleep, jumped, sets>>

RunExpired ==
  /\ calls # <<>> /\ Head(calls).what = "DoTimers"
  /\ IF timers # <<>> /\ AsInt(expires[Head(timers)] - Head(calls).now) <= 0
     THEN DoTimer(Head(timers))
     ELSE calls' = Tail(calls) /\ UNCHANGED <<timers, left, recs>>
  /\ UNCHANGED <<clock, sleep, jumped, sets>>

(* CheckAllTimers: one round of its loop, from the start of the list.       *)
Affected(t) == Wrap(expires[t] - clock) > Wrap(delta[t] + Margin)

RerunAffected ==
  /\ calls # <<>> /\ Head(calls).what = "CheckAllTimers"
  /\ LET affected == {i \in 1..Len(timers) : Affected(timers[i])}
     IN IF affected # {}
        THEN DoTimer(timers[CHOOSE i \in affected : \A j \in affected : i <= j])
        ELSE calls' = Tail(calls) /\ UNCHANGED <<timers, left, recs>>
  /\ UNCHANGED <<clock, sleep, jumped, sets>>

(* check_timers and the sleep in WaitForSomething.                          *)
Timeout == AsInt(expires[Head(timers)] - clock)

CheckTimers ==
  /\ sleep = Awake /\ calls = <<>>
  /\ \/ /\ timers = <<>>
        /\ sleep' = Forever /\ UNCHANGED calls
     \/ /\ timers # <<>> /\ Timeout <= 0
        /\ calls' = <<Call("DoTimers", Nobody, clock)>> /\ UNCHANGED sleep
     \/ /\ timers # <<>> /\ Timeout > 0
        /\ IF Timeout < Wrap(delta[Head(timers)] + Margin)
           THEN sleep' = Timeout /\ UNCHANGED calls
           ELSE calls' = <<Call("CheckAllTimers", Nobody, 0)>> /\ UNCHANGED sleep
  /\ UNCHANGED <<clock, timers, left, recs, jumped, sets>>

(* The timeout passes, or a client or a device wakes the server.            *)
Wake ==
  /\ sleep # Awake /\ sleep' = Awake
  /\ UNCHANGED <<clock, timers, calls, left, recs, jumped, sets>>

(* A millisecond passes.                                                    *)
Tick ==
  /\ sleep # 0 /\ \A t \in Pending : left[t] > -MaxLate - jumped
  /\ \A i \in 1..Len(calls) :
       calls[i].what = "DoTimers" => AsInt(clock - calls[i].now) < MaxLate
  /\ clock' = Wrap(clock + 1)
  /\ left' = [t \in Timers |-> IF t \in Pending THEN left[t] - 1 ELSE left[t]]
  /\ sleep' = IF sleep \in Nat THEN sleep - 1 ELSE sleep
  /\ UNCHANGED <<expires, delta, timers, calls, jumped, sets>>

JumpBack(n) ==
  /\ jumped = 0 /\ jumped' = n
  /\ clock' = Wrap(clock - n)
  /\ UNCHANGED <<timers, calls, left, recs, sleep, sets>>

Init ==
  /\ clock \in 0..(Word - 1)
  /\ expires = [t \in Timers |-> 0] /\ delta = [t \in Timers |-> 0]
  /\ left = [t \in Timers |-> 0]
  /\ timers = <<>> /\ calls = <<>> /\ sleep = Awake /\ jumped = 0 /\ sets = 0

Loops == RunExpired \/ RerunAffected

Others ==
  \/ \E t \in Timers :
       /\ Len(calls) < MaxDepth
       /\ \/ \E d \in Delays : TimerSet(t, d)
          \/ \E o \in Offsets : TimerSetAbsolute(t, clock + o)
          \/ TimerForce(t)
  \/ \E t \in Timers : TimerCancel(t)
  \/ \E n \in Jumps : JumpBack(n)

Next ==
  Loops \/ CheckTimers \/ Wake \/ Tick \/ Others \/ \E d \in Delays \cup {0} : Return(d)

Spec == Init /\ [][Next]_vars

(* Callbacks return, the main loop goes on, time passes and poll times out. *)
Fairness ==
  /\ WF_vars(Loops) /\ WF_vars(CheckTimers) /\ WF_vars(Tick)
  /\ WF_vars(sleep = 0 /\ Wake) /\ WF_vars(\E d \in Delays \cup {0} : Return(d))

FairSpec == Spec /\ Fairness

----------------------------------------------------------------------------
TypeOK ==
  /\ clock \in 0..(Word - 1) /\ jumped \in Jumps \cup {0} /\ sets \in 0..MaxSets
  /\ expires \in [Timers -> 0..(Word - 1)] /\ delta \in [Timers -> 0..(Word - 1)]
  /\ IsInjective(timers) /\ Pending \subseteq Timers
  /\ sleep \in Nat \cup {Awake, Forever}
  /\ \A i \in 1..Len(calls) :
       calls[i].what = "callback" => calls[i].timer \in Timers

(* The server never sleeps past a timer, whatever callbacks did to the list *)
(* and wherever the clock wraps; if the clock jumped back, it sleeps too    *)
(* long by no more than the jump (TimerSet, check_timers).                   *)
NeverOversleeps ==
  sleep # Awake => \A t \in Pending : sleep \in Nat /\ sleep <= left[t] + jumped

(* No timer is linked twice, nor slept past.                                *)
TimerListSound == TypeOK /\ NeverOversleeps

(* The loop over expired timers runs none that is not due, as long as the   *)
(* clock has not jumped (DoTimers).                                          *)
NeverEarly ==
  [][\A t \in Timers :
       jumped = 0 /\ calls # <<>> /\ Head(calls).what = "DoTimers"
         /\ Len(calls') > Len(calls) /\ t = Head(calls').timer => left[t] <= 0]_vars

(* A timer that is set runs, unless it is cancelled, whoever else is set,    *)
(* forced or runs in the same round (WaitForSomething, DoTimers).           *)
TimersRun == \A t \in Timers : t \in Pending ~> t \notin Pending

(* "If time has rewound, re-run every affected timer" (CheckAllTimers).     *)
EveryAffectedRerun ==
  [][sleep = Awake /\ sleep' # Awake => \A t \in Pending : ~Affected(t)]_vars
=============================================================================
