---------------------------- MODULE MCSyncCounter ----------------------------
(* Small instances of SyncCounter: two clients, each the owner of a counter  *)
(* and a fence, and an alarm.                                                *)
EXTENDS SyncCounter

CONSTANTS x, y, c1, c2, f1, f2, al1

Lowest == -1
Highest == 2
Few == {0, 2}
UpDown == {-1, 1}

MCOwner == [o \in Objects \cup Alarms |-> IF o \in {c2, f2} THEN y ELSE x]

On(c, test, wait) == Condition(c, "abs", wait, test, 0)
TwoAwaits == { <<On(c1, "PosC", 1), On(c2, "NegC", 0)>>, <<On(c2, "PosT", 1), On(c1, "NegT", 0)>> }
TwoFences == { <<f1, f2>> }
TwoAlarms ==
  { [counter |-> c1, wait |-> 1, ttype |-> "PosC", delta |-> 1],
    [counter |-> c1, vtype |-> "rel", wait |-> 1, ttype |-> "NegT", delta |-> 0] }
TwoChanges == { [counter |-> c2], [counter |-> NoObj], [ttype |-> "NegT", delta |-> -1] }
=============================================================================
