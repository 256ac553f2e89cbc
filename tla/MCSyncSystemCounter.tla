------------------------ MODULE MCSyncSystemCounter ------------------------
(* Small instances of SyncSystemCounter.                                    *)
EXTENDS SyncSystemCounter, TLC

CONSTANTS t1, t2, t3

At(type, at) == [type |-> type, at |-> at]
Comparisons == t1 :> At("PosC", 2) @@ t2 :> At("PosC", 4) @@ t3 :> At("NegC", 1)
Falling == t1 :> At("NegT", 1) @@ t2 :> At("NegT", 3) @@ t3 :> At("NegC", 2)
Mixed == t1 :> At("PosT", 2) @@ t2 :> At("NegT", 1) @@ t3 :> At("NegT", 3)

Setup(kind, test, requests, dawdles) ==
  [kind |-> kind, test |-> test, requests |-> requests, dawdles |-> dawdles]
MCSetups ==
  {Setup("SERVERTIME", Comparisons, {"create", "destroy", "query"}, FALSE),
   Setup("IDLETIME", Falling, {"destroy"}, FALSE),
   Setup("IDLETIME", Mixed, {"destroy"}, FALSE),
   Setup("IDLETIME", Comparisons, {"destroy"}, FALSE),
   Setup("IDLETIME", Mixed, {"destroy"}, TRUE)}
=============================================================================
