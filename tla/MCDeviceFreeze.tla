--------------------------- MODULE MCDeviceFreeze ---------------------------
(* Model values and bounds for DeviceFreeze.                                *)
EXTENDS DeviceFreeze, TLC
CONSTANTS c1, c2
P(d, l, c, sync, other) == [dev |-> d, level |-> l, client |-> c, sync |-> sync, other |-> other]
(* Passive grabs: of both devices by one client; one above another.        *)
Few == {{P("pointer", 1, c1, TRUE, TRUE), P("keyboard", 1, c1, TRUE, FALSE)},
        {P("pointer", 1, c1, TRUE, FALSE), P("pointer", 2, c2, TRUE, TRUE),
         P("keyboard", 2, c1, FALSE, TRUE)}}
NoneOrFew == {{}} \cup Few
=============================================================================
