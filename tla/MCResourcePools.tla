--------------------------- MODULE MCResourcePools ---------------------------
(* ResourcePools.tla for TLC: the settings a run starts the machine with.  *)
EXTENDS ResourcePools

Types(i, p, r) ==
    [s \in Region |-> CASE s = "INFRASTRUCTURE" -> i [] s = "PRIMITIVE" -> p [] OTHER -> r]

(* The default has REFERENCE on the malloc of the system.  Large requests *)
(* are made of one pool at a time.                                        *)
TwoPools == Types("plain", "linked", "linked")
OnePool == {Types("linked", "plain", "plain"), Types("plain", "linked", "plain"),
            Types("plain", "paged", "plain")}

AllSettings == OnePool \union {TwoPools}
OneLargeBlock == [s \in AllSettings |-> IF s \in OnePool THEN 1 ELSE 0]
=============================================================================
