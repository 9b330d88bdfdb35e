------------------------------ MODULE MC_Probe ------------------------------
(* A cascade in auto mode, and a browser-only probe of two origins.        *)
EXTENDS Probe

CONSTANTS p, q, chromium, firefox, home, admin

MCModeOf == [r \in Prober |-> IF r = p THEN "auto" ELSE "always"]
MCEnginesOf == [r \in Prober |-> IF r = p THEN <<chromium, firefox>> ELSE <<firefox>>]
MCOriginsOf == [r \in Prober |-> IF r = p THEN 1 ELSE 2]
=============================================================================
