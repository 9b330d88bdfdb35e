----------------------------- MODULE MC_Runner ------------------------------
EXTENDS Runner

CONSTANTS p, q, c1, c2, c3, chromium, firefox, test, stealth

(* Two goroutines of one process, a third call in another process.         *)
MCProcessOf == [c \in Call |-> IF c = c3 THEN q ELSE p]
MCEngineOf == [c \in Call |-> IF c = c2 THEN firefox ELSE chromium]
=============================================================================
