------------------------------ MODULE MC_OpenPR ------------------------------
(* Two REST invocations and an Actions one sharing one bot branch.         *)
EXTENDS OpenPR

CONSTANTS a, b, c, s1, s2

MCRuns == {a, b, c}
MCSuites == {s1, s2}
MCSuite == [r \in Runs |-> IF r = a THEN s1 ELSE s2]
=============================================================================
