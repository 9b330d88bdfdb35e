-------------------------- MODULE MC_ComposerCache --------------------------
EXTENDS ComposerCache

CONSTANTS c1, c2, c3, k1, k2, short, long

(* Two calls share a key, one of them with a fallback model; the third has *)
(* a key of its own and asks once.                                         *)
MCKeyOf == [c \in Caller |-> IF c = c3 THEN k2 ELSE k1]
MCChats == [c \in Caller |-> IF c = c3 THEN 1 ELSE 2]
MCRungs == [c \in Caller |-> IF c = c1 THEN 2 ELSE 1]
MCSize == [v \in Value |-> IF v.answer = short THEN 1 ELSE 2]
=============================================================================
