----------------------------- MODULE Filtering ------------------------------
(***************************************************************************)
(* The loop over a slice that appends what passes a test to another.  It   *)
(* is a recursive function over the prefixes of the sequence, which a      *)
(* proof can unfold; SelectSeq has no definition for the provers.          *)
(***************************************************************************)
EXTENDS Naturals, Sequences

Elements(s) == {s[i] : i \in DOMAIN s}

(* A sequence, whatever it holds.                                          *)
IsList(q) == q \in Seq(Elements(q))

(* The elements of s that are in T, in their order.                        *)
Only(s, T) ==
  LET upTo[i \in 0..Len(s)] ==
        IF i = 0 THEN << >>
        ELSE IF s[i] \in T THEN Append(upTo[i - 1], s[i]) ELSE upTo[i - 1]
  IN  upTo[Len(s)]
=============================================================================
