----------------------------- MODULE MC_Ledger ------------------------------
EXTENDS Ledger

CONSTANTS t1, t2, t3, boom, regex

(* Two tests fail with or without a pipe in the message, once or on every  *)
(* attempt; the third has a pipe in its title.                             *)
Attempts ==
  {<<Passed>>, <<boom, Passed>>, <<regex, boom>>, <<boom, regex>>}

MCReports ==
  {[t \in Test |-> IF t = t1 THEN a ELSE IF t = t2 THEN b ELSE c] :
     a \in Attempts, b \in {<<Passed>>, <<boom>>}, c \in {<<Passed>>, <<boom>>}}

MCStem == [t \in Test |-> t]
=============================================================================
