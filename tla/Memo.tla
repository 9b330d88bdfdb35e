-------------------------------- MODULE Memo --------------------------------
(***************************************************************************)
(* What the response cache of the composer promises its callers.  It is a  *)
(* lossy memo: an entry is either missing or an answer some caller won for *)
(* that very key; entries may be lost at any time, and a caller that finds *)
(* one is given it whole.                                                  *)
(***************************************************************************)
CONSTANTS
  Caller, Key,
  KeyOf,   \* KeyOf[c]: the key caller c asks for
  Value,
  Miss     \* what a reader finds when there is no entry; no value

VARIABLES
  won,    \* answers won from the model for each key
  store,  \* what a reader of each key finds
  given   \* what each caller has been given

vars == <<won, store, given>>

Init ==
  /\ won = [k \in Key |-> {}]
  /\ store = [k \in Key |-> Miss]
  /\ given = [c \in Caller |-> Miss]

(* The model answers caller c.                                             *)
Win(c, v) ==
  /\ won' = [won EXCEPT ![KeyOf[c]] = @ \cup {v}]
  /\ UNCHANGED <<store, given>>

(* Readers of k find another answer won for k from now on, or none.        *)
Resettle(k) ==
  \E v \in won[k] \cup {Miss} : store' = [store EXCEPT ![k] = v]

Settle(k) == Resettle(k) /\ UNCHANGED <<won, given>>

(* Caller c leaves with an answer won for its key, its own or the stored   *)
(* one, and may change what later readers find.                            *)
Leave(c) ==
  /\ \E v \in won[KeyOf[c]] : given' = [given EXCEPT ![c] = v]
  /\ Resettle(KeyOf[c])
  /\ UNCHANGED won

Next ==
  \/ \E c \in Caller : Leave(c) \/ \E v \in Value : Win(c, v)
  \/ \E k \in Key : Settle(k)

Spec == Init /\ [][Next]_vars
=============================================================================
