---------------------------- MODULE LedgerProofs ----------------------------
(***************************************************************************)
(* Proofs about Ledger for any tests, messages and reports, and any bounds *)
(* on days and edits.                                                      *)
(***************************************************************************)
EXTENDS Ledger, TLAPS

(* What the steps need to know of the table and of its history.            *)
Fields == {"symptom", "first", "last", "status"}

Shape ==
  /\ \A t \in DOMAIN rows : DOMAIN rows[t] = Fields
  /\ DOMAIN rows \subseteq DOMAIN since /\ DOMAIN since \subseteq Test
  /\ chosen \in [Test -> Status]

(* A test without pipes never has one in its row.                          *)
PlainRows ==
  /\ PipedTitle \subseteq marred
  /\ \A t \in DOMAIN rows \ marred : rows[t].symptom.form = "plain"

(* Nobody has judged a test that is not in the table.                      *)
Unjudged == \A t \in Test \ DOMAIN since : chosen[t] = "open"

IInv == Shape /\ PlainRows /\ Unjudged /\ RowsRemember

LEMMA InitInv == Init => IInv
  BY DEF Init, IInv, Shape, PlainRows, Unjudged, RowsRemember, Status

(* Reading the table back keeps every plain row as it is.                  *)
LEMMA PlainRowsAreRead ==
  ASSUME IInv, NEW t \in DOMAIN rows \ marred
  PROVE  t \in DOMAIN ParseLedger /\ ParseLedger[t] = rows[t]
  BY DEF IInv, PlainRows, ParseLedger, SevenCells, Unescaped

LEMMA ParsedShape ==
  ASSUME IInv
  PROVE  /\ DOMAIN ParseLedger \subseteq DOMAIN rows
         /\ \A t \in DOMAIN ParseLedger : DOMAIN ParseLedger[t] = Fields
  BY DEF IInv, Shape, ParseLedger, Unescaped

(* The row of a failure that comes back: what is new and what is kept.     *)
LEMMA RecurredFields ==
  ASSUME NEW old, NEW new, DOMAIN new = Fields
  PROVE  /\ DOMAIN Recurred(old, new) = Fields
         /\ Recurred(old, new).symptom = new.symptom
         /\ Recurred(old, new).first = old.first
         /\ Recurred(old, new).last = new.last
         /\ Recurred(old, new).status = IF old.status = "" THEN "open" ELSE old.status
  BY DEF Recurred, Fields

LEMMA UpdateStep == IInv /\ Update => IInv'
<1> SUFFICES ASSUME IInv, Update
             PROVE  IInv'
  OBVIOUS
<1> DEFINE fresh == FindingsFromReport
           prior == ParseLedger
<1>1. /\ DOMAIN fresh = Failing
      /\ \A t \in Failing :
           /\ fresh[t].first = day /\ fresh[t].last = day /\ fresh[t].status = "open"
           /\ DOMAIN fresh[t] = Fields
  BY DEF FindingsFromReport, Fields
<1>2. /\ DOMAIN rows' = DOMAIN prior \cup Failing
      /\ \A t \in DOMAIN prior \ Failing : rows'[t] = prior[t]
      /\ \A t \in Failing \ DOMAIN prior : rows'[t] = fresh[t]
      /\ \A t \in Failing \cap DOMAIN prior : rows'[t] = Recurred(prior[t], fresh[t])
  <2> HIDE DEF fresh, prior
  <2> QED
    BY <1>1 DEF Update, Merge, fresh, prior
<1>3. DOMAIN prior \subseteq DOMAIN rows /\ \A t \in DOMAIN prior : DOMAIN prior[t] = Fields
  BY ParsedShape
<1>4. \A t \in DOMAIN rows \ marred : t \in DOMAIN prior /\ prior[t] = rows[t]
  BY PlainRowsAreRead
<1> HIDE DEF fresh, prior
<1>5. ASSUME NEW t \in Failing \cap DOMAIN prior
      PROVE  /\ DOMAIN rows'[t] = Fields
             /\ rows'[t].symptom = fresh[t].symptom
             /\ rows'[t].first = prior[t].first /\ rows'[t].last = day
             /\ rows'[t].status =
                  IF prior[t].status = "" THEN "open" ELSE prior[t].status
  <2>1. rows'[t] = Recurred(prior[t], fresh[t])
    BY <1>2
  <2>2. DOMAIN fresh[t] = Fields /\ fresh[t].last = day
    BY <1>1
  <2> DEFINE old == prior[t]
             new == fresh[t]
  <2>3. /\ DOMAIN Recurred(old, new) = Fields
        /\ Recurred(old, new).symptom = new.symptom
        /\ Recurred(old, new).first = old.first
        /\ Recurred(old, new).last = new.last
        /\ Recurred(old, new).status = IF old.status = "" THEN "open" ELSE old.status
    <3>1. DOMAIN new = Fields
      BY <2>2
    <3> HIDE DEF old, new
    <3> QED
      BY ONLY <3>1, RecurredFields
  <2>4. DOMAIN rows'[t] = Fields
    BY <2>1, <2>3
  <2>5. rows'[t].symptom = fresh[t].symptom
    BY <2>1, <2>3
  <2>6. rows'[t].first = prior[t].first
    BY <2>1, <2>3
  <2>7. rows'[t].last = day
    BY <2>1, <2>2, <2>3
  <2>8. rows'[t].status = IF prior[t].status = "" THEN "open" ELSE prior[t].status
    BY <2>1, <2>3
  <2> QED
    BY <2>4, <2>5, <2>6, <2>7, <2>8
<1>6. Failing \subseteq Test
  BY DEF Failing
<1>7. /\ DOMAIN since' = DOMAIN since \cup Failing
      /\ \A t \in DOMAIN since' :
           /\ since'[t].first = IF t \in DOMAIN since THEN since[t].first ELSE day
           /\ since'[t].last = IF t \in Failing THEN day ELSE since[t].last
      /\ chosen' = chosen
      /\ marred' = marred \cup {t \in Failing : fresh[t].symptom.form = "escaped"}
  BY DEF Update, fresh
<1>8. Shape'
  <2>1. ASSUME NEW t \in DOMAIN rows' PROVE DOMAIN rows'[t] = Fields
    <3>1. CASE t \in DOMAIN prior \ Failing
      BY <3>1, <1>2, <1>3
    <3>2. CASE t \in Failing \ DOMAIN prior
      BY <3>2, <1>1, <1>2
    <3>3. CASE t \in Failing \cap DOMAIN prior
      BY <3>3, <1>5
    <3> QED
      BY <2>1, <3>1, <3>2, <3>3, <1>2
  <2>2. /\ DOMAIN rows' \subseteq DOMAIN since' /\ DOMAIN since' \subseteq Test
        /\ chosen' \in [Test -> Status]
    BY <1>2, <1>3, <1>6, <1>7 DEF IInv, Shape
  <2> QED
    BY <2>1, <2>2 DEF Shape
<1>9. PlainRows'
  <2>1. \A t \in Failing \ marred' : fresh[t].symptom.form = "plain"
    BY <1>1, <1>7 DEF fresh, FindingsFromReport, SymptomFrom
  <2>2. ASSUME NEW t \in DOMAIN rows' \ marred'
        PROVE  rows'[t].symptom.form = "plain"
    <3>1. CASE t \in DOMAIN prior \ Failing
      <4>1. t \in DOMAIN rows \ marred
        BY <3>1, <2>2, <1>3, <1>7
      <4> QED
        BY <4>1, <3>1, <1>2, <1>4 DEF IInv, PlainRows
    <3>2. CASE t \in Failing
      <4>1. rows'[t].symptom = fresh[t].symptom
        BY <3>2, <1>2, <1>5
      <4> QED
        BY <4>1, <3>2, <2>1, <2>2
    <3> QED
      BY <2>2, <3>1, <3>2, <1>2
  <2>3. PipedTitle \subseteq marred'
    BY <1>7 DEF IInv, PlainRows
  <2> QED
    BY <2>2, <2>3 DEF PlainRows
<1>10. Unjudged'
  BY <1>7 DEF IInv, Unjudged
<1>11. RowsRemember'
  <2> SUFFICES ASSUME NEW t \in DOMAIN since' \ marred'
               PROVE  Kept(t)'
    BY DEF RowsRemember
  <2>1. CASE t \in DOMAIN since
    <3>1. /\ t \in DOMAIN rows \ marred /\ Kept(t)
      BY <2>1, <1>7 DEF IInv, RowsRemember, Kept
    <3>2. t \in DOMAIN prior /\ prior[t] = rows[t]
      BY <3>1, <1>4
    <3>3. CASE t \in Failing
      BY <2>1, <3>1, <3>2, <3>3, <1>2, <1>5, <1>7 DEF Kept
    <3>4. CASE t \notin Failing
      BY <2>1, <3>1, <3>2, <3>4, <1>2, <1>7 DEF Kept
    <3> QED
      BY <3>3, <3>4
  <2>2. CASE t \notin DOMAIN since
    <3>1. t \in Failing \ DOMAIN prior
      BY <2>2, <1>3, <1>7 DEF IInv, Shape
    <3>2. chosen[t] = "open"
      BY <2>2, <3>1, <1>6 DEF IInv, Unjudged
    <3> QED
      BY <2>2, <3>1, <3>2, <1>1, <1>2, <1>7 DEF Kept
  <2> QED
    BY <2>1, <2>2
<1> QED
  BY <1>8, <1>9, <1>10, <1>11 DEF IInv

LEMMA SetStatusStep ==
  ASSUME IInv, NEW t \in Test, NEW s \in Status, SetStatus(t, s)
  PROVE  IInv'
<1>1. /\ DOMAIN rows' = DOMAIN rows
      /\ \A u \in DOMAIN rows \ {t} : rows'[u] = rows[u]
      /\ DOMAIN rows'[t] = Fields /\ rows'[t].status = s
      /\ rows'[t].symptom = rows[t].symptom
      /\ rows'[t].first = rows[t].first /\ rows'[t].last = rows[t].last
  BY DEF SetStatus, IInv, Shape, Fields
<1>2. /\ chosen' = [chosen EXCEPT ![t] = s]
      /\ since' = since /\ marred' = marred /\ t \in DOMAIN rows
  BY DEF SetStatus, Edit
<1>3. Shape' /\ PlainRows' /\ Unjudged'
  BY <1>1, <1>2 DEF IInv, Shape, PlainRows, Unjudged
<1>4. RowsRemember'
  <2> SUFFICES ASSUME NEW u \in DOMAIN since' \ marred'
               PROVE  Kept(u)'
    BY DEF RowsRemember
  <2>1. Kept(u)
    BY <1>2 DEF IInv, RowsRemember
  <2> QED
    BY <2>1, <1>1, <1>2 DEF Kept, IInv, Shape
<1> QED
  BY <1>3, <1>4 DEF IInv

LEMMA DeleteStep ==
  ASSUME IInv, NEW t \in Test, DeleteRow(t)
  PROVE  IInv'
<1>1. /\ rows' = [u \in DOMAIN rows \ {t} |-> rows[u]]
      /\ since' = [u \in DOMAIN since \ {t} |-> since[u]]
      /\ chosen' = [chosen EXCEPT ![t] = "open"]
      /\ marred' = marred
  BY DEF DeleteRow, Edit
<1>2. Shape' /\ PlainRows' /\ Unjudged'
  BY <1>1 DEF IInv, Shape, PlainRows, Unjudged, Status
<1>3. RowsRemember'
  <2> SUFFICES ASSUME NEW u \in DOMAIN since' \ marred'
               PROVE  Kept(u)'
    BY DEF RowsRemember
  <2>1. u # t /\ Kept(u)
    BY <1>1 DEF IInv, RowsRemember
  <2> QED
    BY <2>1, <1>1 DEF Kept, IInv, Shape
<1> QED
  BY <1>2, <1>3 DEF IInv

LEMMA InvStep == IInv /\ [Next]_vars => IInv'
<1> SUFFICES ASSUME IInv, [Next]_vars
             PROVE  IInv'
  OBVIOUS
<1> USE DEF IInv, Shape, PlainRows, Unjudged, RowsRemember, Kept
<1>1. CASE RunSuite
  BY <1>1 DEF RunSuite
<1>2. CASE UNCHANGED vars
  BY <1>2 DEF vars
<1> QED
  BY <1>1, <1>2, UpdateStep, SetStatusStep, DeleteStep DEF Next

LEMMA InvAlways == Spec => []IInv
  BY InitInv, InvStep, PTL DEF Spec

(* ledger.go:242-246, for any reports, any number of runs and any edits:   *)
(* the row of a test without pipes keeps its days and its status.          *)
THEOREM RowsAreKept == Spec => []RowsRemember
<1>1. IInv => RowsRemember
  BY DEF IInv
<1> QED
  BY <1>1, InvAlways, PTL

(* ledger.go:296-300: a test without pipes that fails is a regression      *)
(* exactly when its failure is not debt somebody left open.                *)
THEOREM JudgedRight == Spec => []JudgedByHand
<1>1. IInv => JudgedByHand
  <2> SUFFICES ASSUME IInv, NEW t \in Test \ marred,
                      NEW debt, debt = (t \in DOMAIN since /\ chosen[t] \in {"", "open"})
               PROVE  /\ t \in Failing =>
                          (t \in NewFindings(FindingsFromReport, ParseLedger) <=> ~debt)
                      /\ debt => Stem[t] \in EmitSentinels(ParseLedger)
    BY DEF JudgedByHand
  <2>1. t \in DOMAIN ParseLedger <=> t \in DOMAIN since
    BY ParsedShape, PlainRowsAreRead DEF IInv, Shape, RowsRemember, Kept
  <2>2. ASSUME t \in DOMAIN since
        PROVE  ParseLedger[t].status \in {"", "open"} <=> chosen[t] \in {"", "open"}
    BY <2>2, PlainRowsAreRead DEF IInv, RowsRemember, Kept
  <2>3. DOMAIN FindingsFromReport = Failing
    BY DEF FindingsFromReport
  <2> HIDE DEF IInv
  <2>4. t \in Failing =>
          (t \in NewFindings(FindingsFromReport, ParseLedger) <=> ~debt)
    BY <2>1, <2>2, <2>3 DEF NewFindings
  <2>5. debt => Stem[t] \in EmitSentinels(ParseLedger)
    BY <2>1, <2>2 DEF EmitSentinels
  <2> QED
    BY <2>4, <2>5
<1> QED
  BY <1>1, InvAlways, PTL
=============================================================================
