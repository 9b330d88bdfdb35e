------------------------------- MODULE Ledger -------------------------------
(***************************************************************************)
(* The bug ledger of a repository across runs of its generated suite.      *)
(* ledger.Merge folds the failures of a Playwright report into a markdown  *)
(* table that people edit by hand, ledger.NewFindings tells regressions    *)
(* from known debt, and ledger.EmitSentinels writes a spec for every row   *)
(* that is not resolved.                                                   *)
(*                                                                         *)
(* The table is modelled as far as reading it back goes: a pipe inside a   *)
(* cell ends the cell unless a backslash escapes it, and a row that does   *)
(* not have seven cells is not read.  Spec and title of a test are one     *)
(* value, its key.                                                         *)
(***************************************************************************)
EXTENDS Naturals, Sequences

CONSTANTS
  Test,          \* tests, by spec file and title
  PipedTitle,    \* those with a pipe in their title
  Message,       \* first lines of error messages
  PipedMessage,  \* those with a pipe
  Passed,        \* the result of an attempt that is no failure
  Reports,       \* reports: the results of every test, one per attempt
  Stem,          \* Stem[t]: file name of the sentinel of t
  MaxDay,        \* bound: days the suite is run
  MaxEdits       \* bound: edits of the table by hand

ASSUME SuiteAssumption ==
  /\ PipedTitle \subseteq Test /\ PipedMessage \subseteq Message
  /\ Passed \notin Message
  /\ Reports \subseteq [Test -> Seq(Message \cup {Passed})]
  /\ MaxDay \in Nat /\ MaxEdits \in Nat

VARIABLES
  day,      \* today
  report,   \* the last report
  rows,     \* the table on disk, by test
  edits,
  (* history *)
  since,    \* first and last day a failure went into the table
  chosen,   \* the status a person gave the row of a test, or "open"
  marred    \* tests that brought a pipe into the table

vars == <<day, report, rows, edits, since, chosen, marred>>

Status == {"open", "resolved", "", "other"}

-----------------------------------------------------------------------------
(* Reading a report.                                                       *)

Failures(t) == SelectSeq(report[t], LAMBDA r : r # Passed)

Failing == {t \in Test : Failures(t) # << >>}

(* symptomFrom puts a backslash before every pipe.                         *)
SymptomFrom(m) ==
  [text |-> m, form |-> IF m \in PipedMessage THEN "escaped" ELSE "plain"]

(* Failed attempts of one test are merged one by one: the last one tells.  *)
FindingsFromReport ==
  [t \in Failing |->
     [symptom |-> SymptomFrom(Failures(t)[Len(Failures(t))]),
      first |-> day, last |-> day, status |-> "open"]]

-----------------------------------------------------------------------------
(* Reading and writing the table.                                          *)

SevenCells(t) == t \notin PipedTitle /\ rows[t].symptom.form # "raw"

(* splitMarkdownRow removes the backslash, and writing puts none back.     *)
Unescaped(row) ==
  IF row.symptom.form = "escaped" THEN [row EXCEPT !.symptom.form = "raw"] ELSE row

ParseLedger == [t \in {u \in DOMAIN rows : SevenCells(u)} |-> Unescaped(rows[t])]

\* Mutant: a failure that comes back takes the place of its row.
RecurredAnew(old, new) == [new EXCEPT !.status = old.status]

\* Mutant: a failure that comes back opens its row again.
RecurredOpen(old, new) == [new EXCEPT !.first = old.first]

(* The row of a failure that comes back.                                   *)
Recurred(old, new) ==
  [new EXCEPT !.first = old.first,
              !.status = IF old.status = "" THEN "open" ELSE old.status]

Merge(prior, fresh) ==
  [t \in DOMAIN prior \cup DOMAIN fresh |->
     IF t \notin DOMAIN fresh THEN prior[t]
     ELSE IF t \notin DOMAIN prior THEN fresh[t]
     ELSE Recurred(prior[t], fresh[t])]

(* What is not known debt: not in the table, or not open there.            *)
NewFindings(current, baseline) ==
  {t \in DOMAIN current :
     ~(t \in DOMAIN baseline /\ baseline[t].status \in {"", "open"})}

EmitSentinels(findings) ==
  {Stem[t] : t \in {u \in DOMAIN findings : findings[u].status # "resolved"}}
-----------------------------------------------------------------------------
Init ==
  /\ day = 1
  /\ report \in Reports
  /\ rows = [t \in {} |-> {}]
  /\ edits = 0
  /\ since = [t \in {} |-> {}]
  /\ chosen = [t \in Test |-> "open"]
  /\ marred = PipedTitle

(* quail ledger update: the table is read, merged and written.             *)
Update ==
  /\ rows' = Merge(ParseLedger, FindingsFromReport)
  /\ since' = [t \in DOMAIN since \cup Failing |->
                 [first |-> IF t \in DOMAIN since THEN since[t].first ELSE day,
                  last  |-> IF t \in Failing THEN day ELSE since[t].last]]
  /\ marred' = marred \cup
                 {t \in Failing : FindingsFromReport[t].symptom.form = "escaped"}
  /\ UNCHANGED <<day, report, edits, chosen>>

(* External: the suite is run on a later day; a person edits the table.    *)
RunSuite ==
  /\ day < MaxDay
  /\ day' = day + 1
  /\ report' \in Reports
  /\ UNCHANGED <<rows, edits, since, chosen, marred>>

Edit ==
  /\ edits < MaxEdits
  /\ edits' = edits + 1
  /\ UNCHANGED <<day, report, marred>>

SetStatus(t, s) ==
  /\ t \in DOMAIN rows
  /\ Edit
  /\ rows' = [rows EXCEPT ![t].status = s]
  /\ chosen' = [chosen EXCEPT ![t] = s]
  /\ UNCHANGED since

DeleteRow(t) ==
  /\ t \in DOMAIN rows
  /\ Edit
  /\ rows' = [u \in DOMAIN rows \ {t} |-> rows[u]]
  /\ since' = [u \in DOMAIN since \ {t} |-> since[u]]
  /\ chosen' = [chosen EXCEPT ![t] = "open"]

Next ==
  \/ Update \/ RunSuite
  \/ \E t \in Test : DeleteRow(t) \/ \E s \in Status : SetStatus(t, s)

Spec == Init /\ [][Next]_vars

-----------------------------------------------------------------------------
(* What the table should say of a test whose failure went into it.         *)
Kept(t) ==
  /\ t \in DOMAIN rows
  /\ rows[t].first = since[t].first /\ rows[t].last = since[t].last
  /\ \/ rows[t].status = chosen[t]
     \/ rows[t].status = "open" /\ chosen[t] = ""

(* ledger.go:242-246 over any number of runs, retries and edits by hand:   *)
(* the row of a test without pipes keeps the day of its first failure, the *)
(* day of its last one and the status a person gave it, until that person  *)
(* deletes it.                                                             *)
RowsRemember == \A t \in DOMAIN since \ marred : Kept(t)

(* ledger.go:245-246 "Findings not present in the incoming batch are kept  *)
(* with their prior LastSeen (and Status preserved", of every test.        *)
FindingsAreKept == \A t \in DOMAIN since : Kept(t)

(* ledger.go:296-300 and sentinels.go:17-19: at any time, before or after  *)
(* the report is merged, a test without pipes that fails is a regression   *)
(* unless its failure is in the table and a person has not closed it; and  *)
(* what nobody resolved has its sentinel.                                  *)
JudgedByHand ==
  \A t \in Test \ marred :
    LET debt == t \in DOMAIN since /\ chosen[t] \in {"", "open"} IN
      /\ t \in Failing =>
           (t \in NewFindings(FindingsFromReport, ParseLedger) <=> ~debt)
      /\ debt => Stem[t] \in EmitSentinels(ParseLedger)
=============================================================================
