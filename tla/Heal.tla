-------------------------------- MODULE Heal --------------------------------
(***************************************************************************)
(* Package heal: edits that give tests with a stale locator another one.   *)
(*                                                                         *)
(* A line of a spec is the sequence of the locator calls on it.            *)
(***************************************************************************)
EXTENDS Locators, Filtering

(* The report: a result per try of a test.  An error is the sequence of    *)
(* the locators its message, stack and snippet mention, and the first of   *)
(* them is taken for the one that failed.  The line is where the test is   *)
(* declared.                                                               *)
FailuresOf(result) ==
  IF result.status \in {"passed", "skipped"} THEN << >>
  ELSE LET named == Only(result.errors, {e \in Range(result.errors) : e # << >>}) IN
       [k \in DOMAIN named |-> [line |-> result.line, locator |-> named[k][1]]]

LocatorFailures(report) == FlattenSeq([i \in DOMAIN report |-> FailuresOf(report[i])])

-----------------------------------------------------------------------------
(* Candidates: what could look the anchors up, the stablest first; among   *)
(* equals the one with most words in common with the original.             *)
CandidatesOf(a) ==
  LET one(by, score, has, names) ==
        IF has THEN <<[call |-> Locator(by, names), score |-> score]>> ELSE << >> IN
  one("role", 5, a.role # {} /\ a.aria # {}, a.role \cup a.aria)
    \o one("role", 5, a.role # {} /\ a.name # {}, a.role \cup a.name)
    \o one("label", 4, a.aria # {}, a.aria)
    \o one("text", 3, a.text # {}, a.text)
    \o one("testid", 2, a.testid # {}, a.testid)

TokenOverlap(call, words) == Cardinality(call.names \cap words)

(* The best candidate of a non-empty sequence; the sort is stable.         *)
Best(anchors, words) ==
  LET cands == FlattenSeq([i \in DOMAIN anchors |-> CandidatesOf(anchors[i])])
      above(i, k) == \/ cands[i].score > cands[k].score
                     \/ /\ cands[i].score = cands[k].score
                        /\ TokenOverlap(cands[i].call, words) > TokenOverlap(cands[k].call, words)
      best == {i \in DOMAIN cands : \A k \in DOMAIN cands : ~above(k, i)} IN
  IF best = {} THEN [call |-> NoLocator, score |-> 0]
  ELSE cands[CHOOSE i \in best : \A k \in best : i <= k]

\* Mutant: whatever the line has first is replaced.
RewriteFirst(line, original, call) ==
  IF line = << >> THEN line ELSE [line EXCEPT ![1] = call]

(* The first call on the line that is the original; none, no change.       *)
RewriteLocator(line, original, call) ==
  LET at == {i \in DOMAIN line : line[i] = original} IN
  IF at = {} THEN line
  ELSE [line EXCEPT ![CHOOSE i \in at : \A k \in at : i <= k] = call]

Edit(line, before, after) == [line |-> line, before |-> before, after |-> after]

(* The anchors are those of every UI file.  Without candidates the body of *)
(* the page is written, if there is a language model.                      *)
HealFailure(lines, f, anchors, llm) ==
  LET best == Best(anchors, f.locator.names) IN
  IF f.line \notin DOMAIN lines \/ lines[f.line] = << >>
       \/ (best.score = 0 /\ (~llm \/ anchors = << >>))
  THEN << >>
  ELSE LET call == IF best.score = 0 THEN Body ELSE best.call IN
       <<Edit(f.line, lines[f.line], RewriteLocator(lines[f.line], f.locator, call))>>

HealFromReport(lines, report, anchors, llm) ==
  LET failures == LocatorFailures(report) IN
  FlattenSeq([i \in DOMAIN failures |-> HealFailure(lines, failures[i], anchors, llm)])

-----------------------------------------------------------------------------
(* Proactive: lines that name a word of an anchor a diff removed.          *)
RepresentativeToken(a) ==
  CASE a.testid # {} -> a.testid
    [] a.testid = {} /\ a.aria # {} -> a.aria
    [] a.testid = {} /\ a.aria = {} /\ a.name # {} -> a.name
    [] OTHER -> a.text

WordsOf(line) == UNION {l.names : l \in Range(line)}

(* The first locator of the line is replaced, whichever has the word.      *)
HealLine(lines, i, gone, anchors) ==
  LET stale == \E a \in gone : /\ RepresentativeToken(a) # {}
                               /\ RepresentativeToken(a) \subseteq WordsOf(lines[i])
      best  == Best(anchors, WordsOf(lines[i])) IN
  IF ~stale \/ best.score = 0 \/ lines[i] = << >> THEN << >>
  ELSE <<Edit(i, lines[i], RewriteLocator(lines[i], lines[i][1], best.call))>>

(* An anchor that moved to another file of the diff counts as gone.  The   *)
(* candidates are the anchors of the diff, if it has any, else all.        *)
AnchorKey(a) == [a EXCEPT !.tag = ""]
GoneFrom(f) == {a \in Range(f.old) : \A b \in Range(f.new) : AnchorKey(a) # AnchorKey(b)}

HealProactive(lines, uiFiles, all) ==
  LET gone    == UNION {GoneFrom(f) : f \in Range(uiFiles)}
      current == FlattenSeq([i \in DOMAIN uiFiles |-> uiFiles[i].new])
      anchors == IF current = << >> THEN all ELSE current IN
  FlattenSeq([i \in DOMAIN lines |-> HealLine(lines, i, gone, anchors)])

(* The caller writes the edits one by one.                                 *)
Apply(lines, edits) ==
  LET upTo[i \in 0..Len(edits)] ==
        IF i = 0 THEN lines
        ELSE [upTo[i - 1] EXCEPT ![edits[i].line] = edits[i].after]
  IN  upTo[Len(edits)]
=============================================================================
