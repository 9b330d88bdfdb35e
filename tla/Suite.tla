-------------------------------- MODULE Suite --------------------------------
(***************************************************************************)
(* A test file beside the code it tests.  The source changes, a run of     *)
(* quail reads it and merges what it generates into the file (Gen, Merge), *)
(* the marker of a probe lets the next probe skip, a person edits the      *)
(* file, Playwright runs it, and Heal gives failing tests another locator. *)
(* The run may crash, and the marker may be half written.                  *)
(*                                                                         *)
(* One file per behaviour, of one language.  A TypeScript or Gherkin file  *)
(* tests a page, which is probed; a Go or Python file tests a function,    *)
(* which is read from a diff and has no marker.  Writing files and         *)
(* applying edits is done by quail's command, which is not in this         *)
(* repository.                                                             *)
(***************************************************************************)
EXTENDS Gen, Heal

CONSTANTS
  Languages,  \* languages the file may be in
  Pages,      \* versions of the page
  AnchorsBefore, AnchorsAfter, \* anchors of the UI files walked before and after it
  Functions,  \* versions of the function: the imports their test needs
  URLs,       \* URLs[l]: what a run may be asked to probe, sequences of URLs
  StateTTL,   \* how long a marker counts
  Horizon,    \* bound: Horizon[l] is the last tick of the clock
  Tries,      \* times Playwright runs a failing test
  Failing,    \* bound: how a test may fail, pairs of whether its checks are
              \* soft and whether an error names the locator
  MaxChanges, \* bound: changes of the source and edits by a person
  MaxBlocks,  \* bound: the size of the file
  Absent, NoMarker, Torn

ASSUME PagesAssumption ==
  /\ \A p \in Pages : IsList(p.anchors) /\ IsList(p.inputs)
  /\ IsList(AnchorsBefore) /\ IsList(AnchorsAfter)
  /\ Failing \subseteq BOOLEAN \X BOOLEAN
  /\ Tries \in Nat

ASSUME SuiteAssumption ==
  /\ Languages \subseteq {"ts", "feature", "go", "python"}
  /\ \A f \in Functions : IsFiniteSet(f)
  /\ StateTTL \in Nat /\ \A l \in Languages : Horizon[l] \in Nat
  /\ NoMarker # Torn
  /\ \A l \in Languages :
       {NoMarker, Torn} \cap [urls : URLs[l], at : 0..Horizon[l]] = {}

VARIABLES
  lang,     \* the language of the file
  source,   \* the current version of what it tests
  disk,     \* the file
  sibling,  \* the file written beside it when it cannot be merged
  marker,   \* the state of the last probe
  now,
  changes,  \* counts what people did, for MaxChanges
  pc,       \* what the run of quail does
  asked,    \* what it was asked to probe
  report,   \* Playwright's last report
  (* history *)
  last,     \* what was merged last, Absent after an edit of its tests
  done      \* the last probe that wrote its marker

files == <<disk, sibling>>
run   == <<pc, asked, marker, done>>
vars  == <<lang, source, disk, sibling, marker, now, changes, pc, asked, report, last, done>>

-----------------------------------------------------------------------------
(* Generated files.                                                        *)

GoTest(needs) == SourceFile("shop", SetToSeq(needs), <<Block("func", "TestTotal", NoSymbol, << >>, needs)>>)
PyTest == SourceFile("", <<"pytest">>, <<Comment("py"), Block("test", "test_total", NoSymbol, << >>, {})>>)
Feature == SourceFile("", << >>, <<Block("scenario", "save", NoSymbol, << >>, {})>>)

Generated ==
  CASE lang = "ts" -> Render(source, source.sym)
    [] lang = "go" -> GoTest(source)
    [] lang = "python" -> PyTest
    [] lang = "feature" -> Feature

Probed == lang \in {"ts", "feature"}
Sources == IF Probed THEN Pages ELSE Functions

(* Lines of the file: imports, then one for a block and for each step.     *)
BlockLines(b) == IF b.is = "user" THEN <<b.v>> ELSE <<<< >>>> \o [i \in DOMAIN b.v |-> <<b.v[i]>>]
BodyLines(f) == FlattenSeq([i \in DOMAIN f.body |-> BlockLines(f.body[i])])
Lines(f) == [i \in DOMAIN f.imports |-> << >>] \o BodyLines(f)
FirstLine(f, i) ==
  Len(Lines([f EXCEPT !.body = SubSeq(f.body, 1, i - 1)])) + 1

(* The file with other locators on its lines.                              *)
WithLines(f, lines) ==
  [f EXCEPT !.body = [i \in DOMAIN f.body |->
     LET at == FirstLine(f, i) IN
     IF f.body[i].is = "user" THEN [f.body[i] EXCEPT !.v = lines[at]]
     ELSE [f.body[i] EXCEPT !.v = [k \in DOMAIN f.body[i].v |-> lines[at + k][1]]]]]

-----------------------------------------------------------------------------
(* The page as Playwright sees it.                                         *)

FindsAnchor(a, l) ==
  \/ l.by = "testid" /\ l.names = a.testid
  \/ l.by = "label" /\ l.names = a.aria
  \/ l.by = "text" /\ l.names = a.text
  \/ l.by = "role" /\ l.names \subseteq a.role \cup a.aria \cup a.name \cup {"button"}

Finds(page, l) ==
  \/ l = Body \/ l.by = "href"
  \/ \E a \in Range(page.anchors) : FindsAnchor(a, l)
  \/ \E i \in Range(page.inputs) :
       \/ l.by = "testid" /\ l.names = i.testid
       \/ l.by = "label" /\ l.names \in {i.aria, i.label}
       \/ l.by = "placeholder" /\ l.names = i.placeholder
       \/ l.by = "name" /\ l.names = i.name

StaleSteps(b) == {k \in DOMAIN b.v : ~Finds(source, b.v[k])}
Fails(i) == disk.body[i].is \in {"test", "dashed", "user"} /\ StaleSteps(disk.body[i]) # {}

(* Of a step that failed the report has a snippet, the lines around it,    *)
(* behind a message that may name the locator.                             *)
Snippet(n) ==
  LET lines == Lines(disk) IN
  FlattenSeq(SubSeq(lines, IF n > 2 THEN n - 2 ELSE 1, IF n + 3 < Len(lines) THEN n + 3 ELSE Len(lines)))
ErrorOf(i, k, named) ==
  LET b == disk.body[i] IN
  (IF named THEN <<b.v[k]>> ELSE << >>)
    \o Snippet(FirstLine(disk, i) + (IF b.is = "user" THEN 0 ELSE k))

(* A test fails at each step that finds nothing, its checks being soft, or *)
(* waits at the first until its time is up, which is an error of its own.  *)
(* The result gives the line the test is declared on.                      *)
FailureOf(i, soft, named) ==
  LET v == disk.body[i].v
      stale == StaleSteps(disk.body[i])
      failed == Only([k \in DOMAIN v |-> k],
                     {k \in stale : soft \/ \A n \in stale : k <= n}) IN
  [status |-> "failed", line |-> FirstLine(disk, i),
   errors |-> (IF soft THEN << >> ELSE << << >> >>)
                \o [n \in DOMAIN failed |-> ErrorOf(i, failed[n], named)]]

-----------------------------------------------------------------------------
Init ==
  /\ lang \in Languages /\ source \in Sources
  /\ disk = Absent /\ sibling = Absent
  /\ marker = NoMarker /\ now = 0 /\ changes = 0 /\ pc = "idle" /\ asked = << >>
  /\ report = << >> /\ last = Absent /\ done = NoMarker

Change == changes < MaxChanges /\ changes' = changes + 1

ChangeSource ==
  /\ Change /\ source' \in Sources \ {source}
  /\ UNCHANGED <<lang, files, run, now, report, last>>

(* A person begins the file, adds a test to it or throws it away.          *)
UserTest == Block("user", "mine", NoSymbol,
                  <<Locator("label", {"save"}), Locator("testid", {"mail"})>>, {})
UserStarts ==
  /\ Change /\ disk = Absent /\ lang = "ts"
  /\ \E top \in {<< >>, <<Comment("userdoc")>>} :
       disk' = SourceFile("", <<"test">>, top \o <<UserTest>>)
  /\ last' = Absent
  /\ UNCHANGED <<lang, source, sibling, run, now, report>>
UserAdds ==
  /\ Change /\ disk # Absent /\ lang = "ts" /\ Len(disk.body) < MaxBlocks
  /\ disk' = [disk EXCEPT !.body = Append(@, UserTest)]
  /\ UNCHANGED <<lang, source, sibling, run, now, report, last>>
UserDeletes ==
  /\ Change /\ disk # Absent
  /\ disk' = Absent /\ last' = Absent
  /\ UNCHANGED <<lang, source, sibling, run, now, report>>

-----------------------------------------------------------------------------
(* A run.                                                                  *)

(* Duplicates count, order does not.                                       *)
NormalizeURLs(urls) ==
  [u \in Range(urls) |-> Cardinality({i \in DOMAIN urls : urls[i] = u})]

SuiteAlreadyCovers(urls) ==
  /\ Probed /\ marker \notin {NoMarker, Torn}
  /\ now - marker.at <= StateTTL
  /\ NormalizeURLs(urls) = NormalizeURLs(marker.urls)

\* Mutant: the marker is written before the probe.
StartMarked ==
  /\ pc = "idle"
  /\ \E urls \in URLs[lang] :
       /\ asked' = urls
       /\ IF SuiteAlreadyCovers(urls) THEN pc' = "skipped" /\ marker' = marker
          ELSE pc' = "probing" /\ marker' = [urls |-> urls, at |-> now]
  /\ UNCHANGED <<lang, source, files, now, changes, report, last, done>>

Start ==
  /\ pc = "idle"
  /\ \E urls \in URLs[lang] :
       /\ asked' = urls
       /\ pc' = IF SuiteAlreadyCovers(urls) THEN "skipped" ELSE "probing"
  /\ UNCHANGED <<lang, source, files, marker, now, changes, report, last, done>>

(* A generated file that cannot be merged goes beside the one there is.    *)
Write ==
  /\ pc = "probing"
  /\ LET new == Generated
         m   == IF disk = Absent THEN Merged(new) ELSE AppendTo(lang, disk, new) IN
     /\ disk' = IF m.ok THEN m.file ELSE disk
     /\ m.ok => Len(m.file.body) <= MaxBlocks
     /\ sibling' = IF m.ok THEN sibling ELSE new
     /\ last' = IF m.ok THEN new ELSE last
  /\ IF Probed THEN pc' = "marking" /\ asked' = asked ELSE pc' = "idle" /\ asked' = << >>
  /\ UNCHANGED <<lang, source, marker, now, changes, report, done>>

WriteState ==
  /\ pc = "marking"
  /\ marker' = [urls |-> asked, at |-> now] /\ done' = marker'
  /\ pc' = "idle" /\ asked' = << >>
  /\ UNCHANGED <<lang, source, files, now, changes, report, last>>

End ==
  /\ pc = "skipped" /\ pc' = "idle" /\ asked' = << >>
  /\ UNCHANGED <<lang, source, files, marker, now, changes, report, last, done>>

(* Writing the marker truncates it first.                                  *)
Crash ==
  /\ pc \in {"probing", "marking"}
  /\ marker' \in {marker} \cup (IF pc = "marking" THEN {Torn} ELSE {})
  /\ pc' = "idle" /\ asked' = << >>
  /\ UNCHANGED <<lang, source, files, now, changes, report, last, done>>

Tick ==
  /\ now < Horizon[lang] /\ now' = now + 1
  /\ UNCHANGED <<lang, source, files, run, changes, report, last>>

-----------------------------------------------------------------------------
(* Healing.                                                                *)

RunTests ==
  /\ disk # Absent /\ lang = "ts"
  /\ LET failing == Only([i \in DOMAIN disk.body |-> i], {i \in DOMAIN disk.body : Fails(i)}) IN
     \E how \in Failing :
       report' = FlattenSeq([i \in DOMAIN failing |->
                               [try \in 1..Tries |-> FailureOf(failing[i], how[1], how[2])]])
  /\ UNCHANGED <<lang, source, files, run, now, changes, last>>

(* Replaced locators: on each line the ones before and after.              *)
Replaced(before, after) ==
  UNION {{<<before[n][k], after[n][k]>> :
            k \in {k \in DOMAIN before[n] : before[n][k] # after[n][k]}} : n \in DOMAIN before}

ApplyEdits(edits) ==
  LET lines == Lines(disk)  after == Apply(lines, edits) IN
  /\ IF after = lines THEN UNCHANGED <<disk, last>>
     ELSE disk' = WithLines(disk, after) /\ last' = Absent
  /\ UNCHANGED <<lang, source, sibling, run, now, changes, report>>

CurrentAnchors == AnchorsBefore \o source.anchors \o AnchorsAfter

(* Between the report and the edits the file may have changed.             *)
HealOnFailure ==
  /\ disk # Absent /\ lang = "ts" /\ report # << >>
  /\ \E llm \in BOOLEAN :
       ApplyEdits(HealFromReport(Lines(disk), report, CurrentAnchors, llm))

(* The pull request under review made the page what it is, and may touch   *)
(* the other files, whose anchors stay.                                    *)
UIFiles(old, all) ==
  LET page == <<[old |-> old.anchors, new |-> source.anchors]>> IN
  IF all THEN <<[old |-> AnchorsBefore, new |-> AnchorsBefore]>> \o page
                \o <<[old |-> AnchorsAfter, new |-> AnchorsAfter]>>
  ELSE page
HealDiff ==
  /\ disk # Absent /\ lang = "ts"
  /\ \E old \in Pages \ {source}, all \in BOOLEAN :
       ApplyEdits(HealProactive(Lines(disk), UIFiles(old, all), CurrentAnchors))

Next ==
  \/ ChangeSource \/ UserStarts \/ UserAdds \/ UserDeletes
  \/ Start \/ Write \/ WriteState \/ End \/ Crash \/ Tick
  \/ RunTests \/ HealOnFailure \/ HealDiff

Spec == Init /\ [][Next]_vars

-----------------------------------------------------------------------------
Spellings == SUBSET {1}
Respelled(f, capitals) ==
  [f EXCEPT !.body = [i \in DOMAIN f.body |->
                        [f.body[i] EXCEPT !.sym = IF @ = NoSymbol THEN @
                                                  ELSE Symbol(@.letters, capitals)]]]
OnlyDashed(f) == \A i \in DOMAIN f.body : f.body[i].sym = NoSymbol \/ f.body[i].is = "dashed"

Rerun == /\ last # Absent /\ disk # Absent /\ lang \in {"ts", "go"}
         /\ ~(disk.body # << >> /\ disk.body[1].is = "userdoc")

(* A probe of an unchanged page or function leaves a TypeScript or Go file *)
(* as it is, whatever was merged, added by hand or skipped in between: the *)
(* chunk is recognised though its header was stripped, other chunks came   *)
(* behind it, and, if no title but one with a dash has it, the symbol is   *)
(* spelled otherwise ("modulo symbol-name casing", ts.go:45, is not true   *)
(* of the others).                                                         *)
RerunIsNoop ==
  Rerun => \A capitals \in Spellings :
    LET new == Respelled(last, capitals) IN
    new = last \/ OnlyDashed(last) => AppendTo(lang, disk, new) = Merged(disk)

(* quail's header comes again only behind a quality report, which keeps    *)
(* stripQuailHeader from seeing it ("so it doesn't repeat at the seam").   *)
HeaderOnlyBehindReport ==
  disk # Absent =>
    \A i \in DOMAIN disk.body :
      disk.body[i].is = "doc" /\ i > 1 => disk.body[i - 1].is = "report"

(* A run skips only when a probe of the same URLs ended at most StateTTL   *)
(* ago: never for the marker of a run that crashed or of other targets.    *)
SkipIsFresh ==
  [][pc = "idle" /\ pc' = "skipped" =>
       /\ done # NoMarker
       /\ now - done.at <= StateTTL
       /\ NormalizeURLs(asked') = NormalizeURLs(done.urls)]_vars

(* Though page and file may have changed since the tests ran, so that the  *)
(* lines of the report are of another file, heal replaces on failure only  *)
(* locators an error of the report mentions first, which may be one that   *)
(* works, and what it writes is the body or finds an element of some UI    *)
(* file as it is now, which may be another page's.                         *)
HealsOnlyReported ==
  [][disk' # disk /\ (HealOnFailure \/ HealDiff) =>
       \A p \in Replaced(Lines(disk), Lines(disk')) :
         /\ HealOnFailure => \E i \in DOMAIN report : \E e \in Range(report[i].errors) :
                               e # << >> /\ e[1] = p[1]
         /\ p[2] = Body \/ \E a \in Range(CurrentAnchors) : FindsAnchor(a, p[2])]_vars
=============================================================================
