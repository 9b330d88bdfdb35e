------------------------------ MODULE Pipeline ------------------------------
(***************************************************************************)
(* plan.Build: from the diff of a pull request to the tests to write.      *)
(* Diff says which lines are new, an extractor which symbols there are,    *)
(* Plan which test each gets, and Pages folds the tests of components into *)
(* tests of the pages that mount them; the caller filters by kind.         *)
(*                                                                         *)
(* Groups live in a Go map, whose order of iteration is random: a group is *)
(* materialised by a step of its own, any of those left.  Components of a  *)
(* group on one line come in any order too, the sort is not stable.        *)
(***************************************************************************)
EXTENDS Diff, Pages

CONSTANTS
  Inputs,      \* what Build may be called with, see InputsAssumption
  SymbolsOf,   \* SymbolsOf[path]: what an extractor finds in the new file
  Size,        \* Size[path]: its length, which orders the page roots
  Companions   \* items a caller may add: scaffold, documents, sentinels

Paths == DOMAIN SymbolsOf

(* git names no file of its own twice as a new one, and counts the lines   *)
(* of a hunk from 1 unless it has none.                                    *)
IsHunk(h) ==
  /\ h.start \in Nat /\ h.body \in Seq(LineKinds)
  /\ h.start = 0 => \A i \in DOMAIN h.body : ~IsNew(h.body[i])

IsChange(c) ==
  /\ c.new \in Paths \cup {Nowhere}
  /\ IsList(c.hunks)
  /\ \A h \in Range(c.hunks) : IsHunk(h)

ASSUME InputsAssumption ==
  \A in \in Inputs :
    /\ DOMAIN in = {"changes", "has", "tree", "urls", "style", "allow", "deny"}
    /\ in.has \in WorkDirs
    /\ in.style \in {"", "page-flow", "per-component"}
    /\ IsFiniteSet(in.tree) /\ IsFiniteSet(DOMAIN in.urls)
    /\ IsList(in.changes)
    /\ \A c \in Range(in.changes) : IsChange(c)
    /\ \A i, k \in DOMAIN in.changes :
         i # k /\ in.changes[i].new # Nowhere => in.changes[i].new # in.changes[k].new

(* What an extractor records of a symbol: the lines of a component begin   *)
(* at 1, and no two components of a file begin on the same line.  A data   *)
(* type, a class, a store or a call of a service has no end, which is 0;   *)
(* a call of a service has no line either.  After a declaration that goes  *)
(* over several lines the line recorded is less than the true one.         *)
ASSUME SymbolsAssumption ==
  \A p \in Paths :
    /\ p \notin {NoPath, Nowhere, Junk}
    /\ IsList(SymbolsOf[p])
    /\ \A s \in Range(SymbolsOf[p]) :
         /\ {"file", "line", "links"} \subseteq DOMAIN s
         /\ s.file = p /\ s.line \in Nat /\ s.end \in Nat
         /\ s.end = 0 \/ s.line <= s.end
         /\ s.kind = "component" => s.line # 0
    /\ \A i, k \in DOMAIN SymbolsOf[p] :
         LET s == SymbolsOf[p][i]  t == SymbolsOf[p][k] IN
         i # k /\ s.kind = "component" /\ t.kind = "component" => s.line # t.line

(* Nothing a caller adds is a journey; a caller that adds anything adds    *)
(* the step definitions to a suite in Gherkin.                             *)
ASSUME CompanionsAssumption ==
  /\ IsList(Companions)
  /\ \A it \in Range(Companions) : it.template \notin Journey
  /\ Companions # << >> => \E it \in Range(Companions) : it.template = "pw_steps_bdd"

VARIABLES
  in,         \* the call
  pc,         \* what Build does next
  files,      \* files of the diff not planned yet
  inDiff,     \* their paths, of those that are not removed
  items,      \* tests planned so far
  roots,      \* the page roots
  groups,     \* page root |-> its components, of groups not materialised
  singles,    \* tests of components that have no group, ungroupedE2E
  pages,      \* tests of groups
  planned     \* history: the items before grouping

vars == <<in, pc, files, inDiff, items, roots, groups, singles, pages, planned>>

Layout == Detect(in.has)

Init ==
  /\ in \in Inputs
  /\ pc = "diff" /\ files = << >> /\ inDiff = {}
  /\ items = << >> /\ roots = << >> /\ groups = << >> /\ singles = << >>
  /\ pages = << >> /\ planned = << >>

ParseDiff ==
  /\ pc = "diff"
  /\ files' = Parse(Unified(in.changes))
  /\ inDiff' = {f.path : f \in {f \in Range(files') : f.status # "removed"}}
  /\ pc' = "build"
  /\ UNCHANGED <<in, items, roots, groups, singles, pages, planned>>

(* The items of a file: of each symbol an added line is in.                *)
ItemsOf(f) ==
  LET known == IF f.status # "removed" /\ f.path \in Paths THEN SymbolsOf[f.path] ELSE << >>
      hit   == Only(known, {s \in Range(known) : Intersects(f.added, s.line, s.end)})
      of(s) == LET t == PickTemplate(s, Layout) IN
               <<Item(s, t, TestPathFor(s, t, Layout))>> \o FanOutAspects(s)
  IN FlattenSeq([i \in DOMAIN hit |-> of(hit[i])])

BuildFile ==
  /\ pc = "build" /\ files # << >>
  /\ items' = items \o ItemsOf(Head(files))
  /\ files' = Tail(files)
  /\ UNCHANGED <<in, pc, inDiff, roots, groups, singles, pages, planned>>

(* groupByPage begins, unless there is nothing to group by.                *)
Match ==
  /\ pc = "build" /\ files = << >>
  /\ planned' = items
  /\ IF in.style = "per-component" THEN roots' = roots
     ELSE \E found \in FindPageRoots(in.tree, Size) :
            roots' \in ApplyPageURLOverrides(found, in.urls)
  /\ IF in.style = "per-component" \/ (roots' = << >> /\ in.style # "page-flow")
     THEN pc' = "filter" /\ UNCHANGED <<items, groups, singles>>
     ELSE LET m == MatchComponents(items, roots') IN
          /\ pc' = "group" /\ items' = m.nonE2E
          /\ groups' = m.grouped /\ singles' = m.ungrouped
  /\ UNCHANGED <<in, files, inDiff, pages>>

ByLine(symbols) ==
  {q \in SetToSeqs(Range(symbols)) :
     \A i, k \in DOMAIN q : i < k => q[i].line <= q[k].line}

MaterialiseGroup ==
  /\ pc = "group"
  /\ \E i \in DOMAIN groups : \E q \in ByLine(groups[i]) :
       LET m == Materialise(roots[i], q, in.style, Layout) IN
       /\ groups' = [k \in DOMAIN groups \ {i} |-> groups[k]]
       /\ singles' = IF m.single THEN Append(singles, m.item) ELSE singles
       /\ pages' = IF m.single THEN pages ELSE Append(pages, m.item)
  /\ UNCHANGED <<in, pc, files, inDiff, items, roots, planned>>

Assemble ==
  /\ pc = "group" /\ DOMAIN groups = {}
  /\ LET out == items \o pages \o singles
         covered == {it.symbol.file : it \in Range(out)} IN
     items' = ChainMultiStep(out \o MaterialisePageRoots(roots, inDiff, covered, Layout))
  /\ pc' = "filter"
  /\ UNCHANGED <<in, files, inDiff, roots, groups, singles, pages, planned>>

(* Step definitions are emitted only into a suite in Gherkin.              *)
Added ==
  Only(Companions, {it \in Range(Companions) : it.template = "pw_steps_bdd" => Layout.UsesBDD})

Filter ==
  /\ pc = "filter"
  /\ items' = FilterByKinds(items \o Added, in.allow, in.deny)
  /\ pc' = "done"
  /\ UNCHANGED <<in, files, inDiff, roots, groups, singles, pages, planned>>

Next == ParseDiff \/ BuildFile \/ Match \/ MaterialiseGroup \/ Assemble \/ Filter

Spec == Init /\ [][Next]_vars

-----------------------------------------------------------------------------
(* A component is known by where it begins: its links are pruned later.    *)
At(s) == <<s.file, s.line>>
PlacesOf(it) == {At(s) : s \in {it.symbol} \cup Range(it.symbols)}
Tests(s, its) == {i \in DOMAIN its : At(s) \in PlacesOf(its[i]) /\ its[i].template \in Journey}
Components == {it.symbol : it \in {it \in Range(planned) : IsComponentTest(it)}}
Unfiltered == in.allow = {} /\ in.deny = {}

(* A change of the diff never confuses the reading of another file, and of *)
(* a file whose hunks Parse counts rightly (Plain, see Diff) exactly the   *)
(* symbols are planned whose lines, as the extractor recorded them, hold a *)
(* truly added one: none of those it gave no end, though fanOutAspects     *)
(* "emits the diff-mode aspect items" of them.                             *)
TouchedAreTested ==
  pc \notin {"diff", "build"} =>
    \A c \in Range(in.changes) :
      c.new # Nowhere /\ Plain(c) =>
        {s \in Range(SymbolsOf[c.new]) : TrulyAdded(c) \cap s.line..s.end # {}}
          = {it.symbol : it \in {it \in Range(planned) : it.symbol.file = c.new}}

(* However the map is iterated, folding loses no component and tests none  *)
(* twice, though groups, the leftovers and the page roots are assembled    *)
(* apart.  A page is tested beside its component only if that is planned   *)
(* behind another one of a group: what the code keeps of "so we don't      *)
(* double-emit" (materializePageRoots).                                    *)
EachComponentOnce ==
  pc = "done" /\ Unfiltered =>
    \A s \in Components :
      /\ Cardinality(Tests(s, items)) = 1
      /\ (\E it \in Range(items) : /\ it.template \in Journey /\ it.symbol.file = s.file
                                  /\ it.symbol \notin Components)
           => \A it \in Range(items) : it.template \in Journey => it.symbol # s

(* A suite is in the framework of the project, whichever of the three      *)
(* places made the item (comment of KindComponent in pickTemplate).        *)
OneFramework ==
  pc = "done" =>
    \A it \in Range(items) :
      it.template \in Journey => (it.template = "pw_feature" <=> Layout.UsesBDD)

(* What a user's filter leaves can run: a Gherkin journey never goes       *)
(* without its step definitions, and nothing denied is left, a sentinel as *)
(* little as a test (comment of isAlwaysKeep; that of FilterByKinds says   *)
(* sentinels "are never dropped").                                         *)
FilteredSuiteRuns ==
  pc = "done" =>
    /\ (\E it \in Range(items) : it.template = "pw_feature") /\ Companions # << >> =>
         \E it \in Range(items) : it.template = "pw_steps_bdd"
    /\ \A it \in Range(items) : KindOf(it.template) \in in.deny => IsAlwaysKeep(KindOf(it.template))
=============================================================================
