-------------------------------- MODULE Gen --------------------------------
(***************************************************************************)
(* gen.Render for the template of a page's happy flow: what a test of a    *)
(* page does, how it finds the elements, and the quality report on those   *)
(* it can find only by weak means.  A page is [anchors, inputs, links,     *)
(* hasForm, hasOnClick, journey], journey if it is part of one; a link is   *)
(* [href, words, path, depth]: whom it leads to, the words of its text and *)
(* of its path, and the number of slashes.                                 *)
(***************************************************************************)
EXTENDS Locators, Merge

(* The strongest attribute an anchor has; nothing stable, no locator.      *)
LocatorFor(a) ==
  IF a.testid # {} THEN Locator("testid", a.testid)
  ELSE IF a.aria # {} THEN Locator("label", a.aria)
  ELSE IF a.role # {} THEN Locator("role", a.role)
  ELSE IF a.name # {} THEN Locator("role", {"button"} \cup a.name)
  ELSE NoLocator

InputLocator(i) ==
  IF i.testid # {} THEN Locator("testid", i.testid)
  ELSE IF i.aria # {} THEN Locator("label", i.aria)
  ELSE IF i.placeholder # {} THEN Locator("placeholder", i.placeholder)
  ELSE IF i.label # {} THEN Locator("label", i.label)
  ELSE IF i.name # {} THEN Locator("name", i.name)
  ELSE NoLocator

(* What the report calls a weak locator: none of the two strongest.        *)
LocatorProvenance(i) ==
  IF i.testid # {} \/ i.aria # {} THEN "" ELSE InputLocator(i).by

(* The first of s that is in T, if there is one.                           *)
FirstOf(s, T) ==
  LET q == Only(s, T) IN IF q = << >> THEN << >> ELSE <<Head(q)>>

FirstSubmit(anchors) ==
  LET submit == FirstOf(anchors, {a \in Range(anchors) : a.tag = "submit"}) IN
  IF submit # << >> THEN submit ELSE FirstOf(anchors, {a \in Range(anchors) : a.tag = "button"})
FirstRequiredInput(inputs) == FirstOf(inputs, {i \in Range(inputs) : i.required})
FirstEmailInput(inputs) == FirstOf(inputs, {i \in Range(inputs) : i.type = "email"})
FirstOversizableInput(inputs) ==
  LET area == FirstOf(inputs, {i \in Range(inputs) : i.type = "textarea"}) IN
  IF area # << >> THEN area
  ELSE FirstOf(inputs, {i \in Range(inputs) : i.type \in {"text", "email", "url", "tel"}})
FirstClickable(anchors) ==
  FirstOf(anchors, {a \in Range(anchors) : a.tag \in {"button", "summary", "a", "input"}})

IntentFor(page) ==
  IF /\ page.hasForm
     /\ \E a \in Range(page.anchors) : a.tag = "submit"
     /\ \E i \in Range(page.inputs) : i.required
  THEN "form" ELSE IF page.links # << >> THEN "nav" ELSE "content"

-----------------------------------------------------------------------------
(* Where a visitor would go next: links by the vocabulary of their text    *)
(* and path, legal pages last; one per href, in order among equals.        *)

NavVocabulary == {"contact", "pricing", "login"}
NavAvoidPath  == {"privacy", "terms"}

NavScore(l) ==
    (IF l.words \cap NavVocabulary # {} THEN 3 ELSE 0)
  + (IF l.path \cap NavVocabulary # {} THEN 2 ELSE 0)
  - 3 * Cardinality(l.path \cap NavAvoidPath)
  + (IF l.depth <= 1 THEN 1 ELSE 0)

NavTargets(links) ==
  LET add(out, l) == IF l.href = "elsewhere" \/ (\E k \in Range(out) : k.href = l.href)
                     THEN out ELSE Append(out, l)
  IN FoldLeft(add, << >>, links)

RankedNavTargets(links, n) ==
  LET all == NavTargets(links)
      above(i, k) == NavScore(all[i]) > NavScore(all[k])
                       \/ (NavScore(all[i]) = NavScore(all[k]) /\ i < k)
      order == SetToSortSeq(DOMAIN all, above) IN
  [i \in 1..(IF Len(all) < n THEN Len(all) ELSE n) |-> all[order[i]]]

-----------------------------------------------------------------------------
(* The tests of a page.  A step is the locator on its line.                *)

Located(inputs) ==
  LET all == [i \in DOMAIN inputs |-> InputLocator(inputs[i])] IN
  Only(all, Range(all) \ {NoLocator})
LocatedAnchors(anchors) ==
  LET all == [i \in DOMAIN anchors |-> LocatorFor(anchors[i])] IN
  Only(all, Range(all) \ {NoLocator})

SubmitStep(page) == LocatedAnchors(FirstSubmit(page.anchors))
FormSteps(page) == Located(page.inputs) \o SubmitStep(page)

(* A click, if the source has a handler, on what may lack a locator.       *)
ContentSteps(page) ==
  IF ~page.hasOnClick THEN << >>
  ELSE [i \in DOMAIN FirstClickable(page.anchors) |-> LocatorFor(FirstClickable(page.anchors)[i])]

NavSteps(page) ==
  LET to == RankedNavTargets(page.links, 8) IN
  [i \in 1..(IF to = << >> THEN 0 ELSE 1) |-> Locator("href", {to[i].href})]

WalkSteps(page) ==
  LocatedAnchors(page.anchors)
    \o (CASE IntentFor(page) = "form" -> FormSteps(page)
          [] IntentFor(page) = "nav" -> NavSteps(page)
          [] IntentFor(page) = "content" -> ContentSteps(page))

TestOf(name, sym, steps) == Block("test", name, sym, steps, {})

(* The first is headed by the title of them all, which has a dash in front *)
(* of the kind of journey.                                                 *)
HappyTest(page, sym) ==
  Block(IF page.journey THEN "dashed" ELSE "test", "happy", sym, WalkSteps(page), {})

(* The negative tests of a form, each if what it needs can be located.     *)
NegativeTest(name, sym, steps, needed) ==
  IF Len(steps) = needed THEN <<TestOf(name, sym, steps)>> ELSE << >>

Negatives(page, sym) ==
  LET submit == SubmitStep(page) IN
  IF IntentFor(page) # "form" THEN << >>
  ELSE NegativeTest("required", sym, submit \o Located(FirstRequiredInput(page.inputs)), 2)
         \o NegativeTest("malformed", sym, Located(FirstEmailInput(page.inputs)) \o submit, 2)
         \o NegativeTest("oversized", sym, Located(FirstOversizableInput(page.inputs)), 1)

TestsOf(page, sym) == <<HappyTest(page, sym)>> \o Negatives(page, sym)

(* The report: weak locators of the form, noted where an input is filled   *)
(* and not checked or selected, or a page without test ids.                *)
WeakInputs(page) ==
  {i \in Range(page.inputs) :
     \/ InputLocator(i) = NoLocator
     \/ LocatorProvenance(i) # "" /\ i.type \notin {"checkbox", "radio", "select"}}
HasTestableSurface(page) == Len(page.inputs) >= 1 \/ Len(page.anchors) >= 3
AnyTestID(page) == \E e \in Range(page.anchors) \cup Range(page.inputs) : e.testid # {}
QualityNotes(page) ==
  IF IntentFor(page) = "form" /\ WeakInputs(page) # {}
  THEN {<<"weak", LocatorProvenance(i)>> : i \in WeakInputs(page)}
  ELSE IF HasTestableSurface(page) /\ ~AnyTestID(page)
  THEN {<<"no test ids", Len(page.inputs), Len(page.anchors)>>}
  ELSE {}

AnnotateQualityReport(body, page) ==
  IF QualityNotes(page) = {} THEN body
  ELSE <<Block("report", "", NoSymbol, << >>, QualityNotes(page))>> \o body

Render(page, sym) ==
  SourceFile("", <<"test">>,
             AnnotateQualityReport(<<Comment("doc")>> \o TestsOf(page, sym), page))
=============================================================================
