------------------------------ MODULE Composer ------------------------------
(***************************************************************************)
(* Package composer behind the ladder: what is made of the reply of a      *)
(* language model that was asked for scenarios.                            *)
(*                                                                         *)
(* A line of Gherkin or of a step-definition file is [is, kind, words,     *)
(* args, handler].  A step has words and, in quotes, args: texts, which    *)
(* are sets of words.  A definition has words and, as args, the shapes of  *)
(* its parameters: "some" matches a text that is not empty, "any" each.    *)
(***************************************************************************)
EXTENDS Integers, Sequences, FiniteSets, SequencesExt, Filtering

Line(is, kind, words, args, handler) ==
  [is |-> is, kind |-> kind, words |-> words, args |-> args, handler |-> handler]
Step(keyword, words, args) == Line("step", keyword, words, args, << >>)
StepPattern(kind, words, shapes, handler) == Line("def", kind, words, shapes, handler)

Matches(pattern, step) ==
  /\ pattern.words = step.words
  /\ Len(pattern.args) = Len(step.args)
  /\ \A i \in DOMAIN step.args : pattern.args[i] = "some" => step.args[i] # {}

(* The list in composer.go, as far as the steps of the model need it.  It  *)
(* lags behind the step definitions, and takes an empty value.             *)
RegisteredPatterns ==
  {StepPattern("re", words, shapes, << >>) :
     words  \in {<<"landing">>, <<"submit">>, <<"submit", "twice">>, <<"back">>, <<"reload">>},
     shapes \in {<< >>}}
  \cup {StepPattern("re", words, <<"some">>, << >>) :
          words \in {<<"page">>, <<"link">>, <<"direct">>, <<"heading">>, <<"see">>, <<"title">>}}
  \cup {StepPattern("re", <<"enter">>, <<"any", "some">>, << >>)}

MatchesRegisteredPattern(step) == \E p \in RegisteredPatterns : Matches(p, step)

-----------------------------------------------------------------------------
(* Reading the reply.  Of an array the objects are known to be "clean";    *)
(* "dirty", which parse once sanitised; "quoted", which have typographic   *)
(* quotes inside a text and parse no more once sanitised; "bad", which     *)
(* never parse; or "open", which do not end, nor does what follows them.   *)

NoArray == [array |-> FALSE]
Reply(objects, closed) == [array |-> TRUE, objects |-> objects, closed |-> closed]
Object(state, scenario) == [state |-> state, scenario |-> scenario]
Scenario(name, steps) == [name |-> name, steps |-> steps]

Unparseable == [ok |-> FALSE]
Parsed(scenarios) == [ok |-> TRUE, scenarios |-> scenarios]

(* sanitizeDirtyJSON is applied before anything is tried.                  *)
SanitizedParses(o) == o.state \in {"clean", "dirty"}

ScenariosOf(objects) == [i \in DOMAIN objects |-> objects[i].scenario]

Complete(objects) ==
  LET open == {i \in DOMAIN objects : objects[i].state = "open"} IN
  IF open = {} THEN objects
  ELSE SubSeq(objects, 1, (CHOOSE i \in open : \A k \in open : i <= k) - 1)

\* Mutant: recovery ends at the first object that does not parse.
ParseUntilBad(objects) ==
  LET bad == {i \in DOMAIN objects : ~SanitizedParses(objects[i])} IN
  IF bad = {} THEN ScenariosOf(objects)
  ELSE ScenariosOf(SubSeq(objects, 1, (CHOOSE i \in bad : \A k \in bad : i <= k) - 1))

(* Every complete object that parses, of an array that may be cut off.     *)
ParsePartialArray(objects) ==
  ScenariosOf(Only(Complete(objects), {o \in Range(objects) : SanitizedParses(o)}))

Parse(reply) ==
  IF ~reply.array THEN Unparseable
  ELSE IF reply.closed /\ \A o \in Range(reply.objects) : SanitizedParses(o)
       THEN Parsed(ScenariosOf(reply.objects))
  ELSE IF ParsePartialArray(reply.objects) # << >>
       THEN Parsed(ParsePartialArray(reply.objects))
  ELSE Unparseable

-----------------------------------------------------------------------------
(* Validation.  A journey is [landing, pages]; a page is [href, h1, title],*)
(* and a text that is not recorded is empty.                               *)

Validate(scenarios) ==
  Only(scenarios,
       {s \in Range(scenarios) :
          /\ s.name # "" /\ s.steps # << >>
          /\ \A i \in DOMAIN s.steps : MatchesRegisteredPattern(s.steps[i])})

NavSteps == {<<"link">>, <<"direct">>, <<"page">>}
AssertedKind(step) == IF step.words = <<"title">> THEN "title" ELSE "h1"
IsTextAssertion(step) == step.words \in {<<"heading">>, <<"see">>, <<"title">>}

(* Either text is part of the other; an unknown one refutes nothing.       *)
PageAssertionMatches(page, step) ==
  LET known == page[AssertedKind(step)]  asserted == step.args[1] IN
  known = {} \/ asserted = {} \/ asserted \subseteq known \/ known \subseteq asserted

(* Of two records of one address the later counts.                         *)
PageAt(journey, href) ==
  LET known == SelectSeq(journey.pages, LAMBDA p : p.href = href) IN
  IF known = << >> THEN [href |-> href, h1 |-> {}, title |-> {}] ELSE Last(known)

\* Mutant: a page nothing is known of does not become the current one.
FollowKnown(journey, at, step) ==
  IF step.words \in NavSteps /\ \E p \in Range(journey.pages) : p.href = step.args[1]
  THEN [at EXCEPT !.page = PageAt(journey, step.args[1])]
  ELSE IF IsTextAssertion(step) /\ ~PageAssertionMatches(at.page, step)
  THEN [at EXCEPT !.ok = FALSE] ELSE at

(* Only the three steps that name an address change the current page.      *)
Follow(journey, at, step) ==
  IF step.words \in NavSteps
  THEN [at EXCEPT !.page = PageAt(journey, step.args[1])]
  ELSE IF IsTextAssertion(step) /\ ~PageAssertionMatches(at.page, step)
  THEN [at EXCEPT !.ok = FALSE] ELSE at

(* No step of it is refuted by the page the browser is taken to be on.     *)
Consistent(s, journey) ==
  LET at[i \in 0..Len(s.steps)] ==
        IF i = 0 THEN [page |-> journey.landing, ok |-> TRUE]
        ELSE Follow(journey, at[i - 1], s.steps[i])
  IN  at[Len(s.steps)].ok

ValidateAgainst(scenarios, journey) ==
  Only(scenarios, {s \in Range(scenarios) : Consistent(s, journey)})

Cap(scenarios, n) == SubSeq(scenarios, 1, IF Len(scenarios) < n THEN Len(scenarios) ELSE n)

(* Scenarios with the same steps count once, whatever their names.         *)
ScenarioKey(s) == s.steps
Dedup(scenarios) ==
  LET upTo[i \in 0..Len(scenarios)] ==
        IF i = 0 THEN << >>
        ELSE IF \E k \in Range(upTo[i - 1]) : ScenarioKey(k) = ScenarioKey(scenarios[i])
        THEN upTo[i - 1] ELSE Append(upTo[i - 1], scenarios[i])
  IN  upTo[Len(scenarios)]

-----------------------------------------------------------------------------
(* Step definitions and the Gherkin that is to run on them.                *)

ExtractStepPatterns(lines) == Only(lines, {l \in Range(lines) : l.is = "def"})
HandlerHashes(lines) ==
  LET defs == ExtractStepPatterns(lines) IN [i \in DOMAIN defs |-> defs[i].handler]

IsGherkinSafe(lines) ==
  \A l \in Range(lines) : l.is = "step" => MatchesRegisteredPattern(l)
IsGherkinSafeAgainst(lines, patterns) ==
  /\ patterns # << >>
  /\ \A l \in Range(lines) : l.is = "step" => \E p \in Range(patterns) : Matches(p, l)
LooksLikeFeatureFile(lines) == \E l \in Range(lines) : l.is = "feature"

(* Parameters count only of a pattern that is quoted as a whole.           *)
PatternParamsEqual(from, to) == from.kind = to.kind /\ from.args = to.args
=============================================================================
