----------------------------- MODULE Scenarios -----------------------------
(***************************************************************************)
(* From the reply of a language model to the suite that runs: for each     *)
(* journey of a probe ProposeWithFeedback asks for scenarios, once more if *)
(* the reply cannot be parsed; what is left after validation is written    *)
(* into a feature beside the step definitions, and the pair is humanized   *)
(* by another reply.                                                       *)
(*                                                                         *)
(* A model may reply anything: Replies and Answers are what it may say.    *)
(***************************************************************************)
EXTENDS Humanizer

CONSTANTS
  Journeys,   \* the journeys of the probe, a sequence
  Replies,    \* Replies[j]: replies to a request for scenarios of a journey
  Answers,    \* replies to a request to humanize
  N,          \* scenarios asked for
  StepDefs,   \* lines of the step-definition file
  Happy       \* lines of the feature that is written without a model

AreLines(lines) ==
  /\ IsList(lines)
  /\ \A l \in Elements(lines) :
       l = Line(l.is, l.kind, l.words, l.args, l.handler) /\ IsList(l.args)

AreRewrites(rs) == IsList(rs) /\ \A r \in Elements(rs) : r.of = "line" => AreLines(r.lines)

IsReply(r) ==
  r.array => /\ r.objects \in Seq(Range(r.objects))
             /\ \A o \in Range(r.objects) : AreLines(o.scenario.steps)

ASSUME ScenariosAssumption ==
  /\ N \in Nat
  /\ Journeys \in Seq(Range(Journeys)) \ {<< >>} /\ DOMAIN Replies = DOMAIN Journeys
  /\ \A k \in DOMAIN Replies : \A r \in Replies[k] : IsReply(r)
  /\ \A a \in Answers : AreRewrites(a.features) /\ AreRewrites(a.patterns)

(* Every pattern of the list has a definition (pw_steps_bdd.tmpl), which   *)
(* may refuse an empty text where the pattern takes one.                   *)
ASSUME StepDefsAssumption ==
  /\ AreLines(Happy) /\ AreLines(StepDefs)
  /\ \A p \in RegisteredPatterns : \E q \in Elements(StepDefs) :
       q.is = "def" /\ q.words = p.words /\ Len(q.args) = Len(p.args)

VARIABLES
  stage, j,      \* what is done next, and for which journey
  attempt,
  reply,      \* history: the reply the scenarios are from
  got,        \* the scenarios read from it
  composed,   \* the scenarios kept, of all journeys so far
  batch,      \* the files of the suite
  plain       \* history: the batch before it was humanized

scenariosVars == <<stage, j, attempt, reply, got, composed, batch, plain>>

ScenariosInit ==
  /\ stage = "ask" /\ j = 1 /\ attempt = 1 /\ reply = NoArray
  /\ got = << >> /\ composed = << >> /\ batch = << >> /\ plain = << >>

NextJourney ==
  /\ attempt' = 1
  /\ IF j < Len(Journeys) THEN stage' = "ask" /\ j' = j + 1 ELSE stage' = "emit" /\ j' = j

(* proposeOnce.                                                            *)
Propose ==
  /\ stage = "ask"
  /\ \E r \in Replies[j] :
       /\ Parse(r).ok
       /\ reply' = r /\ got' = Parse(r).scenarios
  /\ stage' = "check"
  /\ UNCHANGED <<j, attempt, composed, batch, plain>>

(* The request fails, or nothing can be read of the reply.                 *)
ProposeFails ==
  /\ stage = "ask"
  /\ IF attempt = 1 THEN attempt' = 2 /\ UNCHANGED <<stage, j>> ELSE NextJourney
  /\ UNCHANGED <<reply, got, composed, batch, plain>>

Check ==
  /\ stage = "check"
  /\ composed' = composed \o Cap(ValidateAgainst(Validate(got), Journeys[j]), N)
  /\ reply' = NoArray /\ got' = << >>
  /\ NextJourney
  /\ UNCHANGED <<batch, plain>>

(* Each origin of the probe adds step definitions, at one and the same     *)
(* path; a run on pages only adds none.                                    *)
Feature(name, lines) ==
  File(<<"features", name>>, <<Line("feature", "", <<name>>, << >>, << >>)>> \o lines)
StepFile == File(<<"steps">>, StepDefs)

Emit ==
  /\ stage = "emit"
  /\ \E origins \in 0..2 :
       batch' = <<Feature("happy", Happy),
                  Feature("extra", FlattenSeq([i \in DOMAIN Dedup(composed) |->
                                                 Dedup(composed)[i].steps]))>>
                \o [i \in 1..origins |-> StepFile]
  /\ plain' = batch' /\ stage' = "pair"
  /\ UNCHANGED <<j, attempt, reply, got, composed>>

(* The files of the pair at once.                                          *)
HumanizePair ==
  /\ stage = "pair" /\ GroupBDDPair(batch).pair
  /\ \E answer \in Answers :
       LET p == GroupBDDPair(batch)
           new == HumanizeSuite([i \in p.features |-> batch[i].lines],
                                batch[p.steps].lines, answer) IN
       batch' = [i \in DOMAIN batch |->
                   IF i = p.steps THEN [batch[i] EXCEPT !.lines = new.steps]
                   ELSE IF i \in p.features THEN [batch[i] EXCEPT !.lines = new.features[i]]
                   ELSE batch[i]]
  /\ stage' = "done"
  /\ UNCHANGED <<j, attempt, reply, got, composed, plain>>

(* HumanizeAll: files of no pair, each on its own and in any order.        *)
HumanizeEach ==
  /\ stage = "pair" /\ ~GroupBDDPair(batch).pair
  /\ \E answers \in [DOMAIN batch -> {a.features : a \in Answers}] :
       batch' = [i \in DOMAIN batch |->
                   [batch[i] EXCEPT !.lines = Humanize("gherkin", @, answers[i])]]
  /\ stage' = "done"
  /\ UNCHANGED <<j, attempt, reply, got, composed, plain>>

(* The reply cannot be read, or the request fails: the files stay.         *)
HumanizeFails ==
  /\ stage = "pair" /\ stage' = "done"
  /\ UNCHANGED <<j, attempt, reply, got, composed, batch, plain>>

ScenariosNext ==
  Propose \/ ProposeFails \/ Check \/ Emit \/ HumanizePair \/ HumanizeEach \/ HumanizeFails

ScenariosSpec == ScenariosInit /\ [][ScenariosNext]_scenariosVars

-----------------------------------------------------------------------------
(* A reply that breaks off or is malformed in the middle still gives every *)
(* scenario that did fit (Parse), unless sanitising it breaks a text.      *)
CompleteScenariosKept ==
  stage = "check" =>
    LET ends(i) == \A k \in 1..i : reply.objects[k].state # "open" IN
    \A i \in DOMAIN reply.objects :
      reply.objects[i].state \in {"clean", "dirty"} /\ ends(i) =>
        reply.objects[i].scenario \in Range(got)

(* The last of some steps before step i, or 0.                             *)
LastStep(s, i, words) ==
  LET before == {m \in 1..(i - 1) : s.steps[m].words \in words} IN
  IF before = {} THEN 0 ELSE CHOOSE m \in before : \A k \in before : k <= m

(* The page ValidateAgainst takes the browser to be on: that named last.   *)
LastNamed(journey, s, i) ==
  LET m == LastStep(s, i, NavSteps) IN
  IF m = 0 THEN journey.landing ELSE PageAt(journey, s.steps[m].args[1])

(* Where it really is.  Nothing is known of where a submit leads, if       *)
(* anywhere, and of what the history holds.                                *)
Moves == NavSteps \cup {<<"landing">>, <<"back">>, <<"submit">>, <<"submit", "twice">>}
Elsewhere == [href |-> {}, h1 |-> {}, title |-> {}]
Whereabouts(journey, s, i) ==
  LET m == LastStep(s, i, Moves) IN
  IF m = 0 \/ s.steps[m].words = <<"landing">> THEN journey.landing
  ELSE IF s.steps[m].words \in NavSteps THEN PageAt(journey, s.steps[m].args[1])
  ELSE Elsewhere

Refutes(page, step) == IsTextAssertion(step) /\ ~PageAssertionMatches(page, step)
ProvenWrong(journey, s, i) == Refutes(Whereabouts(journey, s, i), s.steps[i])

(* A move ValidateAgainst does not follow was the last before step i.      *)
Astray(s, i) ==
  LET m == LastStep(s, i, Moves) IN
  m # 0 /\ s.steps[m].words \notin NavSteps /\ (s.steps[m].words = <<"landing">> => m > 1)

Kept(s) == s \in Range(ValidateAgainst(Validate(got), Journeys[j]))

(* No scenario is kept (ValidateAgainst) with a text the page it is on     *)
(* refutes, unless the scenario went astray before that step; and one that *)
(* is dropped has such a text, or went astray and has one the page named   *)
(* last refutes.  Of those that went astray "it only ever drops scenarios  *)
(* it can prove wrong" (comment of ValidateAgainst) is not true.           *)
RefutedAreDropped ==
  stage = "check" =>
    \A s \in Range(Validate(got)) :
      /\ Kept(s) =>
           \A i \in DOMAIN s.steps : ProvenWrong(Journeys[j], s, i) => Astray(s, i)
      /\ ~Kept(s) =>
           \E i \in DOMAIN s.steps :
             /\ Refutes(LastNamed(Journeys[j], s, i), s.steps[i])
             /\ ProvenWrong(Journeys[j], s, i) \/ Astray(s, i)

Runs(step, defs) == \E p \in Range(defs) : p.is = "def" /\ Matches(p, step)
(* Of step-definition files at one path the last is written.               *)
DefsOf(files) ==
  LET defs == {i \in DOMAIN files : IsSteps(files[i])} IN
  IF defs = {} THEN StepDefs ELSE files[CHOOSE i \in defs : \A k \in defs : k <= i].lines

Features(files) == {i \in DOMAIN files : IsFeature(files[i])}
StepsOf(file) == {l \in Range(file.lines) : l.is = "step"}
RunnableFeatures(files) ==
  {i \in Features(files) : \A l \in StepsOf(files[i]) : Runs(l, DefsOf(files))}

(* What the guard of a lone file lets through (Humanize): a value that was *)
(* emptied, and anything once the header of the feature is lost.           *)
Unguarded(l, file) ==
  \/ \E i \in DOMAIN l.args : l.args[i] = {}
  \/ ~LooksLikeFeatureFile(file.lines)

(* Whatever the model answers, of a feature that could run every step      *)
(* humanizing leaves has a definition: in a pair always (the guards of     *)
(* HumanizeSuite), alone unless it is unguarded, where IsGherkinSafe is    *)
(* not "the defense" its comment promises.  Handlers are as before.        *)
StepsStayDefined ==
  stage = "done" =>
    /\ \A i \in RunnableFeatures(plain) : \A l \in StepsOf(batch[i]) :
         Runs(l, DefsOf(batch)) \/ (~GroupBDDPair(plain).pair /\ Unguarded(l, batch[i]))
    /\ HandlerHashes(DefsOf(batch)) = HandlerHashes(DefsOf(plain))
=============================================================================
