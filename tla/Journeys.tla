------------------------------ MODULE Journeys ------------------------------
(***************************************************************************)
(* From the crawled map of a site to the plan items of one probe:          *)
(* mindmap.IdentifyJourneys, the prompt filter, and probe's                *)
(* promoteJourneysToFeatures with itemFromJourney for each journey.        *)
(*                                                                         *)
(* A page is what the finders look at: its tags, whether it is a hub of    *)
(* case studies, whether it has a title and a heading, the pages its links *)
(* and its ranked navigation lead to.  The anchors of a page are a Go      *)
(* slice that every symbol made from the page shares, so they are kept as  *)
(* the cells of one array, and a symbol holds only how many of them it     *)
(* sees.                                                                   *)
(***************************************************************************)
EXTENDS Naturals, Sequences, SequencesExt, FiniteSets, Filtering

CONSTANTS
  KnownUrl,
  Sites,    \* the maps a crawl may return: [order, page]
  Caps,     \* journeys per kind: the coverage modes and --max-journeys
  Prompts   \* what a prompt names: [kinds, pages]

Kinds == <<"convert", "exercise", "contact", "authenticate", "evaluate",
           "research", "browse", "discover", "explore", "read">>

Tags == {"landing", "form", "list", "detail", "pricing", "contact", "auth",
         "service", "casestudy", "interactive"}

Anchor == {"submit", "field", "nav"}

Page == [tags : SUBSET Tags, hub : BOOLEAN, titled : BOOLEAN,
         links : Seq(KnownUrl), nav : Seq(KnownUrl), anchors : Seq(Anchor)]

ASSUME SitesAssumption ==
  /\ \A m \in Sites : /\ m.order \in Seq(KnownUrl) \ {<< >>}
                      /\ m.page \in [ToSet(m.order) -> Page]
                      /\ \A i, j \in DOMAIN m.order :
                           m.order[i] = m.order[j] => i = j
  /\ Caps \subseteq Nat \ {0}
  /\ Prompts \subseteq [kinds : SUBSET ToSet(Kinds), pages : SUBSET KnownUrl]

-----------------------------------------------------------------------------
(* The finders.  Each takes the map and the cap of journeys per kind.      *)

PagesWith(m, t) == {u \in DOMAIN m.page : t \in m.page[u].tags}

UpTo(max, s) == SubSeq(s, 1, IF Len(s) < max THEN Len(s) ELSE max)

LandingPage(m) ==
  LET tagged == Only(m.order, PagesWith(m, "landing"))
  IN IF tagged # << >> THEN Head(tagged) ELSE Head(m.order)

FindFirst(m, from, targets) == UpTo(1, Only(m.page[from].links, targets \ {from}))

(* Landing, then the page unless it is the landing.                        *)
Via(m, u) == IF u = LandingPage(m) THEN <<u>> ELSE <<LandingPage(m), u>>

Journey(kind, steps) == [kind |-> kind, steps |-> steps]

(* One journey to each of the targets, in the order of the crawl.          *)
Find(m, kind, max, targets) ==
  LET ends == Only(m.order, targets)
  IN UpTo(max, [i \in DOMAIN ends |-> Journey(kind, Via(m, ends[i]))])

FindConvert(m, max) ==
  Find(m, "convert", max, PagesWith(m, "form") \ PagesWith(m, "contact"))

FindExercise(m, max) ==
  LET pages == Only(m.order, PagesWith(m, "interactive"))
  IN UpTo(max, [i \in DOMAIN pages |-> Journey("exercise", <<pages[i]>>)])

FindContact(m, max) == Find(m, "contact", max, PagesWith(m, "contact"))

FindAuth(m, max) == Find(m, "authenticate", max, PagesWith(m, "auth"))

FindEvaluate(m, max) == Find(m, "evaluate", max, PagesWith(m, "pricing"))

(* Through the hubs of case studies, then the case studies no hub led to.  *)
HubDetail(m, hub) == FindFirst(m, hub, PagesWith(m, "casestudy"))

HubWalk(m, hub) == Via(m, hub) \o HubDetail(m, hub)

ResearchHubs(m, max) ==
  UpTo(max, Only(m.order, {u \in PagesWith(m, "list") :
                             m.page[u].hub /\ Len(HubWalk(m, u)) > 1}))

UnshownCaseStudies(m, hubs, max) ==
  LET shown == UNION {ToSet(HubDetail(m, hubs[i])) : i \in DOMAIN hubs}
  IN Find(m, "research", max, PagesWith(m, "casestudy") \ (shown \cup {LandingPage(m)}))

\* Mutant: each of the two searches has the cap to itself.
FindResearchTwice(m, max) ==
  LET hubs == ResearchHubs(m, max)
  IN [i \in DOMAIN hubs |-> Journey("research", HubWalk(m, hubs[i]))]
       \o UnshownCaseStudies(m, hubs, max)

FindResearch(m, max) ==
  LET hubs == ResearchHubs(m, max)
  IN UpTo(max, [i \in DOMAIN hubs |-> Journey("research", HubWalk(m, hubs[i]))]
                 \o UnshownCaseStudies(m, hubs, max))

FindBrowse(m, max) ==
  LET lists == Only(m.order, {u \in PagesWith(m, "list") \ {LandingPage(m)} : ~m.page[u].hub})
      walk(u) == Via(m, u) \o FindFirst(m, u, PagesWith(m, "detail"))
  IN UpTo(max, [i \in DOMAIN lists |-> Journey("browse", walk(lists[i]))])

FindDiscover(m, max) ==
  Find(m, "discover", max, PagesWith(m, "service") \ {LandingPage(m)})

(* Pages that explore and read leave to more specific kinds.               *)
Owned(m) ==
  UNION {PagesWith(m, t) : t \in {"form", "list", "pricing", "contact", "auth", "service",
                                  "casestudy"}}

(* A navigation link may lead back to the landing page.                    *)
FindExplore(m, max) ==
  LET targets == Only(m.page[LandingPage(m)].nav, DOMAIN m.page \ Owned(m))
  IN UpTo(max, [i \in DOMAIN targets |->
                  Journey("explore", <<LandingPage(m), targets[i]>>)])

FindRead(m, max) ==
  Find(m, "read", max,
       {u \in DOMAIN m.page \ (Owned(m) \cup {LandingPage(m)}) :
          u \in PagesWith(m, "detail") \/ m.page[u].titled})

Candidates(m, max) ==
  FlattenSeq(<<FindConvert(m, max), FindExercise(m, max), FindContact(m, max),
               FindAuth(m, max), FindEvaluate(m, max), FindResearch(m, max),
               FindBrowse(m, max), FindDiscover(m, max), FindExplore(m, max),
               FindRead(m, max)>>)

-----------------------------------------------------------------------------
(* dedupJourneys.                                                          *)

Rank(j) == CHOOSE i \in DOMAIN Kinds : Kinds[i] = j.kind

Terminal(j) == Last(j.steps)

\* Mutant: exercise journeys compete with the others.
SlotByTerminal(j) == <<FALSE, Terminal(j)>>

(* Exercise journeys are deduplicated among themselves.                    *)
Slot(j) == <<j.kind = "exercise", Terminal(j)>>

(* Of a slot the best journey stays, of equals the first; the final stable *)
(* sort puts what stays into the order of the kinds.                       *)
DedupJourneys(js) ==
  LET beaten(i) == \E k \in DOMAIN js :
                     /\ Slot(js[k]) = Slot(js[i])
                     /\ \/ Rank(js[k]) < Rank(js[i])
                        \/ Rank(js[k]) = Rank(js[i]) /\ k < i
      best(kind) == Only([i \in DOMAIN js |-> i],
                         {i \in DOMAIN js : js[i].kind = kind /\ ~beaten(i)})
      kept == FlattenSeq([r \in DOMAIN Kinds |-> best(Kinds[r])])
  IN [n \in DOMAIN kept |-> js[kept[n]]]

IdentifyJourneys(m, max) == DedupJourneys(Candidates(m, max))

-----------------------------------------------------------------------------
VARIABLES
  site, cap,  \* the map and the cap of journeys per kind
  stage,      \* "identify", "filter", "items"
  journeys,   \* journeys of the probe, in order
  cells,      \* cells[u]: the array under Page.Anchors
  items       \* plan items built so far

journeysVars == <<site, cap, stage, journeys, cells, items>>

JourneysInit ==
  /\ site \in Sites /\ cap \in Caps
  /\ stage = "identify"
  /\ journeys = << >> /\ items = << >>
  /\ cells = [u \in DOMAIN site.page |-> site.page[u].anchors]

Identify ==
  /\ stage = "identify"
  /\ journeys' = IdentifyJourneys(site, cap)
  /\ stage' = "filter"
  /\ UNCHANGED <<site, cap, cells, items>>

(* Filter.Apply: the journey's kind is named, or a page it goes through.   *)
Names(p, j) == j.kind \in p.kinds \/ ToSet(j.steps) \cap p.pages # {}

(* A prompt that drops everything leaves all journeys, like the empty one. *)
Narrow ==
  /\ stage = "filter"
  /\ \E p \in Prompts :
       LET named == Only(journeys, {j \in ToSet(journeys) : Names(p, j)})
       IN journeys' = IF named = << >> THEN journeys ELSE named
  /\ stage' = "items"
  /\ UNCHANGED <<site, cap, cells, items>>

ExercisesForm(j) == j.kind \in {"convert", "contact", "authenticate"}

(* withoutForm compacts the anchors in place: s.Anchors[:0] is the array   *)
(* of the page.  What it returns sees only the cells it has written.       *)
Fields(array) == Only(array, Anchor \ {"submit"})

Compact(array) ==
  Fields(array) \o SubSeq(array, Len(Fields(array)) + 1, Len(array))

\* Mutant: the compacted slice keeps its old length.
LengthKept(u, stripped) == Len(cells[u])

Length(u, stripped) == IF stripped THEN Len(Fields(cells[u])) ELSE Len(cells[u])

Symbol(u, stripped) == [page |-> u, len |-> Length(u, stripped)]

Item(j) ==
  [kind |-> j.kind,
   symbols |-> [i \in DOMAIN j.steps |->
                  Symbol(j.steps[i], i = 1 /\ ~ExercisesForm(j))]]

BuildItem ==
  /\ stage = "items"
  /\ Len(items) < Len(journeys)
  /\ LET j == journeys[Len(items) + 1] IN
       /\ items' = Append(items, Item(j))
       /\ cells' = IF ExercisesForm(j) THEN cells
                   ELSE [cells EXCEPT ![Head(j.steps)] = Compact(@)]
  /\ UNCHANGED <<site, cap, stage, journeys>>

JourneysNext == Identify \/ Narrow \/ BuildItem

JourneysSpec == JourneysInit /\ [][JourneysNext]_journeysVars

-----------------------------------------------------------------------------
(* The anchors the renderer sees through a symbol.                         *)
AnchorsOf(s) == SubSeq(cells[s.page], 1, s.len)

(* journey.go:89-90 "up to maxPerKind journeys per kind", although two     *)
(* searches of different shape feed the research journeys.                 *)
CapPerKind ==
  \A k \in ToSet(Kinds) :
    Cardinality({i \in DOMAIN journeys : journeys[i].kind = k}) <= cap

(* journey.go:90-92 "when two kinds want the same end page the higher-     *)
(* priority kind keeps it": no two journeys end at one page, each page a   *)
(* candidate ends at keeps its best one, and they come best kind first.    *)
BestKindKeepsPage ==
  stage = "filter" =>
    /\ \A i, k \in DOMAIN journeys :
         /\ i # k /\ Terminal(journeys[i]) = Terminal(journeys[k]) =>
              "exercise" \in {journeys[i].kind, journeys[k].kind}
         /\ i < k => Rank(journeys[i]) <= Rank(journeys[k])
    /\ \A c \in ToSet(Candidates(site, cap)) : \E j \in ToSet(journeys) :
         /\ Terminal(j) = Terminal(c) /\ Rank(j) <= Rank(c)
         /\ j.kind = "exercise" <=> c.kind = "exercise"

(* probe.go:1891-1892: "the landing step in non-form-goal journeys should  *)
(* NOT inherit the homepage's form".  At no later time does a built item   *)
(* of such a journey show a submit button on its first page, although all  *)
(* items share the page's anchors.                                         *)
NavigationNeverSubmits ==
  \A i \in DOMAIN items : ~ExercisesForm(items[i]) =>
    "submit" \notin ToSet(AnchorsOf(Head(items[i].symbols)))

(* probe.go:1895-1896 "Form-goal kinds (convert, contact, auth) keep the   *)
(* form intact because exercising it IS their purpose."                    *)
FormGoalsKeepForm ==
  \A i \in DOMAIN items : ExercisesForm(items[i]) =>
    \A n \in DOMAIN items[i].symbols :
      LET s == items[i].symbols[n] IN AnchorsOf(s) = site.page[s.page].anchors
=============================================================================
