------------------------------- MODULE Probe --------------------------------
(***************************************************************************)
(* probe.RunAll: for every origin in turn, crawl it statically or through  *)
(* a cascade of browser engines, and make plan items of the map.  Several  *)
(* goroutines may probe at once; what they share is the environment of the *)
(* process, where the cascade remembers the engine that won.               *)
(*                                                                         *)
(* A crawl is abstracted to what the orchestration looks at: the pages it  *)
(* returns, whether IdentifyJourneys finds a journey among them, and the   *)
(* kinds of its errors.  Crawl models the static one.                      *)
(***************************************************************************)
EXTENDS Naturals, Sequences, FiniteSets

CONSTANTS
  Prober,     \* goroutines that call RunAll
  ModeOf,     \* ModeOf[p]: "never", "auto" or "always"
  EnginesOf,  \* EnginesOf[p]: the cascade, or the one engine asked for
  OriginsOf,  \* OriginsOf[p]: how many origins it is given
  Engine,
  Unset,      \* an empty QUAIL_BROWSERS
  None,       \* no map
  Page, Home,
  Permitted   \* pages robots.txt permits

(* What a crawl returns, and the map of an engine.                         *)
Map == [pages : SUBSET Page, journeys : BOOLEAN,
        errs : SUBSET {"waf", "other", "unavailable"}]
Partial == [map : Map, engine : Engine]

ASSUME CascadeAssumption ==
  /\ ModeOf \in [Prober -> {"never", "auto", "always"}]
  /\ EnginesOf \in [Prober -> Seq(Engine) \ {<< >>}]
  /\ OriginsOf \in [Prober -> Nat]
  /\ Unset \notin Engine
  /\ IsFiniteSet(Page) /\ Home \in Page /\ Permitted \subseteq Page
  /\ None \notin Map \cup Partial

VARIABLES
  pc,        \* what each prober does next
  origin,    \* how many origins it has begun
  static,    \* what the static crawl of the origin returned
  best,      \* the best partial map of the cascade and its engine
  result,    \* the map and errors of crawlOriginWithFallback
  families,  \* kinds of plan items of the origin
  browsers,  \* QUAIL_BROWSERS in the environment of the process
  (* history *)
  tried,     \* what the engines returned for this origin, in order
  user,      \* QUAIL_BROWSERS as the user set it
  winners    \* engines whose map a cascade settled on

probe == <<pc, origin, static, best, result, families, tried>>
vars  == <<probe, browsers, user, winners>>

Crawled(pages, journeys, errs) == [pages |-> pages, journeys |-> journeys, errs |-> errs]

(* A static crawl keeps to what robots.txt permits, redirects aside; one   *)
(* that recorded no page failed on the start URL at least.                 *)
StaticCrawls ==
  {r \in [pages : SUBSET (Permitted \cup {Home}), journeys : BOOLEAN,
          errs : SUBSET {"waf", "other"}] :
     r.pages = {} => ~r.journeys /\ r.errs # {}}

(* runBrowserCrawl: the engine cannot be had, its script fails, or it ran  *)
(* and saw markers of a firewall or none.  robots.txt is not consulted.    *)
BrowserCrawls ==
  {Crawled({}, FALSE, {err}) : err \in {"unavailable", "other"}} \cup
  {r \in [pages : SUBSET Page, journeys : BOOLEAN, errs : SUBSET {"waf"}] :
     r.pages = {} => ~r.journeys}

Init ==
  /\ pc = [p \in Prober |-> "idle"] /\ origin = [p \in Prober |-> 0]
  /\ static = [p \in Prober |-> None] /\ best = [p \in Prober |-> None]
  /\ result = [p \in Prober |-> None] /\ families = [p \in Prober |-> {}]
  /\ user \in Engine \cup {Unset} /\ browsers = user
  /\ tried = [p \in Prober |-> << >>] /\ winners = {}

Goto(p, step) == pc' = [pc EXCEPT ![p] = step]

NextOrigin(p) ==
  /\ pc[p] = "idle" /\ origin[p] < OriginsOf[p]
  /\ origin' = [origin EXCEPT ![p] = @ + 1]
  /\ static' = [static EXCEPT ![p] = None]
  /\ best' = [best EXCEPT ![p] = None]
  /\ tried' = [tried EXCEPT ![p] = << >>]
  /\ result' = [result EXCEPT ![p] = None]
  /\ families' = [families EXCEPT ![p] = {}]
  /\ Goto(p, IF ModeOf[p] = "always" THEN "cascade" ELSE "static")
  /\ UNCHANGED <<browsers, user, winners>>

-----------------------------------------------------------------------------
(* crawlOriginWithFallback.                                                *)

Return(p, map) ==
  /\ Goto(p, "emit")
  /\ result' = [result EXCEPT ![p] = map]

(* When auto mode goes on to the browser.                                  *)
Retries(r) ==
  IF r.pages = {} THEN r.errs = {} \/ "waf" \in r.errs ELSE ~r.journeys

StaticCrawl(p) ==
  /\ pc[p] = "static"
  /\ \E r \in StaticCrawls :
       /\ static' = [static EXCEPT ![p] = r]
       /\ IF ModeOf[p] = "auto" /\ Retries(r)
            THEN Goto(p, "cascade") /\ UNCHANGED result
            ELSE Return(p, r)
  /\ UNCHANGED <<origin, best, families, browsers, tried, user, winners>>

Blocked(r) == "waf" \in r.errs

\* Mutant: the engine is not resolved when a map is kept.
StashAuto(p, r) == [map |-> r, engine |-> Unset]

Stash(p, r) == [map |-> r, engine |-> EnginesOf[p][Len(tried[p]) + 1]]

\* Mutant: the last partial map is kept, not the largest.
KeptLast(p, r) == IF r.pages = {} THEN best[p] ELSE Stash(p, r)

(* The partial map to fall back on: the first of those with most pages.    *)
Kept(p, r) ==
  IF r.pages = {} THEN best[p]
  ELSE IF best[p] = None THEN Stash(p, r)
  ELSE IF Cardinality(r.pages) > Cardinality(best[p].map.pages) THEN Stash(p, r)
  ELSE best[p]

Settle(p, won) ==
  /\ best' = [best EXCEPT ![p] = won]
  /\ IF won = None THEN Goto(p, "exhausted") /\ UNCHANGED winners
     ELSE Goto(p, "remember") /\ winners' = winners \cup {won.engine}

RunEngine(p) ==
  /\ pc[p] = "cascade"
  /\ \E r \in BrowserCrawls :
       /\ tried' = [tried EXCEPT ![p] = Append(@, r)]
       /\ \/ r.pages # {} /\ ~Blocked(r) /\ Settle(p, Stash(p, r))
          \/ /\ r.pages = {} \/ Blocked(r)
             /\ IF Len(tried[p]) + 1 = Len(EnginesOf[p])
                  THEN Settle(p, Kept(p, r))
                  ELSE /\ best' = [best EXCEPT ![p] = Kept(p, r)]
                       /\ UNCHANGED <<pc, winners>>
  /\ UNCHANGED <<origin, static, result, families, browsers, user>>

TriedErrs(p) == UNION {tried[p][i].errs : i \in DOMAIN tried[p]}

\* Mutant: the errors of the static crawl are dropped with its map.
WithErrsOfBrowser(p, map) == [map EXCEPT !.errs = TriedErrs(p)]

(* In auto mode the errors of both crawls are returned.                    *)
WithErrs(p, map) ==
  [map EXCEPT !.errs = TriedErrs(p) \cup (IF static[p] = None THEN {} ELSE static[p].errs)]

(* rememberWinningEngine, first half.                                      *)
Getenv(p) ==
  /\ pc[p] = "remember"
  /\ IF browsers = Unset THEN Goto(p, "setenv") /\ UNCHANGED result
     ELSE Return(p, WithErrs(p, best[p].map))
  /\ UNCHANGED <<origin, static, best, families, browsers, tried, user, winners>>

\* Mutant: the engine tried last is remembered.
SetenvLast(p) ==
  /\ pc[p] = "setenv"
  /\ browsers' = EnginesOf[p][Len(tried[p])]
  /\ Return(p, WithErrs(p, best[p].map))
  /\ UNCHANGED <<origin, static, best, families, tried, user, winners>>

(* Second half; another prober may have set it meanwhile.                  *)
Setenv(p) ==
  /\ pc[p] = "setenv"
  /\ browsers' = best[p].engine
  /\ Return(p, WithErrs(p, best[p].map))
  /\ UNCHANGED <<origin, static, best, families, tried, user, winners>>

AllUnavailable(p) == \A i \in DOMAIN tried[p] : "unavailable" \in tried[p][i].errs

(* No engine saw a page.  Auto mode returns what the static crawl gave it; *)
(* always mode falls back to a static crawl if any engine could be run.    *)
Exhausted(p) ==
  /\ pc[p] = "exhausted"
  /\ \/ ModeOf[p] = "auto" /\ Return(p, WithErrs(p, static[p]))
     \/ /\ ModeOf[p] # "auto" /\ AllUnavailable(p)
        /\ Return(p, Crawled({}, FALSE, TriedErrs(p)))
     \/ /\ ModeOf[p] # "auto" /\ ~AllUnavailable(p)
        /\ Goto(p, "static") /\ UNCHANGED result
  /\ UNCHANGED <<origin, static, best, families, browsers, tried, user, winners>>

-----------------------------------------------------------------------------
(* probeOneOrigin: what is emitted for the map.                            *)

(* synthesiseFallbackJourneys: landing and the next page of the crawl.     *)
Synthesised(map) == Cardinality(map.pages) > 1

Families(map) ==
  {"contract"}
    \cup (IF map.pages # {} THEN {"quality"} ELSE {})
    \cup (IF map.journeys \/ Synthesised(map) THEN {"companion", "feature", "fuzz"} ELSE {})

Emit(p) ==
  /\ pc[p] = "emit"
  /\ families' = [families EXCEPT ![p] = Families(result[p])]
  /\ Goto(p, "idle")
  /\ UNCHANGED <<origin, static, best, result, browsers, tried, user, winners>>

Step(p) ==
  \/ NextOrigin(p) \/ StaticCrawl(p) \/ RunEngine(p) \/ Getenv(p) \/ Setenv(p)
  \/ Exhausted(p) \/ Emit(p)

Next == \E p \in Prober : Step(p)

Spec == Init /\ [][Next]_vars

-----------------------------------------------------------------------------
(* Types of every variable.                                                *)
TypeOK ==
  /\ pc \in [Prober -> {"idle", "static", "cascade", "remember", "setenv",
                        "exhausted", "emit"}]
  /\ origin \in [Prober -> Nat]
  /\ static \in [Prober -> Map \cup {None}]
  /\ best \in [Prober -> Partial \cup {None}]
  /\ result \in [Prober -> Map \cup {None}]
  /\ families \in [Prober -> SUBSET {"contract", "quality", "companion", "feature", "fuzz"}]
  /\ browsers \in Engine \cup {Unset} /\ user \in Engine \cup {Unset}
  /\ tried \in [Prober -> Seq(Map)]
  /\ winners \subseteq Engine

(* probe.go:853-914 and 766-833: no partial map of a cascade is lost to a  *)
(* later, thinner one.  The map of an origin is that of the first engine   *)
(* that got through, else the first largest partial of a cascade run to    *)
(* its end; and only when no engine saw a page is it the static one.       *)
BestAttemptWins ==
  \A p \in Prober : result[p] # None =>
    LET of(i)  == tried[p][i]
        seen   == {i \in DOMAIN tried[p] : of(i).pages # {}}
        clear  == {i \in seen : ~Blocked(of(i))}
        size(i) == Cardinality(of(i).pages)
        won    == {i \in seen : \A j \in seen :
                     size(i) > size(j) \/ (size(i) = size(j) /\ i <= j)}
    IN IF clear # {} THEN /\ clear = {Len(tried[p])}
                          /\ result[p].pages = of(Len(tried[p])).pages
       ELSE IF seen # {} THEN /\ Len(tried[p]) = Len(EnginesOf[p])
                              /\ \A i \in won : result[p].pages = of(i).pages
       ELSE result[p].pages = IF static[p] = None THEN {} ELSE static[p].pages

(* probe.go:773-791 and 820-833: an origin of which nothing was seen comes *)
(* back with an error, whichever crawls were tried, skipped or fell back;  *)
(* and the static crawl is withheld only from a user who asked for a       *)
(* browser no engine could provide.                                        *)
NoSilentFailure ==
  \A p \in Prober : result[p] # None =>
    /\ result[p].pages = {} => result[p].errs # {}
    /\ result[p].pages = {} /\ static[p] = None =>
         ModeOf[p] = "always" /\ AllUnavailable(p)

(* probe.go:916-919: QUAIL_BROWSERS, which the generated config takes its  *)
(* default from, is the user's or else an engine a cascade settled on,     *)
(* whichever probers race to set it.                                       *)
DefaultIsAWinner ==
  browsers = user \/ (user = Unset /\ browsers \in winners)
=============================================================================
