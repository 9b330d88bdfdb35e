---------------------------- MODULE ProbeProofs -----------------------------
(***************************************************************************)
(* Proofs about Probe for any number of probers, origins and pages, and    *)
(* any cascades, and about Runner, which its browsers are started from.    *)
(***************************************************************************)
EXTENDS Probe, Runner, FiniteSetTheorems, TLAPS

Crawling == {"static", "cascade", "remember", "setenv", "exhausted"}

(* What a prober relies on at each step.                                   *)
CascadeInv(p) ==
  /\ pc[p] = "static" /\ ModeOf[p] = "auto" => tried[p] = << >> /\ best[p] = None
  /\ pc[p] = "cascade" => Len(tried[p]) < Len(EnginesOf[p])
  /\ pc[p] = "cascade" => best[p] = None \/ best[p].map.pages # {}
  /\ pc[p] \in {"remember", "setenv"} =>
       best[p] # None /\ best[p].engine \in winners /\ best[p].map.pages # {}
  /\ pc[p] = "exhausted" => tried[p] # << >>

ModeInv(p) ==
  /\ pc[p] \in Crawling \ {"static"} => ModeOf[p] # "never"
  /\ pc[p] \in Crawling \ {"static"} /\ ModeOf[p] = "auto" => static[p] \in StaticCrawls

ResultInv(p) ==
  /\ pc[p] \in Crawling => result[p] = None
  /\ result[p] # None =>
       /\ result[p].pages = {} => result[p].errs # {}
       /\ result[p].pages = {} /\ static[p] = None =>
            ModeOf[p] = "always" /\ AllUnavailable(p)

(* QUAIL_BROWSERS is set only where the user has not.                      *)
EnvInv(p) == pc[p] = "setenv" => user = Unset

IInv ==
  /\ TypeOK
  /\ \A p \in Prober : CascadeInv(p) /\ ModeInv(p) /\ ResultInv(p) /\ EnvInv(p)
  /\ DefaultIsAWinner

-----------------------------------------------------------------------------
LEMMA CrawlTypes ==
  /\ StaticCrawls \subseteq Map /\ BrowserCrawls \subseteq Map
  /\ \A r \in StaticCrawls : r # None /\ (r.pages = {} => r.errs # {})
<1>1. StaticCrawls \subseteq Map
  BY CascadeAssumption DEF StaticCrawls, Map
<1>2. ASSUME NEW r \in BrowserCrawls PROVE r \in Map
  <2>1. CASE \E err \in {"unavailable", "other"} : r = Crawled({}, FALSE, {err})
    BY <2>1 DEF Crawled, Map
  <2>2. CASE r \in [pages : SUBSET Page, journeys : BOOLEAN, errs : SUBSET {"waf"}]
    BY <2>2 DEF Map
  <2> QED
    BY <2>1, <2>2 DEF BrowserCrawls
<1>3. \A r \in StaticCrawls : r # None /\ (r.pages = {} => r.errs # {})
  BY <1>1, CascadeAssumption DEF StaticCrawls
<1> QED
  BY <1>1, <1>2, <1>3

(* The engine a prober tries next is one of its cascade.                   *)
LEMMA NextEngine ==
  ASSUME NEW p \in Prober, TypeOK, Len(tried[p]) < Len(EnginesOf[p])
  PROVE  EnginesOf[p][Len(tried[p]) + 1] \in Engine
<1>1. EnginesOf[p] \in Seq(Engine) /\ tried[p] \in Seq(Map)
  BY CascadeAssumption DEF TypeOK
<1> QED
  BY <1>1

LEMMA TriedErrsType ==
  ASSUME NEW p \in Prober, TypeOK
  PROVE  TriedErrs(p) \subseteq {"waf", "other", "unavailable"}
<1>1. tried[p] \in Seq(Map)
  BY DEF TypeOK
<1>2. ASSUME NEW i \in DOMAIN tried[p]
      PROVE  tried[p][i].errs \subseteq {"waf", "other", "unavailable"}
  <2>1. tried[p][i] \in Map
    BY <1>1
  <2> QED
    BY <2>1 DEF Map
<1> QED
  BY <1>2 DEF TriedErrs

(* Adding the errors changes nothing else of a map.                        *)
LEMMA WithErrsType ==
  ASSUME NEW p \in Prober, TypeOK, NEW m \in Map
  PROVE  /\ WithErrs(p, m) \in Map /\ WithErrs(p, m) # None
         /\ WithErrs(p, m).pages = m.pages
         /\ static[p] # None => static[p].errs \subseteq WithErrs(p, m).errs
<1> DEFINE errs == TriedErrs(p) \cup (IF static[p] = None THEN {} ELSE static[p].errs)
<1>1. errs \subseteq {"waf", "other", "unavailable"}
  BY TriedErrsType DEF TypeOK, Map
<1>2. WithErrs(p, m) = [m EXCEPT !.errs = errs]
  BY DEF WithErrs
<1>3. static[p] # None => static[p].errs \subseteq errs
  OBVIOUS
<1> HIDE DEF errs
<1>4. /\ WithErrs(p, m) \in Map /\ WithErrs(p, m).pages = m.pages
      /\ WithErrs(p, m).errs = errs
  BY <1>1, <1>2 DEF Map
<1> QED
  BY <1>3, <1>4, CascadeAssumption

LEMMA InitInv == Init => IInv
<1> SUFFICES ASSUME Init PROVE IInv
  OBVIOUS
<1>1. TypeOK
  BY DEF Init, TypeOK
<1>2. DefaultIsAWinner
  BY DEF Init, DefaultIsAWinner
<1>3. ASSUME NEW p \in Prober
      PROVE  CascadeInv(p) /\ ModeInv(p) /\ ResultInv(p) /\ EnvInv(p)
  BY DEF Init, CascadeInv, ModeInv, ResultInv, EnvInv, Crawling
<1> QED
  BY <1>1, <1>2, <1>3 DEF IInv

(* What a step leaves of another prober's state.                           *)
LEMMA Elsewhere ==
  ASSUME NEW p \in Prober, NEW q \in Prober, p # q, TypeOK, Step(q)
  PROVE  /\ pc'[p] = pc[p] /\ tried'[p] = tried[p] /\ best'[p] = best[p]
         /\ static'[p] = static[p] /\ result'[p] = result[p]
         /\ user' = user /\ winners \subseteq winners'
<1> USE DEF TypeOK, Goto, Return, Settle
<1>1. CASE NextOrigin(q) \/ StaticCrawl(q)
  BY <1>1 DEF NextOrigin, StaticCrawl
<1>2. CASE RunEngine(q)
  BY <1>2 DEF RunEngine
<1>3. CASE Getenv(q) \/ Setenv(q)
  BY <1>3 DEF Getenv, Setenv
<1>4. CASE Exhausted(q) \/ Emit(q)
  BY <1>4 DEF Exhausted, Emit
<1> QED
  BY <1>1, <1>2, <1>3, <1>4 DEF Step

(* What another prober's step leaves of the facts about p.                 *)
LEMMA OtherStep ==
  ASSUME NEW p \in Prober, NEW q \in Prober, p # q, IInv, Step(q)
  PROVE  CascadeInv(p)' /\ ModeInv(p)' /\ ResultInv(p)' /\ EnvInv(p)'
<1>1. /\ pc'[p] = pc[p] /\ tried'[p] = tried[p] /\ best'[p] = best[p]
      /\ static'[p] = static[p] /\ result'[p] = result[p]
      /\ user' = user /\ winners \subseteq winners'
  BY Elsewhere DEF IInv
<1>2. CascadeInv(p) /\ ModeInv(p) /\ ResultInv(p) /\ EnvInv(p)
  BY DEF IInv
<1> QED
  BY <1>1, <1>2 DEF CascadeInv, ModeInv, ResultInv, EnvInv, AllUnavailable

LEMMA NextOriginStep ==
  ASSUME NEW p \in Prober, IInv, NextOrigin(p)
  PROVE  TypeOK' /\ CascadeInv(p)' /\ ModeInv(p)' /\ ResultInv(p)' /\ EnvInv(p)'
<1> USE DEF NextOrigin, Goto, IInv
<1>1. TypeOK'
  BY DEF TypeOK
<1>2. CascadeInv(p)'
  <2>1. Len(EnginesOf[p]) > 0
    BY CascadeAssumption
  <2> QED
    BY <2>1 DEF TypeOK, CascadeInv
<1>3. ModeInv(p)' /\ ResultInv(p)' /\ EnvInv(p)'
  BY DEF TypeOK, ModeInv, ResultInv, EnvInv, Crawling
<1> QED
  BY <1>1, <1>2, <1>3

LEMMA StaticCrawlStep ==
  ASSUME NEW p \in Prober, IInv, StaticCrawl(p)
  PROVE  TypeOK' /\ CascadeInv(p)' /\ ModeInv(p)' /\ ResultInv(p)' /\ EnvInv(p)'
<1> USE DEF StaticCrawl, Goto, Return
<1>1. PICK r \in StaticCrawls :
        /\ static' = [static EXCEPT ![p] = r]
        /\ \/ ModeOf[p] = "auto" /\ Goto(p, "cascade") /\ UNCHANGED result
           \/ Return(p, r)
  OBVIOUS
<1>2. TypeOK'
  <2>1. r \in Map
    BY CrawlTypes
  <2>2. pc' \in [Prober -> Crawling \cup {"idle", "emit"}]
    <3>1. pc' = [pc EXCEPT ![p] = "cascade"] \/ pc' = [pc EXCEPT ![p] = "emit"]
      BY <1>1
    <3>2. pc \in [Prober -> Crawling \cup {"idle", "emit"}]
      BY DEF TypeOK, IInv, Crawling
    <3>3. CASE pc' = [pc EXCEPT ![p] = "cascade"]
      BY <3>2, <3>3 DEF Crawling
    <3>4. CASE pc' = [pc EXCEPT ![p] = "emit"]
      BY <3>2, <3>4
    <3> QED
      BY <3>1, <3>3, <3>4
  <2>3. static' \in [Prober -> Map \cup {None}]
    BY <1>1, <2>1 DEF TypeOK, IInv
  <2>4. result' \in [Prober -> Map \cup {None}]
    <3>1. result' = result \/ result' = [result EXCEPT ![p] = r]
      BY <1>1
    <3>2. result \in [Prober -> Map \cup {None}]
      BY DEF TypeOK, IInv
    <3> QED
      BY <3>1, <3>2, <2>1
  <2> QED
    BY <2>2, <2>3, <2>4 DEF TypeOK, IInv, Crawling
<1>3. r \in Map /\ r # None /\ (r.pages = {} => r.errs # {})
  BY CrawlTypes
<1>4. CascadeInv(p)'
  <2>1. Len(EnginesOf[p]) > 0
    BY CascadeAssumption
  <2>2. UNCHANGED <<tried, best, winners>>
    OBVIOUS
  <2> QED
    BY <1>1, <2>1, <2>2 DEF TypeOK, IInv, CascadeInv
<1>5. ModeInv(p)' /\ EnvInv(p)'
  BY <1>1 DEF TypeOK, IInv, ModeInv, EnvInv, Crawling
<1>6. ResultInv(p)'
  BY <1>1, <1>3 DEF TypeOK, IInv, ResultInv, Crawling
<1> QED
  BY <1>2, <1>4, <1>5, <1>6

LEMMA RunEngineStep ==
  ASSUME NEW p \in Prober, IInv, RunEngine(p)
  PROVE  TypeOK' /\ CascadeInv(p)' /\ ModeInv(p)' /\ ResultInv(p)' /\ EnvInv(p)'
<1>1. PICK r \in BrowserCrawls :
        /\ tried' = [tried EXCEPT ![p] = Append(@, r)]
        /\ \/ r.pages # {} /\ Settle(p, Stash(p, r))
           \/ Len(tried[p]) + 1 = Len(EnginesOf[p]) /\ Settle(p, Kept(p, r))
           \/ /\ Len(tried[p]) + 1 # Len(EnginesOf[p])
              /\ best' = [best EXCEPT ![p] = Kept(p, r)]
              /\ UNCHANGED <<pc, winners>>
  BY DEF RunEngine
<1>2. /\ pc[p] = "cascade" /\ Len(tried[p]) < Len(EnginesOf[p])
      /\ UNCHANGED <<origin, static, result, families, browsers, user>>
      /\ best[p] = None \/ best[p].map.pages # {}
      /\ tried[p] \in Seq(Map) /\ r \in Map
  BY CrawlTypes DEF RunEngine, IInv, CascadeInv, TypeOK
<1>3. Stash(p, r) \in Partial /\ Stash(p, r) # None /\ Stash(p, r).map = r
  BY <1>2, NextEngine, CascadeAssumption DEF Stash, IInv, Partial
<1>4. /\ Kept(p, r) \in Partial \cup {None}
      /\ Kept(p, r) = None \/ Kept(p, r).map.pages # {}
  BY <1>2, <1>3 DEF Kept, IInv, TypeOK
<1>5. /\ tried'[p] \in Seq(Map) /\ Len(tried'[p]) = Len(tried[p]) + 1
      /\ tried'[p] # << >>
  <2>1. tried'[p] = Append(tried[p], r)
    BY <1>1 DEF TypeOK, IInv
  <2> QED
    BY <2>1, <1>2
<1>6. ASSUME NEW won \in Partial \cup {None}, Settle(p, won),
             won = None \/ won.map.pages # {}
      PROVE  TypeOK' /\ CascadeInv(p)' /\ ModeInv(p)' /\ ResultInv(p)' /\ EnvInv(p)'
  <2>1. /\ best' = [best EXCEPT ![p] = won]
        /\ \/ won = None /\ pc' = [pc EXCEPT ![p] = "exhausted"] /\ winners' = winners
           \/ /\ won # None /\ pc' = [pc EXCEPT ![p] = "remember"]
              /\ winners' = winners \cup {won.engine}
    BY <1>6 DEF Settle, Goto
  <2>2. TypeOK'
    BY <2>1, <1>1, <1>2, <1>5 DEF TypeOK, IInv, Partial
  <2>3. CascadeInv(p)'
    BY <2>1, <1>5, <1>6 DEF TypeOK, IInv, CascadeInv
  <2>4. ModeInv(p)' /\ ResultInv(p)' /\ EnvInv(p)'
    BY <2>1, <1>2 DEF TypeOK, IInv, ModeInv, ResultInv, EnvInv, Crawling
  <2> QED
    BY <2>2, <2>3, <2>4
<1>7. CASE r.pages # {} /\ Settle(p, Stash(p, r))
  BY <1>7, <1>3, <1>6
<1>8. CASE Settle(p, Kept(p, r))
  BY <1>8, <1>4, <1>6
<1>9. CASE /\ Len(tried[p]) + 1 # Len(EnginesOf[p])
           /\ best' = [best EXCEPT ![p] = Kept(p, r)]
           /\ UNCHANGED <<pc, winners>>
  <2>1. TypeOK'
    BY <1>9, <1>1, <1>2, <1>4, <1>5 DEF TypeOK, IInv
  <2>2. CascadeInv(p)'
    <3>1. Len(tried'[p]) < Len(EnginesOf[p])
      <4>1. Len(tried[p]) \in Nat /\ Len(EnginesOf[p]) \in Nat
        BY <1>2, CascadeAssumption
      <4> QED
        BY <4>1, <1>9, <1>2, <1>5
    <3> QED
      BY <3>1, <1>9, <1>2, <1>4 DEF TypeOK, IInv, CascadeInv
  <2>3. ModeInv(p)' /\ ResultInv(p)' /\ EnvInv(p)'
    BY <1>9, <1>2 DEF TypeOK, IInv, ModeInv, ResultInv, EnvInv, Crawling
  <2> QED
    BY <2>1, <2>2, <2>3
<1> QED
  BY <1>1, <1>7, <1>8, <1>9

LEMMA RememberStep ==
  ASSUME NEW p \in Prober, IInv, Getenv(p) \/ Setenv(p)
  PROVE  TypeOK' /\ CascadeInv(p)' /\ ModeInv(p)' /\ ResultInv(p)' /\ EnvInv(p)'
<1> DEFINE won == WithErrs(p, best[p].map)
<1>1. /\ pc[p] \in {"remember", "setenv"}
      /\ best[p] \in Partial /\ best[p].engine \in winners /\ best[p].map.pages # {}
  BY DEF Getenv, Setenv, IInv, CascadeInv, TypeOK
<1>2. best[p].map \in Map
  BY <1>1 DEF Partial
<1>3. won \in Map /\ won.pages = best[p].map.pages /\ won # None
  BY <1>2, WithErrsType DEF IInv
<1>4. /\ UNCHANGED <<origin, static, best, families, tried, user, winners>>
      /\ browsers' \in {browsers, best[p].engine}
      /\ \/ pc' = [pc EXCEPT ![p] = "setenv"] /\ result' = result /\ browsers = Unset
         \/ pc' = [pc EXCEPT ![p] = "emit"] /\ result' = [result EXCEPT ![p] = won]
  BY DEF Getenv, Setenv, Goto, Return
<1> HIDE DEF won
<1>5. TypeOK'
  <2>1. best[p].engine \in Engine
    BY <1>1 DEF Partial
  <2> QED
    <3>1. browsers' \in Engine \cup {Unset}
      BY <2>1, <1>4 DEF TypeOK, IInv
    <3>2. result' \in [Prober -> Map \cup {None}]
      <4>1. result' = result \/ result' = [result EXCEPT ![p] = won]
        BY <1>4
      <4>2. result \in [Prober -> Map \cup {None}]
        BY DEF TypeOK, IInv
      <4> QED
        BY <1>3, <4>1, <4>2
    <3>3. pc' = [pc EXCEPT ![p] = "setenv"] \/ pc' = [pc EXCEPT ![p] = "emit"]
      BY <1>4
    <3> QED
      BY <3>1, <3>2, <3>3, <1>4 DEF TypeOK, IInv
<1>6. CascadeInv(p)' /\ ModeInv(p)'
  BY <1>1, <1>4 DEF TypeOK, IInv, CascadeInv, ModeInv, Crawling
<1>7. ResultInv(p)'
  BY <1>1, <1>3, <1>4 DEF TypeOK, IInv, ResultInv, Crawling
<1>8. EnvInv(p)'
  BY <1>4, CascadeAssumption DEF TypeOK, IInv, EnvInv, DefaultIsAWinner
<1> QED
  BY <1>5, <1>6, <1>7, <1>8

LEMMA ExhaustedStep ==
  ASSUME NEW p \in Prober, IInv, Exhausted(p)
  PROVE  TypeOK' /\ CascadeInv(p)' /\ ModeInv(p)' /\ ResultInv(p)' /\ EnvInv(p)'
<1>1. /\ pc[p] = "exhausted" /\ ModeOf[p] # "never" /\ tried[p] # << >>
      /\ UNCHANGED <<origin, static, best, families, browsers, tried, user, winners>>
      /\ ModeOf[p] \in {"never", "auto", "always"}
  BY CascadeAssumption DEF Exhausted, IInv, ModeInv, CascadeInv, Crawling
<1>2. TriedErrs(p) \subseteq {"waf", "other", "unavailable"}
  BY TriedErrsType DEF IInv
<1>3. CASE ModeOf[p] = "auto"
  <2> DEFINE map == WithErrs(p, static[p])
  <2>1. /\ static[p] \in StaticCrawls /\ static[p] \in Map /\ static[p] # None
        /\ static[p].pages = {} => static[p].errs # {}
    BY <1>1, <1>3, CrawlTypes DEF IInv, ModeInv, Crawling
  <2>2. /\ map \in Map /\ map # None
        /\ map.pages = static[p].pages /\ static[p].errs \subseteq map.errs
    BY <2>1, WithErrsType DEF IInv
  <2>3. pc' = [pc EXCEPT ![p] = "emit"] /\ result' = [result EXCEPT ![p] = map]
    BY <1>3, Zenon DEF Exhausted, Return, Goto
  <2> HIDE DEF map
  <2>4. map.pages = {} => map.errs # {}
    BY <2>1, <2>2
  <2>5. TypeOK'
    BY <1>1, <2>2, <2>3 DEF TypeOK, IInv
  <2>6. CascadeInv(p)' /\ ModeInv(p)' /\ EnvInv(p)'
    BY <1>1, <2>3 DEF TypeOK, IInv, CascadeInv, ModeInv, EnvInv, Crawling
  <2>7. ResultInv(p)'
    BY <1>1, <2>1, <2>2, <2>3, <2>4 DEF TypeOK, IInv, ResultInv, Crawling
  <2> QED
    BY <2>5, <2>6, <2>7
<1>4. CASE ModeOf[p] = "always" /\ AllUnavailable(p)
  <2> DEFINE map == Crawled({}, FALSE, TriedErrs(p))
  <2>1. /\ map \in Map /\ map # None /\ map.errs = TriedErrs(p)
    <3>1. map \in Map /\ map.errs = TriedErrs(p)
      BY <1>2 DEF Crawled, Map
    <3> QED
      BY <3>1, CascadeAssumption
  <2>2. pc' = [pc EXCEPT ![p] = "emit"] /\ result' = [result EXCEPT ![p] = map]
    BY <1>4 DEF Exhausted, Return, Goto
  <2> HIDE DEF map
  <2>3. map.errs # {}
    <3>1. 1 \in DOMAIN tried[p]
      BY <1>1 DEF IInv, TypeOK
    <3> QED
      BY <3>1, <1>4, <2>1 DEF AllUnavailable, TriedErrs
  <2>4. TypeOK'
    BY <1>1, <2>1, <2>2 DEF TypeOK, IInv
  <2>5. CascadeInv(p)' /\ ModeInv(p)' /\ EnvInv(p)'
    BY <1>1, <2>2 DEF TypeOK, IInv, CascadeInv, ModeInv, EnvInv, Crawling
  <2>6. ResultInv(p)'
    BY <1>1, <1>4, <2>1, <2>2, <2>3 DEF TypeOK, IInv, ResultInv, Crawling, AllUnavailable
  <2> QED
    BY <2>4, <2>5, <2>6
<1>5. CASE ModeOf[p] = "always" /\ ~AllUnavailable(p)
  <2>1. pc' = [pc EXCEPT ![p] = "static"] /\ result' = result
    BY <1>5 DEF Exhausted, Goto
  <2>2. TypeOK'
    BY <1>1, <2>1 DEF TypeOK, IInv
  <2>3. CascadeInv(p)' /\ ModeInv(p)' /\ EnvInv(p)' /\ ResultInv(p)'
    BY <1>1, <1>5, <2>1 DEF TypeOK, IInv, CascadeInv, ModeInv, EnvInv, ResultInv, Crawling
  <2> QED
    BY <2>2, <2>3
<1> QED
  BY <1>1, <1>3, <1>4, <1>5

LEMMA EmitStep ==
  ASSUME NEW p \in Prober, IInv, Emit(p)
  PROVE  TypeOK' /\ CascadeInv(p)' /\ ModeInv(p)' /\ ResultInv(p)' /\ EnvInv(p)'
<1> USE DEF Emit, Goto, IInv
<1>1. TypeOK'
  BY DEF TypeOK, Families
<1>2. CascadeInv(p)' /\ ModeInv(p)' /\ EnvInv(p)'
  BY DEF TypeOK, CascadeInv, ModeInv, EnvInv, Crawling
<1>3. ResultInv(p)'
  BY DEF TypeOK, ResultInv, Crawling, AllUnavailable
<1> QED
  BY <1>1, <1>2, <1>3

(* A prober sets QUAIL_BROWSERS to an engine its cascade settled on, and   *)
(* only if the user has not set it.                                        *)
LEMMA DefaultStep ==
  ASSUME NEW p \in Prober, IInv, Step(p)
  PROVE  DefaultIsAWinner'
<1>1. CASE Setenv(p)
  BY <1>1 DEF Setenv, IInv, EnvInv, CascadeInv, DefaultIsAWinner
<1>2. CASE ~Setenv(p)
  <2>1. browsers' = browsers /\ user' = user /\ winners \subseteq winners'
    BY <1>2 DEF Step, NextOrigin, StaticCrawl, RunEngine, Settle, Getenv, Exhausted, Emit
  <2> QED
    BY <2>1 DEF IInv, DefaultIsAWinner
<1> QED
  BY <1>1, <1>2

LEMMA InvStep == IInv /\ [Next]_vars => IInv'
<1> SUFFICES ASSUME IInv, [Next]_vars PROVE IInv'
  OBVIOUS
<1>1. ASSUME NEW p \in Prober, Step(p) PROVE IInv'
  <2>1. TypeOK' /\ CascadeInv(p)' /\ ModeInv(p)' /\ ResultInv(p)' /\ EnvInv(p)'
    BY <1>1, NextOriginStep, StaticCrawlStep, RunEngineStep, RememberStep,
       ExhaustedStep, EmitStep DEF Step
  <2>2. ASSUME NEW q \in Prober, q # p
        PROVE  CascadeInv(q)' /\ ModeInv(q)' /\ ResultInv(q)' /\ EnvInv(q)'
    BY <1>1, <2>2, OtherStep
  <2> QED
    BY <1>1, <2>1, <2>2, DefaultStep DEF IInv
<1>2. CASE UNCHANGED vars
  BY <1>2 DEF vars, probe, IInv, TypeOK, CascadeInv, ModeInv, ResultInv, EnvInv,
              AllUnavailable, DefaultIsAWinner
<1> QED
  BY <1>1, <1>2 DEF Next

LEMMA InvAlways == Spec => []IInv
  BY InitInv, InvStep, PTL DEF Spec

(* Every variable keeps its type.                                          *)
THEOREM TypeCorrect == Spec => []TypeOK
<1>1. IInv => TypeOK
  BY DEF IInv
<1> QED
  BY <1>1, InvAlways, PTL

(* probe.go:773-791 and 820-833, for any cascades: an origin of which      *)
(* nothing was seen comes back with an error.                              *)
THEOREM NothingSilent == Spec => []NoSilentFailure
<1>1. IInv => NoSilentFailure
  BY DEF IInv, ResultInv, NoSilentFailure
<1> QED
  BY <1>1, InvAlways, PTL

(* probe.go:916-929, for any number of goroutines that race to set it:     *)
(* QUAIL_BROWSERS is the user's or an engine a cascade settled on.         *)
THEOREM DefaultsAreWinners == Spec => []DefaultIsAWinner
<1>1. IInv => DefaultIsAWinner
  BY DEF IInv
<1> QED
  BY <1>1, InvAlways, PTL

-----------------------------------------------------------------------------
(* Which attempt of the cascade the map is taken from.  The operators name *)
(* the parts of BestAttemptWins, over a sequence of attempts.              *)
PagesSeen(t)  == {i \in DOMAIN t : t[i].pages # {}}
GotThrough(t) == {i \in PagesSeen(t) : ~Blocked(t[i])}
Bigger(m, n)  == Cardinality(m.pages) > Cardinality(n.pages)
SameSize(m, n) == Cardinality(m.pages) = Cardinality(n.pages)
Largest(t) ==
  {i \in PagesSeen(t) : \A j \in PagesSeen(t) :
     Bigger(t[i], t[j]) \/ (SameSize(t[i], t[j]) /\ i <= j)}

(* The best map so far is the first largest of the attempts.               *)
BestOf(t, kept) ==
  /\ GotThrough(t) = {}
  /\ kept = None => PagesSeen(t) = {}
  /\ kept # None => \E i \in Largest(t) : kept.map = t[i]

(* A cascade of n engines that tried t settled on these pages.             *)
SettledOn(t, n, pages) ==
  /\ PagesSeen(t) # {}
  /\ GotThrough(t) # {} => GotThrough(t) = {Len(t)} /\ pages = t[Len(t)].pages
  /\ GotThrough(t) = {} => Len(t) = n /\ \A i \in Largest(t) : pages = t[i].pages

AttemptInv(p) ==
  /\ pc[p] = "cascade" => BestOf(tried[p], best[p])
  /\ pc[p] \in {"remember", "setenv"} =>
       SettledOn(tried[p], Len(EnginesOf[p]), best[p].map.pages)
  /\ pc[p] \in {"static", "exhausted"} => PagesSeen(tried[p]) = {}
  /\ pc[p] \in {"cascade", "exhausted"} /\ ModeOf[p] = "always" => static[p] = None
  /\ result[p] # None =>
       \/ SettledOn(tried[p], Len(EnginesOf[p]), result[p].pages)
       \/ /\ PagesSeen(tried[p]) = {}
          /\ result[p].pages = IF static[p] = None THEN {} ELSE static[p].pages

AttemptsInv == \A p \in Prober : AttemptInv(p)

LEMMA SizeType == ASSUME NEW m \in Map PROVE Cardinality(m.pages) \in Nat
<1>1. m.pages \in SUBSET Page
  BY DEF Map
<1>2. IsFiniteSet(m.pages)
  BY <1>1, FS_Subset, CascadeAssumption
<1> QED
  BY <1>2, FS_CardinalityType

LEMMA OneLargest ==
  ASSUME NEW t \in Seq(Map), NEW i \in Largest(t), NEW j \in Largest(t)
  PROVE  i = j
<1>1. /\ i \in Nat /\ j \in Nat /\ i \in PagesSeen(t) /\ j \in PagesSeen(t)
      /\ t[i] \in Map /\ t[j] \in Map
  BY DEF Largest, PagesSeen
<1>2. Cardinality(t[i].pages) \in Nat /\ Cardinality(t[j].pages) \in Nat
  BY <1>1, SizeType
<1>3. /\ Bigger(t[i], t[j]) \/ (SameSize(t[i], t[j]) /\ i <= j)
      /\ Bigger(t[j], t[i]) \/ (SameSize(t[j], t[i]) /\ j <= i)
  BY <1>1 DEF Largest
<1> QED
  BY <1>1, <1>2, <1>3 DEF Bigger, SameSize

(* One more attempt.                                                       *)
LEMMA SeenAppend ==
  ASSUME NEW t \in Seq(Map), NEW r \in Map
  PROVE  /\ Append(t, r) \in Seq(Map) /\ Len(Append(t, r)) = Len(t) + 1
         /\ Append(t, r)[Len(t) + 1] = r
         /\ \A i \in DOMAIN t : i \in 1..Len(t) /\ Append(t, r)[i] = t[i]
         /\ PagesSeen(Append(t, r)) =
              PagesSeen(t) \cup (IF r.pages = {} THEN {} ELSE {Len(t) + 1})
<1> DEFINE u == Append(t, r)
<1>1. /\ u \in Seq(Map) /\ Len(u) = Len(t) + 1 /\ u[Len(t) + 1] = r
      /\ \A i \in DOMAIN t : i \in 1..Len(t) /\ u[i] = t[i]
      /\ DOMAIN u = DOMAIN t \cup {Len(t) + 1}
  OBVIOUS
<1> HIDE DEF u
<1>2. PagesSeen(u) = PagesSeen(t) \cup (IF r.pages = {} THEN {} ELSE {Len(t) + 1})
  BY <1>1 DEF PagesSeen
<1> QED
  BY <1>1, <1>2 DEF u

LEMMA ClearSettles ==
  ASSUME NEW t \in Seq(Map), NEW r \in Map, NEW kept, NEW n, BestOf(t, kept),
         r.pages # {}, ~Blocked(r)
  PROVE  SettledOn(Append(t, r), n, r.pages)
<1> DEFINE u == Append(t, r)
<1>1. /\ Len(u) = Len(t) + 1 /\ u[Len(t) + 1] = r
      /\ \A i \in DOMAIN t : i \in 1..Len(t) /\ u[i] = t[i]
      /\ PagesSeen(u) = PagesSeen(t) \cup {Len(t) + 1}
  BY SeenAppend
<1> HIDE DEF u
<1>2. GotThrough(u) = {Len(t) + 1}
  BY <1>1 DEF BestOf, GotThrough, PagesSeen
<1>3. SettledOn(u, n, r.pages)
  BY <1>1, <1>2 DEF SettledOn
<1> QED
  BY <1>3 DEF u

LEMMA LastSettles ==
  ASSUME NEW t \in Seq(Map), NEW kept, kept # None, BestOf(t, kept)
  PROVE  SettledOn(t, Len(t), kept.map.pages)
<1>1. PICK i \in Largest(t) : kept.map = t[i]
  BY DEF BestOf
<1>2. i \in PagesSeen(t)
  BY DEF Largest
<1> QED
  BY <1>1, <1>2, OneLargest DEF SettledOn, BestOf

(* The maps of a cascade a thinner attempt does not displace.              *)
LEMMA KeptIsBest ==
  ASSUME NEW p \in Prober, NEW r \in Map, tried[p] \in Seq(Map),
         best[p] \in Partial \cup {None}, BestOf(tried[p], best[p]),
         Stash(p, r).map = r, Stash(p, r) # None, r.pages = {} \/ Blocked(r)
  PROVE  BestOf(Append(tried[p], r), Kept(p, r))
<1> DEFINE t == tried[p]
           u == Append(t, r)
           n == Len(t) + 1
<1>1. /\ t \in Seq(Map) /\ u \in Seq(Map) /\ Len(u) = n /\ u[n] = r /\ n \in Nat
      /\ \A i \in DOMAIN t : i \in 1..Len(t) /\ i < n /\ u[i] = t[i]
      /\ PagesSeen(u) = PagesSeen(t) \cup (IF r.pages = {} THEN {} ELSE {n})
  BY SeenAppend
<1>2. PagesSeen(t) \subseteq DOMAIN t /\ DOMAIN t \subseteq Nat
      /\ \A i \in DOMAIN t : t[i] \in Map
  BY DEF PagesSeen
<1>3. /\ Cardinality(r.pages) \in Nat
      /\ \A i \in DOMAIN t : Cardinality(t[i].pages) \in Nat
  BY <1>2, SizeType
<1>4. BestOf(t, best[p])
  OBVIOUS
<1> HIDE DEF t, u, n
<1>5. GotThrough(u) = {}
  BY <1>1, <1>2, <1>4 DEF BestOf, GotThrough
<1>6. CASE r.pages = {}
  <2>1. PagesSeen(u) = PagesSeen(t) /\ Kept(p, r) = best[p]
    BY <1>1, <1>6 DEF Kept
  <2>2. Largest(u) = Largest(t) /\ \A i \in Largest(t) : u[i] = t[i]
    BY <1>1, <1>2, <2>1 DEF Largest
  <2>3. BestOf(u, Kept(p, r))
    BY <1>4, <1>5, <2>1, <2>2 DEF BestOf
  <2> QED
    BY <2>3 DEF t, u
<1>7. CASE r.pages # {}
  <2>1. PagesSeen(u) = PagesSeen(t) \cup {n}
    BY <1>1, <1>7
  <2>2. CASE Kept(p, r) = Stash(p, r) /\ \A j \in PagesSeen(t) : Bigger(r, t[j])
    <3>1. n \in Largest(u)
      BY <1>1, <1>2, <1>3, <2>1, <2>2 DEF Largest, Bigger, SameSize
    <3>2. BestOf(u, Kept(p, r))
      BY <1>1, <1>5, <2>2, <3>1 DEF BestOf
    <3> QED
      BY <3>2 DEF t, u
  <2>3. ASSUME NEW i \in Largest(t), best[p] # None, best[p].map = t[i]
        PROVE  BestOf(u, Kept(p, r))
    <3>1. i \in PagesSeen(t) /\ i \in DOMAIN t
      BY <1>2, <2>3 DEF Largest
    <3>2. CASE Bigger(r, t[i])
      <4>1. \A j \in PagesSeen(t) : Bigger(r, t[j])
        BY <1>2, <1>3, <2>3, <3>1, <3>2 DEF Largest, Bigger, SameSize
      <4>2. Kept(p, r) = Stash(p, r)
        BY <1>7, <2>3, <3>2 DEF Kept, Bigger
      <4> QED
        BY <2>2, <4>1, <4>2 DEF t, u
    <3>3. CASE ~Bigger(r, t[i])
      <4>1. Kept(p, r) = best[p]
        BY <1>7, <2>3, <3>3 DEF Kept, Bigger
      <4>2. \A j \in PagesSeen(t) : Bigger(t[i], t[j]) \/ (SameSize(t[i], t[j]) /\ i <= j)
        BY <2>3 DEF Largest
      <4>3. Bigger(t[i], r) \/ (SameSize(t[i], r) /\ i <= n)
        BY <1>1, <1>2, <1>3, <3>1, <3>3 DEF Bigger, SameSize
      <4>4. i \in Largest(u)
        BY <1>1, <1>2, <2>1, <3>1, <4>2, <4>3 DEF Largest
      <4> QED
        BY <1>1, <1>5, <2>3, <3>1, <4>1, <4>4 DEF BestOf
    <3> QED
      BY <3>2, <3>3
  <2>4. CASE best[p] = None
    <3>1. PagesSeen(t) = {} /\ Kept(p, r) = Stash(p, r)
      BY <1>4, <1>7, <2>4 DEF BestOf, Kept
    <3> QED
      BY <2>2, <3>1
  <2> QED
    BY <1>4, <2>3, <2>4 DEF BestOf, t, u
<1> QED
  BY <1>6, <1>7

LEMMA OtherAttempts ==
  ASSUME NEW p \in Prober, NEW q \in Prober, p # q, IInv, AttemptInv(p), Step(q)
  PROVE  AttemptInv(p)'
<1>1. /\ pc'[p] = pc[p] /\ tried'[p] = tried[p] /\ best'[p] = best[p]
      /\ static'[p] = static[p] /\ result'[p] = result[p]
  BY Elsewhere DEF IInv
<1> QED
  BY <1>1 DEF AttemptInv

LEMMA EngineAttempt ==
  ASSUME NEW p \in Prober, IInv, AttemptInv(p), RunEngine(p)
  PROVE  AttemptInv(p)'
<1> DEFINE t == tried[p]
<1>1. PICK r \in BrowserCrawls :
        /\ tried' = [tried EXCEPT ![p] = Append(@, r)]
        /\ \/ r.pages # {} /\ ~Blocked(r) /\ Settle(p, Stash(p, r))
           \/ /\ r.pages = {} \/ Blocked(r)
              /\ IF Len(tried[p]) + 1 = Len(EnginesOf[p])
                   THEN Settle(p, Kept(p, r))
                   ELSE /\ best' = [best EXCEPT ![p] = Kept(p, r)]
                        /\ UNCHANGED <<pc, winners>>
  BY DEF RunEngine
<1>2. /\ pc[p] = "cascade" /\ Len(t) < Len(EnginesOf[p])
      /\ static' = static /\ result' = result /\ result[p] = None
      /\ t \in Seq(Map) /\ r \in Map /\ best[p] \in Partial \cup {None}
      /\ ModeOf[p] = "always" => static[p] = None
  BY CrawlTypes DEF RunEngine, IInv, CascadeInv, ResultInv, Crawling, TypeOK, AttemptInv
<1>3. Stash(p, r) # None /\ Stash(p, r).map = r
  BY <1>2, NextEngine, CascadeAssumption DEF Stash, IInv, Partial
<1>4. BestOf(t, best[p])
  BY <1>2 DEF AttemptInv
<1>5. /\ tried'[p] = Append(t, r) /\ Append(t, r) \in Seq(Map)
      /\ Len(Append(t, r)) = Len(t) + 1
  BY <1>1, <1>2 DEF IInv, TypeOK
<1> HIDE DEF t
<1>6. ASSUME NEW won, Settle(p, won)
      PROVE  /\ best'[p] = won
             /\ pc'[p] = IF won = None THEN "exhausted" ELSE "remember"
  BY <1>6 DEF Settle, Goto, IInv, TypeOK
<1>7. CASE r.pages # {} /\ ~Blocked(r) /\ Settle(p, Stash(p, r))
  <2>1. SettledOn(Append(t, r), Len(EnginesOf[p]), r.pages)
    BY <1>2, <1>4, <1>7, ClearSettles
  <2>2. best'[p] = Stash(p, r) /\ pc'[p] = "remember"
    BY <1>3, <1>6, <1>7
  <2> QED
    BY <1>2, <1>3, <1>5, <2>1, <2>2 DEF AttemptInv
<1>8. CASE r.pages = {} \/ Blocked(r)
  <2>1. BestOf(Append(t, r), Kept(p, r))
    BY <1>2, <1>3, <1>4, <1>8, KeptIsBest DEF t
  <2>2. CASE Len(t) + 1 = Len(EnginesOf[p]) /\ Settle(p, Kept(p, r))
    <3>1. /\ best'[p] = Kept(p, r)
          /\ pc'[p] = IF Kept(p, r) = None THEN "exhausted" ELSE "remember"
      BY <1>6, <2>2
    <3>2. CASE Kept(p, r) = None
      BY <1>2, <1>5, <2>1, <3>1, <3>2 DEF AttemptInv, BestOf
    <3>3. CASE Kept(p, r) # None
      <4>1. SettledOn(Append(t, r), Len(EnginesOf[p]), Kept(p, r).map.pages)
        BY <1>5, <2>1, <2>2, <3>3, LastSettles
      <4> QED
        BY <1>2, <1>5, <3>1, <3>3, <4>1 DEF AttemptInv
    <3> QED
      BY <3>2, <3>3
  <2>3. CASE best' = [best EXCEPT ![p] = Kept(p, r)] /\ UNCHANGED <<pc, winners>>
    <3>1. best'[p] = Kept(p, r) /\ pc'[p] = "cascade"
      BY <1>2, <2>3 DEF IInv, TypeOK
    <3> QED
      BY <1>2, <1>5, <2>1, <3>1 DEF AttemptInv
  <2> QED
    BY <1>1, <1>8, <2>2, <2>3 DEF t
<1> QED
  BY <1>1, <1>7, <1>8

LEMMA OwnAttempt ==
  ASSUME NEW p \in Prober, IInv, AttemptInv(p), Step(p)
  PROVE  AttemptInv(p)'
<1>1. CASE NextOrigin(p)
  <2>1. /\ pc'[p] \in {"static", "cascade"} /\ tried'[p] = << >> /\ best'[p] = None
        /\ result'[p] = None /\ static'[p] = None
    BY <1>1 DEF NextOrigin, Goto, IInv, TypeOK
  <2>2. PagesSeen(<< >>) = {} /\ BestOf(<< >>, None)
    BY DEF PagesSeen, BestOf, GotThrough
  <2> QED
    BY <2>1, <2>2 DEF AttemptInv
<1>2. CASE StaticCrawl(p)
  <2>1. PICK r \in StaticCrawls :
          /\ static' = [static EXCEPT ![p] = r]
          /\ \/ ModeOf[p] = "auto" /\ Goto(p, "cascade") /\ UNCHANGED result
             \/ Return(p, r)
    BY <1>2 DEF StaticCrawl
  <2>2. /\ pc[p] = "static" /\ result[p] = None /\ PagesSeen(tried[p]) = {}
        /\ UNCHANGED <<tried, best>> /\ static'[p] = r /\ r # None
    BY <1>2, <2>1, CrawlTypes
       DEF StaticCrawl, IInv, TypeOK, ResultInv, Crawling, AttemptInv
  <2>3. CASE ModeOf[p] = "auto" /\ Goto(p, "cascade") /\ UNCHANGED result
    <3>1. pc'[p] = "cascade" /\ best[p] = None
      BY <2>2, <2>3 DEF Goto, IInv, TypeOK, CascadeInv
    <3>2. BestOf(tried[p], None)
      BY <2>2 DEF BestOf, GotThrough
    <3> QED
      BY <2>2, <2>3, <3>1, <3>2 DEF AttemptInv
  <2>4. CASE Return(p, r)
    <3>1. pc'[p] = "emit" /\ result'[p] = r
      BY <2>4 DEF Return, Goto, IInv, TypeOK
    <3> QED
      BY <2>2, <3>1 DEF AttemptInv
  <2> QED
    BY <2>1, <2>3, <2>4
<1>3. CASE RunEngine(p)
  BY <1>3, EngineAttempt
<1>4. CASE Getenv(p) \/ Setenv(p)
  <2>1. /\ pc[p] \in {"remember", "setenv"} /\ best[p] \in Partial
        /\ UNCHANGED <<tried, best, static>> /\ result[p] = None
    BY <1>4 DEF Getenv, Setenv, IInv, CascadeInv, ResultInv, Crawling, TypeOK
  <2>2. WithErrs(p, best[p].map).pages = best[p].map.pages
    <3>1. best[p].map \in Map
      BY <2>1 DEF Partial
    <3> QED
      BY <3>1, WithErrsType DEF IInv
  <2>3. \/ pc'[p] = "setenv" /\ result'[p] = None
        \/ pc'[p] = "emit" /\ result'[p] = WithErrs(p, best[p].map)
    BY <1>4, <2>1 DEF Getenv, Setenv, Goto, Return, IInv, TypeOK
  <2> QED
    BY <2>1, <2>2, <2>3 DEF AttemptInv
<1>5. CASE Exhausted(p)
  <2>1. /\ pc[p] = "exhausted" /\ UNCHANGED <<tried, best, static>> /\ result[p] = None
        /\ PagesSeen(tried[p]) = {} /\ ModeOf[p] \in {"auto", "always"}
        /\ ModeOf[p] = "always" => static[p] = None
    BY <1>5, CascadeAssumption
       DEF Exhausted, IInv, ModeInv, ResultInv, Crawling, AttemptInv
  <2>2. CASE ModeOf[p] = "auto"
    <3>1. static[p] \in Map /\ static[p] # None
      BY <2>1, <2>2, CrawlTypes DEF IInv, ModeInv, Crawling
    <3>2. WithErrs(p, static[p]).pages = static[p].pages
      BY <3>1, WithErrsType DEF IInv
    <3>3. pc'[p] = "emit" /\ result'[p] = WithErrs(p, static[p])
      BY <1>5, <2>2 DEF Exhausted, Goto, Return, IInv, TypeOK
    <3> QED
      BY <2>1, <3>1, <3>2, <3>3 DEF AttemptInv
  <2>3. CASE ModeOf[p] = "always"
    <3>1. \/ pc'[p] = "static" /\ result'[p] = None
          \/ pc'[p] = "emit" /\ result'[p] = Crawled({}, FALSE, TriedErrs(p))
      BY <1>5, <2>1, <2>3 DEF Exhausted, Goto, Return, IInv, TypeOK
    <3>2. Crawled({}, FALSE, TriedErrs(p)).pages = {}
      BY DEF Crawled
    <3> QED
      BY <2>1, <2>3, <3>1, <3>2 DEF AttemptInv
  <2> QED
    BY <2>1, <2>2, <2>3
<1>6. CASE Emit(p)
  <2>1. pc'[p] = "idle" /\ UNCHANGED <<tried, best, static, result>>
    BY <1>6 DEF Emit, Goto, IInv, TypeOK
  <2> QED
    BY <2>1 DEF AttemptInv
<1> QED
  BY <1>1, <1>2, <1>3, <1>4, <1>5, <1>6 DEF Step

LEMMA AttemptsStep == IInv /\ AttemptsInv /\ [Next]_vars => AttemptsInv'
<1> SUFFICES ASSUME IInv, AttemptsInv, [Next]_vars, NEW p \in Prober
             PROVE  AttemptInv(p)'
  BY DEF AttemptsInv
<1>1. AttemptInv(p)
  BY DEF AttemptsInv
<1>2. ASSUME NEW q \in Prober, Step(q) PROVE AttemptInv(p)'
  BY <1>1, <1>2, OtherAttempts, OwnAttempt
<1>3. CASE UNCHANGED vars
  BY <1>1, <1>3 DEF vars, probe, AttemptInv
<1> QED
  BY <1>2, <1>3 DEF Next

(* probe.go:853-914 and 766-833, for any cascades and pages: the map of an *)
(* origin is that of the first engine that got through, else the first     *)
(* largest partial of a cascade run to its end, and the static one only    *)
(* when no engine saw a page.                                              *)
THEOREM BestAttempts == Spec => []BestAttemptWins
<1>1. Init => AttemptsInv
  BY DEF Init, AttemptsInv, AttemptInv
<1>2. AttemptsInv => BestAttemptWins
  BY DEF AttemptsInv, AttemptInv, BestAttemptWins, SettledOn, PagesSeen, GotThrough,
         Largest, Bigger, SameSize
<1> QED
  BY <1>1, <1>2, AttemptsStep, InvAlways, PTL DEF Spec
-----------------------------------------------------------------------------
(***************************************************************************)
(* The shared Playwright runner, for any number of processes, calls,       *)
(* engines and packages, and for any bounds on faults and wipes.           *)
(***************************************************************************)

(* Who holds the locks, and whose installer runs.                          *)
LockInv ==
  /\ \A c \in Call : stage[c] \in Locked => flock = c
  /\ \A c \in Call : child[c] = "npm" => stage[c] \in {"npm", "dead"}
  /\ \A c \in Call : child[c] = "npx" => stage[c] \in {"npx", "dead"}

USE DEF Proceed, Leave, NodeDepsReady, EngineSentinelExists, BothReady,
        locks, disk, marks, local, bounds

LEMMA TypeStep == RunnerTypeOK /\ [RunnerNext]_runnerVars => RunnerTypeOK'
<1> USE SharingAssumption DEF RunnerTypeOK, Waiting, Locked, Finished
<1> SUFFICES ASSUME RunnerTypeOK, [RunnerNext]_runnerVars PROVE RunnerTypeOK'
  OBVIOUS
<1>1. ASSUME NEW c \in Call, Start(c) \/ Fails(c) PROVE RunnerTypeOK'
  BY <1>1 DEF Start, Fails
<1>2. ASSUME NEW c \in Call, LockMutex(c) PROVE RunnerTypeOK'
  BY <1>2 DEF LockMutex
<1>3. ASSUME NEW c \in Call, Check(c) PROVE RunnerTypeOK'
  BY <1>3 DEF Check
<1>4. ASSUME NEW c \in Call, LockRunner(c) PROVE RunnerTypeOK'
  BY <1>4 DEF LockRunner
<1>5. ASSUME NEW c \in Call, Recheck(c) PROVE RunnerTypeOK'
  BY <1>5 DEF Recheck
<1>6. ASSUME NEW c \in Call, SkipDeps(c) \/ RunNpm(c) \/ MarkDeps(c) PROVE RunnerTypeOK'
  <2>1. CASE SkipDeps(c)
    BY <2>1 DEF SkipDeps
  <2>2. CASE MarkDeps(c)
    <3>1. CASE TestPackage \in packages
      BY <2>2, <3>1 DEF MarkDeps
    <3>2. CASE TestPackage \notin packages
      BY <2>2, <3>2 DEF MarkDeps
    <3> QED
      BY <3>1, <3>2
  <2>3. CASE RunNpm(c)
    BY <2>3 DEF RunNpm
  <2> QED
    BY <1>6, <2>1, <2>2, <2>3
<1>7. ASSUME NEW c \in Call, SkipEngine(c) \/ RunNpx(c) \/ MarkEngine(c) PROVE RunnerTypeOK'
  <2>1. CASE SkipEngine(c) \/ MarkEngine(c)
    BY <2>1 DEF SkipEngine, MarkEngine
  <2>2. CASE RunNpx(c)
    BY <2>2 DEF RunNpx
  <2> QED
    BY <1>7, <2>1, <2>2
<1>8. ASSUME NEW c \in Call, Extract(c) PROVE RunnerTypeOK'
  BY <1>8 DEF Extract
<1>9. ASSUME NEW c \in Call, NpmExits(c) \/ NpxExits(c) PROVE RunnerTypeOK'
  BY <1>9 DEF NpmExits, NpxExits
<1>10. ASSUME NEW c \in Call, InstallerFails(c) PROVE RunnerTypeOK'
  BY <1>10 DEF InstallerFails
<1>11. ASSUME NEW p \in Process, Kill(p) PROVE RunnerTypeOK'
  BY <1>11 DEF Kill
<1>12. CASE Wipe
  BY <1>12 DEF Wipe
<1>13. CASE UNCHANGED runnerVars
  BY <1>13 DEF runnerVars
<1> QED
  BY <1>1, <1>2, <1>3, <1>4, <1>5, <1>6, <1>7, <1>8, <1>9, <1>10, <1>11, <1>12, <1>13
     DEF RunnerNext, CallStep, Install

(* Every variable keeps its type.                                          *)
THEOREM RunnerTypeCorrect == RunnerSpec => []RunnerTypeOK
<1>1. ASSUME RunnerInit PROVE RunnerTypeOK
  <2> USE <1>1 DEF RunnerInit
  <2>1. stage \in [Call -> {"idle", "check"} \cup Waiting \cup Locked \cup Finished]
    BY DEF Waiting, Locked, Finished
  <2>2. /\ mutex \in [Process -> Call \cup {Nobody}] /\ flock \in Call \cup {Nobody}
        /\ child \in [Call -> {"none", "npm", "npx"}]
    OBVIOUS
  <2>3. /\ depsMark \in BOOLEAN /\ engineMarks \subseteq Browser
        /\ depsReady \in [Call -> BOOLEAN] /\ engineReady \in [Call -> BOOLEAN]
    OBVIOUS
  <2>4. /\ packages \subseteq Package /\ engines \subseteq Browser
        /\ faults \in Nat /\ wipes \in Nat
    OBVIOUS
  <2> QED
    BY <2>1, <2>2, <2>3, <2>4 DEF RunnerTypeOK
<1> QED
  BY <1>1, TypeStep, PTL DEF RunnerSpec

-----------------------------------------------------------------------------
(* The installers: only the holder of the file lock, or a killed process,  *)
(* has one.                                                                *)

LEMMA LockStep == RunnerTypeOK /\ LockInv /\ [RunnerNext]_runnerVars => LockInv'
<1> USE SharingAssumption DEF RunnerTypeOK, LockInv, Waiting, Locked, Finished
<1> SUFFICES ASSUME RunnerTypeOK, LockInv, [RunnerNext]_runnerVars PROVE LockInv'
  OBVIOUS
<1>1. ASSUME NEW c \in Call, Start(c) \/ Fails(c) PROVE LockInv'
  BY <1>1 DEF Start, Fails
<1>2. ASSUME NEW c \in Call, LockMutex(c) PROVE LockInv'
  BY <1>2 DEF LockMutex
<1>3. ASSUME NEW c \in Call, Check(c) PROVE LockInv'
  BY <1>3 DEF Check
<1>4. ASSUME NEW c \in Call, LockRunner(c) PROVE LockInv'
  BY <1>4 DEF LockRunner
<1>5. ASSUME NEW c \in Call, Recheck(c) PROVE LockInv'
  BY <1>5 DEF Recheck
<1>6. ASSUME NEW c \in Call, SkipDeps(c) \/ RunNpm(c) \/ MarkDeps(c) PROVE LockInv'
  BY <1>6 DEF SkipDeps, RunNpm, MarkDeps
<1>7. ASSUME NEW c \in Call, SkipEngine(c) \/ RunNpx(c) \/ MarkEngine(c) PROVE LockInv'
  BY <1>7 DEF SkipEngine, RunNpx, MarkEngine
<1>8. ASSUME NEW c \in Call, Extract(c) PROVE LockInv'
  BY <1>8 DEF Extract
<1>9. ASSUME NEW c \in Call, NpmExits(c) \/ NpxExits(c) PROVE LockInv'
  BY <1>9 DEF NpmExits, NpxExits
<1>10. ASSUME NEW c \in Call, InstallerFails(c) PROVE LockInv'
  BY <1>10 DEF InstallerFails
<1>11. ASSUME NEW p \in Process, Kill(p) PROVE LockInv'
  BY <1>11 DEF Kill
<1>12. CASE Wipe
  BY <1>12 DEF Wipe
<1>13. CASE UNCHANGED runnerVars
  BY <1>13 DEF runnerVars
<1> QED
  BY <1>1, <1>2, <1>3, <1>4, <1>5, <1>6, <1>7, <1>8, <1>9, <1>10, <1>11, <1>12, <1>13
     DEF RunnerNext, CallStep, Install

(* runner.go:68-69, for any number of processes: live probes never install *)
(* at the same time.                                                       *)
THEOREM Serialised == RunnerSpec => []InstallsSerialised
<1>1. RunnerInit => LockInv
  BY DEF RunnerInit, LockInv, Locked
<1>2. RunnerTypeOK /\ LockInv => InstallsSerialised
  BY DEF RunnerTypeOK, LockInv, InstallsSerialised, Locked
<1> QED
  BY <1>1, <1>2, RunnerTypeCorrect, LockStep, PTL DEF RunnerSpec

-----------------------------------------------------------------------------
(* The sentinels.  What a call remembers to be ready has its sentinel; and *)
(* while nobody wipes, a sentinel, or having got past an installer, means  *)
(* that the things are on disk.                                            *)

MarkInv ==
  \A c \in Call : /\ depsReady[c] => depsMark
                  /\ engineReady[c] => EngineOf[c] \in engineMarks

Have(c) ==
  /\ stage[c] \in {"markDeps", "engine", "npx", "markEngine"} => packages = Package
  /\ stage[c] = "markEngine" => EngineOf[c] \in engines
  /\ Guaranteed(c)

DiskInv ==
  wipes = 0 =>
    /\ depsMark => packages = Package
    /\ engineMarks \subseteq engines
    /\ \A c \in Call : Have(c)

LEMMA MarkStep == RunnerTypeOK /\ MarkInv /\ [RunnerNext]_runnerVars => MarkInv'
<1> USE SharingAssumption DEF RunnerTypeOK, MarkInv
<1> SUFFICES ASSUME RunnerTypeOK, MarkInv, [RunnerNext]_runnerVars PROVE MarkInv'
  OBVIOUS
<1>1. ASSUME NEW c \in Call, Start(c) \/ Fails(c) PROVE MarkInv'
  BY <1>1 DEF Start, Fails
<1>2. ASSUME NEW c \in Call, LockMutex(c) PROVE MarkInv'
  BY <1>2 DEF LockMutex
<1>3. ASSUME NEW c \in Call, Check(c) PROVE MarkInv'
  BY <1>3 DEF Check
<1>4. ASSUME NEW c \in Call, LockRunner(c) PROVE MarkInv'
  BY <1>4 DEF LockRunner
<1>5. ASSUME NEW c \in Call, Recheck(c) PROVE MarkInv'
  BY <1>5 DEF Recheck
<1>6. ASSUME NEW c \in Call, SkipDeps(c) \/ RunNpm(c) PROVE MarkInv'
  BY <1>6 DEF SkipDeps, RunNpm
<1>7. ASSUME NEW c \in Call, MarkDeps(c) PROVE MarkInv'
  BY <1>7 DEF MarkDeps
<1>8. ASSUME NEW c \in Call, SkipEngine(c) \/ RunNpx(c) PROVE MarkInv'
  BY <1>8 DEF SkipEngine, RunNpx
<1>9. ASSUME NEW c \in Call, MarkEngine(c) PROVE MarkInv'
  BY <1>9 DEF MarkEngine
<1>10. ASSUME NEW c \in Call, Extract(c) PROVE MarkInv'
  BY <1>10 DEF Extract
<1>11. ASSUME NEW c \in Call, NpmExits(c) PROVE MarkInv'
  BY <1>11 DEF NpmExits
<1>12. ASSUME NEW c \in Call, NpxExits(c) PROVE MarkInv'
  BY <1>12 DEF NpxExits
<1>13. ASSUME NEW c \in Call, InstallerFails(c) PROVE MarkInv'
  BY <1>13 DEF InstallerFails
<1>14. ASSUME NEW p \in Process, Kill(p) PROVE MarkInv'
  BY <1>14 DEF Kill
<1>15. CASE Wipe
  BY <1>15 DEF Wipe
<1>16. CASE UNCHANGED runnerVars
  BY <1>16 DEF runnerVars
<1> QED
  BY <1>1, <1>2, <1>3, <1>4, <1>5, <1>6, <1>7, <1>8,
     <1>9, <1>10, <1>11, <1>12, <1>13, <1>14, <1>15, <1>16
     DEF RunnerNext, CallStep, Install

LEMMA DiskStep == RunnerTypeOK /\ MarkInv /\ DiskInv /\ [RunnerNext]_runnerVars => DiskInv'
<1> USE SharingAssumption DEF RunnerTypeOK, MarkInv, DiskInv, Have, Guaranteed
<1> SUFFICES ASSUME RunnerTypeOK, MarkInv, DiskInv, [RunnerNext]_runnerVars PROVE DiskInv'
  OBVIOUS
<1>1. ASSUME NEW c \in Call, Start(c) \/ Fails(c) PROVE DiskInv'
  BY <1>1 DEF Start, Fails
<1>2. ASSUME NEW c \in Call, LockMutex(c) PROVE DiskInv'
  BY <1>2 DEF LockMutex
<1>3. ASSUME NEW c \in Call, Check(c) PROVE DiskInv'
  BY <1>3 DEF Check
<1>4. ASSUME NEW c \in Call, LockRunner(c) PROVE DiskInv'
  BY <1>4 DEF LockRunner
<1>5. ASSUME NEW c \in Call, Recheck(c) PROVE DiskInv'
  BY <1>5 DEF Recheck
<1>6. ASSUME NEW c \in Call, SkipDeps(c) \/ RunNpm(c) PROVE DiskInv'
  BY <1>6 DEF SkipDeps, RunNpm
<1>7. ASSUME NEW c \in Call, MarkDeps(c) PROVE DiskInv'
  BY <1>7 DEF MarkDeps
<1>8. ASSUME NEW c \in Call, SkipEngine(c) \/ RunNpx(c) PROVE DiskInv'
  BY <1>8 DEF SkipEngine, RunNpx
<1>9. ASSUME NEW c \in Call, MarkEngine(c) PROVE DiskInv'
  BY <1>9 DEF MarkEngine
<1>10. ASSUME NEW c \in Call, Extract(c) PROVE DiskInv'
  BY <1>10 DEF Extract
<1>11. ASSUME NEW c \in Call, NpmExits(c) PROVE DiskInv'
  BY <1>11 DEF NpmExits
<1>12. ASSUME NEW c \in Call, NpxExits(c) PROVE DiskInv'
  BY <1>12 DEF NpxExits
<1>13. ASSUME NEW c \in Call, InstallerFails(c) PROVE DiskInv'
  BY <1>13 DEF InstallerFails
<1>14. ASSUME NEW p \in Process, Kill(p) PROVE DiskInv'
  BY <1>14 DEF Kill
<1>15. CASE Wipe
  BY <1>15 DEF Wipe
<1>16. CASE UNCHANGED runnerVars
  BY <1>16 DEF runnerVars
<1> QED
  BY <1>1, <1>2, <1>3, <1>4, <1>5, <1>6, <1>7, <1>8,
     <1>9, <1>10, <1>11, <1>12, <1>13, <1>14, <1>15, <1>16
     DEF RunnerNext, CallStep, Install

(* runner.go:60-62, for any number of calls and any faults: whoever is     *)
(* given the directory finds in it what was promised, unless somebody      *)
(* cleared a cache by hand.                                                *)
THEOREM Ensured == RunnerSpec => []EnsuredUnlessWiped
<1>1. RunnerInit => MarkInv
  BY DEF RunnerInit, MarkInv
<1>2. RunnerInit => DiskInv
  BY DEF RunnerInit, DiskInv, Have, Guaranteed
<1>3. DiskInv => EnsuredUnlessWiped
  BY DEF DiskInv, Have, EnsuredUnlessWiped
<1> QED
  BY <1>1, <1>2, <1>3, RunnerTypeCorrect, MarkStep, DiskStep, PTL DEF RunnerSpec

-----------------------------------------------------------------------------
(* What the holder of the file lock has found missing stays unmarked until *)
(* it installs it itself: the reason to look again under the lock.         *)

FreshInv ==
  wipes = 0 => \A c \in Call :
    /\ stage[c] = "install" /\ ~depsReady[c] => ~depsMark
    /\ stage[c] \in {"install", "npm", "markDeps", "engine"} /\ ~engineReady[c] =>
         EngineOf[c] \notin engineMarks

LEMMA FreshStep ==
  RunnerTypeOK /\ LockInv /\ DiskInv /\ FreshInv /\ [RunnerNext]_runnerVars => FreshInv'
<1> USE SharingAssumption DEF RunnerTypeOK, LockInv, Locked, DiskInv, FreshInv
<1> SUFFICES ASSUME RunnerTypeOK, LockInv, DiskInv, FreshInv, [RunnerNext]_runnerVars
             PROVE  FreshInv'
  OBVIOUS
<1>1. ASSUME NEW c \in Call, Start(c) \/ Fails(c) PROVE FreshInv'
  BY <1>1 DEF Start, Fails
<1>2. ASSUME NEW c \in Call, LockMutex(c) PROVE FreshInv'
  BY <1>2 DEF LockMutex
<1>3. ASSUME NEW c \in Call, Check(c) PROVE FreshInv'
  BY <1>3 DEF Check
<1>4. ASSUME NEW c \in Call, LockRunner(c) PROVE FreshInv'
  BY <1>4 DEF LockRunner
<1>5. ASSUME NEW c \in Call, Recheck(c) PROVE FreshInv'
  BY <1>5 DEF Recheck
<1>6. ASSUME NEW c \in Call, SkipDeps(c) \/ RunNpm(c) PROVE FreshInv'
  BY <1>6 DEF SkipDeps, RunNpm
<1>7. ASSUME NEW c \in Call, MarkDeps(c) PROVE FreshInv'
  BY <1>7 DEF MarkDeps
<1>8. ASSUME NEW c \in Call, SkipEngine(c) \/ RunNpx(c) PROVE FreshInv'
  BY <1>8 DEF SkipEngine, RunNpx
<1>9. ASSUME NEW c \in Call, MarkEngine(c) PROVE FreshInv'
  BY <1>9 DEF MarkEngine
<1>10. ASSUME NEW c \in Call, Extract(c) PROVE FreshInv'
  BY <1>10 DEF Extract
<1>11. ASSUME NEW c \in Call, NpmExits(c) PROVE FreshInv'
  BY <1>11 DEF NpmExits
<1>12. ASSUME NEW c \in Call, NpxExits(c) PROVE FreshInv'
  BY <1>12 DEF NpxExits
<1>13. ASSUME NEW c \in Call, InstallerFails(c) PROVE FreshInv'
  BY <1>13 DEF InstallerFails
<1>14. ASSUME NEW p \in Process, Kill(p) PROVE FreshInv'
  BY <1>14 DEF Kill
<1>15. CASE Wipe
  BY <1>15 DEF Wipe
<1>16. CASE UNCHANGED runnerVars
  BY <1>16 DEF runnerVars
<1> QED
  BY <1>1, <1>2, <1>3, <1>4, <1>5, <1>6, <1>7, <1>8,
     <1>9, <1>10, <1>11, <1>12, <1>13, <1>14, <1>15, <1>16
     DEF RunnerNext, CallStep, Install

(* runner.go:62,113-119: no installer is started for what is installed.    *)
THEOREM InstalledOnce == RunnerSpec => NothingInstalledTwice
<1> DEFINE Needed == wipes = 0 => \A c \in Call : child[c] = "none" =>
                       /\ child'[c] = "npm" => ~NodeDepsReady
                       /\ child'[c] = "npx" => ~EngineSentinelExists(EngineOf[c])
<1>1. RunnerInit => LockInv /\ MarkInv /\ DiskInv /\ FreshInv
  BY DEF RunnerInit, LockInv, Locked, MarkInv, DiskInv, Have, Guaranteed, FreshInv
<1>2. RunnerTypeOK /\ FreshInv /\ [RunnerNext]_runnerVars => [Needed]_runnerVars
  BY DEF RunnerTypeOK, FreshInv, RunnerNext, runnerVars, CallStep, Install, Start,
         LockMutex, Check, LockRunner, Recheck, SkipDeps, RunNpm, MarkDeps, SkipEngine, RunNpx, MarkEngine, Fails, Extract,
         NpmExits, NpxExits, InstallerFails, Kill, Wipe
<1> QED
  BY <1>1, <1>2, RunnerTypeCorrect, LockStep, MarkStep, DiskStep, FreshStep, PTL
     DEF RunnerSpec, NothingInstalledTwice
=============================================================================
