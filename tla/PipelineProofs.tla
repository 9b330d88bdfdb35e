--------------------------- MODULE PipelineProofs ---------------------------
(***************************************************************************)
(* Proofs about Pipeline for any diff, any symbols an extractor finds, any *)
(* page roots and any order of Go's maps.                                  *)
(***************************************************************************)
EXTENDS Pipeline, FilteringProofs, FiniteSetTheorems, TLAPS

LEMMA Ranges == \A q : Range(q) = Elements(q)
BY DEF Range, Elements

LEMMA OneElement ==
  ASSUME NEW x
  PROVE  /\ IsList(<<x>>) /\ Elements(<<x>>) = {x} /\ Len(<<x>>) = 1
         /\ DOMAIN <<x>> = 1..1 /\ <<x>>[1] = x
<1>1. <<x>> \in Seq({x}) /\ DOMAIN <<x>> = 1..1 /\ <<x>>[1] = x /\ Len(<<x>>) = 1
  OBVIOUS
<1>2. Elements(<<x>>) = {x}
  BY <1>1 DEF Elements
<1> QED
  BY <1>1, <1>2 DEF IsList

-----------------------------------------------------------------------------
(* The tests of one file.                                                  *)

Fits(it, bdd) == it.template \in Journey => (it.template = "pw_feature" <=> bdd)

LEMMA PickFits ==
  ASSUME NEW s, NEW layout
  PROVE  LET t == PickTemplate(s, layout) IN
         /\ t \in Journey => s.kind = "component" /\ (t = "pw_feature" <=> layout.UsesBDD)
         /\ t # "pw_happyflow"
<1> DEFINE t == PickTemplate(s, layout)
<1>1. CASE s.hint \in GRPC
  BY <1>1 DEF PickTemplate, GRPC, Journey
<1>2. CASE s.hint \notin GRPC /\ s.lang = "ts"
  BY <1>2 DEF PickTemplate, Journey
<1>3. CASE s.hint \notin GRPC /\ s.lang # "ts"
  BY <1>3 DEF PickTemplate, Journey
<1> QED
  BY <1>1, <1>2, <1>3

LEMMA ItemFields ==
  \A s, t, out : /\ Item(s, t, out).symbol = s /\ Item(s, t, out).template = t
                 /\ Item(s, t, out).symbols = << >>
BY DEF Item

LEMMA AspectsOf ==
  ASSUME NEW s
  PROVE  /\ IsList(FanOutAspects(s))
         /\ \A it \in Elements(FanOutAspects(s)) :
              it.symbol = s /\ it.symbols = << >> /\ it.template \notin Journey
<1> DEFINE T == {a \in Range(Aspects) : /\ a \in s.aspects \cup {s.job}
                                        /\ a = "property" => s.kind \in {"function", "method"}}
           wanted == Only(Aspects, T)
           all == FanOutAspects(s)
<1>1. IsList(Aspects) /\ \A a \in Elements(Aspects) : AspectTemplate[a] \notin Journey
  <2>1. DOMAIN Aspects = 1..8
    BY DEF Aspects
  <2> DEFINE Names == {"property", "validator", "serialization", "store", "constructor",
                       "cron", "event", "email"}
  <2>2. \A i \in 1..8 : Aspects[i] \in Names
    BY DEF Aspects
  <2>3. \A a \in Names : AspectTemplate[a] \notin Journey
    BY DEF AspectTemplate, Journey
  <2>4. IsList(Aspects)
    <3>1. Aspects = [i \in 1..8 |-> Aspects[i]]
      BY DEF Aspects
    <3>2. 8 \in Nat
      OBVIOUS
    <3> QED
      BY <2>1, <3>1, <3>2, ListMade
  <2> HIDE DEF Names
  <2> QED
    BY <2>1, <2>2, <2>3, <2>4 DEF Elements
<1>2. IsList(wanted) /\ Elements(wanted) \subseteq Elements(Aspects)
  <2> HIDE DEF T
  <2> QED
    BY <1>1, ListOnly
<1>3. all = [i \in DOMAIN wanted |-> AspectItem(s, wanted[i])]
  BY DEF FanOutAspects
<1> HIDE DEF wanted, all
<1>4. Len(wanted) \in Nat /\ DOMAIN wanted = 1..Len(wanted)
  BY <1>2, ListBasics
<1>5. IsList(all) /\ DOMAIN all = DOMAIN wanted
  <2>1. DOMAIN all = 1..Len(wanted) /\ all = [i \in 1..Len(wanted) |-> all[i]]
    BY <1>3, <1>4
  <2> QED
    BY <1>4, <2>1, ListMade
<1>6. ASSUME NEW i \in DOMAIN all
      PROVE  all[i].symbol = s /\ all[i].symbols = << >> /\ all[i].template \notin Journey
  <2>0. i \in DOMAIN wanted /\ wanted[i] \in Elements(wanted)
    BY <1>5 DEF Elements
  <2>1. all[i] = AspectItem(s, wanted[i]) /\ wanted[i] \in Elements(Aspects)
    BY <1>2, <1>3, <2>0
  <2>2. /\ all[i].symbol = s /\ all[i].symbols = << >>
        /\ all[i].template = AspectTemplate[wanted[i]]
    BY <2>1, ItemFields DEF AspectItem
  <2> QED
    BY <1>1, <2>1, <2>2
<1>7. \A it \in Elements(all) :
        it.symbol = s /\ it.symbols = << >> /\ it.template \notin Journey
  BY <1>6 DEF Elements
<1> QED
  BY <1>5, <1>7 DEF all

BaseTest(s) == Item(s, PickTemplate(s, Layout), TestPathFor(s, PickTemplate(s, Layout), Layout))
TestsOf(s) == <<BaseTest(s)>> \o FanOutAspects(s)

(* Tests of components that are of different components.                   *)
Apart(S) ==
  {p \in S \X S :
     IsComponentTest(p[1]) /\ IsComponentTest(p[2]) => At(p[1].symbol) # At(p[2].symbol)}
ComponentsApart(q) == Pairwise(q, Apart(Elements(q)))

LEMMA ApartIn ==
  ASSUME NEW q, ComponentsApart(q), NEW S, Elements(q) \subseteq S
  PROVE  Pairwise(q, Apart(S))
BY DEF ComponentsApart, Pairwise, Apart

LEMMA ApartOf ==
  ASSUME NEW q, NEW S, Pairwise(q, Apart(S))
  PROVE  ComponentsApart(q)
<1> SUFFICES ASSUME NEW i \in DOMAIN q, NEW k \in DOMAIN q, i # k
             PROVE  <<q[i], q[k]>> \in Apart(Elements(q))
  BY DEF ComponentsApart, Pairwise
<1>1. <<q[i], q[k]>> \in Apart(S) /\ q[i] \in Elements(q) /\ q[k] \in Elements(q)
  BY DEF Pairwise, Elements
<1> QED
  BY <1>1 DEF Apart

IsTestOf(it, s) ==
  /\ it.symbol = s /\ it.symbols = << >>
  /\ Fits(it, Layout.UsesBDD)
  /\ it.template # "pw_happyflow"
  /\ IsComponentTest(it) => s.kind = "component"

LEMMA TestsShape ==
  ASSUME NEW s
  PROVE  /\ IsList(TestsOf(s)) /\ TestsOf(s) # << >>
         /\ BaseTest(s) \in Elements(TestsOf(s))
         /\ \A it \in Elements(TestsOf(s)) : IsTestOf(it, s)
         /\ ComponentsApart(TestsOf(s))
<1> DEFINE b == BaseTest(s)  a == FanOutAspects(s)  all == <<b>> \o a
<1>1. IsTestOf(b, s)
  <2>1. b.symbol = s /\ b.symbols = << >> /\ b.template = PickTemplate(s, Layout)
    BY DEF BaseTest, Item
  <2> HIDE DEF b
  <2> QED
    BY <2>1, PickFits DEF IsTestOf, Fits, IsComponentTest, Journey
<1>2. /\ IsList(a)
      /\ \A it \in Elements(a) :
           it.symbol = s /\ it.symbols = << >> /\ it.template \notin Journey
  BY AspectsOf
<1> HIDE DEF b, a
<1>3. /\ IsList(all) /\ Elements(all) = {b} \cup Elements(a)
      /\ Len(all) = 1 + Len(a) /\ all[1] = b
      /\ \A i \in 1..Len(a) : all[1 + i] = a[i]
  <2>1. IsList(<<b>>) /\ Elements(<<b>>) = {b} /\ Len(<<b>>) = 1 /\ <<b>>[1] = b
    BY OneElement
  <2> DEFINE c == <<b>>
  <2> HIDE DEF c
  <2>2. IsList(c) /\ Elements(c) = {b} /\ Len(c) = 1 /\ c[1] = b
    BY <2>1 DEF c
  <2>3. /\ IsList(c \o a) /\ Elements(c \o a) = Elements(c) \cup Elements(a)
        /\ Len(c \o a) = Len(c) + Len(a)
        /\ \A i \in 1..Len(c) : (c \o a)[i] = c[i]
        /\ \A i \in 1..Len(a) : (c \o a)[Len(c) + i] = a[i]
    BY <1>2, <2>2, ListConcat
  <2> QED
    BY <2>2, <2>3 DEF c
<1> HIDE DEF all
<1>4. Len(a) \in Nat /\ DOMAIN all = 1..1 + Len(a)
  BY <1>2, <1>3, ListBasics
<1>5. \A it \in Elements(a) : IsTestOf(it, s) /\ ~IsComponentTest(it)
  BY <1>2 DEF IsTestOf, Fits, IsComponentTest, Journey
<1>6. ComponentsApart(all)
  <2> SUFFICES ASSUME NEW i \in DOMAIN all, NEW k \in DOMAIN all, i # k
               PROVE  <<all[i], all[k]>> \in Apart(Elements(all))
    BY DEF ComponentsApart, Pairwise
  <2>1. all[i] \in Elements(all) /\ all[k] \in Elements(all)
    BY DEF Elements
  <2>2. \A j \in DOMAIN all : j # 1 => ~IsComponentTest(all[j])
    <3> SUFFICES ASSUME NEW j \in DOMAIN all, j # 1 PROVE ~IsComponentTest(all[j])
      OBVIOUS
    <3>1. j - 1 \in 1..Len(a) /\ 1 + (j - 1) = j
      BY <1>4
    <3>2. all[j] = a[j - 1] /\ a[j - 1] \in Elements(a)
      BY <1>2, <1>3, <3>1, ListBasics
    <3> QED
      BY <1>5, <3>2
  <2> QED
    BY <2>1, <2>2 DEF Apart
<1>7. all # << >>
  BY <1>4
<1> QED
  BY <1>1, <1>3, <1>5, <1>6, <1>7 DEF all, b, a, TestsOf

Known(f) == IF f.status # "removed" /\ f.path \in Paths THEN SymbolsOf[f.path] ELSE << >>
Hit(f) == Only(Known(f), {s \in Range(Known(f)) : Intersects(f.added, s.line, s.end)})

OnOtherLines(S) ==
  {p \in S \X S : p[1].kind = "component" /\ p[2].kind = "component" => p[1].line # p[2].line}

(* What an extractor records of where a symbol is.                         *)
IsSpan(s) ==
  /\ s.line \in Nat /\ s.end \in Nat
  /\ s.end = 0 \/ s.line <= s.end
  /\ s.kind = "component" => s.line # 0

LEMMA HitShape ==
  ASSUME NEW f
  PROVE  /\ IsList(Hit(f))
         /\ Elements(Hit(f)) = {s \in Elements(Known(f)) : Intersects(f.added, s.line, s.end)}
         /\ Pairwise(Hit(f), OnOtherLines(Elements(Known(f))))
         /\ \A s \in Elements(Known(f)) :
              /\ f.path \in Paths /\ s \in Elements(SymbolsOf[f.path])
              /\ {"file", "line", "links"} \subseteq DOMAIN s
              /\ s.file = f.path /\ IsSpan(s)
<1> DEFINE T == {s \in Range(Known(f)) : Intersects(f.added, s.line, s.end)}
<1>1. /\ IsList(Known(f)) /\ Pairwise(Known(f), OnOtherLines(Elements(Known(f))))
      /\ \A s \in Elements(Known(f)) :
           /\ f.path \in Paths /\ s \in Elements(SymbolsOf[f.path])
           /\ {"file", "line", "links"} \subseteq DOMAIN s
           /\ s.file = f.path /\ IsSpan(s)
  <2>1. CASE f.status # "removed" /\ f.path \in Paths
    <3> DEFINE q == SymbolsOf[f.path]
    <3>1. Known(f) = q
      BY <2>1 DEF Known
    <3>2. /\ IsList(q)
          /\ \A s \in Range(q) :
               /\ {"file", "line", "links"} \subseteq DOMAIN s
               /\ s.file = f.path /\ IsSpan(s)
          /\ \A i, k \in DOMAIN q :
               i # k /\ q[i].kind = "component" /\ q[k].kind = "component" =>
                 q[i].line # q[k].line
      BY <2>1, SymbolsAssumption DEF IsSpan
    <3> HIDE DEF q
    <3>3. Pairwise(q, OnOtherLines(Elements(q)))
      BY <3>2 DEF Pairwise, OnOtherLines, Elements
    <3>4. \A s \in Elements(q) : s \in Range(q)
      BY Ranges
    <3> QED
      BY <2>1, <3>1, <3>2, <3>3, <3>4 DEF q
  <2>2. CASE ~(f.status # "removed" /\ f.path \in Paths)
    <3>1. Known(f) = << >>
      BY <2>2 DEF Known
    <3>2. Elements(<< >>) = {} /\ << >> \in Seq({})
      BY DEF Elements
    <3> QED
      BY <3>1, <3>2 DEF IsList, Pairwise
  <2> QED
    BY <2>1, <2>2
<1> HIDE DEF T
<1>2. IsList(Only(Known(f), T)) /\ Elements(Only(Known(f), T)) = Elements(Known(f)) \cap T
  BY <1>1, ListOnly
<1>3. Pairwise(Only(Known(f), T), OnOtherLines(Elements(Known(f))))
  BY <1>1, OnlyPairs
<1>4. Hit(f) = Only(Known(f), T)
  BY DEF Hit, T
<1>5. Elements(Known(f)) \cap T = {s \in Elements(Known(f)) : Intersects(f.added, s.line, s.end)}
  BY Ranges DEF T
<1> QED
  BY <1>1, <1>2, <1>3, <1>4, <1>5

LEMMA ItemsShape ==
  ASSUME NEW f
  PROVE  /\ IsList(ItemsOf(f))
         /\ \A it \in Elements(ItemsOf(f)) : \E s \in Elements(Hit(f)) : IsTestOf(it, s)
         /\ \A s \in Elements(Hit(f)) : \E it \in Elements(ItemsOf(f)) : it.symbol = s
         /\ ComponentsApart(ItemsOf(f))
<1> DEFINE hit == Hit(f)
           parts == [i \in DOMAIN hit |-> TestsOf(hit[i])]
<1>1. ItemsOf(f) = FlattenSeq(parts)
  BY DEF ItemsOf, Hit, Known, TestsOf, BaseTest
<1>2. /\ IsList(hit) /\ Pairwise(hit, OnOtherLines(Elements(Known(f))))
      /\ Len(hit) \in Nat /\ DOMAIN hit = 1..Len(hit)
      /\ \A i \in DOMAIN hit : hit[i] \in Elements(Known(f)) /\ hit[i] \in Elements(hit)
      /\ \A s \in Elements(Known(f)) : s.file = f.path
  <2>1. IsList(hit)
    BY HitShape
  <2> QED
    BY <2>1, HitShape, ListBasics
<1> HIDE DEF hit
<1>3. \A i \in DOMAIN hit : parts[i] = TestsOf(hit[i])
  OBVIOUS
<1>4. IsListOfLists(parts) /\ DOMAIN parts = DOMAIN hit /\ Len(parts) = Len(hit)
  <2>1. DOMAIN parts = 1..Len(hit) /\ parts = [i \in 1..Len(hit) |-> parts[i]]
    BY <1>2
  <2>2. \A i \in DOMAIN parts : IsList(parts[i])
    BY <1>2, <1>3, <2>1, TestsShape
  <2> HIDE DEF parts
  <2>3. IsList(parts) /\ Len(parts) = Len(hit)
    BY <1>2, <2>1, ListMade
  <2> QED
    BY <1>2, <2>1, <2>2, <2>3 DEF IsListOfLists
<1> HIDE DEF parts
<1>5. /\ IsList(FlattenSeq(parts))
      /\ Elements(FlattenSeq(parts)) = AllOf(parts, Len(parts))
  BY <1>4, FlattenList
<1> DEFINE S == AllOf(parts, Len(parts))
<1>6. \A i \in DOMAIN hit : \A it \in Elements(parts[i]) : IsTestOf(it, hit[i]) /\ it \in S
  <2>1. \A i \in DOMAIN hit : \A it \in Elements(parts[i]) : IsTestOf(it, hit[i])
    BY <1>3, TestsShape
  <2>2. \A i \in DOMAIN hit : \A it \in Elements(parts[i]) : it \in S
    BY <1>2, <1>4 DEF AllOf
  <2> QED
    BY <2>1, <2>2
<1>7. \A it \in Elements(ItemsOf(f)) : \E s \in Elements(hit) : IsTestOf(it, s)
  <2> SUFFICES ASSUME NEW it \in Elements(ItemsOf(f))
               PROVE  \E s \in Elements(hit) : IsTestOf(it, s)
    OBVIOUS
  <2>1. PICK i \in 1..Len(parts) : it \in Elements(parts[i])
    BY <1>1, <1>5 DEF AllOf
  <2>2. i \in DOMAIN hit /\ hit[i] \in Elements(hit)
    BY <1>2, <1>4
  <2> QED
    BY <1>6, <2>1, <2>2
<1>8. \A s \in Elements(hit) : \E it \in Elements(ItemsOf(f)) : it.symbol = s
  <2> SUFFICES ASSUME NEW s \in Elements(hit)
               PROVE  \E it \in Elements(ItemsOf(f)) : it.symbol = s
    OBVIOUS
  <2>1. PICK i \in DOMAIN hit : hit[i] = s
    BY DEF Elements
  <2>2. BaseTest(s) \in Elements(parts[i]) /\ BaseTest(s).symbol = s
    BY <1>3, <2>1, TestsShape DEF IsTestOf
  <2>3. BaseTest(s) \in Elements(ItemsOf(f))
    BY <1>1, <1>5, <1>6, <2>1, <2>2
  <2> QED
    BY <2>2, <2>3
<1>9. Pairwise(FlattenSeq(parts), Apart(S))
  <2>1. ASSUME NEW i \in DOMAIN parts PROVE Pairwise(parts[i], Apart(S))
    <3>1. ComponentsApart(parts[i]) /\ Elements(parts[i]) \subseteq S
      BY <1>3, <1>4, <1>6, TestsShape
    <3> HIDE DEF S
    <3> QED
      BY <3>1, ApartIn
  <2>2. ASSUME NEW i \in DOMAIN parts, NEW k \in DOMAIN parts, i # k,
               NEW x \in Elements(parts[i]), NEW y \in Elements(parts[k])
        PROVE  <<x, y>> \in Apart(S)
    <3>1. /\ IsTestOf(x, hit[i]) /\ IsTestOf(y, hit[k]) /\ x \in S /\ y \in S
          /\ i \in DOMAIN hit /\ k \in DOMAIN hit
      BY <1>4, <1>6
    <3>2. <<hit[i], hit[k]>> \in OnOtherLines(Elements(Known(f)))
      BY <1>2, <2>2, <3>1 DEF Pairwise
    <3>3. hit[i].kind = "component" /\ hit[k].kind = "component" => hit[i].line # hit[k].line
      BY <3>2 DEF OnOtherLines
    <3>4. IsComponentTest(x) /\ IsComponentTest(y) => At(x.symbol) # At(y.symbol)
      BY <3>1, <3>3 DEF IsTestOf, At
    <3> HIDE DEF S
    <3> QED
      BY <3>1, <3>4 DEF Apart
  <2> HIDE DEF S
  <2> QED
    BY <1>4, <2>1, <2>2, FlattenPairs
<1>10. ComponentsApart(ItemsOf(f))
  BY <1>1, <1>9, ApartOf
<1> QED
  BY <1>1, <1>5, <1>7, <1>8, <1>10 DEF hit

-----------------------------------------------------------------------------
(* The loop over the lines of a diff.                                      *)

(* g[i] is the state of the loop after i lines.                            *)
Scans(g, st, lines) ==
  /\ g[0] = st
  /\ \A i \in 1..Len(lines) : g[i] = Scan(g[i - 1], lines[i])

LEMMA ScanExists ==
  ASSUME NEW st, NEW lines, IsList(lines)
  PROVE  \E g : Scans(g, st, lines) /\ ScanAll(st, lines) = g[Len(lines)]
<1> DEFINE L == Len(lines)
           Def(g, n) == g = [i \in 0..n |-> IF i = 0 THEN st ELSE Scan(g[i - 1], lines[i])]
           T == {n \in Nat : \E g : Def(g, n)}
           f == CHOOSE g : Def(g, L)
<1>1. L \in Nat
  BY ListBasics
<1>2. 0 \in T
  <2> DEFINE g == [i \in 0..0 |-> st]
  <2>1. Def(g, 0)
    OBVIOUS
  <2> QED
    BY <2>1
<1>3. ASSUME NEW n \in T PROVE n + 1 \in T
  <2>1. PICK g : Def(g, n)
    OBVIOUS
  <2> DEFINE h == [i \in 0..n + 1 |-> IF i = n + 1 THEN Scan(g[n], lines[n + 1]) ELSE g[i]]
  <2>2. ASSUME NEW i \in 0..n + 1
        PROVE  h[i] = IF i = 0 THEN st ELSE Scan(h[i - 1], lines[i])
    <3>1. CASE i = n + 1
      <4>1. i # 0 /\ i - 1 = n /\ n \in 0..n + 1 /\ n # n + 1
        BY <3>1
      <4>2. h[i - 1] = g[n] /\ h[i] = Scan(g[n], lines[n + 1])
        BY <3>1, <4>1
      <4> QED
        BY <3>1, <4>1, <4>2
    <3>2. CASE i \in 0..n
      <4>1. h[i] = g[i] /\ (i # 0 => h[i - 1] = g[i - 1])
        BY <3>2
      <4>2. g[i] = IF i = 0 THEN st ELSE Scan(g[i - 1], lines[i])
        BY <2>1, <3>2, Zenon
      <4> QED
        BY <4>1, <4>2
    <3> QED
      BY <3>1, <3>2
  <2>3. h = [i \in 0..n + 1 |-> h[i]]
    OBVIOUS
  <2> HIDE DEF h
  <2>4. Def(h, n + 1)
    BY <2>2, <2>3
  <2> HIDE DEF Def
  <2> QED
    BY <2>4
<1>4. L \in T
  <2>1. T \subseteq Nat
    OBVIOUS
  <2> HIDE DEF T
  <2>2. T = Nat
    BY <1>2, <1>3, <2>1, SetInduction
  <2> QED
    BY <1>1, <2>2
<1>5. Def(f, L)
  <2>1. \E g : Def(g, L)
    BY <1>4
  <2> HIDE DEF Def
  <2> QED
    BY <2>1
<1>6. ScanAll(st, lines) = f[L]
  BY DEF ScanAll
<1>7. Scans(f, st, lines)
  <2> HIDE DEF f
  <2>1. \A i \in 0..L : f[i] = IF i = 0 THEN st ELSE Scan(f[i - 1], lines[i])
    BY <1>5, Zenon
  <2>2. f[0] = st
    BY <1>1, <2>1
  <2>3. \A i \in 1..L : f[i] = Scan(f[i - 1], lines[i])
    BY <1>1, <2>1
  <2> QED
    BY <2>2, <2>3 DEF Scans
<1> HIDE DEF f
<1> QED
  BY <1>6, <1>7

LEMMA ScanUnique ==
  ASSUME NEW st, NEW lines, IsList(lines), NEW g, Scans(g, st, lines)
  PROVE  ScanAll(st, lines) = g[Len(lines)]
<1>1. PICK f : Scans(f, st, lines) /\ ScanAll(st, lines) = f[Len(lines)]
  BY ScanExists
<1> DEFINE N == {i \in Nat : i <= Len(lines) => f[i] = g[i]}
<1>2. Len(lines) \in Nat
  BY ListBasics
<1>3. 0 \in N
  BY <1>1 DEF Scans
<1>4. ASSUME NEW i \in N PROVE i + 1 \in N
  <2> SUFFICES ASSUME i + 1 <= Len(lines) PROVE f[i + 1] = g[i + 1]
    OBVIOUS
  <2>1. i + 1 \in 1..Len(lines) /\ (i + 1) - 1 = i /\ f[i] = g[i]
    BY <1>2
  <2>2. f[i + 1] = Scan(f[i], lines[i + 1]) /\ g[i + 1] = Scan(g[i], lines[i + 1])
    BY <1>1, <2>1 DEF Scans
  <2> QED
    BY <2>1, <2>2
<1>5. N \subseteq Nat
  OBVIOUS
<1>6. Len(lines) \in N
  <2> HIDE DEF N
  <2> QED
    BY <1>2, <1>3, <1>4, <1>5, SetInduction
<1> QED
  BY <1>1, <1>6

LEMMA ScanConcat ==
  ASSUME NEW st, NEW a, IsList(a), NEW b, IsList(b)
  PROVE  ScanAll(st, a \o b) = ScanAll(ScanAll(st, a), b)
<1> DEFINE mid == ScanAll(st, a)
<1>1. PICK f : Scans(f, st, a) /\ mid = f[Len(a)]
  BY ScanExists
<1>2. PICK g : Scans(g, mid, b) /\ ScanAll(mid, b) = g[Len(b)]
  BY ScanExists
<1> HIDE DEF mid
<1>3. /\ IsList(a \o b) /\ Len(a \o b) = Len(a) + Len(b)
      /\ \A i \in 1..Len(a) : (a \o b)[i] = a[i]
      /\ \A i \in 1..Len(b) : (a \o b)[Len(a) + i] = b[i]
      /\ Len(a) \in Nat /\ Len(b) \in Nat
  <2>1. /\ IsList(a \o b) /\ Elements(a \o b) = Elements(a) \cup Elements(b)
        /\ Len(a \o b) = Len(a) + Len(b)
        /\ \A i \in 1..Len(a) : (a \o b)[i] = a[i]
        /\ \A i \in 1..Len(b) : (a \o b)[Len(a) + i] = b[i]
    BY ListConcat
  <2>2. Len(a) \in Nat /\ Len(b) \in Nat
    BY ListBasics
  <2> QED
    BY <2>1, <2>2
<1> DEFINE h == [i \in 0..Len(a) + Len(b) |-> IF i <= Len(a) THEN f[i] ELSE g[i - Len(a)]]
           c == a \o b
<1>4. ASSUME NEW i \in 1..Len(c) PROVE h[i] = Scan(h[i - 1], c[i])
  <2>1. CASE i <= Len(a)
    <3>1. /\ i \in 1..Len(a) /\ i - 1 <= Len(a)
          /\ i - 1 \in 0..Len(a) + Len(b) /\ i \in 0..Len(a) + Len(b)
      BY <1>3, <2>1
    <3>2. h[i] = f[i] /\ h[i - 1] = f[i - 1] /\ c[i] = a[i]
      BY <1>3, <2>1, <3>1
    <3>3. f[i] = Scan(f[i - 1], a[i])
      BY <1>1, <3>1 DEF Scans
    <3> QED
      BY <3>2, <3>3
  <2>2. CASE i > Len(a)
    <3> DEFINE k == i - Len(a)
    <3>1. /\ k \in 1..Len(b) /\ Len(a) + k = i /\ i \in 0..Len(a) + Len(b)
          /\ i - 1 \in 0..Len(a) + Len(b) /\ ~(i <= Len(a))
          /\ (i - 1) - Len(a) = k - 1 /\ i \in Nat
      BY <1>3, <2>2
    <3>2. h[i] = g[k] /\ c[i] = b[k]
      BY <1>3, <3>1
    <3>3. h[i - 1] = g[k - 1]
      <4>1. CASE i - 1 <= Len(a)
        <5>1. i - 1 = Len(a) /\ k - 1 = 0
          BY <1>3, <3>1, <4>1
        <5> QED
          BY <1>1, <1>2, <3>1, <5>1 DEF Scans
      <4>2. CASE ~(i - 1 <= Len(a))
        BY <3>1, <4>2
      <4> QED
        BY <4>1, <4>2
    <3>4. g[k] = Scan(g[k - 1], b[k])
      BY <1>2, <3>1 DEF Scans
    <3> QED
      BY <3>2, <3>3, <3>4
  <2> QED
    BY <1>3, <2>1, <2>2
<1>5. h[0] = st
  BY <1>1, <1>3 DEF Scans
<1>6. h[Len(c)] = g[Len(b)]
  <2>1. CASE Len(b) = 0
    BY <1>1, <1>2, <1>3, <2>1 DEF Scans
  <2>2. CASE Len(b) # 0
    BY <1>3, <2>2
  <2> QED
    BY <2>1, <2>2
<1> HIDE DEF h, c
<1>7. Scans(h, st, c)
  BY <1>4, <1>5 DEF Scans
<1>8. ScanAll(st, c) = h[Len(c)]
  BY <1>3, <1>7, ScanUnique DEF c
<1> QED
  BY <1>2, <1>6, <1>8 DEF c, mid

LEMMA ScanNothing ==
  ASSUME NEW st
  PROVE  ScanAll(st, << >>) = st
<1> DEFINE g == [i \in 0..0 |-> st]
<1>1. Scans(g, st, << >>)
  BY DEF Scans
<1>2. IsList(<< >>)
  BY DEF IsList
<1>3. ScanAll(st, << >>) = g[Len(<< >>)]
  BY <1>1, <1>2, ScanUnique
<1> QED
  BY <1>3

LEMMA ScanOne ==
  ASSUME NEW st, NEW x
  PROVE  ScanAll(st, <<x>>) = Scan(st, x)
<1> DEFINE g == [i \in 0..1 |-> IF i = 0 THEN st ELSE Scan(st, x)]
           lines == <<x>>
<1>1. IsList(lines) /\ Len(lines) = 1 /\ lines[1] = x
  BY OneElement
<1> HIDE DEF lines
<1>2. Scans(g, st, lines)
  <2>1. g[0] = st /\ g[1] = Scan(g[0], x)
    OBVIOUS
  <2>2. \A i \in 1..1 : i = 1 /\ i - 1 = 0
    OBVIOUS
  <2> HIDE DEF g
  <2> QED
    BY <1>1, <2>1, <2>2 DEF Scans
<1>3. ScanAll(st, lines) = g[1]
  <2> HIDE DEF g
  <2> QED
    BY <1>1, <1>2, ScanUnique
<1> QED
  BY <1>3 DEF lines

-----------------------------------------------------------------------------
(* The elements of a finite set in some order.                             *)

LEMMA FiniteImage ==
  ASSUME NEW S, IsFiniteSet(S), NEW T, NEW f \in [S -> T], \A t \in T : \E s \in S : f[s] = t
  PROVE  IsFiniteSet(T)
<1>1. f \in Surjection(S, T)
  BY DEF Surjection
<1> QED
  BY <1>1, FS_Surjection

LEMMA SomeOrder ==
  ASSUME NEW S, IsFiniteSet(S), NEW q \in SetToSeqs(S)
  PROVE  IsList(q) /\ Elements(q) = S /\ Len(q) = Cardinality(S)
<1> DEFINE n == Cardinality(S)
<1>1. n \in Nat
  BY FS_CardinalityType
<1>2. q \in [1..n -> S] /\ \A i, j \in 1..n : i # j => q[i] # q[j]
  BY DEF SetToSeqs
<1> HIDE DEF n
<1>3. IsList(q) /\ Len(q) = n /\ DOMAIN q = 1..n
  <2>1. DOMAIN q = 1..n /\ q = [i \in 1..n |-> q[i]]
    BY <1>2
  <2> QED
    BY <1>1, <2>1, ListMade
<1>4. q \in Injection(1..n, S)
  BY <1>2 DEF Injection, IsInjective
<1>5. Cardinality(1..n) = n
  <2>1. 1 \in Int /\ n \in Int
    BY <1>1
  <2>2. Cardinality(1..n) = IF 1 > n THEN 0 ELSE n - 1 + 1
    BY <2>1, FS_Interval
  <2> QED
    BY <1>1, <2>2
<1>6. q \in Surjection(1..n, S)
  BY <1>4, <1>5, FS_Injection DEF n
<1>7. Elements(q) = S
  BY <1>2, <1>3, <1>6 DEF Elements, Surjection
<1> QED
  BY <1>3, <1>7 DEF n

LEMMA PageRootsList ==
  ASSUME NEW input \in Inputs, NEW found \in FindPageRoots(input.tree, Size),
         NEW q \in ApplyPageURLOverrides(found, input.urls)
  PROVE  IsList(q)
<1>1. IsFiniteSet(input.tree) /\ IsFiniteSet(DOMAIN input.urls)
  BY InputsAssumption
<1> DEFINE files0 == {f \in input.tree : Walked(f.path) /\ IsPageFile(f.path) /\ f.markup}
           rs == {PageRoot(f) : f \in files0}
<1>2. IsFiniteSet(rs)
  <2>1. IsFiniteSet(files0)
    BY <1>1, FS_Subset
  <2>2. [f \in files0 |-> PageRoot(f)] \in [files0 -> rs]
    OBVIOUS
  <2>3. \A r \in rs : \E f \in files0 : [g \in files0 |-> PageRoot(g)][f] = r
    OBVIOUS
  <2> HIDE DEF files0, rs
  <2> QED
    BY <2>1, <2>2, <2>3, FiniteImage
<1>3. found \in SetToSeqs(rs)
  BY DEF FindPageRoots
<1>4. IsList(found) /\ Len(found) \in Nat /\ DOMAIN found = 1..Len(found)
  <2> HIDE DEF rs
  <2>1. IsList(found)
    BY <1>2, <1>3, SomeOrder
  <2> QED
    BY <2>1, ListBasics
<1> HIDE DEF rs, files0
<1> DEFINE other == DOMAIN input.urls \ {found[i].path : i \in DOMAIN found}
           made(path) == [path |-> path, stem |-> Stem(path), url |-> input.urls[path],
                          isHTML |-> IsHTMLExt(path), anchors |-> << >>, links |-> << >>,
                          hasForm |-> FALSE, mounted |-> {}]
           os == {made(path) : path \in other}
           given == [i \in DOMAIN found |->
                       IF found[i].path \in DOMAIN input.urls
                       THEN [found[i] EXCEPT !.url = input.urls[found[i].path]] ELSE found[i]]
<1>5. IsFiniteSet(os)
  <2>1. IsFiniteSet(other)
    BY <1>1, FS_Subset
  <2>2. [path \in other |-> made(path)] \in [other -> os]
    OBVIOUS
  <2>3. \A r \in os : \E path \in other : [p \in other |-> made(p)][path] = r
    OBVIOUS
  <2> HIDE DEF other, made, os
  <2> QED
    BY <2>1, <2>2, <2>3, FiniteImage
<1>6. IsList(given)
  <2>1. DOMAIN given = 1..Len(found) /\ given = [i \in 1..Len(found) |-> given[i]]
    BY <1>4
  <2> HIDE DEF given
  <2> QED
    BY <1>4, <2>1, ListMade
<1>7. \E rest \in SetToSeqs(os) : q = given \o rest
  BY DEF ApplyPageURLOverrides
<1> HIDE DEF os, given
<1> QED
  BY <1>5, <1>6, <1>7, SomeOrder, ListConcat

-----------------------------------------------------------------------------
(* One framework.  Whichever of the three places makes a journey, its      *)
(* template follows the layout; nothing after that changes a template.     *)

HasFields(it) == {"symbol", "symbols", "template"} \subseteq DOMAIN it

SoundItem(it, bdd) ==
  Fits(it, bdd) /\ (it.template = "pw_happyflow" => HasFields(it))

SoundItems(q, bdd) == IsList(q) /\ \A it \in Elements(q) : SoundItem(it, bdd)

LEMMA SoundConcat ==
  ASSUME NEW bdd, NEW q, SoundItems(q, bdd), NEW r, SoundItems(r, bdd)
  PROVE  SoundItems(q \o r, bdd)
<1>1. IsList(q \o r) /\ Elements(q \o r) = Elements(q) \cup Elements(r)
  BY ListConcat DEF SoundItems
<1> QED
  BY <1>1 DEF SoundItems

LEMMA SoundAppend ==
  ASSUME NEW bdd, NEW q, SoundItems(q, bdd), NEW it, SoundItem(it, bdd)
  PROVE  SoundItems(Append(q, it), bdd)
<1>1. IsList(Append(q, it)) /\ Elements(Append(q, it)) = Elements(q) \cup {it}
  BY ListAppend DEF SoundItems
<1> QED
  BY <1>1 DEF SoundItems

LEMMA SoundOnly ==
  ASSUME NEW bdd, NEW q, SoundItems(q, bdd), NEW T
  PROVE  SoundItems(Only(q, T), bdd)
BY ListOnly DEF SoundItems

LEMMA JourneyFields ==
  ASSUME NEW symbol, NEW symbols, NEW url, NEW layout, NEW stem, NEW grouped
  PROVE  LET it == JourneyItem(symbol, symbols, url, PickJourney(layout, stem, grouped)) IN
         /\ it.symbol = symbol /\ it.symbols = symbols
         /\ it.template \in Journey
         /\ it.template = "pw_happyflow" => grouped
         /\ SoundItem(it, layout.UsesBDD)
<1> DEFINE it == JourneyItem(symbol, symbols, url, PickJourney(layout, stem, grouped))
<1>1. /\ it.symbol = symbol /\ it.symbols = symbols /\ HasFields(it)
      /\ it.template = PickJourney(layout, stem, grouped).template
  BY DEF JourneyItem, HasFields
<1>2. it.template = IF layout.UsesBDD THEN "pw_feature"
                    ELSE IF grouped THEN "pw_happyflow" ELSE "pw_e2e"
  BY <1>1 DEF PickJourney
<1> HIDE DEF it
<1>3. /\ it.template \in Journey
      /\ it.template = "pw_happyflow" => grouped
      /\ SoundItem(it, layout.UsesBDD)
  <2>1. CASE layout.UsesBDD
    BY <1>1, <1>2, <2>1 DEF SoundItem, Fits, Journey
  <2>2. CASE ~layout.UsesBDD
    BY <1>1, <1>2, <2>2 DEF SoundItem, Fits, Journey
  <2> QED
    BY <2>1, <2>2
<1> QED
  BY <1>1, <1>3 DEF it

LEMMA ChainShape ==
  ASSUME NEW q, IsList(q),
         \A it \in Elements(q) : it.template = "pw_happyflow" => HasFields(it)
  PROVE  /\ IsList(ChainMultiStep(q)) /\ DOMAIN ChainMultiStep(q) = DOMAIN q
         /\ \A i \in DOMAIN q :
              LET it == q[i]  out == ChainMultiStep(q)[i] IN
              /\ out.template = it.template /\ out.symbol = it.symbol
              /\ it.template # "pw_happyflow" => out = it
              /\ it.template = "pw_happyflow" =>
                   /\ HasFields(out)
                   /\ out.symbols = Pruned(it.symbols)
<1> DEFINE all == ChainMultiStep(q)
<1>1. Len(q) \in Nat /\ DOMAIN q = 1..Len(q) /\ \A i \in DOMAIN q : q[i] \in Elements(q)
  BY ListBasics
<1>2. IsList(all) /\ DOMAIN all = DOMAIN q
  <2>1. DOMAIN all = 1..Len(q) /\ all = [i \in 1..Len(q) |-> all[i]]
    BY <1>1 DEF ChainMultiStep
  <2> HIDE DEF all
  <2> QED
    BY <1>1, <2>1, ListMade
<1>3. ASSUME NEW i \in DOMAIN q
      PROVE  LET it == q[i]  out == all[i] IN
             /\ out.template = it.template /\ out.symbol = it.symbol
             /\ it.template # "pw_happyflow" => out = it
             /\ it.template = "pw_happyflow" =>
                  /\ HasFields(out)
                  /\ out.symbols = Pruned(it.symbols)
  <2> DEFINE it == q[i]
             kept == Pruned(it.symbols)
  <2>1. all[i] = IF it.template # "pw_happyflow" THEN it ELSE [it EXCEPT !.symbols = kept]
    BY DEF ChainMultiStep
  <2>2. it.template = "pw_happyflow" => HasFields(it)
    BY <1>1
  <2> HIDE DEF it, kept, all
  <2>3. CASE it.template # "pw_happyflow"
    BY <2>1, <2>3 DEF it
  <2>4. CASE it.template = "pw_happyflow"
    <3>1. HasFields(it) /\ all[i] = [it EXCEPT !.symbols = kept]
      BY <2>1, <2>2, <2>4
    <3>2. /\ all[i].template = it.template /\ all[i].symbol = it.symbol
          /\ all[i].symbols = kept /\ HasFields(all[i])
      BY <3>1 DEF HasFields
    <3> QED
      BY <2>4, <3>2 DEF it, kept
  <2> QED
    BY <2>3, <2>4
<1> QED
  BY <1>2, <1>3

LEMMA SoundChain ==
  ASSUME NEW bdd, NEW q, SoundItems(q, bdd)
  PROVE  SoundItems(ChainMultiStep(q), bdd)
<1> DEFINE all == ChainMultiStep(q)
<1>1. IsList(q) /\ \A it \in Elements(q) : it.template = "pw_happyflow" => HasFields(it)
  BY DEF SoundItems, SoundItem
<1>2. /\ IsList(all) /\ DOMAIN all = DOMAIN q
      /\ \A i \in DOMAIN q :
           /\ all[i].template = q[i].template
           /\ q[i].template # "pw_happyflow" => all[i] = q[i]
           /\ q[i].template = "pw_happyflow" => HasFields(all[i])
  BY <1>1, ChainShape
<1> HIDE DEF all
<1>3. ASSUME NEW i \in DOMAIN q PROVE SoundItem(all[i], bdd)
  <2>1. SoundItem(q[i], bdd)
    BY DEF SoundItems, Elements
  <2> QED
    BY <1>2, <2>1 DEF SoundItem, Fits
<1> QED
  BY <1>2, <1>3 DEF SoundItems, Elements, all

RootTest(r, layout) ==
  JourneyItem(Synthetic(r), <<Synthetic(r)>>, r.url, PickJourney(layout, r.stem, TRUE))

LEMMA RootTestsShape ==
  ASSUME NEW rs, IsList(rs), NEW diff, NEW covered, NEW layout
  PROVE  LET q == MaterialisePageRoots(rs, diff, covered, layout) IN
         /\ IsList(q)
         /\ \A it \in Elements(q) : \E r \in Elements(rs) :
              /\ r.path \in diff \ covered
              /\ it = RootTest(r, layout)
<1> DEFINE T == {r \in Range(rs) : /\ r.path \in diff \ covered
                                   /\ r.anchors # << >> \/ r.links # << >>}
           due == Only(rs, T)
           q == MaterialisePageRoots(rs, diff, covered, layout)
<1>1. IsList(due) /\ Elements(due) \subseteq T /\ Elements(due) \subseteq Elements(rs)
  <2> HIDE DEF T
  <2> QED
    BY ListOnly
<1>2. Len(due) \in Nat /\ DOMAIN due = 1..Len(due) /\ \A i \in DOMAIN due : due[i] \in Elements(due)
  <2> HIDE DEF due
  <2> QED
    BY <1>1, ListBasics
<1>3. q = [i \in DOMAIN due |-> RootTest(due[i], layout)]
  BY DEF MaterialisePageRoots, RootTest
<1> HIDE DEF due, q
<1>4. IsList(q)
  <2>1. DOMAIN q = 1..Len(due) /\ q = [i \in 1..Len(due) |-> q[i]]
    BY <1>2, <1>3
  <2> QED
    BY <1>2, <2>1, ListMade
<1>5. ASSUME NEW it \in Elements(q)
      PROVE  \E r \in Elements(rs) : r.path \in diff \ covered /\ it = RootTest(r, layout)
  <2>1. PICK i \in DOMAIN q : q[i] = it
    BY DEF Elements
  <2>2. i \in DOMAIN due /\ it = RootTest(due[i], layout) /\ due[i] \in Elements(rs) /\ due[i] \in T
    BY <1>1, <1>2, <1>3, <2>1
  <2>3. due[i].path \in diff \ covered
    BY <2>2
  <2> QED
    BY <2>2, <2>3
<1> QED
  BY <1>4, <1>5 DEF q

LEMMA SoundRootTests ==
  ASSUME NEW rs, IsList(rs), NEW diff, NEW covered, NEW layout
  PROVE  SoundItems(MaterialisePageRoots(rs, diff, covered, layout), layout.UsesBDD)
<1> DEFINE q == MaterialisePageRoots(rs, diff, covered, layout)
<1>1. /\ IsList(q)
      /\ \A it \in Elements(q) : \E r \in Elements(rs) :
           /\ r.path \in diff \ covered
           /\ it = RootTest(r, layout)
  BY RootTestsShape
<1>2. \A it \in Elements(q) : SoundItem(it, layout.UsesBDD)
  <2> SUFFICES ASSUME NEW it \in Elements(q) PROVE SoundItem(it, layout.UsesBDD)
    OBVIOUS
  <2>1. PICK r : it = RootTest(r, layout)
    BY <1>1
  <2>2. SoundItem(RootTest(r, layout), layout.UsesBDD)
    BY JourneyFields DEF RootTest
  <2> QED
    BY <2>1, <2>2
<1> QED
  BY <1>1, <1>2 DEF SoundItems

FrameInv ==
  /\ in \in Inputs
  /\ IsList(roots)
  /\ SoundItems(items, Layout.UsesBDD)
  /\ SoundItems(singles, Layout.UsesBDD)
  /\ SoundItems(pages, Layout.UsesBDD)
  /\ FilteredSuiteRuns

LEMMA NoItems == \A bdd : SoundItems(<< >>, bdd)
<1>1. Elements(<< >>) = {} /\ IsList(<< >>)
  BY DEF Elements, IsList
<1> QED
  BY <1>1 DEF SoundItems

LEMMA SoundTests ==
  ASSUME NEW f
  PROVE  SoundItems(ItemsOf(f), Layout.UsesBDD)
<1>1. /\ IsList(ItemsOf(f))
      /\ \A it \in Elements(ItemsOf(f)) : \E s \in Elements(Hit(f)) : IsTestOf(it, s)
  BY ItemsShape
<1>2. \A it \in Elements(ItemsOf(f)) : SoundItem(it, Layout.UsesBDD)
  BY <1>1 DEF IsTestOf, SoundItem
<1> QED
  BY <1>1, <1>2 DEF SoundItems

LEMMA SoundMatch ==
  ASSUME NEW bdd, NEW q, SoundItems(q, bdd), NEW rs
  PROVE  LET m == MatchComponents(q, rs) IN
         SoundItems(m.nonE2E, bdd) /\ SoundItems(m.ungrouped, bdd)
<1> DEFINE m == MatchComponents(q, rs)
<1>1. \E T : m.nonE2E = Only(q, T)
  BY DEF MatchComponents
<1>2. \E T : m.ungrouped = Only(q, T)
  BY DEF MatchComponents
<1> HIDE DEF m
<1>3. SoundItems(m.nonE2E, bdd) /\ SoundItems(m.ungrouped, bdd)
  BY <1>1, <1>2, SoundOnly
<1> QED
  BY <1>3 DEF m

LEMMA SoundMaterialise ==
  ASSUME NEW root, NEW q, NEW style, NEW layout
  PROVE  SoundItem(Materialise(root, q, style, layout).item, layout.UsesBDD)
<1> DEFINE m == Materialise(root, q, style, layout)
<1>1. \/ m.item = JourneyItem(q[1], << >>, "", PickJourney(layout, q[1].name, FALSE))
      \/ m.item = JourneyItem(q[1], q, root.url, PickJourney(layout, root.stem, TRUE))
  BY DEF Materialise
<1>2. /\ SoundItem(JourneyItem(q[1], << >>, "", PickJourney(layout, q[1].name, FALSE)),
                   layout.UsesBDD)
      /\ SoundItem(JourneyItem(q[1], q, root.url, PickJourney(layout, root.stem, TRUE)),
                   layout.UsesBDD)
  BY JourneyFields
<1> HIDE DEF m
<1> QED
  BY <1>1, <1>2 DEF m

LEMMA AddedShape ==
  /\ IsList(Added)
  /\ \A it \in Elements(Added) : it.template \notin Journey
  /\ Companions # << >> /\ Layout.UsesBDD =>
       \E it \in Elements(Added) : it.template = "pw_steps_bdd"
<1> DEFINE T == {it \in Range(Companions) : it.template = "pw_steps_bdd" => Layout.UsesBDD}
<1>1. IsList(Only(Companions, T)) /\ Elements(Only(Companions, T)) = Elements(Companions) \cap T
  <2> HIDE DEF T
  <2> QED
    BY CompanionsAssumption, ListOnly
<1>2. Range(Companions) = Elements(Companions)
  BY Ranges
<1>3. Added = Only(Companions, T)
  BY DEF Added
<1>4. \A it \in Elements(Added) : it.template \notin Journey
  BY <1>1, <1>2, <1>3, CompanionsAssumption
<1>5. ASSUME Companions # << >>, Layout.UsesBDD
      PROVE  \E it \in Elements(Added) : it.template = "pw_steps_bdd"
  <2>1. PICK it \in Range(Companions) : it.template = "pw_steps_bdd"
    BY <1>5, CompanionsAssumption
  <2>2. it \in Elements(Added)
    BY <1>1, <1>2, <1>3, <1>5
  <2> QED
    BY <2>1, <2>2
<1> QED
  BY <1>1, <1>3, <1>4, <1>5

LEMMA KindOfSteps == IsAlwaysKeep(KindOf("pw_steps_bdd"))
<1>1. \A a \in {"property", "validator", "serialization", "store", "constructor"} :
        AspectTemplate[a] # "pw_steps_bdd"
  BY DEF AspectTemplate
<1>2. KindOf("pw_steps_bdd") = "scaffold"
  BY <1>1 DEF KindOf, Journey, GRPC
<1> QED
  BY <1>2 DEF IsAlwaysKeep

LEMMA FilteredShape ==
  ASSUME NEW q, IsList(q), NEW allow, NEW deny
  PROVE  LET kept == FilterByKinds(q, allow, deny) IN
         /\ \E T : kept = Only(q, T)
         /\ IsList(kept)
         /\ Elements(kept) =
              {it \in Elements(q) :
                 \/ IsAlwaysKeep(KindOf(it.template))
                 \/ /\ allow # {} => KindOf(it.template) \in allow
                    /\ KindOf(it.template) \notin deny}
<1> DEFINE T == {it \in Range(q) :
                   \/ IsAlwaysKeep(KindOf(it.template))
                   \/ /\ allow # {} => KindOf(it.template) \in allow
                      /\ KindOf(it.template) \notin deny}
           kept == FilterByKinds(q, allow, deny)
<1>1. kept = Only(q, T)
  BY DEF FilterByKinds
<1>2. IsList(Only(q, T)) /\ Elements(Only(q, T)) = Elements(q) \cap T
  <2> HIDE DEF T
  <2> QED
    BY ListOnly
<1>3. T \subseteq Elements(q)
  BY Ranges
<1>4. Elements(kept) = T
  <2> HIDE DEF T, kept
  <2> QED
    BY <1>1, <1>2, <1>3
<1>5. T = {it \in Elements(q) :
             \/ IsAlwaysKeep(KindOf(it.template))
             \/ /\ allow # {} => KindOf(it.template) \in allow
                /\ KindOf(it.template) \notin deny}
  BY Ranges
<1> HIDE DEF T, kept
<1> QED
  BY <1>1, <1>2, <1>4, <1>5 DEF kept

LEMMA FrameInit == Init => FrameInv
<1>1. IsList(<< >>)
  BY DEF IsList
<1>2. Init => pc # "done"
  BY DEF Init
<1>3. Init => in \in Inputs /\ roots = << >> /\ items = << >> /\ singles = << >> /\ pages = << >>
  BY DEF Init
<1> QED
  BY <1>1, <1>2, <1>3, NoItems DEF FrameInv, FilteredSuiteRuns

LEMMA FilterFrame ==
  ASSUME FrameInv, Filter
  PROVE  SoundItems(items', Layout.UsesBDD) /\ FilteredSuiteRuns'
<1> DEFINE bdd == Layout.UsesBDD
           all == items \o Added
<1>1. IsList(Added) /\ \A it \in Elements(Added) : it.template \notin Journey
  BY AddedShape
<1>2. SoundItems(items, bdd)
  BY DEF FrameInv
<1>3. SoundItems(Added, bdd)
  BY <1>1 DEF SoundItems, SoundItem, Fits, Journey
<1>4. items' = FilterByKinds(all, in.allow, in.deny) /\ in' = in
  BY DEF Filter
<1>5. SoundItems(all, bdd) /\ IsList(all) /\ Elements(all) = Elements(items) \cup Elements(Added)
  <2> HIDE DEF bdd
  <2>1. SoundItems(items \o Added, bdd)
    BY <1>2, <1>3, SoundConcat
  <2>2. IsList(items) /\ Elements(items \o Added) = Elements(items) \cup Elements(Added)
    BY <1>1, <1>2, ListConcat DEF SoundItems
  <2> QED
    BY <2>1, <2>2 DEF SoundItems
<1> HIDE DEF all
<1>6. /\ \E T : items' = Only(all, T)
      /\ Elements(items') =
           {it \in Elements(all) :
              \/ IsAlwaysKeep(KindOf(it.template))
              \/ /\ in.allow # {} => KindOf(it.template) \in in.allow
                 /\ KindOf(it.template) \notin in.deny}
  BY <1>4, <1>5, FilteredShape
<1>7. SoundItems(items', bdd)
  <2> HIDE DEF bdd
  <2> QED
    BY <1>5, <1>6, SoundOnly
<1>8. ASSUME NEW it \in Elements(items'), it.template = "pw_feature", Companions # << >>
      PROVE  \E other \in Elements(items') : other.template = "pw_steps_bdd"
  <2>1. it \in Elements(items)
    BY <1>1, <1>5, <1>6, <1>8 DEF Journey
  <2>2. Layout.UsesBDD
    BY <1>2, <1>8, <2>1 DEF SoundItems, SoundItem, Fits, Journey
  <2>3. PICK other \in Elements(Added) : other.template = "pw_steps_bdd"
    BY <1>8, <2>2, AddedShape
  <2>4. other \in Elements(items')
    BY <1>5, <1>6, <2>3, KindOfSteps
  <2> QED
    BY <2>3, <2>4
<1>9. \A it \in Elements(items') :
        KindOf(it.template) \in in.deny => IsAlwaysKeep(KindOf(it.template))
  BY <1>6
<1>10. Range(items') = Elements(items')
  BY Ranges
<1> QED
  BY <1>4, <1>7, <1>8, <1>9, <1>10 DEF FilteredSuiteRuns

LEMMA FrameStep == FrameInv /\ [Next]_vars => FrameInv'
<1> SUFFICES ASSUME FrameInv, [Next]_vars PROVE FrameInv'
  OBVIOUS
<1> DEFINE bdd == Layout.UsesBDD
<1>1. in' = in
  BY DEF Next, ParseDiff, BuildFile, Match, MaterialiseGroup, Assemble, Filter, vars
<1>2. Layout' = Layout
  BY <1>1 DEF Layout
<1>3. /\ in \in Inputs /\ IsList(roots) /\ SoundItems(items, bdd)
      /\ SoundItems(singles, bdd) /\ SoundItems(pages, bdd)
  BY DEF FrameInv
<1>4. ASSUME pc' # "done" PROVE FilteredSuiteRuns'
  BY <1>4 DEF FilteredSuiteRuns
<1>5. CASE UNCHANGED vars
  BY <1>5 DEF vars, FrameInv, FilteredSuiteRuns, Layout, Added
<1>6. CASE ParseDiff
  <2>1. /\ pc' # "done" /\ roots' = roots /\ items' = items /\ singles' = singles
        /\ pages' = pages
    BY <1>6 DEF ParseDiff
  <2> HIDE DEF bdd
  <2> QED
    BY <1>1, <1>2, <1>3, <1>4, <2>1 DEF FrameInv, bdd
<1>7. CASE BuildFile
  <2>1. /\ pc' # "done" /\ roots' = roots /\ items' = items \o ItemsOf(Head(files))
        /\ singles' = singles /\ pages' = pages
    BY <1>7 DEF BuildFile
  <2>2. SoundItems(items', bdd)
    BY <1>3, <2>1, SoundTests, SoundConcat
  <2> QED
    BY <1>1, <1>2, <1>3, <1>4, <2>1, <2>2 DEF FrameInv
<1>8. CASE Match
  <2>1. pc' # "done" /\ pages' = pages
    BY <1>8 DEF Match
  <2>2. IsList(roots')
    <3>1. CASE in.style = "per-component"
      BY <1>3, <1>8, <3>1 DEF Match
    <3>2. CASE in.style # "per-component"
      <4>1. PICK found \in FindPageRoots(in.tree, Size) :
              roots' \in ApplyPageURLOverrides(found, in.urls)
        BY <1>8, <3>2 DEF Match
      <4> QED
        BY <1>3, <4>1, PageRootsList
    <3> QED
      BY <3>1, <3>2
  <2>3. \/ items' = items /\ singles' = singles
        \/ LET m == MatchComponents(items, roots') IN
           items' = m.nonE2E /\ singles' = m.ungrouped
    BY <1>8 DEF Match
  <2>4. SoundItems(items', bdd) /\ SoundItems(singles', bdd)
    <3> HIDE DEF bdd
    <3> QED
      BY <1>3, <2>3, SoundMatch
  <2> QED
    BY <1>1, <1>2, <1>3, <1>4, <2>1, <2>2, <2>4 DEF FrameInv
<1>9. CASE MaterialiseGroup
  <2>1. pc' # "done" /\ roots' = roots /\ items' = items
    BY <1>9 DEF MaterialiseGroup
  <2>2. PICK i, q :
          LET m == Materialise(roots[i], q, in.style, Layout) IN
          /\ singles' = IF m.single THEN Append(singles, m.item) ELSE singles
          /\ pages' = IF m.single THEN pages ELSE Append(pages, m.item)
    BY <1>9 DEF MaterialiseGroup
  <2> DEFINE m == Materialise(roots[i], q, in.style, Layout)
  <2>3. SoundItem(m.item, bdd)
    BY SoundMaterialise
  <2>4. /\ singles' \in {singles, Append(singles, m.item)}
        /\ pages' \in {pages, Append(pages, m.item)}
    BY <2>2
  <2> HIDE DEF m
  <2>5. SoundItems(singles', bdd) /\ SoundItems(pages', bdd)
    <3> HIDE DEF bdd
    <3> QED
      BY <1>3, <2>3, <2>4, SoundAppend
  <2> QED
    BY <1>1, <1>2, <1>3, <1>4, <2>1, <2>5 DEF FrameInv
<1>10. CASE Assemble
  <2> DEFINE out == items \o pages \o singles
             covered == {it.symbol.file : it \in Range(out)}
             tests == MaterialisePageRoots(roots, inDiff, covered, Layout)
  <2>1. /\ pc' # "done" /\ roots' = roots /\ singles' = singles /\ pages' = pages
        /\ items' = ChainMultiStep(out \o tests)
    BY <1>10 DEF Assemble
  <2>2. SoundItems(tests, bdd)
    BY <1>3, SoundRootTests
  <2> HIDE DEF tests
  <2>3. SoundItems(out \o tests, bdd)
    <3> HIDE DEF bdd
    <3>1. SoundItems(items \o pages, bdd)
      BY <1>3, SoundConcat
    <3>2. SoundItems(out, bdd)
      BY <1>3, <3>1, SoundConcat
    <3> HIDE DEF out
    <3> QED
      BY <2>2, <3>2, SoundConcat
  <2> HIDE DEF out
  <2>4. SoundItems(items', bdd)
    BY <2>1, <2>3, SoundChain
  <2> QED
    BY <1>1, <1>2, <1>3, <1>4, <2>1, <2>4 DEF FrameInv
<1>11. CASE Filter
  <2>1. roots' = roots /\ singles' = singles /\ pages' = pages
    BY <1>11 DEF Filter
  <2> QED
    BY <1>1, <1>2, <1>3, <1>11, <2>1, FilterFrame DEF FrameInv
<1> QED
  BY <1>5, <1>6, <1>7, <1>8, <1>9, <1>10, <1>11 DEF Next

(* Whatever the pull request touches, every journey of the suite is a      *)
(* feature if the project uses Gherkin and a spec if not: groupByPage and  *)
(* materializePageRoots agree with pickTemplate.                           *)
THEOREM OneFrameworkHolds == Spec => []OneFramework
<1>1. FrameInv => OneFramework
  BY Ranges DEF FrameInv, SoundItems, SoundItem, Fits, OneFramework
<1> QED
  BY <1>1, FrameInit, FrameStep, PTL DEF Spec

(* Whatever kinds a user allows and denies, a feature that is left has its *)
(* step definitions beside it (FilterByKinds keeps scaffold), and nothing  *)
(* denied is left that is not kept always.                                 *)
THEOREM FilteredSuiteRunsHolds == Spec => []FilteredSuiteRuns
<1>1. FrameInv => FilteredSuiteRuns
  BY DEF FrameInv
<1> QED
  BY <1>1, FrameInit, FrameStep, PTL DEF Spec

-----------------------------------------------------------------------------
(* What Parse reads of what git writes.                                    *)

(* The states of the loop after each of some lists of lines.               *)
Trajectory(g, st, parts) ==
  g[0] = st /\ \A i \in 1..Len(parts) : g[i] = ScanAll(g[i - 1], parts[i])

LEMMA TrajectoryExists ==
  ASSUME NEW st, NEW parts, IsList(parts)
  PROVE  \E g : Trajectory(g, st, parts)
<1> DEFINE Upto(g, n) == g[0] = st /\ \A i \in 1..n : g[i] = ScanAll(g[i - 1], parts[i])
           T == {n \in Nat : \E g : Upto(g, n)}
<1>1. 0 \in T
  <2>1. Upto([i \in 0..0 |-> st], 0)
    OBVIOUS
  <2> HIDE DEF Upto
  <2> QED
    BY <2>1
<1>2. ASSUME NEW n \in T PROVE n + 1 \in T
  <2>1. n \in Nat /\ \E g : Upto(g, n)
    OBVIOUS
  <2>2. PICK g : Upto(g, n)
    BY <2>1
  <2> DEFINE h == [i \in 0..(n + 1) |-> IF i = n + 1 THEN ScanAll(g[n], parts[n + 1]) ELSE g[i]]
  <2>3. h[0] = st
    BY <2>1, <2>2
  <2>4. ASSUME NEW i \in 1..(n + 1) PROVE h[i] = ScanAll(h[i - 1], parts[i])
    <3>1. h[i - 1] = g[i - 1]
      BY <2>1
    <3>2. CASE i = n + 1
      <4>1. h[i] = ScanAll(g[n], parts[n + 1]) /\ i - 1 = n
        BY <2>1, <3>2
      <4> QED
        BY <3>1, <3>2, <4>1
    <3>3. CASE i # n + 1
      <4>1. i \in 1..n /\ h[i] = g[i]
        BY <2>1, <3>3
      <4> QED
        BY <2>2, <3>1, <4>1
    <3> QED
      BY <3>2, <3>3
  <2> HIDE DEF h
  <2>5. Upto(h, n + 1)
    BY <2>3, <2>4
  <2> HIDE DEF Upto
  <2> QED
    BY <2>1, <2>5
<1>3. T \subseteq Nat
  OBVIOUS
<1>4. T = Nat
  <2> HIDE DEF T
  <2> QED
    BY <1>1, <1>2, <1>3, SetInduction
<1>5. Len(parts) \in T
  BY <1>4, ListBasics
<1>6. PICK g : Upto(g, Len(parts))
  BY <1>5
<1> QED
  BY <1>6 DEF Trajectory

LEMMA ScanFlatten ==
  ASSUME NEW st, NEW parts, IsListOfLists(parts), NEW g, Trajectory(g, st, parts)
  PROVE  ScanAll(st, FlattenSeq(parts)) = g[Len(parts)]
<1> DEFINE S == AllOf(parts, Len(parts))
           Good(i) == {q \in Seq(S) : ScanAll(st, q) = g[i]}
           I == [i \in Nat |-> Good(i)]
<1>1. /\ parts \in Seq(Seq(S)) /\ Len(parts) \in Nat
      /\ \A i \in 1..Len(parts) : IsList(parts[i]) /\ parts[i] \in Seq(S)
  <2>1. IsList(parts) /\ \A i \in DOMAIN parts : IsList(parts[i])
    BY DEF IsListOfLists
  <2>2. parts \in Seq(Seq(S))
    BY ListOfLists
  <2>3. Len(parts) \in Nat /\ DOMAIN parts = 1..Len(parts)
    BY <2>1, ListBasics
  <2> HIDE DEF S
  <2> QED
    BY <2>1, <2>2, <2>3
<1> HIDE DEF S
<1>2. CASE parts = << >>
  <2>1. FlattenSeq(parts) = << >> /\ Len(parts) = 0
    BY <1>2 DEF FlattenSeq
  <2> QED
    BY <2>1, ScanNothing DEF Trajectory
<1>3. CASE parts # << >>
  <2>1. \A i \in Nat : I[i] = Good(i)
    OBVIOUS
  <2>2. I \in [Nat -> SUBSET Seq(S)]
    OBVIOUS
  <2> DEFINE e == << >>
  <2>3. e \in Seq(S) /\ ScanAll(st, e) = g[0]
    BY ScanNothing DEF Trajectory
  <2> HIDE DEF e
  <2>4. e \in I[0]
    BY <2>1, <2>3
  <2>5. ASSUME NEW i \in 1..Len(parts), NEW q \in I[i - 1]
        PROVE  q \o parts[i] \in I[i]
    <3>1. i \in Nat /\ i - 1 \in Nat /\ I[i] = Good(i) /\ I[i - 1] = Good(i - 1)
      BY <1>1, <2>1
    <3>2. q \in Seq(S) /\ ScanAll(st, q) = g[i - 1]
      BY <3>1
    <3>3. IsList(q) /\ IsList(parts[i]) /\ q \o parts[i] \in Seq(S)
      BY <1>1, <3>2, ListOf
    <3>4. ScanAll(st, q \o parts[i]) = ScanAll(g[i - 1], parts[i])
      BY <3>2, <3>3, ScanConcat
    <3>5. ScanAll(g[i - 1], parts[i]) = g[i]
      BY DEF Trajectory
    <3> HIDE DEF I
    <3> QED
      BY <3>1, <3>3, <3>4, <3>5
  <2> HIDE DEF I, Good
  <2>6. FlattenSeq(parts) \in I[Len(parts)]
    BY <1>1, <1>3, <2>2, <2>4, <2>5, FlattenInduction DEF e
  <2>7. FlattenSeq(parts) \in Good(Len(parts))
    BY <1>1, <2>1, <2>6
  <2> QED
    BY <2>7 DEF Good
<1> QED
  BY <1>2, <1>3

IsFile(f) == f = [path |-> f.path, oldPath |-> f.oldPath, added |-> f.added, status |-> f.status]
IsState(st) ==
  st = [cur |-> st.cur, files |-> st.files, newLine |-> st.newLine, inHunk |-> st.inHunk]

(* Within a file of the diff.                                              *)
Reading(st, done) == IsState(st) /\ IsFile(st.cur) /\ st.files = done

LEMMA FileIsSome == \A f : IsFile(f) => f # NoFile
<1> SUFFICES ASSUME NEW f, IsFile(f), f = NoFile PROVE FALSE
  OBVIOUS
<1>1. DOMAIN NoFile = {"none"}
  BY DEF NoFile
<1>2. "path" \in DOMAIN f
  BY DEF IsFile
<1> QED
  BY <1>1, <1>2

LEMMA FreshIsFile ==
  /\ IsFile(FreshFile) /\ FreshFile.path = NoPath /\ FreshFile.oldPath = NoPath
  /\ FreshFile.added = << >> /\ FreshFile.status = "modified"
BY DEF IsFile, FreshFile

(* Git's line ends the file before.                                        *)
LEMMA ScanGit ==
  ASSUME NEW st, IsState(st)
  PROVE  LET r == Scan(st, GitLine) IN
         /\ Reading(r, Flush(st)) /\ r.cur = FreshFile /\ r.inHunk = FALSE
         /\ r.newLine = st.newLine
<1> DEFINE r == Scan(st, GitLine)
<1>1. r = [st EXCEPT !.files = Flush(st), !.cur = FreshFile, !.inHunk = FALSE]
  BY DEF Scan, GitLine
<1>2. /\ IsState(r) /\ r.files = Flush(st) /\ r.cur = FreshFile /\ r.inHunk = FALSE
      /\ r.newLine = st.newLine
  <2> HIDE DEF r
  <2> QED
    BY <1>1 DEF IsState
<1> HIDE DEF r
<1> QED
  BY <1>2, FreshIsFile DEF Reading, r

(* Any other line stays within it.                                         *)
Inner(l, paths) == l.is # "git" /\ (l.is = "+++" => l.path \in paths)

LEMMA HeaderFields ==
  ASSUME NEW f, IsFile(f), NEW path
  PROVE  /\ IsFile(OldHeader(f, path)) /\ OldHeader(f, path).path = f.path
         /\ OldHeader(f, path).added = f.added
         /\ OldHeader(f, path).status \in {f.status, "added"}
         /\ IsFile(NewHeader(f, path)) /\ NewHeader(f, path).path \in {path, f.path}
         /\ NewHeader(f, path).added = f.added
         /\ path # Nowhere =>
              /\ NewHeader(f, path).path = path
              /\ NewHeader(f, path).status \in {f.status, "renamed"}
<1>1. /\ IsFile(OldHeader(f, path)) /\ OldHeader(f, path).path = f.path
      /\ OldHeader(f, path).added = f.added
      /\ OldHeader(f, path).status \in {f.status, "added"}
  BY DEF OldHeader, IsFile
<1> DEFINE g == IF path = Nowhere THEN [f EXCEPT !.status = "removed"] ELSE [f EXCEPT !.path = path]
<1>2. /\ IsFile(g) /\ g.path \in {path, f.path} /\ g.added = f.added
      /\ path # Nowhere => g.path = path /\ g.status = f.status
  BY DEF IsFile
<1> HIDE DEF g
<1>3. /\ IsFile(Renamed(g)) /\ Renamed(g).path = g.path /\ Renamed(g).added = g.added
      /\ Renamed(g).status \in {g.status, "renamed"}
  BY <1>2 DEF Renamed, IsFile
<1>4. NewHeader(f, path) = Renamed(g)
  BY DEF NewHeader, g
<1> QED
  BY <1>1, <1>2, <1>3, <1>4

LEMMA ScanInner ==
  ASSUME NEW st, NEW done, Reading(st, done), NEW paths, NEW l, Inner(l, paths)
  PROVE  /\ Reading(Scan(st, l), done)
         /\ Scan(st, l).cur.path \in paths \cup {st.cur.path}
<1> DEFINE r == Scan(st, l)
<1>1. st.cur # NoFile /\ l.is # "git" /\ IsFile(st.cur)
  BY FileIsSome DEF Reading, Inner
<1>2. CASE l.is = "---"
  <2>1. r = [st EXCEPT !.cur = OldHeader(st.cur, l.path)]
    BY <1>1, <1>2 DEF Scan
  <2> HIDE DEF r
  <2>2. IsState(r) /\ r.files = st.files /\ r.cur = OldHeader(st.cur, l.path)
    BY <2>1 DEF Reading, IsState
  <2> QED
    BY <1>1, <2>2, HeaderFields DEF Reading, r
<1>3. CASE l.is = "+++"
  <2>1. r = [st EXCEPT !.cur = NewHeader(st.cur, l.path)]
    BY <1>1, <1>3 DEF Scan
  <2> HIDE DEF r
  <2>2. IsState(r) /\ r.files = st.files /\ r.cur = NewHeader(st.cur, l.path)
    BY <2>1 DEF Reading, IsState
  <2> QED
    BY <1>1, <1>3, <2>2, HeaderFields DEF Reading, Inner, r
<1>4. CASE l.is = "@@"
  <2>1. r = [st EXCEPT !.inHunk = TRUE, !.newLine = ParseHunkNewStart(l.start)]
    BY <1>1, <1>4 DEF Scan
  <2> HIDE DEF r
  <2>2. IsState(r) /\ r.files = st.files /\ r.cur = st.cur
    BY <2>1 DEF Reading, IsState
  <2> QED
    BY <1>1, <2>2 DEF Reading, r
<1>5. CASE l.is \notin {"---", "+++", "@@"}
  <2>1. \/ r = [st EXCEPT !.cur.added = MergeRange(st.cur.added, st.newLine),
                          !.newLine = st.newLine + 1]
        \/ r = [st EXCEPT !.newLine = st.newLine + 1]
        \/ r = st
    BY <1>1, <1>5 DEF Scan
  <2> HIDE DEF r
  <2>2. CASE r = [st EXCEPT !.cur.added = MergeRange(st.cur.added, st.newLine),
                            !.newLine = st.newLine + 1]
    <3>1. /\ IsState(r) /\ r.files = st.files
          /\ r.cur = [st.cur EXCEPT !.added = MergeRange(st.cur.added, st.newLine)]
      BY <2>2 DEF Reading, IsState
    <3>2. IsFile(r.cur) /\ r.cur.path = st.cur.path
      BY <1>1, <3>1 DEF IsFile
    <3> QED
      BY <3>1, <3>2 DEF Reading, r
  <2>3. CASE r = [st EXCEPT !.newLine = st.newLine + 1]
    <3>1. IsState(r) /\ r.files = st.files /\ r.cur = st.cur
      BY <2>3 DEF Reading, IsState
    <3> QED
      BY <1>1, <3>1 DEF Reading, r
  <2>4. CASE r = st
    BY <2>4 DEF r
  <2> QED
    BY <2>1, <2>2, <2>3, <2>4
<1> QED
  BY <1>2, <1>3, <1>4, <1>5

LEMMA ScanAllInner ==
  ASSUME NEW st, NEW done, Reading(st, done), NEW paths,
         NEW lines, IsList(lines), \A l \in Elements(lines) : Inner(l, paths)
  PROVE  /\ Reading(ScanAll(st, lines), done)
         /\ ScanAll(st, lines).cur.path \in paths \cup {st.cur.path}
<1>1. PICK f : Scans(f, st, lines) /\ ScanAll(st, lines) = f[Len(lines)]
  BY ScanExists
<1>2. Len(lines) \in Nat /\ \A i \in 1..Len(lines) : lines[i] \in Elements(lines)
  BY ListBasics
<1> DEFINE N == {i \in Nat : i <= Len(lines) =>
                   Reading(f[i], done) /\ f[i].cur.path \in paths \cup {st.cur.path}}
<1>3. 0 \in N
  BY <1>1 DEF Scans
<1>4. ASSUME NEW i \in N PROVE i + 1 \in N
  <2> SUFFICES ASSUME i + 1 <= Len(lines)
               PROVE  /\ Reading(f[i + 1], done)
                      /\ f[i + 1].cur.path \in paths \cup {st.cur.path}
    OBVIOUS
  <2>1. /\ i + 1 \in 1..Len(lines) /\ (i + 1) - 1 = i /\ Reading(f[i], done)
        /\ f[i].cur.path \in paths \cup {st.cur.path}
    BY <1>2
  <2>2. f[i + 1] = Scan(f[i], lines[i + 1]) /\ Inner(lines[i + 1], paths)
    BY <1>1, <1>2, <2>1 DEF Scans
  <2> HIDE DEF N
  <2> QED
    BY <2>1, <2>2, ScanInner
<1>5. N \subseteq Nat
  OBVIOUS
<1>6. Len(lines) \in N
  <2> HIDE DEF N
  <2> QED
    BY <1>2, <1>3, <1>4, <1>5, SetInduction
<1> QED
  BY <1>1, <1>6


LEMMA TwoElements ==
  ASSUME NEW x, NEW y
  PROVE  /\ IsList(<<x, y>>) /\ Elements(<<x, y>>) = {x, y} /\ Len(<<x, y>>) = 2
         /\ <<x, y>>[1] = x /\ <<x, y>>[2] = y
<1>1. /\ <<x, y>> \in Seq({x, y}) /\ DOMAIN <<x, y>> = 1..2 /\ <<x, y>>[1] = x
      /\ <<x, y>>[2] = y /\ Len(<<x, y>>) = 2
  OBVIOUS
<1>2. Elements(<<x, y>>) = {x, y}
  BY <1>1 DEF Elements
<1> QED
  BY <1>1, <1>2 DEF IsList

LEMMA BodyShape ==
  ASSUME NEW l \in LineKinds
  PROVE  IsList(BodyLines(l)) /\ \A x \in Elements(BodyLines(l)) : Inner(x, {Junk})
<1>1. /\ Inner(Body("+"), {Junk}) /\ Inner(Body("-"), {Junk}) /\ Inner(Body("space"), {Junk})
      /\ Inner(Body("nonl"), {Junk}) /\ Inner(Body("odd"), {Junk})
      /\ Inner(NewLine(Junk), {Junk}) /\ Inner(OldLine(Junk), {Junk})
  BY DEF Inner, Body, NewLine, OldLine
<1>2. \/ BodyLines(l) \in {<<Body("space")>>, <<Body("+")>>, <<Body("-")>>, <<NewLine(Junk)>>,
                           <<OldLine(Junk)>>, <<Body("odd")>>}
      \/ BodyLines(l) = <<Body("-"), Body("nonl")>>
      \/ BodyLines(l) = <<Body("+"), Body("nonl")>>
  BY DEF BodyLines, LineKinds
<1>3. CASE BodyLines(l) \in {<<Body("space")>>, <<Body("+")>>, <<Body("-")>>, <<NewLine(Junk)>>,
                             <<OldLine(Junk)>>, <<Body("odd")>>}
  <2>1. PICK x : BodyLines(l) = <<x>> /\ Inner(x, {Junk})
    BY <1>1, <1>3
  <2>2. IsList(<<x>>) /\ Elements(<<x>>) = {x}
    BY OneElement
  <2> QED
    BY <2>1, <2>2
<1>4. CASE BodyLines(l) = <<Body("-"), Body("nonl")>> \/ BodyLines(l) = <<Body("+"), Body("nonl")>>
  <2>1. PICK x, y : BodyLines(l) = <<x, y>> /\ Inner(x, {Junk}) /\ Inner(y, {Junk})
    BY <1>1, <1>4
  <2>2. IsList(<<x, y>>) /\ Elements(<<x, y>>) = {x, y}
    BY TwoElements
  <2> QED
    BY <2>1, <2>2
<1> QED
  BY <1>2, <1>3, <1>4

BodyParts(h) == [i \in DOMAIN h.body |-> BodyLines(h.body[i])]

LEMMA BodyPartsShape ==
  ASSUME NEW h, IsHunk(h)
  PROVE  /\ IsListOfLists(BodyParts(h)) /\ Len(BodyParts(h)) = Len(h.body)
         /\ Len(h.body) \in Nat /\ DOMAIN h.body = 1..Len(h.body)
         /\ \A i \in 1..Len(h.body) : h.body[i] \in LineKinds
         /\ IsList(FlattenSeq(BodyParts(h)))
         /\ \A x \in Elements(FlattenSeq(BodyParts(h))) : Inner(x, {Junk})
<1> DEFINE b == h.body  parts == BodyParts(h)
<1>1. Len(b) \in Nat /\ DOMAIN b = 1..Len(b) /\ \A i \in 1..Len(b) : b[i] \in LineKinds
  BY DEF IsHunk
<1>2. parts = [i \in 1..Len(b) |-> BodyLines(b[i])]
  BY <1>1 DEF BodyParts
<1> HIDE DEF parts, b
<1>3. IsList(parts) /\ Len(parts) = Len(b) /\ DOMAIN parts = 1..Len(b)
  <2>1. DOMAIN parts = 1..Len(b) /\ parts = [i \in 1..Len(b) |-> parts[i]]
    BY <1>2
  <2> QED
    BY <1>1, <2>1, ListMade
<1>4. \A i \in 1..Len(b) : IsList(parts[i]) /\ \A x \in Elements(parts[i]) : Inner(x, {Junk})
  BY <1>1, <1>2, BodyShape
<1>5. IsListOfLists(parts)
  BY <1>3, <1>4 DEF IsListOfLists
<1>6. IsList(FlattenSeq(parts)) /\ Elements(FlattenSeq(parts)) = AllOf(parts, Len(parts))
  BY <1>5, FlattenList
<1>7. \A x \in Elements(FlattenSeq(parts)) : Inner(x, {Junk})
  BY <1>3, <1>4, <1>6 DEF AllOf
<1> QED
  BY <1>1, <1>3, <1>5, <1>6, <1>7 DEF parts, b

LEMMA HunkShape ==
  ASSUME NEW h, IsHunk(h)
  PROVE  IsList(HunkLines(h)) /\ \A x \in Elements(HunkLines(h)) : Inner(x, {Junk})
<1> DEFINE q == FlattenSeq(BodyParts(h))  one == <<Hunk(h.start)>>
<1>1. HunkLines(h) = one \o q
  BY DEF HunkLines, BodyParts
<1>2. IsList(q) /\ \A x \in Elements(q) : Inner(x, {Junk})
  BY BodyPartsShape
<1>3. IsList(one) /\ Elements(one) = {Hunk(h.start)}
  BY OneElement
<1>4. Inner(Hunk(h.start), {Junk})
  BY DEF Inner, Hunk
<1> HIDE DEF q, one
<1>5. IsList(one \o q) /\ Elements(one \o q) = Elements(one) \cup Elements(q)
  BY <1>2, <1>3, ListConcat
<1> QED
  BY <1>1, <1>2, <1>3, <1>4, <1>5

HunkParts(c) == [k \in DOMAIN c.hunks |-> HunkLines(c.hunks[k])]

LEMMA HunkPartsShape ==
  ASSUME NEW c, IsChange(c)
  PROVE  /\ IsListOfLists(HunkParts(c)) /\ Len(HunkParts(c)) = Len(c.hunks)
         /\ Len(c.hunks) \in Nat /\ DOMAIN c.hunks = 1..Len(c.hunks)
         /\ \A k \in 1..Len(c.hunks) : IsHunk(c.hunks[k])
         /\ IsList(FlattenSeq(HunkParts(c)))
         /\ \A x \in Elements(FlattenSeq(HunkParts(c))) : Inner(x, {Junk})
<1> DEFINE hs == c.hunks  parts == HunkParts(c)
<1>1. IsList(hs) /\ \A h \in Range(hs) : IsHunk(h)
  BY DEF IsChange
<1>2. parts = [k \in DOMAIN hs |-> HunkLines(hs[k])]
  BY DEF HunkParts
<1> HIDE DEF hs, parts
<1>3. /\ Len(hs) \in Nat /\ DOMAIN hs = 1..Len(hs)
      /\ \A k \in 1..Len(hs) : IsHunk(hs[k])
  BY <1>1, ListBasics, Ranges
<1>4. IsList(parts) /\ Len(parts) = Len(hs) /\ DOMAIN parts = 1..Len(hs)
  <2>1. DOMAIN parts = 1..Len(hs) /\ parts = [i \in 1..Len(hs) |-> parts[i]]
    BY <1>2, <1>3
  <2> QED
    BY <1>3, <2>1, ListMade
<1>5. \A k \in 1..Len(hs) : IsList(parts[k]) /\ \A x \in Elements(parts[k]) : Inner(x, {Junk})
  BY <1>2, <1>3, HunkShape
<1>6. IsListOfLists(parts)
  BY <1>4, <1>5 DEF IsListOfLists
<1>7. IsList(FlattenSeq(parts)) /\ Elements(FlattenSeq(parts)) = AllOf(parts, Len(parts))
  BY <1>6, FlattenList
<1>8. \A x \in Elements(FlattenSeq(parts)) : Inner(x, {Junk})
  BY <1>4, <1>5, <1>7 DEF AllOf
<1> QED
  BY <1>3, <1>4, <1>6, <1>7, <1>8 DEF parts, hs

(* The ranges of added lines.                                              *)
IsRange(r) ==
  r = [start |-> r.start, end |-> r.end] /\ r.start \in Nat \ {0} /\ r.end \in Nat /\ r.start <= r.end
AreRanges(q) == IsList(q) /\ \A r \in Elements(q) : IsRange(r)
Covers(q) == UNION {r.start..r.end : r \in Elements(q)}

LEMMA FrontAndLast ==
  ASSUME NEW q, IsList(q), q # << >>
  PROVE  /\ IsList(Front(q)) /\ Last(q) \in Elements(q)
         /\ Elements(q) = Elements(Front(q)) \cup {Last(q)}
<1> DEFINE S == Elements(q)  n == Len(q)
<1>1. q \in Seq(S) /\ n \in Nat /\ n # 0 /\ DOMAIN q = 1..n
  BY DEF IsList
<1>2. n - 1 \in Nat /\ 1..n = 1..(n - 1) \cup {n} /\ n \in 1..n
  BY <1>1
<1> HIDE DEF S
<1>3. /\ Front(q) \in Seq(S) /\ DOMAIN Front(q) = 1..(n - 1)
      /\ \A i \in 1..(n - 1) : Front(q)[i] = q[i]
  BY <1>1, <1>2 DEF Front
<1>4. Last(q) = q[n]
  BY DEF Last
<1> HIDE DEF n
<1>5. Elements(q) = Elements(Front(q)) \cup {q[n]}
  BY <1>1, <1>2, <1>3 DEF Elements
<1>6. IsList(Front(q))
  BY <1>3, ListOf
<1> QED
  BY <1>4, <1>5, <1>6

LEMMA MergeShape ==
  ASSUME NEW q, AreRanges(q), NEW line \in Nat \ {0}
  PROVE  AreRanges(MergeRange(q, line)) /\ Covers(MergeRange(q, line)) = Covers(q) \cup {line}
<1> DEFINE one == [start |-> line, end |-> line]
<1>1. IsRange(one) /\ one.start..one.end = {line}
  BY DEF IsRange
<1>2. ASSUME NEW a, AreRanges(a), NEW r, IsRange(r)
      PROVE  AreRanges(Append(a, r)) /\ Covers(Append(a, r)) = Covers(a) \cup (r.start..r.end)
  <2>1. IsList(Append(a, r)) /\ Elements(Append(a, r)) = Elements(a) \cup {r}
    BY <1>2, ListAppend DEF AreRanges
  <2>2. AreRanges(Append(a, r))
    BY <1>2, <2>1 DEF AreRanges
  <2>3. Covers(Append(a, r)) = Covers(a) \cup (r.start..r.end)
    BY <2>1 DEF Covers
  <2> QED
    BY <2>2, <2>3
<1>3. CASE q # << >> /\ line = Last(q).end + 1
  <2> DEFINE r == Last(q)  longer == [r EXCEPT !.end = line]
  <2>1. MergeRange(q, line) = Append(Front(q), longer)
    BY <1>3 DEF MergeRange
  <2>2. /\ IsList(Front(q)) /\ r \in Elements(q)
        /\ Elements(q) = Elements(Front(q)) \cup {r}
    BY <1>3, FrontAndLast DEF AreRanges
  <2>3. IsRange(r) /\ line = r.end + 1
    BY <1>3, <2>2 DEF AreRanges
  <2> HIDE DEF r
  <2>4. IsRange(longer) /\ longer.start = r.start /\ longer.end = line
    BY <2>3 DEF IsRange
  <2>5. longer.start..longer.end = (r.start..r.end) \cup {line}
    BY <2>3, <2>4 DEF IsRange
  <2>6. AreRanges(Front(q))
    BY <2>2 DEF AreRanges
  <2>7. Covers(q) = Covers(Front(q)) \cup (r.start..r.end)
    BY <2>2 DEF Covers
  <2> HIDE DEF longer
  <2>8. /\ AreRanges(Append(Front(q), longer))
        /\ Covers(Append(Front(q), longer)) = Covers(Front(q)) \cup (longer.start..longer.end)
    BY <1>2, <2>4, <2>6
  <2> QED
    BY <2>1, <2>5, <2>7, <2>8
<1>4. CASE ~(q # << >> /\ line = Last(q).end + 1)
  <2>1. MergeRange(q, line) = Append(q, one)
    BY <1>4 DEF MergeRange
  <2> HIDE DEF one
  <2> QED
    BY <1>1, <1>2, <2>1
<1> QED
  BY <1>3, <1>4

LEMMA IntersectsMeans ==
  ASSUME NEW q, AreRanges(q), NEW a \in Nat, NEW b \in Nat, b = 0 \/ a <= b
  PROVE  Intersects(q, a, b) <=> Covers(q) \cap (a..b) # {}
<1>1. Range(q) = Elements(q)
  BY Ranges
<1>2. ASSUME NEW r \in Elements(q)
      PROVE  (a <= r.end /\ r.start <= b) <=> (r.start..r.end) \cap (a..b) # {}
  <2>1. IsRange(r)
    BY DEF AreRanges
  <2>2. r.start \in Nat \ {0} /\ r.end \in Nat /\ r.start <= r.end
    BY <2>1 DEF IsRange
  <2>3. ASSUME a <= r.end, r.start <= b PROVE (r.start..r.end) \cap (a..b) # {}
    <3> DEFINE m == IF a <= r.start THEN r.start ELSE a
    <3>1. m \in r.start..r.end /\ m \in a..b
      BY <2>2, <2>3
    <3> QED
      BY <3>1
  <2>4. ASSUME (r.start..r.end) \cap (a..b) # {} PROVE a <= r.end /\ r.start <= b
    <3>1. PICK x : x \in r.start..r.end /\ x \in a..b
      BY <2>4
    <3> QED
      BY <2>2, <3>1
  <2> QED
    BY <2>3, <2>4
<1>3. Intersects(q, a, b) <=> \E r \in Elements(q) : (r.start..r.end) \cap (a..b) # {}
  BY <1>1, <1>2 DEF Intersects
<1>4. (\E r \in Elements(q) : (r.start..r.end) \cap (a..b) # {}) <=> Covers(q) \cap (a..b) # {}
  BY DEF Covers
<1> QED
  BY <1>3, <1>4

(* The lines counted so far of a file that is there afterwards.            *)
Counting(st, done, p, C) ==
  /\ Reading(st, done)
  /\ st.cur.path = p /\ st.cur.status # "removed"
  /\ AreRanges(st.cur.added) /\ Covers(st.cur.added) = C

PlainKinds == {"keep", "add", "del", "del--", "del--x", "delLast", "addLast"}
LastKinds == {"delLast", "addLast", "del--x"}

(* A line that is in the body of a hunk: what Parse does with its number.  *)
LEMMA ScanAdded ==
  ASSUME NEW st, NEW done, NEW p, NEW C, Counting(st, done, p, C),
         st.inHunk = TRUE, st.newLine \in Nat \ {0}
  PROVE  LET r == Scan(st, Body("+")) IN
         /\ Counting(r, done, p, C \cup {st.newLine})
         /\ r.inHunk = TRUE /\ r.newLine = st.newLine + 1
<1> DEFINE r == Scan(st, Body("+"))  more == MergeRange(st.cur.added, st.newLine)
<1>1. st.cur # NoFile /\ IsFile(st.cur)
  BY FileIsSome DEF Counting, Reading
<1>2. r = [st EXCEPT !.cur.added = more, !.newLine = st.newLine + 1]
  BY <1>1 DEF Scan, Body
<1>3. AreRanges(more) /\ Covers(more) = C \cup {st.newLine}
  BY MergeShape DEF Counting
<1> HIDE DEF r, more
<1>4. /\ IsState(r) /\ r.files = st.files /\ r.inHunk = TRUE /\ r.newLine = st.newLine + 1
      /\ r.cur = [st.cur EXCEPT !.added = more]
  BY <1>2 DEF Counting, Reading, IsState
<1>5. /\ IsFile(r.cur) /\ r.cur.path = st.cur.path /\ r.cur.status = st.cur.status
      /\ r.cur.added = more
  BY <1>1, <1>4 DEF IsFile
<1>6. Counting(r, done, p, C \cup {st.newLine})
  BY <1>3, <1>4, <1>5 DEF Counting, Reading
<1> QED
  BY <1>4, <1>6 DEF r

LEMMA ScanCounted ==
  ASSUME NEW st, NEW done, NEW p, NEW C, Counting(st, done, p, C),
         st.inHunk = TRUE, st.newLine \in Nat \ {0}, NEW is \in {"space", "nonl", "odd"}
  PROVE  LET r == Scan(st, Body(is)) IN
         /\ Counting(r, done, p, C)
         /\ r.inHunk = TRUE /\ r.newLine = st.newLine + 1
<1> DEFINE r == Scan(st, Body(is))
<1>1. st.cur # NoFile
  BY FileIsSome DEF Counting, Reading
<1>2. r = [st EXCEPT !.newLine = st.newLine + 1]
  BY <1>1 DEF Scan, Body
<1> HIDE DEF r
<1>3. /\ IsState(r) /\ r.files = st.files /\ r.inHunk = TRUE /\ r.newLine = st.newLine + 1
      /\ r.cur = st.cur
  BY <1>2 DEF Counting, Reading, IsState
<1>4. Counting(r, done, p, C)
  BY <1>3 DEF Counting, Reading
<1> QED
  BY <1>3, <1>4 DEF r

LEMMA ScanDeleted ==
  ASSUME NEW st, NEW done, NEW p, NEW C, Counting(st, done, p, C),
         st.inHunk = TRUE, NEW l \in {Body("-"), OldLine(Junk)}
  PROVE  LET r == Scan(st, l) IN
         /\ Counting(r, done, p, C)
         /\ r.inHunk = TRUE /\ r.newLine = st.newLine
<1> DEFINE r == Scan(st, l)
<1>1. st.cur # NoFile /\ IsFile(st.cur)
  BY FileIsSome DEF Counting, Reading
<1>2. CASE l = Body("-")
  <2>1. r = st
    BY <1>1, <1>2 DEF Scan, Body
  <2> QED
    BY <2>1
<1>3. CASE l = OldLine(Junk)
  <2>1. r = [st EXCEPT !.cur = OldHeader(st.cur, Junk)]
    BY <1>1, <1>3 DEF Scan, OldLine
  <2> HIDE DEF r
  <2>2. /\ IsState(r) /\ r.files = st.files /\ r.inHunk = TRUE /\ r.newLine = st.newLine
        /\ r.cur = OldHeader(st.cur, Junk)
    BY <2>1 DEF Counting, Reading, IsState
  <2>3. /\ IsFile(r.cur) /\ r.cur.path = st.cur.path /\ r.cur.added = st.cur.added
        /\ r.cur.status # "removed"
    BY <1>1, <2>2, HeaderFields DEF Counting
  <2>4. Counting(r, done, p, C)
    BY <2>2, <2>3 DEF Counting, Reading
  <2> QED
    BY <2>2, <2>4 DEF r
<1> QED
  BY <1>2, <1>3

LEMMA ScanTwo ==
  ASSUME NEW st, NEW x, NEW y
  PROVE  ScanAll(st, <<x, y>>) = Scan(Scan(st, x), y)
<1> DEFINE g == [i \in 0..2 |-> IF i = 0 THEN st ELSE IF i = 1 THEN Scan(st, x)
                                ELSE Scan(Scan(st, x), y)]
           lines == <<x, y>>
<1>1. IsList(lines) /\ Len(lines) = 2 /\ lines[1] = x /\ lines[2] = y
  BY TwoElements
<1> HIDE DEF lines
<1>2. g[0] = st /\ g[1] = Scan(g[0], x) /\ g[2] = Scan(g[1], y) /\ g[2] = Scan(Scan(st, x), y)
  OBVIOUS
<1> HIDE DEF g
<1>3. \A i \in 1..2 : (i = 1 /\ i - 1 = 0) \/ (i = 2 /\ i - 1 = 1)
  OBVIOUS
<1>4. Scans(g, st, lines)
  BY <1>1, <1>2, <1>3 DEF Scans
<1>5. ScanAll(st, lines) = g[2]
  BY <1>1, <1>4, ScanUnique
<1> QED
  BY <1>2, <1>5 DEF lines

LEMMA ScanBody ==
  ASSUME NEW st, NEW done, NEW p, NEW C, Counting(st, done, p, C),
         st.inHunk = TRUE, st.newLine \in Nat \ {0}, NEW l \in PlainKinds
  PROVE  LET r == ScanAll(st, BodyLines(l)) IN
         /\ Counting(r, done, p, IF IsAdded(l) THEN C \cup {st.newLine} ELSE C)
         /\ r.inHunk = TRUE /\ r.newLine \in Nat \ {0}
         /\ l \notin LastKinds =>
              r.newLine = IF IsNew(l) THEN st.newLine + 1 ELSE st.newLine
<1> DEFINE r == ScanAll(st, BodyLines(l))
<1>1. CASE l = "keep"
  <2> DEFINE s == Scan(st, Body("space"))
  <2>1. r = s
    BY <1>1, ScanOne DEF BodyLines
  <2>2. ~IsAdded(l) /\ IsNew(l)
    BY <1>1 DEF IsAdded, IsNew
  <2>3. Counting(s, done, p, C) /\ s.inHunk = TRUE /\ s.newLine = st.newLine + 1
    BY ScanCounted
  <2> HIDE DEF r, s
  <2> QED
    BY <2>1, <2>2, <2>3 DEF r
<1>2. CASE l = "add"
  <2> DEFINE s == Scan(st, Body("+"))
  <2>1. r = s
    BY <1>2, ScanOne DEF BodyLines
  <2>2. IsAdded(l) /\ IsNew(l)
    BY <1>2 DEF IsAdded, IsNew
  <2>3. Counting(s, done, p, C \cup {st.newLine}) /\ s.inHunk = TRUE /\ s.newLine = st.newLine + 1
    BY ScanAdded
  <2> HIDE DEF r, s
  <2> QED
    BY <2>1, <2>2, <2>3 DEF r
<1>3. CASE l \in {"del", "del--"}
  <2>1. PICK x \in {Body("-"), OldLine(Junk)} : BodyLines(l) = <<x>>
    BY <1>3 DEF BodyLines
  <2> DEFINE s == Scan(st, x)
  <2>2. r = s
    BY <2>1, ScanOne
  <2>3. ~IsAdded(l) /\ ~IsNew(l)
    BY <1>3 DEF IsAdded, IsNew
  <2>4. Counting(s, done, p, C) /\ s.inHunk = TRUE /\ s.newLine = st.newLine
    BY ScanDeleted
  <2> HIDE DEF r, s
  <2> QED
    BY <2>2, <2>3, <2>4 DEF r
<1>4. CASE l = "del--x"
  <2> DEFINE s == Scan(st, Body("odd"))
  <2>1. r = s
    BY <1>4, ScanOne DEF BodyLines
  <2>2. ~IsAdded(l) /\ l \in LastKinds
    BY <1>4 DEF IsAdded, LastKinds
  <2>3. Counting(s, done, p, C) /\ s.inHunk = TRUE /\ s.newLine = st.newLine + 1
    BY ScanCounted
  <2> HIDE DEF r, s
  <2> QED
    BY <2>1, <2>2, <2>3 DEF r
<1>5. CASE l = "delLast"
  <2> DEFINE m == Scan(st, Body("-"))  s == Scan(m, Body("nonl"))
  <2>1. r = s
    BY <1>5, ScanTwo DEF BodyLines
  <2>2. ~IsAdded(l) /\ l \in LastKinds
    BY <1>5 DEF IsAdded, LastKinds
  <2>3. Counting(m, done, p, C) /\ m.inHunk = TRUE /\ m.newLine = st.newLine
    BY ScanDeleted
  <2> HIDE DEF m
  <2>4. Counting(s, done, p, C) /\ s.inHunk = TRUE /\ s.newLine = st.newLine + 1
    BY <2>3, ScanCounted
  <2> HIDE DEF r, s
  <2> QED
    BY <2>1, <2>2, <2>4 DEF r
<1>6. CASE l = "addLast"
  <2> DEFINE m == Scan(st, Body("+"))  s == Scan(m, Body("nonl"))  D == C \cup {st.newLine}
  <2>1. r = s
    BY <1>6, ScanTwo DEF BodyLines
  <2>2. IsAdded(l) /\ l \in LastKinds
    BY <1>6 DEF IsAdded, LastKinds
  <2>3. Counting(m, done, p, D) /\ m.inHunk = TRUE /\ m.newLine = st.newLine + 1
    BY ScanAdded
  <2> HIDE DEF m, D
  <2>4. m.newLine \in Nat \ {0}
    BY <2>3
  <2>5. Counting(s, done, p, D) /\ s.inHunk = TRUE /\ s.newLine = m.newLine + 1
    BY <2>3, <2>4, ScanCounted
  <2> HIDE DEF r, s
  <2> QED
    BY <2>1, <2>2, <2>4, <2>5 DEF r, D
<1> QED
  BY <1>1, <1>2, <1>3, <1>4, <1>5, <1>6 DEF PlainKinds

NewUpTo(h, i) == Cardinality({k \in 1..i : IsNew(h.body[k])})
AddedUpTo(h, i) == {h.start + NewUpTo(h, j - 1) : j \in {k \in 1..i : IsAdded(h.body[k])}}

LEMMA UpToStep ==
  ASSUME NEW h, NEW i \in Nat
  PROVE  /\ NewUpTo(h, i) \in Nat /\ NewUpTo(h, 0) = 0 /\ AddedUpTo(h, 0) = {}
         /\ NewUpTo(h, i + 1) = IF IsNew(h.body[i + 1]) THEN NewUpTo(h, i) + 1 ELSE NewUpTo(h, i)
         /\ AddedUpTo(h, i + 1) =
              IF IsAdded(h.body[i + 1]) THEN AddedUpTo(h, i) \cup {h.start + NewUpTo(h, i)}
              ELSE AddedUpTo(h, i)
<1> DEFINE K(n) == {k \in 1..n : IsNew(h.body[k])}
<1>1. 1..(i + 1) = 1..i \cup {i + 1} /\ i + 1 \notin 1..i
  OBVIOUS
<1>2. IsFiniteSet(K(i))
  <2>1. IsFiniteSet(1..i)
    BY FS_Interval
  <2> QED
    BY <2>1, FS_Subset
<1>3. Cardinality(K(i)) \in Nat
  BY <1>2, FS_CardinalityType
<1>4. NewUpTo(h, 0) = 0
  <2>1. K(0) = {}
    OBVIOUS
  <2> QED
    BY <2>1, FS_EmptySet DEF NewUpTo
<1>5. AddedUpTo(h, 0) = {}
  BY DEF AddedUpTo
<1>6. NewUpTo(h, i + 1) = IF IsNew(h.body[i + 1]) THEN NewUpTo(h, i) + 1 ELSE NewUpTo(h, i)
  <2>1. CASE IsNew(h.body[i + 1])
    <3>1. K(i + 1) = K(i) \cup {i + 1} /\ i + 1 \notin K(i)
      BY <1>1, <2>1
    <3> HIDE DEF K
    <3>2. Cardinality(K(i) \cup {i + 1}) = Cardinality(K(i)) + 1
      BY <1>2, <3>1, FS_AddElement
    <3> QED
      BY <2>1, <3>1, <3>2 DEF NewUpTo, K
  <2>2. CASE ~IsNew(h.body[i + 1])
    <3>1. K(i + 1) = K(i)
      BY <1>1, <2>2
    <3> QED
      BY <2>2, <3>1 DEF NewUpTo
  <2> QED
    BY <2>1, <2>2
<1>7. AddedUpTo(h, i + 1) =
        IF IsAdded(h.body[i + 1]) THEN AddedUpTo(h, i) \cup {h.start + NewUpTo(h, i)}
        ELSE AddedUpTo(h, i)
  <2> DEFINE A(n) == {k \in 1..n : IsAdded(h.body[k])}
             at(j) == h.start + NewUpTo(h, j - 1)
  <2>1. AddedUpTo(h, i) = {at(j) : j \in A(i)} /\ AddedUpTo(h, i + 1) = {at(j) : j \in A(i + 1)}
    BY DEF AddedUpTo
  <2>2. at(i + 1) = h.start + NewUpTo(h, i)
    OBVIOUS
  <2>3. A(i + 1) = IF IsAdded(h.body[i + 1]) THEN A(i) \cup {i + 1} ELSE A(i)
    BY <1>1
  <2> HIDE DEF A, at
  <2>4. CASE IsAdded(h.body[i + 1])
    <3>1. A(i + 1) = A(i) \cup {i + 1}
      BY <2>3, <2>4
    <3>2. {at(j) : j \in A(i + 1)} = {at(j) : j \in A(i)} \cup {at(i + 1)}
      BY <3>1
    <3> QED
      BY <2>1, <2>2, <2>4, <3>2
  <2>5. CASE ~IsAdded(h.body[i + 1])
    BY <2>1, <2>3, <2>5
  <2> QED
    BY <2>4, <2>5
<1>8. NewUpTo(h, i) \in Nat
  BY <1>3 DEF NewUpTo
<1> QED
  BY <1>4, <1>5, <1>6, <1>7, <1>8

LEMMA ScanHunk ==
  ASSUME NEW st, NEW done, NEW p, NEW C, Counting(st, done, p, C),
         NEW h, IsHunk(h), PlainHunk(h)
  PROVE  Counting(ScanAll(st, HunkLines(h)), done, p, C \cup AddedBy(h))
<1> DEFINE b == h.body  n == Len(h.body)  parts == BodyParts(h)  s == Scan(st, Hunk(h.start))
           q == FlattenSeq(BodyParts(h))  one == <<Hunk(h.start)>>
<1>1. /\ IsListOfLists(parts) /\ Len(parts) = n /\ n \in Nat /\ DOMAIN b = 1..n
      /\ \A i \in 1..n : b[i] \in LineKinds
      /\ IsList(q)
  BY BodyPartsShape
<1>2. /\ Counting(s, done, p, C) /\ s.inHunk = TRUE /\ s.newLine \in Nat \ {0}
      /\ h.start # 0 => s.newLine = h.start
  <2>1. st.cur # NoFile
    BY FileIsSome DEF Counting, Reading
  <2>2. s = [st EXCEPT !.inHunk = TRUE, !.newLine = ParseHunkNewStart(h.start)]
    BY <2>1 DEF Scan, Hunk
  <2> HIDE DEF s
  <2>3. /\ IsState(s) /\ s.files = st.files /\ s.cur = st.cur /\ s.inHunk = TRUE
        /\ s.newLine = ParseHunkNewStart(h.start)
    BY <2>2 DEF Counting, Reading, IsState
  <2>4. Counting(s, done, p, C)
    BY <2>3 DEF Counting, Reading
  <2>5. h.start \in Nat
    BY DEF IsHunk
  <2> QED
    BY <2>3, <2>4, <2>5 DEF ParseHunkNewStart
<1>3. ScanAll(st, HunkLines(h)) = ScanAll(s, q)
  <2>1. HunkLines(h) = one \o q /\ ScanAll(st, one) = s
    BY ScanOne DEF HunkLines, BodyParts
  <2>2. IsList(one)
    BY OneElement
  <2> HIDE DEF one, q, s
  <2> QED
    BY <1>1, <2>1, <2>2, ScanConcat
<1>4. PICK g : Trajectory(g, s, parts)
  <2> HIDE DEF parts, s
  <2> QED
    BY <1>1, TrajectoryExists DEF IsListOfLists
<1>5. ScanAll(s, q) = g[n]
  <2>1. ScanAll(s, FlattenSeq(parts)) = g[Len(parts)]
    <3> HIDE DEF parts, s
    <3> QED
      BY <1>1, <1>4, ScanFlatten
  <2> QED
    BY <1>1, <2>1
<1>6. \A i \in 1..n : g[i] = ScanAll(g[i - 1], BodyLines(b[i]))
  BY <1>1, <1>4 DEF Trajectory, BodyParts
<1>7. g[0] = s
  BY <1>4 DEF Trajectory
<1>8. \A i \in 1..n : /\ b[i] \in PlainKinds
                      /\ b[i] \in LastKinds => i = n
                      /\ h.start = 0 => ~IsNew(b[i]) /\ ~IsAdded(b[i])
  BY <1>1 DEF PlainHunk, PlainKinds, LastKinds, LineKinds, IsHunk, IsNew
<1> HIDE DEF b, n, parts, s, q
<1> DEFINE Right(i) ==
             /\ Counting(g[i], done, p, C \cup AddedUpTo(h, i))
             /\ g[i].inHunk = TRUE /\ g[i].newLine \in Nat \ {0}
             /\ h.start # 0 /\ i < n => g[i].newLine = h.start + NewUpTo(h, i)
           N == {i \in Nat : i <= n => Right(i)}
<1>9. 0 \in N
  <2>1. NewUpTo(h, 0) = 0 /\ AddedUpTo(h, 0) = {}
    BY UpToStep
  <2>2. C \cup AddedUpTo(h, 0) = C
    BY <2>1
  <2>3. h.start + NewUpTo(h, 0) = h.start
    <3>1. h.start \in Nat
      BY DEF IsHunk
    <3> QED
      BY <2>1, <3>1
  <2>4. Right(0)
    BY <1>2, <1>7, <2>2, <2>3
  <2> QED
    BY <2>4
<1>10. ASSUME NEW i \in N PROVE i + 1 \in N
  <2>0. i \in Nat /\ (i <= n => Right(i))
    OBVIOUS
  <2> SUFFICES ASSUME i + 1 <= n PROVE Right(i + 1)
    <3> HIDE DEF Right
    <3> QED
      BY <2>0
  <2> DEFINE l == b[i + 1]  D == C \cup AddedUpTo(h, i)  r == g[i + 1]
  <2>1. /\ i \in Nat /\ i + 1 \in 1..n /\ i < n /\ (i + 1) - 1 = i
        /\ Counting(g[i], done, p, D) /\ g[i].inHunk = TRUE /\ g[i].newLine \in Nat \ {0}
        /\ h.start # 0 => g[i].newLine = h.start + NewUpTo(h, i)
    BY <1>1, <2>0
  <2>2. r = ScanAll(g[i], BodyLines(l))
    BY <1>6, <2>1
  <2>3. l \in PlainKinds /\ (l \in LastKinds => i + 1 = n)
    BY <1>8, <2>1
  <2> HIDE DEF N, l, D, r
  <2>4. /\ Counting(r, done, p, IF IsAdded(l) THEN D \cup {g[i].newLine} ELSE D)
        /\ r.inHunk = TRUE /\ r.newLine \in Nat \ {0}
        /\ l \notin LastKinds =>
             r.newLine = IF IsNew(l) THEN g[i].newLine + 1 ELSE g[i].newLine
    BY <2>1, <2>2, <2>3, ScanBody
  <2>5. /\ NewUpTo(h, i) \in Nat
        /\ NewUpTo(h, i + 1) = IF IsNew(l) THEN NewUpTo(h, i) + 1 ELSE NewUpTo(h, i)
        /\ AddedUpTo(h, i + 1) =
             IF IsAdded(l) THEN AddedUpTo(h, i) \cup {h.start + NewUpTo(h, i)}
             ELSE AddedUpTo(h, i)
    BY <2>1, UpToStep DEF l, b
  <2>6. h.start = 0 => ~IsAdded(l)
    BY <1>8, <2>1 DEF l
  <2>7. (IF IsAdded(l) THEN D \cup {g[i].newLine} ELSE D) = C \cup AddedUpTo(h, i + 1)
    BY <2>1, <2>5, <2>6 DEF D
  <2>8. h.start # 0 /\ i + 1 < n => r.newLine = h.start + NewUpTo(h, i + 1)
    <3> SUFFICES ASSUME h.start # 0, i + 1 < n PROVE r.newLine = h.start + NewUpTo(h, i + 1)
      OBVIOUS
    <3>1. l \notin LastKinds /\ g[i].newLine = h.start + NewUpTo(h, i) /\ h.start \in Nat
      BY <1>1, <2>1, <2>3 DEF IsHunk
    <3> QED
      BY <2>4, <2>5, <3>1
  <2> QED
    BY <2>4, <2>7, <2>8 DEF r
<1>11. N \subseteq Nat
  OBVIOUS
<1>12. n \in N
  <2> HIDE DEF N
  <2> QED
    BY <1>1, <1>9, <1>10, <1>11, SetInduction
<1>13. Counting(g[n], done, p, C \cup AddedUpTo(h, n))
  <2>1. Right(n)
    <3> HIDE DEF Right
    <3> QED
      BY <1>1, <1>12
  <2> QED
    BY <2>1
<1>14. AddedUpTo(h, n) = AddedBy(h)
  <2>1. {k \in 1..n : IsAdded(h.body[k])} = {k \in DOMAIN h.body : IsAdded(h.body[k])}
    BY <1>1 DEF b, n
  <2> QED
    BY <2>1 DEF AddedUpTo, AddedBy, NewUpTo
<1> QED
  BY <1>3, <1>5, <1>13, <1>14

LEMMA ScanHunks ==
  ASSUME NEW st, NEW done, NEW p, Counting(st, done, p, {}), NEW c, IsChange(c), Plain(c)
  PROVE  Counting(ScanAll(st, FlattenSeq(HunkParts(c))), done, p, TrulyAdded(c))
<1> DEFINE hs == c.hunks  n == Len(c.hunks)  parts == HunkParts(c)
           Upto(i) == UNION {AddedBy(hs[k]) : k \in 1..i}
<1>1. /\ IsListOfLists(parts) /\ Len(parts) = n /\ n \in Nat /\ DOMAIN hs = 1..n
      /\ \A k \in 1..n : IsHunk(hs[k])
  BY HunkPartsShape
<1>2. PICK g : Trajectory(g, st, parts)
  <2> HIDE DEF parts
  <2> QED
    BY <1>1, TrajectoryExists DEF IsListOfLists
<1>3. ScanAll(st, FlattenSeq(parts)) = g[n]
  <2>1. ScanAll(st, FlattenSeq(parts)) = g[Len(parts)]
    <3> HIDE DEF parts
    <3> QED
      BY <1>1, <1>2, ScanFlatten
  <2> QED
    BY <1>1, <2>1
<1>4. g[0] = st /\ \A k \in 1..n : g[k] = ScanAll(g[k - 1], HunkLines(hs[k]))
  BY <1>1, <1>2 DEF Trajectory, HunkParts
<1>5. \A k \in 1..n : PlainHunk(hs[k])
  BY <1>1 DEF Plain
<1>6. Upto(n) = TrulyAdded(c)
  BY <1>1 DEF TrulyAdded
<1> HIDE DEF hs, n, parts
<1> DEFINE Right(i) == Counting(g[i], done, p, Upto(i))
           N == {i \in Nat : i <= n => Right(i)}
<1>7. 0 \in N
  <2>1. Upto(0) = {}
    OBVIOUS
  <2> HIDE DEF Upto
  <2> QED
    BY <1>4, <2>1
<1>8. ASSUME NEW i \in N PROVE i + 1 \in N
  <2>0. i \in Nat /\ (i <= n => Right(i))
    OBVIOUS
  <2> SUFFICES ASSUME i + 1 <= n PROVE Right(i + 1)
    <3> HIDE DEF Right
    <3> QED
      BY <2>0
  <2>1. i + 1 \in 1..n /\ (i + 1) - 1 = i /\ Counting(g[i], done, p, Upto(i))
    BY <1>1, <2>0
  <2>2. /\ g[i + 1] = ScanAll(g[i], HunkLines(hs[i + 1]))
        /\ IsHunk(hs[i + 1]) /\ PlainHunk(hs[i + 1])
    BY <1>1, <1>4, <1>5, <2>1
  <2>3. 1..(i + 1) = 1..i \cup {i + 1}
    BY <2>0
  <2>4. Upto(i + 1) = Upto(i) \cup AddedBy(hs[i + 1])
    BY <2>3
  <2> HIDE DEF Upto
  <2> QED
    BY <2>1, <2>2, <2>4, ScanHunk
<1>9. N \subseteq Nat
  OBVIOUS
<1>10. n \in N
  <2> HIDE DEF N
  <2> QED
    BY <1>1, <1>7, <1>8, <1>9, SetInduction
<1>11. Right(n)
  <2> HIDE DEF Right
  <2> QED
    BY <1>1, <1>10
<1> QED
  BY <1>3, <1>6, <1>11 DEF parts

(* What is read of a change.                                               *)
Reads(f, c) ==
  /\ IsFile(f)
  /\ f.path \in {c.new, Junk, NoPath}
  /\ c.hunks = << >> => f.path = NoPath
  /\ c.new # Nowhere /\ Plain(c) /\ c.hunks # << >> =>
       /\ f.path = c.new /\ f.status # "removed"
       /\ AreRanges(f.added) /\ Covers(f.added) = TrulyAdded(c)

LEMMA ScanThree ==
  ASSUME NEW st, NEW x, NEW y, NEW z
  PROVE  IsList(<<x, y, z>>) /\ ScanAll(st, <<x, y, z>>) = Scan(Scan(Scan(st, x), y), z)
<1> DEFINE a == Scan(st, x)  b == Scan(a, y)  d == Scan(b, z)
           g == [i \in 0..3 |-> IF i = 0 THEN st ELSE IF i = 1 THEN a ELSE IF i = 2 THEN b ELSE d]
           lines == <<x, y, z>>
<1>1. /\ IsList(lines) /\ Len(lines) = 3
      /\ lines[1] = x /\ lines[2] = y /\ lines[3] = z
  <2>1. /\ lines \in Seq({x, y, z}) /\ DOMAIN lines = 1..3 /\ Len(lines) = 3
        /\ lines[1] = x /\ lines[2] = y /\ lines[3] = z
    OBVIOUS
  <2> HIDE DEF lines
  <2> QED
    BY <2>1, ListOf
<1> HIDE DEF lines
<1>2. g[0] = st /\ g[1] = Scan(g[0], x) /\ g[2] = Scan(g[1], y) /\ g[3] = Scan(g[2], z) /\ g[3] = d
  <2>1. g[0] = st /\ g[1] = a /\ g[2] = b /\ g[3] = d
    <3> HIDE DEF a, b, d
    <3> QED
      OBVIOUS
  <2> HIDE DEF g
  <2> QED
    BY <2>1
<1> HIDE DEF g
<1>3. \A i \in 1..3 : (i = 1 /\ i - 1 = 0) \/ (i = 2 /\ i - 1 = 1) \/ (i = 3 /\ i - 1 = 2)
  OBVIOUS
<1>4. Scans(g, st, lines)
  BY <1>1, <1>2, <1>3 DEF Scans
<1>5. ScanAll(st, lines) = g[3]
  BY <1>1, <1>4, ScanUnique
<1> QED
  BY <1>1, <1>2, <1>5 DEF lines

LEMMA ScanHeaders ==
  ASSUME NEW st, NEW done, Reading(st, done), st.cur = FreshFile, NEW old, NEW new
  PROVE  LET r == Scan(Scan(st, OldLine(old)), NewLine(new)) IN
         /\ Reading(r, done) /\ r.cur.path \in {new, NoPath} /\ r.cur.added = << >>
         /\ new # Nowhere => r.cur.path = new /\ r.cur.status # "removed"
<1> DEFINE s == Scan(st, OldLine(old))  r == Scan(s, NewLine(new))
<1>1. s = [st EXCEPT !.cur = OldHeader(st.cur, old)]
  BY FileIsSome DEF Scan, OldLine, Reading
<1> HIDE DEF s
<1>2. IsState(s) /\ s.files = st.files /\ s.cur = OldHeader(st.cur, old)
  BY <1>1 DEF Reading, IsState
<1>3. /\ IsFile(s.cur) /\ s.cur.path = NoPath /\ s.cur.added = << >>
      /\ s.cur.status \in {"modified", "added"}
  BY <1>2, HeaderFields, FreshIsFile
<1>4. r = [s EXCEPT !.cur = NewHeader(s.cur, new)]
  BY <1>3, FileIsSome DEF Scan, NewLine
<1> HIDE DEF r
<1>5. IsState(r) /\ r.files = st.files /\ r.cur = NewHeader(s.cur, new)
  BY <1>2, <1>4 DEF IsState
<1>6. /\ IsFile(r.cur) /\ r.cur.path \in {new, NoPath} /\ r.cur.added = << >>
      /\ new # Nowhere => r.cur.path = new /\ r.cur.status # "removed"
  BY <1>3, <1>5, HeaderFields
<1> QED
  BY <1>5, <1>6 DEF Reading, r, s

LEMMA ScanChange ==
  ASSUME NEW st, IsState(st), NEW c, IsChange(c)
  PROVE  LET r == ScanAll(st, FileLines(c)) IN
         Reading(r, Flush(st)) /\ Reads(r.cur, c)
<1> DEFINE r == ScanAll(st, FileLines(c))  done == Flush(st)  s == Scan(st, GitLine)
           q == FlattenSeq(HunkParts(c))
<1>1. Reading(s, done) /\ s.cur = FreshFile
  BY ScanGit
<1>2. CASE c.hunks = << >>
  <2>1. r = s
    BY <1>2, ScanOne DEF FileLines
  <2> HIDE DEF r, s, done
  <2> QED
    BY <1>1, <1>2, <2>1, FreshIsFile DEF Reads, r, done
<1>3. CASE c.hunks # << >>
  <2> DEFINE head == <<GitLine, OldLine(c.old), NewLine(c.new)>>
             t == Scan(Scan(s, OldLine(c.old)), NewLine(c.new))
  <2>1. FileLines(c) = head \o q
    BY <1>3 DEF FileLines, HunkParts
  <2>2. IsList(head) /\ ScanAll(st, head) = t
    BY ScanThree
  <2>3. IsList(q) /\ \A x \in Elements(q) : Inner(x, {Junk})
    BY HunkPartsShape
  <2>4. ScanAll(st, head \o q) = ScanAll(t, q)
    <3> HIDE DEF head, q, t
    <3> QED
      BY <2>2, <2>3, ScanConcat
  <2>5. r = ScanAll(t, q)
    BY <2>1, <2>4
  <2>6. /\ Reading(t, done) /\ t.cur.path \in {c.new, NoPath} /\ t.cur.added = << >>
        /\ c.new # Nowhere => t.cur.path = c.new /\ t.cur.status # "removed"
    <3> HIDE DEF s, done
    <3> QED
      BY <1>1, ScanHeaders
  <2> HIDE DEF t, q, r, done
  <2>7. Reading(r, done) /\ r.cur.path \in {Junk} \cup {t.cur.path}
    BY <2>3, <2>5, <2>6, ScanAllInner
  <2>8. ASSUME c.new # Nowhere, Plain(c)
        PROVE  /\ r.cur.path = c.new /\ r.cur.status # "removed"
               /\ AreRanges(r.cur.added) /\ Covers(r.cur.added) = TrulyAdded(c)
    <3>1. AreRanges(<< >>) /\ Covers(<< >>) = {}
      <4>1. Elements(<< >>) = {} /\ IsList(<< >>)
        BY DEF Elements, IsList
      <4> QED
        BY <4>1 DEF AreRanges, Covers
    <3>2. Counting(t, done, c.new, {})
      BY <2>6, <2>8, <3>1 DEF Counting
    <3>3. Counting(r, done, c.new, TrulyAdded(c))
      BY <2>5, <2>8, <3>2, ScanHunks DEF q
    <3> QED
      BY <3>3 DEF Counting
  <2>9. Reads(r.cur, c)
    BY <1>3, <2>6, <2>7, <2>8 DEF Reads, Reading
  <2> QED
    BY <2>7, <2>9 DEF r, done
<1> QED
  BY <1>2, <1>3

LEMMA FileLinesShape ==
  ASSUME NEW c, IsChange(c)
  PROVE  IsList(FileLines(c))
<1> DEFINE head == <<GitLine, OldLine(c.old), NewLine(c.new)>>  q == FlattenSeq(HunkParts(c))
<1>1. CASE c.hunks = << >>
  <2>1. FileLines(c) = <<GitLine>>
    BY <1>1 DEF FileLines
  <2> QED
    BY <2>1, OneElement
<1>2. CASE c.hunks # << >>
  <2>1. FileLines(c) = head \o q
    BY <1>2 DEF FileLines, HunkParts
  <2>2. IsList(head) /\ IsList(q)
    BY ScanThree, HunkPartsShape
  <2> HIDE DEF head, q
  <2> QED
    BY <2>1, <2>2, ListConcat
<1> QED
  BY <1>1, <1>2

LEMMA ParseReads ==
  ASSUME NEW cs, IsList(cs), \A i \in DOMAIN cs : IsChange(cs[i])
  PROVE  LET all == Parse(Unified(cs)) IN
         /\ IsList(all) /\ DOMAIN all = DOMAIN cs
         /\ \A k \in DOMAIN cs : Reads(all[k], cs[k])
<1> DEFINE n == Len(cs)  parts == [i \in DOMAIN cs |-> FileLines(cs[i])]
<1>1. n \in Nat /\ DOMAIN cs = 1..n
  BY ListBasics
<1>2. IsListOfLists(parts) /\ Len(parts) = n
  <2>1. DOMAIN parts = 1..n /\ parts = [i \in 1..n |-> parts[i]]
    BY <1>1
  <2>2. \A i \in DOMAIN parts : IsList(parts[i])
    BY FileLinesShape
  <2> HIDE DEF parts, n
  <2>3. IsList(parts) /\ Len(parts) = n
    BY <1>1, <2>1, ListMade
  <2> QED
    BY <2>2, <2>3 DEF IsListOfLists
<1>3. Parse(Unified(cs)) = Flush(ScanAll(Start, FlattenSeq(parts)))
  BY DEF Parse, Unified
<1>4. PICK g : Trajectory(g, Start, parts)
  <2> HIDE DEF parts
  <2> QED
    BY <1>2, TrajectoryExists DEF IsListOfLists
<1>5. ScanAll(Start, FlattenSeq(parts)) = g[n]
  <2>1. ScanAll(Start, FlattenSeq(parts)) = g[Len(parts)]
    <3> HIDE DEF parts
    <3> QED
      BY <1>2, <1>4, ScanFlatten
  <2> QED
    BY <1>2, <2>1
<1>6. g[0] = Start /\ \A k \in 1..n : g[k] = ScanAll(g[k - 1], FileLines(cs[k]))
  BY <1>1, <1>2, <1>4 DEF Trajectory
<1> HIDE DEF parts, n
<1> DEFINE Right(i) ==
             /\ IsState(g[i]) /\ IsList(Flush(g[i])) /\ Len(Flush(g[i])) = i
             /\ \A k \in 1..i : Reads(Flush(g[i])[k], cs[k])
           N == {i \in Nat : i <= n => Right(i)}
<1>7. 0 \in N
  <2>1. IsState(Start) /\ Flush(Start) = << >>
    BY DEF Start, IsState, Flush
  <2>2. IsList(<< >>) /\ Len(<< >>) = 0
    BY DEF IsList
  <2>3. Right(0)
    BY <1>6, <2>1, <2>2
  <2> HIDE DEF Right
  <2> QED
    BY <2>3
<1>8. ASSUME NEW i \in N PROVE i + 1 \in N
  <2>0. i \in Nat /\ (i <= n => Right(i))
    OBVIOUS
  <2> SUFFICES ASSUME i + 1 <= n PROVE Right(i + 1)
    <3> HIDE DEF Right
    <3> QED
      BY <2>0
  <2> DEFINE st == g[i]  r == g[i + 1]  c == cs[i + 1]  before == Flush(g[i])
  <2>1. /\ i + 1 \in 1..n /\ (i + 1) - 1 = i /\ IsState(st) /\ IsList(before) /\ Len(before) = i
        /\ \A k \in 1..i : Reads(before[k], cs[k])
    BY <1>1, <2>0
  <2>2. r = ScanAll(st, FileLines(c)) /\ IsChange(c)
    BY <1>1, <1>6, <2>1
  <2>3. Reading(r, Flush(st)) /\ Reads(r.cur, c)
    <3> HIDE DEF st, r, c
    <3> QED
      BY <2>1, <2>2, ScanChange
  <2> HIDE DEF Right, N
  <2>4. IsState(r) /\ Flush(r) = Append(before, r.cur)
    BY <2>3, FileIsSome DEF Flush, Reading
  <2> HIDE DEF before, r, c, st
  <2>5. /\ IsList(Append(before, r.cur)) /\ Len(Append(before, r.cur)) = i + 1
        /\ \A k \in 1..i : Append(before, r.cur)[k] = before[k]
        /\ Append(before, r.cur)[i + 1] = r.cur
    <3>1. /\ IsList(Append(before, r.cur))
          /\ Elements(Append(before, r.cur)) = Elements(before) \cup {r.cur}
          /\ Len(Append(before, r.cur)) = Len(before) + 1
          /\ \A k \in 1..Len(before) : Append(before, r.cur)[k] = before[k]
          /\ Append(before, r.cur)[Len(before) + 1] = r.cur
      BY <2>1, ListAppend
    <3> QED
      BY <2>1, <3>1
  <2>6. ASSUME NEW k \in 1..(i + 1) PROVE Reads(Flush(r)[k], cs[k])
    <3>1. CASE k = i + 1
      BY <2>3, <2>4, <2>5, <3>1 DEF c
    <3>2. CASE k # i + 1
      <4>1. k \in 1..i
        BY <2>0, <3>2
      <4> QED
        BY <2>1, <2>4, <2>5, <4>1
    <3> QED
      BY <3>1, <3>2
  <2> QED
    BY <2>4, <2>5, <2>6 DEF Right, r
<1>9. N \subseteq Nat
  OBVIOUS
<1>10. n \in N
  <2> HIDE DEF N
  <2> QED
    BY <1>1, <1>7, <1>8, <1>9, SetInduction
<1>11. Right(n)
  <2> HIDE DEF Right
  <2> QED
    BY <1>1, <1>10
<1>12. /\ IsList(Flush(g[n])) /\ DOMAIN Flush(g[n]) = 1..n
       /\ \A k \in 1..n : Reads(Flush(g[n])[k], cs[k])
  BY <1>11, ListBasics
<1> QED
  BY <1>1, <1>3, <1>5, <1>12

-----------------------------------------------------------------------------
(* What is touched is tested.                                              *)

LEMMA HeadAndTail ==
  ASSUME NEW q, IsList(q), q # << >>
  PROVE  /\ IsList(Tail(q)) /\ Len(q) \in Nat /\ DOMAIN q = 1..Len(q) /\ Len(q) # 0
         /\ DOMAIN Tail(q) = 1..(Len(q) - 1) /\ \A i \in 1..(Len(q) - 1) : Tail(q)[i] = q[i + 1]
         /\ Head(q) = q[1]
         /\ Elements(q) = {Head(q)} \cup Elements(Tail(q))
<1> DEFINE S == Elements(q)  n == Len(q)
<1>1. q \in Seq(S) /\ n \in Nat /\ n # 0 /\ DOMAIN q = 1..n
  BY DEF IsList
<1> HIDE DEF S
<1>2. /\ Tail(q) \in Seq(S) /\ DOMAIN Tail(q) = 1..(n - 1) /\ Head(q) = q[1]
      /\ \A i \in 1..(n - 1) : Tail(q)[i] = q[i + 1]
  BY <1>1
<1>3. IsList(Tail(q))
  BY <1>2, ListOf
<1>4. Elements(q) = {Head(q)} \cup Elements(Tail(q))
  <2>1. \A i \in 1..n : i = 1 \/ (i - 1 \in 1..(n - 1) /\ (i - 1) + 1 = i)
    BY <1>1
  <2>2. \A i \in 1..(n - 1) : i + 1 \in 1..n
    BY <1>1
  <2>3. 1 \in 1..n
    BY <1>1
  <2> HIDE DEF n
  <2>4. ASSUME NEW x \in Elements(q) PROVE x \in {Head(q)} \cup Elements(Tail(q))
    <3>1. PICK i \in 1..n : q[i] = x
      BY <1>1 DEF Elements
    <3>2. CASE i = 1
      BY <1>2, <3>1, <3>2
    <3>3. CASE i # 1
      <4>1. i - 1 \in 1..(n - 1) /\ (i - 1) + 1 = i
        BY <2>1, <3>3
      <4>2. i - 1 \in DOMAIN Tail(q) /\ Tail(q)[i - 1] = x
        BY <1>2, <3>1, <4>1
      <4> QED
        BY <4>2 DEF Elements
    <3> QED
      BY <3>2, <3>3
  <2>5. ASSUME NEW x \in {Head(q)} \cup Elements(Tail(q)) PROVE x \in Elements(q)
    BY <1>1, <1>2, <2>2, <2>3 DEF Elements
  <2> QED
    BY <2>4, <2>5
<1> QED
  BY <1>1, <1>2, <1>3, <1>4

IsSymbol(s) == \E p \in Paths : s \in Elements(SymbolsOf[p])
IsPlanned(it) ==
  /\ IsSymbol(it.symbol) /\ it.symbols = << >> /\ it.template # "pw_happyflow"
  /\ IsComponentTest(it) => it.symbol.kind = "component"

LEMMA SymbolShape ==
  ASSUME NEW p \in Paths, NEW s \in Elements(SymbolsOf[p])
  PROVE  /\ p \notin {NoPath, Nowhere, Junk}
         /\ {"file", "line", "links"} \subseteq DOMAIN s
         /\ s.file = p /\ IsSpan(s)
<1>1. s \in Range(SymbolsOf[p])
  BY Ranges
<1> QED
  BY <1>1, SymbolsAssumption DEF IsSpan

Touched(c) == {s \in Range(SymbolsOf[c.new]) : TrulyAdded(c) \cap s.line..s.end # {}}

LEMMA HitTouched ==
  ASSUME NEW c, IsChange(c), c.new # Nowhere, Plain(c), c.hunks # << >>, NEW f, Reads(f, c)
  PROVE  Elements(Hit(f)) = Touched(c)
<1>1. /\ f.path = c.new /\ f.status # "removed" /\ c.new \in Paths
      /\ AreRanges(f.added) /\ Covers(f.added) = TrulyAdded(c)
  BY DEF Reads, IsChange
<1>2. Known(f) = SymbolsOf[c.new]
  BY <1>1 DEF Known
<1>3. Elements(Hit(f)) = {s \in Elements(SymbolsOf[c.new]) : Intersects(f.added, s.line, s.end)}
  BY <1>2, HitShape
<1>4. ASSUME NEW s \in Elements(SymbolsOf[c.new])
      PROVE  Intersects(f.added, s.line, s.end) <=> TrulyAdded(c) \cap s.line..s.end # {}
  <2>1. s.line \in Nat /\ s.end \in Nat /\ (s.end = 0 \/ s.line <= s.end)
    BY <1>1, SymbolShape DEF IsSpan
  <2> QED
    BY <1>1, <2>1, IntersectsMeans
<1>5. Range(SymbolsOf[c.new]) = Elements(SymbolsOf[c.new])
  BY Ranges
<1> QED
  BY <1>3, <1>4, <1>5 DEF Touched

FilesApart(q) ==
  \A i, k \in DOMAIN q : i # k /\ q[i].path \in Paths => q[i].path # q[k].path

(* The symbols planned for a path.                                         *)
PlannedFor(q, path) == {it.symbol : it \in {it \in Elements(q) : it.symbol.file = path}}

Pending(c) == \E f \in Elements(files) : f.path = c.new /\ c.hunks # << >> /\ Reads(f, c)
Done(c) ==
  /\ \A f \in Elements(files) : f.path # c.new
  /\ Touched(c) = PlannedFor(items, c.new)

WellPlanned(q) ==
  IsList(q) /\ ComponentsApart(q) /\ \A it \in Elements(q) : IsPlanned(it)

PlanInv ==
  /\ in \in Inputs
  /\ pc = "diff" => items = << >>
  /\ pc = "build" =>
       /\ IsList(files) /\ FilesApart(files) /\ WellPlanned(items)
       /\ \A it \in Elements(items), f \in Elements(files) : it.symbol.file # f.path
       /\ \A c \in Elements(in.changes) : c.new # Nowhere /\ Plain(c) => Pending(c) \/ Done(c)
  /\ pc \notin {"diff", "build"} =>
       /\ WellPlanned(planned)
       /\ \A c \in Elements(in.changes) :
            c.new # Nowhere /\ Plain(c) => Touched(c) = PlannedFor(planned, c.new)

LEMMA PlanInit == Init => PlanInv
BY DEF Init, PlanInv

LEMMA TestsInPlan ==
  ASSUME NEW f
  PROVE  /\ IsList(ItemsOf(f)) /\ ComponentsApart(ItemsOf(f))
         /\ \A it \in Elements(ItemsOf(f)) :
              IsPlanned(it) /\ it.symbol.file = f.path /\ f.path \in Paths
         /\ {it.symbol : it \in Elements(ItemsOf(f))} = Elements(Hit(f))
<1>1. /\ IsList(ItemsOf(f)) /\ ComponentsApart(ItemsOf(f))
      /\ \A it \in Elements(ItemsOf(f)) : \E s \in Elements(Hit(f)) : IsTestOf(it, s)
      /\ \A s \in Elements(Hit(f)) : \E it \in Elements(ItemsOf(f)) : it.symbol = s
  BY ItemsShape
<1>2. ASSUME NEW s \in Elements(Hit(f))
      PROVE  IsSymbol(s) /\ s.file = f.path /\ f.path \in Paths
  <2>1. s \in Elements(Known(f))
    BY HitShape
  <2> QED
    BY <2>1, HitShape DEF IsSymbol
<1>3. ASSUME NEW it \in Elements(ItemsOf(f))
      PROVE  /\ IsPlanned(it) /\ it.symbol.file = f.path /\ f.path \in Paths
             /\ it.symbol \in Elements(Hit(f))
  <2>1. PICK s \in Elements(Hit(f)) : IsTestOf(it, s)
    BY <1>1
  <2>2. it.symbol = s
    BY <2>1 DEF IsTestOf
  <2> QED
    BY <1>2, <2>1, <2>2 DEF IsPlanned, IsTestOf
<1>4. {it.symbol : it \in Elements(ItemsOf(f))} = Elements(Hit(f))
  BY <1>1, <1>3
<1> QED
  BY <1>1, <1>3, <1>4

LEMMA PlanParse ==
  ASSUME PlanInv, ParseDiff
  PROVE  PlanInv'
<1> DEFINE cs == in.changes  all == Parse(Unified(in.changes))
<1>1. in \in Inputs /\ in' = in /\ items' = << >> /\ files' = all /\ pc' = "build"
  BY DEF PlanInv, ParseDiff
<1>2. /\ IsList(cs) /\ \A c \in Range(cs) : IsChange(c)
      /\ \A i, k \in DOMAIN cs : i # k /\ cs[i].new # Nowhere => cs[i].new # cs[k].new
  BY <1>1, InputsAssumption
<1>3. \A i \in DOMAIN cs : IsChange(cs[i]) /\ cs[i] \in Elements(cs)
  BY <1>2, Ranges DEF Elements
<1>4. IsList(all) /\ DOMAIN all = DOMAIN cs /\ \A k \in DOMAIN cs : Reads(all[k], cs[k])
  BY <1>2, <1>3, ParseReads
<1> HIDE DEF all
<1>5. \A k \in DOMAIN cs : all[k].path \in Paths => all[k].path = cs[k].new /\ cs[k].new # Nowhere
  BY <1>4, SymbolsAssumption DEF Reads
<1>6. FilesApart(all)
  <2> SUFFICES ASSUME NEW i \in DOMAIN all, NEW k \in DOMAIN all, i # k, all[i].path \in Paths,
                      all[i].path = all[k].path
               PROVE  FALSE
    BY DEF FilesApart
  <2>1. cs[i].new = cs[k].new /\ cs[i].new # Nowhere
    BY <1>4, <1>5
  <2> QED
    BY <1>2, <1>4, <2>1
<1>7. WellPlanned(<< >>) /\ Elements(<< >>) = {}
  <2>1. IsList(<< >>) /\ Elements(<< >>) = {}
    BY DEF IsList, Elements
  <2> QED
    BY <2>1 DEF WellPlanned, ComponentsApart, Pairwise
<1>8. ASSUME NEW c \in Elements(cs), c.new # Nowhere, Plain(c)
      PROVE  (Pending(c) \/ Done(c))'
  <2>1. PICK k \in DOMAIN cs : cs[k] = c
    BY DEF Elements
  <2>2. c.new \in Paths /\ Reads(all[k], c) /\ all[k] \in Elements(all)
    BY <1>3, <1>4, <1>8, <2>1 DEF IsChange, Elements
  <2>3. CASE c.hunks # << >>
    <3>1. all[k].path = c.new
      BY <1>8, <2>2, <2>3 DEF Reads
    <3> QED
      BY <1>1, <2>2, <2>3, <3>1 DEF Pending
  <2>4. CASE c.hunks = << >>
    <3>1. ASSUME NEW f \in Elements(all) PROVE f.path # c.new
      <4>1. PICK i \in DOMAIN all : all[i] = f
        BY DEF Elements
      <4>2. CASE i = k
        <5>1. f.path = NoPath /\ NoPath \notin Paths
          BY <2>2, <2>4, <4>1, <4>2, SymbolsAssumption DEF Reads
        <5> QED
          BY <2>2, <5>1
      <4>3. CASE i # k
        BY <1>2, <1>4, <1>5, <1>8, <2>1, <2>2, <4>1, <4>3
      <4> QED
        BY <4>2, <4>3
    <3>2. Touched(c) = {}
      <4>1. TrulyAdded(c) = {}
        BY <2>4 DEF TrulyAdded
      <4> QED
        BY <4>1 DEF Touched
    <3>3. PlannedFor(<< >>, c.new) = {}
      BY <1>7 DEF PlannedFor
    <3> QED
      BY <1>1, <3>1, <3>2, <3>3 DEF Done
  <2> QED
    BY <2>3, <2>4
<1> QED
  BY <1>1, <1>4, <1>6, <1>7, <1>8 DEF PlanInv

LEMMA PlanBuild ==
  ASSUME PlanInv, BuildFile
  PROVE  PlanInv'
<1> DEFINE f == Head(files)  rest == Tail(files)  new == ItemsOf(Head(files))
           all == items \o ItemsOf(Head(files))
<1>1. /\ pc = "build" /\ pc' = "build" /\ in' = in /\ files # << >>
      /\ items' = all /\ files' = rest
  BY DEF BuildFile
<1>2. /\ in \in Inputs /\ IsList(files) /\ FilesApart(files) /\ WellPlanned(items)
      /\ \A it \in Elements(items), g \in Elements(files) : it.symbol.file # g.path
      /\ \A c \in Elements(in.changes) : c.new # Nowhere /\ Plain(c) => Pending(c) \/ Done(c)
  BY <1>1 DEF PlanInv
<1>3. /\ IsList(rest) /\ Elements(files) = {f} \cup Elements(rest)
      /\ DOMAIN files = 1..Len(files) /\ DOMAIN rest = 1..(Len(files) - 1)
      /\ \A i \in 1..(Len(files) - 1) : rest[i] = files[i + 1]
      /\ f = files[1] /\ Len(files) \in Nat /\ Len(files) # 0
  BY <1>1, <1>2, HeadAndTail
<1>4. /\ IsList(new) /\ ComponentsApart(new)
      /\ \A it \in Elements(new) : IsPlanned(it) /\ it.symbol.file = f.path /\ f.path \in Paths
      /\ {it.symbol : it \in Elements(new)} = Elements(Hit(f))
  BY TestsInPlan
<1>5. /\ IsList(items) /\ ComponentsApart(items)
      /\ \A it \in Elements(items) : IsPlanned(it) /\ it.symbol.file # f.path
  BY <1>2, <1>3 DEF WellPlanned
<1> HIDE DEF new, f, rest
<1>6. IsList(items \o new) /\ Elements(items \o new) = Elements(items) \cup Elements(new)
  BY <1>4, <1>5, ListConcat
<1>7. all = items \o new
  BY DEF new
<1>8. FilesApart(rest)
  <2> SUFFICES ASSUME NEW i \in DOMAIN rest, NEW k \in DOMAIN rest, i # k, rest[i].path \in Paths
               PROVE  rest[i].path # rest[k].path
    BY DEF FilesApart
  <2>1. /\ i + 1 \in DOMAIN files /\ k + 1 \in DOMAIN files /\ i + 1 # k + 1
        /\ rest[i] = files[i + 1] /\ rest[k] = files[k + 1]
    BY <1>3
  <2> QED
    BY <1>2, <2>1 DEF FilesApart
<1>9. \A g \in Elements(rest) : f.path \in Paths => g.path # f.path
  <2> SUFFICES ASSUME NEW g \in Elements(rest), f.path \in Paths PROVE g.path # f.path
    OBVIOUS
  <2>1. PICK i \in DOMAIN rest : rest[i] = g
    BY DEF Elements
  <2>2. i + 1 \in DOMAIN files /\ 1 \in DOMAIN files /\ 1 # i + 1 /\ g = files[i + 1]
    BY <1>3, <2>1
  <2> QED
    BY <1>2, <1>3, <2>2 DEF FilesApart
<1>10. WellPlanned(items \o new)
  <2> DEFINE S == Elements(items) \cup Elements(new)
  <2>1. Pairwise(items, Apart(S)) /\ Pairwise(new, Apart(S))
    <3>1. Elements(items) \subseteq S /\ Elements(new) \subseteq S
      OBVIOUS
    <3> HIDE DEF S
    <3> QED
      BY <1>4, <1>5, <3>1, ApartIn
  <2>2. ASSUME NEW x \in Elements(items), NEW y \in Elements(new)
        PROVE  <<x, y>> \in Apart(S) /\ <<y, x>> \in Apart(S)
    <3>1. At(x.symbol) # At(y.symbol)
      BY <1>4, <1>5 DEF At
    <3> QED
      BY <3>1 DEF Apart
  <2> HIDE DEF S
  <2>3. Pairwise(items \o new, Apart(S))
    BY <1>4, <1>5, <2>1, <2>2, ConcatPairs
  <2>4. ComponentsApart(items \o new)
    BY <2>3, ApartOf
  <2> QED
    BY <1>4, <1>5, <1>6, <2>4 DEF WellPlanned
<1>11. \A it \in Elements(items \o new), g \in Elements(rest) : it.symbol.file # g.path
  BY <1>2, <1>3, <1>4, <1>6, <1>9
<1>12. ASSUME NEW c \in Elements(in.changes), c.new # Nowhere, Plain(c)
       PROVE  (Pending(c) \/ Done(c))'
  <2>1. IsChange(c) /\ c.new \in Paths
    <3>1. c \in Range(in.changes)
      BY Ranges
    <3> QED
      BY <1>2, <1>12, <3>1, InputsAssumption DEF IsChange
  <2>2. CASE c.new = f.path
    <3>1. Pending(c)
      BY <1>2, <1>3, <1>12, <2>2 DEF Done
    <3>2. c.hunks # << >> /\ Reads(f, c)
      BY <1>3, <1>9, <2>1, <2>2, <3>1 DEF Pending
    <3>3. Elements(Hit(f)) = Touched(c)
      BY <1>12, <2>1, <3>2, HitTouched
    <3>4. PlannedFor(items \o new, c.new) = {it.symbol : it \in Elements(new)}
      BY <1>4, <1>5, <1>6, <2>2 DEF PlannedFor
    <3>5. \A g \in Elements(rest) : g.path # c.new
      BY <1>9, <2>1, <2>2
    <3> QED
      BY <1>1, <1>4, <1>7, <3>3, <3>4, <3>5 DEF Done
  <2>3. CASE c.new # f.path
    <3>1. CASE Pending(c)
      <4>1. \E g \in Elements(rest) : g.path = c.new /\ c.hunks # << >> /\ Reads(g, c)
        BY <1>3, <2>3, <3>1 DEF Pending
      <4> QED
        BY <1>1, <4>1 DEF Pending
    <3>2. CASE Done(c)
      <4>1. \A g \in Elements(rest) : g.path # c.new
        BY <1>3, <3>2 DEF Done
      <4>2. PlannedFor(items \o new, c.new) = PlannedFor(items, c.new)
        BY <1>4, <1>6, <2>3 DEF PlannedFor
      <4> QED
        BY <1>1, <1>7, <3>2, <4>1, <4>2 DEF Done
    <3> QED
      BY <1>2, <1>12, <3>1, <3>2
  <2> QED
    BY <2>2, <2>3
<1> QED
  BY <1>1, <1>2, <1>3, <1>7, <1>8, <1>10, <1>11, <1>12 DEF PlanInv

LEMMA PlanMatch ==
  ASSUME PlanInv, Match
  PROVE  PlanInv'
<1>1. /\ pc = "build" /\ pc' \notin {"diff", "build"} /\ in' = in /\ files = << >>
      /\ planned' = items
  BY DEF Match
<1>2. /\ in \in Inputs /\ WellPlanned(items)
      /\ \A c \in Elements(in.changes) : c.new # Nowhere /\ Plain(c) => Pending(c) \/ Done(c)
  BY <1>1 DEF PlanInv
<1>3. Elements(files) = {}
  BY <1>1 DEF Elements
<1>4. \A c \in Elements(in.changes) :
        c.new # Nowhere /\ Plain(c) => Touched(c) = PlannedFor(items, c.new)
  BY <1>2, <1>3 DEF Pending, Done
<1> QED
  BY <1>1, <1>2, <1>4 DEF PlanInv

LEMMA PlanStep == PlanInv /\ [Next]_vars => PlanInv'
<1> SUFFICES ASSUME PlanInv, [Next]_vars PROVE PlanInv'
  OBVIOUS
<1>1. CASE UNCHANGED vars
  BY <1>1 DEF PlanInv, vars, Pending, Done
<1>2. ASSUME MaterialiseGroup \/ Assemble \/ Filter
      PROVE  PlanInv'
  <2>1. /\ pc \notin {"diff", "build"} /\ pc' \notin {"diff", "build"}
        /\ in' = in /\ planned' = planned
    BY <1>2 DEF MaterialiseGroup, Assemble, Filter
  <2> QED
    BY <2>1 DEF PlanInv
<1> QED
  BY <1>1, <1>2, PlanParse, PlanBuild, PlanMatch DEF Next

(* For any diff git writes: no change of it confuses the reading of        *)
(* another file, and of a file whose hunks Parse counts rightly exactly    *)
(* the symbols an added line is in are planned, none of them twice.        *)
THEOREM TouchedAreTestedHolds == Spec => []TouchedAreTested
<1>1. PlanInv => TouchedAreTested
  <2> SUFFICES ASSUME PlanInv, pc \notin {"diff", "build"},
                      NEW c \in Range(in.changes), c.new # Nowhere, Plain(c)
               PROVE  {s \in Range(SymbolsOf[c.new]) : TrulyAdded(c) \cap s.line..s.end # {}}
                        = {it.symbol : it \in {it \in Range(planned) : it.symbol.file = c.new}}
    BY DEF TouchedAreTested
  <2>1. Touched(c) = PlannedFor(planned, c.new)
    BY Ranges DEF PlanInv
  <2>2. Range(planned) = Elements(planned)
    BY Ranges
  <2> QED
    BY <2>1, <2>2 DEF Touched, PlannedFor
<1> QED
  BY <1>1, PlanInit, PlanStep, PTL DEF Spec

-----------------------------------------------------------------------------
(* Each component once.                                                    *)

(* The components a journey tests, by where they begin.                    *)
TestedBy(it) == IF it.template \in Journey THEN PlacesOf(it) ELSE {}
Tested(q) == UNION {TestedBy(it) : it \in Elements(q)}

Alone(S, C) == {p \in S \X S : TestedBy(p[1]) \cap TestedBy(p[2]) \cap C = {}}
OnceEach(q, C) == Pairwise(q, Alone(Elements(q), C))

LEMMA AloneIn ==
  ASSUME NEW C, NEW q, OnceEach(q, C), NEW S, Elements(q) \subseteq S
  PROVE  Pairwise(q, Alone(S, C))
BY DEF OnceEach, Pairwise, Alone

LEMMA AloneOf ==
  ASSUME NEW C, NEW q, NEW S, Pairwise(q, Alone(S, C))
  PROVE  OnceEach(q, C)
<1> SUFFICES ASSUME NEW i \in DOMAIN q, NEW k \in DOMAIN q, i # k
             PROVE  <<q[i], q[k]>> \in Alone(Elements(q), C)
  BY DEF OnceEach, Pairwise
<1>1. <<q[i], q[k]>> \in Alone(S, C) /\ q[i] \in Elements(q) /\ q[k] \in Elements(q)
  BY DEF Pairwise, Elements
<1> QED
  BY <1>1 DEF Alone

LEMMA OnceConcat ==
  ASSUME NEW C, NEW q, IsList(q), OnceEach(q, C), NEW r, IsList(r), OnceEach(r, C),
         Tested(q) \cap Tested(r) \cap C = {}
  PROVE  /\ IsList(q \o r) /\ OnceEach(q \o r, C)
         /\ Elements(q \o r) = Elements(q) \cup Elements(r)
         /\ Tested(q \o r) = Tested(q) \cup Tested(r)
<1> DEFINE S == Elements(q) \cup Elements(r)
<1>1. IsList(q \o r) /\ Elements(q \o r) = Elements(q) \cup Elements(r)
  BY ListConcat
<1>2. Pairwise(q, Alone(S, C)) /\ Pairwise(r, Alone(S, C))
  <2>1. Elements(q) \subseteq S /\ Elements(r) \subseteq S
    OBVIOUS
  <2> HIDE DEF S
  <2> QED
    BY <2>1, AloneIn
<1>3. ASSUME NEW x \in Elements(q), NEW y \in Elements(r)
      PROVE  <<x, y>> \in Alone(S, C) /\ <<y, x>> \in Alone(S, C)
  <2>1. TestedBy(x) \subseteq Tested(q) /\ TestedBy(y) \subseteq Tested(r)
    BY DEF Tested
  <2>2. TestedBy(x) \cap TestedBy(y) \cap C = {} /\ TestedBy(y) \cap TestedBy(x) \cap C = {}
    BY <2>1
  <2> QED
    BY <2>2 DEF Alone
<1> HIDE DEF S
<1>4. Pairwise(q \o r, Alone(S, C))
  BY <1>2, <1>3, ConcatPairs
<1>5. OnceEach(q \o r, C)
  BY <1>4, AloneOf
<1>6. Tested(q \o r) = Tested(q) \cup Tested(r)
  BY <1>1 DEF Tested
<1> QED
  BY <1>1, <1>5, <1>6

LEMMA OnceAppend ==
  ASSUME NEW C, NEW q, IsList(q), OnceEach(q, C), NEW it, Tested(q) \cap TestedBy(it) \cap C = {}
  PROVE  /\ IsList(Append(q, it)) /\ OnceEach(Append(q, it), C)
         /\ Elements(Append(q, it)) = Elements(q) \cup {it}
         /\ Tested(Append(q, it)) = Tested(q) \cup TestedBy(it)
<1> DEFINE all == Append(q, it)
<1>1. /\ IsList(all) /\ Elements(all) = Elements(q) \cup {it} /\ Len(all) = Len(q) + 1
      /\ \A i \in 1..Len(q) : all[i] = q[i]
      /\ all[Len(q) + 1] = it
  BY ListAppend
<1>2. /\ DOMAIN q = 1..Len(q) /\ Len(q) \in Nat /\ DOMAIN all = 1..Len(all)
      /\ \A i \in 1..Len(q) : q[i] \in Elements(q)
  BY <1>1, ListBasics
<1> HIDE DEF all
<1>3. ASSUME NEW i \in DOMAIN all, NEW k \in DOMAIN all, i # k
      PROVE  TestedBy(all[i]) \cap TestedBy(all[k]) \cap C = {}
  <2>1. CASE i \in 1..Len(q) /\ k \in 1..Len(q)
    <3>1. <<q[i], q[k]>> \in Alone(Elements(q), C)
      BY <1>2, <1>3, <2>1 DEF OnceEach, Pairwise
    <3> QED
      BY <1>1, <2>1, <3>1 DEF Alone
  <2>2. CASE i \in 1..Len(q) /\ k = Len(q) + 1
    <3>1. TestedBy(all[i]) \subseteq Tested(q) /\ all[k] = it
      BY <1>1, <1>2, <2>2 DEF Tested
    <3> QED
      BY <3>1
  <2>3. CASE i = Len(q) + 1 /\ k \in 1..Len(q)
    <3>1. TestedBy(all[k]) \subseteq Tested(q) /\ all[i] = it
      BY <1>1, <1>2, <2>3 DEF Tested
    <3> QED
      BY <3>1
  <2> QED
    BY <1>1, <1>2, <1>3, <2>1, <2>2, <2>3
<1>4. OnceEach(all, C)
  BY <1>3 DEF OnceEach, Pairwise, Alone, Elements
<1>5. Tested(all) = Tested(q) \cup TestedBy(it)
  BY <1>1 DEF Tested
<1> QED
  BY <1>1, <1>4, <1>5 DEF all

LEMMA OnceOnly ==
  ASSUME NEW C, NEW q, IsList(q), OnceEach(q, C), NEW T
  PROVE  IsList(Only(q, T)) /\ OnceEach(Only(q, T), C)
<1>1. Pairwise(q, Alone(Elements(q), C))
  BY DEF OnceEach
<1>2. Pairwise(Only(q, T), Alone(Elements(q), C))
  BY <1>1, OnlyPairs
<1> QED
  BY <1>2, AloneOf, ListOnly

LEMMA NoPlaces ==
  ASSUME NEW q, \A it \in Elements(q) : it.template \notin Journey
  PROVE  Tested(q) = {} /\ \A C : OnceEach(q, C)
<1>1. \A it \in Elements(q) : TestedBy(it) = {}
  BY DEF TestedBy
<1>2. Tested(q) = {}
  BY <1>1 DEF Tested
<1>3. ASSUME NEW C PROVE OnceEach(q, C)
  BY <1>1 DEF OnceEach, Pairwise, Alone, Elements
<1> QED
  BY <1>2, <1>3

(* A planned journey tests its own symbol.                                 *)
LEMMA PlannedPlaces ==
  ASSUME NEW it, IsPlanned(it)
  PROVE  /\ it.template \in Journey <=> IsComponentTest(it)
         /\ IsComponentTest(it) => TestedBy(it) = {At(it.symbol)}
         /\ ~IsComponentTest(it) => TestedBy(it) = {}
<1>1. it.template \in Journey <=> IsComponentTest(it)
  BY DEF IsPlanned, Journey, IsComponentTest
<1>2. PlacesOf(it) = {At(it.symbol)}
  <2>1. Range(<< >>) = {}
    BY DEF Range
  <2> QED
    BY <2>1 DEF PlacesOf, IsPlanned
<1> QED
  BY <1>1, <1>2 DEF TestedBy

LEMMA PlannedOnce ==
  ASSUME NEW q, WellPlanned(q)
  PROVE  /\ \A C : OnceEach(q, C)
         /\ \A x, y \in Elements(q) : x # y => TestedBy(x) \cap TestedBy(y) = {}
<1>1. IsList(q) /\ ComponentsApart(q) /\ \A it \in Elements(q) : IsPlanned(it)
  BY DEF WellPlanned
<1>2. ASSUME NEW i \in DOMAIN q, NEW k \in DOMAIN q, i # k
      PROVE  TestedBy(q[i]) \cap TestedBy(q[k]) = {}
  <2>1. q[i] \in Elements(q) /\ q[k] \in Elements(q)
    BY DEF Elements
  <2>2. IsComponentTest(q[i]) /\ IsComponentTest(q[k]) => At(q[i].symbol) # At(q[k].symbol)
    BY <1>1, <1>2 DEF ComponentsApart, Pairwise, Apart
  <2> QED
    BY <1>1, <2>1, <2>2, PlannedPlaces
<1>3. ASSUME NEW C PROVE OnceEach(q, C)
  BY <1>2 DEF OnceEach, Pairwise, Alone, Elements
<1>4. ASSUME NEW x \in Elements(q), NEW y \in Elements(q), x # y
      PROVE  TestedBy(x) \cap TestedBy(y) = {}
  <2>1. PICK i \in DOMAIN q : q[i] = x
    BY DEF Elements
  <2>2. PICK k \in DOMAIN q : q[k] = y
    BY DEF Elements
  <2> QED
    BY <1>2, <1>4, <2>1, <2>2
<1> QED
  BY <1>3, <1>4

Makes(it, symbol, symbols) ==
  it.symbol = symbol /\ it.symbols = symbols /\ it.template \in Journey

LEMMA JourneyMade ==
  ASSUME NEW symbol, NEW symbols, NEW url, NEW layout, NEW stem, NEW grouped
  PROVE  Makes(JourneyItem(symbol, symbols, url, PickJourney(layout, stem, grouped)),
               symbol, symbols)
BY JourneyFields DEF Makes

(* The test a group is folded into tests the group's components.           *)
PlacesIn(q) == {At(s) : s \in Elements(q)}

LEMMA MaterialisedPlaces ==
  ASSUME NEW root, NEW q, IsList(q), q # << >>, NEW style, NEW layout
  PROVE  LET it == Materialise(root, q, style, layout).item IN
         /\ it.template \in Journey /\ TestedBy(it) = PlacesIn(q)
         /\ it.symbol \in Elements(q)
         /\ Elements(it.symbols) \subseteq Elements(q)
<1> DEFINE it == Materialise(root, q, style, layout).item
           alone == JourneyItem(q[1], << >>, "", PickJourney(layout, q[1].name, FALSE))
           folded == JourneyItem(q[1], q, root.url, PickJourney(layout, root.stem, TRUE))
<1>1. Len(q) \in Nat /\ DOMAIN q = 1..Len(q) /\ Len(q) # 0 /\ q[1] \in Elements(q)
  <2>1. Len(q) \in Nat /\ DOMAIN q = 1..Len(q)
    BY ListBasics
  <2>2. Len(q) # 0
    BY DEF IsList
  <2>3. 1 \in DOMAIN q
    BY <2>1, <2>2
  <2> QED
    BY <2>1, <2>2, <2>3 DEF Elements
<1>2. /\ alone.symbol = q[1] /\ alone.symbols = << >> /\ alone.template \in Journey
      /\ folded.symbol = q[1] /\ folded.symbols = q /\ folded.template \in Journey
  <2>1. Makes(alone, q[1], << >>) /\ Makes(folded, q[1], q)
    BY JourneyMade
  <2> HIDE DEF alone, folded
  <2> QED
    BY <2>1 DEF Makes
<1>3. it = IF Len(q) < 2 /\ style # "page-flow" THEN alone ELSE folded
  BY DEF Materialise
<1> HIDE DEF it, alone, folded
<1>4. CASE Len(q) < 2 /\ style # "page-flow"
  <2>1. it = alone /\ Len(q) = 1
    BY <1>1, <1>3, <1>4
  <2>2. Elements(q) = {q[1]}
    <3>1. 1..Len(q) = {1}
      BY <2>1
    <3> QED
      BY <1>1, <3>1 DEF Elements
  <2>3. Range(<< >>) = {} /\ Elements(<< >>) = {}
    BY DEF Range, Elements
  <2>4. PlacesOf(it) = {At(q[1])}
    BY <1>2, <2>1, <2>3 DEF PlacesOf
  <2>5. PlacesIn(q) = {At(q[1])}
    BY <2>2 DEF PlacesIn
  <2> QED
    BY <1>1, <1>2, <2>1, <2>3, <2>4, <2>5 DEF TestedBy, it
<1>5. CASE ~(Len(q) < 2 /\ style # "page-flow")
  <2>1. it = folded
    BY <1>3, <1>5
  <2>2. Range(q) = Elements(q)
    BY Ranges
  <2>3. PlacesOf(it) = PlacesIn(q)
    BY <1>1, <1>2, <2>1, <2>2 DEF PlacesOf, PlacesIn
  <2> QED
    BY <1>1, <1>2, <2>1, <2>3 DEF TestedBy, it
<1> QED
  BY <1>4, <1>5

LEMMA ByLineShape ==
  ASSUME NEW symbols, IsList(symbols), NEW q \in ByLine(symbols)
  PROVE  IsList(q) /\ Elements(q) = Elements(symbols)
<1>1. Range(symbols) = Elements(symbols)
  BY Ranges
<1>2. IsFiniteSet(Elements(symbols))
  <2>1. Len(symbols) \in Nat /\ DOMAIN symbols = 1..Len(symbols)
    BY ListBasics
  <2>2. IsFiniteSet(1..Len(symbols))
    BY <2>1, FS_Interval
  <2>3. symbols \in [1..Len(symbols) -> Elements(symbols)]
    BY <2>1 DEF IsList
  <2>4. \A x \in Elements(symbols) : \E i \in 1..Len(symbols) : symbols[i] = x
    BY <2>1 DEF Elements
  <2> QED
    BY <2>2, <2>3, <2>4, FiniteImage
<1>3. q \in SetToSeqs(Elements(symbols))
  BY <1>1 DEF ByLine
<1> QED
  BY <1>2, <1>3, SomeOrder

(* Dropping links of a page flow loses no component.                       *)
HasPlace(s) == {"file", "line", "links"} \subseteq DOMAIN s

LEMMA PrunedPlaces ==
  ASSUME NEW symbols, \A k \in DOMAIN symbols : HasPlace(symbols[k])
  PROVE  {At(s) : s \in Range(Pruned(symbols))} = {At(s) : s \in Range(symbols)}
<1>1. DOMAIN Pruned(symbols) = DOMAIN symbols
  BY DEF Pruned
<1>2. ASSUME NEW k \in DOMAIN symbols
      PROVE  At(Pruned(symbols)[k]) = At(symbols[k])
  <2> DEFINE s == symbols[k]  t == Pruned(symbols)[k]
  <2>1. t = [s EXCEPT !.links = LinksFromRoot(s.links)]
    BY DEF Pruned
  <2>2. HasPlace(s)
    OBVIOUS
  <2> HIDE DEF s, t
  <2>3. t.file = s.file /\ t.line = s.line
    BY <2>1, <2>2 DEF HasPlace
  <2> QED
    BY <2>3 DEF At, s, t
<1> QED
  BY <1>1, <1>2 DEF Range

LEMMA ChainPlaces ==
  ASSUME NEW q, IsList(q),
         \A it \in Elements(q) : it.template = "pw_happyflow" =>
           HasFields(it) /\ \A s \in Elements(it.symbols) : HasPlace(s)
  PROVE  LET out == ChainMultiStep(q) IN
         /\ IsList(out) /\ DOMAIN out = DOMAIN q
         /\ \A i \in DOMAIN q : /\ out[i].template = q[i].template
                                /\ out[i].symbol = q[i].symbol
                                /\ TestedBy(out[i]) = TestedBy(q[i])
<1> DEFINE out == ChainMultiStep(q)
<1>1. \A it \in Elements(q) : it.template = "pw_happyflow" => HasFields(it)
  OBVIOUS
<1>2. /\ IsList(out) /\ DOMAIN out = DOMAIN q
      /\ \A i \in DOMAIN q :
           /\ out[i].template = q[i].template /\ out[i].symbol = q[i].symbol
           /\ q[i].template # "pw_happyflow" => out[i] = q[i]
           /\ q[i].template = "pw_happyflow" => out[i].symbols = Pruned(q[i].symbols)
  BY <1>1, ChainShape
<1> HIDE DEF out
<1>3. ASSUME NEW i \in DOMAIN q PROVE TestedBy(out[i]) = TestedBy(q[i])
  <2>1. CASE q[i].template # "pw_happyflow"
    BY <1>2, <2>1
  <2>2. CASE q[i].template = "pw_happyflow"
    <3> DEFINE ss == q[i].symbols
    <3>1. q[i] \in Elements(q)
      BY DEF Elements
    <3>2. \A k \in DOMAIN ss : HasPlace(ss[k])
      BY <2>2, <3>1 DEF Elements
    <3>3. {At(s) : s \in Range(Pruned(ss))} = {At(s) : s \in Range(ss)}
      <4> HIDE DEF ss
      <4> QED
        BY <3>2, PrunedPlaces
    <3>4. out[i].symbol = q[i].symbol /\ out[i].symbols = Pruned(ss)
      BY <1>2, <2>2
    <3> HIDE DEF ss
    <3>5. /\ PlacesOf(out[i]) = {At(q[i].symbol)} \cup {At(s) : s \in Range(Pruned(ss))}
          /\ PlacesOf(q[i]) = {At(q[i].symbol)} \cup {At(s) : s \in Range(ss)}
      BY <3>4 DEF PlacesOf, ss
    <3> QED
      BY <1>2, <3>3, <3>5 DEF TestedBy
  <2> QED
    BY <2>1, <2>2
<1> QED
  BY <1>2, <1>3 DEF out

(* Where the components of Cs begin, and a test of some of them only.      *)
PlacesAll(Cs) == {At(s) : s \in Cs}
Folded(it, Cs) ==
  it.template \in Journey /\ it.symbol \in Cs /\ Elements(it.symbols) \subseteq Cs

ComponentsOf(q) == {it.symbol : it \in {it \in Elements(q) : IsComponentTest(it)}}

(* A suite that tests each component once; the other journeys, of pages,   *)
(* are of files that no journey of a component is of.                      *)
Final(q, Cs) ==
  /\ IsList(q) /\ OnceEach(q, PlacesAll(Cs)) /\ PlacesAll(Cs) \subseteq Tested(q)
  /\ \A x, y \in Elements(q) :
       /\ x.template \in Journey /\ x.symbol \notin Cs
       /\ y.template \in Journey /\ y.symbol \in Cs
       => x.symbol.file # y.symbol.file

(* While groups are left: what is tested, and what is not yet.             *)
Leftovers(sg, pg, gr, Cs) ==
  /\ \A i \in DOMAIN gr :
       /\ IsList(gr[i]) /\ gr[i] # << >> /\ Elements(gr[i]) \subseteq Cs
       /\ PlacesIn(gr[i]) \cap (Tested(sg) \cup Tested(pg)) = {}
  /\ \A i, k \in DOMAIN gr : i # k => PlacesIn(gr[i]) \cap PlacesIn(gr[k]) = {}
  /\ PlacesAll(Cs) \subseteq
       Tested(sg) \cup Tested(pg) \cup UNION {PlacesIn(gr[i]) : i \in DOMAIN gr}

Split(its, sg, pg, Cs) ==
  /\ IsList(its) /\ \A it \in Elements(its) : it.template \notin Journey
  /\ IsList(sg) /\ IsList(pg)
  /\ \A it \in Elements(sg) \cup Elements(pg) : Folded(it, Cs)
  /\ OnceEach(sg, PlacesAll(Cs)) /\ OnceEach(pg, PlacesAll(Cs))
  /\ Tested(sg) \cap Tested(pg) \cap PlacesAll(Cs) = {}

LEMMA PlannedFinal ==
  ASSUME NEW q, WellPlanned(q)
  PROVE  Final(q, ComponentsOf(q))
<1> DEFINE Cs == ComponentsOf(q)
<1>1. IsList(q) /\ OnceEach(q, PlacesAll(Cs))
  <2> HIDE DEF Cs
  <2> QED
    BY PlannedOnce DEF WellPlanned
<1>2. \A it \in Elements(q) : IsPlanned(it)
  BY DEF WellPlanned
<1>3. PlacesAll(Cs) \subseteq Tested(q)
  <2> SUFFICES ASSUME NEW it \in Elements(q), IsComponentTest(it)
               PROVE  At(it.symbol) \in Tested(q)
    BY DEF PlacesAll, ComponentsOf
  <2>1. TestedBy(it) = {At(it.symbol)}
    BY <1>2, PlannedPlaces
  <2> QED
    BY <2>1 DEF Tested
<1>4. ASSUME NEW x \in Elements(q), x.template \in Journey
      PROVE  x.symbol \in Cs
  BY <1>2, <1>4, PlannedPlaces DEF ComponentsOf
<1> QED
  BY <1>1, <1>3, <1>4 DEF Final

(* groupByPage gives each component test to one root, or to none.          *)
RootOf(it, rs) == IF IsComponentTest(it) THEN FindMountingRoot(it.symbol.name, rs) ELSE 0
OfRoot(q, rs, i) == Only(q, {it \in Range(q) : RootOf(it, rs) = i})

LEMMA GroupShape ==
  ASSUME NEW q, IsList(q), NEW rs, NEW i
  PROVE  LET g == [k \in DOMAIN OfRoot(q, rs, i) |-> OfRoot(q, rs, i)[k].symbol] IN
         /\ IsList(g)
         /\ Elements(g) = {it.symbol : it \in {it \in Elements(q) : RootOf(it, rs) = i}}
<1> DEFINE T == {it \in Range(q) : RootOf(it, rs) = i}
           g == [k \in DOMAIN OfRoot(q, rs, i) |-> OfRoot(q, rs, i)[k].symbol]
<1>1. IsList(OfRoot(q, rs, i)) /\ Elements(OfRoot(q, rs, i)) = Elements(q) \cap T
  <2>1. OfRoot(q, rs, i) = Only(q, T)
    BY DEF OfRoot
  <2> HIDE DEF T
  <2> QED
    BY <2>1, ListOnly
<1>2. Elements(q) \cap T = {it \in Elements(q) : RootOf(it, rs) = i}
  BY Ranges
<1>3. Len(OfRoot(q, rs, i)) \in Nat /\ DOMAIN OfRoot(q, rs, i) = 1..Len(OfRoot(q, rs, i))
  BY <1>1, ListBasics
<1>4. IsList(g)
  <2>1. DOMAIN g = 1..Len(OfRoot(q, rs, i)) /\ g = [k \in 1..Len(OfRoot(q, rs, i)) |-> g[k]]
    BY <1>3
  <2> HIDE DEF g
  <2> QED
    BY <1>3, <2>1, ListMade
<1>5. Elements(g) = {it.symbol : it \in Elements(OfRoot(q, rs, i))}
  BY DEF Elements
<1> QED
  BY <1>1, <1>2, <1>4, <1>5

LEMMA MatchSplits ==
  ASSUME NEW q, WellPlanned(q), NEW rs
  PROVE  LET m == MatchComponents(q, rs)  Cs == ComponentsOf(q) IN
         Split(m.nonE2E, m.ungrouped, << >>, Cs) /\ Leftovers(m.ungrouped, << >>, m.grouped, Cs)
<1> DEFINE m == MatchComponents(q, rs)
           Cs == ComponentsOf(q)
           P == PlacesAll(Cs)
           T0 == {it \in Range(q) : ~IsComponentTest(it)}
           T1 == {it \in Range(q) : IsComponentTest(it) /\ RootOf(it, rs) = 0}
           used == {RootOf(q[k], rs) : k \in DOMAIN q} \ {0}
           of(i) == {it \in Elements(q) : RootOf(it, rs) = i}
<1>1. IsList(q) /\ \A it \in Elements(q) : IsPlanned(it)
  BY DEF WellPlanned
<1>2. Range(q) = Elements(q)
  BY Ranges
<1>3. /\ m.nonE2E = Only(q, T0) /\ m.ungrouped = Only(q, T1)
      /\ m.grouped = [i \in used |-> [k \in DOMAIN OfRoot(q, rs, i) |-> OfRoot(q, rs, i)[k].symbol]]
  BY DEF MatchComponents, RootOf, OfRoot
<1> HIDE DEF m
<1>4. IsList(m.nonE2E) /\ \A it \in Elements(m.nonE2E) : it.template \notin Journey
  <2>1. IsList(m.nonE2E) /\ Elements(m.nonE2E) = Elements(q) \cap T0
    <3> HIDE DEF T0
    <3> QED
      BY <1>1, <1>3, ListOnly
  <2> QED
    BY <1>1, <2>1, PlannedPlaces
<1>5. IsList(m.ungrouped) /\ Elements(m.ungrouped) = Elements(q) \cap T1
  <2> HIDE DEF T1
  <2> QED
    BY <1>1, <1>3, ListOnly
<1>6. \A it \in Elements(m.ungrouped) : Folded(it, Cs)
  <2> SUFFICES ASSUME NEW it \in Elements(m.ungrouped) PROVE Folded(it, Cs)
    OBVIOUS
  <2>1. it \in Elements(q) /\ IsComponentTest(it) /\ IsPlanned(it)
    BY <1>1, <1>5
  <2>2. it.symbol \in Cs /\ it.template \in Journey
    BY <2>1, PlannedPlaces DEF ComponentsOf
  <2>3. Elements(it.symbols) = {}
    BY <2>1 DEF IsPlanned, Elements
  <2> QED
    BY <2>2, <2>3 DEF Folded
<1>7. OnceEach(m.ungrouped, P)
  <2>1. OnceEach(q, P)
    <3> HIDE DEF P
    <3> QED
      BY PlannedOnce
  <2> HIDE DEF P, T1
  <2> QED
    BY <1>1, <1>3, <2>1, OnceOnly
<1>8. \A it \in Elements(<< >>) : FALSE
  BY DEF Elements
<1>9. IsList(<< >>) /\ Tested(<< >>) = {} /\ OnceEach(<< >>, P)
  <2>1. IsList(<< >>)
    <3>1. << >> = [i \in 1..0 |-> << >>[i]] /\ DOMAIN << >> = 1..0
      OBVIOUS
    <3> QED
      BY <3>1, ListMade
  <2> HIDE DEF P
  <2> QED
    BY <1>8, <2>1, NoPlaces
<1>10. ASSUME NEW i \in used
       PROVE  /\ IsList(m.grouped[i]) /\ m.grouped[i] # << >>
              /\ Elements(m.grouped[i]) = {it.symbol : it \in of(i)}
              /\ \A it \in of(i) : IsComponentTest(it)
  <2>1. IsList(m.grouped[i]) /\ Elements(m.grouped[i]) = {it.symbol : it \in of(i)}
    BY <1>1, <1>3, GroupShape
  <2>2. PICK k \in DOMAIN q : RootOf(q[k], rs) = i
    OBVIOUS
  <2>3. q[k].symbol \in Elements(m.grouped[i])
    BY <2>1, <2>2 DEF Elements
  <2>4. m.grouped[i] # << >>
    BY <2>3 DEF Elements
  <2>5. \A it \in of(i) : IsComponentTest(it)
    BY DEF RootOf
  <2> QED
    BY <2>1, <2>4, <2>5
<1>11. DOMAIN m.grouped = used
  BY <1>3
<1>12. ASSUME NEW x \in Elements(q), IsComponentTest(x)
       PROVE  TestedBy(x) = {At(x.symbol)}
  BY <1>1, <1>12, PlannedPlaces
<1>13. ASSUME NEW x \in Elements(q), NEW y \in Elements(q), x # y,
              IsComponentTest(x), IsComponentTest(y)
       PROVE  At(x.symbol) # At(y.symbol)
  <2>1. TestedBy(x) \cap TestedBy(y) = {}
    BY <1>13, PlannedOnce
  <2> QED
    BY <1>12, <1>13, <2>1
<1>14. \A i \in used : PlacesIn(m.grouped[i]) = {At(it.symbol) : it \in of(i)}
  BY <1>10 DEF PlacesIn
<1>15. Tested(m.ungrouped) = {At(it.symbol) : it \in {it \in of(0) : IsComponentTest(it)}}
  <2>1. Elements(m.ungrouped) = {it \in of(0) : IsComponentTest(it)}
    BY <1>2, <1>5
  <2> QED
    BY <1>12, <2>1 DEF Tested
<1>16. ASSUME NEW i \in used
       PROVE  /\ Elements(m.grouped[i]) \subseteq Cs
              /\ PlacesIn(m.grouped[i]) \cap Tested(m.ungrouped) = {}
              /\ \A k \in used : i # k => PlacesIn(m.grouped[i]) \cap PlacesIn(m.grouped[k]) = {}
  <2>1. Elements(m.grouped[i]) \subseteq Cs
    BY <1>10 DEF ComponentsOf
  <2>2. i # 0
    OBVIOUS
  <2>3. \A it \in of(i) : it \in Elements(q) /\ RootOf(it, rs) = i /\ IsComponentTest(it)
    BY <1>10
  <2>4. PlacesIn(m.grouped[i]) \cap Tested(m.ungrouped) = {}
    BY <1>13, <1>14, <1>15, <2>2, <2>3
  <2>5. ASSUME NEW k \in used, i # k
        PROVE  PlacesIn(m.grouped[i]) \cap PlacesIn(m.grouped[k]) = {}
    <3>1. \A it \in of(k) : it \in Elements(q) /\ RootOf(it, rs) = k /\ IsComponentTest(it)
      BY <1>10
    <3> QED
      BY <1>13, <1>14, <2>3, <2>5, <3>1
  <2> QED
    BY <2>1, <2>4, <2>5
<1>17. P \subseteq Tested(m.ungrouped) \cup UNION {PlacesIn(m.grouped[i]) : i \in used}
  <2> SUFFICES ASSUME NEW it \in Elements(q), IsComponentTest(it)
               PROVE  \/ At(it.symbol) \in Tested(m.ungrouped)
                      \/ \E i \in used : At(it.symbol) \in PlacesIn(m.grouped[i])
    BY DEF PlacesAll, ComponentsOf
  <2>1. CASE RootOf(it, rs) = 0
    BY <1>15, <2>1
  <2>2. CASE RootOf(it, rs) # 0
    <3>1. RootOf(it, rs) \in used
      BY <2>2 DEF Elements
    <3>2. it \in of(RootOf(it, rs))
      OBVIOUS
    <3> HIDE DEF used
    <3> QED
      BY <1>14, <3>1, <3>2
  <2> QED
    BY <2>1, <2>2
<1> HIDE DEF P, Cs, used, of, T0, T1
<1>18. Split(m.nonE2E, m.ungrouped, << >>, Cs)
  BY <1>4, <1>5, <1>6, <1>7, <1>8, <1>9 DEF Split, P
<1>19. Leftovers(m.ungrouped, << >>, m.grouped, Cs)
  BY <1>9, <1>10, <1>11, <1>16, <1>17 DEF Leftovers, P
<1> QED
  BY <1>18, <1>19 DEF m, Cs

(* Whichever group is folded next, and in whichever order its components   *)
(* come, they move from the leftovers to the tests.                        *)
LEMMA FoldGroup ==
  ASSUME NEW Cs, NEW its, NEW sg, NEW pg, NEW gr,
         Split(its, sg, pg, Cs), Leftovers(sg, pg, gr, Cs),
         NEW i \in DOMAIN gr, NEW it, Folded(it, Cs), TestedBy(it) = PlacesIn(gr[i]),
         NEW single \in BOOLEAN
  PROVE  LET nsg == IF single THEN Append(sg, it) ELSE sg
             npg == IF single THEN pg ELSE Append(pg, it) IN
         /\ Split(its, nsg, npg, Cs)
         /\ Leftovers(nsg, npg, [k \in DOMAIN gr \ {i} |-> gr[k]], Cs)
<1> DEFINE P == PlacesAll(Cs)
           nsg == IF single THEN Append(sg, it) ELSE sg
           npg == IF single THEN pg ELSE Append(pg, it)
           ngr == [k \in DOMAIN gr \ {i} |-> gr[k]]
<1>1. /\ IsList(its) /\ \A x \in Elements(its) : x.template \notin Journey
      /\ IsList(sg) /\ IsList(pg)
      /\ \A x \in Elements(sg) \cup Elements(pg) : Folded(x, Cs)
      /\ OnceEach(sg, P) /\ OnceEach(pg, P)
      /\ Tested(sg) \cap Tested(pg) \cap P = {}
  BY DEF Split
<1>2. PlacesIn(gr[i]) \cap (Tested(sg) \cup Tested(pg)) = {}
  BY DEF Leftovers
<1>3. Tested(sg) \cap TestedBy(it) \cap P = {} /\ Tested(pg) \cap TestedBy(it) \cap P = {}
  BY <1>2
<1> HIDE DEF P
<1>4. /\ IsList(nsg) /\ OnceEach(nsg, P) /\ IsList(npg) /\ OnceEach(npg, P)
      /\ Elements(nsg) \cup Elements(npg) = Elements(sg) \cup Elements(pg) \cup {it}
      /\ \/ Tested(nsg) = Tested(sg) \cup TestedBy(it) /\ Tested(npg) = Tested(pg)
         \/ Tested(nsg) = Tested(sg) /\ Tested(npg) = Tested(pg) \cup TestedBy(it)
  <2>1. CASE single
    <3>1. nsg = Append(sg, it) /\ npg = pg
      BY <2>1
    <3>2. /\ IsList(Append(sg, it)) /\ OnceEach(Append(sg, it), P)
          /\ Elements(Append(sg, it)) = Elements(sg) \cup {it}
          /\ Tested(Append(sg, it)) = Tested(sg) \cup TestedBy(it)
      BY <1>1, <1>3, OnceAppend
    <3> QED
      BY <1>1, <3>1, <3>2
  <2>2. CASE ~single
    <3>1. nsg = sg /\ npg = Append(pg, it)
      BY <2>2
    <3>2. /\ IsList(Append(pg, it)) /\ OnceEach(Append(pg, it), P)
          /\ Elements(Append(pg, it)) = Elements(pg) \cup {it}
          /\ Tested(Append(pg, it)) = Tested(pg) \cup TestedBy(it)
      BY <1>1, <1>3, OnceAppend
    <3> QED
      BY <1>1, <3>1, <3>2
  <2> QED
    BY <2>1, <2>2
<1> HIDE DEF nsg, npg
<1>5. Tested(nsg) \cup Tested(npg) = Tested(sg) \cup Tested(pg) \cup PlacesIn(gr[i])
  BY <1>4
<1>6. Tested(nsg) \cap Tested(npg) \cap P = {}
  BY <1>1, <1>3, <1>4
<1>7. Split(its, nsg, npg, Cs)
  BY <1>1, <1>4, <1>6 DEF Split, P
<1>8. DOMAIN ngr = DOMAIN gr \ {i} /\ \A k \in DOMAIN gr \ {i} : ngr[k] = gr[k]
  OBVIOUS
<1> HIDE DEF ngr
<1>9. ASSUME NEW k \in DOMAIN ngr
      PROVE  /\ IsList(ngr[k]) /\ ngr[k] # << >> /\ Elements(ngr[k]) \subseteq Cs
             /\ PlacesIn(ngr[k]) \cap (Tested(nsg) \cup Tested(npg)) = {}
  <2>1. /\ k \in DOMAIN gr /\ k # i /\ ngr[k] = gr[k]
        /\ IsList(gr[k]) /\ gr[k] # << >> /\ Elements(gr[k]) \subseteq Cs
        /\ PlacesIn(gr[k]) \cap (Tested(sg) \cup Tested(pg)) = {}
    BY <1>8 DEF Leftovers
  <2>2. PlacesIn(gr[k]) \cap PlacesIn(gr[i]) = {}
    BY <2>1 DEF Leftovers
  <2> QED
    BY <1>5, <2>1, <2>2
<1>10. ASSUME NEW j \in DOMAIN ngr, NEW k \in DOMAIN ngr, j # k
       PROVE  PlacesIn(ngr[j]) \cap PlacesIn(ngr[k]) = {}
  BY <1>8, <1>10 DEF Leftovers
<1>11. PlacesAll(Cs) \subseteq
         Tested(nsg) \cup Tested(npg) \cup UNION {PlacesIn(ngr[k]) : k \in DOMAIN ngr}
  <2> SUFFICES ASSUME NEW p \in PlacesAll(Cs), p \notin Tested(nsg) \cup Tested(npg)
               PROVE  \E k \in DOMAIN ngr : p \in PlacesIn(ngr[k])
    OBVIOUS
  <2>1. p \notin Tested(sg) \cup Tested(pg) /\ p \notin PlacesIn(gr[i])
    BY <1>5
  <2>2. p \in UNION {PlacesIn(gr[k]) : k \in DOMAIN gr}
    BY <2>1 DEF Leftovers
  <2>3. PICK k \in DOMAIN gr : p \in PlacesIn(gr[k])
    BY <2>2
  <2> QED
    BY <1>8, <2>1, <2>3
<1>12. Leftovers(nsg, npg, ngr, Cs)
  BY <1>9, <1>10, <1>11 DEF Leftovers
<1> QED
  BY <1>7, <1>12 DEF nsg, npg, ngr

LEMMA FoldNext ==
  ASSUME NEW Cs, NEW its, NEW sg, NEW pg, NEW gr,
         Split(its, sg, pg, Cs), Leftovers(sg, pg, gr, Cs),
         NEW i \in DOMAIN gr, NEW q \in ByLine(gr[i]), NEW root, NEW style, NEW layout
  PROVE  LET m == Materialise(root, q, style, layout)
             nsg == IF m.single THEN Append(sg, m.item) ELSE sg
             npg == IF m.single THEN pg ELSE Append(pg, m.item) IN
         /\ Split(its, nsg, npg, Cs)
         /\ Leftovers(nsg, npg, [k \in DOMAIN gr \ {i} |-> gr[k]], Cs)
<1> DEFINE it == Materialise(root, q, style, layout).item
           single == Materialise(root, q, style, layout).single
<1>1. IsList(gr[i]) /\ gr[i] # << >> /\ Elements(gr[i]) \subseteq Cs
  BY DEF Leftovers
<1>2. IsList(q) /\ Elements(q) = Elements(gr[i])
  BY <1>1, ByLineShape
<1>3. q # << >>
  <2>1. Len(gr[i]) \in Nat /\ DOMAIN gr[i] = 1..Len(gr[i])
    BY <1>1, ListBasics
  <2>2. Len(gr[i]) # 0
    BY <1>1 DEF IsList
  <2>3. gr[i][1] \in Elements(gr[i])
    BY <2>1, <2>2 DEF Elements
  <2> QED
    BY <1>2, <2>3 DEF Elements
<1>4. /\ it.template \in Journey /\ TestedBy(it) = PlacesIn(q)
      /\ it.symbol \in Elements(q) /\ Elements(it.symbols) \subseteq Elements(q)
  BY <1>2, <1>3, MaterialisedPlaces
<1>5. single \in BOOLEAN
  BY DEF Materialise
<1> HIDE DEF it, single
<1>6. Folded(it, Cs) /\ TestedBy(it) = PlacesIn(gr[i])
  BY <1>1, <1>2, <1>4 DEF Folded, PlacesIn
<1>7. LET nsg == IF single THEN Append(sg, it) ELSE sg
          npg == IF single THEN pg ELSE Append(pg, it) IN
      /\ Split(its, nsg, npg, Cs)
      /\ Leftovers(nsg, npg, [k \in DOMAIN gr \ {i} |-> gr[k]], Cs)
  BY <1>5, <1>6, FoldGroup
<1> QED
  BY <1>7 DEF it, single

LEMMA SyntheticFields ==
  ASSUME NEW r
  PROVE  LET s == Synthetic(r) IN HasPlace(s) /\ s.file = r.path /\ s.line = 0
BY DEF Synthetic, HasPlace

(* The test of a page root tests the page, which is no component.          *)
LEMMA RootTestPlaces ==
  ASSUME NEW r, NEW layout
  PROVE  LET it == RootTest(r, layout) IN
         /\ it.symbol = Synthetic(r) /\ TestedBy(it) = {<<r.path, 0>>}
         /\ \A s \in Elements(it.symbols) : HasPlace(s)
<1> DEFINE it == RootTest(r, layout)
           s == Synthetic(r)
<1>1. Makes(it, s, <<s>>)
  <2> HIDE DEF s
  <2>1. Makes(JourneyItem(s, <<s>>, r.url, PickJourney(layout, r.stem, TRUE)), s, <<s>>)
    BY JourneyMade
  <2> QED
    BY <2>1 DEF RootTest, s
<1>2. HasPlace(s) /\ At(s) = <<r.path, 0>>
  BY SyntheticFields DEF At
<1> HIDE DEF it, s
<1>3. Elements(<<s>>) = {s} /\ Range(<<s>>) = {s}
  BY DEF Elements, Range
<1>4. it.symbol = s /\ it.symbols = <<s>> /\ it.template \in Journey
  BY <1>1 DEF Makes
<1>5. TestedBy(it) = {At(s)}
  BY <1>3, <1>4 DEF TestedBy, PlacesOf
<1> QED
  BY <1>2, <1>3, <1>4, <1>5 DEF it, s

LEMMA AssembledFinal ==
  ASSUME NEW Cs, \A s \in Cs : HasPlace(s) /\ s.line # 0,
         NEW its, NEW sg, NEW pg, NEW gr, DOMAIN gr = {},
         Split(its, sg, pg, Cs), Leftovers(sg, pg, gr, Cs),
         NEW rs, IsList(rs), NEW diff, NEW layout, NEW covered,
         covered = {it.symbol.file : it \in Range(its \o pg \o sg)},
         \A it \in Elements(sg) \cup Elements(pg) : it.template = "pw_happyflow" => HasFields(it)
  PROVE  Final(ChainMultiStep((its \o pg \o sg)
                                \o MaterialisePageRoots(rs, diff, covered, layout)), Cs)
<1> DEFINE P == PlacesAll(Cs)
           out == its \o pg \o sg
           tests == MaterialisePageRoots(rs, diff, covered, layout)
           all == out \o tests
           chained == ChainMultiStep(all)
<1>1. /\ IsList(its) /\ \A x \in Elements(its) : x.template \notin Journey
      /\ IsList(sg) /\ IsList(pg)
      /\ \A x \in Elements(sg) \cup Elements(pg) : Folded(x, Cs)
      /\ OnceEach(sg, P) /\ OnceEach(pg, P)
      /\ Tested(sg) \cap Tested(pg) \cap P = {}
  BY DEF Split
<1>2. P \subseteq Tested(sg) \cup Tested(pg)
  BY DEF Leftovers
<1>3. \A p \in P : p[2] # 0
  BY DEF PlacesAll, At
<1>4. /\ IsList(tests)
      /\ \A it \in Elements(tests) : \E r \in Elements(rs) :
           r.path \in diff \ covered /\ it = RootTest(r, layout)
  BY RootTestsShape
<1> HIDE DEF P, tests
<1>5. Tested(its) = {} /\ OnceEach(its, P)
  BY <1>1, NoPlaces
<1>6. /\ IsList(its \o pg) /\ OnceEach(its \o pg, P)
      /\ Elements(its \o pg) = Elements(its) \cup Elements(pg)
      /\ Tested(its \o pg) = Tested(its) \cup Tested(pg)
  <2>1. Tested(its) \cap Tested(pg) \cap P = {}
    BY <1>5
  <2>2. IsList(its) /\ OnceEach(its, P) /\ IsList(pg) /\ OnceEach(pg, P)
    BY <1>1, <1>5
  <2> QED
    BY <2>1, <2>2, OnceConcat
<1>7. /\ IsList(out) /\ OnceEach(out, P)
      /\ Elements(out) = Elements(its \o pg) \cup Elements(sg)
      /\ Tested(out) = Tested(its \o pg) \cup Tested(sg)
  <2>1. Tested(its \o pg) \cap Tested(sg) \cap P = {}
    BY <1>1, <1>5, <1>6
  <2>2. IsList(its \o pg) /\ OnceEach(its \o pg, P) /\ IsList(sg) /\ OnceEach(sg, P)
    BY <1>1, <1>6
  <2> QED
    BY <2>1, <2>2, OnceConcat
<1> HIDE DEF out
<1>8. ASSUME NEW it \in Elements(tests)
      PROVE  /\ it.symbol.line = 0 /\ it.symbol.file \notin covered
             /\ TestedBy(it) \cap P = {} /\ it.symbol \notin Cs
             /\ \A s \in Elements(it.symbols) : HasPlace(s)
             /\ SoundItem(it, layout.UsesBDD)
  <2>1. PICK r \in Elements(rs) : r.path \in diff \ covered /\ it = RootTest(r, layout)
    BY <1>4
  <2>2. /\ it.symbol = Synthetic(r) /\ TestedBy(it) = {<<r.path, 0>>}
        /\ \A s \in Elements(it.symbols) : HasPlace(s)
    BY <2>1, RootTestPlaces
  <2>3. it.symbol.line = 0 /\ it.symbol.file = r.path
    BY <2>2, SyntheticFields
  <2>4. <<r.path, 0>> \notin P
    BY <1>3
  <2>5. SoundItem(it, layout.UsesBDD)
    BY <2>1, JourneyFields DEF RootTest
  <2> QED
    BY <2>1, <2>2, <2>3, <2>4, <2>5
<1>9. OnceEach(tests, P) /\ Tested(tests) \cap P = {}
  <2>1. Tested(tests) \cap P = {}
    BY <1>8 DEF Tested
  <2>2. OnceEach(tests, P)
    <3>1. \A i \in DOMAIN tests : TestedBy(tests[i]) \cap P = {}
      BY <1>8 DEF Elements
    <3> QED
      BY <3>1 DEF OnceEach, Pairwise, Alone, Elements
  <2> QED
    BY <2>1, <2>2
<1>10. /\ IsList(all) /\ OnceEach(all, P)
       /\ Elements(all) = Elements(out) \cup Elements(tests)
       /\ Tested(all) = Tested(out) \cup Tested(tests)
  <2>1. Tested(out) \cap Tested(tests) \cap P = {}
    BY <1>9
  <2>2. IsList(out) /\ OnceEach(out, P) /\ IsList(tests) /\ OnceEach(tests, P)
    BY <1>4, <1>7, <1>9
  <2> QED
    BY <2>1, <2>2, OnceConcat
<1> HIDE DEF all
<1>11. \A it \in Elements(all) : it.template = "pw_happyflow" =>
         HasFields(it) /\ \A s \in Elements(it.symbols) : HasPlace(s)
  <2> SUFFICES ASSUME NEW it \in Elements(all), it.template = "pw_happyflow"
               PROVE  HasFields(it) /\ \A s \in Elements(it.symbols) : HasPlace(s)
    OBVIOUS
  <2>1. "pw_happyflow" \in Journey
    BY DEF Journey
  <2>2. it \in Elements(sg) \cup Elements(pg) \cup Elements(tests)
    BY <1>1, <1>6, <1>7, <1>10, <2>1
  <2>3. CASE it \in Elements(sg) \cup Elements(pg)
    BY <1>1, <2>3 DEF Folded
  <2>4. CASE it \in Elements(tests)
    BY <1>8, <2>4 DEF SoundItem
  <2> QED
    BY <2>2, <2>3, <2>4
<1>12. /\ IsList(chained) /\ DOMAIN chained = DOMAIN all
       /\ \A i \in DOMAIN all : /\ chained[i].template = all[i].template
                                /\ chained[i].symbol = all[i].symbol
                                /\ TestedBy(chained[i]) = TestedBy(all[i])
  BY <1>10, <1>11, ChainPlaces
<1> HIDE DEF chained
<1>13. OnceEach(chained, P)
  BY <1>10, <1>12 DEF OnceEach, Pairwise, Alone, Elements
<1>14. Tested(chained) = Tested(all)
  BY <1>12 DEF Tested, Elements
<1>15. P \subseteq Tested(chained)
  BY <1>2, <1>6, <1>7, <1>10, <1>14
<1>16. ASSUME NEW x \in Elements(all), x.template \in Journey
       PROVE  \/ x.symbol \in Cs /\ x.symbol.file \in covered
              \/ x.symbol \notin Cs /\ x.symbol.file \notin covered
  <2>1. CASE x \in Elements(tests)
    BY <1>8, <2>1
  <2>2. CASE x \notin Elements(tests)
    <3>1. x \in Elements(sg) \cup Elements(pg) /\ x \in Elements(out)
      BY <1>1, <1>6, <1>7, <1>10, <1>16, <2>2
    <3>2. x \in Range(out)
      BY <3>1, Ranges
    <3>3. x.symbol.file \in covered
      BY <3>2 DEF out
    <3> QED
      BY <1>1, <3>1, <3>3 DEF Folded
  <2> QED
    BY <2>1, <2>2
<1>17. ASSUME NEW x \in Elements(chained), NEW y \in Elements(chained),
              x.template \in Journey, x.symbol \notin Cs,
              y.template \in Journey, y.symbol \in Cs
       PROVE  x.symbol.file # y.symbol.file
  <2>1. PICK i \in DOMAIN all : x = chained[i]
    BY <1>12 DEF Elements
  <2>2. PICK k \in DOMAIN all : y = chained[k]
    BY <1>12 DEF Elements
  <2>3. all[i] \in Elements(all) /\ all[k] \in Elements(all)
    BY DEF Elements
  <2>4. /\ all[i].template \in Journey /\ all[i].symbol = x.symbol
        /\ all[k].template \in Journey /\ all[k].symbol = y.symbol
    BY <1>12, <1>17, <2>1, <2>2
  <2> QED
    BY <1>16, <1>17, <2>3, <2>4
<1> QED
  BY <1>12, <1>13, <1>15, <1>17 DEF Final, P, chained, all, out, tests

(* Without a filter the caller's items come and nothing goes.              *)
LEMMA FilteredFinal ==
  ASSUME NEW Cs, NEW q, Final(q, Cs), NEW added, IsList(added),
         \A it \in Elements(added) : it.template \notin Journey
  PROVE  Final(FilterByKinds(q \o added, {}, {}), Cs)
<1> DEFINE P == PlacesAll(Cs)
           all == q \o added
           kept == FilterByKinds(all, {}, {})
<1>1. /\ IsList(q) /\ OnceEach(q, P) /\ P \subseteq Tested(q)
  BY DEF Final
<1> HIDE DEF P
<1>2. Tested(added) = {} /\ OnceEach(added, P)
  BY NoPlaces
<1>3. /\ IsList(all) /\ OnceEach(all, P)
      /\ Elements(all) = Elements(q) \cup Elements(added)
      /\ Tested(all) = Tested(q) \cup Tested(added)
  <2>1. Tested(q) \cap Tested(added) \cap P = {}
    BY <1>2
  <2>2. IsList(q) /\ OnceEach(q, P) /\ IsList(added) /\ OnceEach(added, P)
    BY <1>1, <1>2
  <2> QED
    BY <2>1, <2>2, OnceConcat
<1> HIDE DEF all
<1>4. /\ \E T : kept = Only(all, T)
      /\ IsList(kept)
      /\ Elements(kept) =
           {it \in Elements(all) :
              \/ IsAlwaysKeep(KindOf(it.template))
              \/ /\ {} # {} => KindOf(it.template) \in {}
                 /\ KindOf(it.template) \notin {}}
  BY <1>3, FilteredShape
<1>5. Elements(kept) = Elements(all)
  BY <1>4
<1>6. OnceEach(kept, P)
  BY <1>3, <1>4, OnceOnly
<1>7. Tested(kept) = Tested(all)
  BY <1>5 DEF Tested
<1>8. P \subseteq Tested(kept)
  BY <1>1, <1>3, <1>7
<1>9. \A x, y \in Elements(kept) :
        /\ x.template \in Journey /\ x.symbol \notin Cs
        /\ y.template \in Journey /\ y.symbol \in Cs
        => x.symbol.file # y.symbol.file
  <2> SUFFICES ASSUME NEW x \in Elements(kept), NEW y \in Elements(kept),
                      x.template \in Journey, x.symbol \notin Cs,
                      y.template \in Journey, y.symbol \in Cs
               PROVE  x.symbol.file # y.symbol.file
    OBVIOUS
  <2>1. x \in Elements(q) /\ y \in Elements(q)
    BY <1>3, <1>5
  <2> QED
    BY <2>1 DEF Final
<1> HIDE DEF kept
<1> QED
  BY <1>4, <1>6, <1>8, <1>9 DEF Final, P, kept, all

LEMMA FinalTests ==
  ASSUME NEW Cs, NEW q, Final(q, Cs), NEW s \in Cs
  PROVE  /\ Cardinality(Tests(s, q)) = 1
         /\ (\E it \in Range(q) : /\ it.template \in Journey /\ it.symbol.file = s.file
                                  /\ it.symbol \notin Cs)
              => \A it \in Range(q) : it.template \in Journey => it.symbol # s
<1> DEFINE P == PlacesAll(Cs)
<1>1. At(s) \in P
  BY DEF PlacesAll
<1>2. PICK it \in Elements(q) : At(s) \in TestedBy(it)
  BY <1>1 DEF Final, Tested
<1>3. PICK i \in DOMAIN q : q[i] = it
  BY DEF Elements
<1>4. Tests(s, q) = {k \in DOMAIN q : At(s) \in TestedBy(q[k])}
  BY DEF Tests, TestedBy
<1>5. ASSUME NEW k \in DOMAIN q, At(s) \in TestedBy(q[k])
      PROVE  k = i
  <2> SUFFICES ASSUME k # i PROVE FALSE
    OBVIOUS
  <2>1. <<q[k], q[i]>> \in Alone(Elements(q), P)
    BY DEF Final, OnceEach, Pairwise
  <2>2. TestedBy(q[k]) \cap TestedBy(q[i]) \cap P = {}
    BY <2>1 DEF Alone
  <2> QED
    BY <1>1, <1>2, <1>3, <1>5, <2>2
<1>6. Tests(s, q) = {i}
  BY <1>2, <1>3, <1>4, <1>5
<1>7. Cardinality(Tests(s, q)) = 1
  BY <1>6, FS_Singleton
<1>8. Range(q) = Elements(q)
  BY Ranges
<1> QED
  BY <1>7, <1>8 DEF Final

OnceInv ==
  /\ pc \in {"diff", "build"} => pages = << >>
  /\ pc = "group" => /\ Split(items, singles, pages, ComponentsOf(planned))
                     /\ Leftovers(singles, pages, groups, ComponentsOf(planned))
  /\ pc = "filter" => Final(items, ComponentsOf(planned))
  /\ EachComponentOnce

LEMMA ComponentsAre == Components = ComponentsOf(planned)
BY Ranges DEF Components, ComponentsOf

LEMMA ComponentPlaces ==
  ASSUME NEW q, WellPlanned(q), NEW s \in ComponentsOf(q)
  PROVE  HasPlace(s) /\ s.line # 0
<1>1. IsSymbol(s)
  BY DEF WellPlanned, IsPlanned, ComponentsOf
<1>2. PICK p \in Paths : s \in Elements(SymbolsOf[p])
  BY <1>1 DEF IsSymbol
<1>3. s.kind = "component"
  BY DEF WellPlanned, IsPlanned, ComponentsOf
<1>4. {"file", "line", "links"} \subseteq DOMAIN s /\ s.line \in Nat \ {0}
  BY <1>2, <1>3, SymbolShape DEF IsSpan
<1> QED
  BY <1>4 DEF HasPlace

LEMMA OnceInit == Init => OnceInv
BY DEF Init, OnceInv, EachComponentOnce

LEMMA OnceMatch ==
  ASSUME OnceInv, PlanInv, Match
  PROVE  OnceInv'
<1>1. /\ pc = "build" /\ planned' = items /\ pages' = pages /\ pc' \in {"filter", "group"}
      /\ pc' = "filter" => items' = items
      /\ pc' = "group" => LET m == MatchComponents(items, roots') IN
           items' = m.nonE2E /\ groups' = m.grouped /\ singles' = m.ungrouped
  BY DEF Match
<1>2. WellPlanned(items) /\ pages' = << >>
  BY <1>1 DEF PlanInv, OnceInv
<1>3. ASSUME pc' = "filter" PROVE Final(items', ComponentsOf(planned'))
  BY <1>1, <1>2, <1>3, PlannedFinal
<1>4. ASSUME pc' = "group"
      PROVE  /\ Split(items', singles', pages', ComponentsOf(planned'))
             /\ Leftovers(singles', pages', groups', ComponentsOf(planned'))
  <2>1. LET m == MatchComponents(items, roots')  Cs == ComponentsOf(items) IN
        /\ Split(m.nonE2E, m.ungrouped, << >>, Cs)
        /\ Leftovers(m.ungrouped, << >>, m.grouped, Cs)
    BY <1>2, MatchSplits
  <2> QED
    BY <1>1, <1>2, <1>4, <2>1
<1> QED
  BY <1>1, <1>3, <1>4 DEF OnceInv, EachComponentOnce

LEMMA OnceMaterialise ==
  ASSUME OnceInv, MaterialiseGroup
  PROVE  OnceInv'
<1> DEFINE Cs == ComponentsOf(planned)
<1>1. /\ pc = "group" /\ pc' = "group" /\ items' = items /\ planned' = planned
  BY DEF MaterialiseGroup
<1>2. Split(items, singles, pages, Cs) /\ Leftovers(singles, pages, groups, Cs)
  BY <1>1 DEF OnceInv
<1> DEFINE Took(i, q) ==
             LET m == Materialise(roots[i], q, in.style, Layout) IN
             /\ groups' = [k \in DOMAIN groups \ {i} |-> groups[k]]
             /\ singles' = IF m.single THEN Append(singles, m.item) ELSE singles
             /\ pages' = IF m.single THEN pages ELSE Append(pages, m.item)
<1>3. \E i \in DOMAIN groups : \E q \in ByLine(groups[i]) : Took(i, q)
  BY DEF MaterialiseGroup
<1>4. PICK i \in DOMAIN groups : \E q \in ByLine(groups[i]) : Took(i, q)
  BY <1>3
<1>5. PICK q \in ByLine(groups[i]) : Took(i, q)
  BY <1>4
<1> DEFINE m == Materialise(roots[i], q, in.style, Layout)
           nsg == IF m.single THEN Append(singles, m.item) ELSE singles
           npg == IF m.single THEN pages ELSE Append(pages, m.item)
<1> HIDE DEF Cs
<1>6. /\ Split(items, nsg, npg, Cs)
      /\ Leftovers(nsg, npg, [k \in DOMAIN groups \ {i} |-> groups[k]], Cs)
  BY <1>2, FoldNext
<1>7. Split(items', singles', pages', Cs) /\ Leftovers(singles', pages', groups', Cs)
  BY <1>1, <1>5, <1>6
<1> QED
  BY <1>1, <1>7 DEF OnceInv, EachComponentOnce, Cs

LEMMA OnceAssemble ==
  ASSUME OnceInv, PlanInv, FrameInv, Assemble
  PROVE  OnceInv'
<1> DEFINE Cs == ComponentsOf(planned)
           covered == {it.symbol.file : it \in Range(items \o pages \o singles)}
<1>1. /\ pc = "group" /\ pc' = "filter" /\ DOMAIN groups = {} /\ planned' = planned
      /\ items' = ChainMultiStep((items \o pages \o singles)
                                   \o MaterialisePageRoots(roots, inDiff, covered, Layout))
  BY DEF Assemble
<1>2. Split(items, singles, pages, Cs) /\ Leftovers(singles, pages, groups, Cs)
  BY <1>1 DEF OnceInv
<1>3. \A s \in Cs : HasPlace(s) /\ s.line # 0
  BY <1>1, ComponentPlaces DEF PlanInv
<1>4. /\ IsList(roots)
      /\ \A it \in Elements(singles) \cup Elements(pages) :
           it.template = "pw_happyflow" => HasFields(it)
  BY DEF FrameInv, SoundItems, SoundItem
<1>5. \A layout, c : c = covered =>
        Final(ChainMultiStep((items \o pages \o singles)
                               \o MaterialisePageRoots(roots, inDiff, c, layout)), Cs)
  <2> HIDE DEF Cs
  <2> QED
    BY <1>1, <1>2, <1>3, <1>4, AssembledFinal
<1> HIDE DEF covered
<1>6. Final(items', Cs)
  BY <1>1, <1>5
<1> QED
  BY <1>1, <1>6 DEF OnceInv, EachComponentOnce

LEMMA OnceFilter ==
  ASSUME OnceInv, Filter
  PROVE  OnceInv'
<1> DEFINE Cs == ComponentsOf(planned)
<1>1. /\ pc = "filter" /\ pc' = "done" /\ in' = in /\ planned' = planned
      /\ items' = FilterByKinds(items \o Added, in.allow, in.deny)
  BY DEF Filter
<1>2. Components' = Cs
  BY <1>1, Ranges DEF Components, ComponentsOf
<1>3. Final(items, Cs)
  BY <1>1 DEF OnceInv
<1>4. ASSUME Unfiltered PROVE Final(items', Cs)
  <2>1. IsList(Added) /\ \A it \in Elements(Added) : it.template \notin Journey
    BY AddedShape
  <2>2. items' = FilterByKinds(items \o Added, {}, {})
    BY <1>1, <1>4 DEF Unfiltered
  <2> HIDE DEF Cs
  <2> QED
    BY <1>3, <2>1, <2>2, FilteredFinal
<1> HIDE DEF Cs
<1>5. ASSUME Unfiltered, NEW s \in Cs
      PROVE  /\ Cardinality(Tests(s, items')) = 1
             /\ (\E it \in Range(items') : /\ it.template \in Journey /\ it.symbol.file = s.file
                                           /\ it.symbol \notin Cs)
                  => \A it \in Range(items') : it.template \in Journey => it.symbol # s
  BY <1>4, <1>5, FinalTests
<1>6. EachComponentOnce'
  BY <1>1, <1>2, <1>5 DEF EachComponentOnce, Unfiltered
<1> QED
  BY <1>1, <1>6 DEF OnceInv

LEMMA OnceStep == PlanInv /\ FrameInv /\ OnceInv /\ [Next]_vars => OnceInv'
<1> SUFFICES ASSUME PlanInv, FrameInv, OnceInv, [Next]_vars PROVE OnceInv'
  OBVIOUS
<1>1. CASE UNCHANGED vars
  BY <1>1 DEF OnceInv, vars, EachComponentOnce, Components, Unfiltered
<1>2. ASSUME ParseDiff \/ BuildFile PROVE OnceInv'
  <2>1. pages' = pages /\ pc' = "build" /\ pc \in {"diff", "build"}
    BY <1>2 DEF ParseDiff, BuildFile
  <2> QED
    BY <2>1 DEF OnceInv, EachComponentOnce
<1> QED
  BY <1>1, <1>2, OnceMatch, OnceMaterialise, OnceAssemble, OnceFilter DEF Next

(* However groups are iterated and their components sorted, whatever page  *)
(* roots the tree has and whatever URLs a user gives them: each planned    *)
(* component is in exactly one journey of the suite, and no page has a     *)
(* test of its own beside a journey led by a component of its file         *)
(* (groupByPage, materializePageRoots).                                    *)
THEOREM EachComponentOnceHolds == Spec => []EachComponentOnce
<1>1. OnceInv => EachComponentOnce
  BY DEF OnceInv
<1> QED
  BY <1>1, PlanInit, PlanStep, FrameInit, FrameStep, OnceInit, OnceStep, PTL DEF Spec
=============================================================================
