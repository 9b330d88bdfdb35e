--------------------------- MODULE MindmapProofs ----------------------------
(***************************************************************************)
(* Proofs about package mindmap: Crawl for any site, any robots.txt and    *)
(* any bounds, and Journeys for any set of crawled sites, caps and         *)
(* prompts.                                                                *)
(*                                                                         *)
(*  - OrderInv needs no type of the queue: whatever URL is taken from it,  *)
(*    and wherever its fetch ends, the list of pages stays within its      *)
(*    bound and in step with the map.                                      *)
(*  - DepthInv says of the queue what makes the walk breadth first: its    *)
(*    entries come by depth and differ in it by one at most.               *)
(*  - AskedInv adds where the links of an expanded page are: what leaves   *)
(*    the queue is recorded or was asked for.                              *)
(*  - JourneysInv types what the ten finders return and counts it by kind; *)
(*    deduplication keeps indices in the order of their ranks, each once.  *)
(*  - ItemsInv says of every built item what it sees of an array that is   *)
(*    compacted in place, by this item or by a later one.                  *)
(***************************************************************************)
EXTENDS Crawl, Journeys, FilteringProofs, FiniteSetTheorems, SequenceTheorems, TLAPS

OrderInv == order \in Seq(pages) /\ OrderListsPages

LEMMA RecordKeepsOrder ==
  ASSUME OrderInv, NEW u, u \notin pages,
         pages' = pages \cup {u}, order' = Append(order, u)
  PROVE  OrderInv'
<1> USE DEF OrderInv, OrderListsPages
<1>1. order' \in Seq(pages') /\ Len(order') = Len(order) + 1
  <2>1. order \in Seq(pages')
    OBVIOUS
  <2> QED
    BY <2>1
<1>2. DOMAIN order = 1..Len(order) /\ DOMAIN order' = 1..(Len(order) + 1)
  BY <1>1
<1>3. /\ \A i \in DOMAIN order : order'[i] = order[i] /\ order[i] # u
      /\ order'[Len(order) + 1] = u
  BY <1>2
<1>4. pages' = {order'[i] : i \in DOMAIN order'}
  BY <1>2, <1>3
<1>5. ASSUME NEW i \in DOMAIN order', NEW j \in DOMAIN order', order'[i] = order'[j]
      PROVE  i = j
  <2>1. CASE i \in DOMAIN order /\ j \in DOMAIN order
    BY <1>3, <1>5, <2>1
  <2>2. CASE i = Len(order) + 1 \/ j = Len(order) + 1
    BY <1>2, <1>3, <1>5, <2>2
  <2> QED
    BY <1>2, <2>1, <2>2
<1> QED
  BY <1>1, <1>4, <1>5

LEMMA OrderStep == OrderInv /\ [Next]_vars => OrderInv'
<1> SUFFICES ASSUME OrderInv, [Next]_vars PROVE OrderInv'
  OBVIOUS
<1>1. CASE Record
  BY <1>1, RecordKeepsOrder DEF Record, IsNew
<1>2. CASE LoadRobots \/ Seed \/ SkipSeen \/ FetchFails \/ FetchSeen \/ Finish
  BY <1>2 DEF LoadRobots, Seed, SkipSeen, FetchFails, FetchSeen, Finish,
              OrderInv, OrderListsPages
<1>3. CASE UNCHANGED vars
  BY <1>3 DEF vars, OrderInv, OrderListsPages
<1> QED
  BY <1>1, <1>2, <1>3 DEF Next

LEMMA OrderAlways == Spec => []OrderInv
<1>1. Init => OrderInv
  BY DEF Init, OrderInv, OrderListsPages
<1> QED
  BY <1>1, OrderStep, PTL DEF Spec

(* mindmap.go:73,127,138-144, for any redirects and duplicates: Order and  *)
(* Pages list the same pages, each once.                                   *)
THEOREM OrderAndPagesAgree == Spec => []OrderListsPages
<1>1. OrderInv => OrderListsPages
  BY DEF OrderInv
<1> QED
  BY <1>1, OrderAlways, PTL

(* mindmap.go:127: no site makes the map larger than MaxPages.             *)
THEOREM WithinBudget == Spec => []PageBudget
<1>1. Init => PageBudget
  BY BoundsAssumption DEF Init, PageBudget
<1>2. OrderInv /\ PageBudget /\ [Next]_vars => PageBudget'
  <2> SUFFICES ASSUME OrderInv, PageBudget, [Next]_vars PROVE PageBudget'
    OBVIOUS
  <2>1. CASE Record
    <3>1. PICK u : order' = Append(order, u)
      BY <2>1 DEF Record
    <3>2. Len(order') = Len(order) + 1 /\ Len(order) \in Nat
      BY <3>1 DEF OrderInv
    <3> QED
      BY <2>1, <3>2, BoundsAssumption DEF Record, Walking, PageBudget
  <2>2. CASE UNCHANGED order
    BY <2>2 DEF PageBudget
  <2> QED
    BY <2>1, <2>2 DEF Next, LoadRobots, Seed, SkipSeen, FetchFails, FetchSeen, Finish, vars
<1> QED
  BY <1>1, <1>2, OrderAlways, PTL DEF Spec

-----------------------------------------------------------------------------
(* The queue.  Its entries differ in depth by one at most and come by      *)
(* depth, and no page recorded so far is deeper than any of them.          *)
Entry == [url : Url, depth : Nat]

CrawlType ==
  /\ queue \in Seq(Entry)
  /\ pages \subseteq Url /\ depthOf \in [Url -> Nat]
  /\ phase \in {"robots", "sitemap"} => queue = << >> /\ pages = {} /\ asked = {}

InBand(q, low, high) == \A i \in DOMAIN q : q[i].depth \in low..high
ByDepth(q) == \A i, j \in DOMAIN q : i <= j => q[i].depth <= q[j].depth

DepthInv ==
  /\ OrderInv /\ CrawlType
  /\ ByDepth(queue)
  /\ queue # << >> => InBand(queue, Head(queue).depth, Head(queue).depth + 1)
  /\ InBand(queue, 0, MaxDepth)
  /\ \A p \in pages, i \in DOMAIN queue : depthOf[p] <= queue[i].depth
  /\ BreadthFirst

LEMMA EntriesOfURLs ==
  ASSUME NEW s \in Seq(Url), NEW d \in Nat
  PROVE  /\ EntriesAt(s, d) \in Seq(Entry)
         /\ DOMAIN EntriesAt(s, d) = DOMAIN s
         /\ \A i \in DOMAIN s : EntriesAt(s, d)[i] = At(s[i], d)
         /\ InBand(EntriesAt(s, d), d, d) /\ ByDepth(EntriesAt(s, d))
<1>1. DOMAIN s = 1..Len(s) /\ Len(s) \in Nat /\ \A i \in 1..Len(s) : s[i] \in Url
  OBVIOUS
<1>2. \A i \in 1..Len(s) : At(s[i], d) \in Entry /\ At(s[i], d).depth = d
  BY <1>1 DEF At, Entry
<1>3. EntriesAt(s, d) = [i \in 1..Len(s) |-> At(s[i], d)]
  BY <1>1 DEF EntriesAt
<1>4. EntriesAt(s, d) \in Seq(Entry)
  BY <1>1, <1>2, <1>3
<1> QED
  BY <1>1, <1>2, <1>3, <1>4 DEF InBand, ByDepth

(* The rest of a queue, and a queue with another behind it.                *)
LEMMA TailOfQueue ==
  ASSUME NEW q \in Seq(Entry), q # << >>
  PROVE  /\ Tail(q) \in Seq(Entry) /\ Head(q) = q[1] /\ 1 \in DOMAIN q /\ Head(q) \in Entry
         /\ \A i \in DOMAIN Tail(q) : i + 1 \in DOMAIN q /\ Tail(q)[i] = q[i + 1]
         /\ Elements(q) = {Head(q)} \cup Elements(Tail(q))
<1>1. /\ DOMAIN q = 1..Len(q) /\ Len(q) \in Nat \ {0} /\ Tail(q) \in Seq(Entry)
      /\ Head(q) = q[1] /\ q[1] \in Entry
  OBVIOUS
<1>2. DOMAIN Tail(q) = 1..Len(q) - 1 /\ \A i \in 1..Len(q) - 1 : Tail(q)[i] = q[i + 1]
  BY <1>1
<1>3. \A i \in DOMAIN q : i = 1 \/ i - 1 \in DOMAIN Tail(q)
  BY <1>1, <1>2
<1> QED
  BY <1>1, <1>2, <1>3 DEF Elements

LEMMA JoinedQueues ==
  ASSUME NEW q \in Seq(Entry), NEW r \in Seq(Entry)
  PROVE  /\ q \o r \in Seq(Entry)
         /\ DOMAIN (q \o r) = 1..(Len(q) + Len(r)) /\ Len(q) \in Nat /\ Len(r) \in Nat
         /\ DOMAIN q = 1..Len(q) /\ DOMAIN r = 1..Len(r)
         /\ \A i \in 1..(Len(q) + Len(r)) :
              (q \o r)[i] = IF i <= Len(q) THEN q[i] ELSE r[i - Len(q)]
         /\ Elements(q \o r) = Elements(q) \cup Elements(r)
<1>1. /\ q \o r \in Seq(Entry)
      /\ DOMAIN (q \o r) = 1..(Len(q) + Len(r)) /\ Len(q) \in Nat /\ Len(r) \in Nat
      /\ DOMAIN q = 1..Len(q) /\ DOMAIN r = 1..Len(r)
      /\ \A i \in 1..(Len(q) + Len(r)) :
           (q \o r)[i] = IF i <= Len(q) THEN q[i] ELSE r[i - Len(q)]
  OBVIOUS
<1>2. \A i \in DOMAIN r : Len(q) + i \in DOMAIN (q \o r) /\ (q \o r)[Len(q) + i] = r[i]
  BY <1>1
<1>3. Elements(q \o r) \subseteq Elements(q) \cup Elements(r)
  BY <1>1 DEF Elements
<1>4. Elements(q) \subseteq Elements(q \o r)
  BY <1>1 DEF Elements
<1>5. Elements(r) \subseteq Elements(q \o r)
  BY <1>2 DEF Elements
<1> QED
  BY <1>1, <1>3, <1>4, <1>5

(* Taking the head away keeps the shape of the queue; so does adding the   *)
(* links of the page it led to, one level below it.                        *)
LEMMA RestOfQueue ==
  ASSUME DepthInv, queue # << >>
  PROVE  LET q == Tail(queue)  d == Head(queue).depth IN
         /\ q \in Seq(Entry) /\ d \in 0..MaxDepth /\ Head(queue).url \in Url
         /\ ByDepth(q) /\ InBand(q, d, d + 1) /\ InBand(q, 0, MaxDepth)
         /\ q # << >> => InBand(q, Head(q).depth, Head(q).depth + 1)
         /\ \A p \in pages : depthOf[p] <= d
<1> DEFINE q == Tail(queue)  d == Head(queue).depth
<1>1. /\ queue \in Seq(Entry) /\ ByDepth(queue) /\ InBand(queue, d, d + 1)
      /\ InBand(queue, 0, MaxDepth) /\ MaxDepth \in Nat
      /\ \A p \in pages, i \in DOMAIN queue : depthOf[p] <= queue[i].depth
  BY BoundsAssumption DEF DepthInv, CrawlType
<1>2. /\ q \in Seq(Entry) /\ Head(queue) = queue[1] /\ 1 \in DOMAIN queue
      /\ Head(queue) \in Entry
      /\ \A i \in DOMAIN q : i + 1 \in DOMAIN queue /\ q[i] = queue[i + 1]
  BY <1>1, TailOfQueue
<1>3. d \in 0..MaxDepth /\ Head(queue).url \in Url
  BY <1>1, <1>2 DEF InBand, Entry
<1>4. DOMAIN q = 1..Len(q) /\ Len(q) \in Nat
  BY <1>2
<1> HIDE DEF q
<1>5. ByDepth(q)
  BY <1>1, <1>2, <1>4 DEF ByDepth
<1>6. InBand(q, d, d + 1) /\ InBand(q, 0, MaxDepth)
  BY <1>1, <1>2 DEF InBand
<1>7. q # << >> => InBand(q, Head(q).depth, Head(q).depth + 1)
  <2> SUFFICES ASSUME q # << >> PROVE InBand(q, Head(q).depth, Head(q).depth + 1)
    OBVIOUS
  <2>1. Head(q) = q[1] /\ 1 \in DOMAIN q
    BY <1>2, TailOfQueue
  <2>2. \A i \in DOMAIN q : q[1].depth <= q[i].depth
    BY <1>4, <1>5, <2>1 DEF ByDepth
  <2>3. \A i \in DOMAIN q : q[i].depth \in d..d + 1
    BY <1>6 DEF InBand
  <2> QED
    BY <1>3, <2>1, <2>2, <2>3 DEF InBand
<1> QED
  BY <1>1, <1>2, <1>3, <1>5, <1>6, <1>7 DEF q

LEMMA LongerQueue ==
  ASSUME NEW d \in Nat, NEW q \in Seq(Entry), NEW r \in Seq(Entry),
         ByDepth(q), InBand(q, d, d + 1), ByDepth(r), InBand(r, d + 1, d + 1),
         q # << >> => InBand(q, Head(q).depth, Head(q).depth + 1)
  PROVE  LET j == q \o r IN
         /\ ByDepth(j) /\ InBand(j, d, d + 1)
         /\ j # << >> => InBand(j, Head(j).depth, Head(j).depth + 1)
<1> DEFINE j == q \o r
<1>1. /\ j \in Seq(Entry)
      /\ DOMAIN j = 1..(Len(q) + Len(r)) /\ Len(q) \in Nat /\ Len(r) \in Nat
      /\ DOMAIN q = 1..Len(q) /\ DOMAIN r = 1..Len(r)
      /\ \A i \in 1..(Len(q) + Len(r)) :
           j[i] = IF i <= Len(q) THEN q[i] ELSE r[i - Len(q)]
  BY JoinedQueues
<1> HIDE DEF j
<1>2. \A i \in DOMAIN j : \/ i \in DOMAIN q /\ j[i] = q[i]
                          \/ i \notin DOMAIN q /\ i - Len(q) \in DOMAIN r /\ j[i] = r[i - Len(q)]
  <2> SUFFICES ASSUME NEW i \in 1..(Len(q) + Len(r))
               PROVE  \/ i \in DOMAIN q /\ j[i] = q[i]
                      \/ i \notin DOMAIN q /\ i - Len(q) \in DOMAIN r /\ j[i] = r[i - Len(q)]
    BY <1>1
  <2>1. CASE i <= Len(q)
    BY <1>1, <2>1
  <2>2. CASE ~(i <= Len(q))
    <3>1. i \notin 1..Len(q) /\ i - Len(q) \in 1..Len(r)
      BY <1>1, <2>2
    <3>2. j[i] = r[i - Len(q)]
      BY <1>1, <2>2
    <3> QED
      BY <1>1, <3>1, <3>2
  <2> QED
    BY <2>1, <2>2
<1>3. \A i \in DOMAIN j : i \notin DOMAIN q => j[i].depth = d + 1
  BY <1>2 DEF InBand
<1>4. InBand(j, d, d + 1)
  <2> SUFFICES ASSUME NEW i \in DOMAIN j PROVE j[i].depth \in d..d + 1
    BY DEF InBand
  <2>1. CASE i \in DOMAIN q
    BY <1>2, <2>1 DEF InBand
  <2>2. CASE i \notin DOMAIN q
    BY <1>3, <2>2
  <2> QED
    BY <2>1, <2>2
<1>5. ByDepth(j)
  <2> SUFFICES ASSUME NEW i \in DOMAIN j, NEW k \in DOMAIN j, i <= k
               PROVE  j[i].depth <= j[k].depth
    BY DEF ByDepth
  <2>1. CASE k \in DOMAIN q
    BY <1>1, <1>2, <2>1 DEF ByDepth
  <2>2. CASE k \notin DOMAIN q
    BY <1>3, <1>4, <2>2 DEF InBand
  <2> QED
    BY <2>1, <2>2
<1>6. j # << >> => InBand(j, Head(j).depth, Head(j).depth + 1)
  <2> SUFFICES ASSUME j # << >> PROVE InBand(j, Head(j).depth, Head(j).depth + 1)
    OBVIOUS
  <2>1. Head(j) = j[1] /\ 1 \in DOMAIN j
    BY <1>1, TailOfQueue
  <2>2. \A i \in DOMAIN j : j[1].depth <= j[i].depth
    BY <1>1, <1>5, <2>1 DEF ByDepth
  <2> QED
    BY <1>4, <2>1, <2>2 DEF InBand
<1> QED
  BY <1>4, <1>5, <1>6 DEF j

(* What Seed puts behind the start, and a recorded page behind the queue.  *)
LEMMA SeedsAndLinks ==
  ASSUME NEW s \in Seq(Url), NEW T, NEW d \in Nat
  PROVE  LET new == EntriesAt(Only(s, T), d) IN
         /\ new \in Seq(Entry) /\ InBand(new, d, d) /\ ByDepth(new)
         /\ Elements(new) = {At(u, d) : u \in Elements(s) \cap T}
<1> DEFINE o == Only(s, T)
<1>1. o \in Seq(Url) /\ Elements(o) = Elements(s) \cap T
  BY OnlyElements
<1> HIDE DEF o
<1>2. /\ EntriesAt(o, d) \in Seq(Entry) /\ DOMAIN EntriesAt(o, d) = DOMAIN o
      /\ \A i \in DOMAIN o : EntriesAt(o, d)[i] = At(o[i], d)
      /\ InBand(EntriesAt(o, d), d, d) /\ ByDepth(EntriesAt(o, d))
  BY <1>1, EntriesOfURLs
<1>3. Elements(EntriesAt(o, d)) = {At(u, d) : u \in Elements(o)}
  BY <1>2 DEF Elements
<1> QED
  BY <1>1, <1>2, <1>3 DEF o

LEMMA NewLinksShape ==
  ASSUME NEW u \in Url, NEW d \in 0..MaxDepth
  PROVE  /\ NewLinks(u, d) \in Seq(Entry) /\ ByDepth(NewLinks(u, d))
         /\ InBand(NewLinks(u, d), d + 1, d + 1) /\ InBand(NewLinks(u, d), 0, MaxDepth)
         /\ d < MaxDepth =>
              Elements(NewLinks(u, d)) =
                {At(l, d + 1) : l \in Elements(Links[u]) \cap (AllowedURLs \ (pages \cup {u}))}
<1>1. Links[u] \in Seq(Url) /\ d \in Nat /\ d + 1 \in Nat /\ MaxDepth \in Nat
  BY SiteAssumption, BoundsAssumption
<1>2. CASE d >= MaxDepth
  <2>1. NewLinks(u, d) = << >>
    BY <1>2 DEF NewLinks
  <2> QED
    BY <1>1, <1>2, <2>1 DEF ByDepth, InBand
<1>3. CASE d < MaxDepth
  <2> DEFINE T == AllowedURLs \ (pages \cup {u})  new == EntriesAt(Only(Links[u], T), d + 1)
  <2>1. NewLinks(u, d) = new
    BY <1>1, <1>3 DEF NewLinks
  <2> HIDE DEF T
  <2>2. /\ new \in Seq(Entry) /\ InBand(new, d + 1, d + 1) /\ ByDepth(new)
        /\ Elements(new) = {At(l, d + 1) : l \in Elements(Links[u]) \cap T}
    BY <1>1, SeedsAndLinks
  <2> HIDE DEF new
  <2>3. InBand(new, 0, MaxDepth)
    BY <1>1, <1>3, <2>2 DEF InBand
  <2> QED
    BY <2>1, <2>2, <2>3 DEF T
<1> QED
  BY <1>1, <1>2, <1>3

(* A page is recorded at the depth of the entry that led to it, which no   *)
(* page before it exceeds.                                                 *)
LEMMA RecordsDeepest ==
  ASSUME OrderInv, BreadthFirst, pages \subseteq Url, depthOf \in [Url -> Nat],
         NEW u \in Url \ pages, NEW d \in 0..MaxDepth, \A p \in pages : depthOf[p] <= d,
         order' = Append(order, u), pages' = pages \cup {u},
         depthOf' = [depthOf EXCEPT ![u] = d]
  PROVE  /\ BreadthFirst' /\ depthOf' \in [Url -> Nat]
         /\ depthOf'[u] = d /\ \A p \in pages : depthOf'[p] = depthOf[p]
<1>1. /\ depthOf' \in [Url -> Nat] /\ depthOf'[u] = d /\ d \in Nat /\ d <= MaxDepth
      /\ \A p \in pages : depthOf'[p] = depthOf[p]
  BY BoundsAssumption
<1>2. /\ DOMAIN order = 1..Len(order) /\ Len(order) \in Nat
      /\ DOMAIN order' = 1..(Len(order) + 1) /\ order'[Len(order) + 1] = u
      /\ \A i \in 1..Len(order) : order'[i] = order[i] /\ order[i] \in pages
  <2>1. order \in Seq(pages)
    BY DEF OrderInv
  <2> QED
    BY <2>1
<1>3. \A i \in 1..Len(order) + 1 : depthOf'[order'[i]] <= d
  <2>1. \A p \in pages : depthOf'[p] <= d
    BY <1>1
  <2> QED
    BY <1>1, <1>2, <2>1
<1>4. ASSUME NEW i \in DOMAIN order', NEW k \in DOMAIN order', i < k
      PROVE  depthOf'[order'[i]] <= depthOf'[order'[k]]
  <2>1. i \in 1..Len(order)
    BY <1>2, <1>4
  <2>2. CASE k = Len(order) + 1
    BY <1>1, <1>2, <1>3, <2>2
  <2>3. CASE k \in 1..Len(order)
    BY <1>1, <1>2, <1>4, <2>1, <2>3 DEF BreadthFirst
  <2> QED
    BY <1>2, <2>2, <2>3
<1>5. \A p \in pages' : depthOf'[p] <= MaxDepth
  BY <1>1 DEF BreadthFirst
<1> QED
  BY <1>1, <1>4, <1>5 DEF BreadthFirst

(* An entry taken from the queue that is not a new page.                   *)
LEMMA HeadDropped ==
  ASSUME DepthInv, OrderInv', phase = "walk", queue # << >>, queue' = Tail(queue),
         UNCHANGED <<phase, pages, order, depthOf>>
  PROVE  DepthInv'
<1>1. /\ queue' \in Seq(Entry) /\ ByDepth(queue') /\ InBand(queue', 0, MaxDepth)
      /\ queue' # << >> => InBand(queue', Head(queue').depth, Head(queue').depth + 1)
  BY RestOfQueue
<1>2. \A p \in pages, i \in DOMAIN queue' : depthOf[p] <= queue'[i].depth
  <2>1. \A i \in DOMAIN queue' : i + 1 \in DOMAIN queue /\ queue'[i] = queue[i + 1]
    BY TailOfQueue DEF DepthInv, CrawlType
  <2> QED
    BY <2>1 DEF DepthInv
<1>3. CrawlType'
  BY <1>1 DEF DepthInv, CrawlType
<1>4. BreadthFirst'
  BY DEF DepthInv, BreadthFirst
<1> QED
  BY <1>1, <1>2, <1>3, <1>4 DEF DepthInv

LEMMA HeadRecorded ==
  ASSUME DepthInv, OrderInv', Record
  PROVE  DepthInv'
<1> DEFINE u == Served[Head(queue).url]  d == Head(queue).depth
           q == Tail(queue)  new == NewLinks(u, d)
<1>1. /\ phase = "walk" /\ phase' = phase /\ queue # << >> /\ u \notin pages
      /\ pages' = pages \cup {u} /\ order' = Append(order, u)
      /\ depthOf' = [depthOf EXCEPT ![u] = d] /\ queue' = q \o new
  BY DEF Record, Walking, IsNew, Enqueue
<1>2. /\ q \in Seq(Entry) /\ d \in 0..MaxDepth /\ Head(queue).url \in Url
      /\ ByDepth(q) /\ InBand(q, d, d + 1) /\ InBand(q, 0, MaxDepth)
      /\ q # << >> => InBand(q, Head(q).depth, Head(q).depth + 1)
      /\ \A p \in pages : depthOf[p] <= d
  BY <1>1, RestOfQueue
<1>3. u \in Url /\ d \in Nat
  BY <1>2, SiteAssumption, BoundsAssumption
<1> HIDE DEF u, d
<1>4. /\ new \in Seq(Entry) /\ ByDepth(new) /\ InBand(new, d + 1, d + 1)
      /\ InBand(new, 0, MaxDepth)
  BY <1>2, <1>3, NewLinksShape
<1> HIDE DEF q, new
<1>5. /\ BreadthFirst' /\ depthOf' \in [Url -> Nat]
      /\ depthOf'[u] = d /\ \A p \in pages : depthOf'[p] = depthOf[p]
  BY <1>1, <1>2, <1>3, RecordsDeepest DEF DepthInv, CrawlType
<1>6. /\ queue' \in Seq(Entry) /\ ByDepth(queue') /\ InBand(queue', d, d + 1)
      /\ queue' # << >> => InBand(queue', Head(queue').depth, Head(queue').depth + 1)
  BY <1>1, <1>2, <1>3, <1>4, JoinedQueues, LongerQueue
<1>7. InBand(queue', 0, MaxDepth)
  <2>1. Elements(queue') = Elements(q) \cup Elements(new)
    BY <1>1, <1>2, <1>4, JoinedQueues
  <2> QED
    BY <1>2, <1>4, <2>1 DEF InBand, Elements
<1>8. \A p \in pages', i \in DOMAIN queue' : depthOf'[p] <= queue'[i].depth
  <2>1. \A p \in pages' : depthOf'[p] <= d
    BY <1>1, <1>2, <1>3, <1>5
  <2>2. \A i \in DOMAIN queue' : queue'[i].depth \in d..d + 1
    BY <1>6 DEF InBand
  <2> QED
    BY <1>1, <1>3, <1>5, <2>1, <2>2 DEF DepthInv, CrawlType
<1>9. CrawlType'
  BY <1>1, <1>3, <1>5, <1>6 DEF DepthInv, CrawlType
<1> QED
  BY <1>5, <1>6, <1>7, <1>8, <1>9 DEF DepthInv

LEMMA SeededQueue ==
  ASSUME DepthInv, Seed
  PROVE  /\ queue' \in Seq(Entry) /\ ByDepth(queue') /\ InBand(queue', 0, MaxDepth)
         /\ queue' # << >> => InBand(queue', Head(queue').depth, Head(queue').depth + 1)
         /\ \A e \in Elements(queue') : e.url = Start \/ Allowed(e.url)
<1> DEFINE start == <<At(Start, 0)>>
<1>1. PICK s \in SeedLists : queue' = start \o EntriesAt(Only(s, AllowedURLs), 1)
  BY DEF Seed
<1> DEFINE seeds == EntriesAt(Only(s, AllowedURLs), 1)
<1>2. s \in Seq(Url) /\ Start \in Url /\ MaxDepth \in Nat /\ MaxDepth >= 1
  BY SiteAssumption, BoundsAssumption
<1>3. /\ seeds \in Seq(Entry) /\ InBand(seeds, 1, 1) /\ ByDepth(seeds)
      /\ Elements(seeds) = {At(u, 1) : u \in Elements(s) \cap AllowedURLs}
  BY <1>2, SeedsAndLinks
<1>4. At(Start, 0) \in Entry /\ At(Start, 0).depth = 0 /\ At(Start, 0).url = Start
  BY <1>2 DEF At, Entry
<1> HIDE DEF seeds
<1>5. /\ start \in Seq(Entry) /\ DOMAIN start = {1} /\ start[1] = At(Start, 0)
      /\ Head(start) = At(Start, 0)
  BY <1>4
<1> HIDE DEF start
<1>6. ByDepth(start) /\ InBand(start, 0, 1) /\ InBand(start, Head(start).depth, Head(start).depth + 1)
  BY <1>4, <1>5 DEF ByDepth, InBand
<1>7. /\ queue' \in Seq(Entry) /\ Elements(queue') = Elements(start) \cup Elements(seeds)
  BY <1>1, <1>3, <1>5, JoinedQueues DEF seeds
<1>8. /\ ByDepth(queue') /\ InBand(queue', 0, 1)
      /\ queue' # << >> => InBand(queue', Head(queue').depth, Head(queue').depth + 1)
  <2>1. 0 + 1 = 1
    OBVIOUS
  <2> QED
    BY <1>1, <1>3, <1>5, <1>6, <2>1, LongerQueue DEF seeds
<1>9. InBand(queue', 0, MaxDepth)
  BY <1>2, <1>8 DEF InBand
<1>10. \A e \in Elements(queue') : e.url = Start \/ Allowed(e.url)
  <2>1. \A e \in Elements(seeds) : Allowed(e.url)
    BY <1>3 DEF At, AllowedURLs
  <2>2. Elements(start) = {At(Start, 0)}
    BY <1>5 DEF Elements
  <2> QED
    BY <1>4, <1>7, <2>1, <2>2
<1> QED
  BY <1>7, <1>8, <1>9, <1>10

LEMMA DepthStep == DepthInv /\ [Next]_vars => DepthInv'
<1> SUFFICES ASSUME DepthInv, [Next]_vars PROVE DepthInv'
  OBVIOUS
<1>0. OrderInv'
  BY OrderStep DEF DepthInv
<1>1. CASE Record
  BY <1>0, <1>1, HeadRecorded
<1>2. CASE SkipSeen \/ FetchFails \/ FetchSeen
  BY <1>0, <1>2, HeadDropped DEF SkipSeen, FetchFails, FetchSeen, Walking
<1>3. CASE Seed
  <2>1. phase = "sitemap" /\ phase' = "walk" /\ UNCHANGED <<pages, order, depthOf, asked>>
    BY <1>3 DEF Seed
  <2>2. pages = {}
    BY <2>1 DEF DepthInv, CrawlType
  <2>3. /\ queue' \in Seq(Entry) /\ ByDepth(queue') /\ InBand(queue', 0, MaxDepth)
        /\ queue' # << >> => InBand(queue', Head(queue').depth, Head(queue').depth + 1)
    BY <1>3, SeededQueue
  <2>4. CrawlType' /\ BreadthFirst'
    BY <2>1, <2>3 DEF DepthInv, CrawlType, BreadthFirst
  <2> QED
    BY <1>0, <2>1, <2>2, <2>3, <2>4 DEF DepthInv
<1>4. CASE LoadRobots \/ Finish \/ UNCHANGED vars
  <2>1. /\ UNCHANGED <<queue, pages, order, depthOf, asked>>
        /\ phase' \in {"robots", "sitemap"} => phase \in {"robots", "sitemap"}
    BY <1>4 DEF LoadRobots, Finish, vars
  <2>2. CrawlType' /\ BreadthFirst'
    BY <2>1 DEF DepthInv, CrawlType, BreadthFirst
  <2> QED
    BY <1>0, <2>1, <2>2 DEF DepthInv, ByDepth, InBand
<1> QED
  BY <1>1, <1>2, <1>3, <1>4 DEF Next

LEMMA DepthAlways == Spec => []DepthInv
<1>1. Init => DepthInv
  <2> SUFFICES ASSUME Init PROVE DepthInv
    OBVIOUS
  <2>1. OrderInv /\ queue = << >> /\ pages = {} /\ order = << >> /\ asked = {}
    BY DEF Init, OrderInv, OrderListsPages
  <2>2. CrawlType
    BY <2>1 DEF Init, CrawlType
  <2> QED
    BY <2>1, <2>2 DEF DepthInv, ByDepth, InBand, BreadthFirst
<1> QED
  BY <1>1, DepthStep, PTL DEF Spec

(* mindmap.go:116-161, for any site, seeds and redirects: pages are        *)
(* recorded by depth and none is deeper than MaxDepth.                     *)
THEOREM WalkIsBreadthFirst == Spec => []BreadthFirst
<1>1. DepthInv => BreadthFirst
  BY DEF DepthInv
<1> QED
  BY <1>1, DepthAlways, PTL

-----------------------------------------------------------------------------
(* Links of expanded pages.  An entry leaves the queue when its URL is     *)
(* asked for or is a page already, and then that page is no deeper than    *)
(* the entry, because the queue comes by depth.                            *)
LinkKept(p, l) ==
  \/ ~Allowed(l)
  \/ l \in pages /\ depthOf[l] <= depthOf[p] + 1
  \/ \E e \in asked \cup Elements(queue) : e.url = l /\ e.depth <= depthOf[p] + 1

AskedInv ==
  /\ DepthInv
  /\ asked \subseteq Entry
  /\ \A e \in asked \cup Elements(queue) : e.url = Start \/ Allowed(e.url)
  /\ \A p \in pages : depthOf[p] < MaxDepth => \A l \in Elements(Links[p]) : LinkKept(p, l)

LEMMA LinkStaysKept ==
  ASSUME AskedInv, queue # << >>, NEW p \in pages, NEW l, LinkKept(p, l),
         Elements(Tail(queue)) \subseteq Elements(queue'),
         asked' = asked \cup {Head(queue)} \/ (asked' = asked /\ Head(queue).url \in pages),
         loaded' = loaded, pages \subseteq pages',
         \A q \in pages : depthOf'[q] = depthOf[q]
  PROVE  LinkKept(p, l)'
<1> DEFINE b == depthOf[p] + 1
<1>1. depthOf'[p] + 1 = b /\ (Allowed(l)' <=> Allowed(l))
  BY DEF Allowed
<1> HIDE DEF b
<1>2. CASE ~Allowed(l) \/ (l \in pages /\ depthOf[l] <= b)
  BY <1>1, <1>2 DEF LinkKept
<1>3. CASE \E e \in asked \cup Elements(queue) : e.url = l /\ e.depth <= b
  <2>1. PICK e \in asked \cup Elements(queue) : e.url = l /\ e.depth <= b
    BY <1>3
  <2>2. Elements(queue) = {Head(queue)} \cup Elements(Tail(queue))
    BY TailOfQueue DEF AskedInv, DepthInv, CrawlType
  <2>3. CASE e \in asked' \cup Elements(queue')
    BY <1>1, <2>1, <2>3 DEF LinkKept
  <2>4. CASE e \notin asked' \cup Elements(queue')
    <3>1. e = Head(queue) /\ l \in pages
      BY <2>1, <2>2, <2>4
    <3>2. depthOf[l] <= e.depth /\ e.depth \in Nat /\ depthOf[l] \in Nat
      BY <3>1, RestOfQueue, BoundsAssumption DEF AskedInv, DepthInv, CrawlType
    <3>3. b \in Nat
      BY DEF b, AskedInv, DepthInv, CrawlType
    <3>4. depthOf'[l] <= b /\ l \in pages'
      BY <2>1, <3>1, <3>2, <3>3
    <3> QED
      BY <1>1, <3>4 DEF LinkKept
  <2> QED
    BY <2>3, <2>4
<1> QED
  BY <1>2, <1>3 DEF LinkKept, b

(* What a new page links to is a page already, or queued one level below.  *)
LEMMA NewPageLinks ==
  ASSUME AskedInv, DepthInv', Record,
         NEW u, u = Served[Head(queue).url], depthOf'[u] < MaxDepth,
         NEW l \in Elements(Links[u])
  PROVE  LinkKept(u, l)'
<1> DEFINE d == Head(queue).depth  q == Tail(queue)  new == NewLinks(u, d)
<1>1. /\ queue # << >> /\ u \notin pages /\ pages' = pages \cup {u} /\ loaded' = loaded
      /\ depthOf' = [depthOf EXCEPT ![u] = d] /\ queue' = q \o new
  BY DEF Record, Walking, IsNew, Enqueue
<1>2. /\ q \in Seq(Entry) /\ d \in 0..MaxDepth /\ Head(queue).url \in Url
      /\ \A p \in pages : depthOf[p] <= d
  BY <1>1, RestOfQueue DEF AskedInv
<1>3. u \in Url /\ d \in Nat /\ Links[u] \in Seq(Url)
  BY <1>2, SiteAssumption, BoundsAssumption
<1> HIDE DEF d
<1>4. depthOf'[u] = d /\ \A p \in pages : depthOf'[p] = depthOf[p] /\ depthOf[p] \in Nat
  BY <1>1, <1>3 DEF AskedInv, DepthInv, CrawlType
<1>5. /\ new \in Seq(Entry)
      /\ Elements(new) =
           {At(k, d + 1) : k \in Elements(Links[u]) \cap (AllowedURLs \ (pages \cup {u}))}
  BY <1>2, <1>3, <1>4, NewLinksShape
<1> HIDE DEF q, new
<1>6. CASE l \in pages \cup {u}
  <2>1. depthOf'[l] <= d + 1
    BY <1>2, <1>3, <1>4, <1>6
  <2> QED
    BY <1>1, <1>4, <1>6, <2>1 DEF LinkKept
<1>7. CASE l \notin pages \cup {u} /\ Allowed(l)
  <2>1. l \in Url
    BY <1>3 DEF Elements
  <2>2. At(l, d + 1) \in Elements(new)
    BY <1>5, <1>7, <2>1 DEF AllowedURLs
  <2>3. At(l, d + 1) \in Elements(queue')
    BY <1>1, <1>2, <1>5, <2>2, JoinedQueues
  <2>4. At(l, d + 1).url = l /\ At(l, d + 1).depth <= d + 1
    BY <1>3 DEF At
  <2> QED
    BY <1>4, <2>3, <2>4 DEF LinkKept
<1>8. CASE ~Allowed(l)
  BY <1>1, <1>8 DEF LinkKept, Allowed
<1> QED
  BY <1>6, <1>7, <1>8

(* An entry of the queue is skipped or asked for.                          *)
LEMMA HeadTaken ==
  ASSUME AskedInv, DepthInv', SkipSeen \/ FetchFails \/ FetchSeen
  PROVE  AskedInv'
<1>1. /\ queue # << >> /\ queue' = Tail(queue) /\ UNCHANGED <<loaded, pages, depthOf>>
      /\ asked' = asked \cup {Head(queue)} \/ (asked' = asked /\ Head(queue).url \in pages)
  BY DEF SkipSeen, FetchFails, FetchSeen, Walking
<1>2. /\ Head(queue) \in Entry /\ Elements(queue) = {Head(queue)} \cup Elements(queue')
  BY <1>1, TailOfQueue DEF AskedInv, DepthInv, CrawlType
<1>3. asked' \subseteq Entry /\ asked' \cup Elements(queue') \subseteq asked \cup Elements(queue)
  BY <1>1, <1>2 DEF AskedInv
<1>4. \A e \in asked' \cup Elements(queue') : e.url = Start \/ Allowed(e.url)'
  BY <1>1, <1>3 DEF AskedInv, Allowed
<1>5. ASSUME NEW p \in pages, depthOf[p] < MaxDepth, NEW l \in Elements(Links[p])
      PROVE  LinkKept(p, l)'
  <2>1. LinkKept(p, l)
    BY <1>5 DEF AskedInv
  <2> QED
    BY <1>1, <2>1, LinkStaysKept
<1> QED
  BY <1>1, <1>3, <1>4, <1>5 DEF AskedInv

LEMMA PageAsked ==
  ASSUME AskedInv, DepthInv', Record
  PROVE  AskedInv'
<1> DEFINE u == Served[Head(queue).url]  d == Head(queue).depth
           q == Tail(queue)  new == NewLinks(u, d)
<1>1. /\ queue # << >> /\ u \notin pages /\ pages' = pages \cup {u} /\ loaded' = loaded
      /\ depthOf' = [depthOf EXCEPT ![u] = d] /\ queue' = q \o new
      /\ asked' = asked \cup {Head(queue)}
  BY DEF Record, Walking, IsNew, Enqueue
<1>2. /\ q \in Seq(Entry) /\ d \in 0..MaxDepth /\ Head(queue).url \in Url
  BY <1>1, RestOfQueue DEF AskedInv
<1>3. /\ Head(queue) \in Entry /\ Elements(queue) = {Head(queue)} \cup Elements(q)
  BY <1>1, TailOfQueue DEF AskedInv, DepthInv, CrawlType
<1>4. u \in Url
  BY <1>2, SiteAssumption
<1>5. /\ new \in Seq(Entry) /\ \A e \in Elements(new) : Allowed(e.url)
  <2> HIDE DEF u, d, new
  <2>1. new \in Seq(Entry)
    BY <1>2, <1>4, NewLinksShape DEF new
  <2>2. CASE d < MaxDepth
    <3>1. Elements(new) =
            {At(l, d + 1) : l \in Elements(Links[u]) \cap (AllowedURLs \ (pages \cup {u}))}
      BY <1>2, <1>4, <2>2, NewLinksShape DEF new
    <3> QED
      BY <2>1, <3>1 DEF At, AllowedURLs
  <2>3. CASE d >= MaxDepth
    BY <2>1, <2>3 DEF new, NewLinks, Elements
  <2> QED
    BY <1>2, <2>1, <2>2, <2>3, BoundsAssumption
<1> HIDE DEF q, new
<1>6. Elements(queue') = Elements(q) \cup Elements(new)
  BY <1>1, <1>2, <1>5, JoinedQueues
<1>7. /\ asked' \subseteq Entry
      /\ \A e \in asked' \cup Elements(queue') : e.url = Start \/ Allowed(e.url)'
  BY <1>1, <1>3, <1>5, <1>6 DEF AskedInv, Allowed
<1>8. ASSUME NEW p \in pages', depthOf'[p] < MaxDepth, NEW l \in Elements(Links[p])
      PROVE  LinkKept(p, l)'
  <2>1. CASE p = u
    BY <1>8, <2>1, NewPageLinks
  <2>2. CASE p \in pages
    <3>1. \A r \in pages : depthOf'[r] = depthOf[r]
      <4>1. depthOf \in [Url -> Nat] /\ pages \subseteq Url
        BY DEF AskedInv, DepthInv, CrawlType
      <4> QED
        BY <1>1, <4>1
    <3>2. LinkKept(p, l)
      BY <1>8, <2>2, <3>1 DEF AskedInv
    <3>3. Elements(Tail(queue)) \subseteq Elements(queue')
      BY <1>6 DEF q
    <3> QED
      BY <1>1, <2>2, <3>1, <3>2, <3>3, LinkStaysKept
  <2> QED
    BY <1>1, <1>8, <2>1, <2>2
<1> QED
  BY <1>7, <1>8 DEF AskedInv

LEMMA AskedStep == AskedInv /\ [Next]_vars => AskedInv'
<1> SUFFICES ASSUME AskedInv, [Next]_vars PROVE AskedInv'
  OBVIOUS
<1>0. DepthInv'
  BY DepthStep DEF AskedInv
<1>1. CASE SkipSeen \/ FetchFails \/ FetchSeen
  BY <1>0, <1>1, HeadTaken
<1>2. CASE Record
  BY <1>0, <1>2, PageAsked
<1>3. CASE Seed
  <2>1. phase = "sitemap" /\ UNCHANGED <<loaded, pages, asked>>
    BY <1>3 DEF Seed
  <2>2. pages = {} /\ asked = {}
    BY <2>1 DEF AskedInv, DepthInv, CrawlType
  <2>3. \A e \in Elements(queue') : e.url = Start \/ Allowed(e.url)
    BY <1>3, SeededQueue DEF AskedInv
  <2> QED
    BY <1>0, <2>1, <2>2, <2>3 DEF AskedInv, Allowed
<1>4. CASE LoadRobots
  <2>1. phase = "robots" /\ UNCHANGED <<queue, pages, asked>>
    BY <1>4 DEF LoadRobots
  <2>2. queue = << >> /\ pages = {} /\ asked = {}
    BY <2>1 DEF AskedInv, DepthInv, CrawlType
  <2> QED
    BY <1>0, <2>1, <2>2 DEF AskedInv, Elements
<1>5. CASE Finish \/ UNCHANGED vars
  <2>1. UNCHANGED <<loaded, queue, pages, asked, depthOf>>
    BY <1>5 DEF Finish, vars
  <2> QED
    BY <1>0, <2>1 DEF AskedInv, LinkKept, Allowed, Elements
<1> QED
  BY <1>1, <1>2, <1>3, <1>4, <1>5 DEF Next

(* mindmap.go:105-111,121,156, for any site, robots.txt and failures: what *)
(* is asked for is allowed, and no allowed link of an expanded page is     *)
(* lost.                                                                   *)
THEOREM AllowedLinksAreAsked == Spec => []PermittedLinksAsked
<1>1. Init => AskedInv
  <2> SUFFICES ASSUME Init PROVE AskedInv
    OBVIOUS
  <2>1. queue = << >> /\ pages = {} /\ asked = {} /\ order = << >>
    BY DEF Init
  <2>2. OrderInv
    BY <2>1 DEF OrderInv, OrderListsPages
  <2>3. CrawlType
    BY <2>1 DEF Init, CrawlType
  <2>4. DepthInv
    BY <2>1, <2>2, <2>3 DEF DepthInv, ByDepth, InBand, BreadthFirst
  <2> QED
    BY <2>1, <2>4 DEF AskedInv, Elements
<1>2. AskedInv => PermittedLinksAsked
  BY DEF AskedInv, PermittedLinksAsked, LinkKept, Elements
<1> QED
  BY <1>1, <1>2, AskedStep, PTL DEF Spec

-----------------------------------------------------------------------------
(* The journeys of a crawled site, beside the crawl: what the finders      *)
(* return.                                                                 *)
Kind == ToSet(Kinds)
JourneysOf(m) == [kind : Kind, steps : Seq(DOMAIN m.page) \ {<< >>}]

(* Journeys of the r-th kind, and at most max of them.                     *)
OfKind(m, r) ==
  {p \in Seq(JourneysOf(m)) : \A i \in DOMAIN p : p[i].kind = Kinds[r]}
PartOf(m, max, r) == {p \in OfKind(m, r) : Len(p) <= max}

LEMMA KindNames ==
  /\ DOMAIN Kinds = 1..10 /\ Len(Kinds) = 10
  /\ Kinds[1] = "convert" /\ Kinds[2] = "exercise" /\ Kinds[3] = "contact"
  /\ Kinds[4] = "authenticate" /\ Kinds[5] = "evaluate" /\ Kinds[6] = "research"
  /\ Kinds[7] = "browse" /\ Kinds[8] = "discover" /\ Kinds[9] = "explore"
  /\ Kinds[10] = "read"
BY DEF Kinds

LEMMA KindsDiffer ==
  /\ \A r \in 1..10 : Kinds[r] \in Kind
  /\ \A k \in Kind : \E r \in 1..10 : k = Kinds[r]
  /\ \A r, q \in 1..10 : Kinds[r] = Kinds[q] => r = q
<1>1. \A r, q \in 1..10 : Kinds[r] = Kinds[q] => r = q
  BY KindNames
<1> QED
  BY <1>1, KindNames DEF Kind, ToSet

LEMMA SiteType ==
  ASSUME NEW m \in Sites
  PROVE  /\ m.order \in Seq(DOMAIN m.page) /\ m.order # << >>
         /\ \A u \in DOMAIN m.page : /\ m.page[u].links \in Seq(KnownUrl)
                                     /\ m.page[u].nav \in Seq(KnownUrl)
                                     /\ m.page[u].anchors \in Seq(Anchor)
         /\ LandingPage(m) \in DOMAIN m.page
<1>1. /\ m.order \in Seq(KnownUrl) /\ m.order # << >> /\ m.page \in [ToSet(m.order) -> Page]
      /\ DOMAIN m.page = ToSet(m.order)
  BY SitesAssumption
<1> DEFINE o == m.order  P == DOMAIN m.page
<1>2. /\ Len(o) \in Nat /\ Len(o) # 0 /\ DOMAIN o = 1..Len(o)
      /\ o = [i \in 1..Len(o) |-> o[i]] /\ \A i \in 1..Len(o) : o[i] \in P
  BY <1>1 DEF ToSet
<1>3. o \in Seq(P)
  <2> HIDE DEF o, P
  <2> QED
    BY <1>2
<1>4. \A u \in P : m.page[u] \in Page
  BY <1>1
<1>5. LandingPage(m) \in P
  <2> DEFINE tagged == Only(m.order, PagesWith(m, "landing"))
  <2>1. tagged \in Seq(P)
    BY <1>3, OnlyElements
  <2>2. Head(o) \in P
    BY <1>1, <1>2, <1>3
  <2>3. tagged # << >> => Head(tagged) \in P
    BY <2>1
  <2> HIDE DEF tagged, P
  <2>4. LandingPage(m) = IF tagged # << >> THEN Head(tagged) ELSE Head(o)
    BY DEF LandingPage, tagged
  <2> QED
    BY <2>2, <2>3, <2>4
<1> QED
  BY <1>1, <1>3, <1>4, <1>5 DEF Page

LEMMA UpToShape ==
  ASSUME NEW S, NEW s \in Seq(S), NEW max \in Nat
  PROVE  /\ UpTo(max, s) \in Seq(S)
         /\ Len(UpTo(max, s)) <= max /\ Len(UpTo(max, s)) <= Len(s)
         /\ \A i \in 1..Len(UpTo(max, s)) : UpTo(max, s)[i] = s[i]
<1> DEFINE n == IF Len(s) < max THEN Len(s) ELSE max
<1>1. n \in Nat /\ n <= max /\ n <= Len(s) /\ \A i \in 1..n : s[i] \in S
  OBVIOUS
<1> HIDE DEF n
<1>2. /\ SubSeq(s, 1, n) \in Seq(S)
      /\ Len(SubSeq(s, 1, n)) = IF 1 <= n THEN n - 1 + 1 ELSE 0
      /\ \A i \in 1..n - 1 + 1 : SubSeq(s, 1, n)[i] = s[1 + i - 1]
  BY <1>1, SubSeqProperties
<1>3. UpTo(max, s) = SubSeq(s, 1, n)
  BY DEF UpTo, n
<1>4. Len(SubSeq(s, 1, n)) = n
  BY <1>1, <1>2
<1>5. \A i \in 1..n : SubSeq(s, 1, n)[i] = s[i]
  <2> TAKE i \in 1..n
  <2>1. i \in 1..n - 1 + 1 /\ 1 + i - 1 = i
    BY <1>1
  <2> QED
    BY <1>2, <2>1
<1> QED
  BY <1>1, <1>2, <1>3, <1>4, <1>5

LEMMA CappedPart ==
  ASSUME NEW m, NEW max \in Nat, NEW r \in 1..10, NEW q \in OfKind(m, r)
  PROVE  UpTo(max, q) \in PartOf(m, max, r)
<1> DEFINE p == UpTo(max, q)
<1>1. /\ p \in Seq(JourneysOf(m)) /\ Len(p) <= max /\ Len(p) <= Len(q)
      /\ \A i \in 1..Len(p) : p[i] = q[i]
  BY UpToShape DEF OfKind
<1> HIDE DEF p
<1>2. q \in Seq(JourneysOf(m)) /\ \A i \in DOMAIN q : q[i].kind = Kinds[r]
  BY DEF OfKind
<1>3. \A i \in DOMAIN p : i \in DOMAIN q /\ p[i] = q[i]
  BY <1>1, <1>2
<1>4. p \in PartOf(m, max, r)
  BY <1>1, <1>2, <1>3 DEF PartOf, OfKind
<1> QED
  BY <1>4 DEF p

LEMMA JoinedKind ==
  ASSUME NEW m, NEW r, NEW p \in OfKind(m, r), NEW q \in OfKind(m, r)
  PROVE  p \o q \in OfKind(m, r)
<1>1. /\ p \in Seq(JourneysOf(m)) /\ q \in Seq(JourneysOf(m))
      /\ \A i \in DOMAIN p : p[i].kind = Kinds[r]
      /\ \A i \in DOMAIN q : q[i].kind = Kinds[r]
  BY DEF OfKind
<1>2. /\ p \o q \in Seq(JourneysOf(m)) /\ DOMAIN (p \o q) = 1..Len(p) + Len(q)
      /\ DOMAIN p = 1..Len(p) /\ DOMAIN q = 1..Len(q) /\ Len(p) \in Nat /\ Len(q) \in Nat
      /\ \A i \in 1..Len(p) + Len(q) :
           (p \o q)[i] = IF i <= Len(p) THEN p[i] ELSE q[i - Len(p)]
  BY <1>1
<1>3. ASSUME NEW i \in 1..Len(p) + Len(q)
      PROVE  (p \o q)[i].kind = Kinds[r]
  <2>1. CASE i <= Len(p)
    BY <1>1, <1>2, <2>1
  <2>2. CASE i > Len(p)
    <3>1. i - Len(p) \in 1..Len(q)
      BY <1>2, <2>2
    <3> QED
      BY <1>1, <1>2, <2>2, <3>1
  <2> QED
    BY <1>2, <2>1, <2>2
<1> QED
  BY <1>2, <1>3 DEF OfKind

LEMMA JourneyShape ==
  ASSUME NEW m, NEW r \in 1..10, NEW steps \in Seq(DOMAIN m.page), steps # << >>
  PROVE  Journey(Kinds[r], steps) \in JourneysOf(m) /\ Journey(Kinds[r], steps).kind = Kinds[r]
BY KindsDiffer DEF Journey, JourneysOf

LEMMA ShortSequences ==
  ASSUME NEW S, NEW x \in S, NEW y \in S
  PROVE  /\ <<x>> \in Seq(S) /\ <<x>> # << >> /\ <<x, y>> \in Seq(S) /\ <<x, y>> # << >>
         /\ Len(<<x>>) = 1 /\ Len(<<x, y>>) = 2
<1>1. <<x>> = Append(<< >>, x) /\ <<x, y>> = Append(<<x>>, y)
  OBVIOUS
<1> QED
  BY <1>1

LEMMA ViaShape ==
  ASSUME NEW m \in Sites, NEW u \in DOMAIN m.page
  PROVE  Via(m, u) \in Seq(DOMAIN m.page) /\ Via(m, u) # << >>
<1>1. LandingPage(m) \in DOMAIN m.page
  BY SiteType
<1>2. /\ <<u>> \in Seq(DOMAIN m.page) /\ <<LandingPage(m), u>> \in Seq(DOMAIN m.page)
      /\ <<u>> # << >> /\ <<LandingPage(m), u>> # << >>
  BY <1>1, ShortSequences
<1> QED
  BY <1>2, Zenon DEF Via

LEMMA FindFirstShape ==
  ASSUME NEW m \in Sites, NEW u \in DOMAIN m.page,
         NEW targets \in SUBSET DOMAIN m.page
  PROVE  FindFirst(m, u, targets) \in Seq(DOMAIN m.page)
<1> DEFINE T == targets \ {u}  l == m.page[u].links
<1>1. l \in Seq(KnownUrl)
  BY SiteType
<1> HIDE DEF l, T
<1>2. Only(l, T) \in Seq(KnownUrl \cap T)
  BY <1>1, OnlyTyped
<1>3. UpTo(1, Only(l, T)) \in Seq(KnownUrl \cap T)
  BY <1>2, UpToShape
<1>4. UpTo(1, Only(l, T)) \in Seq(DOMAIN m.page)
  BY <1>3 DEF T
<1> QED
  BY <1>4 DEF FindFirst, l, T

LEMMA FindShape ==
  ASSUME NEW m \in Sites, NEW max \in Nat, NEW r \in 1..10, NEW targets
  PROVE  Find(m, Kinds[r], max, targets) \in PartOf(m, max, r)
<1> DEFINE ends == Only(m.order, targets)
           q == [i \in DOMAIN ends |-> Journey(Kinds[r], Via(m, ends[i]))]
<1>1. ends \in Seq(DOMAIN m.page)
  BY SiteType, OnlyElements
<1> HIDE DEF ends
<1>2. Len(ends) \in Nat /\ DOMAIN ends = 1..Len(ends)
      /\ \A i \in 1..Len(ends) : ends[i] \in DOMAIN m.page
  BY <1>1
<1>3. \A i \in DOMAIN ends : q[i] \in JourneysOf(m) /\ q[i].kind = Kinds[r]
  <2> TAKE i \in DOMAIN ends
  <2> DEFINE v == Via(m, ends[i])
  <2>1. v \in Seq(DOMAIN m.page) /\ v # << >>
    BY <1>2, ViaShape
  <2>2. q[i] = Journey(Kinds[r], v)
    OBVIOUS
  <2> HIDE DEF v, q
  <2> QED
    BY <2>1, <2>2, JourneyShape
<1> HIDE DEF q
<1>4. q = [i \in 1..Len(ends) |-> q[i]]
  BY <1>2 DEF q
<1>5. q \in OfKind(m, r)
  BY <1>2, <1>3, <1>4 DEF OfKind
<1>6. UpTo(max, q) \in PartOf(m, max, r)
  BY <1>5, CappedPart
<1> QED
  BY <1>6 DEF Find, q, ends

(* Journeys one by one from a list of pages.                               *)
Each(kind, l, walk) == [i \in DOMAIN l |-> Journey(kind, walk[l[i]])]

LEMMA EachTyped ==
  ASSUME NEW m, NEW r \in 1..10, NEW l \in Seq(DOMAIN m.page), NEW walk,
         \A u \in DOMAIN m.page : walk[u] \in Seq(DOMAIN m.page) /\ walk[u] # << >>
  PROVE  Each(Kinds[r], l, walk) \in OfKind(m, r)
<1> DEFINE q == Each(Kinds[r], l, walk)
<1>1. Len(l) \in Nat /\ DOMAIN l = 1..Len(l) /\ \A i \in 1..Len(l) : l[i] \in DOMAIN m.page
  OBVIOUS
<1>2. \A i \in DOMAIN l : q[i] \in JourneysOf(m) /\ q[i].kind = Kinds[r]
  <2> TAKE i \in DOMAIN l
  <2> DEFINE v == walk[l[i]]
  <2>1. v \in Seq(DOMAIN m.page) /\ v # << >>
    BY <1>1
  <2>2. q[i] = Journey(Kinds[r], v)
    BY DEF Each
  <2> HIDE DEF v, q
  <2> QED
    BY <2>1, <2>2, JourneyShape
<1> HIDE DEF q
<1>3. q = [i \in 1..Len(l) |-> q[i]]
  BY <1>1 DEF q, Each
<1>4. q \in OfKind(m, r)
  BY <1>1, <1>2, <1>3 DEF OfKind
<1> QED
  BY <1>4 DEF q

LEMMA EachShape ==
  ASSUME NEW m, NEW max \in Nat, NEW r \in 1..10, NEW l \in Seq(DOMAIN m.page), NEW walk,
         \A u \in DOMAIN m.page : walk[u] \in Seq(DOMAIN m.page) /\ walk[u] # << >>
  PROVE  UpTo(max, Each(Kinds[r], l, walk)) \in PartOf(m, max, r)
BY EachTyped, CappedPart

LEMMA ExerciseShape ==
  ASSUME NEW m \in Sites, NEW max \in Nat
  PROVE  FindExercise(m, max) \in PartOf(m, max, 2)
<1> DEFINE l == Only(m.order, PagesWith(m, "interactive"))
           walk == [u \in DOMAIN m.page |-> <<u>>]
           q == [i \in DOMAIN l |-> Journey(Kinds[2], <<l[i]>>)]
<1>1. l \in Seq(DOMAIN m.page)
  BY SiteType, OnlyElements
<1> HIDE DEF l
<1>2. \A u \in DOMAIN m.page : walk[u] \in Seq(DOMAIN m.page) /\ walk[u] # << >>
  BY ShortSequences
<1>3. \A i \in DOMAIN l : walk[l[i]] = <<l[i]>>
  BY <1>1
<1> HIDE DEF walk
<1>4. UpTo(max, Each(Kinds[2], l, walk)) \in PartOf(m, max, 2)
  BY <1>1, <1>2, EachShape
<1>5. Each(Kinds[2], l, walk) = q
  BY <1>3 DEF Each
<1>6. FindExercise(m, max) = UpTo(max, q)
  <2>1. Only(m.order, PagesWith(m, "interactive")) = l
    BY DEF l
  <2>2. Kinds[2] = "exercise"
    BY KindNames
  <2> QED
    BY <2>1, <2>2, Zenon DEF FindExercise
<1> QED
  BY <1>4, <1>5, <1>6
LEMMA WalkShape ==
  ASSUME NEW m \in Sites, NEW u \in DOMAIN m.page,
         NEW targets \in SUBSET DOMAIN m.page
  PROVE  /\ Via(m, u) \o FindFirst(m, u, targets) \in Seq(DOMAIN m.page)
         /\ Via(m, u) \o FindFirst(m, u, targets) # << >>
<1> DEFINE v == Via(m, u)  f == FindFirst(m, u, targets)
<1>1. v \in Seq(DOMAIN m.page) /\ v # << >> /\ f \in Seq(DOMAIN m.page)
  BY ViaShape, FindFirstShape
<1> HIDE DEF v, f
<1>2. v \o f \in Seq(DOMAIN m.page) /\ Len(v \o f) = Len(v) + Len(f) /\ Len(v) # 0
  BY <1>1
<1>3. v \o f # << >>
  BY <1>1, <1>2
<1> QED
  BY <1>2, <1>3 DEF v, f

LEMMA BrowseShape ==
  ASSUME NEW m \in Sites, NEW max \in Nat
  PROVE  FindBrowse(m, max) \in PartOf(m, max, 7)
<1> DEFINE T == {u \in PagesWith(m, "list") \ {LandingPage(m)} : ~m.page[u].hub}
           l == Only(m.order, T)
           D == PagesWith(m, "detail")
           walk == [u \in DOMAIN m.page |-> Via(m, u) \o FindFirst(m, u, D)]
           q == [i \in DOMAIN l |-> Journey(Kinds[7], Via(m, l[i]) \o FindFirst(m, l[i], D))]
<1>1. l \in Seq(DOMAIN m.page)
  <2> HIDE DEF T
  <2> QED
    BY SiteType, OnlyElements
<1>2. D \in SUBSET DOMAIN m.page
  BY DEF PagesWith
<1> HIDE DEF l, D
<1>3. \A u \in DOMAIN m.page : walk[u] \in Seq(DOMAIN m.page) /\ walk[u] # << >>
  BY <1>2, WalkShape
<1>4. \A i \in DOMAIN l : walk[l[i]] = Via(m, l[i]) \o FindFirst(m, l[i], D)
  BY <1>1
<1> HIDE DEF walk
<1>5. UpTo(max, Each(Kinds[7], l, walk)) \in PartOf(m, max, 7)
  BY <1>1, <1>3, EachShape
<1>6. Each(Kinds[7], l, walk) = q
  BY <1>4 DEF Each
<1>7. FindBrowse(m, max) = UpTo(max, q)
  <2>1. Only(m.order, T) = l
    BY DEF l
  <2>2. Kinds[7] = "browse"
    BY KindNames
  <2> QED
    BY <2>1, <2>2, Zenon DEF FindBrowse, D
<1> QED
  BY <1>5, <1>6, <1>7

LEMMA ExploreShape ==
  ASSUME NEW m \in Sites, NEW max \in Nat
  PROVE  FindExplore(m, max) \in PartOf(m, max, 9)
<1> DEFINE T == DOMAIN m.page \ Owned(m)
           n == m.page[LandingPage(m)].nav
           l == Only(n, T)
           walk == [u \in DOMAIN m.page |-> <<LandingPage(m), u>>]
           q == [i \in DOMAIN l |-> Journey(Kinds[9], <<LandingPage(m), l[i]>>)]
<1>1. l \in Seq(DOMAIN m.page)
  <2>1. n \in Seq(KnownUrl) /\ T \subseteq DOMAIN m.page
    BY SiteType
  <2> HIDE DEF T, n
  <2>2. l \in Seq(KnownUrl \cap T)
    BY <2>1, OnlyTyped
  <2> HIDE DEF l
  <2> QED
    BY <2>1, <2>2
<1> HIDE DEF l
<1>2. \A u \in DOMAIN m.page : walk[u] \in Seq(DOMAIN m.page) /\ walk[u] # << >>
  BY SiteType, ShortSequences
<1>3. \A i \in DOMAIN l : walk[l[i]] = <<LandingPage(m), l[i]>>
  BY <1>1
<1> HIDE DEF walk
<1>4. UpTo(max, Each(Kinds[9], l, walk)) \in PartOf(m, max, 9)
  BY <1>1, <1>2, EachShape
<1>5. Each(Kinds[9], l, walk) = q
  BY <1>3 DEF Each
<1>6. FindExplore(m, max) = UpTo(max, q)
  <2>1. Only(n, T) = l
    BY DEF l
  <2>2. Kinds[9] = "explore"
    BY KindNames
  <2> QED
    BY <2>1, <2>2, Zenon DEF FindExplore
<1> QED
  BY <1>4, <1>5, <1>6

(* Two searches of different shape share one cap.                          *)
LEMMA ResearchShape ==
  ASSUME NEW m \in Sites, NEW max \in Nat
  PROVE  FindResearch(m, max) \in PartOf(m, max, 6)
<1> DEFINE hubs == ResearchHubs(m, max)
           unshown == UnshownCaseStudies(m, hubs, max)
           walk == [u \in DOMAIN m.page |-> HubWalk(m, u)]
           q == [i \in DOMAIN hubs |-> Journey(Kinds[6], HubWalk(m, hubs[i]))]
<1>1. hubs \in Seq(DOMAIN m.page)
  <2> DEFINE T == {u \in PagesWith(m, "list") : m.page[u].hub /\ Len(HubWalk(m, u)) > 1}
  <2>1. hubs = UpTo(max, Only(m.order, T))
    BY DEF ResearchHubs
  <2> HIDE DEF T, hubs
  <2>2. Only(m.order, T) \in Seq(DOMAIN m.page)
    BY SiteType, OnlyElements
  <2> QED
    BY <2>1, <2>2, UpToShape
<1> HIDE DEF hubs
<1>2. unshown \in PartOf(m, max, 6)
  BY FindShape, KindNames DEF UnshownCaseStudies
<1> HIDE DEF unshown
<1>3. PagesWith(m, "casestudy") \in SUBSET DOMAIN m.page
  BY DEF PagesWith
<1>4. \A u \in DOMAIN m.page : walk[u] \in Seq(DOMAIN m.page) /\ walk[u] # << >>
  BY <1>3, WalkShape DEF HubWalk, HubDetail
<1>5. \A i \in DOMAIN hubs : walk[hubs[i]] = HubWalk(m, hubs[i])
  BY <1>1
<1> HIDE DEF walk
<1>6. Each(Kinds[6], hubs, walk) = q
  BY <1>5 DEF Each
<1> HIDE DEF q
<1>7. q \in OfKind(m, 6)
  <2>1. Each(Kinds[6], hubs, walk) \in OfKind(m, 6)
    BY <1>1, <1>4, EachTyped
  <2> QED
    BY <1>6, <2>1
<1> DEFINE z == q \o unshown
<1>8. z \in OfKind(m, 6)
  <2>1. unshown \in OfKind(m, 6)
    BY <1>2 DEF PartOf
  <2> QED
    BY <1>7, <2>1, JoinedKind
<1> HIDE DEF z
<1>9. UpTo(max, z) \in PartOf(m, max, 6)
  BY <1>8, CappedPart
<1>10. FindResearch(m, max) = UpTo(max, z)
  <2>1. Kinds[6] = "research"
    BY KindNames
  <2> QED
    BY <2>1, Zenon DEF FindResearch, hubs, unshown, q, z
<1> QED
  BY <1>9, <1>10

(* The ten finders come in the order of the kinds.                         *)
Found(m, max) ==
  <<FindConvert(m, max), FindExercise(m, max), FindContact(m, max),
    FindAuth(m, max), FindEvaluate(m, max), FindResearch(m, max),
    FindBrowse(m, max), FindDiscover(m, max), FindExplore(m, max),
    FindRead(m, max)>>

TenParts(f, m, max) ==
  /\ f \in Seq(Seq(JourneysOf(m))) /\ Len(f) = 10
  /\ \A r \in 1..10 : f[r] \in PartOf(m, max, r)

LEMMA FoundParts ==
  ASSUME NEW m \in Sites, NEW max \in Nat
  PROVE  /\ TenParts(Found(m, max), m, max)
         /\ Candidates(m, max) = FlattenSeq(Found(m, max))
<1>1. /\ FindConvert(m, max) \in PartOf(m, max, 1)
      /\ FindContact(m, max) \in PartOf(m, max, 3)
      /\ FindAuth(m, max) \in PartOf(m, max, 4)
      /\ FindEvaluate(m, max) \in PartOf(m, max, 5)
      /\ FindDiscover(m, max) \in PartOf(m, max, 8)
      /\ FindRead(m, max) \in PartOf(m, max, 10)
  BY FindShape, KindNames
     DEF FindConvert, FindContact, FindAuth, FindEvaluate, FindDiscover, FindRead
<1>2. /\ FindExercise(m, max) \in PartOf(m, max, 2)
      /\ FindResearch(m, max) \in PartOf(m, max, 6)
      /\ FindBrowse(m, max) \in PartOf(m, max, 7)
      /\ FindExplore(m, max) \in PartOf(m, max, 9)
  BY ExerciseShape, ResearchShape, BrowseShape, ExploreShape
<1> DEFINE f == Found(m, max)
<1>3. /\ f[1] = FindConvert(m, max) /\ f[2] = FindExercise(m, max)
      /\ f[3] = FindContact(m, max) /\ f[4] = FindAuth(m, max)
      /\ f[5] = FindEvaluate(m, max) /\ f[6] = FindResearch(m, max)
      /\ f[7] = FindBrowse(m, max) /\ f[8] = FindDiscover(m, max)
      /\ f[9] = FindExplore(m, max) /\ f[10] = FindRead(m, max)
      /\ Len(f) = 10 /\ f = [r \in 1..10 |-> f[r]]
  BY DEF Found
<1> HIDE DEF f
<1>4. \A r \in 1..10 : f[r] \in PartOf(m, max, r)
  BY <1>1, <1>2, <1>3
<1>5. \A r \in 1..10 : f[r] \in Seq(JourneysOf(m))
  BY <1>4 DEF PartOf, OfKind
<1>6. f \in Seq(Seq(JourneysOf(m)))
  <2> DEFINE Z == Seq(JourneysOf(m))
  <2>1. \A r \in 1..10 : f[r] \in Z
    BY <1>5
  <2> HIDE DEF Z
  <2>2. f \in Seq(Z)
    BY <1>3, <2>1
  <2> QED
    BY <2>2 DEF Z
<1>7. Candidates(m, max) = FlattenSeq(Found(m, max))
  BY Zenon DEF Candidates, Found
<1>8. TenParts(f, m, max)
  BY <1>3, <1>4, <1>6 DEF TenParts
<1> QED
  BY <1>7, <1>8 DEF f
KindPlaces(q, k) == {i \in DOMAIN q : q[i].kind = k}

LEMMA JoinedPlaces ==
  ASSUME NEW S, NEW p \in Seq(S), NEW q \in Seq(S), NEW k
  PROVE  KindPlaces(p \o q, k) = KindPlaces(p, k) \cup {Len(p) + i : i \in KindPlaces(q, k)}
<1>1. /\ DOMAIN (p \o q) = 1..Len(p) + Len(q)
      /\ DOMAIN p = 1..Len(p) /\ DOMAIN q = 1..Len(q) /\ Len(p) \in Nat /\ Len(q) \in Nat
      /\ \A i \in 1..Len(p) + Len(q) :
           (p \o q)[i] = IF i <= Len(p) THEN p[i] ELSE q[i - Len(p)]
  OBVIOUS
<1>2. ASSUME NEW i \in KindPlaces(p \o q, k), i \notin KindPlaces(p, k)
      PROVE  i - Len(p) \in KindPlaces(q, k) /\ i = Len(p) + (i - Len(p))
  <2>1. i \in 1..Len(p) + Len(q) /\ (p \o q)[i].kind = k
    BY <1>1 DEF KindPlaces
  <2>2. ~(i <= Len(p))
    BY <1>1, <1>2, <2>1 DEF KindPlaces
  <2>3. i - Len(p) \in 1..Len(q) /\ (p \o q)[i] = q[i - Len(p)]
    BY <1>1, <2>1, <2>2
  <2> QED
    BY <1>1, <2>1, <2>3 DEF KindPlaces
<1>3. ASSUME NEW i \in KindPlaces(p, k) PROVE i \in KindPlaces(p \o q, k)
  BY <1>1 DEF KindPlaces
<1>4. ASSUME NEW i \in KindPlaces(q, k) PROVE Len(p) + i \in KindPlaces(p \o q, k)
  <2>1. i \in 1..Len(q) /\ q[i].kind = k
    BY <1>1 DEF KindPlaces
  <2>2. Len(p) + i \in 1..Len(p) + Len(q) /\ ~(Len(p) + i <= Len(p)) /\ (Len(p) + i) - Len(p) = i
    BY <1>1, <2>1
  <2>3. (p \o q)[Len(p) + i] = q[i]
    BY <1>1, <2>2
  <2> QED
    BY <1>1, <2>1, <2>2, <2>3 DEF KindPlaces
<1> QED
  BY <1>2, <1>3, <1>4

(* Each finder returns journeys of one kind, so those of a kind are side   *)
(* by side and as many as the finder was allowed.                          *)
LEMMA CandidatesShape ==
  ASSUME NEW m \in Sites, NEW max \in Nat
  PROVE  /\ Candidates(m, max) \in Seq(JourneysOf(m))
         /\ \A k \in Kind : /\ IsFiniteSet(KindPlaces(Candidates(m, max), k))
                           /\ Cardinality(KindPlaces(Candidates(m, max), k)) <= max
<1> DEFINE S == JourneysOf(m)
           f == Found(m, max)
           Run(q, r) == \E a \in Nat : KindPlaces(q, Kinds[r]) \subseteq a + 1..a + max
           Good(n) == {q \in Seq(S) : \A r \in 1..10 :
                         IF r <= n THEN Run(q, r) ELSE KindPlaces(q, Kinds[r]) = {}}
           I == [n \in Nat |-> Good(n)]
<1>1. /\ f \in Seq(Seq(S)) /\ Len(f) = 10 /\ f # << >>
      /\ \A r \in 1..10 : f[r] \in PartOf(m, max, r)
  <2>1. TenParts(f, m, max)
    BY FoundParts
  <2> HIDE DEF f
  <2>2. f \in Seq(Seq(S)) /\ Len(f) = 10 /\ \A r \in 1..10 : f[r] \in PartOf(m, max, r)
    BY <2>1 DEF TenParts
  <2>3. Len(<< >>) = 0 /\ 0 # 10
    OBVIOUS
  <2> QED
    BY <2>2, <2>3, Zenon
<1> HIDE DEF f, S
<1>2. I \in [Nat -> SUBSET Seq(S)]
  OBVIOUS
<1>3. << >> \in I[0]
  BY DEF KindPlaces
<1>4. ASSUME NEW i \in 1..10, NEW q \in I[i - 1]
      PROVE  q \o f[i] \in I[i]
  <2>1. i \in Nat /\ i - 1 \in Nat
    OBVIOUS
  <2>2. q \in Good(i - 1)
    BY <2>1
  <2>3. /\ q \in Seq(S) /\ f[i] \in Seq(S) /\ Len(f[i]) <= max
        /\ \A n \in DOMAIN f[i] : f[i][n].kind = Kinds[i]
    BY <1>1, <2>2 DEF PartOf, OfKind, S
  <2>4. q \o f[i] \in Seq(S)
    BY <2>3
  <2>5. ASSUME NEW r \in 1..10
        PROVE  IF r <= i THEN Run(q \o f[i], r) ELSE KindPlaces(q \o f[i], Kinds[r]) = {}
    <3>1. KindPlaces(q \o f[i], Kinds[r]) =
            KindPlaces(q, Kinds[r]) \cup {Len(q) + n : n \in KindPlaces(f[i], Kinds[r])}
      BY <2>3, JoinedPlaces
    <3>2. CASE r # i
      <4>1. KindPlaces(f[i], Kinds[r]) = {}
        <5>1. Kinds[r] # Kinds[i]
          BY <3>2, KindsDiffer
        <5> QED
          BY <2>3, <5>1 DEF KindPlaces
      <4>2. KindPlaces(q \o f[i], Kinds[r]) = KindPlaces(q, Kinds[r])
        BY <3>1, <4>1
      <4>3. IF r <= i - 1 THEN Run(q, r) ELSE KindPlaces(q, Kinds[r]) = {}
        BY <2>2
      <4>4. r <= i <=> r <= i - 1
        BY <3>2
      <4> QED
        BY <4>2, <4>3, <4>4
    <3>3. CASE r = i
      <4>1. KindPlaces(q, Kinds[r]) = {}
        <5>1. ~(r <= i - 1)
          BY <3>3
        <5> QED
          BY <2>2, <5>1
      <4>2. Len(q) \in Nat /\ Len(f[i]) \in Nat /\ DOMAIN f[i] = 1..Len(f[i])
        BY <2>3
      <4>3. KindPlaces(q \o f[i], Kinds[r]) \subseteq Len(q) + 1..Len(q) + max
        BY <2>3, <3>1, <4>1, <4>2 DEF KindPlaces
      <4>4. Run(q \o f[i], r)
        BY <4>2, <4>3
      <4>5. r <= i
        BY <3>3
      <4> HIDE DEF Run
      <4> QED
        BY <4>4, <4>5
    <3> QED
      BY <3>2, <3>3
  <2> HIDE DEF Run
  <2>6. q \o f[i] \in Good(i)
    BY <2>4, <2>5
  <2> QED
    BY <2>1, <2>6
<1>5. FlattenSeq(f) \in I[10]
  <2> HIDE DEF I
  <2>1. \A i \in 1..Len(f) : \A q \in I[i - 1] : q \o f[i] \in I[i]
    BY <1>1, <1>4
  <2>2. FlattenSeq(f) \in I[Len(f)]
    BY <1>1, <1>2, <1>3, <2>1, FlattenInduction
  <2> QED
    BY <1>1, <2>2
<1>6. Candidates(m, max) \in Good(10)
  BY <1>5, FoundParts DEF f
<1> DEFINE c == Candidates(m, max)
<1>7. c \in Seq(S) /\ \A r \in 1..10 : Run(c, r)
  <2> HIDE DEF c, Run
  <2>1. c \in Good(10)
    BY <1>6 DEF c
  <2> QED
    BY <2>1
<1> HIDE DEF c
<1>8. ASSUME NEW k \in Kind
      PROVE  IsFiniteSet(KindPlaces(c, k)) /\ Cardinality(KindPlaces(c, k)) <= max
  <2>1. PICK r \in 1..10 : k = Kinds[r]
    BY KindsDiffer
  <2>2. PICK a \in Nat : KindPlaces(c, k) \subseteq a + 1..a + max
    BY <1>7, <2>1
  <2>3. IsFiniteSet(a + 1..a + max) /\ Cardinality(a + 1..a + max) = max
    <3>1. a + 1 \in Int /\ a + max \in Int
      OBVIOUS
    <3>2. /\ IsFiniteSet(a + 1..a + max)
          /\ Cardinality(a + 1..a + max) =
               IF a + 1 > a + max THEN 0 ELSE (a + max) - (a + 1) + 1
      BY <3>1, FS_Interval
    <3> QED
      BY <3>2
  <2> QED
    BY <2>2, <2>3, FS_Subset
<1> QED
  BY <1>7, <1>8 DEF c, S
-----------------------------------------------------------------------------
(* Deduplication.                                                          *)
LEMMA RankShape ==
  ASSUME NEW j, j.kind \in Kind
  PROVE  /\ Rank(j) \in 1..10 /\ Kinds[Rank(j)] = j.kind
         /\ \A r \in 1..10 : j.kind = Kinds[r] <=> Rank(j) = r
<1>1. \E r \in DOMAIN Kinds : Kinds[r] = j.kind
  BY KindNames, KindsDiffer
<1>2. Rank(j) \in DOMAIN Kinds /\ Kinds[Rank(j)] = j.kind
  BY <1>1 DEF Rank
<1> QED
  BY <1>2, KindNames, KindsDiffer

SameSlot(x, y) ==
  /\ (x.kind = "exercise" <=> y.kind = "exercise")
  /\ Terminal(x) = Terminal(y)

LEMMA SlotIs == \A x, y : Slot(x) = Slot(y) <=> SameSlot(x, y)
BY Zenon DEF Slot, SameSlot

Beaten(js, i) ==
  \E k \in DOMAIN js :
    /\ Slot(js[k]) = Slot(js[i])
    /\ \/ Rank(js[k]) < Rank(js[i])
       \/ Rank(js[k]) = Rank(js[i]) /\ k < i

Beats(js, k, i) ==
  /\ SameSlot(js[k], js[i])
  /\ \/ Rank(js[k]) < Rank(js[i])
     \/ Rank(js[k]) = Rank(js[i]) /\ k < i

LEMMA BeatenIs ==
  ASSUME NEW js, NEW i
  PROVE  Beaten(js, i) <=> \E k \in DOMAIN js : Beats(js, k, i)
<1>1. \A k : Slot(js[k]) = Slot(js[i]) <=> SameSlot(js[k], js[i])
  BY SlotIs, Zenon
<1> QED
  BY <1>1, Zenon DEF Beaten, Beats

BestOf(js, r) ==
  Only([i \in DOMAIN js |-> i], {i \in DOMAIN js : js[i].kind = Kinds[r] /\ ~Beaten(js, i)})

Kept(js) == FlattenSeq([r \in DOMAIN Kinds |-> BestOf(js, r)])

LEMMA DedupIs ==
  \A js : DedupJourneys(js) = [n \in DOMAIN Kept(js) |-> js[Kept(js)[n]]]
BY Zenon DEF DedupJourneys, Kept, BestOf, Beaten

(* What is kept: every index nothing beats, once, in the order of ranks.   *)
KeptOf(js, q, n) ==
  /\ q \in Seq(DOMAIN js)
  /\ Elements(q) = {i \in DOMAIN js : Rank(js[i]) <= n /\ ~Beaten(js, i)}
  /\ \A a, b \in DOMAIN q : a < b => q[a] # q[b] /\ Rank(js[q[a]]) <= Rank(js[q[b]])

LEMMA BestOfShape ==
  ASSUME NEW m, NEW js \in Seq(JourneysOf(m)), NEW r \in 1..10
  PROVE  /\ BestOf(js, r) \in Seq(DOMAIN js)
         /\ Elements(BestOf(js, r)) = {i \in DOMAIN js : Rank(js[i]) = r /\ ~Beaten(js, i)}
         /\ \A a, b \in DOMAIN BestOf(js, r) : a < b => BestOf(js, r)[a] < BestOf(js, r)[b]
<1> DEFINE n == Len(js)
           s == [i \in 1..n |-> i]
           T == {i \in DOMAIN js : js[i].kind = Kinds[r] /\ ~Beaten(js, i)}
<1>1. n \in Nat /\ DOMAIN js = 1..n /\ \A i \in 1..n : js[i] \in JourneysOf(m)
  OBVIOUS
<1>2. BestOf(js, r) = Only(s, T)
  BY <1>1 DEF BestOf
<1>3. T = {i \in DOMAIN js : Rank(js[i]) = r /\ ~Beaten(js, i)}
  <2>1. \A i \in DOMAIN js : js[i].kind \in Kind
    BY <1>1 DEF JourneysOf
  <2> QED
    BY <2>1, RankShape
<1>4. s \in Seq(DOMAIN js) /\ Elements(s) = DOMAIN js
  BY <1>1 DEF Elements
<1>5. T \subseteq DOMAIN js
  OBVIOUS
<1> HIDE DEF T
<1>6. \A a, b \in DOMAIN Only(s, T) : a < b => Only(s, T)[a] < Only(s, T)[b]
  BY <1>1, OnlyAscending
<1> HIDE DEF s, n
<1>7. Only(s, T) \in Seq(DOMAIN js) /\ Elements(Only(s, T)) = T
  <2> DEFINE D == DOMAIN js
  <2>1. s \in Seq(D) /\ Elements(s) = D /\ T \subseteq D
    BY <1>4, <1>5
  <2> HIDE DEF D
  <2>2. Only(s, T) \in Seq(D) /\ Elements(Only(s, T)) = Elements(s) \cap T
    BY <2>1, OnlyElements
  <2>3. Only(s, T) \in Seq(D) /\ Elements(Only(s, T)) = T
    BY <2>1, <2>2
  <2> QED
    BY <2>3 DEF D
<1> QED
  BY <1>2, <1>3, <1>6, <1>7

LEMMA KeptJoined ==
  ASSUME NEW js, NEW n \in 1..10, NEW q, KeptOf(js, q, n - 1), NEW p \in Seq(DOMAIN js),
         \A i \in DOMAIN js : i \in Nat /\ Rank(js[i]) \in 1..10,
         Elements(p) = {i \in DOMAIN js : Rank(js[i]) = n /\ ~Beaten(js, i)},
         \A a, b \in DOMAIN p : a < b => p[a] < p[b]
  PROVE  KeptOf(js, q \o p, n)
<1> DEFINE S == DOMAIN js  z == q \o p
<1>1. /\ q \in Seq(S) /\ DOMAIN q = 1..Len(q) /\ Len(q) \in Nat
      /\ Elements(q) = {i \in S : Rank(js[i]) <= n - 1 /\ ~Beaten(js, i)}
      /\ \A a, b \in DOMAIN q : a < b => q[a] # q[b] /\ Rank(js[q[a]]) <= Rank(js[q[b]])
  BY DEF KeptOf
<1>2. /\ DOMAIN p = 1..Len(p) /\ Len(p) \in Nat
      /\ \A a \in DOMAIN p : p[a] \in S /\ Rank(js[p[a]]) = n
  BY DEF Elements
<1>3. \A a \in DOMAIN q : q[a] \in S /\ Rank(js[q[a]]) \in 1..10 /\ Rank(js[q[a]]) <= n - 1
  BY <1>1 DEF Elements
<1>4. /\ z \in Seq(S) /\ DOMAIN z = 1..Len(q) + Len(p)
      /\ \A a \in 1..Len(q) : z[a] = q[a]
      /\ \A a \in 1..Len(p) : z[Len(q) + a] = p[a]
      /\ \A a \in DOMAIN z : a \in 1..Len(q) \/ (a > Len(q) /\ a - Len(q) \in 1..Len(p))
  BY <1>1, <1>2
<1> HIDE DEF z
<1>5. Elements(z) = Elements(q) \cup Elements(p)
  <2>1. ASSUME NEW a \in DOMAIN z PROVE z[a] \in Elements(q) \cup Elements(p)
    <3>1. CASE a \in 1..Len(q)
      BY <1>1, <1>4, <3>1 DEF Elements
    <3>2. CASE a - Len(q) \in 1..Len(p)
      <4>1. Len(q) + (a - Len(q)) = a
        BY <1>1, <1>4
      <4>2. z[a] = p[a - Len(q)]
        BY <1>4, <3>2, <4>1
      <4> QED
        BY <1>2, <3>2, <4>2 DEF Elements
    <3> QED
      BY <1>4, <3>1, <3>2
  <2>2. ASSUME NEW a \in DOMAIN q PROVE q[a] \in Elements(z)
    <3>1. a \in DOMAIN z /\ z[a] = q[a]
      BY <1>1, <1>2, <1>4
    <3> QED
      BY <3>1 DEF Elements
  <2>3. ASSUME NEW a \in DOMAIN p PROVE p[a] \in Elements(z)
    <3>1. Len(q) + a \in DOMAIN z /\ z[Len(q) + a] = p[a]
      BY <1>1, <1>2, <1>4
    <3> QED
      BY <3>1 DEF Elements
  <2> QED
    BY <2>1, <2>2, <2>3 DEF Elements
<1>6. Elements(z) = {i \in S : Rank(js[i]) <= n /\ ~Beaten(js, i)}
  <2>1. \A i \in S : Rank(js[i]) <= n <=> Rank(js[i]) <= n - 1 \/ Rank(js[i]) = n
    OBVIOUS
  <2> QED
    BY <1>1, <1>5, <2>1
<1>7. ASSUME NEW a \in DOMAIN z, NEW b \in DOMAIN z, a < b
      PROVE  z[a] # z[b] /\ Rank(js[z[a]]) <= Rank(js[z[b]])
  <2>1. CASE b \in 1..Len(q)
    <3>1. a \in 1..Len(q)
      BY <1>1, <1>4, <1>7, <2>1
    <3> QED
      BY <1>1, <1>4, <1>7, <2>1, <3>1
  <2>2. CASE b > Len(q) /\ b - Len(q) \in 1..Len(p)
    <3>1. Len(q) + (b - Len(q)) = b
      BY <1>1, <1>4
    <3>2. z[b] = p[b - Len(q)] /\ Rank(js[z[b]]) = n /\ z[b] \in S
      BY <1>2, <1>4, <2>2, <3>1
    <3>3. CASE a \in 1..Len(q)
      <4>1. Rank(js[z[a]]) \in 1..10 /\ Rank(js[z[a]]) <= n - 1
        BY <1>1, <1>3, <1>4, <3>3
      <4> QED
        BY <3>2, <4>1
    <3>4. CASE a > Len(q) /\ a - Len(q) \in 1..Len(p)
      <4>1. Len(q) + (a - Len(q)) = a /\ a - Len(q) < b - Len(q)
        BY <1>1, <1>4, <1>7
      <4>2. z[a] = p[a - Len(q)] /\ Rank(js[z[a]]) = n /\ z[a] \in S
        BY <1>2, <1>4, <3>4, <4>1
      <4>3. z[a] < z[b]
        BY <1>2, <2>2, <3>2, <3>4, <4>1, <4>2
      <4>4. z[a] \in Nat /\ z[b] \in Nat
        BY <3>2, <4>2
      <4> QED
        BY <3>2, <4>2, <4>3, <4>4
    <3> QED
      BY <1>4, <3>3, <3>4
  <2> QED
    BY <1>4, <2>1, <2>2
<1> QED
  BY <1>4, <1>6, <1>7 DEF KeptOf, z

LEMMA KeptShape ==
  ASSUME NEW m, NEW js \in Seq(JourneysOf(m))
  PROVE  KeptOf(js, Kept(js), 10)
<1> DEFINE S == DOMAIN js
           f == [r \in 1..10 |-> BestOf(js, r)]
           Good(n) == {q \in Seq(S) : KeptOf(js, q, n)}
           I == [n \in Nat |-> Good(n)]
<1>0. \A i \in S : i \in Nat /\ Rank(js[i]) \in 1..10
  <2>1. Len(js) \in Nat /\ S = 1..Len(js) /\ \A i \in 1..Len(js) : js[i] \in JourneysOf(m)
    OBVIOUS
  <2>2. \A i \in S : i \in Nat /\ js[i].kind \in Kind
    BY <2>1 DEF JourneysOf
  <2> QED
    BY <2>2, RankShape
<1>1. \A r \in 1..10 : /\ f[r] \in Seq(S)
                       /\ Elements(f[r]) = {i \in S : Rank(js[i]) = r /\ ~Beaten(js, i)}
                       /\ \A a, b \in DOMAIN f[r] : a < b => f[r][a] < f[r][b]
  BY BestOfShape
<1>2. f \in Seq(Seq(S)) /\ Len(f) = 10 /\ f # << >>
  <2>1. f = [r \in 1..10 |-> f[r]]
    OBVIOUS
  <2> HIDE DEF f, S
  <2>2. Len(f) = 10 /\ f \in Seq(Seq(S))
    BY <1>1, <2>1
  <2>3. Len(<< >>) = 0 /\ 0 # 10
    OBVIOUS
  <2> QED
    BY <2>2, <2>3, Zenon
<1>3. Kept(js) = FlattenSeq(f)
  BY KindNames DEF Kept
<1> HIDE DEF f
<1>4. I \in [Nat -> SUBSET Seq(S)]
  OBVIOUS
<1>5. << >> \in I[0]
  <2>1. {i \in S : Rank(js[i]) <= 0 /\ ~Beaten(js, i)} = {}
    BY <1>0
  <2>2. << >> \in Seq(S) /\ Elements(<< >>) = {} /\ DOMAIN << >> = {}
    BY DEF Elements
  <2>3. KeptOf(js, << >>, 0)
    BY <2>1, <2>2 DEF KeptOf
  <2> QED
    BY <2>2, <2>3
<1>6. ASSUME NEW n \in 1..10, NEW q \in I[n - 1]
      PROVE  q \o f[n] \in I[n]
  <2> DEFINE p == f[n]
  <2>1. n \in Nat /\ n - 1 \in Nat
    OBVIOUS
  <2>2. q \in Seq(S) /\ KeptOf(js, q, n - 1)
    BY <2>1
  <2>3. /\ p \in Seq(S) /\ Elements(p) = {i \in S : Rank(js[i]) = n /\ ~Beaten(js, i)}
        /\ \A a, b \in DOMAIN p : a < b => p[a] < p[b]
    BY <1>1
  <2> HIDE DEF p
  <2>4. KeptOf(js, q \o p, n)
    BY <1>0, <2>1, <2>2, <2>3, KeptJoined
  <2> QED
    BY <2>1, <2>2, <2>3, <2>4 DEF p
<1>7. FlattenSeq(f) \in I[Len(f)]
  <2> HIDE DEF I, S
  <2>1. \A n \in 1..Len(f) : \A q \in I[n - 1] : q \o f[n] \in I[n]
    BY <1>2, <1>6
  <2> QED
    BY <1>2, <1>4, <1>5, <2>1, FlattenInduction
<1> QED
  BY <1>2, <1>3, <1>7
(* In every slot there is a journey nothing beats: of those of the best    *)
(* rank the first.                                                         *)
LEMMA SlotHasBest ==
  ASSUME NEW js, DOMAIN js \subseteq Nat, NEW c \in DOMAIN js,
         \A i \in DOMAIN js : Rank(js[i]) \in 1..10
  PROVE  \E i \in DOMAIN js : /\ SameSlot(js[i], js[c]) /\ ~Beaten(js, i)
                             /\ Rank(js[i]) <= Rank(js[c])
<1> DEFINE W == {i \in DOMAIN js : SameSlot(js[i], js[c])}
           R == {Rank(js[i]) : i \in W}
<1>1. c \in W
  BY DEF SameSlot
<1>2. \E r \in R : \A q \in R : r <= q
  <2>1. R \in SUBSET Nat /\ R # {}
    BY <1>1
  <2> HIDE DEF R
  <2> QED
    BY <2>1, Least
<1>3. PICK r \in R : \A q \in R : r <= q
  BY <1>2
<1> DEFINE B == {i \in W : Rank(js[i]) = r}
<1>4. \E i \in B : \A k \in B : i <= k
  <2>1. B \in SUBSET Nat /\ B # {}
    BY <1>3
  <2> HIDE DEF B
  <2> QED
    BY <2>1, Least
<1>5. PICK i \in B : \A k \in B : i <= k
  BY <1>4
<1>6. i \in DOMAIN js /\ SameSlot(js[i], js[c]) /\ Rank(js[i]) = r
  BY <1>5
<1>7. r <= Rank(js[c])
  BY <1>1, <1>3
<1>8. ASSUME Beaten(js, i) PROVE FALSE
  <2>1. PICK k \in DOMAIN js :
          /\ SameSlot(js[k], js[i])
          /\ \/ Rank(js[k]) < Rank(js[i])
             \/ Rank(js[k]) = Rank(js[i]) /\ k < i
    BY <1>8, BeatenIs DEF Beats
  <2>2. SameSlot(js[k], js[c])
    BY <1>6, <2>1, Zenon DEF SameSlot
  <2>3. k \in W /\ Rank(js[k]) \in R
    BY <2>2
  <2>4. r <= Rank(js[k])
    BY <1>3, <2>3
  <2>5. Rank(js[k]) \in 1..10 /\ r \in 1..10 /\ k \in Nat /\ i \in Nat
    BY <1>6
  <2>6. Rank(js[k]) = r /\ k < i
    BY <1>6, <2>1, <2>4, <2>5
  <2>7. i <= k
    BY <1>5, <2>3, <2>6
  <2> QED
    BY <2>5, <2>6, <2>7
<1> QED
  BY <1>6, <1>7, <1>8

KeepsBest(js, d) ==
  /\ \A i, k \in DOMAIN d :
       /\ i # k /\ Terminal(d[i]) = Terminal(d[k]) =>
            "exercise" \in {d[i].kind, d[k].kind}
       /\ i < k => Rank(d[i]) <= Rank(d[k])
  /\ \A c \in ToSet(js) : \E j \in ToSet(d) :
       /\ Terminal(j) = Terminal(c) /\ Rank(j) <= Rank(c)
       /\ j.kind = "exercise" <=> c.kind = "exercise"

LEMMA DedupShape ==
  ASSUME NEW m, NEW js \in Seq(JourneysOf(m))
  PROVE  /\ DedupJourneys(js) \in Seq(JourneysOf(m))
         /\ KeepsBest(js, DedupJourneys(js))
         /\ \A k : IsFiniteSet(KindPlaces(js, k)) =>
              Cardinality(KindPlaces(DedupJourneys(js), k)) <= Cardinality(KindPlaces(js, k))
<1> DEFINE q == Kept(js)  d == DedupJourneys(js)
<1>1. /\ Len(js) \in Nat /\ DOMAIN js = 1..Len(js)
      /\ \A i \in DOMAIN js : i \in Nat /\ js[i] \in JourneysOf(m)
  OBVIOUS
<1>2. \A i \in DOMAIN js : Rank(js[i]) \in 1..10
  <2>1. \A i \in DOMAIN js : js[i].kind \in Kind
    BY <1>1 DEF JourneysOf
  <2> QED
    BY <2>1, RankShape
<1>3. /\ q \in Seq(DOMAIN js)
      /\ Elements(q) = {i \in DOMAIN js : Rank(js[i]) <= 10 /\ ~Beaten(js, i)}
      /\ \A a, b \in DOMAIN q : a < b => q[a] # q[b] /\ Rank(js[q[a]]) <= Rank(js[q[b]])
  BY KeptShape DEF KeptOf
<1> HIDE DEF q
<1>4. /\ Len(q) \in Nat /\ DOMAIN q = 1..Len(q)
      /\ \A a \in DOMAIN q : q[a] \in DOMAIN js /\ ~Beaten(js, q[a])
  BY <1>3 DEF Elements
<1>5. d = [a \in 1..Len(q) |-> js[q[a]]]
  BY <1>4, DedupIs DEF q
<1> HIDE DEF d
<1>6. d \in Seq(JourneysOf(m)) /\ DOMAIN d = DOMAIN q /\ \A a \in DOMAIN q : d[a] = js[q[a]]
  BY <1>1, <1>4, <1>5
<1>7. \A a, b \in DOMAIN q : a # b => q[a] # q[b]
  BY <1>3, <1>4
<1>8. ASSUME NEW a \in DOMAIN d, NEW b \in DOMAIN d, a # b, Terminal(d[a]) = Terminal(d[b]),
             d[a].kind # "exercise", d[b].kind # "exercise"
      PROVE  FALSE
  <2>1. SameSlot(js[q[a]], js[q[b]]) /\ SameSlot(js[q[b]], js[q[a]])
    BY <1>6, <1>8 DEF SameSlot
  <2>2. /\ q[a] # q[b] /\ q[a] \in DOMAIN js /\ q[b] \in DOMAIN js
        /\ ~Beaten(js, q[a]) /\ ~Beaten(js, q[b])
    BY <1>4, <1>6, <1>7, <1>8
  <2>3. /\ Rank(js[q[a]]) \in 1..10 /\ Rank(js[q[b]]) \in 1..10
        /\ q[a] \in Nat /\ q[b] \in Nat
    BY <1>1, <1>2, <2>2
  <2>4. ~(Rank(js[q[a]]) < Rank(js[q[b]])) /\ ~(Rank(js[q[b]]) < Rank(js[q[a]]))
    BY <2>1, <2>2, BeatenIs, Zenon DEF Beats
  <2>5. Rank(js[q[a]]) = Rank(js[q[b]])
    BY <2>3, <2>4
  <2>6. ~(q[a] < q[b]) /\ ~(q[b] < q[a])
    BY <2>1, <2>2, <2>5, BeatenIs, Zenon DEF Beats
  <2> QED
    BY <2>2, <2>3, <2>6
<1>9. ASSUME NEW c \in ToSet(js)
      PROVE  \E j \in ToSet(d) :
               /\ Terminal(j) = Terminal(c) /\ Rank(j) <= Rank(c)
               /\ j.kind = "exercise" <=> c.kind = "exercise"
  <2>1. PICK n \in DOMAIN js : c = js[n]
    BY DEF ToSet
  <2>2. DOMAIN js \subseteq Nat
    BY <1>1
  <2>3. PICK i \in DOMAIN js : /\ SameSlot(js[i], js[n]) /\ ~Beaten(js, i)
                              /\ Rank(js[i]) <= Rank(js[n])
    BY <1>2, <2>2, SlotHasBest
  <2>4. i \in Elements(q)
    <3>1. Rank(js[i]) <= 10
      BY <1>2
    <3> QED
      BY <1>3, <2>3, <3>1
  <2>5. PICK a \in DOMAIN q : q[a] = i
    BY <2>4 DEF Elements
  <2>6. js[i] \in ToSet(d)
    BY <1>6, <2>5 DEF ToSet
  <2> QED
    BY <2>1, <2>3, <2>6, Zenon DEF SameSlot
<1>10. KeepsBest(js, d)
  <2>1. ASSUME NEW a \in DOMAIN d, NEW b \in DOMAIN d
        PROVE  /\ a # b /\ Terminal(d[a]) = Terminal(d[b]) =>
                    "exercise" \in {d[a].kind, d[b].kind}
               /\ a < b => Rank(d[a]) <= Rank(d[b])
    <3>1. a < b => Rank(d[a]) <= Rank(d[b])
      BY <1>3, <1>6
    <3>2. a # b /\ Terminal(d[a]) = Terminal(d[b]) =>
            d[a].kind = "exercise" \/ d[b].kind = "exercise"
      BY <1>8, Zenon
    <3> QED
      BY <3>1, <3>2
  <2> QED
    BY <1>9, <2>1, Zenon DEF KeepsBest
<1>11. ASSUME NEW k, IsFiniteSet(KindPlaces(js, k))
       PROVE  Cardinality(KindPlaces(d, k)) <= Cardinality(KindPlaces(js, k))
  <2> DEFINE A == KindPlaces(d, k)  B == KindPlaces(js, k)  g == [a \in A |-> q[a]]
  <2>1. \A a \in A : a \in DOMAIN q /\ q[a] \in B
    BY <1>4, <1>6 DEF KindPlaces
  <2>2. g \in Injection(A, B)
    <3>1. g \in [A -> B] /\ \A a, b \in A : a # b => g[a] # g[b]
      BY <1>7, <2>1
    <3> HIDE DEF g, A, B
    <3> QED
      BY <3>1 DEF Injection, IsInjective
  <2> HIDE DEF g, A, B
  <2>3. IsFiniteSet(B)
    BY <1>11 DEF B
  <2>4. Cardinality(A) <= Cardinality(B)
    BY <2>2, <2>3, FS_Injection
  <2> QED
    BY <2>4 DEF A, B
<1> QED
  BY <1>6, <1>10, <1>11 DEF d
-----------------------------------------------------------------------------
(* The journeys of a probe: their cap survives deduplication, which keeps  *)
(* at most one journey of each candidate, and the prompt, which drops some.*)
JourneysInv ==
  /\ site \in Sites /\ cap \in Caps
  /\ journeys \in Seq(JourneysOf(site))
  /\ \A k \in Kind : Cardinality(KindPlaces(journeys, k)) <= cap
  /\ stage = "filter" => KeepsBest(Candidates(site, cap), journeys)

LEMMA CapIsNat == \A c \in Caps : c \in Nat /\ c >= 1
BY SitesAssumption

LEMMA PlacesFinite ==
  ASSUME NEW S, NEW q \in Seq(S), NEW k
  PROVE  IsFiniteSet(KindPlaces(q, k)) /\ Cardinality(KindPlaces(q, k)) \in Nat
<1>1. IsFiniteSet(1..Len(q)) /\ KindPlaces(q, k) \in SUBSET (1..Len(q))
  BY FS_Interval DEF KindPlaces
<1> QED
  BY <1>1, FS_Subset, FS_CardinalityType

LEMMA Identified ==
  ASSUME JourneysInv, Identify
  PROVE  JourneysInv'
<1> DEFINE S == JourneysOf(site)  c == Candidates(site, cap)  d == DedupJourneys(c)
<1>1. /\ site' = site /\ cap' = cap /\ journeys' = d /\ site \in Sites /\ cap \in Caps
  BY DEF Identify, IdentifyJourneys, JourneysInv
<1>2. cap \in Nat
  BY <1>1, CapIsNat
<1>3. /\ c \in Seq(S)
      /\ \A k \in Kind : IsFiniteSet(KindPlaces(c, k)) /\ Cardinality(KindPlaces(c, k)) <= cap
  BY <1>1, <1>2, CandidatesShape
<1> HIDE DEF c
<1>4. /\ d \in Seq(S) /\ KeepsBest(c, d)
      /\ \A k : IsFiniteSet(KindPlaces(c, k)) =>
           Cardinality(KindPlaces(d, k)) <= Cardinality(KindPlaces(c, k))
  BY <1>3, DedupShape
<1> HIDE DEF d
<1>5. ASSUME NEW k \in Kind PROVE Cardinality(KindPlaces(d, k)) <= cap
  <2>1. Cardinality(KindPlaces(d, k)) \in Nat /\ Cardinality(KindPlaces(c, k)) \in Nat
    BY <1>3, <1>4, PlacesFinite
  <2>2. Cardinality(KindPlaces(d, k)) <= Cardinality(KindPlaces(c, k))
    BY <1>3, <1>4
  <2> QED
    BY <1>2, <1>3, <2>1, <2>2
<1>6. KeepsBest(Candidates(site, cap)', journeys')
  <2>1. Candidates(site, cap)' = c
    BY <1>1 DEF c
  <2> QED
    BY <1>1, <1>4, <2>1
<1> QED
  BY <1>1, <1>4, <1>5, <1>6 DEF JourneysInv

LEMMA Narrowed ==
  ASSUME JourneysInv, Narrow
  PROVE  JourneysInv'
<1> DEFINE S == JourneysOf(site)
<1>1. /\ site' = site /\ cap' = cap /\ stage' = "items" /\ site \in Sites /\ cap \in Caps
      /\ journeys \in Seq(S) /\ \A k \in Kind : Cardinality(KindPlaces(journeys, k)) <= cap
  BY DEF Narrow, JourneysInv
<1>2. cap \in Nat
  BY <1>1, CapIsNat
<1>3. \E T : journeys' = Only(journeys, T) \/ journeys' = journeys
  <2>1. PICK p \in Prompts :
          LET named == Only(journeys, {j \in ToSet(journeys) : Names(p, j)})
          IN journeys' = IF named = << >> THEN journeys ELSE named
    BY DEF Narrow
  <2> QED
    BY <2>1
<1>4. PICK T : journeys' = Only(journeys, T) \/ journeys' = journeys
  BY <1>3
<1>5. journeys' \in Seq(S)
  <2> HIDE DEF S
  <2> QED
    BY <1>1, <1>4, OnlyElements
<1>6. ASSUME NEW k \in Kind, journeys' = Only(journeys, T)
      PROVE  Cardinality(KindPlaces(journeys', k)) <= cap
  <2> DEFINE U == {j \in S : j.kind = k}
  <2>1. Cardinality(Places(Only(journeys, T), U)) <= Cardinality(Places(journeys, T \cap U))
    <3> HIDE DEF U, S
    <3> QED
      BY <1>1, OnlyCounts
  <2>2. KindPlaces(journeys', k) = Places(journeys', U)
    BY <1>5 DEF KindPlaces, Places
  <2>3. Places(journeys, T \cap U) \in SUBSET KindPlaces(journeys, k)
    BY <1>1 DEF KindPlaces, Places
  <2> HIDE DEF U, S
  <2>4. /\ Cardinality(KindPlaces(journeys', k)) \in Nat
        /\ IsFiniteSet(KindPlaces(journeys, k)) /\ Cardinality(KindPlaces(journeys, k)) \in Nat
    BY <1>1, <1>5, PlacesFinite
  <2>5. /\ Cardinality(Places(journeys, T \cap U)) <= Cardinality(KindPlaces(journeys, k))
        /\ Cardinality(Places(journeys, T \cap U)) \in Nat
    BY <2>3, <2>4, FS_Subset, FS_CardinalityType
  <2>6. Cardinality(KindPlaces(journeys, k)) <= cap
    BY <1>1
  <2>7. Cardinality(KindPlaces(journeys', k)) <= Cardinality(Places(journeys, T \cap U))
    BY <1>6, <2>1, <2>2
  <2> QED
    BY <1>2, <2>4, <2>5, <2>6, <2>7
<1>7. \A k \in Kind : Cardinality(KindPlaces(journeys', k)) <= cap
  BY <1>1, <1>4, <1>6
<1> QED
  BY <1>1, <1>5, <1>7 DEF JourneysInv

LEMMA JourneysStep ==
  JourneysInv /\ [JourneysNext]_journeysVars => JourneysInv'
<1> SUFFICES ASSUME JourneysInv, [JourneysNext]_journeysVars PROVE JourneysInv'
  OBVIOUS
<1>1. CASE Identify
  BY <1>1, Identified
<1>2. CASE Narrow
  BY <1>2, Narrowed
<1>3. CASE BuildItem \/ UNCHANGED journeysVars
  <2>1. UNCHANGED <<site, cap, stage, journeys>>
    BY <1>3 DEF BuildItem, journeysVars
  <2>2. Candidates(site, cap)' = Candidates(site, cap)
    BY <2>1
  <2> QED
    BY <2>1, <2>2 DEF JourneysInv
<1> QED
  BY <1>1, <1>2, <1>3 DEF JourneysNext

LEMMA StartOfJourneys == JourneysInit => JourneysInv
<1> SUFFICES ASSUME JourneysInit PROVE JourneysInv
  OBVIOUS
<1>1. site \in Sites /\ cap \in Caps /\ stage = "identify" /\ journeys = << >>
  BY DEF JourneysInit
<1>2. \A k : KindPlaces(journeys, k) = {}
  BY <1>1 DEF KindPlaces
<1>3. \A k : Cardinality(KindPlaces(journeys, k)) = 0
  BY <1>2, FS_EmptySet
<1>4. 0 <= cap
  BY <1>1, CapIsNat
<1> QED
  BY <1>1, <1>3, <1>4 DEF JourneysInv

LEMMA JourneysAlways == JourneysSpec => []JourneysInv
BY StartOfJourneys, JourneysStep, PTL DEF JourneysSpec

(* journey.go:89-90, for any site, cap and prompts: however many searches  *)
(* feed a kind, no more than the cap of its journeys are there.            *)
THEOREM KindsAreCapped == JourneysSpec => []CapPerKind
<1>1. JourneysInv => CapPerKind
  BY DEF JourneysInv, CapPerKind, KindPlaces, Kind
<1> QED
  BY <1>1, JourneysAlways, PTL

(* journey.go:90-92, for any site and cap: no two journeys but an exercise *)
(* end at one page, and every page a finder reached keeps its best one.    *)
THEOREM BestKindsStay == JourneysSpec => []BestKindKeepsPage
<1>1. JourneysInv => BestKindKeepsPage
  BY Zenon DEF JourneysInv, BestKindKeepsPage, KeepsBest
<1> QED
  BY <1>1, JourneysAlways, PTL
-----------------------------------------------------------------------------
(* The anchors under the symbols.  Compacting moves nothing that stands    *)
(* before the first submit button, so what an older symbol sees stays.     *)
Clean(array, n) == n <= Len(array) /\ \A i \in 1..n : array[i] # "submit"

LEMMA CompactShape ==
  ASSUME NEW array \in Seq(Anchor)
  PROVE  /\ Compact(array) \in Seq(Anchor)
         /\ Len(Fields(array)) \in Nat /\ Clean(Compact(array), Len(Fields(array)))
         /\ \A n \in Nat : Clean(array, n) => Clean(Compact(array), n)
<1> DEFINE T == Anchor \ {"submit"}  f == Only(array, T)
           rest == SubSeq(array, Len(f) + 1, Len(array))  c == f \o rest
<1>1. Fields(array) = f /\ Compact(array) = c
  BY DEF Compact, Fields
<1>2. Len(array) \in Nat /\ \A i \in 1..Len(array) : array[i] \in Anchor
  OBVIOUS
<1>3. ASSUME NEW L \in 0..Len(array), \A i \in 1..L : array[i] \in T
      PROVE  L <= Len(f) /\ Len(f) <= Len(array) /\ \A i \in 1..L : f[i] = array[i]
  <2> HIDE DEF T
  <2> QED
    BY <1>3, OnlyPrefix
<1>4. f \in Seq(Anchor) /\ Elements(f) \subseteq T
  <2> HIDE DEF T
  <2> QED
    BY OnlyElements
<1>5. Len(f) <= Len(array)
  <2>1. 0 \in 0..Len(array) /\ \A i \in 1..0 : array[i] \in T
    BY <1>2
  <2> QED
    BY <1>3, <2>1
<1> HIDE DEF f
<1>6. /\ Len(f) \in Nat /\ DOMAIN f = 1..Len(f)
      /\ \A i \in 1..Len(f) : f[i] # "submit"
  BY <1>4 DEF Elements
<1>7. rest \in Seq(Anchor) /\ Len(rest) = Len(array) - Len(f)
  <2>1. Len(f) + 1 \in Int /\ Len(array) \in Int /\ \A i \in Len(f) + 1..Len(array) : array[i] \in Anchor
    BY <1>2, <1>6
  <2>2. /\ rest \in Seq(Anchor)
        /\ Len(rest) = IF Len(f) + 1 <= Len(array) THEN Len(array) - (Len(f) + 1) + 1 ELSE 0
    BY <2>1, SubSeqProperties
  <2> HIDE DEF rest
  <2> QED
    BY <1>2, <1>5, <1>6, <2>2
<1> HIDE DEF rest
<1>8. /\ c \in Seq(Anchor) /\ Len(c) = Len(array) /\ \A i \in 1..Len(f) : c[i] = f[i]
  BY <1>2, <1>4, <1>6, <1>7
<1> HIDE DEF c
<1>9. Clean(c, Len(f))
  BY <1>5, <1>6, <1>8 DEF Clean
<1>10. ASSUME NEW n \in Nat, Clean(array, n) PROVE Clean(c, n)
  <2>1. n \in 0..Len(array) /\ \A i \in 1..n : array[i] \in T
    BY <1>2, <1>10 DEF Clean
  <2>2. n <= Len(f)
    BY <1>3, <2>1
  <2> QED
    BY <1>2, <1>5, <1>6, <1>8, <2>1, <2>2 DEF Clean
<1> QED
  BY <1>1, <1>6, <1>8, <1>9, <1>10

(* No submit button shows on the first page of an item that exercises no   *)
(* form, in the array as it is at any later time.                          *)
SymbolOf(m) == [page : DOMAIN m.page, len : Nat]
ItemsOf(m) == [kind : Kind, symbols : Seq(SymbolOf(m)) \ {<< >>}]

ItemsInv ==
  /\ JourneysInv
  /\ cells \in [DOMAIN site.page -> Seq(Anchor)]
  /\ items \in Seq(ItemsOf(site))
  /\ \A i \in DOMAIN items : ~ExercisesForm(items[i]) =>
       Clean(cells[items[i].symbols[1].page], items[i].symbols[1].len)

LEMMA ItemShape ==
  ASSUME ItemsInv, NEW j \in JourneysOf(site)
  PROVE  LET s == Item(j).symbols[1]  p == j.steps[1] IN
         /\ Item(j) \in ItemsOf(site) /\ p \in DOMAIN site.page /\ Head(j.steps) = p
         /\ s.page = p /\ (ExercisesForm(Item(j)) <=> ExercisesForm(j))
         /\ ~ExercisesForm(j) => s.len = Len(Fields(cells[p]))
<1> DEFINE P == DOMAIN site.page  n == Len(j.steps)
           symbols == [i \in DOMAIN j.steps |->
                         Symbol(j.steps[i], i = 1 /\ ~ExercisesForm(j))]
<1>1. /\ j.kind \in Kind /\ j.steps \in Seq(P) /\ j.steps # << >>
      /\ cells \in [P -> Seq(Anchor)]
  BY DEF JourneysOf, ItemsInv
<1> HIDE DEF P
<1>2. /\ n \in Nat /\ 1 \in 1..n /\ DOMAIN j.steps = 1..n
      /\ Head(j.steps) = j.steps[1] /\ \A i \in 1..n : j.steps[i] \in P
  BY <1>1
<1>3. \A u \in P, b \in BOOLEAN : Symbol(u, b) \in [page : P, len : Nat]
  <2> TAKE u \in P, b \in BOOLEAN
  <2>1. cells[u] \in Seq(Anchor)
    BY <1>1
  <2>2. Len(cells[u]) \in Nat /\ Len(Fields(cells[u])) \in Nat
    BY <2>1, CompactShape
  <2> QED
    BY <2>2 DEF Symbol, Length
<1>4. \A i \in 1..n : symbols[i] \in [page : P, len : Nat]
  <2> TAKE i \in 1..n
  <2>1. (i = 1 /\ ~ExercisesForm(j)) \in BOOLEAN
    BY Zenon DEF ExercisesForm
  <2> DEFINE b == i = 1 /\ ~ExercisesForm(j)
  <2>2. b \in BOOLEAN /\ j.steps[i] \in P
    BY <1>2, <2>1
  <2>3. symbols[i] = Symbol(j.steps[i], b)
    BY <1>2
  <2> HIDE DEF b
  <2> QED
    BY <1>3, <2>2, <2>3
<1>5. symbols = [i \in 1..n |-> symbols[i]]
  BY <1>2
<1>6. symbols[1] = Symbol(j.steps[1], ~ExercisesForm(j))
  BY <1>2
<1>7. Item(j) = [kind |-> j.kind, symbols |-> symbols]
  BY Zenon DEF Item
<1> HIDE DEF symbols
<1>8. symbols \in Seq([page : P, len : Nat]) /\ symbols # << >>
  <2> DEFINE R == [page : P, len : Nat]
  <2>1. \A i \in 1..n : symbols[i] \in R
    BY <1>4
  <2> HIDE DEF R, n
  <2>2. symbols \in Seq(R) /\ DOMAIN symbols = 1..n
    BY <1>2, <1>5, <2>1
  <2>3. symbols # << >>
    BY <1>2, <2>2
  <2> QED
    BY <2>2, <2>3 DEF R
<1>9. Item(j).symbols = symbols /\ Item(j).kind = j.kind
  BY <1>7
<1>10. Item(j) \in ItemsOf(site)
  BY <1>1, <1>7, <1>8 DEF ItemsOf, SymbolOf, P
<1>11. /\ symbols[1].page = j.steps[1]
       /\ ~ExercisesForm(j) => symbols[1].len = Len(Fields(cells[j.steps[1]]))
  BY <1>6 DEF Symbol, Length
<1>12. ExercisesForm(Item(j)) <=> ExercisesForm(j)
  BY <1>9 DEF ExercisesForm
<1> QED
  BY <1>2, <1>9, <1>10, <1>11, <1>12 DEF P

LEMMA ItemBuilt ==
  ASSUME ItemsInv, JourneysInv', BuildItem
  PROVE  ItemsInv'
<1> DEFINE j == journeys[Len(items) + 1]  it == Item(j)  p == j.steps[1]
<1>1. /\ items \in Seq(ItemsOf(site)) /\ cells \in [DOMAIN site.page -> Seq(Anchor)]
      /\ journeys \in Seq(JourneysOf(site))
  BY DEF ItemsInv, JourneysInv
<1>2. /\ Len(items) < Len(journeys) /\ items' = Append(items, it) /\ site' = site
      /\ cells' = IF ExercisesForm(j) THEN cells
                  ELSE [cells EXCEPT ![Head(j.steps)] = Compact(cells[Head(j.steps)])]
  BY Zenon DEF BuildItem
<1>3. j \in JourneysOf(site)
  <2>1. Len(items) + 1 \in 1..Len(journeys)
    BY <1>1, <1>2
  <2> QED
    BY <1>1, <2>1
<1> HIDE DEF j
<1>4. /\ it \in ItemsOf(site) /\ p \in DOMAIN site.page /\ Head(j.steps) = p
      /\ it.symbols[1].page = p /\ (ExercisesForm(it) <=> ExercisesForm(j))
      /\ ~ExercisesForm(j) => it.symbols[1].len = Len(Fields(cells[p]))
  BY <1>3, ItemShape
<1> HIDE DEF it, p
<1>5. /\ items' \in Seq(ItemsOf(site)) /\ DOMAIN items' = 1..Len(items) + 1
      /\ DOMAIN items = 1..Len(items) /\ Len(items) \in Nat
      /\ \A i \in 1..Len(items) : items'[i] = items[i]
      /\ items'[Len(items) + 1] = it
  BY <1>1, <1>2, <1>4
<1>6. /\ Compact(cells[p]) \in Seq(Anchor)
      /\ Len(Fields(cells[p])) \in Nat /\ Clean(Compact(cells[p]), Len(Fields(cells[p])))
      /\ \A n \in Nat : Clean(cells[p], n) => Clean(Compact(cells[p]), n)
  <2>1. cells[p] \in Seq(Anchor)
    BY <1>1, <1>4
  <2> QED
    BY <2>1, CompactShape
<1>7. cells' \in [DOMAIN site.page -> Seq(Anchor)]
  BY <1>1, <1>2, <1>4, <1>6
<1>8. \A u \in DOMAIN site.page, n \in Nat : Clean(cells[u], n) => Clean(cells'[u], n)
  BY <1>1, <1>2, <1>4, <1>6
<1>9. ~ExercisesForm(j) => Clean(cells'[p], it.symbols[1].len)
  BY <1>1, <1>2, <1>4, <1>6
<1>10. ASSUME NEW i \in DOMAIN items', ~ExercisesForm(items'[i])
       PROVE  Clean(cells'[items'[i].symbols[1].page], items'[i].symbols[1].len)
  <2>1. CASE i = Len(items) + 1
    BY <1>4, <1>5, <1>9, <1>10, <2>1
  <2>2. CASE i \in 1..Len(items)
    <3>1. items'[i] = items[i] /\ i \in DOMAIN items /\ items[i] \in ItemsOf(site)
      BY <1>1, <1>5, <2>2
    <3> DEFINE s == items[i].symbols[1]
    <3>2. s \in SymbolOf(site)
      <4>1. items[i].symbols \in Seq(SymbolOf(site)) /\ items[i].symbols # << >>
        BY <3>1 DEF ItemsOf
      <4> QED
        BY <4>1
    <3>3. ~ExercisesForm(items[i])
      BY <1>10, <3>1
    <3>4. Clean(cells[s.page], s.len)
      BY <3>1, <3>3 DEF ItemsInv
    <3>5. s.page \in DOMAIN site.page /\ s.len \in Nat
      BY <3>2 DEF SymbolOf
    <3> HIDE DEF s
    <3>6. Clean(cells'[s.page], s.len)
      BY <1>8, <3>4, <3>5
    <3> QED
      BY <3>1, <3>6 DEF s
  <2> QED
    BY <1>5, <2>1, <2>2
<1>11. \A i \in DOMAIN items' : ~ExercisesForm(items'[i]) =>
         Clean(cells'[items'[i].symbols[1].page], items'[i].symbols[1].len)
  BY <1>10
<1> QED
  BY <1>2, <1>5, <1>7, <1>11 DEF ItemsInv
LEMMA ItemsStep ==
  ItemsInv /\ [JourneysNext]_journeysVars => ItemsInv'
<1> SUFFICES ASSUME ItemsInv, [JourneysNext]_journeysVars PROVE ItemsInv'
  OBVIOUS
<1>1. JourneysInv'
  BY JourneysStep DEF ItemsInv
<1>2. CASE BuildItem
  BY <1>1, <1>2, ItemBuilt
<1>3. CASE Identify \/ Narrow \/ UNCHANGED journeysVars
  <2>1. UNCHANGED <<site, cells, items>>
    BY <1>3 DEF Identify, Narrow, journeysVars
  <2> QED
    BY <1>1, <2>1 DEF ItemsInv, ExercisesForm
<1> QED
  BY <1>2, <1>3 DEF JourneysNext

(* probe.go:1891-1892, for any site, cap and prompts: no item but of the   *)
(* form kinds ever shows a submit button on its first page, although later *)
(* items compact the array it looks at.                                    *)
THEOREM NoFormOnTheWay == JourneysSpec => []NavigationNeverSubmits
<1>1. JourneysInit => ItemsInv
  <2> SUFFICES ASSUME JourneysInit PROVE ItemsInv
    OBVIOUS
  <2>1. /\ site \in Sites /\ items = << >>
        /\ cells = [u \in DOMAIN site.page |-> site.page[u].anchors]
    BY DEF JourneysInit
  <2>2. JourneysInv
    BY StartOfJourneys
  <2>3. \A u \in DOMAIN site.page : site.page[u].anchors \in Seq(Anchor)
    BY <2>1, SiteType
  <2> QED
    BY <2>1, <2>2, <2>3 DEF ItemsInv
<1>2. ItemsInv => NavigationNeverSubmits
  <2> SUFFICES ASSUME ItemsInv, NEW i \in DOMAIN items, ~ExercisesForm(items[i])
               PROVE  "submit" \notin ToSet(AnchorsOf(Head(items[i].symbols)))
    BY Zenon DEF NavigationNeverSubmits
  <2> DEFINE s == items[i].symbols[1]  a == cells[s.page]
  <2>1. s \in SymbolOf(site) /\ Head(items[i].symbols) = s
    <3>1. items[i] \in ItemsOf(site)
      BY DEF ItemsInv
    <3>2. items[i].symbols \in Seq(SymbolOf(site)) /\ items[i].symbols # << >>
      BY <3>1 DEF ItemsOf
    <3> QED
      BY <3>2
  <2>2. Clean(a, s.len)
    BY DEF ItemsInv
  <2>3. s.len \in Nat /\ a \in Seq(Anchor)
    BY <2>1 DEF SymbolOf, ItemsInv
  <2>4. AnchorsOf(s) = SubSeq(a, 1, s.len)
    BY DEF AnchorsOf
  <2> HIDE DEF a, s
  <2>5. \A k \in 1..s.len : a[k] \in Anchor /\ a[k] # "submit"
    BY <2>2, <2>3 DEF Clean
  <2>6. /\ SubSeq(a, 1, s.len) \in Seq(Anchor)
        /\ Len(SubSeq(a, 1, s.len)) = IF 1 <= s.len THEN s.len - 1 + 1 ELSE 0
        /\ \A k \in 1..s.len - 1 + 1 : SubSeq(a, 1, s.len)[k] = a[1 + k - 1]
    BY <2>3, <2>5, SubSeqProperties
  <2> DEFINE q == SubSeq(a, 1, s.len)
  <2>7. DOMAIN q = 1..s.len /\ \A k \in 1..s.len : q[k] = a[k]
    <3>1. \A k \in 1..s.len : k \in 1..s.len - 1 + 1 /\ 1 + k - 1 = k
      BY <2>3
    <3> QED
      BY <2>3, <2>6, <3>1
  <2> HIDE DEF q
  <2>8. "submit" \notin ToSet(q)
    BY <2>5, <2>7 DEF ToSet
  <2> QED
    BY <2>1, <2>4, <2>8 DEF q
<1> QED
  BY <1>1, <1>2, ItemsStep, PTL DEF JourneysSpec
=============================================================================
