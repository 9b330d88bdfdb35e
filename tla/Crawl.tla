------------------------------- MODULE Crawl -------------------------------
(***************************************************************************)
(* mindmap.Crawl: a bounded breadth-first walk of one site.  Each pass of  *)
(* the loop takes the head of the queue; a fetch may fail, may be          *)
(* redirected to another URL, or may serve the page.                       *)
(*                                                                         *)
(* URLs are canonical (SiteURLs!CanonicalURL); what a page links to is the *)
(* sequence SiteURLs!FollowedLinks computes, and the parameters give both  *)
(* as functions.                                                           *)
(***************************************************************************)
EXTENDS Filtering

CONSTANTS
  Url,        \* canonical URLs
  Start,      \* the URL the crawl is given
  Served,     \* Served[u]: the URL the fetch of u ends at, after redirects
  Links,      \* Links[u]: same-origin URLs page u links to, in order
  Permitted,  \* URLs robots.txt permits, when it can be read
  SeedLists,  \* sequences of URLs discoverSitemapURLs may return
  MaxPages, MaxDepth

ASSUME SiteAssumption ==
  /\ Start \in Url /\ Permitted \subseteq Url
  /\ Served \in [Url -> Url]
  /\ Links \in [Url -> Seq(Url)]
  /\ \A s \in SeedLists : s \in Seq(Url)

(* withDefaults replaces a bound of zero or less.                          *)
ASSUME BoundsAssumption == MaxPages \in Nat \ {0} /\ MaxDepth \in Nat \ {0}

VARIABLES
  phase,    \* "robots", "sitemap", "walk" or "done"
  loaded,   \* robots.txt was read and its rules apply
  queue,    \* URLs to visit with their depth
  pages,    \* keys of Map.Pages
  order,    \* Map.Order
  errs,     \* URLs whose fetch returned an error
  (* history *)
  depthOf,  \* depth at which each page was recorded
  asked     \* queue entries whose URL was fetched

vars == <<phase, loaded, queue, pages, order, errs, depthOf, asked>>

At(u, d) == [url |-> u, depth |-> d]

EntriesAt(urls, d) == [i \in DOMAIN urls |-> At(urls[i], d)]

Allowed(u) == loaded => u \in Permitted
AllowedURLs == {u \in Url : Allowed(u)}

Init ==
  /\ phase = "robots"
  /\ loaded = FALSE
  /\ queue = << >> /\ pages = {} /\ order = << >> /\ errs = {}
  /\ depthOf = [u \in Url |-> 0] /\ asked = {}

(* IgnoreRobots, a failed fetch and an empty body all leave no rules.      *)
LoadRobots ==
  /\ phase = "robots"
  /\ loaded' \in BOOLEAN
  /\ phase' = "sitemap"
  /\ UNCHANGED <<queue, pages, order, errs, depthOf, asked>>

(* The start URL enters the queue unchecked, sitemap URLs if permitted.    *)
Seed ==
  /\ phase = "sitemap"
  /\ \E s \in SeedLists :
       queue' = <<At(Start, 0)>> \o EntriesAt(Only(s, AllowedURLs), 1)
  /\ phase' = "walk"
  /\ UNCHANGED <<loaded, pages, order, errs, depthOf, asked>>

\* Mutant: the walk stops one page late.
WalkingByOne == phase = "walk" /\ queue # << >> /\ Len(order) <= MaxPages

(* The loop condition.                                                     *)
Walking == phase = "walk" /\ queue # << >> /\ Len(order) < MaxPages

SkipSeen ==
  /\ Walking
  /\ Head(queue).url \in pages
  /\ queue' = Tail(queue)
  /\ UNCHANGED <<phase, loaded, pages, order, errs, depthOf, asked>>

\* Mutant: a failed URL goes back into the queue.
FetchFailsRetried ==
  /\ Walking
  /\ Head(queue).url \notin pages
  /\ queue' = Append(Tail(queue), Head(queue))
  /\ asked' = asked \cup {Head(queue)}
  /\ errs' = errs \cup {Head(queue).url}
  /\ UNCHANGED <<phase, loaded, pages, order, depthOf>>

FetchFails ==
  /\ Walking
  /\ Head(queue).url \notin pages
  /\ queue' = Tail(queue)
  /\ asked' = asked \cup {Head(queue)}
  /\ errs' = errs \cup {Head(queue).url}
  /\ UNCHANGED <<phase, loaded, pages, order, depthOf>>

(* Redirected to a page that is already in the map.                        *)
FetchSeen ==
  /\ Walking
  /\ Head(queue).url \notin pages
  /\ Served[Head(queue).url] \in pages
  /\ queue' = Tail(queue)
  /\ asked' = asked \cup {Head(queue)}
  /\ UNCHANGED <<phase, loaded, pages, order, errs, depthOf>>

\* Mutant: pages one level above the bound are not expanded.
NewLinksShallow(u, d) ==
  IF d + 1 >= MaxDepth THEN << >>
  ELSE EntriesAt(Only(Links[u], AllowedURLs \ (pages \cup {u})), d + 1)

(* What a recorded page adds to the queue; none when it is at MaxDepth.    *)
NewLinks(u, d) ==
  IF d >= MaxDepth THEN << >>
  ELSE EntriesAt(Only(Links[u], AllowedURLs \ (pages \cup {u})), d + 1)

\* Mutant: new links go before the older ones, a depth-first walk.
EnqueueFirst(rest, new) == new \o rest

Enqueue(rest, new) == rest \o new

\* Mutant: the final URL of a redirect is not looked up.
IsNewUnchecked(u) == u \in Url

IsNew(u) == u \notin pages

Record ==
  /\ Walking
  /\ Head(queue).url \notin pages
  /\ LET u == Served[Head(queue).url]
         d == Head(queue).depth
     IN /\ IsNew(u)
        /\ pages' = pages \cup {u}
        /\ order' = Append(order, u)
        /\ depthOf' = [depthOf EXCEPT ![u] = d]
        /\ queue' = Enqueue(Tail(queue), NewLinks(u, d))
  /\ asked' = asked \cup {Head(queue)}
  /\ UNCHANGED <<phase, loaded, errs>>

Finish ==
  /\ phase = "walk"
  /\ ~Walking
  /\ phase' = "done"
  /\ UNCHANGED <<loaded, queue, pages, order, errs, depthOf, asked>>

Next == LoadRobots \/ Seed \/ SkipSeen \/ FetchFails \/ FetchSeen \/ Record \/ Finish

Spec == Init /\ [][Next]_vars

(* Crawl is one goroutine and every fetch has a client timeout.            *)
FairSpec == Spec /\ WF_vars(Next)

-----------------------------------------------------------------------------
(* mindmap.go:73,127,138-144: Order lists every page of the map exactly    *)
(* once and never more than MaxPages of them, although several queue       *)
(* entries may lead to one page directly or through redirects.             *)
OrderListsPages ==
  /\ pages = {order[i] : i \in DOMAIN order}
  /\ \A i, j \in DOMAIN order : order[i] = order[j] => i = j

PageBudget == Len(order) <= MaxPages

(* mindmap.go:116-161: the walk is breadth first.  Pages are recorded by   *)
(* increasing depth and none deeper than MaxDepth, sitemap seeds and       *)
(* redirects notwithstanding.                                              *)
BreadthFirst ==
  /\ \A i, j \in DOMAIN order : i < j => depthOf[order[i]] <= depthOf[order[j]]
  /\ \A p \in pages : depthOf[p] <= MaxDepth

(* mindmap.go:105-111,121,156: with robots.txt loaded, no URL but the      *)
(* start is requested that it disallows; and no permitted link of an       *)
(* expanded page is lost: its target is a page no deeper than one level    *)
(* below, or still queued, or has been fetched (and failed or was          *)
(* redirected).                                                            *)
PermittedLinksAsked ==
  /\ \A e \in asked : e.url = Start \/ Allowed(e.url)
  /\ \A p \in pages : depthOf[p] < MaxDepth =>
    \A i \in DOMAIN Links[p] :
      LET l == Links[p][i] IN
        \/ ~Allowed(l)
        \/ l \in pages /\ depthOf[l] <= depthOf[p] + 1
        \/ \E e \in asked \cup {queue[j] : j \in DOMAIN queue} :
             e.url = l /\ e.depth <= depthOf[p] + 1

(* The walk ends on every site: failed fetches and duplicates included.    *)
Terminates == <>(phase = "done")
=============================================================================
