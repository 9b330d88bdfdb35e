------------------------------ MODULE SiteURLs ------------------------------
(***************************************************************************)
(* How the crawler reads a site: which canonical URL a link leads to,      *)
(* which paths robots.txt permits, and which URLs a sitemap seeds.  Pure   *)
(* operators; the Crawl machine takes their results as constants.          *)
(*                                                                         *)
(* A URL is its host, its path as segments, and whether the path ends in a *)
(* slash.  Scheme, query and fragment never tell two pages apart here: the *)
(* code drops query and fragment, and every URL below is http(s).          *)
(***************************************************************************)
EXTENDS Naturals, Sequences, SequencesExt

CONSTANTS
  Avoided,       \* segments isAvoidedPath matches: privacy, terms, sitemap, ...
  SitemapFiles,  \* URLs that end in .xml
  MaxNested,     \* nested sitemaps followed (3 in the code)
  MaxSeeds       \* sitemap URLs kept (200 in the code)

URL(h, p, s) == [host |-> h, path |-> p, slash |-> s]

(* The form of a URL that keys Map.Pages: no trailing slash.               *)
CanonicalURL(u) == [u EXCEPT !.slash = FALSE]

(* RFC 3986 merge: a relative reference replaces what follows the last     *)
(* slash of the base path.                                                 *)
Directory(base) ==
  IF base.slash \/ base.path = << >> THEN base.path ELSE Front(base.path)

(* An href is what the anchor says: a fragment, mailto: or script link     *)
(* ("none"), a leading-slash path ("root"), a relative path ("rel") or an  *)
(* absolute URL ("full").  The link keeps only a path on the page's host.  *)
ResolveLinkHref(base, href) ==
  CASE href.kind = "root" -> {URL(base.host, href.path, href.slash)}
    [] href.kind = "rel"  ->
         {URL(base.host, Directory(base) \o href.path, href.slash)}
    [] href.kind = "full" /\ href.host = base.host ->
         {URL(base.host, href.path, href.slash)}
    [] OTHER -> {}

IsAvoidedPath(p) == \E i \in DOMAIN p : p[i] \in Avoided

(* The set is empty for a link that leaves the origin or is avoided.       *)
AbsoluteSameOrigin(origin, u) ==
  {CanonicalURL(v) : v \in
     {w \in {u} : w.host = origin /\ ~IsAvoidedPath(w.path)}}

Followed(origin, page, href) ==
  UNION {AbsoluteSameOrigin(origin, u) : u \in ResolveLinkHref(page, href)}

(* The links of one page in document order, as the crawl queues them.      *)
FollowedLinks(origin, page, hrefs) ==
  FlattenSeq([i \in DOMAIN hrefs |->
                SetToSeq(Followed(origin, page, hrefs[i]))])

-----------------------------------------------------------------------------
(* robots.txt: the longest matching rule wins, ties go to Allow.  A rule   *)
(* is a path prefix; its length counts the leading slash.                  *)
LongestPrefix(rules, p) ==
  LET lengths == {Len(r) + 1 : r \in {q \in rules : IsPrefix(q, p)}}
  IN IF lengths = {} THEN 0 ELSE CHOOSE m \in lengths : \A n \in lengths : n <= m

AllowPath(allow, disallow, u) ==
  \/ LongestPrefix(disallow, u.path) = 0
  \/ LongestPrefix(allow, u.path) >= LongestPrefix(disallow, u.path)

-----------------------------------------------------------------------------
(* Sitemaps.  listing[f] is what file f lists, URLs and nested files, and  *)
(* readable are the files that could be fetched and parsed.                *)
ReadSitemap(f, listing, readable) ==
  IF f \in readable THEN listing[f] ELSE << >>

ListedURLs(declared, primary, index, listing, readable) ==
  LET read(f) == ReadSitemap(f, listing, readable)
      found   == FlattenSeq([i \in DOMAIN declared |-> read(declared[i])])
                   \o read(primary)
  IN IF found # << >> THEN found ELSE read(index)

(* One level of nested files is expanded, MaxNested of them; a file beyond *)
(* that is kept like a page.                                               *)
ExpandNested(urls, listing, readable) ==
  FoldLeft(LAMBDA acc, u :
             IF acc.full THEN acc
             ELSE IF u \in SitemapFiles /\ acc.nested < MaxNested
               THEN [acc EXCEPT !.nested = @ + 1,
                                !.out = @ \o ReadSitemap(u, listing, readable)]
               ELSE [acc EXCEPT !.out = Append(@, u),
                                !.full = Len(acc.out) + 1 >= MaxSeeds],
           [out |-> << >>, nested |-> 0, full |-> FALSE], urls).out

(* Same-origin and not avoided, each once, MaxSeeds at most.               *)
SitemapURLs(origin, declared, primary, index, listing, readable) ==
  LET all  == ExpandNested(
                ListedURLs(declared, primary, index, listing, readable),
                listing, readable)
      kept == FoldLeft(LAMBDA acc, u :
                acc \o SelectSeq(SetToSeq(AbsoluteSameOrigin(origin, u)),
                                 LAMBDA v : v \notin ToSet(acc)),
                << >>, all)
  IN SubSeq(kept, 1, IF Len(kept) < MaxSeeds THEN Len(kept) ELSE MaxSeeds)
=============================================================================
