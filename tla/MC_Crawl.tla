------------------------------ MODULE MC_Crawl ------------------------------
(***************************************************************************)
(* A site whose start URL redirects into a directory and that has a        *)
(* disallowed section, an avoided path, a cycle, a link off the origin, a  *)
(* redirect to a known page, one to the www host, and a nested sitemap.    *)
(***************************************************************************)
EXTENDS Crawl, SiteURLs

CONSTANTS host, www, a, b, x, admin, legal, sitemap, nested, news

Root(p)    == [kind |-> "root", path |-> p, slash |-> FALSE]
Rel(p)     == [kind |-> "rel", path |-> p, slash |-> FALSE]
Full(h, p) == [kind |-> "full", host |-> h, path |-> p, slash |-> TRUE]
Fragment   == [kind |-> "none"]

Paths == {<< >>, <<a>>, <<b>>, <<a, x>>, <<x>>, <<admin>>, <<admin, x>>, <<b, x>>,
          <<news>>}
MCUrl == {URL(h, p, FALSE) : h \in {host, www}, p \in Paths}
On(p) == URL(host, p, FALSE)

MCStart == On(<< >>)

MCServed ==
  [u \in MCUrl |-> IF u = On(<<b, x>>) THEN On(<<a>>)
                   ELSE IF u = On(<<x>>) THEN URL(www, <<x>>, FALSE) ELSE u]

Hrefs(u) ==
  CASE u.path = << >> -> <<Root(<<a>>), Fragment, Full(host, <<b>>), Root(<<admin>>),
                           Root(<<legal>>), Full(www, <<a>>)>>
    [] u.path = <<a>> -> <<Rel(<<x>>), Root(<< >>), Rel(<<a>>)>>
    [] u.path = <<b>> -> <<Root(<<b, x>>), Root(<<a, x>>), Root(<<admin, x>>)>>
    [] u.path = <<a, x>> -> <<Rel(<<a>>), Root(<<b>>)>>
    [] OTHER -> <<Root(<< >>), Rel(<<b>>)>>

MCLinks ==
  [u \in MCUrl |-> SelectSeq(FollowedLinks(host, u, Hrefs(u)),
                             LAMBDA l : l \in MCUrl)]

MCPermitted == {u \in MCUrl : AllowPath({<<admin, x>>}, {<<admin>>}, u)}

Sitemap == On(<<sitemap>>)
Nested  == On(<<nested>>)
News    == On(<<news>>)
MCSitemapFiles == {Sitemap, Nested, News}

Listing ==
  Sitemap :> <<Nested, URL(host, <<a>>, TRUE), URL(www, <<a>>, FALSE), News>>
  @@ Nested :> <<On(<<b, x>>), On(<<admin>>), On(<<a>>)>>
  @@ News :> <<On(<<x>>), On(<<legal>>)>>

MCSeedLists ==
  {SitemapURLs(host, <<News>>, Sitemap, Nested, Listing, readable) :
     readable \in SUBSET MCSitemapFiles}
=============================================================================
