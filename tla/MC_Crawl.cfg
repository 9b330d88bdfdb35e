CONSTANTS
  host = host  www = www  a = a  b = b  x = x  admin = admin  legal = legal
  sitemap = sitemap  nested = nested  news = news
  Avoided = {legal, sitemap, nested}
  SitemapFiles <- MCSitemapFiles
  MaxNested = 1
  MaxSeeds = 4
  Url <- MCUrl
  Start <- MCStart
  Served <- MCServed
  Links <- MCLinks
  Permitted <- MCPermitted
  SeedLists <- MCSeedLists
  MaxPages = 5
  MaxDepth = 3
SPECIFICATION FairSpec
INVARIANTS OrderListsPages PageBudget BreadthFirst PermittedLinksAsked
PROPERTIES Terminates
CHECK_DEADLOCK FALSE
