------------------------------- MODULE Pages -------------------------------
(***************************************************************************)
(* The page roots of a work directory (plan/pages.go): which files render  *)
(* a page and at which URL, and the folding of component tests that mount  *)
(* on one page into a test of the page.                                    *)
(*                                                                         *)
(* A file of the tree is [path, markup, lines, mounts, hasForm]: whether   *)
(* it has markup, its lines as sequences of elements, and the components   *)
(* its JSX mounts.  An element is [tag, hidden, testid, href, text].       *)
(* Paths are in lower case; a URL is a sequence of segments.               *)
(***************************************************************************)
EXTENDS Plan

HTMLExt == {".html", ".htm", ".erb", ".haml", ".blade.php", ".jinja", ".j2", ".hbs",
            ".handlebars", ".tmpl", ".gohtml", ".astro"}
JSX == {".tsx", ".jsx"}
Script == JSX \cup {".ts", ".js"}

FileName(path) == Stem(path) \o Ext(path)
Within(dir, path) == dir \in Range(Dirs(path))
Infix(q, s) == \E i \in DOMAIN s : IsPrefix(q, SubSeq(s, i, Len(s)))

IsWellKnownEntry(path) ==
  \/ Stem(path) = "index" /\ Ext(path) \in JSX \cup {".html", ".htm"}
  \/ Stem(path) = "app" /\ Ext(path) \in JSX \cup {".vue", ".svelte"}
  \/ Stem(path) = "routes" /\ Ext(path) \in JSX

IsFrameworkPage(path) ==
  \/ Within("pages", path) /\ Ext(path) \in Script \cup {".vue", ".astro"}
  \/ Within("app", path) /\ Stem(path) = "page" /\ Ext(path) \in Script
  \/ Infix(<<"app", "routes">>, Dirs(path)) /\ Ext(path) \in Script
  \/ Within("routes", path) /\ Stem(path) = "+page"
  \/ Within("views", path) /\ Ext(path) = ".vue"

IsHTMLExt(path) == Ext(path) \in HTMLExt
IsPageFile(path) == IsWellKnownEntry(path) \/ IsFrameworkPage(path) \/ IsHTMLExt(path)

Skipped == {"node_modules", "dist", "build", ".next", "vendor", ".git", "target", "out"}
MaxDepth == 6
Walked(path) == Len(Dirs(path)) <= MaxDepth /\ Range(Dirs(path)) \cap Skipped = {}

-----------------------------------------------------------------------------
(* URLs: the first rule that matches.                                      *)

After(dir, dirs) ==
  LET i == CHOOSE i \in DOMAIN dirs : dirs[i] = dir /\ \A k \in 1..(i - 1) : dirs[k] # dir
  IN SubSeq(dirs, i + 1, Len(dirs))

IndexLike(path) ==
  /\ Stem(path) = "index"
  /\ \/ Ext(path) = ".html"
     \/ Ext(path) \in JSX /\ Dirs(path) # << >> /\ Last(Dirs(path)) = "pages"
SpaShell(path)   == Stem(path) \in {"app", "routes"} /\ Ext(path) \in JSX
AppDirPage(path) == Within("app", path) /\ Stem(path) = "page" /\ Ext(path) \in JSX
RemixRoute(path) == Infix(<<"app", "routes">>, Dirs(path))
SvelteKitPage(path) == Within("routes", path) /\ Stem(path) = "+page"

(* The file name goes with the slash before it: of a page right under app/ *)
(* it stays in the URL.                                                    *)
AppDirURL(path) ==
  LET dir == After("app", Dirs(path)) IN
  IF dir = << >> THEN <<FileName(path)>> ELSE dir

SvelteKitURL(path) ==
  LET dir == After("routes", Dirs(path)) IN
  IF dir = << >> \/ Ext(path) \in {".svelte", ".ts", ".js"} THEN dir
  ELSE Append(dir, FileName(path))

DeriveURL(path) ==
  IF IndexLike(path) \/ SpaShell(path) THEN << >>
  ELSE IF AppDirPage(path) THEN AppDirURL(path)
  ELSE IF RemixRoute(path) THEN Append(After("routes", Dirs(path)), Stem(path))
  ELSE IF SvelteKitPage(path) THEN SvelteKitURL(path)
  ELSE IF Within("pages", path) THEN <<Stem(path)>>
  ELSE << >>

-----------------------------------------------------------------------------
(* What the regular expressions take from the markup, line by line.        *)

(* A hidden element anywhere on a line hides the line.                     *)
LineAnchors(line) ==
  LET found == SelectSeq(line, LAMBDA e : e.testid # "") IN
  IF found = << >> \/ \E e \in Range(line) : e.hidden THEN << >>
  ELSE <<[testid |-> found[1].testid, tag |-> line[1].tag]>>
ExtractHTMLAnchors(lines) ==
  FlattenSeq([i \in DOMAIN lines |-> LineAnchors(lines[i])])

(* Only hrefs from the root survive: a file path has no scheme to resolve  *)
(* another against.  The text is that of the first link of the line.       *)
LineLinks(line) ==
  LET links == SelectSeq(line, LAMBDA e : e.tag = "a")
      kept  == SelectSeq(links, LAMBDA e : ~e.hidden /\ e.href # "elsewhere") IN
  [i \in DOMAIN kept |-> [href |-> kept[i].href, text |-> links[1].text]]
ExtractHTMLLinks(lines) ==
  FlattenSeq([i \in DOMAIN lines |-> LineLinks(lines[i])])

(* One link per href; one with a text replaces one without.                *)
DedupLinks(links) ==
  LET add(out, l) ==
        IF \E i \in DOMAIN out : out[i].href = l.href
        THEN [i \in DOMAIN out |->
                IF out[i].href = l.href /\ out[i].text = "" THEN l ELSE out[i]]
        ELSE Append(out, l)
  IN FoldLeft(add, << >>, links)

MaxAnchors == 8
DedupAnchors(anchors) ==
  LET add(out, a) == IF Contains(out, a) THEN out ELSE Append(out, a)
      all == FoldLeft(add, << >>, anchors) IN
  SubSeq(all, 1, IF Len(all) < MaxAnchors THEN Len(all) ELSE MaxAnchors)

PageRoot(f) ==
  [path    |-> f.path,
   stem    |-> Stem(f.path),
   url     |-> DeriveURL(f.path),
   isHTML  |-> IsHTMLExt(f.path),
   anchors |-> ExtractHTMLAnchors(f.lines),
   links   |-> ExtractHTMLLinks(f.lines),
   hasForm |-> f.hasForm,
   mounted |-> IF IsHTMLExt(f.path) THEN {} ELSE f.mounts]

(* What the roots of a tree may be: shortest path first, those of a length *)
(* in any order, as the sort is not stable; size gives a path's length.    *)
FindPageRoots(tree, size) ==
  LET pages == {f \in tree : Walked(f.path) /\ IsPageFile(f.path) /\ f.markup} IN
  {q \in SetToSeqs({PageRoot(f) : f \in pages}) :
     \A i, k \in DOMAIN q : i < k => size[q[i].path] <= size[q[k].path]}

(* QUAIL_PAGE_URLS: the URLs a user gives to paths, read from a map.       *)
ApplyPageURLOverrides(roots, urls) ==
  LET given == [i \in DOMAIN roots |->
                  IF roots[i].path \in DOMAIN urls
                  THEN [roots[i] EXCEPT !.url = urls[roots[i].path]] ELSE roots[i]]
      other == DOMAIN urls \ {roots[i].path : i \in DOMAIN roots}
      root(path) == [path |-> path, stem |-> Stem(path), url |-> urls[path],
                     isHTML |-> IsHTMLExt(path), anchors |-> << >>, links |-> << >>,
                     hasForm |-> FALSE, mounted |-> {}] IN
  {given \o q : q \in SetToSeqs({root(path) : path \in other})}

-----------------------------------------------------------------------------
(* Grouping.                                                               *)

IsComponentTest(it) == it.template \in {"pw_e2e", "pw_feature"}

(* The first root that mounts a component, or 0.                           *)
FindMountingRoot(name, roots) ==
  LET mounting == {i \in DOMAIN roots : name \in roots[i].mounted} IN
  IF mounting = {} THEN 0 ELSE CHOOSE i \in mounting : \A k \in mounting : i <= k

(* The components of each root that mounts some, in the order planned.     *)
MatchComponents(items, roots) ==
  LET root(it) == IF IsComponentTest(it) THEN FindMountingRoot(it.symbol.name, roots) ELSE 0
      of(i)    == Only(items, {it \in Range(items) : root(it) = i})
      used     == {root(items[k]) : k \in DOMAIN items} \ {0} IN
  [nonE2E    |-> Only(items, {it \in Range(items) : ~IsComponentTest(it)}),
   ungrouped |-> Only(items, {it \in Range(items) : IsComponentTest(it) /\ root(it) = 0}),
   grouped   |-> [i \in used |-> [k \in DOMAIN of(i) |-> of(i)[k].symbol]]]

\* Mutant: a group gets a happy flow in any project.
PickFlow(layout, stem, grouped) ==
  IF layout.UsesBDD /\ ~grouped THEN [template |-> "pw_feature", out |-> FeaturePath(stem)]
  ELSE [template |-> IF grouped THEN "pw_happyflow" ELSE "pw_e2e", out |-> E2EPath(stem)]

PickJourney(layout, stem, grouped) ==
  IF layout.UsesBDD THEN [template |-> "pw_feature", out |-> FeaturePath(stem)]
  ELSE [template |-> IF grouped THEN "pw_happyflow" ELSE "pw_e2e", out |-> E2EPath(stem)]

JourneyItem(symbol, symbols, url, journey) ==
  [symbol |-> symbol, symbols |-> symbols, url |-> url,
   template |-> journey.template, out |-> journey.out]

(* A component alone on its root keeps a test of its own.                  *)
Materialise(root, symbols, style, layout) ==
  IF Len(symbols) < 2 /\ style # "page-flow"
  THEN [single |-> TRUE,
        item |-> JourneyItem(symbols[1], << >>, "", PickJourney(layout, symbols[1].name, FALSE))]
  ELSE [single |-> FALSE,
        item |-> JourneyItem(symbols[1], symbols, root.url,
                             PickJourney(layout, root.stem, TRUE))]

Synthetic(r) ==
  [name |-> r.stem, file |-> r.path, line |-> 0, end |-> 0, lang |-> "ts",
   kind |-> "component", hint |-> "", receiver |-> "", aspects |-> {}, job |-> "",
   anchors |-> DedupAnchors(r.anchors), links |-> DedupLinks(r.links)]

\* Mutant: covered pages are not looked for.
EveryPageRoot(roots, inDiff, covered, layout) ==
  LET pages == SelectSeq(roots, LAMBDA r : r.path \in inDiff /\ r.anchors \o r.links # << >>) IN
  [i \in DOMAIN pages |->
     JourneyItem(Synthetic(pages[i]), <<Synthetic(pages[i])>>, pages[i].url,
                 PickJourney(layout, pages[i].stem, TRUE))]

(* A page of the diff no item's symbol is of gets a test of its own.       *)
MaterialisePageRoots(roots, inDiff, covered, layout) ==
  LET due(r) == /\ r.path \in inDiff \ covered
                /\ r.anchors # << >> \/ r.links # << >>
      pages == Only(roots, {r \in Range(roots) : due(r)}) IN
  [i \in DOMAIN pages |->
     JourneyItem(Synthetic(pages[i]), <<Synthetic(pages[i])>>, pages[i].url,
                 PickJourney(layout, pages[i].stem, TRUE))]

LinksFromRoot(links) == SelectSeq(links, LAMBDA l : l.href # "elsewhere")

Pruned(symbols) ==
  [k \in DOMAIN symbols |-> [symbols[k] EXCEPT !.links = LinksFromRoot(@)]]

(* If there is a page flow, its links are those from the root.             *)
ChainMultiStep(items) ==
  [i \in DOMAIN items |->
     IF items[i].template = "pw_happyflow"
     THEN [items[i] EXCEPT !.symbols = Pruned(@)] ELSE items[i]]
=============================================================================
