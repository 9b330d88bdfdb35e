---------------------------- MODULE MC_Pipeline ----------------------------
(* A small web project: an app shell that mounts two components, one of    *)
(* them a page of its own, a page that mounts another, a static page, a    *)
(* script with a route, a data type and a pure function, and a service.    *)
EXTENDS Pipeline

Shell   == Path(<<"src">>, "app", ".tsx")
Home    == Path(<<"src", "pages">>, "home", ".tsx")
Footer  == Path(<<"src", "ui">>, "footer", ".tsx")
Nav     == Path(<<"src", "ui">>, "nav", ".tsx")
About   == Path(<<"public">>, "about", ".html")
API     == Path(<<"src">>, "api", ".ts")
Proto   == Path(<<"proto">>, "search", ".proto")

Symbol(name, file, line, end, kind, aspects) ==
  [name |-> name, file |-> file, line |-> line, end |-> end, lang |-> "ts",
   kind |-> kind, hint |-> "", receiver |-> "", aspects |-> aspects, job |-> "",
   anchors |-> << >>, links |-> << >>]

(* One leads to another site.                                              *)
Links == <<[href |-> "elsewhere", text |-> ""], [href |-> "/about", text |-> "About"]>>

MCSymbolsOf ==
  (Shell  :> << >>) @@
  (Home   :> <<Symbol("Home", Home, 2, 4, "component", {})>>) @@
  (Footer :> <<Symbol("Footer", Footer, 1, 3, "component", {})>>) @@
  (Nav    :> <<[Symbol("Nav", Nav, 1, 2, "component", {"property"}) EXCEPT !.links = Links]>>) @@
  (About  :> << >>) @@
  (API    :> <<Symbol("route", API, 1, 1, "route", {}),
               Symbol("parse", API, 3, 3, "function", {"property", "validator"}),
               Symbol("Payload", API, 2, 0, "function", {"serialization"})>>) @@
  (Proto  :> <<[Symbol("Find", Proto, 0, 0, "method", {}) EXCEPT
                  !.hint = "grpc_unary", !.receiver = "Search"]>>)

MCSize == (Shell :> 11) @@ (Home :> 18) @@ (About :> 17) @@ (Footer :> 17) @@ (Nav :> 14)

Element(tag, testid, href, text, hidden) ==
  [tag |-> tag, testid |-> testid, href |-> href, text |-> text, hidden |-> hidden]
Link == Element("a", "", "/about", "About", FALSE)
Icon == Element("a", "", "/about", "", FALSE)
Field == Element("input", "email", "", "", FALSE)
Skip == Element("a", "skip", "/about", "Skip", TRUE)

File(path, lines, mounts) ==
  [path |-> path, markup |-> TRUE, lines |-> lines, mounts |-> mounts, hasForm |-> FALSE]
Tree ==
  {File(Shell, << >>, {"Home", "Footer"}),
   File(Home, <<<<Icon, Link>>, <<Skip, Field>>>>, {"Nav"}),
   File(About, <<<<Link>>>>, {})}
Vendored ==
  {File(Path(<<"node_modules">>, "index", ".html"), <<<<Link>>>>, {}),
   [File(API, << >>, {"Nav"}) EXCEPT !.markup = FALSE]}

Change(file, hunks) == [old |-> file, new |-> file, hunks |-> hunks]
From(start, body) == <<[start |-> start, body |-> body]>>

Call(changes, has, style, tree) ==
  [changes |-> changes, has |-> has, tree |-> tree, urls |-> << >>, style |-> style,
   allow |-> {}, deny |-> {}]

(* Every hunk of at most three lines over a script, beside another file.   *)
Diffs ==
  {Call(<<Change(API, From(start, body)), Change(Nav, From(1, <<"add">>))>>, {"vitest"}, "", {}) :
     start \in {1, 2}, body \in SeqOf(LineKinds, 3)}
  \cup {Call(<<Change(Proto, From(1, <<"add", "add">>))>>, {"vitest"}, "", {})}

(* Any of the pages and components touched, created, renamed or removed.   *)
Edits(file) ==
  {Change(file, From(1, <<"keep", "add", "keep", "add">>)),
   [Change(file, From(2, <<"add", "add">>)) EXCEPT !.old = Nowhere],
   [Change(file, From(0, <<"del">>)) EXCEPT !.new = Nowhere],
   [Change(file, << >>) EXCEPT !.old = About]}
PageEdits ==
  {<<h, f>> \o n : h \in Edits(Home), f \in Edits(Footer),
                   n \in {<< >>} \cup {<<e>> : e \in {Change(Nav, From(1, <<"add">>)),
                                                     Change(About, From(1, <<"add">>))}}}
Pages_ ==
  {Call(changes, has, style, Tree \cup Vendored) :
     changes \in PageEdits, has \in {{}, {"playwright.config"}, {"tests", "tests/e2e", "__tests__"}},
     style \in {"", "page-flow", "per-component"}}

(* Filters and URLs given by the user.                                     *)
Kept == {{}, {"journey"}, {"unit", "sentinel"}}
Filters ==
  {[Call(<<Change(Nav, From(1, <<"add">>)), Change(API, From(1, <<"add", "keep", "add">>)),
           Change(Home, From(2, <<"add">>))>>, has, "", tree)
      EXCEPT !.allow = allow, !.deny = deny, !.urls = urls] :
     has \in {{}, {"playwright.config"}}, tree \in {{}, Tree}, allow \in Kept, deny \in Kept,
     urls \in {<< >>, (Home :> <<"welcome">>), (Footer :> << >>)}}

MCInputs == Diffs \cup Pages_ \cup Filters

Companion(t) == Item(Symbol("site", About, 0, 0, "component", {}), t, Path(<<"tests">>, t, ""))
MCCompanions ==
  [i \in 1..3 |-> Companion(<<"pw_steps_bdd", "pw_summary", "pw_sentinel">>[i])]
=============================================================================
