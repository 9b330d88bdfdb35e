------------------------------ MODULE MC_Suite ------------------------------
(* A page with a form, after the form has given way to links and its       *)
(* button another name, and with neither; and a function before and after  *)
(* it returns a value.                                                     *)
EXTENDS Suite

Anchor(tag, testid, aria, role, name) ==
  [tag |-> tag, testid |-> testid, aria |-> aria, role |-> role, name |-> name, text |-> {}]
Input(type, required, testid, name) ==
  [type |-> type, required |-> required, testid |-> testid, aria |-> {},
   placeholder |-> {}, label |-> {}, name |-> name]
LinkTo(href, words, depth) ==
  [href |-> href, words |-> words, path |-> words, depth |-> depth]
Page(anchors, inputs, links, hasForm, journey, capitals) ==
  [anchors |-> anchors, inputs |-> inputs, links |-> links, hasForm |-> hasForm,
   hasOnClick |-> ~hasForm, journey |-> journey, sym |-> Symbol("site", capitals)]

Form   == Page(<<Anchor("submit", {}, {"save"}, {}, {})>>,
               <<Input("email", TRUE, {"mail"}, {})>>, << >>, TRUE, TRUE, {})
Links  == Page(<<Anchor("submit", {}, {"store"}, {"button"}, {}), Anchor("a", {}, {}, {"banner"}, {})>>,
               <<Input("checkbox", TRUE, {}, {"mail"})>>,
               <<LinkTo("/terms", {"terms"}, 1), LinkTo("/x/contact", {"contact"}, 2),
                 LinkTo("elsewhere", {"pricing"}, 1)>>, FALSE, TRUE, {1})
Plain  == Page(<<Anchor("nav", {}, {"save"}, {}, {}), Anchor("button", {}, {"more"}, {}, {})>>,
               << >>, << >>, FALSE, FALSE, {})

MCPages == {Form, Links, Plain}
\* A file walked after the page's has a button of another name.
MCFailing == {<<TRUE, TRUE>>, <<FALSE, FALSE>>}
MCBefore == << >>
MCAfter == <<Anchor("button", {}, {"basket"}, {"button"}, {})>>
MCFunctions == {{"testing"}, {"testing", "reflect"}}

CONSTANTS home, shop
MCLanguages == {"ts", "feature", "go", "python"}
MCURLs ==
  [l \in MCLanguages |->
     IF l = "feature" THEN {<<home>>, <<home, shop>>, <<shop, home>>, <<home, home, shop>>}
     ELSE {<<home>>}]
MCHorizon == [l \in MCLanguages |-> IF l = "feature" THEN 2 ELSE 0]
=============================================================================
