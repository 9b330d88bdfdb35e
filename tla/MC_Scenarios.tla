---------------------------- MODULE MC_Scenarios ----------------------------
(* Two journeys over a landing page, a known page, one that is recorded    *)
(* twice and one nothing is known of.                                      *)
EXTENDS Scenarios

Page(href, h1, title) == [href |-> href, h1 |-> h1, title |-> title]
Home    == Page({"home"}, {"welcome", "shop"}, {"shop"})
About   == Page({"about"}, {"about"}, {"about", "shop"})
Stale   == Page({"cart"}, {"empty"}, {})
Cart    == Page({"cart"}, {"cart"}, {})
MCJourneys ==
  <<[landing |-> Home, pages |-> <<About, Stale, Cart>>],
    [landing |-> Page({"blog"}, {}, {"blog"}), pages |-> << >>]>>

Landing    == Step("given", <<"landing">>, << >>)
Link(to)   == Step("when", <<"link">>, <<{to}>>)
Heading(w) == Step("then", <<"heading">>, <<w>>)
Title(w)   == Step("then", <<"title">>, <<w>>)
Submit     == Step("when", <<"submit">>, << >>)
Twice      == Step("when", <<"submit", "twice">>, << >>)
Back       == Step("when", <<"back">>, << >>)
Enter(v)   == Step("when", <<"enter">>, <<v, {"mail"}>>)
Visible    == Step("then", <<"visible">>, <<{"hero"}>>)

(* Of any two steps behind the first, and those that are judged behind     *)
(* one that leaves a page.                                                 *)
Judged == {Heading({"welcome"}), Heading({"cart"}), Title({"shop", "about"})}
Tail2 == {Link("about"), Link("cart"), Link("terms"), Submit, Back, Landing} \cup Judged
Walks == {<<Landing, a, b>> : a \in Tail2, b \in Tail2}
       \cup {<<Landing, Link("about"), a, b>> : a \in Tail2, b \in Judged}
One(steps) == <<Object("clean", Scenario("walk", steps))>>

Good(name)  == Scenario(name, <<Landing, Twice>>)
Long        == Scenario("long", <<Landing, Enter({"v"}), Submit, Back>>)
Blank       == Scenario("blank", <<Landing, Enter({}), Submit>>)
Unlisted    == Scenario("unlisted", <<Landing, Visible>>)
States      == {"clean", "dirty", "quoted", "bad", "open"}

Torn(a, b, c, closed) ==
  Reply(<<Object(a, Good("a")), Object(b, Long), Object(c, Good("c"))>>, closed)
Refused ==
  Reply(<<Object("clean", Blank), Object("clean", Unlisted),
          Object("clean", Scenario("", Long.steps))>>, TRUE)
MCReplies ==
  <<{NoArray, Refused} \cup {Reply(One(w), TRUE) : w \in Walks},
    {Torn(a, b, c, closed) : a \in States, b \in States, c \in States, closed \in BOOLEAN}
      \cup {Reply(One(<<Landing, Title({"news"}), Link("about"), Heading({"x"})>>), TRUE)}>>

Def(kind, words, shapes, handler) == StepPattern(kind, words, shapes, handler)
MCStepDefs ==
  <<Line("import", "", <<"import">>, << >>, << >>),
    Def("lit", <<"landing">>, << >>, <<"goto">>),
    Def("re", <<"page">>, <<"some">>, <<"goto">>),
    Def("re", <<"link">>, <<"some">>, <<"click", "link">>),
    Def("re", <<"direct">>, <<"some">>, <<"goto">>),
    Def("lit", <<"reload">>, << >>, <<"reload">>),
    Def("re", <<"heading">>, <<"some">>, <<"h1">>),
    Def("re", <<"see">>, <<"some">>, <<"h1">>),
    Def("re", <<"title">>, <<"some">>, <<"head">>),
    Def("lit", <<"submit">>, << >>, <<"press">>),
    Def("lit", <<"submit", "twice">>, << >>, <<"press", "press">>),
    Def("re", <<"enter">>, <<"some", "some">>, <<"fill">>),
    Def("lit", <<"back">>, << >>, <<"history">>),
    Def("re", <<"visible">>, <<"some">>, <<"see">>)>>

MCHappy == <<Landing, Link("about"), Heading({"about"}), Visible>>

(* Rewrites in step and not, of words, of whole patterns and of lines.     *)
Word(from, to) == <<RewriteWord(from, to)>>
Pattern(kind, from, to, before, after) ==
  RewritePattern(Phrase(kind, from, before), Phrase(kind, to, after))
Text(l) == Line("text", "", l.words, l.args, << >>)
Header == Line("feature", "", <<"extra">>, << >>, << >>)
Emptied == Word("v", << >>)
Unkeyed == <<RewriteWhole(Submit, <<Text(Submit)>>)>>
FeatureRewrites ==
  {<< >>, Word("link", <<"follow">>), Word("submit", <<"send">>),
   Word("heading", <<"see">>), Word("about", <<"terms", "news">>), Emptied, Unkeyed,
   <<RewriteWhole(Header, <<Text(Header)>>), RewriteWord("link", <<"follow">>)>>,
   <<RewriteWhole(Submit, <<Submit, Back>>), RewriteWhole(Landing, << >>)>>}
PatternRewrites ==
  {<< >>, Word("link", <<"follow">>), Word("submit", <<"send">>), Word("landing", <<"'">>),
   Word("import", <<"load">>), Word("goto", << >>),
   <<Pattern("re", <<"link">>, <<"follow">>, <<"some">>, <<"some">>)>>,
   <<Pattern("re", <<"link">>, <<"follow">>, <<"some">>, << >>)>>,
   <<Pattern("lit", <<"submit">>, <<"send">>, << >>, << >>)>>,
   <<Pattern("lit", <<"submit">>, <<"send">>, << >>, << >>),
     Pattern("lit", <<"submit", "twice">>, <<"send", "twice">>, << >>, << >>)>>,
   <<RewriteWhole(MCStepDefs[14], <<Text(MCStepDefs[14])>>)>>,
   <<RewriteWhole(MCStepDefs[13], << >>)>>}
MCAnswers == [features : FeatureRewrites, patterns : PatternRewrites]
=============================================================================
