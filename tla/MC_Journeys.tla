---------------------------- MODULE MC_Journeys -----------------------------
EXTENDS Journeys

CONSTANTS home, p1, p2, p3

Plain == [tags |-> {}, hub |-> FALSE, titled |-> FALSE,
          links |-> <<home>>, nav |-> << >>, anchors |-> <<"nav">>]

Tagged(ts) == [Plain EXCEPT !.tags = ts]

WithForm(ts) == [Tagged(ts) EXCEPT !.anchors = <<"submit", "field">>]

(* A list links to every other page; a landing page navigates to them.     *)
ListOf(hub) == [Tagged({"list"}) EXCEPT !.hub = hub, !.links = <<home, p3, p2, p1>>]

Landings ==
  {[page EXCEPT !.nav = <<p2, home, p1>>] :
     page \in {Tagged({"landing"}), Tagged({"landing", "interactive"}),
               [WithForm({"landing", "form"}) EXCEPT
                  !.anchors = <<"nav", "submit", "field", "submit">>],
               [ListOf(TRUE) EXCEPT !.tags = {"landing", "list"}]}}

Inner ==
  {WithForm({"form"}), WithForm({"form", "contact", "detail"}),
   WithForm({"form", "auth"}), ListOf(FALSE), ListOf(TRUE),
   Tagged({"casestudy", "detail"}), Tagged({"pricing", "service", "interactive"}),
   [Plain EXCEPT !.titled = TRUE]}

MCPrompts ==
  {[kinds |-> {}, pages |-> {}], [kinds |-> {"convert", "explore"}, pages |-> {}],
   [kinds |-> {"read"}, pages |-> {p2}]}

MCSites ==
  {[order |-> <<home, p1, p2, p3>>,
    page |-> [u \in KnownUrl |-> CASE u = home -> l [] u = p1 -> a [] u = p2 -> b [] u = p3 -> c]] :
      l \in Landings, a \in Inner, b \in Inner, c \in Inner}
=============================================================================
