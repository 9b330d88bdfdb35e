------------------------------ MODULE Locators ------------------------------
(* How a test finds an element.  The attributes of an element are sets of  *)
(* words, {} when it lacks one; an anchor has testid, aria, role, name,    *)
(* text and tag, an input testid, aria, placeholder, label, name, type,    *)
(* required and options.                                                   *)
EXTENDS Integers, Sequences, FiniteSets, SequencesExt

Locator(by, names) == [by |-> by, names |-> names]
NoLocator == Locator("", {})
Body == Locator("css", {"body"})
=============================================================================
