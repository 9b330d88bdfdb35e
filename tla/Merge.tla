------------------------------- MODULE Merge -------------------------------
(***************************************************************************)
(* merge.Append: a generated test file is added to the one on disk.        *)
(*                                                                         *)
(* A file is [pkg, imports, body]; a block of its body is [is, name, sym,  *)
(* v, needs]: what it is, the test or function, the symbol in its title,   *)
(* the locators of its steps, and the imports it uses or the notes it      *)
(* makes.  A "dashed" test is the first of test.describe('SYMBOL - KIND'), *)
(* any other is a "test".  Comments are "doc" and "line", quail's header   *)
(* in two forms, "py", "report", the quality report, and "userdoc".        *)
(***************************************************************************)
EXTENDS Integers, Sequences, FiniteSets, SequencesExt, Filtering

Block(is, name, sym, v, needs) ==
  [is |-> is, name |-> name, sym |-> sym, v |-> v, needs |-> needs]
(* A symbol and which of its letters are capitals.                         *)
Symbol(letters, capitals) == [letters |-> letters, capitals |-> capitals]
NoSymbol == Symbol("", {})
Comment(is) == Block(is, "", NoSymbol, << >>, {})
SourceFile(pkg, imports, body) == [pkg |-> pkg, imports |-> imports, body |-> body]
Broken == SourceFile("syntax error", << >>, << >>)

Failed == [ok |-> FALSE]
Merged(file) == [ok |-> TRUE, file |-> file]

FirstFrom(body, start, kinds) ==
  LET at == {i \in start..Len(body) : body[i].is \in kinds} IN
  IF at = {} THEN 0 ELSE CHOOSE i \in at : \A k \in at : i <= k

(* The header of a file that begins with a doc comment: everything up to   *)
(* the first comment that ends behind the words "Generated by quail.".     *)
StripDoc(body) ==
  LET said == FirstFrom(body, 1, {"doc", "line"})
      ends == IF said = 0 THEN 0 ELSE FirstFrom(body, said, {"doc", "userdoc", "report"}) IN
  SubSeq(body, ends + 1, Len(body))

\* Mutant: a header in a doc comment is not recognised.
StripLineHeader(body) ==
  IF body # << >> /\ body[1].is = "py" THEN Tail(body) ELSE body

StripQuailHeader(body) ==
  IF body = << >> THEN body
  ELSE IF body[1].is \in {"doc", "userdoc"} THEN StripDoc(body)
  ELSE IF body[1].is = "py" THEN Tail(body)
  ELSE body

\* Mutant: titles are compared with the case of the symbol.
StripOnly(body) == StripQuailHeader(body)

(* Symbols are lower-cased in front of a dash, and nowhere else.           *)
Lowered(b) == IF b.is = "dashed" THEN [b EXCEPT !.sym = Symbol(@.letters, {})] ELSE b
NormalizeForDedup(body) ==
  LET b == StripQuailHeader(body) IN [i \in DOMAIN b |-> Lowered(b[i])]

Contained(part, whole) ==
  part = << >> \/ \E i \in DOMAIN whole : IsPrefix(part, SubSeq(whole, i, Len(whole)))

(* Those that are not there yet, each once.                                *)
AddImports(old, new) ==
  LET upTo[i \in 0..Len(new)] ==
        IF i = 0 THEN old
        ELSE IF new[i] \in Range(upTo[i - 1]) THEN upTo[i - 1]
        ELSE Append(upTo[i - 1], new[i])
  IN  upTo[Len(new)]

AppendTS(old, new) ==
  LET chunk == StripQuailHeader(new.body)
      known == /\ NormalizeForDedup(old.body) # << >>
               /\ Contained(NormalizeForDedup(chunk), NormalizeForDedup(old.body)) IN
  Merged([old EXCEPT !.imports = AddImports(@, new.imports),
                     !.body = IF known THEN @ ELSE @ \o chunk])

AppendPython(old, new) ==
  Merged([old EXCEPT !.imports = AddImports(@, new.imports),
                     !.body = @ \o StripQuailHeader(new.body)])

(* Functions are told apart by name; other declarations are not added.     *)
FuncNames(body) == {b.name : b \in {b \in Range(body) : b.is = "func"}}
NewFuncs(old, new) ==
  LET upTo[i \in 0..Len(new)] ==
        IF i = 0 THEN << >>
        ELSE IF new[i].is = "func" /\ new[i].name \notin FuncNames(old) \cup FuncNames(upTo[i - 1])
        THEN Append(upTo[i - 1], new[i])
        ELSE upTo[i - 1]
  IN  upTo[Len(new)]

AppendGo(old, new) ==
  IF old = Broken \/ new = Broken \/ old.pkg # new.pkg THEN Failed
  ELSE Merged([old EXCEPT !.imports = AddImports(@, new.imports),
                          !.body = @ \o NewFuncs(@, new.body)])

AppendTo(language, old, new) ==
  CASE language = "go" -> AppendGo(old, new)
    [] language = "ts" -> AppendTS(old, new)
    [] language = "python" -> AppendPython(old, new)
    [] OTHER -> Failed
=============================================================================
