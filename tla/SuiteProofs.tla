---------------------------- MODULE SuiteProofs ----------------------------
(***************************************************************************)
(* For any pages, functions, imports, edits of the user, locators, URLs    *)
(* and clock:                                                              *)
(*                                                                         *)
(*  - a skipped probe is a fresh one.  What is inductive is that a marker  *)
(*    that can be read is the one the last probe to end wrote: a crash     *)
(*    leaves the old one or one that cannot be read;                       *)
(*  - healing replaces on failure only locators an error of the report     *)
(*    mentions first, and by what finds an element of some UI file.  What  *)
(*    is inductive is ListsInv: the report and the errors of its results   *)
(*    are lists, and so are the steps of every test, so that the lines of  *)
(*    a file that are written are the lines it then has (LinesWritten);    *)
(*  - a generated header stands at most at the top of the file and behind  *)
(*    a report of its quality, and merging what was merged last changes    *)
(*    nothing, if the symbol is spelled alike or only titles that are      *)
(*    lower-cased have it.  Inductive is FilesInv: the file on disk and    *)
(*    every file that is generated are well formed (IsFile), and the disk  *)
(*    has what was merged last, its tests in one stretch, its functions    *)
(*    and its imports (LastIsIn), which appending, healing and the user's  *)
(*    edits leave there or make `last` forget.                             *)
(***************************************************************************)
EXTENDS Suite, FilteringProofs, FiniteSetTheorems, TLAPS

Readable == marker \notin {NoMarker, Torn}
MarkerIsLast == Readable => marker = done

(* No action but Start decides to skip, and none but WriteState and Crash  *)
(* touches the marker.                                                     *)
LEMMA OthersKeepTheMarker ==
  ASSUME ChangeSource \/ UserStarts \/ UserAdds \/ UserDeletes \/ Start \/ Write \/ End
           \/ Tick \/ RunTests \/ HealOnFailure \/ HealDiff \/ UNCHANGED vars
  PROVE  UNCHANGED <<marker, done>>
<1>1. ASSUME ChangeSource \/ UserStarts \/ UserAdds \/ UserDeletes
      PROVE  UNCHANGED <<marker, done>>
  BY <1>1 DEF ChangeSource, UserStarts, UserAdds, UserDeletes, run
<1>2. ASSUME Start \/ Write \/ End \/ Tick
      PROVE  UNCHANGED <<marker, done>>
  BY <1>2 DEF Start, Write, End, Tick, run
<1>3. ASSUME RunTests \/ HealOnFailure \/ HealDiff
      PROVE  UNCHANGED <<marker, done>>
  BY <1>3 DEF RunTests, HealOnFailure, HealDiff, ApplyEdits, run
<1>4. ASSUME UNCHANGED vars
      PROVE  UNCHANGED <<marker, done>>
  BY <1>4 DEF vars
<1> QED BY <1>1, <1>2, <1>3, <1>4

(* WriteState and Crash keep the invariant: the one records what it wrote, *)
(* the other leaves the marker or tears it.                                *)
LEMMA WriteAndCrash ==
  ASSUME MarkerIsLast, WriteState \/ Crash
  PROVE  MarkerIsLast'
<1>1. CASE WriteState
  BY <1>1 DEF WriteState, MarkerIsLast
<1>2. CASE Crash
  <2>1. marker' \in {marker, Torn} /\ done' = done
    BY <1>2 DEF Crash
  <2> QED BY <2>1 DEF MarkerIsLast, Readable
<1> QED BY <1>1, <1>2

LEMMA MarkerStep ==
  ASSUME MarkerIsLast, [Next]_vars
  PROVE  MarkerIsLast'
<1>1. CASE WriteState \/ Crash
  BY <1>1, WriteAndCrash
<1>2. CASE ~(WriteState \/ Crash)
  <2>1. UNCHANGED <<marker, done>>
    BY <1>2, OthersKeepTheMarker DEF Next
  <2> QED BY <2>1 DEF MarkerIsLast, Readable
<1> QED BY <1>1, <1>2

(* SkipIsFresh (SuiteAlreadyCovers, probe/state.go): only Start decides to *)
(* skip, and it compares with a marker that is the last one written.       *)
THEOREM SkipsAreFresh == Spec => SkipIsFresh
<1>1. Init => MarkerIsLast
  BY DEF Init, MarkerIsLast, Readable
<1>2. MarkerIsLast /\ [Next]_vars => MarkerIsLast'
  BY MarkerStep
<1>3. MarkerIsLast /\ [Next]_vars =>
        [pc = "idle" /\ pc' = "skipped" =>
           /\ done # NoMarker
           /\ now - done.at <= StateTTL
           /\ NormalizeURLs(asked') = NormalizeURLs(done.urls)]_vars
  <2> SUFFICES ASSUME MarkerIsLast, [Next]_vars, pc = "idle", pc' = "skipped"
               PROVE  /\ done # NoMarker
                      /\ now - done.at <= StateTTL
                      /\ NormalizeURLs(asked') = NormalizeURLs(done.urls)
    OBVIOUS
  <2>1. Start
    <3>1. ~UNCHANGED pc
      OBVIOUS
    <3>2. ~(ChangeSource \/ UserStarts \/ UserAdds \/ UserDeletes \/ Tick)
      BY <3>1 DEF ChangeSource, UserStarts, UserAdds, UserDeletes, Tick, run
    <3>3. ~(RunTests \/ HealOnFailure \/ HealDiff)
      BY <3>1 DEF RunTests, HealOnFailure, HealDiff, ApplyEdits, run
    <3>4. ~(Write \/ WriteState \/ End \/ Crash)
      BY DEF Write, WriteState, End, Crash
    <3> QED BY <3>1, <3>2, <3>3, <3>4 DEF Next, vars
  <2>2. PICK urls \in URLs[lang] : asked' = urls /\ SuiteAlreadyCovers(urls)
    BY <2>1 DEF Start
  <2>3. Readable /\ marker = done
    BY <2>2 DEF SuiteAlreadyCovers, Readable, MarkerIsLast
  <2> QED BY <2>2, <2>3 DEF SuiteAlreadyCovers, Readable
<1> QED BY <1>1, <1>2, <1>3, PTL DEF Spec, SkipIsFresh

-----------------------------------------------------------------------------
(* A sequence is one of its own elements; most lemmas need no more of it.  *)
IsSeq(s) == s \in Seq(Range(s))

LEMMA SequenceOf ==
  ASSUME NEW S, NEW s \in Seq(S)
  PROVE  IsSeq(s) /\ DOMAIN s = 1..Len(s) /\ Len(s) \in Nat /\ Range(s) \subseteq S
<1>1. DOMAIN s = 1..Len(s) /\ Len(s) \in Nat /\ s \in [1..Len(s) -> S]
  OBVIOUS
<1>2. Range(s) \subseteq S /\ \A i \in 1..Len(s) : s[i] \in Range(s)
  BY <1>1 DEF Range
<1> QED
  BY <1>1, <1>2 DEF IsSeq

(* What AddImports returns has the old imports and the new ones, and is    *)
(* the old sequence when no import is new.                                 *)
LEMMA ImportsAdded ==
  ASSUME NEW old, NEW new, IsSeq(old), IsSeq(new)
  PROVE  /\ IsSeq(AddImports(old, new))
         /\ Range(AddImports(old, new)) = Range(old) \cup Range(new)
         /\ Range(new) \subseteq Range(old) => AddImports(old, new) = old
<1> DEFINE S == Range(old) \cup Range(new)
           step == [i \in Nat |-> [q \in Seq(S) |->
                      IF i \in DOMAIN new
                      THEN IF new[i] \in Range(q) THEN q ELSE Append(q, new[i]) ELSE q]]
           Def(g) == g = [i \in 0..Len(new) |->
                            IF i = 0 THEN old
                            ELSE IF new[i] \in Range(g[i - 1]) THEN g[i - 1]
                            ELSE Append(g[i - 1], new[i])]
           f == CHOOSE g : Def(g)
<1>1. /\ Len(new) \in Nat /\ DOMAIN new = 1..Len(new) /\ \A i \in 1..Len(new) : new[i] \in S
      /\ old \in Seq(S)
  <2>1. new \in Seq(Range(new)) /\ old \in Seq(Range(old))
    BY DEF IsSeq
  <2> QED
    BY <2>1
<1>2. step \in [Nat -> [Seq(S) -> Seq(S)]]
  <2> HIDE DEF S
  <2> QED
    BY <1>1
<1>3. \E g : Def(g)
  <2>1. PICK g \in [0..Len(new) -> Seq(S)] :
          g = [i \in 0..Len(new) |-> IF i = 0 THEN old ELSE step[i][g[i - 1]]]
    <3> HIDE DEF step, S
    <3>1. Computed(Seq(S), old, step, Len(new)) # {}
      BY <1>1, <1>2, RecursiveFunction
    <3> QED
      BY <3>1 DEF Computed
  <2> HIDE DEF S
  <2>2. ASSUME NEW i \in 0..Len(new)
        PROVE  g[i] = IF i = 0 THEN old
                      ELSE IF new[i] \in Range(g[i - 1]) THEN g[i - 1]
                      ELSE Append(g[i - 1], new[i])
    <3>1. CASE i = 0
      BY <2>1, <3>1
    <3>2. CASE i # 0
      <4>1. i \in Nat /\ i \in DOMAIN new /\ g[i - 1] \in Seq(S)
        BY <1>1, <3>2
      <4>2. g[i] = step[i][g[i - 1]]
        BY <2>1, <3>2
      <4> QED
        BY <3>2, <4>1, <4>2
    <3> QED
      BY <3>1, <3>2
  <2>3. Def(g)
    BY <2>2
  <2> HIDE DEF Def
  <2> QED
    BY <2>3
<1>4. Def(f)
  <2> HIDE DEF Def
  <2> QED
    BY <1>3
<1>5. /\ f[0] = old
      /\ \A i \in 1..Len(new) :
           f[i] = IF new[i] \in Range(f[i - 1]) THEN f[i - 1] ELSE Append(f[i - 1], new[i])
  <2> HIDE DEF f
  <2>1. \A i \in 0..Len(new) :
          f[i] = IF i = 0 THEN old
                 ELSE IF new[i] \in Range(f[i - 1]) THEN f[i - 1]
                 ELSE Append(f[i - 1], new[i])
    BY <1>4, Zenon
  <2> QED
    BY <1>1, <2>1
<1>6. AddImports(old, new) = f[Len(new)]
  BY DEF AddImports
<1> DEFINE Good(i) == /\ f[i] \in Seq(S)
                      /\ Range(f[i]) = Range(old) \cup {new[k] : k \in 1..i}
                      /\ Range(new) \subseteq Range(old) => f[i] = old
           N == {i \in Nat : i <= Len(new) => Good(i)}
<1>7. N = Nat
  <2> HIDE DEF f, S
  <2>1. 0 \in N
    BY <1>1, <1>5
  <2>2. ASSUME NEW i \in N PROVE i + 1 \in N
    <3> SUFFICES ASSUME i + 1 <= Len(new) PROVE Good(i + 1)
      OBVIOUS
    <3>1. Good(i) /\ i + 1 \in 1..Len(new) /\ (i + 1) - 1 = i /\ i \in Nat
      BY <1>1
    <3>2. f[i + 1] = IF new[i + 1] \in Range(f[i]) THEN f[i] ELSE Append(f[i], new[i + 1])
      BY <1>5, <3>1
    <3>3. {new[k] : k \in 1..i + 1} = {new[k] : k \in 1..i} \cup {new[i + 1]}
      <4>1. 1..i + 1 = 1..i \cup {i + 1}
        BY <3>1
      <4> QED
        BY <4>1
    <3>4. CASE new[i + 1] \in Range(f[i])
      BY <3>1, <3>2, <3>3, <3>4
    <3>5. CASE new[i + 1] \notin Range(f[i])
      <4>1. new[i + 1] \in S /\ new[i + 1] \in Range(new)
        BY <1>1, <3>1 DEF Range
      <4>2. f[i + 1] \in Seq(S) /\ Range(f[i + 1]) = Range(f[i]) \cup {new[i + 1]}
        <5>1. /\ Append(f[i], new[i + 1]) \in Seq(S)
              /\ Elements(Append(f[i], new[i + 1])) = Elements(f[i]) \cup {new[i + 1]}
          BY <3>1, <4>1, AppendElements
        <5>2. /\ Elements(f[i]) = Range(f[i])
              /\ Elements(Append(f[i], new[i + 1])) = Range(Append(f[i], new[i + 1]))
          BY DEF Elements, Range
        <5> QED
          BY <3>2, <3>5, <5>1, <5>2
      <4>3. ~(Range(new) \subseteq Range(old))
        BY <3>1, <3>5, <4>1
      <4> QED
        BY <3>1, <3>3, <4>2, <4>3
    <3> QED
      BY <3>4, <3>5
  <2>3. N \subseteq Nat
    OBVIOUS
  <2> HIDE DEF N
  <2> QED
    BY <2>1, <2>2, <2>3, SetInduction
<1> HIDE DEF f, S
<1>8. Good(Len(new))
  <2> HIDE DEF Good
  <2> QED
    BY <1>1, <1>7
<1>9. {new[k] : k \in 1..Len(new)} = Range(new)
  BY <1>1 DEF Range
<1>10. IsSeq(f[Len(new)])
  BY <1>8, SequenceOf
<1> QED
  BY <1>6, <1>8, <1>9, <1>10

-----------------------------------------------------------------------------
(* Sequences of blocks.                                                    *)
Joins(c, a, b) ==
  /\ IsSeq(c) /\ Len(a) \in Nat /\ Len(b) \in Nat
  /\ DOMAIN a = 1..Len(a) /\ DOMAIN b = 1..Len(b)
  /\ Len(c) = Len(a) + Len(b) /\ DOMAIN c = 1..(Len(a) + Len(b))
  /\ \A i \in 1..Len(a) : c[i] = a[i]
  /\ \A i \in 1..Len(b) : c[Len(a) + i] = b[i]

LEMMA JoinedSequences ==
  ASSUME NEW a, NEW b, IsSeq(a), IsSeq(b)
  PROVE  Joins(a \o b, a, b)
<1> DEFINE S == Range(a) \cup Range(b)
<1>1. a \in Seq(Range(a)) /\ b \in Seq(Range(b))
  BY DEF IsSeq
<1>2. a \in Seq(S) /\ b \in Seq(S)
  BY <1>1
<1> HIDE DEF S
<1>3. /\ a \o b \in Seq(S) /\ Len(a) \in Nat /\ Len(b) \in Nat
      /\ DOMAIN a = 1..Len(a) /\ DOMAIN b = 1..Len(b)
      /\ Len(a \o b) = Len(a) + Len(b) /\ DOMAIN (a \o b) = 1..(Len(a) + Len(b))
      /\ \A i \in 1..Len(a) : (a \o b)[i] = a[i]
      /\ \A i \in 1..Len(b) : (a \o b)[Len(a) + i] = b[i]
  BY <1>2
<1> QED
  BY <1>3, SequenceOf DEF Joins

LEMMA RestOfSequence ==
  ASSUME NEW a, IsSeq(a), NEW h \in 0..1, h <= Len(a)
  PROVE  LET r == SubSeq(a, h + 1, Len(a)) IN
         /\ IsSeq(r) /\ Len(a) \in Nat /\ Len(r) = Len(a) - h /\ DOMAIN r = 1..(Len(a) - h)
         /\ \A i \in 1..(Len(a) - h) : r[i] = a[h + i]
<1> DEFINE S == Range(a)  r == SubSeq(a, h + 1, Len(a))
<1>1. a \in Seq(S)
  BY DEF IsSeq
<1> HIDE DEF S
<1>2. /\ r \in Seq(S) /\ Len(a) \in Nat /\ Len(r) = Len(a) - h /\ DOMAIN r = 1..(Len(a) - h)
      /\ \A i \in 1..(Len(a) - h) : r[i] = a[h + i]
  BY <1>1
<1> HIDE DEF r
<1>3. IsSeq(r)
  BY <1>2, SequenceOf
<1> QED
  BY <1>2, <1>3 DEF r

IsBlock(b) == b = Block(b.is, b.name, b.sym, b.v, b.needs)
Headed(body) == \A i \in DOMAIN body : body[i].is = "doc" /\ i > 1 => body[i - 1].is = "report"
Blocks(body) ==
  /\ IsSeq(body) /\ body # << >> /\ \A i \in DOMAIN body : IsBlock(body[i])
  /\ Headed(body)
IsFile(f) == f = SourceFile(f.pkg, f.imports, f.body) /\ IsSeq(f.imports) /\ Blocks(f.body)

(* What StripQuailHeader takes from a file that does not begin with a doc  *)
(* comment of a person.                                                    *)
Header(body) == IF body[1].is \in {"doc", "py"} THEN 1 ELSE 0

LEMMA HeaderStripped ==
  ASSUME NEW body, IsSeq(body), body # << >>, body[1].is # "userdoc"
  PROVE  /\ StripQuailHeader(body) = SubSeq(body, Header(body) + 1, Len(body))
         /\ Header(body) \in 0..1 /\ Header(body) <= Len(body)
<1>1. body \in Seq(Range(body)) /\ Len(body) \in Nat \ {0}
  <2>1. body \in Seq(Range(body))
    BY DEF IsSeq
  <2> QED
    BY <2>1
<1>2. CASE body[1].is = "doc"
  <2>1. ASSUME NEW kinds, "doc" \in kinds PROVE FirstFrom(body, 1, kinds) = 1
    <3> DEFINE at == {i \in 1..Len(body) : body[i].is \in kinds}
    <3>1. 1 \in at /\ \A k \in at : 1 <= k /\ k \in Nat
      BY <1>1, <1>2, <2>1
    <3>2. FirstFrom(body, 1, kinds) = IF at = {} THEN 0 ELSE CHOOSE i \in at : \A k \in at : i <= k
      BY DEF FirstFrom
    <3> HIDE DEF at
    <3>3. \A i \in at : (\A k \in at : i <= k) <=> i = 1
      BY <3>1
    <3> QED
      BY <3>1, <3>2, <3>3
  <2>2. StripDoc(body) = SubSeq(body, 2, Len(body))
    BY <2>1 DEF StripDoc
  <2> QED
    BY <1>1, <1>2, <2>2 DEF StripQuailHeader, Header
<1>3. CASE body[1].is = "py"
  <2>1. Tail(body) = SubSeq(body, 2, Len(body))
    BY <1>1
  <2> QED
    BY <1>1, <1>3, <2>1 DEF StripQuailHeader, Header
<1>4. CASE body[1].is \notin {"doc", "py", "userdoc"}
  <2>1. SubSeq(body, 1, Len(body)) = body
    BY <1>1
  <2> QED
    BY <1>1, <1>4, <2>1 DEF StripQuailHeader, Header
<1> QED
  BY <1>2, <1>3, <1>4

-----------------------------------------------------------------------------
(* Generated files.  One of a page is quail's header, perhaps behind a     *)
(* quality report, and then tests.                                         *)
TestKinds == {"test", "dashed"}
PageTests(body) ==
  \E d \in 1..2 : /\ d < Len(body) /\ body[d].is = "doc"
                  /\ d = 2 => body[1].is = "report"
                  /\ \A i \in d + 1..Len(body) : body[i].is \in TestKinds

LEMMA SetAsSequence ==
  ASSUME NEW S, IsFiniteSet(S)
  PROVE  IsSeq(SetToSeq(S))
<1> DEFINE n == Cardinality(S)  D == 1..n
<1>1. n \in Nat /\ ExistsBijection(D, S)
  BY FS_CardinalityType
<1>2. PICK f \in [D -> S] : IsInjective(f)
  BY <1>1 DEF ExistsBijection, Bijection, Injection
<1>3. SetToSeq(S) \in [D -> S]
  BY <1>2 DEF SetToSeq
<1>4. SetToSeq(S) \in Seq(S)
  <2> HIDE DEF n
  <2> QED
    BY <1>1, <1>3
<1> QED
  BY <1>4, SequenceOf

LEMMA BlockFields ==
  ASSUME NEW is, NEW name, NEW sym, NEW v, NEW needs
  PROVE  /\ IsBlock(Block(is, name, sym, v, needs))
         /\ Block(is, name, sym, v, needs).is = is /\ Block(is, name, sym, v, needs).v = v
BY DEF IsBlock, Block

LEMMA OneElement ==
  ASSUME NEW x
  PROVE  <<x>> \in Seq({x}) /\ IsSeq(<<x>>) /\ Len(<<x>>) = 1 /\ <<x>>[1] = x
<1>1. <<x>> \in Seq({x}) /\ Len(<<x>>) = 1 /\ <<x>>[1] = x
  OBVIOUS
<1> QED
  BY <1>1, SequenceOf

LEMMA AtMostOneTest ==
  ASSUME NEW T, NEW name, NEW sym, NEW steps, NEW needed, TestOf(name, sym, steps) \in T
  PROVE  NegativeTest(name, sym, steps, needed) \in Seq(T)
<1> DEFINE b == TestOf(name, sym, steps)
<1>1. b \in T
  OBVIOUS
<1> HIDE DEF b
<1>2. <<b>> \in Seq(T) /\ << >> \in Seq(T)
  BY <1>1
<1> QED
  BY <1>2 DEF NegativeTest, b

StepsOf(page) ==
  {WalkSteps(page), SubmitStep(page) \o Located(FirstRequiredInput(page.inputs)),
   Located(FirstEmailInput(page.inputs)) \o SubmitStep(page),
   Located(FirstOversizableInput(page.inputs))}

LEMMA TestsGenerated ==
  ASSUME NEW page, NEW sym
  PROVE  LET s == TestsOf(page, sym) IN
         /\ IsSeq(s) /\ s # << >>
         /\ \A i \in DOMAIN s : IsBlock(s[i]) /\ s[i].is \in TestKinds /\ s[i].v \in StepsOf(page)
<1> DEFINE T == {Block(is, n, sym, v, {}) :
                   is \in TestKinds, n \in {"happy", "required", "malformed", "oversized"},
                   v \in StepsOf(page)}
           first == <<HappyTest(page, sym)>>
           rest == Negatives(page, sym)
<1>1. \A b \in T : IsBlock(b) /\ b.is \in TestKinds /\ b.v \in StepsOf(page)
  BY BlockFields
<1>2. first \in Seq(T) /\ Len(first) = 1
  <2>1. HappyTest(page, sym) \in T
    BY DEF HappyTest, StepsOf, TestKinds
  <2> HIDE DEF T
  <2> QED
    BY <2>1
<1>3. rest \in Seq(T)
  <2>1. NegativeTest("required", sym, SubmitStep(page) \o Located(FirstRequiredInput(page.inputs)), 2) \in Seq(T)
    <3>1. TestOf("required", sym, SubmitStep(page) \o Located(FirstRequiredInput(page.inputs))) \in T
      BY DEF TestOf, StepsOf, TestKinds
    <3> HIDE DEF T
    <3> QED
      BY <3>1, AtMostOneTest
  <2>2. NegativeTest("malformed", sym, Located(FirstEmailInput(page.inputs)) \o SubmitStep(page), 2) \in Seq(T)
    <3>1. TestOf("malformed", sym, Located(FirstEmailInput(page.inputs)) \o SubmitStep(page)) \in T
      BY DEF TestOf, StepsOf, TestKinds
    <3> HIDE DEF T
    <3> QED
      BY <3>1, AtMostOneTest
  <2>3. NegativeTest("oversized", sym, Located(FirstOversizableInput(page.inputs)), 1) \in Seq(T)
    <3>1. TestOf("oversized", sym, Located(FirstOversizableInput(page.inputs))) \in T
      BY DEF TestOf, StepsOf, TestKinds
    <3> HIDE DEF T
    <3> QED
      BY <3>1, AtMostOneTest
  <2> HIDE DEF T
  <2> QED
    BY <2>1, <2>2, <2>3 DEF Negatives
<1> HIDE DEF T, first, rest
<1>4. first \o rest \in Seq(T) /\ Len(first \o rest) # 0
  BY <1>2, <1>3
<1>5. TestsOf(page, sym) = first \o rest
  BY DEF TestsOf, first, rest
<1> DEFINE s == TestsOf(page, sym)
<1>6. s \in Seq(T) /\ s # << >>
  BY <1>4, <1>5
<1> HIDE DEF s
<1>7. IsSeq(s) /\ \A i \in DOMAIN s : s[i] \in T
  BY <1>6, SequenceOf
<1> QED
  BY <1>1, <1>6, <1>7 DEF s

LEMMA PageRendered ==
  ASSUME NEW page, NEW sym
  PROVE  Blocks(Render(page, sym).body) /\ PageTests(Render(page, sym).body)
<1> DEFINE tests == TestsOf(page, sym)  doc == <<Comment("doc")>>
           note == <<Block("report", "", NoSymbol, << >>, QualityNotes(page))>>
           short == doc \o tests  long == note \o short
<1>1. /\ IsSeq(tests) /\ tests # << >>
      /\ \A i \in DOMAIN tests : IsBlock(tests[i]) /\ tests[i].is \in TestKinds
  <2> HIDE DEF tests
  <2> QED
    BY TestsGenerated DEF tests
<1> HIDE DEF tests
<1>2. /\ IsSeq(doc) /\ IsSeq(note) /\ Len(doc) = 1 /\ Len(note) = 1
      /\ IsBlock(doc[1]) /\ doc[1].is = "doc" /\ IsBlock(note[1]) /\ note[1].is = "report"
  <2> DEFINE e == ""  r == Block("report", e, NoSymbol, << >>, QualityNotes(page))
  <2>1. Comment("doc") = Block("doc", e, NoSymbol, << >>, {}) /\ note = <<r>>
    BY DEF Comment, note
  <2> HIDE DEF e
  <2>2. /\ IsBlock(Block("doc", e, NoSymbol, << >>, {})) /\ Block("doc", e, NoSymbol, << >>, {}).is = "doc"
        /\ IsBlock(r) /\ r.is = "report"
    BY BlockFields
  <2> HIDE DEF r
  <2>3. /\ IsSeq(doc) /\ Len(doc) = 1 /\ doc[1] = Comment("doc")
        /\ IsSeq(<<r>>) /\ Len(<<r>>) = 1 /\ <<r>>[1] = r
    BY OneElement
  <2> QED
    BY <2>1, <2>2, <2>3
<1> HIDE DEF doc, note
<1>3. /\ IsSeq(short) /\ Len(tests) \in Nat \ {0} /\ Len(short) = Len(tests) + 1
      /\ DOMAIN short = 1..Len(tests) + 1 /\ DOMAIN tests = 1..Len(tests)
      /\ short[1] = doc[1] /\ \A i \in 1..Len(tests) : short[1 + i] = tests[i]
  <2>1. tests \in Seq(Range(tests))
    BY <1>1 DEF IsSeq
  <2>2. Len(tests) # 0
    BY <1>1, <2>1
  <2>3. Joins(short, doc, tests)
    BY <1>1, <1>2, JoinedSequences
  <2> HIDE DEF short
  <2> QED
    BY <1>2, <2>2, <2>3 DEF Joins
<1>4. \A i \in 2..Len(tests) + 1 : IsBlock(short[i]) /\ short[i].is \in TestKinds
  <2>1. \A i \in 2..Len(tests) + 1 : i - 1 \in 1..Len(tests) /\ 1 + (i - 1) = i
    BY <1>3
  <2> QED
    BY <1>1, <1>3, <2>1
<1> HIDE DEF short
<1>5. /\ IsSeq(long) /\ Len(long) = Len(tests) + 2 /\ DOMAIN long = 1..Len(tests) + 2
      /\ long[1] = note[1] /\ \A i \in 1..Len(tests) + 1 : long[1 + i] = short[i]
  <2>1. Joins(long, note, short)
    BY <1>2, <1>3, JoinedSequences
  <2> HIDE DEF long
  <2> QED
    BY <1>2, <1>3, <2>1 DEF Joins
<1>6. /\ IsBlock(long[2]) /\ long[2].is = "doc"
      /\ \A i \in 3..Len(tests) + 2 : IsBlock(long[i]) /\ long[i].is \in TestKinds
  <2>1. \A i \in 3..Len(tests) + 2 : i - 1 \in 2..Len(tests) + 1 /\ 1 + (i - 1) = i
    BY <1>3
  <2> QED
    BY <1>2, <1>3, <1>4, <1>5, <2>1
<1> HIDE DEF long
<1>7. Blocks(short) /\ PageTests(short)
  BY <1>2, <1>3, <1>4 DEF Blocks, Headed, PageTests, TestKinds
<1>8. Blocks(long) /\ PageTests(long)
  <2>1. \A i \in 1..Len(tests) + 2 : IsBlock(long[i])
    BY <1>2, <1>3, <1>5, <1>6
  <2>2. Headed(long)
    BY <1>2, <1>3, <1>5, <1>6 DEF Headed, TestKinds
  <2>3. PageTests(long)
    BY <1>2, <1>3, <1>5, <1>6 DEF PageTests
  <2> QED
    BY <1>3, <1>5, <2>1, <2>2, <2>3 DEF Blocks
<1>9. Render(page, sym).body \in {short, long}
  BY DEF Render, AnnotateQualityReport, SourceFile, short, long, doc, note, tests
<1> QED
  BY <1>7, <1>8, <1>9

LEMMA FileFields ==
  ASSUME NEW pkg, NEW imports, NEW body
  PROVE  LET f == SourceFile(pkg, imports, body) IN
         /\ f = SourceFile(f.pkg, f.imports, f.body)
         /\ f.pkg = pkg /\ f.imports = imports /\ f.body = body
BY DEF SourceFile

LEMMA TwoElements ==
  ASSUME NEW x, NEW y
  PROVE  /\ IsSeq(<<x, y>>) /\ Len(<<x, y>>) = 2 /\ DOMAIN <<x, y>> = 1..2
         /\ <<x, y>>[1] = x /\ <<x, y>>[2] = y
<1>1. <<x, y>> \in Seq({x, y})
  OBVIOUS
<1>2. Len(<<x, y>>) = 2 /\ <<x, y>>[1] = x /\ <<x, y>>[2] = y
  OBVIOUS
<1>3. IsSeq(<<x, y>>) /\ DOMAIN <<x, y>> = 1..Len(<<x, y>>)
  BY <1>1, SequenceOf
<1> QED
  BY <1>2, <1>3

LEMMA PlainBlocks ==
  ASSUME NEW x, IsBlock(x), x.is # "doc"
  PROVE  /\ Blocks(<<x>>)
         /\ \A y : IsBlock(y) /\ y.is # "doc" => Blocks(<<x, y>>)
<1>1. Blocks(<<x>>)
  <2>1. IsSeq(<<x>>) /\ Len(<<x>>) = 1 /\ <<x>>[1] = x
    BY OneElement
  <2>2. <<x>> # << >> /\ DOMAIN <<x>> = 1..1
    OBVIOUS
  <2> QED
    BY <2>1, <2>2 DEF Blocks, Headed
<1>2. ASSUME NEW y, IsBlock(y), y.is # "doc" PROVE Blocks(<<x, y>>)
  <2>1. /\ IsSeq(<<x, y>>) /\ Len(<<x, y>>) = 2 /\ DOMAIN <<x, y>> = 1..2
        /\ <<x, y>>[1] = x /\ <<x, y>>[2] = y
    BY TwoElements
  <2>2. <<x, y>> # << >>
    OBVIOUS
  <2> QED
    BY <1>2, <2>1, <2>2 DEF Blocks, Headed
<1> QED
  BY <1>1, <1>2

LEMMA NewFile ==
  ASSUME lang \in Languages, source \in Sources
  PROVE  /\ IsFile(Generated)
         /\ lang = "ts" => PageTests(Generated.body)
         /\ lang = "go" => /\ Generated.pkg = "shop"
                           /\ \E b : IsBlock(b) /\ b.is = "func" /\ Generated.body = <<b>>
         /\ lang = "python" => \E b, c : /\ IsBlock(b) /\ b.is = "py"
                                         /\ IsBlock(c) /\ c.is = "test"
                                         /\ Generated.body = <<b, c>>
<1> DEFINE e == ""
<1>0. lang \in {"ts", "feature", "go", "python"}
  BY SuiteAssumption
<1>1. CASE lang = "ts"
  <2> DEFINE b == Render(source, source.sym).body
             body == AnnotateQualityReport(<<Comment("doc")>> \o TestsOf(source, source.sym), source)
  <2>1. Generated = Render(source, source.sym)
    BY <1>1 DEF Generated
  <2>2. Render(source, source.sym) = SourceFile(e, <<"test">>, body)
    BY DEF Render
  <2> HIDE DEF e, body
  <2>3. Blocks(b) /\ PageTests(b)
    BY PageRendered
  <2>4. IsSeq(<<"test">>)
    BY OneElement
  <2> QED
    BY <1>1, <2>1, <2>2, <2>3, <2>4, FileFields DEF IsFile
<1>2. CASE lang = "go"
  <2> DEFINE b == Block("func", "TestTotal", NoSymbol, << >>, source)
  <2>1. Generated = SourceFile("shop", SetToSeq(source), <<b>>)
    BY <1>2 DEF Generated, GoTest
  <2> HIDE DEF e
  <2>2. IsBlock(b) /\ b.is = "func"
    BY BlockFields
  <2> HIDE DEF b
  <2>3. Blocks(<<b>>)
    BY <2>2, PlainBlocks
  <2>4. IsSeq(SetToSeq(source))
    BY <1>2, SetAsSequence, SuiteAssumption DEF Sources, Probed
  <2> QED
    BY <1>2, <2>1, <2>2, <2>3, <2>4, FileFields DEF IsFile
<1>3. CASE lang = "python"
  <2> DEFINE b == Block("py", e, NoSymbol, << >>, {})  c == Block("test", "test_total", NoSymbol, << >>, {})
  <2>1. Generated = SourceFile(e, <<"pytest">>, <<b, c>>)
    BY <1>3 DEF Generated, PyTest, Comment
  <2> HIDE DEF e
  <2>2. IsBlock(b) /\ b.is = "py" /\ IsBlock(c) /\ c.is = "test"
    BY BlockFields
  <2> HIDE DEF b, c
  <2>3. Blocks(<<b, c>>)
    BY <2>2, PlainBlocks
  <2>4. IsSeq(<<"pytest">>)
    BY OneElement
  <2> QED
    BY <1>3, <2>1, <2>2, <2>3, <2>4, FileFields DEF IsFile
<1>4. CASE lang = "feature"
  <2> DEFINE b == Block("scenario", "save", NoSymbol, << >>, {})
  <2>1. Generated = SourceFile(e, << >>, <<b>>)
    BY <1>4 DEF Generated, Feature
  <2> HIDE DEF e
  <2>2. IsBlock(b) /\ b.is = "scenario"
    BY BlockFields
  <2> HIDE DEF b
  <2>3. Blocks(<<b>>)
    BY <2>2, PlainBlocks
  <2>4. IsSeq(<< >>)
    <3>1. << >> \in Seq({})
      OBVIOUS
    <3> QED
      BY <3>1, SequenceOf
  <2> QED
    BY <1>4, <2>1, <2>3, <2>4, FileFields DEF IsFile
<1> QED
  BY <1>0, <1>1, <1>2, <1>3, <1>4

-----------------------------------------------------------------------------
(* Merging.  What is added to a file has a header only behind a report.    *)
Chunk(c) ==
  /\ IsSeq(c)
  /\ \A i \in DOMAIN c : IsBlock(c[i]) /\ (c[i].is = "doc" => i > 1 /\ c[i - 1].is = "report")

LEMMA ChunkOfPage ==
  ASSUME NEW body, Blocks(body), PageTests(body)
  PROVE  LET c == StripQuailHeader(body) IN
         /\ Chunk(c) /\ Len(c) \in Nat \ {0} /\ c[1].is \in {"report"} \cup TestKinds
         /\ body[1].is \in {"doc", "report"}
<1> DEFINE h == Header(body)  c == SubSeq(body, h + 1, Len(body))
<1>1. PICK d \in 1..2 : /\ d < Len(body) /\ body[d].is = "doc"
                        /\ d = 2 => body[1].is = "report"
                        /\ \A i \in d + 1..Len(body) : body[i].is \in TestKinds
  BY DEF PageTests
<1>2. /\ IsSeq(body) /\ body # << >> /\ DOMAIN body = 1..Len(body) /\ Len(body) \in Nat
      /\ \A i \in DOMAIN body : IsBlock(body[i])
  <2>1. body \in Seq(Range(body))
    BY DEF Blocks, IsSeq
  <2> QED
    BY <2>1 DEF Blocks
<1>3. body[1].is = IF d = 1 THEN "doc" ELSE "report"
  BY <1>1
<1>4. h = 2 - d /\ StripQuailHeader(body) = c
  BY <1>1, <1>2, <1>3, HeaderStripped DEF Header
<1>5. /\ IsSeq(c) /\ Len(c) = Len(body) - h /\ DOMAIN c = 1..(Len(body) - h)
      /\ \A i \in 1..(Len(body) - h) : c[i] = body[h + i]
  BY <1>1, <1>2, <1>4, RestOfSequence
<1> HIDE DEF h, c
<1>6. CASE d = 1
  <2>1. \A i \in DOMAIN c : h + i \in 2..Len(body) /\ c[i] = body[h + i]
    BY <1>1, <1>2, <1>4, <1>5, <1>6
  <2>2. \A i \in DOMAIN c : IsBlock(c[i]) /\ c[i].is \in TestKinds
    BY <1>1, <1>2, <1>6, <2>1
  <2> QED
    BY <1>1, <1>2, <1>3, <1>4, <1>5, <1>6, <2>2 DEF Chunk, TestKinds
<1>7. CASE d = 2
  <2>1. Len(c) = Len(body) /\ DOMAIN c = 1..Len(body) /\ \A i \in 1..Len(body) : c[i] = body[i]
    BY <1>2, <1>4, <1>5, <1>7
  <2> QED
    BY <1>1, <1>2, <1>3, <1>4, <1>5, <1>7, <2>1 DEF Chunk, TestKinds
<1> QED
  BY <1>6, <1>7

LEMMA ChunkAdded ==
  ASSUME NEW body, NEW c, Blocks(body), Chunk(c)
  PROVE  Blocks(body \o c) /\ Joins(body \o c, body, c)
<1> DEFINE j == body \o c
<1>1. Joins(j, body, c)
  BY JoinedSequences DEF Blocks, Chunk
<1>2. body # << >> /\ Len(body) \in Nat /\ Len(body) # 0
  <2>1. body \in Seq(Range(body)) /\ body # << >>
    BY DEF Blocks, IsSeq
  <2> QED
    BY <2>1
<1> HIDE DEF j
<1>3. \A i \in DOMAIN j : \/ i \in 1..Len(body) /\ j[i] = body[i]
                          \/ i - Len(body) \in 1..Len(c) /\ j[i] = c[i - Len(body)]
  <2> SUFFICES ASSUME NEW i \in 1..(Len(body) + Len(c))
               PROVE  \/ i \in 1..Len(body) /\ j[i] = body[i]
                      \/ i - Len(body) \in 1..Len(c) /\ j[i] = c[i - Len(body)]
    BY <1>1 DEF Joins
  <2>1. Len(body) \in Nat /\ Len(c) \in Nat
    BY <1>1 DEF Joins
  <2>2. CASE i \in 1..Len(body)
    BY <1>1, <2>2 DEF Joins
  <2>3. CASE i \notin 1..Len(body)
    <3>1. i - Len(body) \in 1..Len(c) /\ Len(body) + (i - Len(body)) = i
      BY <2>1, <2>3
    <3> QED
      BY <1>1, <3>1 DEF Joins
  <2> QED
    BY <2>2, <2>3
<1>4. \A i \in DOMAIN j : IsBlock(j[i])
  BY <1>1, <1>3 DEF Joins, Blocks, Chunk
<1>5. ASSUME NEW i \in DOMAIN j, j[i].is = "doc", i > 1
      PROVE  j[i - 1].is = "report"
  <2>1. i \in Nat /\ i - 1 \in Nat /\ Len(body) \in Nat /\ Len(c) \in Nat
    BY <1>1 DEF Joins
  <2>2. CASE i \in 1..Len(body) /\ j[i] = body[i]
    <3>1. i - 1 \in 1..Len(body) /\ i \in DOMAIN body
      BY <1>1, <1>5, <2>1, <2>2 DEF Joins
    <3>2. j[i - 1] = body[i - 1]
      BY <1>1, <3>1 DEF Joins
    <3> QED
      BY <1>5, <2>2, <3>1, <3>2 DEF Blocks, Headed
  <2>3. CASE i - Len(body) \in 1..Len(c) /\ j[i] = c[i - Len(body)]
    <3> DEFINE k == i - Len(body)
    <3>1. k \in DOMAIN c /\ c[k].is = "doc"
      BY <1>1, <1>5, <2>3 DEF Joins
    <3>2. k > 1 /\ c[k - 1].is = "report"
      BY <3>1 DEF Chunk
    <3>3. k - 1 \in 1..Len(c) /\ Len(body) + (k - 1) = i - 1
      BY <2>1, <2>3, <3>2
    <3>4. j[i - 1] = c[k - 1]
      <4> HIDE DEF k
      <4> QED
        BY <1>1, <3>3 DEF Joins
    <3> QED
      BY <3>2, <3>4
  <2> QED
    BY <1>3, <2>2, <2>3
<1>6. j # << >>
  BY <1>1, <1>2 DEF Joins
<1> QED
  BY <1>1, <1>4, <1>5, <1>6 DEF Joins, Blocks, Headed, j

Occurs(part, whole, m) ==
  \A i \in 1..Len(part) : m + i \in 1..Len(whole) /\ whole[m + i] = part[i]

LEMMA ContainedOccurs ==
  ASSUME NEW part, NEW whole, IsSeq(part), IsSeq(whole), Len(part) # 0
  PROVE  Contained(part, whole) <=> \E m \in Nat : Occurs(part, whole, m)
<1>1. /\ part \in Seq(Range(part)) /\ whole \in Seq(Range(whole))
      /\ Len(part) \in Nat \ {0} /\ Len(whole) \in Nat /\ part # << >>
      /\ DOMAIN part = 1..Len(part) /\ DOMAIN whole = 1..Len(whole)
  <2>1. part \in Seq(Range(part)) /\ whole \in Seq(Range(whole))
    BY DEF IsSeq
  <2> QED
    BY <2>1
<1>2. ASSUME NEW n \in DOMAIN whole
      PROVE  IsPrefix(part, SubSeq(whole, n, Len(whole))) <=> Occurs(part, whole, n - 1)
  <2> DEFINE rest == SubSeq(whole, n, Len(whole))
  <2>1. /\ rest \in Seq(Range(whole)) /\ Len(rest) = Len(whole) - n + 1
        /\ \A i \in 1..Len(whole) - n + 1 : rest[i] = whole[n + i - 1]
    BY <1>1
  <2>2. SubSeq(part, 1, Len(part)) = part
    BY <1>1
  <2> HIDE DEF rest
  <2>3. ASSUME Len(part) <= Len(rest)
        PROVE  SubSeq(rest, 1, Len(part)) = part <=> \A i \in 1..Len(part) : rest[i] = part[i]
    <3> DEFINE p == SubSeq(rest, 1, Len(part))
    <3>1. /\ p \in Seq(Range(whole)) /\ Len(p) = Len(part)
          /\ \A i \in 1..Len(part) : p[i] = rest[i]
      BY <1>1, <2>1, <2>3
    <3> HIDE DEF p
    <3>2. p = [i \in 1..Len(part) |-> p[i]] /\ part = [i \in 1..Len(part) |-> part[i]]
      BY <1>1, <3>1
    <3>3. (\A i \in 1..Len(part) : p[i] = part[i]) => p = part
      <4> SUFFICES ASSUME \A i \in 1..Len(part) : p[i] = part[i] PROVE p = part
        OBVIOUS
      <4>1. [i \in 1..Len(part) |-> p[i]] = [i \in 1..Len(part) |-> part[i]]
        OBVIOUS
      <4> QED
        BY <3>2, <4>1, Zenon
    <3> QED
      BY <3>1, <3>3 DEF p
  <2>4. CASE Len(part) <= Len(rest)
    <3>1. \A i \in 1..Len(part) : /\ (n - 1) + i \in 1..Len(whole)
                                  /\ rest[i] = whole[(n - 1) + i]
      <4> SUFFICES ASSUME NEW i \in 1..Len(part)
                   PROVE  (n - 1) + i \in 1..Len(whole) /\ rest[i] = whole[(n - 1) + i]
        OBVIOUS
      <4>1. /\ i \in Nat /\ n \in Nat /\ i \in 1..Len(whole) - n + 1
            /\ n + i - 1 = (n - 1) + i /\ (n - 1) + i \in 1..Len(whole)
        BY <1>1, <2>1, <2>4
      <4> QED
        BY <2>1, <4>1
    <3> QED
      BY <2>2, <2>3, <2>4, <3>1 DEF IsPrefix, Occurs, rest
  <2>5. CASE ~(Len(part) <= Len(rest))
    <3>1. Len(part) \in 1..Len(part) /\ ~((n - 1) + Len(part) \in 1..Len(whole))
      BY <1>1, <2>1, <2>5
    <3> QED
      BY <2>5, <3>1 DEF IsPrefix, Occurs, rest
  <2> QED
    BY <2>4, <2>5
<1>3. ASSUME NEW m \in Nat, Occurs(part, whole, m)
      PROVE  m + 1 \in DOMAIN whole /\ (m + 1) - 1 = m
  BY <1>1, <1>3 DEF Occurs
<1>4. \A n \in DOMAIN whole : n - 1 \in Nat
  BY <1>1
<1>5. Contained(part, whole) <=> \E n \in DOMAIN whole : Occurs(part, whole, n - 1)
  BY <1>1, <1>2 DEF Contained
<1> QED
  BY <1>3, <1>4, <1>5

LEMMA NormalizedBody ==
  ASSUME NEW body, IsSeq(body), body # << >>, body[1].is # "userdoc"
  PROVE  LET w == NormalizeForDedup(body)  h == Header(body) IN
         /\ IsSeq(w) /\ h \in 0..1 /\ Len(body) \in Nat /\ Len(w) = Len(body) - h
         /\ \A i \in 1..Len(w) : w[i] = Lowered(body[h + i])
<1> DEFINE w == NormalizeForDedup(body)  h == Header(body)  r == StripQuailHeader(body)
<1>1. /\ h \in 0..1 /\ IsSeq(r) /\ Len(body) \in Nat /\ Len(body) - h \in Nat
      /\ Len(r) = Len(body) - h /\ DOMAIN r = 1..(Len(body) - h)
      /\ \A i \in 1..(Len(body) - h) : r[i] = body[h + i]
  <2>1. h \in 0..1 /\ h <= Len(body) /\ r = SubSeq(body, h + 1, Len(body))
    BY HeaderStripped
  <2> HIDE DEF h, r
  <2> QED
    BY <2>1, RestOfSequence
<1>2. w = [i \in DOMAIN r |-> Lowered(r[i])]
  BY Zenon DEF NormalizeForDedup
<1> HIDE DEF w, h, r
<1>3. w \in Seq({Lowered(r[i]) : i \in DOMAIN r}) /\ Len(w) = Len(body) - h
  BY <1>1, <1>2
<1>4. \A i \in 1..Len(w) : w[i] = Lowered(body[h + i])
  BY <1>1, <1>2, <1>3
<1> QED
  BY <1>1, <1>3, <1>4, SequenceOf DEF w, h

(* Chunk c stands in a file behind its header, but for the spelling of the *)
(* symbol in front of a dash.                                              *)
Stands(c, body, k) ==
  /\ k \in Nat /\ Header(body) <= k
  /\ \A i \in 1..Len(c) : k + i \in 1..Len(body) /\ Lowered(body[k + i]) = Lowered(c[i])

(* A chunk is recognised exactly where it stands.                          *)
LEMMA KnownChunk ==
  ASSUME NEW c, NEW body, Chunk(c), Len(c) \in Nat \ {0}, c[1].is \in {"report"} \cup TestKinds,
         Blocks(body), body[1].is # "userdoc"
  PROVE  (/\ NormalizeForDedup(body) # << >>
          /\ Contained(NormalizeForDedup(c), NormalizeForDedup(body)))
           <=> \E k : Stands(c, body, k)
<1> DEFINE part == NormalizeForDedup(c)  whole == NormalizeForDedup(body)  h == Header(body)
<1>1. /\ IsSeq(part) /\ Len(part) = Len(c) /\ \A i \in 1..Len(c) : part[i] = Lowered(c[i])
  <2>1. IsSeq(c) /\ c # << >> /\ Header(c) = 0
    BY DEF Chunk, Header, TestKinds
  <2>2. (\A i \in 1..Len(c) : 0 + i = i) /\ Len(c) - 0 = Len(c)
    OBVIOUS
  <2>3. c[1].is # "userdoc"
    BY DEF TestKinds
  <2>4. /\ IsSeq(part) /\ Len(part) = Len(c) - 0
        /\ \A i \in 1..Len(part) : part[i] = Lowered(c[0 + i])
    BY <2>1, <2>3, NormalizedBody
  <2> HIDE DEF part
  <2> QED
    BY <2>2, <2>4
<1>2. /\ IsSeq(whole) /\ h \in 0..1 /\ Len(body) \in Nat /\ Len(whole) = Len(body) - h
      /\ \A i \in 1..Len(whole) : whole[i] = Lowered(body[h + i])
  BY NormalizedBody DEF Blocks
<1> HIDE DEF part, whole, h
<1>3. ASSUME NEW m \in Nat
      PROVE  Occurs(part, whole, m) <=> Stands(c, body, m + h)
  <2>1. m + h \in Nat /\ h <= m + h
    BY <1>2
  <2>2. ASSUME NEW i \in 1..Len(c)
        PROVE  m + i \in 1..Len(whole) /\ whole[m + i] = part[i]
                 <=> /\ (m + h) + i \in 1..Len(body)
                     /\ Lowered(body[(m + h) + i]) = Lowered(c[i])
    <3>1. i \in Nat /\ h + (m + i) = (m + h) + i
      BY <1>2
    <3>2. m + i \in 1..Len(whole) <=> (m + h) + i \in 1..Len(body)
      BY <1>2, <3>1
    <3>3. m + i \in 1..Len(whole) => whole[m + i] = Lowered(body[(m + h) + i])
      BY <1>2, <3>1
    <3> QED
      BY <1>1, <3>2, <3>3
  <2> QED
    BY <1>1, <2>1, <2>2 DEF Occurs, Stands, h
<1>4. ASSUME NEW k, Stands(c, body, k)
      PROVE  k - h \in Nat /\ (k - h) + h = k /\ whole # << >>
  <2>1. k \in Nat /\ h <= k /\ k + 1 \in 1..Len(body)
    BY <1>4 DEF Stands, h
  <2>2. Len(whole) # 0
    BY <1>2, <2>1
  <2> QED
    BY <1>2, <2>1, <2>2
<1>5. Contained(part, whole) <=> \E m \in Nat : Occurs(part, whole, m)
  BY <1>1, <1>2, ContainedOccurs
<1>6. (whole # << >> /\ Contained(part, whole)) <=> \E k : Stands(c, body, k)
  <2>1. ASSUME NEW k, Stands(c, body, k) PROVE \E m \in Nat : Occurs(part, whole, m)
    BY <1>3, <1>4, <2>1
  <2>2. ASSUME NEW m \in Nat, Occurs(part, whole, m) PROVE \E k : Stands(c, body, k)
    BY <1>3, <2>2
  <2> QED
    BY <1>4, <1>5, <2>1, <2>2
<1> QED
  BY <1>6 DEF part, whole

(* Whatever comes behind it, the chunk stays where it is.                  *)
LEMMA StandsOn ==
  ASSUME NEW c, NEW body, NEW d, NEW j, Joins(j, body, d), body # << >>, NEW k, Stands(c, body, k)
  PROVE  Stands(c, j, k)
<1>1. Len(body) \in Nat \ {0} /\ j[1] = body[1]
  <2>1. Len(body) # 0
    BY DEF Joins, Stands, IsSeq
  <2> QED
    BY <2>1 DEF Joins
<1>2. Header(j) = Header(body)
  BY <1>1 DEF Header
<1>3. /\ k \in Nat /\ Header(j) <= k
      /\ \A i \in 1..Len(c) : k + i \in 1..Len(body) /\ Lowered(body[k + i]) = Lowered(c[i])
  BY <1>2 DEF Stands
<1>4. /\ Len(j) = Len(body) + Len(d) /\ Len(d) \in Nat
      /\ \A i \in 1..Len(body) : j[i] = body[i]
  BY DEF Joins
<1>5. \A i \in 1..Len(c) : k + i \in 1..Len(j) /\ Lowered(j[k + i]) = Lowered(c[i])
  BY <1>1, <1>3, <1>4
<1> QED
  BY <1>3, <1>5 DEF Stands

-----------------------------------------------------------------------------
(* What merging makes of a file that is there.                             *)
LEMMA ReplacedParts ==
  ASSUME NEW f, IsFile(f), NEW imports, NEW body
  PROVE  [f EXCEPT !.imports = imports, !.body = body] = SourceFile(f.pkg, imports, body)
<1> DEFINE g == [f EXCEPT !.imports = imports]
<1>1. f = SourceFile(f.pkg, f.imports, f.body)
  BY DEF IsFile
<1>2. g = SourceFile(f.pkg, imports, f.body)
  BY <1>1 DEF SourceFile
<1>3. [g EXCEPT !.body = body] = SourceFile(f.pkg, imports, body)
  <2> HIDE DEF g
  <2> QED
    BY <1>2 DEF SourceFile
<1> QED
  BY <1>3

(* The merged file: its imports are those of both, its body the old one or *)
(* the old one with a chunk behind it.                                     *)
Extends(m, old, new) ==
  /\ IsFile(m) /\ m.pkg = old.pkg
  /\ Range(m.imports) = Range(old.imports) \cup Range(new.imports)

LEMMA BodyExtended ==
  ASSUME NEW old, NEW new, IsFile(old), IsFile(new), NEW body, Blocks(body)
  PROVE  LET m == SourceFile(old.pkg, AddImports(old.imports, new.imports), body) IN
         Extends(m, old, new) /\ m.body = body
<1>1. IsSeq(old.imports) /\ IsSeq(new.imports)
  BY DEF IsFile
<1> QED
  BY <1>1, ImportsAdded, FileFields DEF IsFile, Extends

LEMMA MergedTS ==
  ASSUME NEW old, NEW new, IsFile(old), IsFile(new), PageTests(new.body)
  PROVE  \E m : /\ AppendTS(old, new) = Merged(m) /\ Extends(m, old, new)
                /\ m.body[1].is # "userdoc" =>
                     \E k : Stands(StripQuailHeader(new.body), m.body, k)
<1> DEFINE c == StripQuailHeader(new.body)
           known == /\ NormalizeForDedup(old.body) # << >>
                    /\ Contained(NormalizeForDedup(c), NormalizeForDedup(old.body))
           body == IF known THEN old.body ELSE old.body \o c
           m == SourceFile(old.pkg, AddImports(old.imports, new.imports), body)
<1>1. /\ Chunk(c) /\ Len(c) \in Nat \ {0} /\ c[1].is \in {"report"} \cup TestKinds
  BY ChunkOfPage DEF IsFile
<1>2. Blocks(old.body) /\ Blocks(old.body \o c) /\ Joins(old.body \o c, old.body, c)
  BY <1>1, ChunkAdded DEF IsFile
<1>3. AppendTS(old, new) = Merged(m)
  BY ReplacedParts DEF AppendTS
<1>4. Extends(m, old, new) /\ m.body = body
  <2>1. Blocks(body)
    BY <1>2
  <2> HIDE DEF body
  <2> QED
    BY <2>1, BodyExtended
<1>5. ASSUME body[1].is # "userdoc" PROVE \E k : Stands(c, body, k)
  <2>1. CASE known
    <3>1. \E k : Stands(c, old.body, k)
      <4> HIDE DEF c
      <4> QED
        BY <1>1, <1>2, <1>5, <2>1, KnownChunk
    <3> QED
      BY <2>1, <3>1
  <2>2. CASE ~known
    <3> DEFINE j == old.body \o c
    <3>1. body = j
      BY <2>2
    <3> HIDE DEF known, body, c, j
    <3>2. Len(old.body) \in Nat \ {0}
      <4>1. old.body \in Seq(Range(old.body)) /\ old.body # << >>
        BY <1>2 DEF Blocks, IsSeq
      <4> QED
        BY <4>1
    <3>3. Header(j) <= Len(old.body)
      BY <3>2 DEF Header
    <3>4. Stands(c, j, Len(old.body))
      BY <1>1, <1>2, <3>2, <3>3 DEF Joins, Stands, j
    <3> QED
      BY <3>1, <3>4
  <2> QED
    BY <2>1, <2>2
<1> HIDE DEF m, body, known, c
<1> QED
  BY <1>3, <1>4, <1>5 DEF c

LEMMA MergedPython ==
  ASSUME NEW old, NEW new, IsFile(old), IsFile(new), Chunk(StripQuailHeader(new.body))
  PROVE  \E m : AppendPython(old, new) = Merged(m) /\ Extends(m, old, new)
<1> DEFINE body == old.body \o StripQuailHeader(new.body)
           m == SourceFile(old.pkg, AddImports(old.imports, new.imports), body)
<1>1. Blocks(body)
  BY ChunkAdded DEF IsFile
<1>2. AppendPython(old, new) = Merged(m)
  BY ReplacedParts DEF AppendPython
<1> HIDE DEF body
<1>3. Extends(m, old, new)
  BY <1>1, BodyExtended
<1> QED
  BY <1>2, <1>3

LEMMA ChunkOfPython ==
  ASSUME NEW b, NEW d, IsBlock(d), d.is = "test", b.is = "py"
  PROVE  Chunk(StripQuailHeader(<<b, d>>))
<1>1. <<b, d>>[1] = b /\ Tail(<<b, d>>) = <<d>> /\ <<b, d>> # << >>
  OBVIOUS
<1>2. StripQuailHeader(<<b, d>>) = <<d>>
  BY <1>1 DEF StripQuailHeader
<1>3. IsSeq(<<d>>) /\ <<d>>[1] = d /\ DOMAIN <<d>> = {1}
  BY OneElement
<1>4. Chunk(<<d>>)
  BY <1>3 DEF Chunk
<1> QED
  BY <1>2, <1>4

(* What NewFuncs returns are functions of the generated file, one of every *)
(* name that is new, and none when no name is.                             *)
LEMMA FuncsAdded ==
  ASSUME NEW old, NEW new, IsSeq(new)
  PROVE  LET c == NewFuncs(old, new) IN
         /\ IsSeq(c) /\ \A i \in DOMAIN c : c[i] \in Range(new) /\ c[i].is = "func"
         /\ FuncNames(new) \subseteq FuncNames(old) \cup FuncNames(c)
         /\ FuncNames(new) \subseteq FuncNames(old) => c = << >>
<1> DEFINE S == {b \in Range(new) : b.is = "func"}
           none == << >>
           news(q, b) == b.is = "func" /\ b.name \notin FuncNames(old) \cup FuncNames(q)
           step == [i \in Nat |-> [q \in Seq(S) |->
                      IF i \in DOMAIN new
                      THEN IF news(q, new[i]) THEN Append(q, new[i]) ELSE q ELSE q]]
           Def(g) == g = [i \in 0..Len(new) |->
                            IF i = 0 THEN none
                            ELSE IF new[i].is = "func"
                                      /\ new[i].name \notin FuncNames(old) \cup FuncNames(g[i - 1])
                            THEN Append(g[i - 1], new[i])
                            ELSE g[i - 1]]
           f == CHOOSE g : Def(g)
<1>1. /\ Len(new) \in Nat /\ DOMAIN new = 1..Len(new)
      /\ \A i \in 1..Len(new) : new[i] \in Range(new)
      /\ none \in Seq(S)
  <2>1. new \in Seq(Range(new))
    BY DEF IsSeq
  <2> HIDE DEF S
  <2> QED
    BY <2>1
<1>2. \A q \in Seq(S), i \in 1..Len(new) : news(q, new[i]) => Append(q, new[i]) \in Seq(S)
  <2> SUFFICES ASSUME NEW q \in Seq(S), NEW i \in 1..Len(new), news(q, new[i])
               PROVE  Append(q, new[i]) \in Seq(S)
    OBVIOUS
  <2>1. new[i] \in S
    BY <1>1
  <2> HIDE DEF S
  <2> QED
    BY <2>1
<1>3. step \in [Nat -> [Seq(S) -> Seq(S)]]
  <2> HIDE DEF S, news
  <2> QED
    BY <1>1, <1>2
<1>4. \E g : Def(g)
  <2>1. PICK g \in [0..Len(new) -> Seq(S)] :
          g = [i \in 0..Len(new) |-> IF i = 0 THEN none ELSE step[i][g[i - 1]]]
    <3> HIDE DEF step, S, none
    <3>1. Computed(Seq(S), none, step, Len(new)) # {}
      BY <1>1, <1>3, RecursiveFunction
    <3> QED
      BY <3>1 DEF Computed
  <2> HIDE DEF S, none
  <2>2. ASSUME NEW i \in 0..Len(new)
        PROVE  g[i] = IF i = 0 THEN none
                      ELSE IF new[i].is = "func"
                                /\ new[i].name \notin FuncNames(old) \cup FuncNames(g[i - 1])
                      THEN Append(g[i - 1], new[i])
                      ELSE g[i - 1]
    <3>1. CASE i = 0
      BY <2>1, <3>1
    <3>2. CASE i # 0
      <4>1. i \in Nat /\ i \in DOMAIN new /\ g[i - 1] \in Seq(S)
        BY <1>1, <3>2
      <4>2. g[i] = step[i][g[i - 1]]
        BY <2>1, <3>2
      <4> QED
        BY <3>2, <4>1, <4>2
    <3> QED
      BY <3>1, <3>2
  <2>3. Def(g)
    BY <2>2
  <2> HIDE DEF Def
  <2> QED
    BY <2>3
<1>5. Def(f)
  <2> HIDE DEF Def
  <2> QED
    BY <1>4
<1>6. /\ f[0] = none
      /\ \A i \in 1..Len(new) :
           f[i] = IF news(f[i - 1], new[i]) THEN Append(f[i - 1], new[i]) ELSE f[i - 1]
  <2> HIDE DEF f, none
  <2>1. \A i \in 0..Len(new) :
          f[i] = IF i = 0 THEN none
                 ELSE IF new[i].is = "func"
                           /\ new[i].name \notin FuncNames(old) \cup FuncNames(f[i - 1])
                 THEN Append(f[i - 1], new[i])
                 ELSE f[i - 1]
    BY <1>5, Zenon
  <2> QED
    BY <1>1, <2>1
<1>7. NewFuncs(old, new) = f[Len(new)]
  BY DEF NewFuncs
<1> DEFINE Good(i) == /\ f[i] \in Seq(S)
                      /\ \A k \in 1..i : new[k].is = "func" =>
                           new[k].name \in FuncNames(old) \cup FuncNames(f[i])
                      /\ FuncNames(new) \subseteq FuncNames(old) => f[i] = none
           N == {i \in Nat : i <= Len(new) => Good(i)}
<1>8. ASSUME NEW q \in Seq(S), NEW b \in S
      PROVE  FuncNames(Append(q, b)) = FuncNames(q) \cup {b.name}
  <2> DEFINE T == S
  <2>0. b.is = "func" /\ b \in T /\ q \in Seq(T)
    OBVIOUS
  <2> HIDE DEF S, T
  <2>1. Elements(Append(q, b)) = Elements(q) \cup {b}
    BY <2>0, AppendElements
  <2>2. Elements(q) = Range(q) /\ Elements(Append(q, b)) = Range(Append(q, b))
    BY DEF Elements, Range
  <2> QED
    BY <2>0, <2>1, <2>2 DEF FuncNames
<1>9. N = Nat
  <2> HIDE DEF f, S, none
  <2>1. 0 \in N
    BY <1>1, <1>6
  <2>2. ASSUME NEW i \in N PROVE i + 1 \in N
    <3> SUFFICES ASSUME i + 1 <= Len(new) PROVE Good(i + 1)
      OBVIOUS
    <3>1. Good(i) /\ i + 1 \in 1..Len(new) /\ (i + 1) - 1 = i /\ i \in Nat
      BY <1>1
    <3>2. f[i + 1] = IF news(f[i], new[i + 1]) THEN Append(f[i], new[i + 1]) ELSE f[i]
      BY <1>6, <3>1
    <3>3. \A k \in 1..i + 1 : k \in 1..i \/ k = i + 1
      BY <3>1
    <3>4. CASE ~news(f[i], new[i + 1])
      BY <3>1, <3>2, <3>3, <3>4
    <3>5. CASE news(f[i], new[i + 1])
      <4>1. new[i + 1] \in S /\ new[i + 1].name \in FuncNames(new)
        BY <1>1, <3>1, <3>5 DEF S, FuncNames
      <4>2. /\ f[i + 1] \in Seq(S)
            /\ FuncNames(f[i + 1]) = FuncNames(f[i]) \cup {new[i + 1].name}
        <5> HIDE DEF news
        <5> QED
          BY <1>2, <1>8, <3>1, <3>2, <3>5, <4>1
      <4>3. ~(FuncNames(new) \subseteq FuncNames(old))
        BY <3>5, <4>1
      <4> QED
        BY <3>1, <3>3, <4>2, <4>3
    <3> QED
      BY <3>4, <3>5
  <2>3. N \subseteq Nat
    OBVIOUS
  <2> HIDE DEF N
  <2> QED
    BY <2>1, <2>2, <2>3, SetInduction
<1> HIDE DEF f
<1> DEFINE c == f[Len(new)]
<1>10. Good(Len(new))
  <2> HIDE DEF Good
  <2> QED
    BY <1>1, <1>9
<1>11. /\ c \in Seq(S)
       /\ FuncNames(new) \subseteq FuncNames(old) => c = none
       /\ \A k \in DOMAIN new : new[k].is = "func" =>
            new[k].name \in FuncNames(old) \cup FuncNames(c)
  <2> HIDE DEF S, none
  <2> QED
    BY <1>1, <1>10
<1> HIDE DEF c
<1>12. FuncNames(new) \subseteq FuncNames(old) \cup FuncNames(c)
  BY <1>11 DEF FuncNames, Range
<1>13. IsSeq(c) /\ \A i \in DOMAIN c : c[i] \in S
  <2> HIDE DEF S
  <2> QED
    BY <1>11, SequenceOf
<1> QED
  BY <1>7, <1>11, <1>12, <1>13 DEF c

LEMMA MergedGo ==
  ASSUME NEW old, NEW new, IsFile(old), IsFile(new), AppendGo(old, new).ok
  PROVE  \E m : /\ AppendGo(old, new) = Merged(m) /\ Extends(m, old, new)
                /\ FuncNames(old.body) \cup FuncNames(new.body) \subseteq FuncNames(m.body)
<1> DEFINE c == NewFuncs(old.body, new.body)
           body == old.body \o c
           m == SourceFile(old.pkg, AddImports(old.imports, new.imports), body)
<1>1. AppendGo(old, new) = Merged(m)
  <2>1. AppendGo(old, new) # Failed
    BY DEF Failed
  <2>2. [old EXCEPT !.imports = AddImports(old.imports, new.imports), !.body = body] = m
    <3> HIDE DEF body
    <3> QED
      BY ReplacedParts
  <2>3. [old EXCEPT !.imports = AddImports(@, new.imports), !.body = @ \o NewFuncs(@, new.body)] = m
    BY <2>2
  <2> HIDE DEF m
  <2> QED
    BY <2>1, <2>3 DEF AppendGo
<1>2. /\ IsSeq(c) /\ \A i \in DOMAIN c : c[i] \in Range(new.body) /\ c[i].is = "func"
      /\ FuncNames(new.body) \subseteq FuncNames(old.body) \cup FuncNames(c)
  BY FuncsAdded DEF IsFile, Blocks
<1> HIDE DEF c
<1>3. Chunk(c)
  <2>1. \A b \in Range(new.body) : IsBlock(b)
    BY DEF Range, IsFile, Blocks
  <2> QED
    BY <1>2, <2>1 DEF Chunk
<1>4. Blocks(body) /\ Joins(body, old.body, c)
  BY <1>3, ChunkAdded DEF IsFile
<1> HIDE DEF body
<1>5. Extends(m, old, new) /\ m.body = body
  BY <1>4, BodyExtended
<1>6. Range(old.body) \cup Range(c) \subseteq Range(body)
  <2>1. \A i \in 1..Len(c) : Len(old.body) + i \in DOMAIN body
    BY <1>4 DEF Joins
  <2>2. \A i \in 1..Len(old.body) : i \in DOMAIN body
    BY <1>4 DEF Joins
  <2> QED
    BY <1>4, <2>1, <2>2 DEF Joins, Range
<1>7. FuncNames(old.body) \cup FuncNames(c) \subseteq FuncNames(body)
  BY <1>6 DEF FuncNames
<1> HIDE DEF m
<1> QED
  BY <1>1, <1>2, <1>5, <1>7

-----------------------------------------------------------------------------
(* The files.  What was merged last is in the file: its imports, its       *)
(* functions, and its chunk of page tests behind the file's header.        *)
Fits(f) ==
  /\ IsFile(f)
  /\ lang = "ts" => PageTests(f.body)
  /\ lang = "go" => f.pkg = "shop"

LastIsIn(f) ==
  /\ Range(last.imports) \subseteq Range(f.imports)
  /\ lang = "go" => FuncNames(last.body) \subseteq FuncNames(f.body)
  /\ lang = "ts" /\ f.body[1].is # "userdoc" =>
       \E k : Stands(StripQuailHeader(last.body), f.body, k)

FilesInv ==
  /\ lang \in Languages /\ source \in Sources
  /\ disk # Absent => IsFile(disk) /\ (lang = "go" => disk.pkg = "shop")
  /\ last # Absent => Fits(last)
  /\ disk # Absent /\ last # Absent => LastIsIn(disk)

LEMMA FilesKept ==
  ASSUME FilesInv, UNCHANGED <<lang, disk, last>>, source' \in Sources
  PROVE  FilesInv'
BY DEF FilesInv, Fits, LastIsIn, Sources, Probed

LEMMA FileThere ==
  ASSUME FilesInv, lang' = lang, source' = source, disk' # Absent => IsFile(disk'),
         lang # "go", last' = Absent
  PROVE  FilesInv'
BY DEF FilesInv, Sources, Probed

LEMMA UserEdits ==
  ASSUME FilesInv, UserStarts \/ UserAdds \/ UserDeletes
  PROVE  FilesInv'
<1>1. IsBlock(UserTest) /\ UserTest.is = "user"
  BY BlockFields DEF UserTest
<1>2. Chunk(<<UserTest>>)
  <2>1. IsSeq(<<UserTest>>) /\ <<UserTest>>[1] = UserTest /\ DOMAIN <<UserTest>> = {1}
    BY OneElement
  <2> QED
    BY <1>1, <2>1 DEF Chunk
<1>3. CASE UserStarts
  <2> DEFINE e == ""
  <2>1. PICK top \in {<< >>, <<Comment("userdoc")>>} :
          disk' = SourceFile(e, <<"test">>, top \o <<UserTest>>)
    BY <1>3 DEF UserStarts
  <2>2. IsBlock(Comment("userdoc")) /\ Comment("userdoc").is = "userdoc"
    <3>1. Comment("userdoc") = Block("userdoc", e, NoSymbol, << >>, {})
      BY DEF Comment
    <3> HIDE DEF e
    <3> QED
      BY <3>1, BlockFields
  <2> HIDE DEF e
  <2>3. Blocks(top \o <<UserTest>>)
    <3>1. << >> \o <<UserTest>> = <<UserTest>>
      OBVIOUS
    <3>2. Blocks(<<UserTest>>) /\ Blocks(<<Comment("userdoc")>>)
      BY <1>1, <2>2, PlainBlocks
    <3>3. Blocks(<<Comment("userdoc")>> \o <<UserTest>>)
      BY <1>2, <3>2, ChunkAdded
    <3> QED
      BY <3>1, <3>2, <3>3
  <2>4. IsSeq(<<"test">>)
    BY OneElement
  <2>5. IsFile(disk')
    BY <2>1, <2>3, <2>4, FileFields DEF IsFile
  <2> QED
    BY <1>3, <2>5, FileThere DEF UserStarts
<1>4. CASE UserAdds
  <2> DEFINE body == disk.body \o <<UserTest>>
  <2>1. /\ disk # Absent /\ lang = "ts" /\ UNCHANGED <<lang, source, last>>
        /\ disk' = [disk EXCEPT !.body = Append(disk.body, UserTest)]
    BY <1>4 DEF UserAdds
  <2>2. IsFile(disk)
    BY <2>1 DEF FilesInv
  <2>3. disk' = SourceFile(disk.pkg, disk.imports, body)
    <3>1. disk.body \in Seq(Range(disk.body))
      BY <2>2 DEF IsFile, Blocks, IsSeq
    <3>2. Append(disk.body, UserTest) = body
      <4> HIDE DEF UserTest
      <4> QED
        BY <3>1
    <3> HIDE DEF body
    <3> QED
      BY <2>1, <2>2, <3>2 DEF IsFile, SourceFile
  <2>4. Blocks(body) /\ Joins(body, disk.body, <<UserTest>>)
    BY <1>2, <2>2, ChunkAdded DEF IsFile
  <2> HIDE DEF body
  <2>5. IsFile(disk') /\ disk'.body = body /\ disk'.imports = disk.imports
    BY <2>2, <2>3, <2>4, FileFields DEF IsFile
  <2>6. disk.body # << >> /\ disk'.body[1] = disk.body[1]
    <3>1. disk.body \in Seq(Range(disk.body)) /\ disk.body # << >>
      BY <2>2 DEF IsFile, Blocks, IsSeq
    <3>2. 1 \in 1..Len(disk.body)
      BY <3>1
    <3> QED
      BY <2>4, <2>5, <3>1, <3>2 DEF Joins
  <2>7. last # Absent => LastIsIn(disk)'
    <3> SUFFICES ASSUME last # Absent PROVE LastIsIn(disk)'
      OBVIOUS
    <3>1. LastIsIn(disk)
      BY <2>1 DEF FilesInv
    <3>2. ASSUME NEW k, Stands(StripQuailHeader(last.body), disk.body, k)
          PROVE  Stands(StripQuailHeader(last.body), body, k)
      BY <2>4, <2>6, <3>2, StandsOn
    <3> QED
      BY <2>1, <2>5, <2>6, <3>1, <3>2 DEF LastIsIn
  <2>8. last # Absent => Fits(last)'
    BY <2>1 DEF FilesInv, Fits
  <2> QED
    BY <2>1, <2>5, <2>7, <2>8 DEF FilesInv, Sources, Probed
<1>5. CASE UserDeletes
  BY <1>5 DEF UserDeletes, FilesInv, Sources, Probed
<1> QED
  BY <1>3, <1>4, <1>5

(* Healing changes locators and nothing else.                              *)
LEMMA OtherLocators ==
  ASSUME NEW f, IsFile(f), NEW lines
  PROVE  IsFile(WithLines(f, lines))
<1> DEFINE body == f.body
           v(i) == LET at == FirstLine(f, i) IN
                   IF body[i].is = "user" THEN lines[at]
                   ELSE [k \in DOMAIN body[i].v |-> lines[at + k][1]]
           new == [i \in DOMAIN body |-> [body[i] EXCEPT !.v = v(i)]]
<1>1. WithLines(f, lines) = [f EXCEPT !.body = new]
  BY Zenon DEF WithLines
<1>2. body \in Seq(Range(body)) /\ DOMAIN body = 1..Len(body) /\ Len(body) \in Nat
  <2>1. body \in Seq(Range(body))
    BY DEF IsFile, Blocks, IsSeq
  <2> HIDE DEF body
  <2> QED
    BY <2>1
<1>3. ASSUME NEW i \in DOMAIN body, NEW w
      PROVE  LET b == [body[i] EXCEPT !.v = w] IN IsBlock(b) /\ b.is = body[i].is
  <2>1. IsBlock(body[i])
    BY DEF IsFile, Blocks
  <2> HIDE DEF body
  <2> QED
    BY <2>1 DEF IsBlock, Block
<1>4. \A i \in DOMAIN body : IsBlock(new[i]) /\ new[i].is = body[i].is
  <2> HIDE DEF v, body
  <2> QED
    BY <1>3
<1> DEFINE S == {new[i] : i \in DOMAIN body}
<1>5. new \in Seq(S) /\ DOMAIN new = DOMAIN body
  <2> HIDE DEF v, body
  <2>1. DOMAIN new = DOMAIN body /\ \A i \in DOMAIN body : new[i] \in S
    OBVIOUS
  <2>2. new = [i \in DOMAIN body |-> new[i]]
    OBVIOUS
  <2> HIDE DEF new, S
  <2>3. new \in [1..Len(body) -> S]
    BY <1>2, <2>1, <2>2
  <2> QED
    BY <1>2, <2>1, <2>3
<1>6. body # << >> /\ Headed(body)
  BY DEF IsFile, Blocks
<1> HIDE DEF new, S
<1>7. IsSeq(new)
  BY <1>5, SequenceOf
<1>8. new # << >>
  <2>1. 1 \in DOMAIN body
    <3> HIDE DEF body
    <3> QED
      BY <1>2, <1>6
  <2> QED
    BY <1>5, <2>1
<1>9. Headed(new)
  <2> HIDE DEF body
  <2> SUFFICES ASSUME NEW i \in DOMAIN new, new[i].is = "doc", i > 1
               PROVE  new[i - 1].is = "report"
    BY DEF Headed
  <2>1. i \in DOMAIN body /\ i - 1 \in DOMAIN body
    BY <1>2, <1>5
  <2> QED
    BY <1>4, <1>6, <2>1 DEF Headed
<1>10. Blocks(new)
  BY <1>4, <1>5, <1>7, <1>8, <1>9 DEF Blocks
<1>11. WithLines(f, lines) = SourceFile(f.pkg, f.imports, new)
  <2>1. f = SourceFile(f.pkg, f.imports, f.body)
    BY DEF IsFile
  <2> QED
    BY <1>1, <2>1 DEF SourceFile
<1> QED
  BY <1>10, <1>11, FileFields DEF IsFile

LEMMA Healed ==
  ASSUME FilesInv, HealOnFailure \/ HealDiff
  PROVE  FilesInv'
<1>1. /\ disk # Absent /\ lang = "ts" /\ UNCHANGED <<lang, source>>
      /\ \E edits : ApplyEdits(edits)
  BY DEF HealOnFailure, HealDiff, ApplyEdits
<1>2. PICK edits : ApplyEdits(edits)
  BY <1>1
<1> DEFINE after == Apply(Lines(disk), edits)
<1>3. UNCHANGED <<disk, last>> \/ (disk' = WithLines(disk, after) /\ last' = Absent)
  BY <1>2 DEF ApplyEdits
<1> HIDE DEF after
<1>4. CASE UNCHANGED <<disk, last>>
  BY <1>1, <1>4, FilesKept DEF FilesInv
<1>5. CASE disk' = WithLines(disk, after) /\ last' = Absent
  <2>1. IsFile(disk')
    BY <1>1, <1>5, OtherLocators DEF FilesInv
  <2> QED
    BY <1>1, <1>5, <2>1, FileThere
<1> QED
  BY <1>3, <1>4, <1>5

(* A file that is not there yet is written as it is generated.             *)
LEMMA FirstFile ==
  ASSUME NEW new, IsFile(new), lang = "ts" => PageTests(new.body), last' = new, lang' = lang
  PROVE  LastIsIn(new)'
<1>1. ASSUME lang = "ts", new.body[1].is # "userdoc"
      PROVE  Stands(StripQuailHeader(new.body), new.body, Header(new.body))
  <2> DEFINE body == new.body  h == Header(body)
  <2>1. IsSeq(body) /\ body # << >>
    BY DEF IsFile, Blocks
  <2>2. h \in 0..1 /\ h <= Len(body) /\ StripQuailHeader(body) = SubSeq(body, h + 1, Len(body))
    BY <1>1, <2>1, HeaderStripped
  <2> DEFINE c == SubSeq(body, h + 1, Len(body))
  <2> HIDE DEF body
  <2>3. /\ Len(body) \in Nat /\ Len(c) = Len(body) - h
        /\ \A i \in 1..(Len(body) - h) : c[i] = body[h + i]
    <3> HIDE DEF h
    <3> QED
      BY <2>1, <2>2, RestOfSequence
  <2>4. h \in Nat /\ h <= h
    BY <2>2
  <2> HIDE DEF c, h
  <2>5. \A i \in 1..Len(c) : h + i \in 1..Len(body) /\ Lowered(body[h + i]) = Lowered(c[i])
    BY <2>2, <2>3
  <2>6. Stands(c, body, h)
    BY <2>4, <2>5 DEF Stands, h
  <2> QED
    BY <2>2, <2>6 DEF c, h, body
<1> QED
  BY <1>1 DEF LastIsIn

LEMMA Written ==
  ASSUME FilesInv, Write
  PROVE  FilesInv'
<1> DEFINE new == Generated
           m == IF disk = Absent THEN Merged(new) ELSE AppendTo(lang, disk, new)
<1>1. /\ UNCHANGED <<lang, source>>
      /\ disk' = IF m.ok THEN m.file ELSE disk
      /\ last' = IF m.ok THEN new ELSE last
  BY DEF Write
<1>2. /\ Fits(new)
      /\ lang = "python" => Chunk(StripQuailHeader(new.body))
  <2>1. lang \in Languages /\ source \in Sources
    BY DEF FilesInv
  <2> HIDE DEF new
  <2>2. lang = "python" => Chunk(StripQuailHeader(new.body))
    BY <2>1, NewFile, ChunkOfPython DEF new
  <2> QED
    BY <2>1, <2>2, NewFile DEF Fits, new
<1> HIDE DEF new
<1>3. \A f : Merged(f).ok = TRUE /\ Merged(f).file = f
  BY DEF Merged
<1>4. CASE ~m.ok
  <2>1. UNCHANGED <<lang, source, disk, last>>
    BY <1>1, <1>4
  <2> QED
    BY <2>1, FilesKept DEF FilesInv
<1>5. CASE m.ok /\ disk = Absent
  <2>1. disk' = new /\ last' = new
    BY <1>1, <1>3, <1>5
  <2>2. LastIsIn(disk)'
    BY <1>1, <1>2, <2>1, FirstFile DEF Fits, LastIsIn
  <2> QED
    BY <1>1, <1>2, <2>1, <2>2 DEF FilesInv, Fits, Sources, Probed
<1>6. CASE m.ok /\ disk # Absent
  <2>1. /\ IsFile(disk) /\ IsFile(new) /\ lang \in {"ts", "feature", "go", "python"}
        /\ lang = "go" => disk.pkg = "shop"
    BY <1>2, <1>6, SuiteAssumption DEF FilesInv, Fits
  <2>2. m = AppendTo(lang, disk, new)
    BY <1>6
  <2> HIDE DEF m
  <2>3. \E f : /\ m = Merged(f) /\ Extends(f, disk, new)
               /\ lang = "go" => FuncNames(new.body) \subseteq FuncNames(f.body)
               /\ lang = "ts" /\ f.body[1].is # "userdoc" =>
                    \E k : Stands(StripQuailHeader(new.body), f.body, k)
    <3>1. CASE lang = "ts"
      <4>1. m = AppendTS(disk, new)
        BY <2>2, <3>1 DEF AppendTo
      <4> QED
        BY <1>2, <2>1, <3>1, <4>1, MergedTS DEF Fits
    <3>2. CASE lang = "go"
      <4>1. m = AppendGo(disk, new)
        BY <2>2, <3>2 DEF AppendTo
      <4> QED
        BY <1>6, <2>1, <3>2, <4>1, MergedGo
    <3>3. CASE lang = "python"
      <4>1. m = AppendPython(disk, new)
        BY <2>2, <3>3 DEF AppendTo
      <4> QED
        BY <1>2, <2>1, <3>3, <4>1, MergedPython
    <3>4. CASE lang = "feature"
      <4>1. m = Failed
        BY <2>2, <3>4 DEF AppendTo
      <4> QED
        BY <1>6, <4>1 DEF Failed
    <3> QED
      BY <2>1, <3>1, <3>2, <3>3, <3>4
  <2>4. PICK f : /\ m = Merged(f) /\ Extends(f, disk, new)
                 /\ lang = "go" => FuncNames(new.body) \subseteq FuncNames(f.body)
                 /\ lang = "ts" /\ f.body[1].is # "userdoc" =>
                      \E k : Stands(StripQuailHeader(new.body), f.body, k)
    BY <2>3
  <2>5. disk' = f /\ last' = new
    BY <1>1, <1>3, <1>6, <2>4
  <2>6. IsFile(f) /\ f.pkg = disk.pkg /\ Range(new.imports) \subseteq Range(f.imports)
    BY <2>4 DEF Extends
  <2>7. LastIsIn(disk)'
    BY <1>1, <2>4, <2>5, <2>6 DEF LastIsIn
  <2> QED
    BY <1>1, <1>2, <2>1, <2>5, <2>6, <2>7 DEF FilesInv, Fits, Sources, Probed
<1> QED
  BY <1>4, <1>5, <1>6

LEMMA FilesStep == FilesInv /\ [Next]_vars => FilesInv'
<1> SUFFICES ASSUME FilesInv, [Next]_vars PROVE FilesInv'
  OBVIOUS
<1>1. CASE UserStarts \/ UserAdds \/ UserDeletes
  BY <1>1, UserEdits
<1>2. CASE Write
  BY <1>2, Written
<1>3. CASE HealOnFailure \/ HealDiff
  BY <1>3, Healed
<1>4. CASE ChangeSource
  BY <1>4, FilesKept DEF ChangeSource, files, Sources, Probed
<1>5. CASE Start \/ WriteState \/ End \/ Crash \/ Tick \/ RunTests \/ UNCHANGED vars
  <2>1. UNCHANGED <<lang, source, disk, last>>
    BY <1>5 DEF Start, WriteState, End, Crash, Tick, RunTests, files, vars
  <2> QED
    BY <2>1, FilesKept DEF FilesInv
<1> QED
  BY <1>1, <1>2, <1>3, <1>4, <1>5 DEF Next

LEMMA FilesAlways == Spec => []FilesInv
<1>1. Init => FilesInv
  BY DEF Init, FilesInv
<1> QED
  BY <1>1, FilesStep, PTL DEF Spec

(* strip_header.go:7-40, for any pages, edits and merges: in no file does  *)
(* quail's header stand in the middle but behind a quality report.         *)
THEOREM HeadersNeverRepeat == Spec => []HeaderOnlyBehindReport
<1>1. FilesInv => HeaderOnlyBehindReport
  BY DEF FilesInv, HeaderOnlyBehindReport, IsFile, Blocks, Headed
<1> QED
  BY <1>1, FilesAlways, PTL

-----------------------------------------------------------------------------
(* Another spelling of the symbol changes nothing that merging looks at,   *)
(* if no title but one with a dash has the symbol.                         *)
SameBut(r, body) ==
  /\ DOMAIN r = DOMAIN body /\ Len(r) = Len(body)
  /\ \A i \in DOMAIN body : /\ r[i].is = body[i].is /\ r[i].name = body[i].name
                            /\ IsBlock(r[i])
SameLowered(r, body) == \A i \in DOMAIN body : Lowered(r[i]) = Lowered(body[i])

LEMMA OtherSpelling ==
  ASSUME NEW f, IsFile(f), NEW capitals
  PROVE  LET r == Respelled(f, capitals) IN
         /\ r = SourceFile(f.pkg, f.imports, r.body) /\ IsFile(r)
         /\ SameBut(r.body, f.body) /\ (OnlyDashed(f) => SameLowered(r.body, f.body))
<1> DEFINE body == f.body
           s(b) == IF b.sym = NoSymbol THEN b.sym ELSE Symbol(b.sym.letters, capitals)
           new == [i \in DOMAIN body |-> [body[i] EXCEPT !.sym = s(body[i])]]
<1>1. Respelled(f, capitals) = [f EXCEPT !.body = new]
  BY Zenon DEF Respelled
<1>3. body \in Seq(Range(body)) /\ DOMAIN body = 1..Len(body) /\ Len(body) \in Nat
  <2>1. body \in Seq(Range(body))
    BY DEF IsFile, Blocks, IsSeq
  <2> HIDE DEF body
  <2> QED
    BY <2>1
<1>4. ASSUME NEW b, IsBlock(b), NEW w
      PROVE  LET c == [b EXCEPT !.sym = w] IN
             IsBlock(c) /\ c.is = b.is /\ c.name = b.name
  BY <1>4 DEF IsBlock, Block
<1>2. ASSUME NEW b, IsBlock(b), b.sym = NoSymbol \/ b.is = "dashed"
      PROVE  Lowered([b EXCEPT !.sym = s(b)]) = Lowered(b)
  <2>1. CASE b.sym = NoSymbol
    <3>1. s(b) = b.sym
      BY <2>1
    <3>2. [b EXCEPT !.sym = b.sym] = b
      BY <1>2 DEF IsBlock, Block
    <3> HIDE DEF s
    <3> QED
      BY <3>1, <3>2
  <2>2. CASE b.sym # NoSymbol
    <3> DEFINE c == [b EXCEPT !.sym = s(b)]  low(x) == Symbol(x, {})
    <3>1. s(b).letters = b.sym.letters
      BY <2>2 DEF Symbol
    <3>2. b.is = "dashed"
      BY <1>2, <2>2
    <3> HIDE DEF s
    <3>3. /\ c.is = "dashed" /\ c.sym = s(b)
          /\ [c EXCEPT !.sym = low(b.sym.letters)] = [b EXCEPT !.sym = low(b.sym.letters)]
      BY <1>2, <3>2 DEF IsBlock, Block
    <3> HIDE DEF low
    <3>4. Lowered(c) = [c EXCEPT !.sym = low(c.sym.letters)]
      BY <3>3 DEF Lowered, low
    <3>5. Lowered(b) = [b EXCEPT !.sym = low(b.sym.letters)]
      BY <3>2 DEF Lowered, low
    <3> QED
      BY <3>1, <3>3, <3>4, <3>5
  <2> QED
    BY <2>1, <2>2
<1>5. \A i \in DOMAIN body : /\ new[i].is = body[i].is /\ new[i].name = body[i].name
                             /\ IsBlock(new[i])
  <2>1. \A i \in DOMAIN body : IsBlock(body[i])
    BY DEF IsFile, Blocks
  <2> HIDE DEF s, body
  <2> QED
    BY <1>4, <2>1
<1>13. OnlyDashed(f) => SameLowered(new, body)
  <2>1. \A i \in DOMAIN body : IsBlock(body[i])
    BY DEF IsFile, Blocks
  <2>2. OnlyDashed(f) => \A i \in DOMAIN body : body[i].sym = NoSymbol \/ body[i].is = "dashed"
    BY DEF OnlyDashed
  <2> HIDE DEF s, body
  <2> QED
    BY <1>2, <2>1, <2>2 DEF SameLowered
<1> DEFINE S == {new[i] : i \in DOMAIN body}
<1>6. new \in Seq(S) /\ DOMAIN new = DOMAIN body
  <2> HIDE DEF s, body
  <2>1. DOMAIN new = DOMAIN body /\ \A i \in DOMAIN body : new[i] \in S
    OBVIOUS
  <2>2. new = [i \in DOMAIN body |-> new[i]]
    OBVIOUS
  <2> HIDE DEF new, S
  <2>3. new \in [1..Len(body) -> S]
    BY <1>3, <2>1, <2>2
  <2> QED
    BY <1>3, <2>1, <2>3
<1>7. body # << >> /\ Headed(body)
  BY DEF IsFile, Blocks
<1> HIDE DEF new, S
<1>8. IsSeq(new) /\ Len(new) = Len(body)
  <2> HIDE DEF body
  <2> QED
    BY <1>3, <1>6, SequenceOf
<1>9. new # << >>
  <2>1. 1 \in DOMAIN body
    <3> HIDE DEF body
    <3> QED
      BY <1>3, <1>7
  <2> QED
    BY <1>6, <2>1
<1>10. Headed(new)
  <2> HIDE DEF body
  <2> SUFFICES ASSUME NEW i \in DOMAIN new, new[i].is = "doc", i > 1
               PROVE  new[i - 1].is = "report"
    BY DEF Headed
  <2>1. i \in DOMAIN body /\ i - 1 \in DOMAIN body
    BY <1>3, <1>6
  <2> QED
    BY <1>5, <1>7, <2>1 DEF Headed
<1>11. Blocks(new) /\ SameBut(new, body)
  BY <1>5, <1>6, <1>8, <1>9, <1>10 DEF Blocks, SameBut
<1>12. Respelled(f, capitals) = SourceFile(f.pkg, f.imports, new)
  <2>1. f = SourceFile(f.pkg, f.imports, f.body)
    BY DEF IsFile
  <2> QED
    BY <1>1, <2>1 DEF SourceFile
<1> QED
  BY <1>11, <1>12, <1>13, FileFields DEF IsFile

LEMMA SameChunk ==
  ASSUME NEW r, NEW body, Blocks(r), Blocks(body), SameBut(r, body),
         SameLowered(r, body), PageTests(body)
  PROVE  /\ PageTests(r)
         /\ \A whole, k : Stands(StripQuailHeader(body), whole, k)
                            => Stands(StripQuailHeader(r), whole, k)
<1>1. /\ IsSeq(r) /\ IsSeq(body) /\ r # << >> /\ body # << >>
      /\ DOMAIN body = 1..Len(body) /\ Len(body) \in Nat
  <2>1. body \in Seq(Range(body))
    BY DEF Blocks, IsSeq
  <2> QED
    BY <2>1 DEF Blocks
<1>2. PageTests(r)
  BY <1>1 DEF PageTests, SameBut
<1>3. body[1].is \in {"doc", "report"} /\ r[1].is = body[1].is
  <2>1. body[1].is \in {"doc", "report"}
    BY ChunkOfPage
  <2>2. 1 \in DOMAIN body
    BY <1>1
  <2> QED
    BY <2>1, <2>2 DEF SameBut
<1> DEFINE h == Header(body)  c == SubSeq(body, h + 1, Len(body))  d == SubSeq(r, h + 1, Len(r))
<1>4. /\ h \in 0..1 /\ h <= Len(body) /\ Header(r) = h
      /\ StripQuailHeader(body) = c /\ StripQuailHeader(r) = d
  <2>1. Header(r) = h
    BY <1>3 DEF Header
  <2> QED
    BY <1>1, <1>3, <2>1, HeaderStripped
<1> HIDE DEF h
<1>5. /\ Len(c) = Len(body) - h /\ \A i \in 1..(Len(body) - h) : c[i] = body[h + i]
  BY <1>1, <1>4, RestOfSequence
<1>6. /\ Len(d) = Len(body) - h /\ \A i \in 1..(Len(body) - h) : d[i] = r[h + i]
  <2>1. Len(r) = Len(body)
    BY DEF SameBut
  <2> QED
    BY <1>1, <1>4, <2>1, RestOfSequence
<1> HIDE DEF c, d
<1>7. Len(d) = Len(c) /\ \A i \in 1..Len(c) : Lowered(d[i]) = Lowered(c[i])
  <2>1. \A i \in 1..Len(body) : Lowered(r[i]) = Lowered(body[i])
    BY <1>1 DEF SameLowered
  <2>2. \A i \in 1..(Len(body) - h) : h + i \in 1..Len(body)
    BY <1>1, <1>4
  <2> QED
    BY <1>1, <1>4, <1>5, <1>6, <2>1, <2>2
<1> QED
  BY <1>2, <1>4, <1>7 DEF Stands

(* Imports that are all there, and no function more: the file stays.       *)
LEMMA NothingToAdd ==
  ASSUME NEW f, NEW new, IsFile(f), IsFile(new), Range(new.imports) \subseteq Range(f.imports)
  PROVE  [f EXCEPT !.imports = AddImports(f.imports, new.imports), !.body = f.body] = f
<1>1. AddImports(f.imports, new.imports) = f.imports
  BY ImportsAdded DEF IsFile
<1>2. f = SourceFile(f.pkg, f.imports, f.body)
  BY DEF IsFile
<1>3. [f EXCEPT !.imports = f.imports, !.body = f.body] = SourceFile(f.pkg, f.imports, f.body)
  BY Zenon, ReplacedParts
<1> QED
  BY Zenon, <1>1, <1>2, <1>3

(* ts.go:40-63, go.go:43-60, strip_header.go:42-88, for any pages,         *)
(* functions and edits: what was merged last merges into nothing, in any   *)
(* spelling of its symbol if no title but one with a dash has it.          *)
THEOREM RerunsChangeNothing == Spec => []RerunIsNoop
<1>1. FilesInv => RerunIsNoop
  <2> SUFFICES ASSUME FilesInv, last # Absent, disk # Absent, lang \in {"ts", "go"},
                      ~(disk.body # << >> /\ disk.body[1].is = "userdoc"), NEW capitals,
                      Respelled(last, capitals) = last \/ OnlyDashed(last)
               PROVE  AppendTo(lang, disk, Respelled(last, capitals)) = Merged(disk)
    BY DEF RerunIsNoop, Rerun
  <2> DEFINE new == Respelled(last, capitals)
  <2>1. IsFile(disk) /\ Fits(last) /\ LastIsIn(disk)
    BY DEF FilesInv
  <2>2. disk.body # << >> /\ disk.body[1].is # "userdoc"
    BY <2>1 DEF IsFile, Blocks
  <2>3. /\ IsFile(new) /\ SameBut(new.body, last.body) /\ SameLowered(new.body, last.body)
        /\ new.imports = last.imports /\ new.pkg = last.pkg
    <3>1. new = last => SameLowered(new.body, last.body)
      BY DEF SameLowered
    <3> QED
      BY <2>1, <3>1, OtherSpelling, FileFields DEF Fits
  <2> HIDE DEF new
  <2>4. [disk EXCEPT !.imports = AddImports(disk.imports, new.imports), !.body = disk.body] = disk
    BY <2>1, <2>3, NothingToAdd DEF LastIsIn
  <2>5. CASE lang = "ts"
    <3>1. PICK k : Stands(StripQuailHeader(last.body), disk.body, k)
      BY <2>1, <2>2, <2>5 DEF LastIsIn
    <3>2. PageTests(new.body) /\ Stands(StripQuailHeader(new.body), disk.body, k)
      BY <2>1, <2>3, <2>5, <3>1, SameChunk DEF Fits, IsFile
    <3> DEFINE c == StripQuailHeader(new.body)
    <3>3. Chunk(c) /\ Len(c) \in Nat \ {0} /\ c[1].is \in {"report"} \cup TestKinds
      BY <2>3, <3>2, ChunkOfPage DEF IsFile
    <3>4. /\ NormalizeForDedup(disk.body) # << >>
          /\ Contained(NormalizeForDedup(c), NormalizeForDedup(disk.body))
      <4> HIDE DEF c
      <4> QED
        BY <2>1, <2>2, <3>2, <3>3, KnownChunk DEF IsFile, c
    <3> HIDE DEF c
    <3>5. AppendTS(disk, new) = Merged(disk)
      BY <2>4, <3>4 DEF AppendTS, c
    <3> QED
      BY <2>5, <3>5 DEF AppendTo, new
  <2>6. CASE lang = "go"
    <3>1. FuncNames(new.body) \subseteq FuncNames(disk.body)
      <4>1. DOMAIN new.body = DOMAIN last.body
        BY <2>3 DEF SameBut
      <4>2. ASSUME NEW i \in DOMAIN new.body, new.body[i].is = "func"
            PROVE  new.body[i].name \in FuncNames(disk.body)
        <5>1. /\ last.body[i] \in Range(last.body) /\ last.body[i].is = "func"
              /\ last.body[i].name = new.body[i].name
          BY <2>3, <4>1, <4>2 DEF SameBut, Range
        <5>2. last.body[i].name \in FuncNames(last.body)
          BY <5>1 DEF FuncNames
        <5> QED
          BY <2>1, <2>6, <5>1, <5>2 DEF LastIsIn
      <4> QED
        BY <4>2 DEF Range, FuncNames
    <3>2. NewFuncs(disk.body, new.body) = << >>
      BY <2>3, <3>1, FuncsAdded DEF IsFile, Blocks
    <3>3. disk.body \o << >> = disk.body
      <4>1. disk.body \in Seq(Range(disk.body))
        BY <2>1 DEF IsFile, Blocks, IsSeq
      <4> QED
        BY <4>1
    <3>4. disk.pkg = "shop" /\ new.pkg = "shop"
      BY <2>1, <2>3, <2>6 DEF FilesInv, Fits
    <3>5. disk # Broken /\ new # Broken
      <4>1. Broken.pkg = "syntax error"
        BY Zenon DEF Broken, SourceFile
      <4> QED
        BY <3>4, <4>1
    <3>6. [disk EXCEPT !.imports = AddImports(@, new.imports), !.body = @ \o NewFuncs(@, new.body)] = disk
      BY <2>4, <3>2, <3>3
    <3>7. AppendGo(disk, new) = Merged(disk)
      BY <3>4, <3>5, <3>6 DEF AppendGo
    <3> QED
      BY <2>6, <3>7 DEF AppendTo, new
  <2> QED
    BY <2>5, <2>6 DEF new
<1> QED
  BY <1>1, FilesAlways, PTL

-----------------------------------------------------------------------------
(* Healing: a line keeps its shape, and a locator of it is another one     *)
(* only where it was one of From, which then is one of To.                 *)
Rewrites(line, new, From, To) ==
  /\ IsList(new) /\ Len(new) = Len(line)
  /\ \A k \in 1..Len(line) : new[k] = line[k] \/ (line[k] \in From /\ new[k] \in To)

LEMMA LocatorRewritten ==
  ASSUME NEW line, IsList(line), NEW original, NEW call, NEW From, NEW To,
         original \in From, call \in To
  PROVE  Rewrites(line, RewriteLocator(line, original, call), From, To)
<1> DEFINE at == {i \in DOMAIN line : line[i] = original}
           new == RewriteLocator(line, original, call)
<1>1. line \in Seq(Elements(line)) /\ DOMAIN line = 1..Len(line) /\ Len(line) \in Nat
  BY ListBasics DEF IsList
<1>2. CASE at = {}
  BY <1>1, <1>2 DEF RewriteLocator, Rewrites
<1>3. CASE at # {}
  <2> DEFINE first == CHOOSE i \in at : \A k \in at : i <= k
  <2>1. first \in at
    <3>1. at \in SUBSET Nat
      BY <1>1
    <3> HIDE DEF at
    <3> QED
      BY <1>3, <3>1, Least
  <2>2. new = [line EXCEPT ![first] = call]
    BY <1>3 DEF RewriteLocator
  <2>3. first \in DOMAIN line /\ line[first] = original
    BY <2>1
  <2> HIDE DEF first, at, new
  <2>4. new \in Seq(Elements(line) \cup {call}) /\ Len(new) = Len(line)
    BY <1>1, <2>2, <2>3
  <2>5. IsList(new)
    BY <2>4, ListOf
  <2>6. \A k \in 1..Len(line) : new[k] = line[k] \/ (k = first /\ new[k] = call)
    BY <1>1, <2>2
  <2> QED
    BY <2>3, <2>4, <2>5, <2>6 DEF Rewrites, new
<1> QED
  BY <1>2, <1>3

AreEdits(edits, lines, From, To) ==
  /\ IsList(edits)
  /\ \A e \in Elements(edits) :
       e.line \in DOMAIN lines /\ Rewrites(lines[e.line], e.after, From, To)

(* Each edit was made from a line as it was, so whatever order they are    *)
(* written in, a line that two of them replace has what one of them says.  *)
LEMMA EditsWritten ==
  ASSUME NEW lines, IsListOfLists(lines), NEW edits, NEW From, NEW To,
         AreEdits(edits, lines, From, To)
  PROVE  LET after == Apply(lines, edits) IN
         /\ IsListOfLists(after) /\ Len(after) = Len(lines)
         /\ \A n \in 1..Len(lines) : Rewrites(lines[n], after[n], From, To)
<1> DEFINE L == Len(edits)
           X == Elements(lines) \cup {e.after : e \in Elements(edits)}
           S == {ls \in [DOMAIN lines -> X] :
                   \A n \in DOMAIN lines : Rewrites(lines[n], ls[n], From, To)}
           write(ls, e) == [ls EXCEPT ![e.line] = e.after]
           step == [i \in Nat |-> [ls \in S |->
                      IF i \in DOMAIN edits THEN write(ls, edits[i]) ELSE ls]]
           Def(g) == g = [i \in 0..L |-> IF i = 0 THEN lines
                            ELSE [g[i - 1] EXCEPT ![edits[i].line] = edits[i].after]]
           f == CHOOSE g : Def(g)
<1>1. /\ L \in Nat /\ DOMAIN edits = 1..L /\ \A i \in 1..L : edits[i] \in Elements(edits)
      /\ lines \in [DOMAIN lines -> Elements(lines)]
      /\ DOMAIN lines = 1..Len(lines) /\ Len(lines) \in Nat
      /\ \A n \in DOMAIN lines : IsList(lines[n]) /\ Len(lines[n]) \in Nat
  <2>1. lines \in Seq(Elements(lines))
    BY DEF IsListOfLists, IsList
  <2> QED
    BY <2>1, ListBasics DEF IsListOfLists, AreEdits
<1>2. lines \in S
  BY <1>1 DEF Rewrites
<1>3. ASSUME NEW ls \in S, NEW e \in Elements(edits) PROVE write(ls, e) \in S
  <2>1. e.after \in X /\ e.line \in DOMAIN lines /\ Rewrites(lines[e.line], e.after, From, To)
    BY DEF AreEdits
  <2> HIDE DEF X
  <2> QED
    BY <2>1
<1> HIDE DEF S
<1>4. step \in [Nat -> [S -> S]]
  <2> HIDE DEF write
  <2> QED
    BY <1>1, <1>3
<1>5. \E g : Def(g)
  <2>1. PICK g \in [0..L -> S] : g = [i \in 0..L |-> IF i = 0 THEN lines ELSE step[i][g[i - 1]]]
    <3> HIDE DEF step
    <3>1. Computed(S, lines, step, L) # {}
      BY <1>1, <1>2, <1>4, RecursiveFunction
    <3> QED
      BY <3>1 DEF Computed
  <2>2. ASSUME NEW i \in 0..L
        PROVE  g[i] = IF i = 0 THEN lines
                      ELSE [g[i - 1] EXCEPT ![edits[i].line] = edits[i].after]
    <3>1. CASE i = 0
      BY <2>1, <3>1
    <3>2. CASE i # 0
      <4>1. i \in Nat /\ i \in DOMAIN edits /\ g[i - 1] \in S
        BY <1>1, <3>2
      <4>2. g[i] = step[i][g[i - 1]]
        BY <2>1, <3>2
      <4> QED
        BY <3>2, <4>1, <4>2
    <3> QED
      BY <3>1, <3>2
  <2>3. Def(g)
    BY <2>1, <2>2
  <2> HIDE DEF Def
  <2> QED
    BY <2>3
<1>6. Def(f)
  <2> HIDE DEF Def
  <2> QED
    BY <1>5
<1>7. /\ f[0] = lines
      /\ \A i \in 1..L : f[i] = write(f[i - 1], edits[i])
  <2> HIDE DEF f
  <2>1. \A i \in 0..L : f[i] = IF i = 0 THEN lines
                               ELSE [f[i - 1] EXCEPT ![edits[i].line] = edits[i].after]
    BY <1>6, Zenon
  <2>2. 0 \in 0..L /\ \A i \in 1..L : i \in 0..L /\ i # 0
    BY <1>1
  <2> HIDE DEF L
  <2> QED
    BY <2>1, <2>2
<1>8. Apply(lines, edits) = f[L]
  BY DEF Apply
<1> DEFINE N == {i \in Nat : i <= L => f[i] \in S}
<1>9. N = Nat
  <2> HIDE DEF f, write, L
  <2>1. 0 \in N
    BY <1>2, <1>7
  <2>2. ASSUME NEW i \in N PROVE i + 1 \in N
    <3> SUFFICES ASSUME i + 1 <= L PROVE f[i + 1] \in S
      OBVIOUS
    <3>1. f[i] \in S /\ i + 1 \in 1..L /\ (i + 1) - 1 = i
      BY <1>1
    <3>2. f[i + 1] = write(f[i], edits[i + 1])
      BY <1>7, <3>1
    <3> QED
      BY <1>1, <1>3, <3>1, <3>2
  <2>3. N \subseteq Nat
    OBVIOUS
  <2> HIDE DEF N
  <2> QED
    BY <2>1, <2>2, <2>3, SetInduction
<1>10. f[L] \in S
  <2> HIDE DEF f, L
  <2> QED
    BY <1>1, <1>9
<1> DEFINE after == Apply(lines, edits)
<1>11. /\ after \in [1..Len(lines) -> X]
       /\ \A n \in 1..Len(lines) : Rewrites(lines[n], after[n], From, To)
  <2> HIDE DEF f, X
  <2> QED
    BY <1>1, <1>8, <1>10 DEF S
<1> HIDE DEF after, X
<1>12. after \in Seq(X) /\ Len(after) = Len(lines) /\ DOMAIN after = 1..Len(lines)
  BY <1>1, <1>11
<1>13. IsList(after)
  BY <1>12, ListOf
<1> QED
  BY <1>11, <1>12, <1>13 DEF after, Rewrites, IsListOfLists

(* What healing may write: the body of the page, or a candidate, and each  *)
(* of them finds an element.                                               *)
Calls(anchors) ==
  {Body} \cup UNION {{c.call : c \in Elements(CandidatesOf(a))} : a \in Range(anchors)}

LEMMA CandidatesFind ==
  ASSUME NEW a
  PROVE  /\ IsList(CandidatesOf(a))
         /\ \A c \in Elements(CandidatesOf(a)) : FindsAnchor(a, c.call)
<1> DEFINE T == {[call |-> Locator("role", a.role \cup a.aria), score |-> 5],
                 [call |-> Locator("role", a.role \cup a.name), score |-> 5],
                 [call |-> Locator("label", a.aria), score |-> 4],
                 [call |-> Locator("text", a.text), score |-> 3],
                 [call |-> Locator("testid", a.testid), score |-> 2]}
<1>2. CandidatesOf(a) \in Seq(T)
  <2> DEFINE one(by, score, has, names) ==
               IF has THEN <<[call |-> Locator(by, names), score |-> score]>> ELSE << >>
             c1 == one("role", 5, a.role # {} /\ a.aria # {}, a.role \cup a.aria)
             c2 == one("role", 5, a.role # {} /\ a.name # {}, a.role \cup a.name)
             c3 == one("label", 4, a.aria # {}, a.aria)
             c4 == one("text", 3, a.text # {}, a.text)
             c5 == one("testid", 2, a.testid # {}, a.testid)
  <2>1. ASSUME NEW has, NEW by, NEW names, NEW score,
               [call |-> Locator(by, names), score |-> score] \in T
        PROVE  one(by, score, has, names) \in Seq(T)
    <3> HIDE DEF T
    <3> QED
      BY <2>1
  <2> HIDE DEF one
  <2>2. /\ c1 \in Seq(T) /\ c2 \in Seq(T) /\ c3 \in Seq(T)
        /\ c4 \in Seq(T) /\ c5 \in Seq(T)
    <3>1. /\ [call |-> Locator("role", a.role \cup a.aria), score |-> 5] \in T
          /\ [call |-> Locator("role", a.role \cup a.name), score |-> 5] \in T
          /\ [call |-> Locator("label", a.aria), score |-> 4] \in T
          /\ [call |-> Locator("text", a.text), score |-> 3] \in T
          /\ [call |-> Locator("testid", a.testid), score |-> 2] \in T
      BY Zenon
    <3> HIDE DEF T
    <3> QED
      BY <2>1, <3>1
  <2>3. CandidatesOf(a) = c1 \o c2 \o c3 \o c4 \o c5
    BY DEF CandidatesOf, one
  <2> HIDE DEF c1, c2, c3, c4, c5, T
  <2> QED
    BY <2>2, <2>3
<1>3. ASSUME NEW c \in T PROVE FindsAnchor(a, c.call)
  <2>1. /\ c.call \in {Locator("role", a.role \cup a.aria), Locator("role", a.role \cup a.name),
                       Locator("label", a.aria), Locator("text", a.text),
                       Locator("testid", a.testid)}
    BY <1>3
  <2>2. \A names : /\ Locator("role", names).by = "role" /\ Locator("role", names).names = names
                   /\ Locator("label", names).by = "label" /\ Locator("label", names).names = names
                   /\ Locator("text", names).by = "text" /\ Locator("text", names).names = names
                   /\ Locator("testid", names).by = "testid"
                   /\ Locator("testid", names).names = names
    BY DEF Locator
  <2>3. CASE c.call = Locator("role", a.role \cup a.aria)
    BY <2>2, <2>3 DEF FindsAnchor
  <2>4. CASE c.call = Locator("role", a.role \cup a.name)
    BY <2>2, <2>4 DEF FindsAnchor
  <2>5. CASE c.call = Locator("label", a.aria)
    BY <2>2, <2>5 DEF FindsAnchor
  <2>6. CASE c.call = Locator("text", a.text)
    BY <2>2, <2>6 DEF FindsAnchor
  <2>7. CASE c.call = Locator("testid", a.testid)
    BY <2>2, <2>7 DEF FindsAnchor
  <2> QED
    BY <2>1, <2>3, <2>4, <2>5, <2>6, <2>7
<1> HIDE DEF T
<1>4. IsList(CandidatesOf(a)) /\ Elements(CandidatesOf(a)) \subseteq T
  BY <1>2, ListOf
<1> QED
  BY <1>3, <1>4

LEMMA CallsFind ==
  ASSUME NEW anchors, NEW l \in Calls(anchors)
  PROVE  l = Body \/ \E a \in Range(anchors) : FindsAnchor(a, l)
<1> SUFFICES ASSUME l # Body PROVE \E a \in Range(anchors) : FindsAnchor(a, l)
  OBVIOUS
<1>1. PICK a \in Range(anchors) : l \in {c.call : c \in Elements(CandidatesOf(a))}
  BY DEF Calls
<1> QED
  BY <1>1, CandidatesFind

LEMMA BestIsACall ==
  ASSUME NEW anchors, IsList(anchors), NEW words, Best(anchors, words).score # 0
  PROVE  Best(anchors, words).call \in Calls(anchors)
<1> DEFINE parts == [i \in DOMAIN anchors |-> CandidatesOf(anchors[i])]
           cands == FlattenSeq(parts)
           above(i, k) == \/ cands[i].score > cands[k].score
                          \/ /\ cands[i].score = cands[k].score
                             /\ TokenOverlap(cands[i].call, words)
                                  > TokenOverlap(cands[k].call, words)
           best == {i \in DOMAIN cands : \A k \in DOMAIN cands : ~above(k, i)}
           first == CHOOSE i \in best : \A k \in best : i <= k
<1>1. DOMAIN anchors = 1..Len(anchors) /\ Len(anchors) \in Nat
  BY ListBasics
<1>2. \A i \in DOMAIN anchors : IsList(CandidatesOf(anchors[i]))
  BY CandidatesFind
<1>3. Best(anchors, words) = IF best = {} THEN [call |-> NoLocator, score |-> 0] ELSE cands[first]
  BY DEF Best
<1> HIDE DEF best
<1>4. best # {} /\ Best(anchors, words) = cands[first]
  <2>1. best = {} => Best(anchors, words).score = 0
    <3> HIDE DEF first, cands
    <3> QED
      BY <1>3
  <2> QED
    BY <1>3, <2>1
<1>5. parts = [i \in 1..Len(anchors) |-> parts[i]] /\ DOMAIN parts = 1..Len(anchors)
  BY <1>1
<1>6. IsListOfLists(parts) /\ Len(parts) = Len(anchors)
  <2>1. \A i \in DOMAIN parts : IsList(parts[i])
    BY <1>2
  <2> HIDE DEF parts
  <2>2. IsList(parts) /\ Len(parts) = Len(anchors)
    BY <1>1, <1>5, ListMade
  <2> QED
    BY <2>1, <2>2 DEF IsListOfLists
<1>7. IsList(cands) /\ Elements(cands) = AllOf(parts, Len(parts))
  <2> HIDE DEF parts
  <2> QED
    BY <1>6, FlattenList
<1>8. first \in best
  <2> HIDE DEF cands
  <2>1. best \in SUBSET Nat
    BY <1>7, ListBasics DEF best
  <2> QED
    BY <1>4, <2>1, Least
<1>9. cands[first] \in Elements(cands)
  <2> HIDE DEF cands, first
  <2> QED
    BY <1>8 DEF best, Elements
<1> HIDE DEF cands, first
<1>10. PICK i \in 1..Len(parts) : cands[first] \in Elements(parts[i])
  BY <1>7, <1>9 DEF AllOf
<1>11. i \in DOMAIN anchors /\ parts[i] = CandidatesOf(anchors[i])
  BY <1>1, <1>6
<1> HIDE DEF parts
<1> QED
  BY <1>4, <1>10, <1>11 DEF Calls, Range

(* The edits that are computed.                                            *)
LEMMA OneEdit ==
  ASSUME NEW lines, NEW n \in DOMAIN lines, IsList(lines[n]), NEW From, NEW To,
         NEW original \in From, NEW call \in To
  PROVE  AreEdits(<<Edit(n, lines[n], RewriteLocator(lines[n], original, call))>>,
                  lines, From, To)
<1> DEFINE new == RewriteLocator(lines[n], original, call)
           e == Edit(n, lines[n], new)
<1>1. Rewrites(lines[n], new, From, To)
  BY LocatorRewritten
<1> HIDE DEF new
<1>2. e.line = n /\ e.after = new
  BY DEF Edit
<1> HIDE DEF e
<1>3. <<e>> \in Seq({e})
  OBVIOUS
<1>4. IsList(<<e>>) /\ Elements(<<e>>) \subseteq {e}
  BY <1>3, ListOf
<1> QED
  BY <1>1, <1>2, <1>4 DEF AreEdits, e, new

LEMMA NoEdit ==
  ASSUME NEW lines, NEW From, NEW To
  PROVE  AreEdits(<< >>, lines, From, To)
<1> DEFINE none == << >>
<1>1. none \in Seq({})
  OBVIOUS
<1> HIDE DEF none
<1>2. IsList(none) /\ Elements(none) \subseteq {}
  BY <1>1, ListOf
<1>3. AreEdits(none, lines, From, To)
  BY <1>2 DEF AreEdits
<1> QED
  BY <1>3 DEF none

LEMMA EditsJoined ==
  ASSUME NEW parts, NEW n \in Nat, DOMAIN parts = 1..n, parts = [i \in 1..n |-> parts[i]],
         NEW lines, NEW From, NEW To, \A i \in 1..n : AreEdits(parts[i], lines, From, To)
  PROVE  AreEdits(FlattenSeq(parts), lines, From, To)
<1>1. IsListOfLists(parts) /\ Len(parts) = n
  BY ListMade DEF IsListOfLists, AreEdits
<1>2. IsList(FlattenSeq(parts)) /\ Elements(FlattenSeq(parts)) = AllOf(parts, n)
  BY <1>1, FlattenList
<1> QED
  BY <1>2 DEF AreEdits, AllOf

(* What the errors of a report mention first.                              *)
Mentioned(rs) ==
  UNION {{e[1] : e \in {e \in Range(rs[i].errors) : e # << >>}} : i \in DOMAIN rs}

LEMMA FailuresMention ==
  ASSUME NEW rs, IsList(rs), \A i \in DOMAIN rs : IsList(rs[i].errors)
  PROVE  /\ IsList(LocatorFailures(rs))
         /\ \A i \in DOMAIN LocatorFailures(rs) : LocatorFailures(rs)[i].locator \in Mentioned(rs)
<1> DEFINE parts == [i \in DOMAIN rs |-> FailuresOf(rs[i])]
<1>1. Len(rs) \in Nat /\ DOMAIN rs = 1..Len(rs)
  BY ListBasics
<1>2. /\ DOMAIN parts = 1..Len(rs) /\ parts = [i \in 1..Len(rs) |-> parts[i]]
      /\ \A i \in 1..Len(rs) : parts[i] = FailuresOf(rs[i])
  BY <1>1
<1>3. ASSUME NEW i \in 1..Len(rs)
      PROVE  /\ IsList(FailuresOf(rs[i]))
             /\ \A f \in Elements(FailuresOf(rs[i])) : f.locator \in Mentioned(rs)
  <2> DEFINE errors == rs[i].errors  none == << >>
             T == {e \in Range(errors) : e # none}  named == Only(errors, T)
             made == [k \in DOMAIN named |-> [line |-> rs[i].line, locator |-> named[k][1]]]
  <2>1. FailuresOf(rs[i]) = none \/ FailuresOf(rs[i]) = made
    BY DEF FailuresOf
  <2>2. IsList(none) /\ Elements(none) = {}
    <3>1. none \in Seq({})
      OBVIOUS
    <3> HIDE DEF none
    <3> QED
      BY <3>1, ListOf
  <2>3. \A e \in T : e[1] \in Mentioned(rs)
    BY <1>1 DEF Mentioned
  <2>4. IsList(named) /\ Elements(named) \subseteq T
    <3> HIDE DEF T
    <3> QED
      BY <1>1, ListOnly
  <2> HIDE DEF named, T, none
  <2>5. DOMAIN named = 1..Len(named) /\ Len(named) \in Nat
    BY <2>4, ListBasics
  <2>6. \A k \in DOMAIN named : named[k][1] \in Mentioned(rs)
    BY <2>3, <2>4 DEF Elements
  <2>7. /\ DOMAIN made = 1..Len(named) /\ made = [k \in 1..Len(named) |-> made[k]]
        /\ \A k \in DOMAIN made : made[k].locator \in Mentioned(rs)
    BY <2>5, <2>6
  <2> HIDE DEF made
  <2>8. IsList(made)
    BY <2>5, <2>7, ListMade
  <2>9. \A f \in Elements(made) : f.locator \in Mentioned(rs)
    BY <2>7 DEF Elements
  <2> QED
    BY <2>1, <2>2, <2>8, <2>9
<1> HIDE DEF parts
<1>4. IsListOfLists(parts) /\ Len(parts) = Len(rs)
  BY <1>1, <1>2, <1>3, ListMade DEF IsListOfLists
<1>5. IsList(FlattenSeq(parts)) /\ Elements(FlattenSeq(parts)) = AllOf(parts, Len(rs))
  BY <1>4, FlattenList
<1>6. \A f \in Elements(FlattenSeq(parts)) : f.locator \in Mentioned(rs)
  BY <1>2, <1>3, <1>5 DEF AllOf
<1>7. LocatorFailures(rs) = FlattenSeq(parts)
  BY DEF LocatorFailures, parts
<1> QED
  BY <1>5, <1>6, <1>7 DEF Elements

LEMMA FailureEdits ==
  ASSUME NEW lines, IsListOfLists(lines), NEW rs, IsList(rs),
         \A i \in DOMAIN rs : IsList(rs[i].errors), NEW anchors, IsList(anchors), NEW llm
  PROVE  AreEdits(HealFromReport(lines, rs, anchors, llm), lines, Mentioned(rs), Calls(anchors))
<1> DEFINE From == Mentioned(rs)
           To == Calls(anchors)
           failures == LocatorFailures(rs)
           parts == [i \in DOMAIN failures |-> HealFailure(lines, failures[i], anchors, llm)]
<1>1. /\ DOMAIN failures = 1..Len(failures) /\ Len(failures) \in Nat
      /\ \A i \in DOMAIN failures : failures[i].locator \in From
  <2>1. IsList(failures) /\ \A i \in DOMAIN failures : failures[i].locator \in From
    BY FailuresMention
  <2> HIDE DEF failures
  <2> QED
    BY <2>1, ListBasics
<1> HIDE DEF failures, From, To
<1>2. ASSUME NEW i \in DOMAIN failures PROVE AreEdits(parts[i], lines, From, To)
  <2> DEFINE f == failures[i]  best == Best(anchors, f.locator.names)
             call == IF best.score = 0 THEN Body ELSE best.call
  <2>1. call \in To
    BY BestIsACall DEF To, Calls
  <2>2. parts[i] = HealFailure(lines, f, anchors, llm)
    OBVIOUS
  <2> HIDE DEF parts
  <2>3. \/ parts[i] = << >>
        \/ /\ f.line \in DOMAIN lines
           /\ parts[i] = <<Edit(f.line, lines[f.line],
                                RewriteLocator(lines[f.line], f.locator, call))>>
    BY <2>2 DEF HealFailure
  <2>4. f.locator \in From
    BY <1>1
  <2> HIDE DEF f, call
  <2>5. CASE parts[i] = << >>
    BY <2>5, NoEdit
  <2>6. CASE parts[i] # << >>
    <3>1. f.line \in DOMAIN lines /\ IsList(lines[f.line])
      BY <2>3, <2>6 DEF IsListOfLists
    <3> QED
      BY <2>1, <2>3, <2>4, <2>6, <3>1, OneEdit
  <2> QED
    BY <2>5, <2>6
<1>3. DOMAIN parts = 1..Len(failures) /\ parts = [i \in 1..Len(failures) |-> parts[i]]
  BY <1>1
<1>4. HealFromReport(lines, rs, anchors, llm) = FlattenSeq(parts)
  BY DEF HealFromReport, failures
<1> HIDE DEF parts
<1>5. AreEdits(FlattenSeq(parts), lines, From, To)
  BY <1>1, <1>2, <1>3, EditsJoined
<1> QED
  BY <1>4, <1>5 DEF From, To

(* The candidates are anchors of the diff, which are anchors of all, or    *)
(* all.                                                                    *)
LEMMA DiffEdits ==
  ASSUME NEW lines, IsListOfLists(lines), NEW uiFiles, IsList(uiFiles), NEW all, IsList(all),
         \A i \in DOMAIN uiFiles : IsList(uiFiles[i].new)
                                   /\ Elements(uiFiles[i].new) \subseteq Elements(all)
  PROVE  AreEdits(HealProactive(lines, uiFiles, all), lines, AllOf(lines, Len(lines)), Calls(all))
<1> DEFINE From == AllOf(lines, Len(lines))
           To == Calls(all)
           gone == UNION {GoneFrom(f) : f \in Range(uiFiles)}
           news == [i \in DOMAIN uiFiles |-> uiFiles[i].new]
           current == FlattenSeq(news)
           anchors == IF current = << >> THEN all ELSE current
           parts == [i \in DOMAIN lines |-> HealLine(lines, i, gone, anchors)]
<1>1. DOMAIN lines = 1..Len(lines) /\ Len(lines) \in Nat
  BY ListBasics DEF IsListOfLists
<1>2. HealProactive(lines, uiFiles, all) = FlattenSeq(parts)
  BY DEF HealProactive
<1>3. IsList(current) /\ Elements(current) \subseteq Elements(all)
  <2>1. Len(uiFiles) \in Nat /\ DOMAIN uiFiles = 1..Len(uiFiles)
    BY ListBasics
  <2>2. /\ DOMAIN news = 1..Len(uiFiles) /\ news = [i \in 1..Len(uiFiles) |-> news[i]]
        /\ \A i \in 1..Len(uiFiles) : news[i] = uiFiles[i].new
    BY <2>1
  <2> HIDE DEF news
  <2>3. IsListOfLists(news) /\ Len(news) = Len(uiFiles)
    BY <2>1, <2>2, ListMade DEF IsListOfLists
  <2>4. IsList(current) /\ Elements(current) = AllOf(news, Len(uiFiles))
    BY <2>3, FlattenList
  <2> HIDE DEF current
  <2> QED
    BY <2>1, <2>2, <2>4 DEF AllOf
<1> HIDE DEF current
<1>4. IsList(anchors) /\ Calls(anchors) \subseteq To
  <2>1. IsList(anchors) /\ Elements(anchors) \subseteq Elements(all)
    BY <1>3
  <2> HIDE DEF anchors
  <2>2. Range(anchors) = Elements(anchors) /\ Range(all) = Elements(all)
    BY DEF Elements, Range
  <2> QED
    BY <2>1, <2>2 DEF Calls
<1> HIDE DEF To, gone, anchors
<1>5. ASSUME NEW i \in DOMAIN lines PROVE AreEdits(parts[i], lines, From, To)
  <2> DEFINE best == Best(anchors, WordsOf(lines[i]))
             e == <<Edit(i, lines[i], RewriteLocator(lines[i], lines[i][1], best.call))>>
  <2>1. parts[i] = HealLine(lines, i, gone, anchors)
    OBVIOUS
  <2> HIDE DEF parts
  <2>2. parts[i] = << >> \/ (best.score # 0 /\ lines[i] # << >> /\ parts[i] = e)
    BY <2>1 DEF HealLine
  <2>3. CASE parts[i] = << >>
    BY <2>3, NoEdit
  <2>4. CASE best.score # 0 /\ lines[i] # << >> /\ parts[i] = e
    <3>1. best.call \in To
      BY <1>4, <2>4, BestIsACall
    <3>2. IsList(lines[i]) /\ lines[i][1] \in Elements(lines[i])
      <4>1. lines[i] \in Seq(Elements(lines[i]))
        BY DEF IsListOfLists, IsList
      <4>2. 1 \in 1..Len(lines[i]) /\ DOMAIN lines[i] = 1..Len(lines[i])
        BY <2>4, <4>1
      <4> QED
        BY <4>2 DEF Elements, IsListOfLists
    <3>3. lines[i][1] \in From
      BY <1>1, <3>2 DEF AllOf
    <3> HIDE DEF From, best
    <3>4. AreEdits(e, lines, From, To)
      BY <3>1, <3>2, <3>3, OneEdit
    <3> QED
      BY <2>4, <3>4
  <2> QED
    BY <2>2, <2>3, <2>4
<1>6. DOMAIN parts = 1..Len(lines) /\ parts = [i \in 1..Len(lines) |-> parts[i]]
  BY <1>1
<1> HIDE DEF parts, From
<1>7. AreEdits(FlattenSeq(parts), lines, From, To)
  BY <1>1, <1>5, <1>6, EditsJoined
<1> QED
  BY <1>2, <1>7 DEF From, To

(* The lines of a file.                                                    *)
Parts(f) == [i \in DOMAIN f.body |-> BlockLines(f.body[i])]
Listed(f) == IsFile(f) /\ \A i \in DOMAIN f.body : IsList(f.body[i].v)

LEMMA LinesOfBlock ==
  ASSUME NEW b, IsList(b.v)
  PROVE  /\ IsListOfLists(BlockLines(b)) /\ Len(b.v) \in Nat /\ DOMAIN b.v = 1..Len(b.v)
         /\ b.is = "user" => Len(BlockLines(b)) = 1 /\ BlockLines(b)[1] = b.v
         /\ b.is # "user" => /\ Len(BlockLines(b)) = 1 + Len(b.v) /\ BlockLines(b)[1] = << >>
                             /\ \A k \in 1..Len(b.v) : BlockLines(b)[1 + k] = <<b.v[k]>>
<1> DEFINE ls == BlockLines(b)
<1>1. DOMAIN b.v = 1..Len(b.v) /\ Len(b.v) \in Nat
  BY ListBasics
<1>2. CASE b.is = "user"
  <2>1. ls = <<b.v>>
    BY <1>2 DEF BlockLines
  <2> HIDE DEF ls
  <2>2. IsList(ls) /\ Len(ls) = 1 /\ ls[1] = b.v
    BY <2>1, ShortLists
  <2>3. DOMAIN ls = 1..1
    BY <2>2, ListBasics
  <2> QED
    BY <1>1, <1>2, <2>2, <2>3 DEF IsListOfLists, ls
<1>3. CASE b.is # "user"
  <2> DEFINE none == << >>
             top == <<none>>
             steps == [i \in DOMAIN b.v |-> <<b.v[i]>>]
  <2>1. ls = top \o steps
    BY <1>3 DEF BlockLines
  <2>2. DOMAIN steps = 1..Len(b.v) /\ steps = [i \in 1..Len(b.v) |-> steps[i]]
    BY <1>1
  <2>3. \A i \in 1..Len(b.v) : steps[i] = <<b.v[i]>>
    BY <1>1
  <2> HIDE DEF steps, none
  <2>4. IsList(top) /\ Len(top) = 1 /\ top[1] = none
    BY ShortLists
  <2>5. IsList(steps) /\ Len(steps) = Len(b.v)
    BY <1>1, <2>2, ListMade
  <2> HIDE DEF top, ls
  <2>6. /\ IsList(ls) /\ Len(ls) = 1 + Len(b.v)
        /\ ls[1] = none /\ \A k \in 1..Len(b.v) : ls[1 + k] = <<b.v[k]>>
    <3>1. /\ IsList(top \o steps) /\ Len(top \o steps) = Len(top) + Len(steps)
          /\ \A i \in 1..Len(top) : (top \o steps)[i] = top[i]
          /\ \A i \in 1..Len(steps) : (top \o steps)[Len(top) + i] = steps[i]
      <4>1. IsList(top) /\ IsList(steps)
        BY <2>4, <2>5
      <4> QED
        BY <4>1, ListConcat
    <3>2. 1 \in 1..Len(top)
      BY <2>4
    <3> QED
      BY <2>1, <2>3, <2>4, <2>5, <3>1, <3>2
  <2>7. ASSUME NEW n \in DOMAIN ls PROVE IsList(ls[n])
    <3>1. DOMAIN ls = 1..Len(ls)
      BY <2>6, ListBasics
    <3>2. n = 1 \/ (n - 1 \in 1..Len(b.v) /\ n = 1 + (n - 1))
      BY <1>1, <2>6, <3>1
    <3>3. ls[n] = none \/ ls[n] = <<b.v[n - 1]>>
      BY <2>6, <3>2
    <3>4. IsList(none) /\ \A x : IsList(<<x>>)
      BY ShortLists DEF none
    <3> QED
      BY <3>3, <3>4
  <2> QED
    BY <1>1, <1>3, <2>6, <2>7 DEF IsListOfLists, ls, none
<1> QED
  BY <1>2, <1>3

LEMMA PartsOfFile ==
  ASSUME NEW f, Listed(f)
  PROVE  /\ IsListOfLists(Parts(f)) /\ Len(Parts(f)) = Len(f.body)
         /\ Len(f.body) \in Nat /\ DOMAIN f.body = 1..Len(f.body)
         /\ \A i \in 1..Len(f.body) :
              Parts(f)[i] = BlockLines(f.body[i]) /\ IsListOfLists(Parts(f)[i])
<1> DEFINE body == f.body  p == Parts(f)
<1>1. Len(body) \in Nat /\ DOMAIN body = 1..Len(body)
  <2>1. body \in Seq(Range(body))
    BY DEF Listed, IsFile, Blocks, IsSeq
  <2> HIDE DEF body
  <2> QED
    BY <2>1
<1>2. \A i \in 1..Len(body) : IsList(body[i].v)
  BY <1>1 DEF Listed
<1>3. p = [i \in DOMAIN body |-> BlockLines(body[i])]
  BY DEF Parts
<1> HIDE DEF p, body
<1>4. /\ DOMAIN p = 1..Len(body) /\ p = [i \in 1..Len(body) |-> p[i]]
      /\ \A i \in 1..Len(body) : p[i] = BlockLines(body[i])
  BY <1>1, <1>3
<1>5. \A i \in 1..Len(body) : IsListOfLists(p[i])
  BY <1>2, <1>4, LinesOfBlock
<1>6. IsList(p) /\ Len(p) = Len(body)
  BY <1>1, <1>4, ListMade
<1>7. IsListOfLists(p)
  BY <1>4, <1>5, <1>6 DEF IsListOfLists
<1> QED
  BY <1>1, <1>4, <1>5, <1>6, <1>7 DEF p, body

(* A line for every import, then those of the parts.                       *)
LEMMA LinesAre ==
  ASSUME NEW f, IsSeq(f.imports), NEW lines, IsList(lines),
         lines = FlattenSeq([i \in DOMAIN f.body |-> BlockLines(f.body[i])])
  PROVE  /\ IsList(Lines(f)) /\ Len(f.imports) \in Nat
         /\ Len(Lines(f)) = Len(f.imports) + Len(lines)
         /\ \A n \in 1..Len(f.imports) : Lines(f)[n] = << >>
         /\ \A n \in 1..Len(lines) : Lines(f)[Len(f.imports) + n] = lines[n]
<1> DEFINE none == << >>
           top == [i \in DOMAIN f.imports |-> none]
<1>1. DOMAIN f.imports = 1..Len(f.imports) /\ Len(f.imports) \in Nat
  BY DEF IsSeq
<1>2. /\ DOMAIN top = 1..Len(f.imports) /\ top = [i \in 1..Len(f.imports) |-> top[i]]
      /\ \A n \in 1..Len(f.imports) : top[n] = none
  BY <1>1
<1>3. Lines(f) = top \o lines
  BY DEF Lines, BodyLines
<1> HIDE DEF top
<1>4. IsList(top) /\ Len(top) = Len(f.imports)
  BY <1>1, <1>2, ListMade
<1>5. /\ IsList(top \o lines) /\ Len(top \o lines) = Len(top) + Len(lines)
      /\ \A i \in 1..Len(top) : (top \o lines)[i] = top[i]
      /\ \A i \in 1..Len(lines) : (top \o lines)[Len(top) + i] = lines[i]
  <2>1. IsList(top) /\ IsList(lines)
    BY <1>4
  <2> QED
    BY <2>1, ListConcat
<1> HIDE DEF none
<1>6. \A n \in 1..Len(f.imports) : Lines(f)[n] = none
  BY <1>2, <1>3, <1>4, <1>5
<1> QED
  BY <1>1, <1>3, <1>4, <1>5, <1>6 DEF none

(* Where a block begins.                                                   *)
LEMMA FileLines ==
  ASSUME NEW f, Listed(f)
  PROVE  LET m == Len(f.imports)  all == FlattenSeq(Parts(f)) IN
         /\ IsListOfLists(Lines(f)) /\ m \in Nat
         /\ Len(Lines(f)) = m + Len(all) /\ Len(all) \in Nat
         /\ \A n \in 1..m : Lines(f)[n] = << >>
         /\ \A n \in 1..Len(all) : Lines(f)[m + n] = all[n]
         /\ \A i \in 1..Len(f.body) : FirstLine(f, i) = m + Len(FirstParts(Parts(f), i - 1)) + 1
<1> DEFINE m == Len(f.imports)  p == Parts(f)  all == FlattenSeq(p)
<1>1. /\ IsListOfLists(p) /\ Len(p) = Len(f.body)
      /\ Len(f.body) \in Nat /\ DOMAIN f.body = 1..Len(f.body)
      /\ \A i \in 1..Len(f.body) : p[i] = BlockLines(f.body[i]) /\ IsListOfLists(p[i])
  BY PartsOfFile
<1>2. IsSeq(f.imports) /\ f = SourceFile(f.pkg, f.imports, f.body)
  BY DEF Listed, IsFile
<1>3. IsList(all) /\ Elements(all) = AllOf(p, Len(p))
  <2> HIDE DEF p
  <2> QED
    BY <1>1, FlattenList
<1>4. all = FlattenSeq([i \in DOMAIN f.body |-> BlockLines(f.body[i])])
  BY DEF Parts
<1> HIDE DEF all, p
<1>5. /\ IsList(Lines(f)) /\ m \in Nat
      /\ Len(Lines(f)) = m + Len(all)
      /\ \A n \in 1..m : Lines(f)[n] = << >>
      /\ \A n \in 1..Len(all) : Lines(f)[m + n] = all[n]
  <2>1. /\ IsSeq(f.imports) /\ IsList(all)
        /\ all = FlattenSeq([i \in DOMAIN f.body |-> BlockLines(f.body[i])])
    BY <1>2, <1>3, <1>4
  <2> QED
    BY ONLY <2>1, LinesAre
<1> HIDE DEF m
<1>6. Len(all) \in Nat
  BY <1>3, ListBasics
<1>7. ASSUME NEW n \in DOMAIN Lines(f) PROVE IsList(Lines(f)[n])
  <2>1. n \in 1..m + Len(all)
    BY <1>5, ListBasics
  <2>2. CASE n \in 1..m
    <3> DEFINE none == << >>
    <3>1. Lines(f)[n] = none
      BY <1>5, <2>2
    <3>2. IsList(none)
      BY ShortLists
    <3> HIDE DEF none
    <3> QED
      BY <3>1, <3>2
  <2>3. CASE n \notin 1..m
    <3>1. n - m \in 1..Len(all) /\ n = m + (n - m)
      BY <1>5, <1>6, <2>1, <2>3
    <3>2. Lines(f)[n] = all[n - m]
      BY <1>5, <3>1
    <3>3. all[n - m] \in AllOf(p, Len(p))
      BY <1>3, <3>1, ListBasics
    <3>4. PICK i \in 1..Len(p) : all[n - m] \in Elements(p[i])
      BY <3>3 DEF AllOf
    <3> QED
      BY <1>1, <3>2, <3>4 DEF IsListOfLists, Elements
  <2> QED
    BY <2>2, <2>3
<1>8. ASSUME NEW i \in 1..Len(f.body)
      PROVE  FirstLine(f, i) = m + Len(FirstParts(p, i - 1)) + 1
  <2> DEFINE sub == SubSeq(f.body, 1, i - 1)
             g == SourceFile(f.pkg, f.imports, sub)
             q == [k \in DOMAIN sub |-> BlockLines(sub[k])]
             head == SubSeq(p, 1, i - 1)
  <2>1. /\ DOMAIN sub = 1..i - 1 /\ i \in Nat /\ i - 1 \in 0..Len(p)
        /\ \A k \in 1..i - 1 : sub[k] = f.body[k] /\ k \in 1..Len(f.body)
    <3>1. f.body \in Seq(Range(f.body))
      BY DEF Listed, IsFile, Blocks, IsSeq
    <3> HIDE DEF m
    <3> QED
      BY <1>1, <3>1
  <2>2. [f EXCEPT !.body = sub] = g
    <3> HIDE DEF sub
    <3> QED
      BY <1>2 DEF SourceFile
  <2>3. g.imports = f.imports /\ g.body = sub
    <3> HIDE DEF sub
    <3> QED
      BY DEF SourceFile
  <2>4. FirstLine(f, i) = Len(Lines(g)) + 1
    BY <2>2 DEF FirstLine
  <2>5. p \in Seq(Elements(p))
    BY <1>1 DEF IsListOfLists, IsList
  <2>6. /\ head \in Seq(Elements(p)) /\ Len(head) = i - 1
        /\ \A k \in 1..i - 1 : head[k] = p[k]
    BY <1>1, <2>1, <2>5
  <2>7. q = head
    <3> HIDE DEF sub, head
    <3>1. DOMAIN q = 1..i - 1 /\ \A k \in 1..i - 1 : q[k] = head[k]
      BY <1>1, <2>1, <2>6
    <3>2. q = [k \in 1..i - 1 |-> q[k]] /\ head = [k \in 1..i - 1 |-> head[k]]
      BY <2>1, <2>6
    <3> HIDE DEF q
    <3> QED
      BY <3>1, <3>2
  <2>8. IsList(FirstParts(p, i - 1)) /\ FirstParts(p, i - 1) = FlattenSeq(q)
    BY <1>1, <2>1, <2>7, FlattenUpTo DEF FirstParts
  <2>9. FirstParts(p, i - 1) = FlattenSeq([k \in DOMAIN g.body |-> BlockLines(g.body[k])])
    BY <2>3, <2>8
  <2> HIDE DEF g, q
  <2>10. Len(Lines(g)) = Len(g.imports) + Len(FirstParts(p, i - 1))
    BY <1>2, <2>3, <2>8, <2>9, LinesAre
  <2> QED
    BY <2>3, <2>4, <2>10 DEF m
<1> QED
  BY <1>5, <1>6, <1>7, <1>8 DEF m, p, all, IsListOfLists

(* What is written into the lines of a file is what they then are.         *)
LEMMA LinesWritten ==
  ASSUME NEW f, Listed(f), NEW after, IsListOfLists(after), Len(after) = Len(Lines(f)),
         \A n \in 1..Len(after) : Len(after[n]) = Len(Lines(f)[n])
  PROVE  Listed(WithLines(f, after)) /\ Lines(WithLines(f, after)) = after
<1> DEFINE m == Len(f.imports)  p == Parts(f)  L == Len(f.body)
           g == WithLines(f, after)
           v(i) == LET at == FirstLine(f, i) IN
                   IF f.body[i].is = "user" THEN after[at]
                   ELSE [k \in DOMAIN f.body[i].v |-> after[at + k][1]]
           new == [i \in DOMAIN f.body |-> [f.body[i] EXCEPT !.v = v(i)]]
           At(i) == m + Len(FirstParts(p, i - 1))
<1>1. /\ IsListOfLists(p) /\ Len(p) = L /\ L \in Nat /\ DOMAIN f.body = 1..L
      /\ \A i \in 1..L : p[i] = BlockLines(f.body[i]) /\ IsListOfLists(p[i])
  BY PartsOfFile
<1>2. /\ IsListOfLists(Lines(f)) /\ m \in Nat
      /\ Len(Lines(f)) = m + Len(FlattenSeq(p)) /\ Len(FlattenSeq(p)) \in Nat
      /\ \A n \in 1..m : Lines(f)[n] = << >>
      /\ \A n \in 1..Len(FlattenSeq(p)) : Lines(f)[m + n] = FlattenSeq(p)[n]
      /\ \A i \in 1..L : FirstLine(f, i) = m + Len(FirstParts(p, i - 1)) + 1
  BY FileLines
<1>3. PlacedUpTo(p, L) /\ FirstParts(p, L) = FlattenSeq(p)
  <2> HIDE DEF p
  <2> QED
    BY <1>1, FlattenPlaces, FlattenUpTo
<1> HIDE DEF p
<1>m. m \in Nat
  BY <1>2
<1>4. ASSUME NEW i \in 1..L
      PROVE  /\ Len(FirstParts(p, i - 1)) \in Nat /\ At(i) \in Nat
             /\ FirstLine(f, i) = At(i) + 1
             /\ \A k \in 1..Len(p[i]) : /\ At(i) + k \in 1..Len(after)
                                        /\ Lines(f)[At(i) + k] = p[i][k]
                                        /\ IsList(after[At(i) + k])
                                        /\ Len(after[At(i) + k]) = Len(p[i][k])
  <2>1. i - 1 \in 0..Len(p)
    BY <1>1
  <2>2. IsList(FirstParts(p, i - 1))
    BY <1>1, <2>1, FlattenUpTo
  <2>3. Len(FirstParts(p, i - 1)) \in Nat
    BY <2>2, ListBasics
  <2>4. ASSUME NEW k \in 1..Len(p[i])
        PROVE  At(i) + k \in 1..Len(after) /\ Lines(f)[At(i) + k] = p[i][k]
    <3> DEFINE o == Len(FirstParts(p, i - 1))  all == FlattenSeq(p)
    <3>1. o + k \in 1..Len(all) /\ all[o + k] = p[i][k]
      BY <1>3 DEF PlacedUpTo
    <3>2. IsList(p[i])
      BY <1>1 DEF IsListOfLists
    <3>3. k \in Nat
      BY <3>2, ListBasics
    <3> HIDE DEF o, all
    <3>4. Lines(f)[m + (o + k)] = all[o + k] /\ m + (o + k) \in 1..Len(after)
      BY <1>2, <3>1 DEF all
    <3>5. At(i) + k = m + (o + k)
      <4> HIDE DEF m
      <4>1. m \in Nat /\ o \in Nat
        BY <1>m, <2>3 DEF o
      <4>2. At(i) = m + o
        BY DEF o
      <4> HIDE DEF At
      <4> QED
        BY <3>3, <4>1, <4>2
    <3> HIDE DEF At
    <3> QED
      BY <3>1, <3>4, <3>5
  <2>5. \A n \in 1..Len(after) : IsList(after[n]) /\ Len(after[n]) = Len(Lines(f)[n])
    BY ListBasics DEF IsListOfLists
  <2>6. FirstLine(f, i) = At(i) + 1 /\ At(i) \in Nat
    <3>1. FirstLine(f, i) = At(i) + 1
      BY <1>2
    <3> DEFINE o == Len(FirstParts(p, i - 1))
    <3>2. m \in Nat /\ o \in Nat /\ At(i) = m + o
      BY <1>m, <2>3
    <3> HIDE DEF o, m, At
    <3> QED
      BY <3>1, <3>2
  <2> HIDE DEF At, m
  <2> QED
    BY <2>3, <2>4, <2>5, <2>6
<1>5. ASSUME NEW i \in 1..L
      PROVE  LET b == f.body[i]  c == new[i] IN
             /\ c.is = b.is /\ IsList(c.v)
             /\ b.is = "user" => c.v = after[At(i) + 1]
             /\ b.is # "user" => /\ Len(c.v) = Len(b.v)
                                 /\ \A k \in 1..Len(b.v) : c.v[k] = after[At(i) + 1 + k][1]
  <2> DEFINE b == f.body[i]  c == new[i]
  <2>1. c = [b EXCEPT !.v = v(i)] /\ IsBlock(b) /\ IsList(b.v)
    BY <1>1 DEF Listed, IsFile, Blocks
  <2>2. c.is = b.is /\ c.v = v(i)
    <3> HIDE DEF c, b, v
    <3> QED
      BY <2>1 DEF IsBlock, Block
  <2>3. /\ IsListOfLists(BlockLines(b)) /\ Len(b.v) \in Nat /\ DOMAIN b.v = 1..Len(b.v)
        /\ b.is = "user" => Len(BlockLines(b)) = 1
    <3> HIDE DEF b
    <3> QED
      BY <2>1, LinesOfBlock
  <2>4. p[i] = BlockLines(b) /\ FirstLine(f, i) = At(i) + 1
    BY <1>1, <1>4
  <2>5. CASE b.is = "user"
    <3>1. c.v = after[At(i) + 1]
      BY <2>2, <2>4, <2>5
    <3>2. 1 \in 1..Len(p[i])
      <4>1. Len(p[i]) = 1
        BY <2>3, <2>4, <2>5
      <4> QED
        BY <4>1
    <3>3. IsList(after[At(i) + 1])
      BY <1>4, <3>2
    <3> HIDE DEF b, c, At
    <3> QED
      BY <2>2, <2>5, <3>1, <3>3 DEF b, c
  <2>6. CASE b.is # "user"
    <3>1. c.v = [k \in DOMAIN b.v |-> after[At(i) + 1 + k][1]]
      BY <2>2, <2>4, <2>6
    <3> HIDE DEF b, c, At
    <3>2. /\ DOMAIN c.v = 1..Len(b.v) /\ c.v = [k \in 1..Len(b.v) |-> c.v[k]]
          /\ \A k \in 1..Len(b.v) : c.v[k] = after[At(i) + 1 + k][1]
      BY <2>3, <3>1
    <3>3. IsList(c.v) /\ Len(c.v) = Len(b.v)
      BY <2>3, <3>2, ListMade
    <3> QED
      BY <2>2, <2>6, <3>2, <3>3 DEF b, c
  <2> QED
    BY <2>5, <2>6
<1>6. g.imports = f.imports /\ g.body = new /\ IsFile(g)
  <2>1. g = [f EXCEPT !.body = new]
    BY Zenon DEF WithLines
  <2>2. f = SourceFile(f.pkg, f.imports, f.body)
    BY DEF Listed, IsFile
  <2>3. IsFile(g)
    BY OtherLocators DEF Listed
  <2> HIDE DEF g, new
  <2> QED
    BY <2>1, <2>2, <2>3 DEF SourceFile
<1>7. DOMAIN new = 1..L
  BY <1>1
<1> HIDE DEF new, g, L
<1>8. Listed(g)
  BY <1>5, <1>6, <1>7 DEF Listed
<1> DEFINE q == Parts(g)
<1>9. /\ IsListOfLists(q) /\ Len(q) = L
      /\ \A i \in 1..L : q[i] = BlockLines(new[i]) /\ IsListOfLists(q[i])
  <2>1. /\ IsListOfLists(q) /\ Len(q) = Len(g.body) /\ DOMAIN g.body = 1..Len(g.body)
        /\ Len(g.body) \in Nat
        /\ \A i \in 1..Len(g.body) : q[i] = BlockLines(g.body[i]) /\ IsListOfLists(q[i])
    BY <1>8, PartsOfFile
  <2>2. Len(g.body) = L
    BY <1>1, <1>6, <1>7, <2>1
  <2> HIDE DEF q
  <2> QED
    BY <1>6, <2>1, <2>2
<1>10. /\ IsListOfLists(Lines(g))
       /\ Len(Lines(g)) = m + Len(FlattenSeq(q)) /\ Len(FlattenSeq(q)) \in Nat
       /\ \A n \in 1..m : Lines(g)[n] = << >>
       /\ \A n \in 1..Len(FlattenSeq(q)) : Lines(g)[m + n] = FlattenSeq(q)[n]
  <2>1. Len(g.imports) = m
    BY <1>6
  <2> QED
    BY <1>8, <2>1, FileLines
<1> HIDE DEF q
<1>11. PlacedUpTo(q, L) /\ FirstParts(q, L) = FlattenSeq(q)
  BY <1>9, FlattenPlaces, FlattenUpTo
<1>12. ASSUME NEW i \in 1..L
       PROVE  /\ Len(q[i]) = Len(p[i])
              /\ \A k \in 1..Len(p[i]) : q[i][k] = after[At(i) + k]
  <2> DEFINE b == f.body[i]  c == new[i]
  <2>1. /\ c.is = b.is /\ IsList(c.v)
        /\ b.is = "user" => c.v = after[At(i) + 1]
        /\ b.is # "user" => /\ Len(c.v) = Len(b.v)
                            /\ \A k \in 1..Len(b.v) : c.v[k] = after[At(i) + 1 + k][1]
    BY <1>5
  <2>2. IsList(b.v)
    BY <1>1 DEF Listed
  <2>3. p[i] = BlockLines(b) /\ q[i] = BlockLines(c)
    BY <1>1, <1>9
  <2> HIDE DEF b, c
  <2>4. CASE b.is = "user"
    <3>1. Len(p[i]) = 1 /\ p[i][1] = b.v
      BY <2>2, <2>3, <2>4, LinesOfBlock
    <3>2. Len(q[i]) = 1 /\ q[i][1] = c.v
      BY <2>1, <2>3, <2>4, LinesOfBlock
    <3> HIDE DEF At
    <3> QED
      BY <2>1, <2>4, <3>1, <3>2
  <2>5. CASE b.is # "user"
    <3> DEFINE none == << >>
    <3>1. /\ Len(p[i]) = 1 + Len(b.v) /\ p[i][1] = none /\ Len(b.v) \in Nat
          /\ \A k \in 1..Len(b.v) : p[i][1 + k] = <<b.v[k]>>
      BY <2>2, <2>3, <2>5, LinesOfBlock
    <3>2. /\ Len(q[i]) = 1 + Len(c.v) /\ q[i][1] = none
          /\ \A k \in 1..Len(c.v) : q[i][1 + k] = <<c.v[k]>>
      BY <2>1, <2>3, <2>5, LinesOfBlock
    <3>3. after[At(i) + 1] = none
      <4>1. 1 \in 1..Len(p[i])
        BY <3>1
      <4>2. IsList(after[At(i) + 1]) /\ Len(after[At(i) + 1]) = Len(none)
        BY <1>4, <3>1, <4>1
      <4> HIDE DEF At
      <4> QED
        BY <4>2, ShortLists
    <3> HIDE DEF none
    <3>4. ASSUME NEW k \in 1..Len(b.v) PROVE after[At(i) + (1 + k)] = <<c.v[k]>>
      <4>1. 1 + k \in 1..Len(p[i]) /\ k \in Nat
        BY <3>1
      <4>2. /\ IsList(after[At(i) + (1 + k)])
            /\ Len(after[At(i) + (1 + k)]) = Len(<<b.v[k]>>)
            /\ At(i) \in Nat
        BY <1>4, <3>1, <4>1
      <4> HIDE DEF At
      <4>3. Len(<<b.v[k]>>) = 1
        BY ShortLists
      <4>4. At(i) + (1 + k) = At(i) + 1 + k
        BY <4>1, <4>2
      <4>5. c.v[k] = after[At(i) + (1 + k)][1]
        BY <2>1, <2>5, <4>4
      <4> QED
        BY <4>2, <4>3, <4>5, ShortLists
    <3> HIDE DEF At
    <3>5. ASSUME NEW k \in 1..Len(p[i]) PROVE q[i][k] = after[At(i) + k]
      <4>1. k = 1 \/ (k - 1 \in 1..Len(b.v) /\ k = 1 + (k - 1))
        BY <3>1
      <4>2. CASE k = 1
        BY <3>2, <3>3, <4>2
      <4>3. CASE k # 1
        <5>1. q[i][1 + (k - 1)] = <<c.v[k - 1]>>
          BY <2>1, <2>5, <3>2, <4>1, <4>3
        <5>2. after[At(i) + (1 + (k - 1))] = <<c.v[k - 1]>>
          BY <3>4, <4>1, <4>3
        <5> QED
          BY <4>1, <4>3, <5>1, <5>2
      <4> QED
        BY <4>2, <4>3
    <3> QED
      BY <2>1, <2>5, <3>1, <3>2, <3>5
  <2> QED
    BY <2>4, <2>5
<1>13. \A n \in 0..L : Len(FirstParts(p, n)) = Len(FirstParts(q, n))
  <2>1. Len(p) = Len(q) /\ \A i \in 1..Len(p) : Len(p[i]) = Len(q[i])
    BY <1>1, <1>9, <1>12
  <2>2. \A n \in 0..Len(p) : Len(FirstParts(p, n)) = Len(FirstParts(q, n))
    BY <1>1, <1>9, <2>1, SamePlaces
  <2> QED
    BY <1>1, <2>2
<1>14. Len(Lines(g)) = Len(after)
  <2>1. Len(FlattenSeq(p)) = Len(FlattenSeq(q))
    <3>1. L \in 0..L
      BY <1>1
    <3> QED
      BY <1>3, <1>11, <1>13, <3>1
  <2> QED
    BY <1>2, <1>10, <2>1
<1>15. ASSUME NEW n \in 1..Len(after) PROVE Lines(g)[n] = after[n]
  <2>1. n \in Nat /\ Len(after) = m + Len(FlattenSeq(q))
    BY <1>10, <1>14
  <2>2. CASE n \in 1..m
    <3> DEFINE none == << >>
    <3>1. Lines(g)[n] = none /\ Lines(f)[n] = none
      BY <1>2, <1>10, <2>2
    <3>2. IsList(after[n]) /\ Len(after[n]) = Len(none)
      BY <3>1, ListBasics DEF IsListOfLists
    <3> QED
      BY <3>1, <3>2, ShortLists
  <2>3. CASE n \notin 1..m
    <3>1. n - m \in 1..Len(FlattenSeq(q)) /\ n = m + (n - m)
      BY <1>2, <1>10, <2>1, <2>3
    <3>2. PICK i \in 1..L : \E k \in 1..Len(q[i]) : n - m = Len(FirstParts(q, i - 1)) + k
      BY <1>11, <3>1 DEF PlacedUpTo
    <3>3. PICK k \in 1..Len(q[i]) : n - m = Len(FirstParts(q, i - 1)) + k
      BY <3>2
    <3>4. FlattenSeq(q)[Len(FirstParts(q, i - 1)) + k] = q[i][k]
      BY <1>11 DEF PlacedUpTo
    <3>5. Lines(g)[n] = q[i][k]
      BY <1>10, <3>1, <3>3, <3>4
    <3>6. q[i][k] = after[At(i) + k]
      BY <1>12
    <3>7. At(i) + k = n
      <4>1. i - 1 \in 0..L
        BY <1>1
      <4>2. Len(FirstParts(p, i - 1)) = Len(FirstParts(q, i - 1))
        BY <1>13, <4>1
      <4>3. Len(FirstParts(p, i - 1)) \in Nat /\ k \in Nat
        <5>1. IsList(q[i])
          BY <1>9 DEF IsListOfLists
        <5>2. k \in Nat
          BY <5>1, ListBasics
        <5> QED
          BY <1>4, <5>2
      <4> DEFINE o == Len(FirstParts(p, i - 1))
      <4>4. m \in Nat /\ o \in Nat /\ At(i) = m + o /\ n - m = o + k
        BY <1>m, <3>3, <4>2, <4>3
      <4> HIDE DEF o, m, At
      <4> QED
        BY <2>1, <4>3, <4>4
    <3> QED
      BY <3>5, <3>6, <3>7
  <2> QED
    BY <2>2, <2>3
<1>16. Lines(g) = after
  BY <1>10, <1>14, <1>15, SameLists DEF IsListOfLists
<1> QED
  BY <1>8, <1>16 DEF g

-----------------------------------------------------------------------------
(* The steps of the tests that are generated are lists.                    *)
AllListed(body) == \A i \in DOMAIN body : IsList(body[i].v)

LEMMA LocatedLists ==
  ASSUME NEW s, IsList(s)
  PROVE  IsList(Located(s)) /\ IsList(LocatedAnchors(s))
<1> DEFINE a == [i \in DOMAIN s |-> InputLocator(s[i])]
           b == [i \in DOMAIN s |-> LocatorFor(s[i])]
<1>1. DOMAIN s = 1..Len(s) /\ Len(s) \in Nat
  BY ListBasics
<1>2. /\ DOMAIN a = 1..Len(s) /\ a = [i \in 1..Len(s) |-> a[i]]
      /\ DOMAIN b = 1..Len(s) /\ b = [i \in 1..Len(s) |-> b[i]]
  BY <1>1
<1>3. /\ Located(s) = Only(a, Range(a) \ {NoLocator})
      /\ LocatedAnchors(s) = Only(b, Range(b) \ {NoLocator})
  BY DEF Located, LocatedAnchors
<1> HIDE DEF a, b
<1>4. IsList(a) /\ IsList(b)
  BY <1>1, <1>2, ListMade
<1> QED
  BY <1>3, <1>4, ListOnly

LEMMA FirstIsList ==
  ASSUME NEW s, NEW T
  PROVE  IsList(FirstOf(s, T))
<1> DEFINE none == << >>  q == Only(s, T)  one == <<Head(q)>>
<1>1. FirstOf(s, T) = none \/ FirstOf(s, T) = one
  BY Zenon DEF FirstOf
<1>2. IsList(none) /\ IsList(one)
  BY Zenon, ShortLists
<1> HIDE DEF none, one
<1> QED
  BY <1>1, <1>2

LEMMA StepsListed ==
  ASSUME NEW page, IsList(page.anchors), IsList(page.inputs), NEW v \in StepsOf(page)
  PROVE  IsList(v)
<1> DEFINE submit == SubmitStep(page)
           required == Located(FirstRequiredInput(page.inputs))
           email == Located(FirstEmailInput(page.inputs))
           oversized == Located(FirstOversizableInput(page.inputs))
           none == << >>
<1>1. /\ IsList(FirstRequiredInput(page.inputs)) /\ IsList(FirstEmailInput(page.inputs))
      /\ IsList(FirstClickable(page.anchors))
  BY FirstIsList DEF FirstRequiredInput, FirstEmailInput, FirstClickable
<1>2. IsList(FirstOversizableInput(page.inputs))
  <2> DEFINE a == FirstOf(page.inputs, {i \in Range(page.inputs) : i.type = "textarea"})
             b == FirstOf(page.inputs, {i \in Range(page.inputs) :
                                          i.type \in {"text", "email", "url", "tel"}})
  <2>1. IsList(a) /\ IsList(b)
    BY FirstIsList
  <2>2. FirstOversizableInput(page.inputs) = a \/ FirstOversizableInput(page.inputs) = b
    BY Zenon DEF FirstOversizableInput
  <2> HIDE DEF a, b
  <2> QED
    BY <2>1, <2>2
<1>3. IsList(FirstSubmit(page.anchors))
  <2> DEFINE a == FirstOf(page.anchors, {x \in Range(page.anchors) : x.tag = "submit"})
             b == FirstOf(page.anchors, {x \in Range(page.anchors) : x.tag = "button"})
  <2>1. IsList(a) /\ IsList(b)
    BY FirstIsList
  <2>2. FirstSubmit(page.anchors) = a \/ FirstSubmit(page.anchors) = b
    BY Zenon DEF FirstSubmit
  <2> HIDE DEF a, b
  <2> QED
    BY <2>1, <2>2
<1>4. IsList(submit) /\ IsList(required) /\ IsList(email) /\ IsList(oversized)
  BY <1>1, <1>2, <1>3, LocatedLists DEF SubmitStep
<1> HIDE DEF submit, required, email, oversized
<1>5. IsList(submit \o required) /\ IsList(email \o submit)
  BY <1>4, ListConcat
<1>6. IsList(LocatedAnchors(page.anchors)) /\ IsList(Located(page.inputs))
  BY LocatedLists
<1>7. IsList(FormSteps(page))
  BY <1>4, <1>6, ListConcat DEF FormSteps, submit
<1>8. IsList(NavSteps(page))
  <2> DEFINE to == RankedNavTargets(page.links, 8)
             n == IF to = << >> THEN 0 ELSE 1
             s == [i \in 1..n |-> Locator("href", {to[i].href})]
  <2>1. NavSteps(page) = s
    BY Zenon DEF NavSteps
  <2>2. n \in Nat
    OBVIOUS
  <2> HIDE DEF n
  <2>3. DOMAIN s = 1..n /\ s = [i \in 1..n |-> s[i]]
    OBVIOUS
  <2> HIDE DEF s
  <2> QED
    BY <2>1, <2>2, <2>3, ListMade
<1>9. IsList(ContentSteps(page))
  <2> DEFINE c == FirstClickable(page.anchors)
             s == [i \in DOMAIN c |-> LocatorFor(c[i])]
  <2>1. ContentSteps(page) = none \/ ContentSteps(page) = s
    BY Zenon DEF ContentSteps
  <2>2. DOMAIN c = 1..Len(c) /\ Len(c) \in Nat
    BY <1>1, ListBasics
  <2>3. DOMAIN s = 1..Len(c) /\ s = [i \in 1..Len(c) |-> s[i]]
    BY <2>2
  <2> HIDE DEF s, c
  <2>4. IsList(s)
    BY <2>2, <2>3, ListMade
  <2>5. IsList(none)
    BY Zenon, ShortLists
  <2> HIDE DEF none
  <2> QED
    BY <2>1, <2>4, <2>5
<1>10. IsList(WalkSteps(page))
  <2> DEFINE rest == CASE IntentFor(page) = "form" -> FormSteps(page)
                       [] IntentFor(page) = "nav" -> NavSteps(page)
                       [] IntentFor(page) = "content" -> ContentSteps(page)
  <2>1. IntentFor(page) = "form" \/ IntentFor(page) = "nav" \/ IntentFor(page) = "content"
    BY Zenon DEF IntentFor
  <2>2. rest = FormSteps(page) \/ rest = NavSteps(page) \/ rest = ContentSteps(page)
    <3>1. CASE IntentFor(page) = "form"
      BY <3>1
    <3>2. CASE IntentFor(page) = "nav"
      BY <3>2
    <3>3. CASE IntentFor(page) = "content"
      BY <3>3
    <3> QED
      BY <2>1, <3>1, <3>2, <3>3
  <2>3. WalkSteps(page) = LocatedAnchors(page.anchors) \o rest
    BY Zenon DEF WalkSteps
  <2> HIDE DEF rest
  <2>4. IsList(rest)
    BY <1>7, <1>8, <1>9, <2>2
  <2> QED
    BY <1>6, <2>3, <2>4, ListConcat
<1>11. \/ v = WalkSteps(page) \/ v = submit \o required \/ v = email \o submit
       \/ v = oversized
  BY DEF StepsOf, submit, required, email, oversized
<1> QED
  BY <1>4, <1>5, <1>10, <1>11

LEMMA JoinedListed ==
  ASSUME NEW a, NEW b, NEW c, Joins(c, a, b), AllListed(a), AllListed(b)
  PROVE  AllListed(c)
<1> SUFFICES ASSUME NEW i \in DOMAIN c PROVE IsList(c[i].v)
  BY DEF AllListed
<1>1. i \in 1..Len(a) \/ (i - Len(a) \in 1..Len(b) /\ Len(a) + (i - Len(a)) = i)
  BY DEF Joins
<1>2. CASE i \in 1..Len(a)
  BY <1>2 DEF Joins, AllListed
<1>3. CASE i \notin 1..Len(a)
  <2>1. c[Len(a) + (i - Len(a))] = b[i - Len(a)] /\ i - Len(a) \in DOMAIN b
    BY <1>1, <1>3 DEF Joins
  <2> QED
    BY <1>1, <1>3, <2>1 DEF AllListed
<1> QED
  BY <1>2, <1>3

LEMMA PageListed ==
  ASSUME NEW page, IsList(page.anchors), IsList(page.inputs), NEW sym
  PROVE  AllListed(Render(page, sym).body)
<1> DEFINE tests == TestsOf(page, sym)  doc == <<Comment("doc")>>
           note == <<Block("report", "", NoSymbol, << >>, QualityNotes(page))>>
           short == doc \o tests  long == note \o short
<1>1. IsSeq(tests) /\ \A i \in DOMAIN tests : tests[i].v \in StepsOf(page)
  BY TestsGenerated
<1> HIDE DEF tests
<1>2. AllListed(tests)
  BY <1>1, StepsListed DEF AllListed
<1>3. /\ IsSeq(doc) /\ IsSeq(note) /\ AllListed(doc) /\ AllListed(note)
  <2> DEFINE e == ""  none == << >>  r == Block("report", e, NoSymbol, none, QualityNotes(page))
             d == Block("doc", e, NoSymbol, none, {})
  <2>1. doc = <<d>> /\ note = <<r>>
    BY Zenon DEF Comment
  <2> HIDE DEF e, doc, note
  <2>2. IsList(none)
    BY Zenon, ShortLists
  <2> HIDE DEF none
  <2>3. r.v = none /\ d.v = none
    BY BlockFields
  <2> HIDE DEF r, d
  <2>4. /\ IsSeq(doc) /\ DOMAIN doc = {1} /\ doc[1] = d
        /\ IsSeq(note) /\ DOMAIN note = {1} /\ note[1] = r
    BY <2>1, OneElement
  <2> QED
    BY <2>2, <2>3, <2>4 DEF AllListed
<1> HIDE DEF doc, note
<1>4. Joins(short, doc, tests)
  BY <1>1, <1>3, JoinedSequences
<1> HIDE DEF short
<1>5. IsSeq(short) /\ AllListed(short)
  <2>1. AllListed(short)
    BY <1>2, <1>3, <1>4, JoinedListed
  <2> QED
    BY <1>4, <2>1 DEF Joins
<1>6. AllListed(long)
  <2>1. Joins(long, note, short)
    BY <1>3, <1>5, JoinedSequences
  <2> HIDE DEF long
  <2> QED
    BY <1>3, <1>5, <2>1, JoinedListed
<1> HIDE DEF long
<1>7. Render(page, sym).body \in {short, long}
  BY DEF Render, AnnotateQualityReport, SourceFile, short, long, doc, note, tests
<1> QED
  BY <1>5, <1>6, <1>7

(* The report and the errors of each result are lists and, in a TypeScript *)
(* file, the steps of each test.                                           *)
ReportListed(r) == IsList(r) /\ \A i \in DOMAIN r : IsList(r[i].errors)
ListsInv ==
  /\ ReportListed(report)
  /\ disk # Absent /\ lang = "ts" => AllListed(disk.body)

LEMMA SourceListed ==
  ASSUME FilesInv, lang = "ts"
  PROVE  IsList(source.anchors) /\ IsList(source.inputs)
BY PagesAssumption DEF FilesInv, Sources, Probed

LEMMA ErrorsListed ==
  ASSUME NEW i, IsList(disk.body[i].v), NEW soft, NEW named
  PROVE  IsList(FailureOf(i, soft, named).errors)
<1> DEFINE v == disk.body[i].v  none == << >>
           all == [k \in DOMAIN v |-> k]
           T == {k \in StaleSteps(disk.body[i]) :
                   soft \/ \A n \in StaleSteps(disk.body[i]) : k <= n}
           failed == Only(all, T)
           first == IF soft THEN none ELSE <<none>>
           errors == [n \in DOMAIN failed |-> ErrorOf(i, failed[n], named)]
<1>1. FailureOf(i, soft, named).errors = first \o errors
  BY DEF FailureOf
<1>2. IsList(failed)
  <2>1. Len(v) \in Nat /\ DOMAIN v = 1..Len(v)
    BY ListBasics
  <2>2. DOMAIN all = 1..Len(v) /\ all = [k \in 1..Len(v) |-> all[k]]
    BY <2>1
  <2> HIDE DEF all, T, v
  <2>3. IsList(all)
    BY <2>1, <2>2, ListMade
  <2> QED
    BY <2>3, ListOnly
<1> HIDE DEF failed
<1>3. IsList(errors)
  <2>1. Len(failed) \in Nat /\ DOMAIN failed = 1..Len(failed)
    BY <1>2, ListBasics
  <2>2. DOMAIN errors = 1..Len(failed) /\ errors = [n \in 1..Len(failed) |-> errors[n]]
    BY <2>1
  <2> HIDE DEF errors
  <2> QED
    BY <2>1, <2>2, ListMade
<1> HIDE DEF errors
<1>4. IsList(first)
  <2>1. IsList(none) /\ IsList(<<none>>)
    BY Zenon, ShortLists
  <2> HIDE DEF none
  <2> QED
    BY <2>1
<1> HIDE DEF first
<1>5. IsList(first \o errors)
  BY <1>3, <1>4, ListConcat
<1> QED
  BY <1>1, <1>5

LEMMA Reported ==
  ASSUME FilesInv, ListsInv, RunTests
  PROVE  ReportListed(report')
<1> DEFINE all == [i \in DOMAIN disk.body |-> i]
           T == {i \in DOMAIN disk.body : Fails(i)}
           failing == Only(all, T)
           tries(i, how) == [try \in 1..Tries |-> FailureOf(failing[i], how[1], how[2])]
<1>1. PICK how \in Failing : report' = FlattenSeq([i \in DOMAIN failing |-> tries(i, how)])
  BY DEF RunTests
<1>2. Len(disk.body) \in Nat /\ DOMAIN disk.body = 1..Len(disk.body)
  BY DEF RunTests, FilesInv, IsFile, Blocks, IsSeq
<1>3. DOMAIN all = 1..Len(disk.body) /\ all = [i \in 1..Len(disk.body) |-> all[i]]
  BY <1>2
<1>4. \A i \in T : IsList(disk.body[i].v)
  BY DEF RunTests, ListsInv, AllListed
<1> HIDE DEF all, T
<1>5. IsList(all)
  BY <1>2, <1>3, ListMade
<1>6. IsList(failing) /\ Elements(failing) \subseteq T
  BY <1>5, ListOnly
<1> HIDE DEF failing
<1>7. /\ DOMAIN failing = 1..Len(failing) /\ Len(failing) \in Nat
      /\ \A i \in 1..Len(failing) : failing[i] \in T
  BY <1>6, ListBasics
<1> DEFINE parts == [i \in DOMAIN failing |-> tries(i, how)]
<1>8. /\ DOMAIN parts = 1..Len(failing) /\ parts = [i \in 1..Len(failing) |-> parts[i]]
      /\ \A i \in 1..Len(failing) : parts[i] = tries(i, how)
  <2> HIDE DEF tries
  <2> QED
    BY <1>7
<1>9. ASSUME NEW i \in 1..Len(failing)
      PROVE  IsList(tries(i, how)) /\ \A r \in Elements(tries(i, how)) : IsList(r.errors)
  <2> DEFINE s == tries(i, how)
  <2>1. Tries \in Nat
    BY PagesAssumption
  <2>2. /\ DOMAIN s = 1..Tries /\ s = [k \in 1..Tries |-> s[k]]
        /\ \A k \in DOMAIN s : s[k] = FailureOf(failing[i], how[1], how[2])
    OBVIOUS
  <2>3. IsList(FailureOf(failing[i], how[1], how[2]).errors)
    BY <1>4, <1>7, ErrorsListed
  <2> HIDE DEF s
  <2>4. IsList(s)
    BY <2>1, <2>2, ListMade
  <2>5. \A r \in Elements(s) : IsList(r.errors)
    BY <2>2, <2>3 DEF Elements
  <2> QED
    BY <2>4, <2>5 DEF s
<1>10. report' = FlattenSeq(parts)
  BY <1>1
<1> HIDE DEF parts, tries
<1>11. IsListOfLists(parts) /\ Len(parts) = Len(failing)
  BY <1>7, <1>8, <1>9, ListMade DEF IsListOfLists
<1>12. IsList(FlattenSeq(parts)) /\ Elements(FlattenSeq(parts)) = AllOf(parts, Len(failing))
  BY <1>11, FlattenList
<1>13. \A r \in Elements(FlattenSeq(parts)) : IsList(r.errors)
  BY <1>8, <1>9, <1>12 DEF AllOf
<1> QED
  BY <1>10, <1>12, <1>13 DEF ReportListed, Elements

(* Edits that were made from the lines of the file, written.               *)
LEMMA HealedLines ==
  ASSUME FilesInv, ListsInv, disk # Absent, lang = "ts", NEW edits, NEW From, NEW To,
         AreEdits(edits, Lines(disk), From, To), ApplyEdits(edits)
  PROVE  /\ AllListed(disk'.body)
         /\ disk' # disk =>
              \A p \in Replaced(Lines(disk), Lines(disk')) : p[1] \in From /\ p[2] \in To
<1> DEFINE lines == Lines(disk)  after == Apply(lines, edits)
<1>1. Listed(disk)
  BY DEF FilesInv, ListsInv, AllListed, Listed
<1>2. IsListOfLists(lines)
  BY <1>1, FileLines
<1>3. /\ IsListOfLists(after) /\ Len(after) = Len(lines)
      /\ \A n \in 1..Len(lines) : Rewrites(lines[n], after[n], From, To)
  <2> HIDE DEF lines
  <2> QED
    BY <1>2, EditsWritten DEF lines
<1>4. disk' = disk \/ disk' = WithLines(disk, after)
  BY DEF ApplyEdits
<1> HIDE DEF after
<1>5. /\ Listed(WithLines(disk, after)) /\ Lines(WithLines(disk, after)) = after
  <2>1. \A n \in 1..Len(after) : Len(after[n]) = Len(Lines(disk)[n])
    BY <1>3 DEF Rewrites
  <2> QED
    BY <1>1, <1>3, <2>1, LinesWritten
<1>6. ASSUME disk' # disk, NEW p \in Replaced(Lines(disk), Lines(disk'))
      PROVE  p[1] \in From /\ p[2] \in To
  <2>1. Lines(disk') = after
    BY <1>4, <1>5, <1>6
  <2> HIDE DEF lines
  <2>2. p \in Replaced(lines, after)
    BY <2>1 DEF lines
  <2>3. PICK n \in DOMAIN lines :
          p \in {<<lines[n][k], after[n][k]>> :
                   k \in {k \in DOMAIN lines[n] : lines[n][k] # after[n][k]}}
    BY <2>2 DEF Replaced
  <2>4. PICK k \in DOMAIN lines[n] : lines[n][k] # after[n][k] /\ p = <<lines[n][k], after[n][k]>>
    BY <2>3
  <2>5. n \in 1..Len(lines) /\ k \in 1..Len(lines[n])
    BY <1>2, ListBasics DEF IsListOfLists
  <2>6. lines[n][k] \in From /\ after[n][k] \in To
    BY <1>3, <2>4, <2>5 DEF Rewrites
  <2> QED
    BY <2>4, <2>6
<1> QED
  BY <1>1, <1>4, <1>5, <1>6 DEF Listed, AllListed

(* The anchors healing may use.                                            *)
LEMMA AnchorsListed ==
  ASSUME FilesInv, lang = "ts"
  PROVE  /\ IsList(CurrentAnchors)
         /\ \A s \in {AnchorsBefore, source.anchors, AnchorsAfter} :
              IsList(s) /\ Elements(s) \subseteq Elements(CurrentAnchors)
<1> DEFINE b == AnchorsBefore  s == source.anchors  a == AnchorsAfter
<1>1. IsList(b) /\ IsList(s) /\ IsList(a)
  BY SourceListed, PagesAssumption
<1>2. CurrentAnchors = (b \o s) \o a
  BY DEF CurrentAnchors
<1> HIDE DEF b, s, a
<1>3. IsList(b \o s) /\ Elements(b \o s) = Elements(b) \cup Elements(s)
  BY <1>1, ListConcat
<1>4. IsList((b \o s) \o a) /\ Elements((b \o s) \o a) = Elements(b \o s) \cup Elements(a)
  BY <1>1, <1>3, ListConcat
<1> QED
  BY <1>1, <1>2, <1>3, <1>4 DEF b, s, a

LEMMA FailuresHealed ==
  ASSUME FilesInv, ListsInv, HealOnFailure
  PROVE  /\ AllListed(disk'.body)
         /\ disk' # disk =>
              \A p \in Replaced(Lines(disk), Lines(disk')) :
                /\ \E i \in DOMAIN report : \E e \in Range(report[i].errors) :
                     e # << >> /\ e[1] = p[1]
                /\ p[2] = Body \/ \E a \in Range(CurrentAnchors) : FindsAnchor(a, p[2])
<1> DEFINE From == Mentioned(report)  To == Calls(CurrentAnchors)
<1>1. PICK llm \in BOOLEAN :
        ApplyEdits(HealFromReport(Lines(disk), report, CurrentAnchors, llm))
  BY DEF HealOnFailure
<1>2. disk # Absent /\ lang = "ts"
  BY DEF HealOnFailure
<1>3. /\ IsListOfLists(Lines(disk)) /\ IsList(report) /\ IsList(CurrentAnchors)
      /\ \A i \in DOMAIN report : IsList(report[i].errors)
  BY <1>2, FileLines, AnchorsListed DEF FilesInv, ListsInv, ReportListed, AllListed, Listed
<1> DEFINE edits == HealFromReport(Lines(disk), report, CurrentAnchors, llm)
<1>4. AreEdits(edits, Lines(disk), From, To)
  BY <1>3, FailureEdits
<1>5. ApplyEdits(edits)
  BY <1>1
<1>6. \A l \in From : \E i \in DOMAIN report : \E e \in Range(report[i].errors) :
                        e # << >> /\ e[1] = l
  BY DEF Mentioned
<1>7. \A l \in To : l = Body \/ \E a \in Range(CurrentAnchors) : FindsAnchor(a, l)
  BY CallsFind
<1> HIDE DEF edits, From, To
<1>8. /\ AllListed(disk'.body)
      /\ disk' # disk => \A p \in Replaced(Lines(disk), Lines(disk')) : p[1] \in From /\ p[2] \in To
  BY <1>2, <1>4, <1>5, HealedLines
<1> QED
  BY <1>6, <1>7, <1>8

LEMMA DiffHealed ==
  ASSUME FilesInv, ListsInv, HealDiff
  PROVE  /\ AllListed(disk'.body)
         /\ disk' # disk =>
              \A p \in Replaced(Lines(disk), Lines(disk')) :
                p[2] = Body \/ \E a \in Range(CurrentAnchors) : FindsAnchor(a, p[2])
<1> DEFINE From == AllOf(Lines(disk), Len(Lines(disk)))  To == Calls(CurrentAnchors)
<1>1. PICK old \in Pages \ {source}, all \in BOOLEAN :
        ApplyEdits(HealProactive(Lines(disk), UIFiles(old, all), CurrentAnchors))
  BY DEF HealDiff
<1>2. disk # Absent /\ lang = "ts"
  BY DEF HealDiff
<1>3. IsListOfLists(Lines(disk)) /\ IsList(CurrentAnchors)
  BY <1>2, FileLines, AnchorsListed DEF FilesInv, ListsInv, AllListed, Listed
<1> DEFINE ui == UIFiles(old, all)
           edits == HealProactive(Lines(disk), ui, CurrentAnchors)
<1>4. /\ IsList(ui)
      /\ \A i \in DOMAIN ui : IsList(ui[i].new) /\ Elements(ui[i].new) \subseteq Elements(CurrentAnchors)
  <2> DEFINE x == [old |-> AnchorsBefore, new |-> AnchorsBefore]
             y == [old |-> old.anchors, new |-> source.anchors]
             z == [old |-> AnchorsAfter, new |-> AnchorsAfter]
  <2>1. ui = <<y>> \/ ui = <<x>> \o <<y>> \o <<z>>
    BY DEF UIFiles
  <2>2. \A f \in {x, y, z} : IsList(f.new) /\ Elements(f.new) \subseteq Elements(CurrentAnchors)
    BY <1>2, AnchorsListed
  <2> DEFINE S == {x, y, z}
  <2>3. x \in S /\ y \in S /\ z \in S
    OBVIOUS
  <2> HIDE DEF x, y, z, ui, S
  <2>4. ui \in Seq(S)
    <3> DEFINE a == <<x>>  b == <<y>>  c == <<z>>
    <3>1. a \in Seq(S) /\ b \in Seq(S) /\ c \in Seq(S)
      BY <2>3
    <3>2. ui = b \/ ui = a \o b \o c
      BY <2>1
    <3> HIDE DEF a, b, c
    <3>3. a \o b \in Seq(S)
      BY <3>1
    <3>4. (a \o b) \o c \in Seq(S)
      BY <3>1, <3>3
    <3> QED
      BY <3>1, <3>2, <3>4, Zenon
  <2>5. IsList(ui) /\ Elements(ui) \subseteq S
    BY <2>4, ListOf
  <2>6. \A i \in DOMAIN ui : ui[i] \in S
    BY <2>5 DEF Elements
  <2> QED
    BY <2>2, <2>5, <2>6 DEF S
<1>5. ApplyEdits(edits)
  BY <1>1
<1> HIDE DEF ui
<1>6. AreEdits(edits, Lines(disk), From, To)
  BY <1>3, <1>4, DiffEdits
<1>7. \A l \in To : l = Body \/ \E a \in Range(CurrentAnchors) : FindsAnchor(a, l)
  BY CallsFind
<1> HIDE DEF edits, From, To
<1>8. /\ AllListed(disk'.body)
      /\ disk' # disk => \A p \in Replaced(Lines(disk), Lines(disk')) : p[1] \in From /\ p[2] \in To
  BY <1>2, <1>5, <1>6, HealedLines
<1> QED
  BY <1>7, <1>8

LEMMA UserTestsListed ==
  ASSUME FilesInv, ListsInv, UserStarts \/ UserAdds, disk' # Absent
  PROVE  AllListed(disk'.body)
<1> DEFINE e == ""  mine == <<UserTest>>
           a == Locator("label", {"save"})  b == Locator("testid", {"mail"})  step == <<a, b>>
<1>1. IsSeq(mine) /\ AllListed(mine)
  <2>1. UserTest = Block("user", "mine", NoSymbol, step, {})
    BY DEF UserTest
  <2>2. IsList(step)
    <3> HIDE DEF a, b
    <3>1. step \in Seq({a, b})
      OBVIOUS
    <3> QED
      BY <3>1, ListOf
  <2> HIDE DEF e, step
  <2>3. UserTest.v = step
    BY <2>1, BlockFields
  <2>4. IsSeq(mine) /\ DOMAIN mine = {1} /\ mine[1] = UserTest
    BY OneElement
  <2> QED
    BY <2>2, <2>3, <2>4 DEF AllListed
<1>2. CASE UserStarts
  <2> DEFINE none == << >>  top == <<Comment("userdoc")>>
  <2>1. \/ disk' = SourceFile(e, <<"test">>, none \o mine)
        \/ disk' = SourceFile(e, <<"test">>, top \o mine)
    BY <1>2, Zenon DEF UserStarts
  <2>2. IsSeq(top) /\ AllListed(top)
    <3>1. Comment("userdoc") = Block("userdoc", e, NoSymbol, none, {})
      BY DEF Comment
    <3> HIDE DEF e
    <3>2. IsList(none)
      BY Zenon, ShortLists
    <3> HIDE DEF none
    <3>3. Comment("userdoc").v = none
      BY <3>1, BlockFields
    <3>4. IsSeq(top) /\ DOMAIN top = {1} /\ top[1] = Comment("userdoc")
      BY OneElement
    <3> QED
      BY <3>2, <3>3, <3>4 DEF AllListed
  <2>3. none \o mine = mine
    BY <1>1 DEF IsSeq
  <2> HIDE DEF e, none, top, mine
  <2>4. AllListed(top \o mine)
    <3>1. Joins(top \o mine, top, mine)
      BY <1>1, <2>2, JoinedSequences
    <3> QED
      BY <1>1, <2>2, <3>1, JoinedListed
  <2>5. disk'.body = mine \/ disk'.body = top \o mine
    BY <2>1, <2>3 DEF SourceFile
  <2> QED
    BY <1>1, <2>4, <2>5
<1>3. CASE UserAdds
  <2>1. disk # Absent /\ lang = "ts" /\ disk' = [disk EXCEPT !.body = Append(disk.body, UserTest)]
    BY <1>3 DEF UserAdds
  <2>2. IsFile(disk) /\ AllListed(disk.body)
    BY <2>1 DEF FilesInv, ListsInv
  <2>3. disk'.body = Append(disk.body, UserTest)
    BY <2>1, <2>2 DEF IsFile, SourceFile
  <2>4. IsSeq(disk.body)
    BY <2>2 DEF IsFile, Blocks
  <2>5. Append(disk.body, UserTest) = disk.body \o mine
    BY <2>4 DEF IsSeq
  <2> HIDE DEF mine
  <2>6. Joins(disk.body \o mine, disk.body, mine)
    BY <1>1, <2>4, JoinedSequences
  <2> QED
    BY <1>1, <2>2, <2>3, <2>5, <2>6, JoinedListed
<1> QED
  BY <1>2, <1>3

LEMMA WrittenListed ==
  ASSUME FilesInv, ListsInv, Write, lang = "ts", disk' # Absent
  PROVE  AllListed(disk'.body)
<1> DEFINE new == Generated
           m == IF disk = Absent THEN Merged(new) ELSE AppendTo(lang, disk, new)
           c == StripQuailHeader(new.body)
<1>1. disk' = IF m.ok THEN m.file ELSE disk
  BY DEF Write
<1>2. \A f : Merged(f).ok = TRUE /\ Merged(f).file = f
  BY DEF Merged
<1>3. IsFile(new) /\ PageTests(new.body) /\ AllListed(new.body)
  <2>1. new = Render(source, source.sym)
    BY DEF Generated
  <2>2. IsFile(new) /\ PageTests(new.body)
    BY NewFile DEF FilesInv
  <2> HIDE DEF new
  <2> QED
    BY <2>1, <2>2, SourceListed, PageListed
<1> HIDE DEF new
<1>4. CASE disk = Absent
  BY <1>1, <1>2, <1>3, <1>4
<1>5. CASE disk # Absent
  <2>1. IsFile(disk) /\ AllListed(disk.body)
    BY <1>5 DEF FilesInv, ListsInv
  <2>2. IsSeq(c) /\ AllListed(c)
    <3>1. Blocks(new.body) /\ new.body[1].is # "userdoc"
      BY <1>3, ChunkOfPage DEF IsFile
    <3> DEFINE h == Header(new.body)  body == new.body
    <3>2. /\ c = SubSeq(body, h + 1, Len(body)) /\ h \in 0..1 /\ h <= Len(body)
          /\ IsSeq(body)
      BY <3>1, HeaderStripped DEF Blocks
    <3> HIDE DEF h, c, body
    <3>3. /\ IsSeq(c) /\ Len(body) \in Nat /\ DOMAIN c = 1..(Len(body) - h)
          /\ \A i \in 1..(Len(body) - h) : c[i] = body[h + i]
      BY <3>2, RestOfSequence
    <3>4. DOMAIN body = 1..Len(body)
      BY <3>2 DEF IsSeq
    <3>5. \A i \in 1..(Len(body) - h) : h + i \in DOMAIN body
      BY <3>2, <3>3, <3>4
    <3>6. AllListed(body)
      BY <1>3 DEF body
    <3> QED
      BY <3>3, <3>5, <3>6 DEF AllListed
  <2> HIDE DEF c
  <2>3. AllListed(disk.body \o c)
    <3>1. Joins(disk.body \o c, disk.body, c)
      BY <2>1, <2>2, JoinedSequences DEF IsFile, Blocks
    <3> QED
      BY <2>1, <2>2, <3>1, JoinedListed
  <2>4. m = AppendTS(disk, new)
    BY <1>5 DEF AppendTo
  <2> HIDE DEF m
  <2> DEFINE imports == AddImports(disk.imports, new.imports)
  <2>5. \E body \in {disk.body, disk.body \o c} :
          m = Merged([disk EXCEPT !.imports = imports, !.body = body])
    BY <2>4, Zenon DEF AppendTS, c
  <2> HIDE DEF imports
  <2>6. PICK body \in {disk.body, disk.body \o c} :
          m = Merged([disk EXCEPT !.imports = imports, !.body = body])
    BY <2>5
  <2>7. m = Merged(SourceFile(disk.pkg, imports, body))
    BY <2>1, <2>6, ReplacedParts
  <2>8. disk' = SourceFile(disk.pkg, imports, body)
    BY <1>1, <1>2, <2>7
  <2>9. disk'.body = body
    BY <2>8 DEF SourceFile
  <2> QED
    BY <2>1, <2>3, <2>6, <2>9
<1> QED
  BY <1>4, <1>5

LEMMA ListsStep == FilesInv /\ ListsInv /\ [Next]_vars => ListsInv'
<1> SUFFICES ASSUME FilesInv, ListsInv, [Next]_vars PROVE ListsInv'
  OBVIOUS
<1>1. CASE UserStarts \/ UserAdds
  <2>1. lang' = lang /\ report' = report
    BY <1>1 DEF UserStarts, UserAdds
  <2>2. disk' # Absent => AllListed(disk'.body)
    BY <1>1, UserTestsListed
  <2> QED
    BY <2>1, <2>2 DEF ListsInv
<1>2. CASE UserDeletes
  BY <1>2 DEF UserDeletes, ListsInv
<1>3. CASE Write
  <2>1. lang' = lang /\ report' = report
    BY <1>3 DEF Write
  <2>2. lang = "ts" /\ disk' # Absent => AllListed(disk'.body)
    BY <1>3, WrittenListed
  <2> QED
    BY <2>1, <2>2 DEF ListsInv
<1>4. CASE RunTests
  <2>1. ReportListed(report') /\ UNCHANGED <<lang, disk>>
    BY <1>4, Reported DEF RunTests, files
  <2> QED
    BY <2>1 DEF ListsInv
<1>5. CASE HealOnFailure \/ HealDiff
  <2>1. report' = report
    BY <1>5 DEF HealOnFailure, HealDiff, ApplyEdits
  <2>2. AllListed(disk'.body)
    BY <1>5, FailuresHealed, DiffHealed
  <2> QED
    BY <2>1, <2>2 DEF ListsInv
<1>6. CASE ChangeSource \/ Start \/ WriteState \/ End \/ Crash \/ Tick \/ UNCHANGED vars
  <2>1. UNCHANGED <<lang, disk, report>>
    BY <1>6 DEF ChangeSource, Start, WriteState, End, Crash, Tick, files, vars
  <2> QED
    BY <2>1 DEF ListsInv
<1> QED
  BY <1>1, <1>2, <1>3, <1>4, <1>5, <1>6 DEF Next

(* heal.go:50-178, 344-359, for any pages, reports, merges and edits by    *)
(* hand between a report and the healing it leads to: a locator is         *)
(* replaced on failure only if an error of the report mentions it first,   *)
(* and what stands in its place is the body or finds an element of some    *)
(* UI file as it is.                                                       *)
THEOREM OnlyReportedAreHealed == Spec => HealsOnlyReported
<1>1. Init => ListsInv
  <2> SUFFICES ASSUME Init PROVE ListsInv
    OBVIOUS
  <2> DEFINE none == << >>
  <2>1. report = none /\ disk = Absent
    BY DEF Init
  <2>2. IsList(none)
    BY Zenon, ShortLists
  <2>3. DOMAIN none = {}
    OBVIOUS
  <2> HIDE DEF none
  <2> QED
    BY <2>1, <2>2, <2>3 DEF ListsInv, ReportListed
<1>2. Spec => []ListsInv
  BY <1>1, FilesAlways, ListsStep, PTL DEF Spec
<1>3. FilesInv /\ ListsInv =>
        [disk' # disk /\ (HealOnFailure \/ HealDiff) =>
           \A p \in Replaced(Lines(disk), Lines(disk')) :
             /\ HealOnFailure => \E i \in DOMAIN report : \E e \in Range(report[i].errors) :
                                   e # << >> /\ e[1] = p[1]
             /\ p[2] = Body \/ \E a \in Range(CurrentAnchors) : FindsAnchor(a, p[2])]_vars
  BY FailuresHealed, DiffHealed
<1> QED
  BY <1>2, <1>3, FilesAlways, PTL DEF HealsOnlyReported
=============================================================================
