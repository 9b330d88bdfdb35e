----------------------------- MODULE Humanizer -----------------------------
(***************************************************************************)
(* Package llm: rendered files are put into the words of a language model, *)
(* and gen.GroupBDDPair, which says what has to be put together.           *)
(*                                                                         *)
(* A file is [path, lines].  A rewrite replaces every occurrence of a part *)
(* of the file.  That is a word, wherever it stands; a step pattern as a   *)
(* whole, with its quotes ("lit") or slashes ("re"); or a line, by any     *)
(* lines: its keyword or its quotes may be lost, it may be cut or dropped. *)
(***************************************************************************)
EXTENDS Composer

File(path, lines) == [path |-> path, lines |-> lines]
Phrase(kind, words, args) == [kind |-> kind, words |-> words, args |-> args]

RewriteWord(word, by) == [of |-> "word", word |-> word, by |-> by]
RewritePattern(from, to) == [of |-> "pattern", from |-> from, to |-> to]
RewriteWhole(line, lines) == [of |-> "line", line |-> line, lines |-> lines]

(* A word in a sequence of words, and in a text.                           *)
Reworded(words, r) ==
  FlattenSeq([i \in DOMAIN words |-> IF words[i] = r.word THEN r.by ELSE <<words[i]>>])
RewordedText(text, r) ==
  IF r.word \in text THEN (text \ {r.word}) \cup Range(r.by) ELSE text

(* The lines there are in place of one.                                    *)
RewriteLine(l, r) ==
  CASE r.of = "line" -> IF l = r.line THEN r.lines ELSE <<l>>
    [] r.of = "pattern" ->
         IF l.is = "def" /\ Phrase(l.kind, l.words, l.args) = r.from
         THEN <<Line(l.is, r.to.kind, r.to.words, r.to.args, l.handler)>> ELSE <<l>>
    [] OTHER ->
         <<Line(l.is, l.kind, Reworded(l.words, r),
                IF l.is = "step" THEN [i \in DOMAIN l.args |-> RewordedText(l.args[i], r)]
                ELSE l.args,
                Reworded(l.handler, r))>>

ApplyRewrites(lines, rewrites) ==
  LET upTo[k \in 0..Len(rewrites)] ==
        IF k = 0 THEN lines
        ELSE FlattenSeq([i \in DOMAIN upTo[k - 1] |->
                           RewriteLine(upTo[k - 1][i], rewrites[k])])
  IN  upTo[Len(rewrites)]

(* Keywords are counted; TypeScript has to parse besides (esbuild).        *)
Keywords == {"import", "describe(", "test("}
KeywordSignature(lines) ==
  [k \in Keywords |-> Cardinality({i \in DOMAIN lines : k \in Range(lines[i].words)})]
JsParses(lines) ==
  \A l \in Range(lines) : l.is \in {"import", "def"} /\ "'" \notin Range(l.words)

StructurePreserved(lang, before, after) ==
  /\ after # << >>
  /\ KeywordSignature(before) = KeywordSignature(after)
  /\ lang = "ts" => JsParses(after)

(* One file alone; an answer is rewrites, none where it is not parseable   *)
(* or the request fails.                                                   *)
Humanize(lang, lines, rewrites) ==
  LET after == ApplyRewrites(lines, rewrites) IN
  IF /\ StructurePreserved(lang, lines, after)
     /\ LooksLikeFeatureFile(after) => IsGherkinSafe(after)
  THEN after ELSE lines

-----------------------------------------------------------------------------
(* The pair.                                                               *)

IsFeature(f) == f.path[1] = "features"
IsSteps(f) == f.path[1] = "steps"

(* The last step-definition file is the one of the pair; one before it is  *)
(* in no part.                                                             *)
GroupBDDPair(files) ==
  LET features == {i \in DOMAIN files : IsFeature(files[i])}
      steps    == {i \in DOMAIN files : IsSteps(files[i])} IN
  IF features = {} \/ steps = {}
  THEN [pair |-> FALSE, leftover |-> DOMAIN files]
  ELSE [pair |-> TRUE, features |-> features,
        steps |-> CHOOSE i \in steps : \A k \in steps : k <= i,
        leftover |-> DOMAIN files \ (features \cup steps)]

\* Mutant: only the first feature is looked at.
ValidateFirst(old, new, features, rewrites) ==
  /\ StructurePreserved("ts", old, new) /\ HandlerHashes(old) = HandlerHashes(new)
  /\ IsGherkinSafeAgainst(features[1], ExtractStepPatterns(new))

(* The four guards.                                                        *)
ValidateSuite(old, new, features, rewrites) ==
  /\ StructurePreserved("ts", old, new)
  /\ HandlerHashes(old) = HandlerHashes(new)
  /\ \A r \in Range(rewrites) : r.of = "pattern" => PatternParamsEqual(r.from, r.to)
  /\ \A f \in Range(features) : IsGherkinSafeAgainst(f, ExtractStepPatterns(new))

(* All files of the pair or none; features[i] are the lines of file i.     *)
HumanizeSuite(features, steps, answer) ==
  LET newSteps    == ApplyRewrites(steps, answer.patterns)
      newFeatures == [i \in DOMAIN features |-> ApplyRewrites(features[i], answer.features)] IN
  IF ExtractStepPatterns(steps) # << >>
       /\ ValidateSuite(steps, newSteps, newFeatures, answer.patterns)
  THEN [features |-> newFeatures, steps |-> newSteps]
  ELSE [features |-> features, steps |-> steps]
=============================================================================
