-------------------------------- MODULE Diff --------------------------------
(***************************************************************************)
(* diff.Parse: the lines a unified diff adds to each file.                 *)
(*                                                                         *)
(* A line of a diff is a record whose "is" names its prefix.  What git     *)
(* writes is richer than what the prefixes tell apart: an added line whose *)
(* text begins with two pluses reads as a file header, and so does a       *)
(* deleted comment of SQL or Lua; Unified writes a diff the way git does.  *)
(***************************************************************************)
EXTENDS Integers, Sequences, FiniteSets, SequencesExt

(* The prefixes Parse knows.  "nonl" is git's line on a missing newline,   *)
(* "odd" begins with three pluses or minuses and no space.                 *)
GitLine       == [is |-> "git"]
OldLine(path) == [is |-> "---", path |-> path]
NewLine(path) == [is |-> "+++", path |-> path]
Hunk(start)   == [is |-> "@@", start |-> start]
Body(prefix)  == [is |-> prefix]

(* Paths are sequences.  Of a path that is none, only that matters.        *)
NoPath  == << >>
Nowhere == <<"/dev/null">>
Junk    == <<"text that stands where a path would">>

NoFile == [none |-> TRUE]
FreshFile == [path |-> NoPath, oldPath |-> NoPath, added |-> << >>, status |-> "modified"]

(* An added line extends the last range when it is the next one.           *)
MergeRange(ranges, line) ==
  IF ranges # << >> /\ line = Last(ranges).end + 1
  THEN Append(Front(ranges), [Last(ranges) EXCEPT !.end = line])
  ELSE Append(ranges, [start |-> line, end |-> line])

ParseHunkNewStart(n) == IF n < 1 THEN 1 ELSE n

Flush(st) == IF st.cur = NoFile THEN st.files ELSE Append(st.files, st.cur)

Renamed(f) ==
  IF f.oldPath # NoPath /\ f.path # NoPath /\ f.oldPath # f.path /\ f.status = "modified"
  THEN [f EXCEPT !.status = "renamed"] ELSE f

OldHeader(f, path) ==
  IF path = Nowhere THEN [f EXCEPT !.status = "added"] ELSE [f EXCEPT !.oldPath = path]

NewHeader(f, path) ==
  Renamed(IF path = Nowhere THEN [f EXCEPT !.status = "removed"] ELSE [f EXCEPT !.path = path])

(* One line.  Headers are looked for inside a hunk too, before the body.   *)
Scan(st, line) ==
  IF line.is = "git"
  THEN [st EXCEPT !.files = Flush(st), !.cur = FreshFile, !.inHunk = FALSE]
  ELSE IF st.cur = NoFile THEN st
  ELSE
  CASE line.is = "---" -> [st EXCEPT !.cur = OldHeader(st.cur, line.path)]
    [] line.is = "+++" -> [st EXCEPT !.cur = NewHeader(st.cur, line.path)]
    [] line.is = "@@" -> [st EXCEPT !.inHunk = TRUE, !.newLine = ParseHunkNewStart(line.start)]
    [] st.inHunk /\ line.is = "+" ->
         [st EXCEPT !.cur.added = MergeRange(st.cur.added, st.newLine),
                    !.newLine = st.newLine + 1]
    [] st.inHunk /\ line.is \in {"space", "nonl", "odd"} -> [st EXCEPT !.newLine = st.newLine + 1]
    [] OTHER -> st

(* All lines in turn, from a state of the loop on.                         *)
ScanAll(st, lines) ==
  LET after[i \in 0..Len(lines)] ==
        IF i = 0 THEN st ELSE Scan(after[i - 1], lines[i])
  IN  after[Len(lines)]

Start == [cur |-> NoFile, files |-> << >>, newLine |-> 0, inHunk |-> FALSE]

Parse(lines) == Flush(ScanAll(Start, lines))

\* Mutant: a range counts only if it lies inside.
Inside(ranges, start, end) ==
  \E r \in Range(ranges) : start <= r.start /\ r.end <= end

Intersects(ranges, start, end) ==
  \E r \in Range(ranges) : start <= r.end /\ r.start <= end

-----------------------------------------------------------------------------
(* What git writes.  A change is a file before and after and its hunks; a  *)
(* line of a hunk is kept, added or deleted, and may look like a header or *)
(* be followed by the remark that the file ends there without a newline.   *)

BodyLines(l) ==
  CASE l = "keep"    -> <<Body("space")>>
    [] l = "add"     -> <<Body("+")>>
    [] l = "del"     -> <<Body("-")>>
    [] l = "add++"   -> <<NewLine(Junk)>>
    [] l = "del--"   -> <<OldLine(Junk)>>
    [] l \in {"add++x", "del--x"} -> <<Body("odd")>>
    [] l = "delLast" -> <<Body("-"), Body("nonl")>>
    [] l = "addLast" -> <<Body("+"), Body("nonl")>>

HunkLines(h) == <<Hunk(h.start)>> \o FlattenSeq([i \in DOMAIN h.body |-> BodyLines(h.body[i])])

(* A file that is only renamed has neither hunks nor headers.               *)
FileLines(change) ==
  IF change.hunks = << >> THEN <<GitLine>>
  ELSE <<GitLine, OldLine(change.old), NewLine(change.new)>>
         \o FlattenSeq([k \in DOMAIN change.hunks |-> HunkLines(change.hunks[k])])

Unified(changes) == FlattenSeq([i \in DOMAIN changes |-> FileLines(changes[i])])

LineKinds == {"keep", "add", "del", "add++", "del--", "add++x", "del--x",
              "delLast", "addLast"}

(* The lines of the new file a change really adds.                         *)
IsAdded(l) == l \in {"add", "add++", "add++x", "addLast"}
IsNew(l) == l = "keep" \/ IsAdded(l)
AddedBy(h) ==
  {h.start + Cardinality({k \in 1..(i - 1) : IsNew(h.body[k])}) :
     i \in {k \in DOMAIN h.body : IsAdded(h.body[k])}}
TrulyAdded(change) == UNION {AddedBy(change.hunks[k]) : k \in DOMAIN change.hunks}

(* A hunk Parse counts rightly: no added line of it begins with pluses,    *)
(* and what counts as a line although it is none of the new file, the      *)
(* remark on the newline or a deleted "--x", is the last of it.            *)
PlainHunk(h) ==
  \A i \in DOMAIN h.body :
    /\ h.body[i] \notin {"add++", "add++x"}
    /\ h.body[i] \in {"delLast", "addLast", "del--x"} => i = Len(h.body)
Plain(change) == \A k \in DOMAIN change.hunks : PlainHunk(change.hunks[k])
=============================================================================
