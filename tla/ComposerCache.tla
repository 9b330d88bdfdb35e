--------------------------- MODULE ComposerCache ----------------------------
(***************************************************************************)
(* composer.ProposeWithLadderAndCache and ClassifyWithLadderAndCache: ask  *)
(* the models of a ladder in turn for an answer about a journey or a page, *)
(* behind a directory of cached answers that several processes share       *)
(* without a lock.                                                         *)
(*                                                                         *)
(* The file system is modelled as far as the races need it: an entry is    *)
(* written to <key>.json.tmp, the same path for every writer of the key,   *)
(* and renamed to <key>.json.  A path names an inode; a writer keeps its   *)
(* inode when the path is renamed under it.  An answer is a small JSON     *)
(* text, so one write call stores it, over the first bytes of the file.    *)
(***************************************************************************)
EXTENDS Naturals, Sequences, FiniteSets

CONSTANTS
  Caller,    \* calls, in one process or in several
  Key,       \* cache keys: primary model and journey, or page fingerprint
  KeyOf,     \* KeyOf[c]: the key of call c
  Rungs,     \* Rungs[c]: length of its ladder; rung 1 is the primary model
  MaxRungs,  \* length of the longest ladder
  Chats,     \* Chats[c]: times a rung is asked: 2 to propose, 1 to classify
  Answer,    \* non-empty validated answers
  Size,      \* Size[v]: bytes of value v as JSON
  None,      \* no inode, no value
  MaxFaults  \* bound: processes killed and failed writes

Value == [answer : Answer, rung : 1..MaxRungs]

ASSUME LadderAssumption ==
  /\ MaxRungs \in Nat \ {0}
  /\ Rungs \in [Caller -> 1..MaxRungs]
  /\ KeyOf \in [Caller -> Key]
  /\ Chats \in [Caller -> 1..2]
  /\ Size \in [Value -> Nat \ {0}]
  /\ None \notin Caller /\ None \notin Value
  /\ MaxFaults \in Nat

VARIABLES
  pc,       \* what each call does next
  rung,     \* the rung it asks
  chat,     \* how often it has asked that rung
  value,    \* the answer it returns, tagged with the rung that gave it
  avoid,    \* answers its feedback tells the models not to repeat
  tmp,      \* inode at <key>.json.tmp
  final,    \* inode at <key>.json
  fd,       \* inode each call writes to; calls create the inodes they name
  body,     \* last value written to an inode
  len,      \* and its length
  failed,   \* answers the findings ledger lists as failed
  faults,
  (* history *)
  won,      \* answers the models gave for each key
  verdicts, \* what each rung told each call
  alone,    \* calls no other call has disturbed
  cached    \* the undisturbed call that last returned an answer it won

walk  == <<rung, chat, value, avoid>>
files == <<tmp, final, fd, body, len>>
env   == <<failed, faults>>
ghost == <<won, verdicts, alone, cached>>
vars  == <<pc, walk, files, env, ghost>>

Inode == Caller \cup {None}
Returned == {"hit", "answered", "empty"}
Busy(c) == pc[c] \notin Returned \cup {"idle", "crashed"}

(* The others classify: no feedback, and no scenario to fail.              *)
Proposes(c) == Chats[c] = 2

(* What Get returns: the body of a file that is one whole JSON text.       *)
Readable(i) == i # None /\ body[i] # None /\ len[i] = Size[body[i]]
Read(k) == IF Readable(final[k]) THEN body[final[k]] ELSE None

Goto(c, step) == pc' = [pc EXCEPT ![c] = step]

Init ==
  /\ pc = [c \in Caller |-> "idle"]
  /\ rung = [c \in Caller |-> 1] /\ chat = [c \in Caller |-> 0]
  /\ value = [c \in Caller |-> None] /\ avoid = [c \in Caller |-> {}]
  /\ tmp = [k \in Key |-> None] /\ final = [k \in Key |-> None]
  /\ fd = [c \in Caller |-> None]
  /\ body = [c \in Caller |-> None] /\ len = [c \in Caller |-> 0]
  /\ failed = {} /\ faults = 0
  /\ won = [k \in Key |-> {}]
  /\ verdicts = [c \in Caller |-> << >>]
  /\ alone = {} /\ cached = None

(* LoadFeedback, then the call; it disturbs the calls under way.           *)
Start(c) ==
  /\ pc[c] = "idle"
  /\ Goto(c, "get")
  /\ avoid' = [avoid EXCEPT ![c] = IF Proposes(c) THEN failed ELSE {}]
  /\ alone' = IF \E o \in Caller : Busy(o) THEN {} ELSE {c}
  /\ cached' = None
  /\ UNCHANGED <<rung, chat, value, files, env, won, verdicts>>

Get(c) ==
  /\ pc[c] = "get"
  /\ LET v == Read(KeyOf[c]) IN
       /\ Goto(c, IF v # None THEN "hit" ELSE "chat")
       /\ value' = [value EXCEPT ![c] = v]
  /\ UNCHANGED <<rung, chat, avoid, files, env, ghost>>

Note(c, verdict) ==
  verdicts' = [verdicts EXCEPT ![c] = Append(@, [rung |-> rung[c], said |-> verdict])]

NextRung(c) ==
  IF rung[c] < Rungs[c]
    THEN /\ rung' = [rung EXCEPT ![c] = @ + 1]
         /\ UNCHANGED pc
    ELSE /\ Goto(c, "empty")
         /\ UNCHANGED rung

\* Mutant: a rung that fails once is given up.
ChatFailsOnce(c) ==
  /\ pc[c] = "chat"
  /\ chat' = [chat EXCEPT ![c] = 0]
  /\ NextRung(c)
  /\ Note(c, "error")
  /\ UNCHANGED <<value, avoid, files, env, won, alone, cached>>

(* A transport error or an unparseable reply: ask again, stricter, once.   *)
ChatFails(c) ==
  /\ pc[c] = "chat"
  /\ IF chat[c] + 1 < Chats[c]
       THEN /\ chat' = [chat EXCEPT ![c] = @ + 1]
            /\ UNCHANGED <<pc, rung>>
       ELSE /\ chat' = [chat EXCEPT ![c] = 0]
            /\ NextRung(c)
  /\ Note(c, "error")
  /\ UNCHANGED <<value, avoid, files, env, won, alone, cached>>

(* A reply of which validation leaves nothing is not asked for again.      *)
ChatEmpty(c) ==
  /\ pc[c] = "chat"
  /\ chat' = [chat EXCEPT ![c] = 0]
  /\ NextRung(c)
  /\ Note(c, "nothing")
  /\ UNCHANGED <<value, avoid, files, env, won, alone, cached>>

Tag(c, a) == [answer |-> a, rung |-> rung[c]]

(* The models heed the feedback of the prompt.                             *)
ChatAnswers(c) ==
  /\ pc[c] = "chat"
  /\ \E a \in Answer \ avoid[c] :
       /\ value' = [value EXCEPT ![c] = Tag(c, a)]
       /\ won' = [won EXCEPT ![KeyOf[c]] = @ \cup {Tag(c, a)}]
  /\ Goto(c, "open")
  /\ Note(c, "answer")
  /\ UNCHANGED <<rung, chat, avoid, files, env, alone, cached>>

-----------------------------------------------------------------------------
(* Put: os.WriteFile of the temporary file (open, write, close), rename.   *)

\* Mutant: one temporary path for the whole directory.
SlotShared(c) == CHOOSE k \in Key : TRUE

Slot(c) == KeyOf[c]

\* Mutant: an existing temporary file is not truncated.
OpenTmpNoTrunc(c) ==
  /\ pc[c] = "open"
  /\ LET i == IF tmp[Slot(c)] = None THEN c ELSE tmp[Slot(c)] IN
       /\ tmp' = [tmp EXCEPT ![Slot(c)] = i]
       /\ fd' = [fd EXCEPT ![c] = i]
  /\ Goto(c, "write")
  /\ UNCHANGED <<walk, final, body, len, env, ghost>>

OpenTmp(c) ==
  /\ pc[c] = "open"
  /\ LET i == IF tmp[Slot(c)] = None THEN c ELSE tmp[Slot(c)] IN
       /\ tmp' = [tmp EXCEPT ![Slot(c)] = i]
       /\ fd' = [fd EXCEPT ![c] = i]
       /\ body' = [body EXCEPT ![i] = None]
       /\ len' = [len EXCEPT ![i] = 0]
  /\ Goto(c, "write")
  /\ UNCHANGED <<walk, final, env, ghost>>

(* A longer text written through another descriptor leaves its tail.       *)
Write(c) ==
  /\ pc[c] = "write"
  /\ LET n == Size[value[c]] IN
       /\ body' = [body EXCEPT ![fd[c]] = value[c]]
       /\ len' = [len EXCEPT ![fd[c]] = IF @ > n THEN @ ELSE n]
  /\ Goto(c, "rename")
  /\ UNCHANGED <<walk, tmp, final, fd, env, ghost>>

Return(c) ==
  /\ Goto(c, "answered")
  /\ cached' = IF c \in alone THEN c ELSE cached
  /\ UNCHANGED <<won, verdicts, alone>>

(* Creating, opening or writing the file fails, perhaps half-way; the      *)
(* caller ignores it and returns its answer.                               *)
PutFails(c) ==
  /\ pc[c] \in {"open", "write"}
  /\ faults < MaxFaults
  /\ faults' = faults + 1
  /\ \/ UNCHANGED body
     \/ pc[c] = "write" /\ body' = [body EXCEPT ![fd[c]] = None]
  /\ Goto(c, "answered")
  /\ UNCHANGED <<walk, tmp, final, fd, len, failed, ghost>>

\* Mutant: the rename is retried until it succeeds.
RenameWaits(c) ==
  /\ pc[c] = "rename"
  /\ tmp[Slot(c)] # None
  /\ final' = [final EXCEPT ![KeyOf[c]] = tmp[Slot(c)]]
  /\ tmp' = [tmp EXCEPT ![Slot(c)] = None]
  /\ Return(c)
  /\ UNCHANGED <<walk, fd, body, len, env>>

(* The rename fails when another writer has renamed the file already; the  *)
(* caller ignores every error of Put.                                      *)
Rename(c) ==
  /\ pc[c] = "rename"
  /\ IF tmp[Slot(c)] # None
       THEN /\ final' = [final EXCEPT ![KeyOf[c]] = tmp[Slot(c)]]
            /\ tmp' = [tmp EXCEPT ![Slot(c)] = None]
       ELSE UNCHANGED <<final, tmp>>
  /\ Return(c)
  /\ UNCHANGED <<walk, fd, body, len, env>>

-----------------------------------------------------------------------------
(* External.  A process is killed; a scenario of a returned answer fails   *)
(* and the findings ledger records it.                                     *)

Crash(c) ==
  /\ Busy(c)
  /\ faults < MaxFaults
  /\ faults' = faults + 1
  /\ Goto(c, "crashed")
  /\ UNCHANGED <<walk, files, failed, ghost>>

RecordFailure(c) ==
  /\ Proposes(c) /\ pc[c] \in {"hit", "answered"}
  /\ failed' = failed \cup {value[c].answer}
  /\ UNCHANGED <<pc, walk, files, faults, ghost>>

Advance(c) ==
  \/ Get(c) \/ ChatFails(c) \/ ChatEmpty(c) \/ ChatAnswers(c)
  \/ OpenTmp(c) \/ Write(c) \/ Rename(c)

Next == \E c \in Caller : Start(c) \/ Advance(c) \/ PutFails(c) \/ Crash(c) \/ RecordFailure(c)

Spec == Init /\ [][Next]_vars

(* The HTTP client bounds every chat by LLMTimeout, and no step blocks.    *)
FairSpec == Spec /\ \A c \in Caller : WF_vars(Advance(c))

-----------------------------------------------------------------------------
(* ladder.go:39-41 "the first rung's scenarios that parse cleanly": the    *)
(* tag of an answer names the rung that gave it, and each rung before it,  *)
(* or each rung of a walk that found nothing, replied with nothing or      *)
(* failed on every chat it is allowed.                                     *)
Errors(c, r) ==
  {i \in DOMAIN verdicts[c] : verdicts[c][i] = [rung |-> r, said |-> "error"]}

RungGaveUp(c, r) ==
  \/ \E i \in DOMAIN verdicts[c] : verdicts[c][i] = [rung |-> r, said |-> "nothing"]
  \/ Cardinality(Errors(c, r)) = Chats[c]

FirstRungWins ==
  \A c \in Caller :
    /\ pc[c] \in {"open", "write", "rename", "answered"} =>
         /\ verdicts[c][Len(verdicts[c])] = [rung |-> value[c].rung, said |-> "answer"]
         /\ \A r \in 1..value[c].rung - 1 : RungGaveUp(c, r)
    /\ pc[c] = "empty" => \A r \in 1..Rungs[c] : RungGaveUp(c, r)

(* cache.go:65-67 "a corrupt cache never breaks generation": whatever a    *)
(* killed writer left in the directory, a call that wins an answer while   *)
(* no other runs leaves the entry readable, with that answer.              *)
WinsAreCached == cached # None => Read(KeyOf[cached]) = value[cached]

(* However writers interleave on the one temporary path and whenever they  *)
(* are killed, the directory is a lossy memo: a hit is a whole answer some *)
(* call won for the same key.                                              *)
Store == [k \in Key |-> Read(k)]
Given == [c \in Caller |-> IF pc[c] \in {"hit", "answered"} THEN value[c] ELSE None]

Promise == INSTANCE Memo WITH Miss <- None, store <- Store, given <- Given

IsLossyMemo == Promise!Spec

(* Every call returns unless its process is killed: failing models, empty  *)
(* replies and lost races do not hold it.                                  *)
EveryCallReturns ==
  \A c \in Caller : Busy(c) ~> (pc[c] \in Returned \cup {"crashed"})
=============================================================================
