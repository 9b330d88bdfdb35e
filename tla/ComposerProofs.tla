--------------------------- MODULE ComposerProofs ---------------------------
(***************************************************************************)
(* Package composer, for any number of concurrent calls, keys, ladders,    *)
(* models, journeys and replies.                                           *)
(*                                                                         *)
(*  - The cache directory implements the lossy memo: CacheInv is what      *)
(*    files can hold and calls can carry.  An answer won alone stays       *)
(*    readable, and is of the first rung of the ladder that can answer.    *)
(*  - Of a reply all is read that is whole; what validation keeps or drops *)
(*    is what the recorded pages say of it, or went astray.  These are     *)
(*    proofs about the loops over the reply and the steps of a scenario.   *)
(*  - Humanized, a feature's steps have definitions: whatever is rewritten,*)
(*    the guards ask for them, but for what that of a lone file lets pass. *)
(***************************************************************************)
EXTENDS ComposerCache, Scenarios, FilteringProofs, FiniteSetTheorems, TLAPS

(* The types the refinement needs.                                         *)
Steps == {"idle", "get", "chat", "open", "write", "rename", "crashed",
          "hit", "answered", "empty"}

FileType ==
  /\ pc \in [Caller -> Steps]
  /\ value \in [Caller -> Value \cup {None}]
  /\ rung \in [Caller -> 1..MaxRungs]
  /\ tmp \in [Key -> Inode] /\ final \in [Key -> Inode] /\ fd \in [Caller -> Inode]
  /\ body \in [Caller -> Value \cup {None}] /\ len \in [Caller -> Nat]
  /\ won \in [Key -> SUBSET Value]

(* Every path and descriptor of a key leads to an inode made for that key, *)
(* and every inode holds nothing or an answer won for it.                  *)
KeyInv ==
  /\ \A k \in Key : tmp[k] # None => KeyOf[tmp[k]] = k
  /\ \A k \in Key : final[k] # None => KeyOf[final[k]] = k
  /\ \A c \in Caller : fd[c] # None => KeyOf[fd[c]] = KeyOf[c]
  /\ \A i \in Caller : body[i] # None => body[i] \in won[KeyOf[i]]

CallInv ==
  /\ \A c \in Caller : value[c] # None => value[c] \in won[KeyOf[c]]
  /\ \A c \in Caller : pc[c] \in {"open", "write", "rename", "hit", "answered"} =>
       value[c] # None
  /\ \A c \in Caller : pc[c] \in {"write", "rename"} => fd[c] # None
  /\ \A c \in Caller : rung[c] <= Rungs[c]

CacheInv == FileType /\ KeyInv /\ CallInv

USE DEF walk, files, env, ghost, Goto, Slot, Inode

LEMMA InitInv == Init => CacheInv
<1> USE LadderAssumption DEF Init
<1> SUFFICES ASSUME Init PROVE CacheInv
  OBVIOUS
<1>1. FileType
  BY DEF FileType, Steps
<1>2. KeyInv
  BY DEF KeyInv
<1>3. CallInv
  BY DEF CallInv
<1> QED
  BY <1>1, <1>2, <1>3 DEF CacheInv

(* Moving on keeps the rung on the ladder.                                 *)
LEMMA RungStep ==
  ASSUME CacheInv, NEW c \in Caller, pc[c] = "chat", NextRung(c)
  PROVE  /\ rung' \in [Caller -> 1..MaxRungs]
         /\ \A d \in Caller : rung'[d] <= Rungs[d]
         /\ pc' = pc \/ pc' = [pc EXCEPT ![c] = "empty"]
<1> USE LadderAssumption DEF CacheInv, FileType, CallInv
<1>1. /\ rung[c] \in 1..MaxRungs /\ Rungs[c] \in 1..MaxRungs /\ MaxRungs \in Nat
      /\ \A d \in Caller : rung[d] <= Rungs[d]
  OBVIOUS
<1>2. CASE rung[c] < Rungs[c]
  <2>1. rung[c] + 1 \in 1..MaxRungs /\ rung[c] + 1 <= Rungs[c]
    BY <1>1, <1>2
  <2>2. rung' = [rung EXCEPT ![c] = rung[c] + 1] /\ pc' = pc
    BY <1>2 DEF NextRung
  <2> QED
    BY <1>1, <2>1, <2>2
<1>3. CASE ~(rung[c] < Rungs[c])
  BY <1>1, <1>3 DEF NextRung
<1> QED
  BY <1>2, <1>3

LEMMA InvStep == CacheInv /\ [Next]_vars => CacheInv'
<1> USE LadderAssumption DEF CacheInv
<1> SUFFICES ASSUME CacheInv, [Next]_vars PROVE CacheInv'
  OBVIOUS
<1>1. ASSUME NEW c \in Caller, Start(c) PROVE CacheInv'
  <2> USE <1>1 DEF Start
  <2>1. FileType'
    BY DEF FileType, Steps
  <2>2. KeyInv'
    BY DEF FileType, KeyInv, CallInv
  <2>3. CallInv'
    BY DEF FileType, KeyInv, CallInv, Steps
  <2> QED
    BY <2>1, <2>2, <2>3
<1>2. ASSUME NEW c \in Caller, Get(c) PROVE CacheInv'
  <2> USE <1>2 DEF Get, Read, Readable
  <2>1. FileType'
    BY DEF FileType, Steps
  <2>2. KeyInv'
    BY DEF FileType, KeyInv, CallInv
  <2>3. CallInv'
    BY DEF FileType, KeyInv, CallInv, Steps
  <2> QED
    BY <2>1, <2>2, <2>3
<1>3. ASSUME NEW c \in Caller, ChatFails(c) PROVE CacheInv'
  <2>1. /\ pc[c] = "chat"
        /\ NextRung(c) \/ UNCHANGED <<pc, rung>>
        /\ UNCHANGED <<value, files, won>>
    BY <1>3 DEF ChatFails
  <2>2. /\ rung' \in [Caller -> 1..MaxRungs]
        /\ \A d \in Caller : rung'[d] <= Rungs[d]
        /\ pc' = pc \/ pc' = [pc EXCEPT ![c] = "empty"]
    BY <2>1, RungStep DEF FileType, CallInv
  <2>3. FileType'
    BY <2>1, <2>2 DEF FileType, Steps
  <2>4. KeyInv'
    BY <2>1 DEF KeyInv
  <2>5. CallInv'
    BY <2>1, <2>2 DEF FileType, CallInv
  <2> QED
    BY <2>3, <2>4, <2>5
<1>4. ASSUME NEW c \in Caller, ChatEmpty(c) PROVE CacheInv'
  <2>1. /\ pc[c] = "chat"
        /\ NextRung(c) \/ UNCHANGED <<pc, rung>>
        /\ UNCHANGED <<value, files, won>>
    BY <1>4 DEF ChatEmpty
  <2>2. /\ rung' \in [Caller -> 1..MaxRungs]
        /\ \A d \in Caller : rung'[d] <= Rungs[d]
        /\ pc' = pc \/ pc' = [pc EXCEPT ![c] = "empty"]
    BY <2>1, RungStep DEF FileType, CallInv
  <2>3. FileType'
    BY <2>1, <2>2 DEF FileType, Steps
  <2>4. KeyInv'
    BY <2>1 DEF KeyInv
  <2>5. CallInv'
    BY <2>1, <2>2 DEF FileType, CallInv
  <2> QED
    BY <2>3, <2>4, <2>5
<1>5. ASSUME NEW c \in Caller, ChatAnswers(c) PROVE CacheInv'
  <2> USE <1>5 DEF ChatAnswers, Tag, Note
  <2>1. FileType'
    BY DEF FileType, Steps, Value
  <2>2. KeyInv'
    BY DEF FileType, KeyInv, CallInv
  <2>3. CallInv'
    BY DEF FileType, KeyInv, CallInv, Steps, Value
  <2> QED
    BY <2>1, <2>2, <2>3
<1>6. ASSUME NEW c \in Caller, OpenTmp(c) PROVE CacheInv'
  <2> USE <1>6 DEF OpenTmp
  <2>1. FileType'
    BY DEF FileType, Steps
  <2>2. KeyInv'
    BY DEF FileType, KeyInv, CallInv
  <2>3. CallInv'
    BY DEF FileType, KeyInv, CallInv, Steps
  <2> QED
    BY <2>1, <2>2, <2>3
<1>7. ASSUME NEW c \in Caller, Write(c) PROVE CacheInv'
  <2> USE <1>7 DEF Write
  <2>0. value[c] \in Value /\ fd[c] \in Caller /\ Size[value[c]] \in Nat
    BY DEF FileType, CallInv
  <2>1. FileType'
    BY <2>0 DEF FileType, Steps
  <2>2. KeyInv'
    BY DEF FileType, KeyInv, CallInv
  <2>3. CallInv'
    BY DEF FileType, KeyInv, CallInv, Steps
  <2> QED
    BY <2>1, <2>2, <2>3
<1>8. ASSUME NEW c \in Caller, Rename(c) PROVE CacheInv'
  <2> USE <1>8 DEF Rename, Return
  <2>1. FileType'
    BY DEF FileType, Steps
  <2>2. KeyInv'
    BY DEF FileType, KeyInv, CallInv
  <2>3. CallInv'
    BY DEF FileType, KeyInv, CallInv, Steps
  <2> QED
    BY <2>1, <2>2, <2>3
<1>9. ASSUME NEW c \in Caller, PutFails(c) PROVE CacheInv'
  <2> USE <1>9 DEF PutFails
  <2>1. FileType'
    BY DEF FileType, Steps
  <2>2. KeyInv'
    BY DEF FileType, KeyInv, CallInv
  <2>3. CallInv'
    BY DEF FileType, KeyInv, CallInv, Steps
  <2> QED
    BY <2>1, <2>2, <2>3
<1>10. ASSUME NEW c \in Caller, Crash(c) PROVE CacheInv'
  <2> USE <1>10 DEF Crash, Busy, Returned
  <2>1. FileType'
    BY DEF FileType, Steps
  <2>2. KeyInv'
    BY DEF FileType, KeyInv, CallInv
  <2>3. CallInv'
    BY DEF FileType, KeyInv, CallInv, Steps
  <2> QED
    BY <2>1, <2>2, <2>3
<1>11. ASSUME NEW c \in Caller, RecordFailure(c) PROVE CacheInv'
  <2> USE <1>11 DEF RecordFailure
  <2>1. FileType'
    BY DEF FileType, Steps
  <2>2. KeyInv'
    BY DEF FileType, KeyInv, CallInv
  <2>3. CallInv'
    BY DEF FileType, KeyInv, CallInv, Steps
  <2> QED
    BY <2>1, <2>2, <2>3
<1>12. CASE UNCHANGED vars
  BY <1>12 DEF vars, FileType, KeyInv, CallInv
<1> QED
  BY <1>1, <1>2, <1>3, <1>4, <1>5, <1>6, <1>7, <1>8, <1>9, <1>10, <1>11, <1>12
     DEF Next, Advance

-----------------------------------------------------------------------------
(* The refinement.  A step of a call changes what readers find for its own *)
(* key only, and leaves there an answer won for it or nothing.             *)

LEMMA ReadWon ==
  ASSUME CacheInv', NEW k \in Key PROVE (Store[k])' \in won'[k] \cup {None}
<1> USE LadderAssumption DEF CacheInv, FileType, KeyInv
<1>1. final'[k] \in Caller \cup {None}
  OBVIOUS
<1>2. CASE ~ Readable(final[k])'
  BY <1>2 DEF Store, Read
<1>3. CASE Readable(final[k])'
  <2>1. final'[k] \in Caller /\ KeyOf[final'[k]] = k /\ body'[final'[k]] # None
    BY <1>1, <1>3 DEF Readable
  <2> QED
    BY <1>3, <2>1 DEF Store, Read
<1> QED
  BY <1>2, <1>3

(* OpenTmp, Write and a failing Put reach inodes of their own key only.    *)
LEMMA OtherKeysUntouched ==
  ASSUME CacheInv, NEW c \in Caller, NEW i \in Caller, KeyOf[i] = KeyOf[c],
         \A d \in Caller \ {i} : body'[d] = body[d] /\ len'[d] = len[d],
         \A k \in Key \ {KeyOf[c]} : final'[k] = final[k]
  PROVE  \A k \in Key \ {KeyOf[c]} : (Store[k])' = Store[k]
<1> USE LadderAssumption DEF CacheInv, FileType, KeyInv
<1> SUFFICES ASSUME NEW k \in Key \ {KeyOf[c]} PROVE (Store[k])' = Store[k]
  OBVIOUS
<1>1. CASE final[k] = None
  BY <1>1 DEF Store, Read, Readable
<1>2. CASE final[k] # None
  <2>1. final[k] \in Caller \ {i}
    BY <1>2
  <2> QED
    BY <1>2, <2>1 DEF Store, Read, Readable
<1> QED
  BY <1>1, <1>2

LEMMA Resettled ==
  ASSUME CacheInv', won' = won, NEW k \in Key,
         \A l \in Key \ {k} : (Store[l])' = Store[l]
  PROVE  Promise!Resettle(k)
<1>1. (Store[k])' \in won[k] \cup {None}
  BY ReadWon
<1>2. Store' = [Store EXCEPT ![k] = (Store[k])']
  BY DEF Store
<1> QED
  BY <1>1, <1>2 DEF Promise!Resettle

LEMMA RefStep == CacheInv /\ CacheInv' /\ [Next]_vars => [Promise!Next]_(Promise!vars)
<1> USE LadderAssumption
<1> SUFFICES ASSUME CacheInv, CacheInv', [Next]_vars
             PROVE  [Promise!Next]_(Promise!vars)
  OBVIOUS
<1> DEFINE Stutters == won' = won /\ Store' = Store /\ Given' = Given
<1>a. Stutters => UNCHANGED Promise!vars
  BY DEF Promise!vars
<1>1. ASSUME NEW c \in Caller,
             Start(c) \/ ChatFails(c) \/ ChatEmpty(c) \/ Crash(c) \/ RecordFailure(c)
      PROVE  Stutters
  <2>1. UNCHANGED <<value, files, won>>
    BY <1>1 DEF Start, ChatFails, ChatEmpty, Crash, RecordFailure
  <2>2. \A d \in Caller : pc'[d] = pc[d] \/ {pc[d], pc'[d]} \cap {"hit", "answered"} = {}
    BY <1>1 DEF Start, ChatFails, ChatEmpty, Crash, RecordFailure, NextRung, Busy, Returned,
                CacheInv, FileType, Steps
  <2>3. Store' = Store
    BY <2>1 DEF Store, Read, Readable
  <2>4. Given' = Given
    BY <2>1, <2>2 DEF Given
  <2> QED
    BY <2>1, <2>3, <2>4
<1>2. ASSUME NEW c \in Caller, Get(c) PROVE Stutters \/ Promise!Leave(c)
  <2>1. Store' = Store /\ won' = won
    BY <1>2 DEF Get, Store, Read, Readable
  <2>2. CASE Read(KeyOf[c]) = None
    <3>1. Given' = Given
      BY <1>2, <2>2 DEF Get, Given, CacheInv, FileType
    <3> QED
      BY <2>1, <3>1
  <2>3. CASE Read(KeyOf[c]) # None
    <3>1. Given' = [Given EXCEPT ![c] = value'[c]]
      BY <1>2, <2>3 DEF Get, Given, CacheInv, FileType
    <3>2. value'[c] \in won[KeyOf[c]]
      BY <1>2, <2>1, <2>3 DEF Get, CacheInv, CallInv, FileType
    <3>3. Promise!Resettle(KeyOf[c])
      BY <2>1, Resettled
    <3> QED
      BY <2>1, <3>1, <3>2, <3>3 DEF Promise!Leave
  <2> QED
    BY <2>2, <2>3
<1>3. ASSUME NEW c \in Caller, ChatAnswers(c) PROVE \E v \in Value : Promise!Win(c, v)
  <2>1. PICK a \in Answer : won' = [won EXCEPT ![KeyOf[c]] = @ \cup {Tag(c, a)}]
    BY <1>3 DEF ChatAnswers
  <2>2. Tag(c, a) \in Value
    BY DEF Tag, Value, CacheInv, FileType
  <2>3. Store' = Store
    BY <1>3 DEF ChatAnswers, Store, Read, Readable
  <2>4. Given' = Given
    BY <1>3 DEF ChatAnswers, Given, CacheInv, FileType
  <2> QED
    BY <2>1, <2>2, <2>3, <2>4 DEF Promise!Win
<1>4. ASSUME NEW c \in Caller, OpenTmp(c) \/ Write(c)
      PROVE  Promise!Settle(KeyOf[c])
  <2>1. PICK i \in Caller :
          /\ KeyOf[i] = KeyOf[c]
          /\ \A d \in Caller \ {i} : body'[d] = body[d] /\ len'[d] = len[d]
    <3>1. CASE OpenTmp(c)
      <4> DEFINE i == IF tmp[KeyOf[c]] = None THEN c ELSE tmp[KeyOf[c]]
      <4>1. i \in Caller /\ KeyOf[i] = KeyOf[c]
        BY DEF CacheInv, FileType, KeyInv
      <4>2. body' = [body EXCEPT ![i] = None] /\ len' = [len EXCEPT ![i] = 0]
        BY <3>1 DEF OpenTmp
      <4> QED
        BY <4>1, <4>2 DEF CacheInv, FileType
    <3>2. CASE Write(c)
      <4>1. fd[c] \in Caller /\ KeyOf[fd[c]] = KeyOf[c]
        BY <3>2 DEF Write, CacheInv, FileType, KeyInv, CallInv
      <4> QED
        BY <3>2, <4>1 DEF Write, CacheInv, FileType
    <3> QED
      BY <1>4, <3>1, <3>2
  <2>2. final' = final /\ won' = won
    BY <1>4 DEF OpenTmp, Write
  <2>3. \A k \in Key \ {KeyOf[c]} : (Store[k])' = Store[k]
    BY <2>1, <2>2, OtherKeysUntouched
  <2>4. Given' = Given
    BY <1>4 DEF OpenTmp, Write, Given, CacheInv, FileType
  <2> QED
    BY <2>2, <2>3, <2>4, Resettled DEF Promise!Settle
<1>5. ASSUME NEW c \in Caller, Rename(c) \/ PutFails(c) PROVE Promise!Leave(c)
  <2>1. /\ won' = won /\ value' = value
        /\ pc' = [pc EXCEPT ![c] = "answered"] /\ pc[c] \in {"open", "write", "rename"}
    BY <1>5 DEF Rename, PutFails, Return
  <2>2. value[c] \in won[KeyOf[c]]
    BY <2>1 DEF CacheInv, CallInv
  <2>3. Given' = [Given EXCEPT ![c] = value[c]]
    BY <2>1 DEF Given, CacheInv, FileType
  <2>4. \A k \in Key \ {KeyOf[c]} : (Store[k])' = Store[k]
    <3>1. CASE Rename(c)
      BY <3>1 DEF Rename, Store, Read, Readable, CacheInv, FileType
    <3>2. CASE PutFails(c) /\ body' = body
      BY <3>2 DEF PutFails, Store, Read, Readable
    <3>3. CASE PutFails(c) /\ body' # body
      <4>1. fd[c] \in Caller /\ KeyOf[fd[c]] = KeyOf[c]
        BY <3>3 DEF PutFails, CacheInv, FileType, KeyInv, CallInv
      <4>2. /\ \A d \in Caller \ {fd[c]} : body'[d] = body[d] /\ len'[d] = len[d]
            /\ final' = final
        BY <3>3, <4>1 DEF PutFails, CacheInv, FileType
      <4> QED
        BY <4>1, <4>2, OtherKeysUntouched
    <3> QED
      BY <1>5, <3>1, <3>2, <3>3
  <2> QED
    BY <2>1, <2>2, <2>3, <2>4, Resettled DEF Promise!Leave
<1>6. CASE UNCHANGED vars
  BY <1>6 DEF vars, Store, Given, Read, Readable, Promise!vars
<1>7. ASSUME NEW c \in Caller, Promise!Leave(c) \/ Promise!Settle(KeyOf[c])
      PROVE  Promise!Next
  BY <1>7 DEF Promise!Next
<1>8. ASSUME NEW c \in Caller, \E v \in Value : Promise!Win(c, v) PROVE Promise!Next
  BY <1>8 DEF Promise!Next
<1>9. CASE \E c \in Caller : Start(c) \/ Advance(c) \/ PutFails(c) \/ Crash(c) \/ RecordFailure(c)
  <2> HIDE DEF Stutters
  <2> QED
    BY <1>a, <1>1, <1>2, <1>3, <1>4, <1>5, <1>7, <1>8, <1>9 DEF Advance
<1> QED
  BY <1>6, <1>9 DEF Next

(* However many calls share the directory, and wherever they are killed:   *)
(* a call is only ever given an answer won for its own key.                *)
THEOREM LossyMemo == Spec => IsLossyMemo
<1>1. Init => Promise!Init
  BY LadderAssumption DEF Init, Promise!Init, Store, Given, Read, Readable
<1> QED
  BY <1>1, InitInv, InvStep, RefStep, PTL DEF Spec, IsLossyMemo, Promise!Spec

-----------------------------------------------------------------------------
(* A call nobody disturbs.  The temporary file it opened is still the one  *)
(* at the path, empty before its write and whole after it.                 *)
LoneWriter(c) ==
  /\ \A o \in Caller \ {c} : ~Busy(o)
  /\ pc[c] = "write" => /\ tmp[KeyOf[c]] = fd[c]
                        /\ len[fd[c]] = 0
  /\ pc[c] = "rename" => /\ tmp[KeyOf[c]] = fd[c]
                         /\ body[fd[c]] = value[c]
                         /\ len[fd[c]] = Size[value[c]]

AloneInv == alone \subseteq Caller /\ \A c \in alone : LoneWriter(c)

CachedInv ==
  cached # None => /\ cached \in Caller /\ WinsAreCached
                   /\ \A o \in Caller : ~Busy(o)

WinInv == CacheInv /\ AloneInv /\ CachedInv

LEMMA BusyActor ==
  ASSUME WinInv, NEW c \in Caller, Busy(c)
  PROVE  cached = None /\ alone \subseteq {c}
BY DEF WinInv, AloneInv, CachedInv, LoneWriter

(* A step of c that leaves it outside of the write and the rename.         *)
LEMMA AwayFromFiles ==
  ASSUME WinInv, NEW c \in Caller, Busy(c),
         pc' \in [Caller -> Steps], \A o \in Caller \ {c} : pc'[o] = pc[o],
         pc'[c] \notin {"write", "rename"},
         UNCHANGED <<alone, cached>>
  PROVE  AloneInv' /\ CachedInv'
<1>1. cached = None /\ alone \subseteq {c}
  BY BusyActor
<1>2. ASSUME NEW d \in alone PROVE d = c /\ \A o \in Caller \ {d} : ~Busy(o)'
  BY <1>1, <1>2 DEF WinInv, AloneInv, LoneWriter, Busy
<1> QED
  BY <1>1, <1>2 DEF AloneInv, LoneWriter, CachedInv

LEMMA WinStep == WinInv /\ [Next]_vars => WinInv'
<1> SUFFICES ASSUME WinInv, [Next]_vars PROVE WinInv'
  OBVIOUS
<1>0. CacheInv /\ CacheInv' /\ pc \in [Caller -> Steps] /\ pc' \in [Caller -> Steps]
  BY InvStep DEF WinInv, CacheInv, FileType
<1>1. ASSUME NEW c \in Caller, Start(c) PROVE AloneInv' /\ CachedInv'
  <2>1. alone' \subseteq {c} /\ cached' = None /\ pc'[c] = "get"
    BY <1>0, <1>1 DEF Start
  <2>2. alone' # {} => \A o \in Caller \ {c} : ~Busy(o)'
    BY <1>0, <1>1 DEF Start, Busy
  <2> QED
    BY <2>1, <2>2 DEF AloneInv, LoneWriter, CachedInv
<1>2. ASSUME NEW c \in Caller,
             Get(c) \/ ChatFails(c) \/ ChatEmpty(c) \/ ChatAnswers(c) \/ PutFails(c) \/ Crash(c)
      PROVE  AloneInv' /\ CachedInv'
  <2>1. Busy(c) /\ UNCHANGED <<alone, cached>> /\ \A o \in Caller \ {c} : pc'[o] = pc[o]
    BY <1>0, <1>2 DEF Get, ChatFails, ChatEmpty, ChatAnswers, PutFails, Crash, NextRung,
                      Busy, Returned
  <2>2. pc'[c] \notin {"write", "rename"}
    BY <1>0, <1>2 DEF Get, ChatFails, ChatEmpty, ChatAnswers, PutFails, Crash, NextRung
  <2> QED
    BY <1>0, <2>1, <2>2, AwayFromFiles
<1>3. ASSUME NEW c \in Caller, OpenTmp(c) PROVE AloneInv' /\ CachedInv'
  <2>1. cached' = None /\ alone' \subseteq {c} /\ alone' = alone
    BY <1>3, BusyActor DEF OpenTmp, Busy, Returned
  <2>2. \A o \in Caller \ {c} : ~Busy(o) => ~Busy(o)'
    BY <1>0, <1>3 DEF OpenTmp, Busy
  <2>3. pc'[c] = "write" /\ tmp'[KeyOf[c]] = fd'[c] /\ len'[fd'[c]] = 0
    BY <1>0, <1>3, LadderAssumption DEF OpenTmp, CacheInv, FileType
  <2> QED
    BY <2>1, <2>2, <2>3 DEF WinInv, AloneInv, LoneWriter, CachedInv
<1>4. ASSUME NEW c \in Caller, Write(c) PROVE AloneInv' /\ CachedInv'
  <2>1. cached' = None /\ alone' \subseteq {c} /\ alone' = alone
    BY <1>4, BusyActor DEF Write, Busy, Returned
  <2>2. \A o \in Caller \ {c} : ~Busy(o) => ~Busy(o)'
    BY <1>0, <1>4 DEF Write, Busy
  <2>3. /\ pc'[c] = "rename" /\ UNCHANGED <<tmp, fd, value>>
        /\ fd[c] \in Caller /\ Size[value[c]] \in Nat
    BY <1>0, <1>4, LadderAssumption DEF Write, CacheInv, FileType, CallInv
  <2>4. body'[fd[c]] = value[c]
    BY <1>0, <1>4, <2>3 DEF Write, CacheInv, FileType
  <2>5. len[fd[c]] = 0 => len'[fd[c]] = Size[value[c]]
    BY <1>0, <1>4, <2>3 DEF Write, CacheInv, FileType
  <2>6. ASSUME c \in alone PROVE LoneWriter(c)'
    <3>1. tmp[KeyOf[c]] = fd[c] /\ len[fd[c]] = 0 /\ \A o \in Caller \ {c} : ~Busy(o)
      BY <1>4, <2>6 DEF Write, WinInv, AloneInv, LoneWriter
    <3>2. \A o \in Caller \ {c} : ~Busy(o)'
      BY <2>2, <3>1
    <3>3. /\ tmp'[KeyOf[c]] = fd'[c] /\ body'[fd'[c]] = value'[c]
          /\ len'[fd'[c]] = Size[value'[c]]
      BY <2>3, <2>4, <2>5, <3>1
    <3> QED
      BY <2>3, <3>2, <3>3 DEF LoneWriter
  <2> QED
    BY <2>1, <2>6 DEF WinInv, AloneInv, CachedInv
<1>5. ASSUME NEW c \in Caller, Rename(c) PROVE AloneInv' /\ CachedInv'
  <2>1. cached = None /\ alone' \subseteq {c} /\ alone' = alone
    BY <1>5, BusyActor DEF Rename, Return, Busy, Returned
  <2>2. \A o \in Caller \ {c} : ~Busy(o) => ~Busy(o)'
    BY <1>0, <1>5 DEF Rename, Return, Busy
  <2>3. pc'[c] = "answered" /\ ~Busy(c)'
    BY <1>0, <1>5 DEF Rename, Return, Busy, Returned
  <2>4. AloneInv'
    BY <2>1, <2>2, <2>3 DEF WinInv, AloneInv, LoneWriter
  <2>5. CASE c \notin alone
    BY <1>5, <2>1, <2>4, <2>5 DEF Rename, Return, CachedInv
  <2>6. CASE c \in alone
    <3>1. cached' = c /\ \A o \in Caller : ~Busy(o)'
      BY <1>5, <2>2, <2>3, <2>6 DEF Rename, Return, WinInv, AloneInv, LoneWriter
    <3>2. /\ tmp[KeyOf[c]] = fd[c] /\ fd[c] # None
          /\ body[fd[c]] = value[c] /\ value[c] # None /\ len[fd[c]] = Size[value[c]]
      BY <1>0, <1>5, <2>6
         DEF Rename, WinInv, AloneInv, LoneWriter, CacheInv, CallInv
    <3>3. final'[KeyOf[c]] = fd[c] /\ UNCHANGED <<body, len, value>>
      BY <1>0, <1>5, <3>2, LadderAssumption DEF Rename, CacheInv, FileType
    <3>4. WinsAreCached'
      BY <3>1, <3>2, <3>3 DEF WinsAreCached, Read, Readable
    <3> QED
      BY <2>4, <3>1, <3>4 DEF CachedInv
  <2> QED
    BY <2>4, <2>5, <2>6
<1>6. CASE \/ \E c \in Caller : RecordFailure(c)
           \/ UNCHANGED vars
  <2>1. UNCHANGED <<pc, value, files, alone, cached>>
    BY <1>6 DEF RecordFailure, vars
  <2> QED
    BY <1>0, <2>1 DEF WinInv, AloneInv, LoneWriter, CachedInv, Busy, WinsAreCached, Read,
                      Readable
<1> QED
  BY <1>0, <1>1, <1>2, <1>3, <1>4, <1>5, <1>6 DEF Next, Advance, WinInv

(* cache.go:65-67: whatever killed writers, failed writes and interleaved  *)
(* renames left in the directory, for any number of calls: once a call     *)
(* wins an answer while no other runs, the entry is readable with it.      *)
THEOREM LoneWinsAreCached == Spec => []WinsAreCached
<1>1. Init => WinInv
  <2>1. Init => AloneInv /\ CachedInv
    BY DEF Init, AloneInv, CachedInv
  <2> QED
    BY <2>1, InitInv DEF WinInv
<1>2. WinInv => WinsAreCached
  BY DEF WinInv, CachedInv, WinsAreCached
<1> QED
  BY <1>1, <1>2, WinStep, PTL DEF Spec

-----------------------------------------------------------------------------
(* The ladder.  While a call asks a rung, that rung has failed as often as *)
(* the call has asked it, every rung before it gave up, and no rung after  *)
(* it has been asked: moving on finds a rung without a verdict.            *)
Verdict == [rung : 1..MaxRungs, said : {"error", "nothing", "answer"}]

Asking(c) ==
  /\ chat[c] < Chats[c] /\ Cardinality(Errors(c, rung[c])) = chat[c]
  /\ \A i \in DOMAIN verdicts[c] : verdicts[c][i].rung <= rung[c]
  /\ \A r \in 1..rung[c] - 1 : RungGaveUp(c, r)

Climbed(c) ==
  /\ pc[c] \in {"idle", "get"} => verdicts[c] = << >> /\ chat[c] = 0 /\ rung[c] = 1
  /\ pc[c] = "chat" => Asking(c)
  /\ pc[c] \in {"open", "write", "rename", "answered"} =>
       /\ verdicts[c] # << >>
       /\ verdicts[c][Len(verdicts[c])] = [rung |-> value[c].rung, said |-> "answer"]
       /\ \A r \in 1..value[c].rung - 1 : RungGaveUp(c, r)
  /\ pc[c] = "empty" => \A r \in 1..Rungs[c] : RungGaveUp(c, r)

LadderInv ==
  /\ CacheInv
  /\ chat \in [Caller -> Nat] /\ verdicts \in [Caller -> Seq(Verdict)]
  /\ \A c \in Caller : Climbed(c)

(* What a call has been told so far is one verdict longer; it is an error  *)
(* of one rung, or counts for none.                                        *)
OneLonger(s, t, v) ==
  /\ Len(s) \in Nat /\ DOMAIN s = 1..Len(s) /\ DOMAIN t = 1..(Len(s) + 1)
  /\ \A i \in 1..Len(s) : t[i] = s[i]
  /\ t[Len(s) + 1] = v

LEMMA NoteAdds ==
  ASSUME LadderInv, NEW c \in Caller, NEW said \in {"error", "nothing", "answer"},
         Note(c, said)
  PROVE  /\ verdicts' \in [Caller -> Seq(Verdict)]
         /\ verdicts'[c] = Append(verdicts[c], [rung |-> rung[c], said |-> said])
         /\ OneLonger(verdicts[c], verdicts'[c], [rung |-> rung[c], said |-> said])
         /\ \A d \in Caller \ {c} : verdicts'[d] = verdicts[d]
<1> DEFINE v == [rung |-> rung[c], said |-> said]
<1>1. v \in Verdict /\ verdicts[c] \in Seq(Verdict) /\ verdicts \in [Caller -> Seq(Verdict)]
  BY DEF LadderInv, CacheInv, FileType, Verdict
<1>2. verdicts' = [verdicts EXCEPT ![c] = Append(verdicts[c], v)]
  BY DEF Note
<1> HIDE DEF v
<1>3. Append(verdicts[c], v) \in Seq(Verdict)
  BY <1>1
<1>4. /\ verdicts' \in [Caller -> Seq(Verdict)] /\ verdicts'[c] = Append(verdicts[c], v)
      /\ \A d \in Caller \ {c} : verdicts'[d] = verdicts[d]
  BY <1>1, <1>2, <1>3
<1>5. OneLonger(verdicts[c], verdicts'[c], v)
  BY <1>1, <1>4 DEF OneLonger
<1> QED
  BY <1>4, <1>5 DEF v

LEMMA GaveUpStays ==
  ASSUME LadderInv, NEW c \in Caller, NEW said \in {"error", "nothing", "answer"},
         Note(c, said), NEW r, r # rung[c], RungGaveUp(c, r)
  PROVE  RungGaveUp(c, r)'
<1> DEFINE n == Len(verdicts[c])
<1>1. /\ n \in Nat /\ DOMAIN verdicts[c] = 1..n /\ DOMAIN verdicts'[c] = 1..(n + 1)
      /\ \A i \in 1..n : verdicts'[c][i] = verdicts[c][i]
      /\ verdicts'[c][n + 1].rung = rung[c]
  <2>1. OneLonger(verdicts[c], verdicts'[c], [rung |-> rung[c], said |-> said])
    BY NoteAdds
  <2> QED
    BY <2>1 DEF OneLonger
<1> HIDE DEF n
<1>2. \A v : verdicts'[c][n + 1] # [rung |-> r, said |-> v]
  BY <1>1
<1>3. Errors(c, r)' = Errors(c, r)
  <2>1. Errors(c, r)' = {i \in 1..(n + 1) : verdicts'[c][i] = [rung |-> r, said |-> "error"]}
    BY <1>1 DEF Errors
  <2>2. Errors(c, r) = {i \in 1..n : verdicts[c][i] = [rung |-> r, said |-> "error"]}
    BY <1>1 DEF Errors
  <2>3. \A i \in 1..(n + 1) :
          verdicts'[c][i] = [rung |-> r, said |-> "error"] <=>
            i \in 1..n /\ verdicts[c][i] = [rung |-> r, said |-> "error"]
    BY <1>1, <1>2
  <2> QED
    BY <1>1, <2>1, <2>2, <2>3
<1>4. CASE \E i \in DOMAIN verdicts[c] : verdicts[c][i] = [rung |-> r, said |-> "nothing"]
  <2>1. PICK i \in 1..n : verdicts[c][i] = [rung |-> r, said |-> "nothing"]
    BY <1>1, <1>4
  <2>2. i \in DOMAIN verdicts'[c] /\ verdicts'[c][i] = [rung |-> r, said |-> "nothing"]
    BY <1>1, <2>1
  <2> QED
    BY <2>2 DEF RungGaveUp
<1>5. CASE Cardinality(Errors(c, r)) = Chats[c]
  BY <1>3, <1>5 DEF RungGaveUp
<1> QED
  BY <1>4, <1>5 DEF RungGaveUp

LEMMA OneMoreError ==
  ASSUME LadderInv, NEW c \in Caller, Note(c, "error"), NEW r, r = rung[c]
  PROVE  Cardinality(Errors(c, r)') = Cardinality(Errors(c, r)) + 1
<1> DEFINE n == Len(verdicts[c])
<1>1. /\ n \in Nat /\ DOMAIN verdicts[c] = 1..n /\ DOMAIN verdicts'[c] = 1..(n + 1)
      /\ \A i \in 1..n : verdicts'[c][i] = verdicts[c][i]
      /\ verdicts'[c][n + 1] = [rung |-> r, said |-> "error"]
  <2>1. OneLonger(verdicts[c], verdicts'[c], [rung |-> rung[c], said |-> "error"])
    BY NoteAdds
  <2> QED
    BY <2>1 DEF OneLonger
<1> HIDE DEF n
<1>2. Errors(c, r)' = Errors(c, r) \cup {n + 1}
  BY <1>1 DEF Errors
<1>3. Errors(c, r) \subseteq 1..n /\ n + 1 \notin Errors(c, r)
  BY <1>1 DEF Errors
<1>4. IsFiniteSet(Errors(c, r))
  <2>1. 1 \in Int /\ n \in Int
    BY <1>1
  <2>2. IsFiniteSet(1..n)
    BY <2>1, FS_Interval
  <2> QED
    BY <1>3, <2>2, FS_Subset
<1> QED
  BY <1>2, <1>3, <1>4, FS_AddElement

(* No verdict is of a rung after the one that is asked.                    *)
LEMMA NoLaterRung ==
  ASSUME LadderInv, NEW c \in Caller, Asking(c),
         NEW said \in {"error", "nothing", "answer"}, Note(c, said), NEW r, r = rung[c]
  PROVE  /\ r \in 1..MaxRungs
         /\ \A i \in DOMAIN verdicts'[c] : verdicts'[c][i].rung \in 1..r
<1> DEFINE n == Len(verdicts[c])
<1>1. r \in 1..MaxRungs
  BY DEF LadderInv, CacheInv, FileType
<1>2. OneLonger(verdicts[c], verdicts'[c], [rung |-> r, said |-> said])
  BY NoteAdds
<1>3. /\ n \in Nat /\ DOMAIN verdicts[c] = 1..n /\ DOMAIN verdicts'[c] = 1..(n + 1)
      /\ \A i \in 1..n : verdicts'[c][i] = verdicts[c][i]
      /\ verdicts'[c][n + 1].rung = r
  BY <1>2 DEF OneLonger
<1>4. \A i \in 1..n : verdicts[c][i].rung \in 1..MaxRungs
  <2>1. verdicts[c] \in Seq(Verdict)
    BY DEF LadderInv
  <2>2. \A i \in 1..n : verdicts[c][i] \in Verdict
    BY <2>1
  <2> QED
    BY <2>2 DEF Verdict
<1> HIDE DEF n
<1>5. \A i \in 1..n : verdicts[c][i].rung <= r
  BY <1>3 DEF Asking
<1>6. r \in Nat /\ 1 <= r
  BY <1>1, LadderAssumption
<1>7. \A i \in 1..n : verdicts'[c][i].rung \in 1..r
  <2> SUFFICES ASSUME NEW i \in 1..n PROVE verdicts'[c][i].rung \in 1..r
    OBVIOUS
  <2>1. verdicts'[c][i].rung \in 1..MaxRungs /\ verdicts'[c][i].rung <= r
    BY <1>3, <1>4, <1>5
  <2> QED
    BY <1>6, <2>1, LadderAssumption
<1>8. verdicts'[c][n + 1].rung \in 1..r
  BY <1>3, <1>6
<1> QED
  BY <1>1, <1>3, <1>7, <1>8

(* A rung that gave up has, as long as the call is told nothing new; so    *)
(* has all of the walk, when the call does not move.                       *)
LEMMA GaveUpSame ==
  ASSUME NEW d \in Caller, verdicts'[d] = verdicts[d], NEW r
  PROVE  RungGaveUp(d, r)' <=> RungGaveUp(d, r)
BY DEF RungGaveUp, Errors

LEMMA StandsStill ==
  ASSUME NEW d \in Caller, Climbed(d), verdicts'[d] = verdicts[d], pc'[d] = pc[d],
         chat'[d] = chat[d], rung'[d] = rung[d], value'[d] = value[d]
  PROVE  Climbed(d)'
BY DEF Climbed, Asking, RungGaveUp, Errors

(* The rung of c gives up: the next one is asked, or the walk is over.     *)
LEMMA MovesOn ==
  ASSUME LadderInv, NEW c \in Caller, pc[c] = "chat", NextRung(c),
         chat' = [chat EXCEPT ![c] = 0],
         NEW said \in {"error", "nothing", "answer"}, Note(c, said),
         \A r : r = rung[c] => RungGaveUp(c, r)'
  PROVE  Climbed(c)'
<1> USE LadderAssumption
<1>1. /\ pc \in [Caller -> Steps] /\ rung \in [Caller -> 1..MaxRungs] /\ chat \in [Caller -> Nat]
      /\ Rungs[c] \in 1..MaxRungs /\ rung[c] <= Rungs[c] /\ Asking(c) /\ Chats[c] \in 1..2
  BY DEF LadderInv, Climbed, CacheInv, FileType, CallInv
<1> DEFINE r == rung[c]
<1>2. r \in 1..MaxRungs
  BY <1>1
<1>3. \A s \in 1..r - 1 : RungGaveUp(c, s)'
  <2> SUFFICES ASSUME NEW s \in 1..r - 1 PROVE RungGaveUp(c, s)'
    OBVIOUS
  <2>1. s # r /\ RungGaveUp(c, s)
    BY <1>1 DEF Asking
  <2> QED
    BY <2>1, GaveUpStays
<1>4. \A s \in 1..r : RungGaveUp(c, s)'
  <2> SUFFICES ASSUME NEW s \in 1..r PROVE RungGaveUp(c, s)'
    OBVIOUS
  <2>1. CASE s = r
    BY <2>1
  <2>2. CASE s # r
    BY <1>2, <1>3, <2>2
  <2> QED
    BY <2>1, <2>2
<1>5. CASE r < Rungs[c]
  <2>1. rung'[c] = r + 1 /\ pc'[c] = "chat" /\ chat'[c] = 0
    BY <1>1, <1>5 DEF NextRung
  <2>2. \A i \in DOMAIN verdicts'[c] : verdicts'[c][i].rung \in 1..r
    BY <1>1, NoLaterRung
  <2>3. Errors(c, rung[c])' = {}
    <3>1. Errors(c, rung[c])' \subseteq {i \in DOMAIN verdicts'[c] : verdicts'[c][i].rung = r + 1}
      BY <2>1 DEF Errors
    <3>2. r \in Int
      BY <1>2
    <3> QED
      BY <2>2, <3>1, <3>2
  <2>4. Cardinality(Errors(c, rung[c]))' = 0
    BY <2>3, FS_EmptySet
  <2>5. \A i \in DOMAIN verdicts'[c] : verdicts'[c][i].rung <= r + 1
    BY <1>2, <2>2
  <2>6. Asking(c)'
    BY <1>1, <1>4, <2>1, <2>4, <2>5 DEF Asking
  <2> QED
    BY <2>1, <2>6 DEF Climbed
<1>6. CASE ~(r < Rungs[c])
  <2>1. r = Rungs[c] /\ pc'[c] = "empty"
    BY <1>1, <1>6 DEF NextRung
  <2> QED
    BY <1>4, <2>1 DEF Climbed
<1> QED
  BY <1>5, <1>6

LEMMA LadderStep == LadderInv /\ [Next]_vars => LadderInv'
<1> SUFFICES ASSUME LadderInv, [Next]_vars PROVE LadderInv'
  OBVIOUS
<1>0. /\ CacheInv' /\ pc \in [Caller -> Steps] /\ value \in [Caller -> Value \cup {None}]
      /\ rung \in [Caller -> 1..MaxRungs] /\ chat \in [Caller -> Nat]
      /\ verdicts \in [Caller -> Seq(Verdict)] /\ \A c \in Caller : Climbed(c)
  BY InvStep DEF LadderInv, CacheInv, FileType
<1> DEFINE Others(c) ==
      \A d \in Caller \ {c} : /\ verdicts'[d] = verdicts[d] /\ pc'[d] = pc[d]
                              /\ chat'[d] = chat[d] /\ rung'[d] = rung[d]
                              /\ value'[d] = value[d]
<1>1. ASSUME NEW c \in Caller, Others(c), Climbed(c)',
             chat' \in [Caller -> Nat], verdicts' \in [Caller -> Seq(Verdict)]
      PROVE  LadderInv'
  <2>1. \A d \in Caller \ {c} : Climbed(d)'
    BY <1>0, <1>1, StandsStill
  <2> QED
    BY <1>0, <1>1, <2>1 DEF LadderInv
<1>2. ASSUME NEW c \in Caller, Start(c) \/ Get(c) PROVE LadderInv'
  <2>1. UNCHANGED <<verdicts, chat, rung>> /\ Others(c)
    BY <1>0, <1>2 DEF Start, Get
  <2>2. /\ verdicts[c] = << >> /\ chat[c] = 0 /\ rung[c] = 1
        /\ pc'[c] \in {"get", "hit", "chat"}
    BY <1>0, <1>2 DEF Start, Get, Climbed
  <2>3. Asking(c)'
    <3>1. Errors(c, rung[c])' = {}
      BY <2>1, <2>2 DEF Errors
    <3>2. Cardinality(Errors(c, rung[c]))' = 0
      BY <3>1, FS_EmptySet
    <3> QED
      BY <2>1, <2>2, <3>2, LadderAssumption DEF Asking
  <2>4. Climbed(c)'
    BY <2>1, <2>2, <2>3 DEF Climbed
  <2> QED
    BY <1>0, <1>1, <2>1, <2>4
<1>3. ASSUME NEW c \in Caller, ChatFails(c) PROVE LadderInv'
  <2>1. /\ pc[c] = "chat" /\ Note(c, "error") /\ UNCHANGED value
        /\ Asking(c) /\ Chats[c] \in 1..2 /\ chat[c] \in Nat
    BY <1>0, <1>3, LadderAssumption DEF ChatFails, Climbed
  <2>2. /\ verdicts' \in [Caller -> Seq(Verdict)]
        /\ \A d \in Caller \ {c} : verdicts'[d] = verdicts[d]
        /\ OneLonger(verdicts[c], verdicts'[c], [rung |-> rung[c], said |-> "error"])
    BY <2>1, NoteAdds
  <2>3. Others(c) /\ chat' \in [Caller -> Nat]
    BY <1>0, <1>3, <2>1, <2>2 DEF ChatFails, NextRung
  <2>4. \A r : r = rung[c] => Cardinality(Errors(c, r)') = chat[c] + 1
    BY <2>1, OneMoreError DEF Asking
  <2>5. CASE chat[c] + 1 < Chats[c]
    <3>1. UNCHANGED <<pc, rung>> /\ chat'[c] = chat[c] + 1
      BY <1>0, <1>3, <2>5 DEF ChatFails
    <3>2. \A i \in DOMAIN verdicts'[c] : verdicts'[c][i].rung <= rung[c]
      <4>1. /\ rung[c] \in 1..MaxRungs
            /\ \A i \in DOMAIN verdicts'[c] : verdicts'[c][i].rung \in 1..rung[c]
        BY <2>1, NoLaterRung
      <4> QED
        BY <4>1, LadderAssumption
    <3>3. \A s \in 1..rung[c] - 1 : RungGaveUp(c, s)'
      <4> SUFFICES ASSUME NEW s \in 1..rung[c] - 1 PROVE RungGaveUp(c, s)'
        OBVIOUS
      <4>1. s # rung[c] /\ RungGaveUp(c, s)
        BY <1>0, <2>1 DEF Asking
      <4> QED
        BY <2>1, <4>1, GaveUpStays
    <3>4. Asking(c)'
      BY <2>4, <2>5, <3>1, <3>2, <3>3 DEF Asking
    <3>5. Climbed(c)'
      BY <2>1, <3>1, <3>4 DEF Climbed
    <3> QED
      BY <1>1, <2>2, <2>3, <3>5
  <2>6. CASE ~(chat[c] + 1 < Chats[c])
    <3>1. chat' = [chat EXCEPT ![c] = 0] /\ NextRung(c)
      BY <1>3, <2>6 DEF ChatFails
    <3>2. chat[c] + 1 = Chats[c]
      BY <2>1, <2>6 DEF Asking
    <3>3. \A r : r = rung[c] => RungGaveUp(c, r)'
      BY <2>4, <3>2 DEF RungGaveUp
    <3>4. Climbed(c)'
      BY <2>1, <3>1, <3>3, MovesOn
    <3> QED
      BY <1>1, <2>2, <2>3, <3>4
  <2> QED
    BY <2>5, <2>6
<1>4. ASSUME NEW c \in Caller, ChatEmpty(c) PROVE LadderInv'
  <2>1. /\ pc[c] = "chat" /\ Note(c, "nothing") /\ UNCHANGED value
        /\ chat' = [chat EXCEPT ![c] = 0] /\ NextRung(c)
    BY <1>4 DEF ChatEmpty
  <2>2. /\ verdicts' \in [Caller -> Seq(Verdict)]
        /\ \A d \in Caller \ {c} : verdicts'[d] = verdicts[d]
        /\ OneLonger(verdicts[c], verdicts'[c], [rung |-> rung[c], said |-> "nothing"])
    BY <2>1, NoteAdds
  <2>3. Others(c) /\ chat' \in [Caller -> Nat]
    BY <1>0, <2>1, <2>2 DEF NextRung
  <2>4. \A r : r = rung[c] => RungGaveUp(c, r)'
    <3>1. Len(verdicts[c]) + 1 \in DOMAIN verdicts'[c]
      BY <2>2 DEF OneLonger
    <3> QED
      BY <2>2, <3>1 DEF OneLonger, RungGaveUp
  <2>5. Climbed(c)'
    BY <2>1, <2>4, MovesOn
  <2> QED
    BY <1>1, <2>2, <2>3, <2>5
<1>5. ASSUME NEW c \in Caller, ChatAnswers(c) PROVE LadderInv'
  <2>1. PICK a \in Answer : value' = [value EXCEPT ![c] = Tag(c, a)]
    BY <1>5 DEF ChatAnswers
  <2>2. /\ pc[c] = "chat" /\ Note(c, "answer") /\ UNCHANGED <<rung, chat>>
        /\ pc' = [pc EXCEPT ![c] = "open"] /\ Asking(c)
    BY <1>0, <1>5 DEF ChatAnswers, Climbed
  <2>3. /\ verdicts' \in [Caller -> Seq(Verdict)]
        /\ \A d \in Caller \ {c} : verdicts'[d] = verdicts[d]
        /\ verdicts'[c] = Append(verdicts[c], [rung |-> rung[c], said |-> "answer"])
    BY <2>2, NoteAdds
  <2>4. Others(c) /\ value'[c].rung = rung[c] /\ pc'[c] = "open"
    BY <1>0, <2>1, <2>2, <2>3 DEF Tag
  <2>5. /\ verdicts'[c] # << >>
        /\ verdicts'[c][Len(verdicts'[c])] = [rung |-> value'[c].rung, said |-> "answer"]
    <3> DEFINE v == [rung |-> rung[c], said |-> "answer"]
    <3>1. verdicts[c] \in Seq(Verdict) /\ v \in Verdict
      BY <1>0 DEF Verdict
    <3> HIDE DEF v
    <3>2. /\ Append(verdicts[c], v) # << >>
          /\ Append(verdicts[c], v)[Len(Append(verdicts[c], v))] = v
      BY <3>1
    <3> QED
      BY <2>3, <2>4, <3>2 DEF v
  <2>6. \A s \in 1..value'[c].rung - 1 : RungGaveUp(c, s)'
    <3> SUFFICES ASSUME NEW s \in 1..rung[c] - 1 PROVE RungGaveUp(c, s)'
      BY <2>4
    <3>1. s # rung[c] /\ RungGaveUp(c, s)
      BY <1>0, <2>2 DEF Asking
    <3> QED
      BY <2>2, <3>1, GaveUpStays
  <2>7. Climbed(c)'
    BY <2>4, <2>5, <2>6 DEF Climbed
  <2> QED
    BY <1>0, <1>1, <2>2, <2>3, <2>4, <2>7
<1>6. ASSUME NEW c \in Caller, OpenTmp(c) \/ Write(c) \/ Rename(c) \/ PutFails(c) \/ Crash(c)
      PROVE  LadderInv'
  <2>1. UNCHANGED <<verdicts, chat, rung, value>>
    BY <1>6 DEF OpenTmp, Write, Rename, Return, PutFails, Crash
  <2>2. /\ \A d \in Caller \ {c} : pc'[d] = pc[d]
        /\ \/ pc'[c] = "crashed"
           \/ /\ pc[c] \in {"open", "write", "rename"}
              /\ pc'[c] \in {"write", "rename", "answered"}
    BY <1>0, <1>6 DEF OpenTmp, Write, Rename, Return, PutFails, Crash
  <2>3. \A r : RungGaveUp(c, r)' <=> RungGaveUp(c, r)
    BY <2>1, GaveUpSame
  <2>4. Climbed(c)'
    BY <1>0, <2>1, <2>2, <2>3 DEF Climbed
  <2> QED
    BY <1>0, <1>1, <2>1, <2>2, <2>4
<1>7. CASE (\E c \in Caller : RecordFailure(c)) \/ UNCHANGED vars
  <2>1. UNCHANGED <<pc, verdicts, chat, rung, value>>
    BY <1>7 DEF RecordFailure, vars
  <2>2. \A c \in Caller : Climbed(c)'
    BY <1>0, <2>1, StandsStill
  <2> QED
    BY <1>0, <2>1, <2>2 DEF LadderInv
<1> QED
  BY <1>2, <1>3, <1>4, <1>5, <1>6, <1>7 DEF Next, Advance

(* ladder.go:39-41, for any ladder, any models and any other calls: an     *)
(* answer is of the first rung that gave one, and a walk finds nothing     *)
(* only after every rung gave up.                                          *)
THEOREM FirstRungAnswers == Spec => []FirstRungWins
<1>1. Init => LadderInv
  <2> SUFFICES ASSUME Init PROVE LadderInv
    OBVIOUS
  <2>1. /\ pc = [c \in Caller |-> "idle"] /\ verdicts = [c \in Caller |-> << >>]
        /\ chat = [c \in Caller |-> 0] /\ rung = [c \in Caller |-> 1]
    BY DEF Init
  <2> QED
    BY <2>1, InitInv DEF LadderInv, Climbed
<1>2. LadderInv => FirstRungWins
  BY DEF LadderInv, Climbed, FirstRungWins
<1> QED
  BY <1>1, <1>2, LadderStep, PTL DEF Spec

-----------------------------------------------------------------------------
(* Scenarios.                                                              *)

(* What is checked was read from a reply to the journey it is checked for. *)
ReplyInv ==
  /\ j \in DOMAIN Journeys
  /\ stage = "check" => /\ reply \in Replies[j] /\ Parse(reply).ok
                        /\ got = Parse(reply).scenarios

LEMMA NextJourneyInv ==
  ASSUME ReplyInv, NextJourney
  PROVE  j' \in DOMAIN Journeys /\ stage' \in {"ask", "emit"}
<1>1. Journeys \in Seq(Range(Journeys))
  BY ScenariosAssumption
<1>2. DOMAIN Journeys = 1..Len(Journeys) /\ Len(Journeys) \in Nat
  BY <1>1
<1> QED
  BY <1>2 DEF ReplyInv, NextJourney

LEMMA ReplyStep ==
  ASSUME ReplyInv, [ScenariosNext]_scenariosVars
  PROVE  ReplyInv'
<1>1. CASE Propose
  BY <1>1 DEF Propose, ReplyInv
<1>2. CASE ProposeFails
  <2>1. CASE attempt = 1
    BY <1>2, <2>1 DEF ProposeFails, ReplyInv
  <2>2. CASE attempt # 1
    BY <1>2, <2>2, NextJourneyInv DEF ProposeFails, ReplyInv
  <2> QED
    BY <2>1, <2>2
<1>3. CASE Check
  BY <1>3, NextJourneyInv DEF Check, ReplyInv
<1>4. CASE Emit
  BY <1>4 DEF Emit, ReplyInv
<1>5. CASE HumanizePair \/ HumanizeEach \/ HumanizeFails
  <2>1. stage' = "done" /\ j' = j
    BY <1>5 DEF HumanizePair, HumanizeEach, HumanizeFails
  <2> QED
    BY <2>1 DEF ReplyInv
<1>6. CASE UNCHANGED scenariosVars
  BY <1>6 DEF scenariosVars, ReplyInv
<1> QED
  BY <1>1, <1>2, <1>3, <1>4, <1>5, <1>6 DEF ScenariosNext

LEMMA ReplyAlways == ScenariosSpec => []ReplyInv
<1>1. ScenariosInit => ReplyInv
  <2>1. Journeys \in Seq(Range(Journeys)) /\ Journeys # << >>
    BY ScenariosAssumption
  <2>2. 1 \in DOMAIN Journeys
    BY <2>1
  <2> QED
    BY <2>2 DEF ScenariosInit, ReplyInv
<1>2. ReplyInv /\ [ScenariosNext]_scenariosVars => ReplyInv'
  BY ReplyStep
<1> QED
  BY <1>1, <1>2, PTL DEF ScenariosSpec

-----------------------------------------------------------------------------
(* Reading a reply.                                                        *)
LEMMA CompleteKeeps ==
  ASSUME NEW R, NEW objects \in Seq(R)
  PROVE  /\ Complete(objects) \in Seq(R)
         /\ \A i \in DOMAIN objects :
              (\A k \in 1..i : objects[k].state # "open")
                => objects[i] \in Elements(Complete(objects))
<1> DEFINE open == {i \in DOMAIN objects : objects[i].state = "open"}
<1>1. DOMAIN objects = 1..Len(objects) /\ Len(objects) \in Nat
  OBVIOUS
<1>2. CASE open = {}
  <2>1. Complete(objects) = objects
    BY <1>2 DEF Complete
  <2> QED
    BY <2>1 DEF Elements
<1>3. CASE open # {}
  <2> DEFINE m == CHOOSE i \in open : \A k \in open : i <= k
             c == SubSeq(objects, 1, m - 1)
  <2>1. m \in open
    <3>1. open \in SUBSET Nat
      BY <1>1
    <3> HIDE DEF open
    <3>2. \E i \in open : \A k \in open : i <= k
      BY <1>3, <3>1, Least
    <3> QED
      BY <3>2
  <2>2. Complete(objects) = c
    BY <1>3 DEF Complete
  <2> HIDE DEF m
  <2>3. m \in 1..Len(objects) /\ objects[m].state = "open"
    BY <1>1, <2>1
  <2>4. /\ c \in Seq(R) /\ Len(c) = m - 1 /\ DOMAIN c = 1..(m - 1)
        /\ \A i \in 1..(m - 1) : c[i] = objects[i]
    BY <1>1, <2>3
  <2>5. ASSUME NEW i \in DOMAIN objects, \A k \in 1..i : objects[k].state # "open"
        PROVE  objects[i] \in Elements(c)
    <3>1. i < m
      BY <1>1, <2>3, <2>5
    <3>2. i \in DOMAIN c /\ c[i] = objects[i]
      BY <1>1, <2>4, <3>1, <2>3
    <3> HIDE DEF c
    <3> QED
      BY <3>2 DEF Elements
  <2> QED
    BY <2>2, <2>4, <2>5
<1> QED
  BY <1>2, <1>3

LEMMA ScenariosRead ==
  ASSUME NEW R, NEW objects \in Seq(R)
  PROVE  /\ ScenariosOf(objects) \in Seq({o.scenario : o \in R})
         /\ Elements(ScenariosOf(objects)) = {o.scenario : o \in Elements(objects)}
<1> DEFINE s == [i \in DOMAIN objects |-> objects[i].scenario]
<1>1. DOMAIN objects = 1..Len(objects) /\ \A i \in DOMAIN objects : objects[i] \in R
  OBVIOUS
<1>2. s \in Seq({o.scenario : o \in R})
  BY <1>1
<1>3. Elements(s) = {o.scenario : o \in Elements(objects)}
  BY <1>1 DEF Elements
<1> QED
  BY <1>2, <1>3 DEF ScenariosOf

(* parsePartialArray, for any reply: what is whole, before the first break *)
(* that ends nowhere, is read.                                             *)
THEOREM CompleteObjectsAreRead ==
  ScenariosSpec => []CompleteScenariosKept
<1>1. ReplyInv => CompleteScenariosKept
  <2> SUFFICES ASSUME ReplyInv, stage = "check", NEW i \in DOMAIN reply.objects,
                      reply.objects[i].state \in {"clean", "dirty"},
                      \A k \in 1..i : reply.objects[k].state # "open"
               PROVE  reply.objects[i].scenario \in Range(got)
    BY DEF CompleteScenariosKept
  <2> DEFINE objects == reply.objects
             whole == Complete(objects)
             fit == {o \in Range(objects) : SanitizedParses(o)}
             part == Only(whole, fit)
  <2>1. /\ reply.array /\ Parse(reply).ok /\ got = Parse(reply).scenarios
        /\ objects \in Seq(Range(objects))
    <3>1. IsReply(reply)
      BY ScenariosAssumption DEF ReplyInv
    <3>2. reply.array
      BY DEF ReplyInv, Parse, Unparseable
    <3> QED
      BY <3>1, <3>2 DEF ReplyInv, IsReply
  <2>2. objects[i] \in fit
    BY DEF Range, SanitizedParses
  <2>3. objects[i] \in Elements(part) /\ part \in Seq(Range(objects))
    <3>1. whole \in Seq(Range(objects)) /\ objects[i] \in Elements(whole)
      BY <2>1, CompleteKeeps
    <3> HIDE DEF whole, fit
    <3> QED
      BY <2>2, <3>1, OnlyElements
  <2>4. ParsePartialArray(objects) = ScenariosOf(part)
    BY DEF ParsePartialArray
  <2>5. CASE got = ScenariosOf(objects)
    BY <2>5 DEF ScenariosOf, Range
  <2>6. CASE got = ScenariosOf(part)
    <3> HIDE DEF part
    <3> QED
      BY <2>3, <2>6 DEF ScenariosOf, Range, Elements
  <2>7. got = ScenariosOf(objects) \/ got = ScenariosOf(part)
    BY <2>1, <2>4 DEF Parse, Parsed, Unparseable
  <2> QED
    BY <2>5, <2>6, <2>7
<1> QED
  BY <1>1, ReplyAlways, PTL

-----------------------------------------------------------------------------
(* Validation.  The last of some steps is the one just done, or the last   *)
(* before it.                                                              *)
LEMMA LastStepNext ==
  ASSUME NEW s, NEW W, NEW i \in Nat \ {0}
  PROVE  LastStep(s, i + 1, W) = IF s.steps[i].words \in W THEN i ELSE LastStep(s, i, W)
<1> DEFINE before(k) == {m \in 1..(k - 1) : s.steps[m].words \in W}
           last(M) == CHOOSE m \in M : \A k \in M : k <= m
<1>1. \A k : LastStep(s, k, W) = IF before(k) = {} THEN 0 ELSE last(before(k))
  BY DEF LastStep
<1>2. 1..(i + 1 - 1) = 1..(i - 1) \cup {i} /\ \A k \in 1..(i - 1) : k <= i /\ k \in Nat
  OBVIOUS
<1>3. CASE s.steps[i].words \in W
  <2> DEFINE M == before(i + 1)
  <2>1. i \in M /\ \A k \in M : k <= i /\ k \in Nat
    BY <1>2, <1>3
  <2>2. last(M) = i
    <3> HIDE DEF before
    <3>1. \E m \in M : \A k \in M : k <= m
      BY <2>1
    <3>2. last(M) \in M /\ \A k \in M : k <= last(M)
      BY <3>1
    <3> HIDE DEF last, M
    <3>3. last(M) \in Nat /\ last(M) <= i /\ i <= last(M)
      BY <2>1, <3>2
    <3> HIDE DEF M
    <3> QED
      BY <3>3
  <2> HIDE DEF before, last
  <2> QED
    BY <1>1, <1>3, <2>1, <2>2
<1>4. CASE s.steps[i].words \notin W
  <2>1. before(i + 1) = before(i)
    BY <1>2, <1>4
  <2> HIDE DEF before, last
  <2> QED
    BY <1>1, <1>4, <2>1
<1> QED
  BY <1>3, <1>4

IsLast(s, i, W, m) ==
  /\ m \in 0..(i - 1)
  /\ m # 0 => s.steps[m].words \in W
  /\ \A k \in 1..(i - 1) : s.steps[k].words \in W => k <= m

LEMMA LastStepIs ==
  ASSUME NEW s, NEW W, NEW i \in Nat \ {0}
  PROVE  IsLast(s, i, W, LastStep(s, i, W))
<1> DEFINE Is(k) == IsLast(s, k + 1, W, LastStep(s, k + 1, W))
           C == {k \in Nat : Is(k)}
<1>1. Is(0)
  <2>1. LastStep(s, 1, W) = 0
    <3>1. {m \in 1..(1 - 1) : s.steps[m].words \in W} = {}
      OBVIOUS
    <3> QED
      BY <3>1 DEF LastStep
  <2> QED
    BY <2>1 DEF IsLast
<1>2. ASSUME NEW k \in Nat, Is(k) PROVE Is(k + 1)
  <2> DEFINE m == LastStep(s, k + 1, W)  next == LastStep(s, k + 1 + 1, W)
  <2>1. next = IF s.steps[k + 1].words \in W THEN k + 1 ELSE m
    BY LastStepNext, k + 1 \in Nat \ {0}
  <2>2. /\ m \in 0..k
        /\ m # 0 => s.steps[m].words \in W
        /\ \A l \in 1..k : s.steps[l].words \in W => l <= m
    BY <1>2, k + 1 - 1 = k DEF IsLast
  <2> HIDE DEF m, next
  <2>3. \A l \in 1..(k + 1) : l \in 1..k \/ l = k + 1
    OBVIOUS
  <2>4. k + 1 + 1 - 1 = k + 1
    OBVIOUS
  <2>5. IsLast(s, k + 1 + 1, W, next)
    <3>1. CASE s.steps[k + 1].words \in W
      BY <2>1, <2>4, <3>1 DEF IsLast
    <3>2. CASE s.steps[k + 1].words \notin W
      BY <2>1, <2>2, <2>3, <2>4, <3>2 DEF IsLast
    <3> QED
      BY <3>1, <3>2
  <2> QED
    BY <2>5 DEF next
<1>3. C = Nat
  <2> HIDE DEF Is
  <2>1. 0 \in C /\ C \subseteq Nat /\ \A k \in C : k + 1 \in C
    BY <1>1, <1>2
  <2> HIDE DEF C
  <2> QED
    BY <2>1, SetInduction
<1>4. Is(i - 1)
  <2> HIDE DEF Is
  <2> QED
    BY <1>3
<1> QED
  BY <1>4, (i - 1) + 1 = i

LEMMA NamedNext ==
  ASSUME NEW jn, NEW s, NEW i \in Nat \ {0}
  PROVE  LastNamed(jn, s, i + 1) = IF s.steps[i].words \in NavSteps
                                     THEN PageAt(jn, s.steps[i].args[1])
                                     ELSE LastNamed(jn, s, i)
BY LastStepNext DEF LastNamed

(* As long as the scenario is not astray, the page named last is the one   *)
(* the browser is on.                                                      *)
LEMMA NamedIsRight ==
  ASSUME NEW jn, NEW s, NEW i \in Nat \ {0}, ~Astray(s, i)
  PROVE  Whereabouts(jn, s, i) = LastNamed(jn, s, i)
<1> DEFINE m == LastStep(s, i, Moves)  k == LastStep(s, i, NavSteps)
<1>1. IsLast(s, i, Moves, m) /\ IsLast(s, i, NavSteps, k)
  BY LastStepIs
<1>2. NavSteps \subseteq Moves /\ <<"landing">> \notin NavSteps
  BY DEF Moves, NavSteps
<1>3. m = 0 \/ s.steps[m].words \in NavSteps \/ (s.steps[m].words = <<"landing">> /\ m = 1)
  <2>1. m \in 0..(i - 1)
    BY <1>1 DEF IsLast
  <2>2. m = 0 \/ s.steps[m].words \in NavSteps \/ (s.steps[m].words = <<"landing">> /\ ~(m > 1))
    BY DEF Astray
  <2> HIDE DEF m
  <2> QED
    BY <2>1, <2>2
<1>4. k \in 0..m
  <2> HIDE DEF m, k
  <2>1. /\ m \in 0..(i - 1) /\ k \in 0..(i - 1)
        /\ k # 0 => s.steps[k].words \in Moves
        /\ \A l \in 1..(i - 1) : s.steps[l].words \in Moves => l <= m
    BY <1>1, <1>2 DEF IsLast
  <2> QED
    BY <2>1
<1>5. CASE m # 0 /\ s.steps[m].words \in NavSteps
  <2>1. k = m
    <3> HIDE DEF m, k
    <3>1. m \in 1..(i - 1) /\ m <= k
      BY <1>1, <1>5 DEF IsLast
    <3> QED
      BY <1>4, <3>1
  <2>2. s.steps[m].words # <<"landing">>
    BY <1>2, <1>5
  <2> QED
    BY <1>5, <2>1, <2>2 DEF Whereabouts, LastNamed
<1>6. CASE m = 0 \/ (s.steps[m].words = <<"landing">> /\ m = 1)
  <2>1. k = 0
    <3> HIDE DEF m, k
    <3>1. k = 0 \/ (k = m /\ m = 1)
      BY <1>4, <1>6
    <3>2. k # 0 => s.steps[k].words \in NavSteps
      BY <1>1 DEF IsLast
    <3> QED
      BY <1>2, <1>6, <3>1, <3>2
  <2> QED
    BY <1>6, <2>1 DEF Whereabouts, LastNamed
<1> QED
  BY <1>3, <1>5, <1>6

Wrong(jn, s, k) == Refutes(LastNamed(jn, s, k), s.steps[k])

Follows(jn, s, i, at, next) ==
  /\ next.page = LastNamed(jn, s, i + 1)
  /\ next.ok <=> at.ok /\ ~Wrong(jn, s, i)

LEMMA FollowedStep ==
  ASSUME NEW jn, NEW s, s.steps \in Seq(Range(s.steps)),
         NEW i \in 1..Len(s.steps), NEW P, NEW at \in [page : P, ok : BOOLEAN],
         at.page = LastNamed(jn, s, i)
  PROVE  Follows(jn, s, i, at, Follow(jn, at, s.steps[i]))
<1> DEFINE step == s.steps[i]  next == Follow(jn, at, step)
<1> USE DEF Follows
<1>1. CASE step.words \in NavSteps
  <2>1. next = [at EXCEPT !.page = PageAt(jn, step.args[1])]
    BY <1>1 DEF Follow
  <2>2. LastNamed(jn, s, i + 1) = PageAt(jn, step.args[1])
    BY <1>1, NamedNext
  <2>3. ~Wrong(jn, s, i)
    BY <1>1 DEF Wrong, Refutes, IsTextAssertion, NavSteps
  <2> HIDE DEF next, step
  <2>4. next.page = PageAt(jn, step.args[1]) /\ next.ok = at.ok
    BY <2>1
  <2> QED
    BY <2>2, <2>3, <2>4 DEF next, step
<1>2. CASE step.words \notin NavSteps
  <2>1. LastNamed(jn, s, i + 1) = at.page
    BY <1>2, NamedNext
  <2>2. CASE Wrong(jn, s, i)
    <3>1. next = [at EXCEPT !.ok = FALSE]
      BY <1>2, <2>2 DEF Follow, Wrong, Refutes
    <3> HIDE DEF next, step
    <3>2. next.page = at.page /\ next.ok = FALSE
      BY <3>1
    <3> QED
      BY <2>1, <2>2, <3>2 DEF next, step
  <2>3. CASE ~Wrong(jn, s, i)
    <3>1. next = at
      BY <1>2, <2>3 DEF Follow, Wrong, Refutes
    <3> HIDE DEF next
    <3> QED
      BY <2>1, <2>3, <3>1 DEF next, step
  <2> QED
    BY <2>2, <2>3
<1> QED
  BY <1>1, <1>2

(* The loop over the steps finds exactly the texts that the page named     *)
(* last refutes.                                                           *)
LEMMA LoopIsRight ==
  ASSUME NEW jn, NEW s, s.steps \in Seq(Range(s.steps))
  PROVE  Consistent(s, jn) <=> \A i \in DOMAIN s.steps : ~Wrong(jn, s, i)
<1> DEFINE n == Len(s.steps)
           P == {jn.landing} \cup {PageAt(jn, s.steps[i].args[1]) : i \in 1..n}
           St == [page : P, ok : BOOLEAN]
           base == [page |-> jn.landing, ok |-> TRUE]
           follow(a, i) == Follow(jn, a, s.steps[i])
           step == [i \in Nat |-> [a \in St |-> IF i \in 1..n THEN follow(a, i) ELSE a]]
           Def(g) == g = [i \in 0..n |-> IF i = 0 THEN base ELSE follow(g[i - 1], i)]
           f == CHOOSE g : Def(g)
<1>1. n \in Nat /\ DOMAIN s.steps = 1..n
  OBVIOUS
<1>2. base \in St
  OBVIOUS
<1>3. ASSUME NEW i \in 1..n, NEW a \in St PROVE follow(a, i) \in St
  <2>1. PageAt(jn, s.steps[i].args[1]) \in P
    OBVIOUS
  <2>2. follow(a, i) \in {[a EXCEPT !.page = PageAt(jn, s.steps[i].args[1])],
                          [a EXCEPT !.ok = FALSE], a}
    BY DEF Follow
  <2> HIDE DEF P, follow
  <2> QED
    BY <2>1, <2>2
<1> HIDE DEF St
<1>4. step \in [Nat -> [St -> St]]
  <2> HIDE DEF n, follow
  <2> QED
    BY <1>3
<1>5. PICK g \in [0..n -> St] : g = [i \in 0..n |-> IF i = 0 THEN base ELSE step[i][g[i - 1]]]
  <2> HIDE DEF n, base, step
  <2>1. Computed(St, base, step, n) # {}
    BY <1>1, <1>2, <1>4, RecursiveFunction
  <2> QED
    BY <2>1 DEF Computed
<1>6. Def(g)
  <2> SUFFICES ASSUME NEW i \in 0..n
               PROVE  g[i] = IF i = 0 THEN base ELSE follow(g[i - 1], i)
    BY <1>5
  <2> HIDE DEF n, base, follow
  <2>1. CASE i = 0
    BY <1>5, <2>1
  <2>2. CASE i # 0
    <3>1. i \in Nat /\ i \in 1..n /\ g[i - 1] \in St
      BY <1>1, <2>2
    <3>2. g[i] = step[i][g[i - 1]]
      BY <1>5, <2>2
    <3> QED
      BY <2>2, <3>1, <3>2
  <2> QED
    BY <2>1, <2>2
<1>7. Def(f)
  <2> HIDE DEF Def
  <2> QED
    BY <1>6
<1>8. /\ f[0] = base
      /\ \A i \in 1..n : f[i] = follow(f[i - 1], i)
  <2> HIDE DEF f, base, follow, n
  <2>1. \A i \in 0..n : f[i] = IF i = 0 THEN base ELSE follow(f[i - 1], i)
    BY Zenon, <1>7
  <2> QED
    BY <1>1, <2>1
<1>9. Consistent(s, jn) = f[n].ok
  BY DEF Consistent
<1> DEFINE Right(i) == /\ f[i] \in St /\ f[i].page = LastNamed(jn, s, i + 1)
                       /\ f[i].ok <=> \A k \in 1..i : ~Wrong(jn, s, k)
           C == {i \in Nat : i <= n => Right(i)}
<1>10. Right(0)
  <2>1. LastNamed(jn, s, 1) = jn.landing
    <3>1. LastStep(s, 1, NavSteps) = 0
      <4>1. {m \in 1..(1 - 1) : s.steps[m].words \in NavSteps} = {}
        OBVIOUS
      <4> QED
        BY <4>1 DEF LastStep
    <3> QED
      BY <3>1 DEF LastNamed
  <2> HIDE DEF f
  <2> QED
    BY <1>2, <1>8, <2>1
<1>11. ASSUME NEW i \in 1..n, Right(i - 1) PROVE Right(i)
  <2> HIDE DEF f
  <2>1. /\ f[i - 1] \in [page : P, ok : BOOLEAN] /\ f[i - 1].page = LastNamed(jn, s, i)
        /\ f[i - 1].ok <=> \A k \in 1..(i - 1) : ~Wrong(jn, s, k)
    BY <1>11, (i - 1) + 1 = i DEF St
  <2>2. f[i] = Follow(jn, f[i - 1], s.steps[i]) /\ f[i] \in St
    BY <1>3, <1>8, <1>11
  <2>3. /\ f[i].page = LastNamed(jn, s, i + 1)
        /\ f[i].ok <=> f[i - 1].ok /\ ~Wrong(jn, s, i)
    <3> HIDE DEF P
    <3>1. Follows(jn, s, i, f[i - 1], Follow(jn, f[i - 1], s.steps[i]))
      BY <2>1, FollowedStep
    <3> QED
      BY <2>2, <3>1 DEF Follows
  <2>4. 1..i = 1..(i - 1) \cup {i}
    BY <1>1
  <2> HIDE DEF n
  <2> QED
    BY <2>1, <2>2, <2>3, <2>4
<1> HIDE DEF Right
<1>12. C = Nat
  <2>1. 0 \in C
    BY <1>10
  <2>2. ASSUME NEW i \in C PROVE i + 1 \in C
    <3> SUFFICES ASSUME i + 1 <= n PROVE Right(i + 1)
      OBVIOUS
    <3>1. Right(i) /\ i + 1 \in 1..n /\ (i + 1) - 1 = i
      BY <1>1
    <3> QED
      BY <1>11, <3>1
  <2>3. C \subseteq Nat
    OBVIOUS
  <2> HIDE DEF C
  <2> QED
    BY <2>1, <2>2, <2>3, SetInduction
<1>13. Right(n)
  BY <1>1, <1>12
<1>14. DOMAIN s.steps = 1..n
  BY <1>1
<1> HIDE DEF f, n
<1> QED
  BY <1>9, <1>13, <1>14 DEF Right

LEMMA LinesInRange ==
  ASSUME NEW lines, AreLines(lines)
  PROVE  lines \in Seq(Range(lines))
<1>1. Range(lines) = Elements(lines)
  BY DEF Range, Elements
<1> QED
  BY <1>1 DEF AreLines, IsList

LEMMA GotScenarios ==
  ASSUME ReplyInv, stage = "check"
  PROVE  \E R : got \in Seq(R) /\ \A s \in R : AreLines(s.steps)
<1> DEFINE objects == reply.objects
           O == Range(objects)
           R == {o.scenario : o \in O}
           part == Only(Complete(objects), {o \in O : SanitizedParses(o)})
<1>1. /\ reply.array /\ Parse(reply).ok /\ got = Parse(reply).scenarios
      /\ objects \in Seq(O) /\ \A o \in O : AreLines(o.scenario.steps)
  <2>1. IsReply(reply)
    BY ScenariosAssumption DEF ReplyInv
  <2>2. reply.array
    BY DEF ReplyInv, Parse, Unparseable
  <2> QED
    BY <2>1, <2>2 DEF ReplyInv, IsReply
<1> HIDE DEF O
<1>2. part \in Seq(O)
  BY <1>1, CompleteKeeps, OnlyElements
<1>3. ParsePartialArray(objects) = ScenariosOf(part)
  BY DEF ParsePartialArray, O
<1>4. got = ScenariosOf(objects) \/ got = ScenariosOf(part)
  BY <1>1, <1>3 DEF Parse, Parsed, Unparseable
<1> HIDE DEF part
<1>5. got \in Seq(R)
  <2>1. \A x : x \in Seq(O) => ScenariosOf(x) \in Seq(R)
    BY ScenariosRead
  <2> QED
    BY <1>1, <1>2, <1>4, <2>1
<1>6. \A s \in R : AreLines(s.steps)
  BY <1>1
<1> HIDE DEF R
<1> QED
  BY <1>5, <1>6

(* ValidateAgainst, for any replies and pages: it drops exactly the        *)
(* scenarios with a text that the page named last refutes, and where that  *)
(* is not the page the browser is on the scenario went astray.             *)
THEOREM OnlyRefutedAreDropped ==
  ScenariosSpec => []RefutedAreDropped
<1>1. ReplyInv => RefutedAreDropped
  <2> SUFFICES ASSUME ReplyInv, stage = "check",
                      NEW s \in Range(Validate(got))
               PROVE  /\ Kept(s) =>
                           \A i \in DOMAIN s.steps :
                             ProvenWrong(Journeys[j], s, i) => Astray(s, i)
                      /\ ~Kept(s) =>
                           \E i \in DOMAIN s.steps :
                             /\ Refutes(LastNamed(Journeys[j], s, i), s.steps[i])
                             /\ ProvenWrong(Journeys[j], s, i) \/ Astray(s, i)
    BY DEF RefutedAreDropped
  <2> DEFINE valid == Validate(got)  jn == Journeys[j]
             kept == {x \in Range(valid) : Consistent(x, jn)}
  <2>1. PICK R : got \in Seq(R) /\ \A x \in R : x.steps \in Seq(Range(x.steps))
    BY GotScenarios, LinesInRange
  <2>2. valid \in Seq(R)
    BY <2>1, OnlyElements DEF Validate
  <2>3. Range(valid) \subseteq R
    <3> HIDE DEF valid
    <3> QED
      BY <2>2 DEF Range
  <2>4. ValidateAgainst(valid, jn) = Only(valid, kept)
    BY DEF ValidateAgainst
  <2>5. Range(Only(valid, kept)) = Range(valid) \cap kept
    <3> HIDE DEF valid, kept
    <3>1. \A x : Range(x) = Elements(x)
      BY DEF Range, Elements
    <3> QED
      BY <2>2, <3>1, OnlyElements
  <2>6. s.steps \in Seq(Range(s.steps))
    BY <2>1, <2>3
  <2>7. Consistent(s, jn) <=> \A i \in DOMAIN s.steps : ~Wrong(jn, s, i)
    BY <2>6, LoopIsRight
  <2>8. Kept(s) <=> Consistent(s, jn)
    <3> HIDE DEF valid, jn
    <3> QED
      BY <2>4, <2>5 DEF Kept, valid, jn
  <2>9. \A i \in DOMAIN s.steps :
          ~Astray(s, i) => (ProvenWrong(jn, s, i) <=> Wrong(jn, s, i))
    <3> SUFFICES ASSUME NEW i \in DOMAIN s.steps, ~Astray(s, i)
                 PROVE  ProvenWrong(jn, s, i) <=> Wrong(jn, s, i)
      OBVIOUS
    <3>1. i \in Nat \ {0}
      BY <2>6
    <3>2. Whereabouts(jn, s, i) = LastNamed(jn, s, i)
      BY <3>1, NamedIsRight
    <3> QED
      BY <3>2 DEF ProvenWrong, Wrong
  <2>10. \A i : Wrong(jn, s, i) <=> Refutes(LastNamed(jn, s, i), s.steps[i])
    BY DEF Wrong
  <2> QED
    BY <2>7, <2>8, <2>9, <2>10
<1> QED
  BY <1>1, ReplyAlways, PTL

-----------------------------------------------------------------------------
(* The suite.                                                              *)

(* Whatever is rewritten, a file stays a sequence of lines.                *)
LEMMA RewrittenLine ==
  ASSUME NEW l, NEW r, r.of = "line" => AreLines(r.lines)
  PROVE  IsList(RewriteLine(l, r))
<1>1. \A x : IsList(<<x>>)
  BY ShortLists
<1>2. CASE r.of = "line"
  <2>1. RewriteLine(l, r) = IF l = r.line THEN r.lines ELSE <<l>>
    BY <1>2 DEF RewriteLine
  <2> QED
    BY <1>1, <1>2, <2>1 DEF AreLines
<1>3. CASE r.of = "pattern"
  <2>1. \E x : RewriteLine(l, r) = <<x>>
    BY <1>3 DEF RewriteLine
  <2> QED
    BY <1>1, <2>1
<1>4. CASE r.of # "line" /\ r.of # "pattern"
  <2>1. \E x : RewriteLine(l, r) = <<x>>
    BY <1>4 DEF RewriteLine
  <2> QED
    BY <1>1, <2>1
<1> QED
  BY <1>2, <1>3, <1>4

LEMMA RewrittenLines ==
  ASSUME NEW lines, IsList(lines), NEW rewrites, AreRewrites(rewrites)
  PROVE  IsList(ApplyRewrites(lines, rewrites))
<1> DEFINE L == Len(rewrites)
           next(ls, r) == FlattenSeq([i \in DOMAIN ls |-> RewriteLine(ls[i], r)])
           Def(g, n) == g = [k \in 0..n |-> IF k = 0 THEN lines
                               ELSE FlattenSeq([i \in DOMAIN g[k - 1] |->
                                      RewriteLine(g[k - 1][i], rewrites[k])])]
           f == CHOOSE g : Def(g, L)
<1>1. /\ L \in Nat /\ DOMAIN rewrites = 1..L
      /\ \A k \in 1..L : rewrites[k].of = "line" => AreLines(rewrites[k].lines)
  BY ListBasics DEF AreRewrites
<1>2. \A n \in Nat : \E g : Def(g, n)
  <2> DEFINE T == {n \in Nat : \E g : Def(g, n)}
  <2>1. 0 \in T
    <3> DEFINE g == [k \in 0..0 |-> lines]
    <3>1. Def(g, 0)
      OBVIOUS
    <3> QED
      BY <3>1
  <2>2. ASSUME NEW n \in T PROVE n + 1 \in T
    <3>1. PICK g : Def(g, n)
      OBVIOUS
    <3> DEFINE h == [k \in 0..n + 1 |-> IF k = n + 1 THEN next(g[n], rewrites[n + 1]) ELSE g[k]]
    <3>2. n \in Nat
      OBVIOUS
    <3>3. ASSUME NEW k \in 0..n + 1
          PROVE  h[k] = IF k = 0 THEN lines ELSE next(h[k - 1], rewrites[k])
      <4>1. CASE k = n + 1
        <5>1. h[k] = next(g[n], rewrites[n + 1]) /\ h[k - 1] = g[n] /\ k # 0
          <6> HIDE DEF next
          <6> QED
            BY <3>2, <4>1
        <5> HIDE DEF h, next
        <5> QED
          BY <4>1, <5>1
      <4>2. CASE k \in 0..n
        <5>1. h[k] = g[k] /\ (k # 0 => h[k - 1] = g[k - 1])
          <6> HIDE DEF next
          <6> QED
            BY <3>2, <4>2
        <5>2. g[k] = IF k = 0 THEN lines ELSE next(g[k - 1], rewrites[k])
          <6> HIDE DEF h
          <6> QED
            BY <3>1, <4>2, Zenon
        <5> HIDE DEF h, next
        <5> QED
          BY <5>1, <5>2
      <4> QED
        BY <3>2, <4>1, <4>2
    <3>4. h = [k \in 0..n + 1 |-> h[k]]
      <4> HIDE DEF next
      <4> QED
        OBVIOUS
    <3> HIDE DEF h
    <3>5. Def(h, n + 1)
      BY <3>3, <3>4, Zenon
    <3> HIDE DEF Def
    <3> QED
      BY <3>2, <3>5
  <2>3. T \subseteq Nat
    OBVIOUS
  <2>4. T = Nat
    <3> HIDE DEF T
    <3> QED
      BY <2>1, <2>2, <2>3, SetInduction
  <2> HIDE DEF Def
  <2> QED
    BY <2>4
<1>3. Def(f, L)
  <2> HIDE DEF Def
  <2> QED
    BY <1>1, <1>2
<1>4. f[0] = lines /\ \A k \in 1..L : f[k] = next(f[k - 1], rewrites[k])
  <2> HIDE DEF f
  <2>1. \A k \in 0..L : f[k] = IF k = 0 THEN lines ELSE next(f[k - 1], rewrites[k])
    BY <1>3, Zenon
  <2>2. 0 \in 0..L /\ \A k \in 1..L : k \in 0..L /\ k # 0
    BY <1>1
  <2> HIDE DEF L, next
  <2> QED
    BY <2>1, <2>2
<1>5. ApplyRewrites(lines, rewrites) = f[L]
  BY DEF ApplyRewrites
<1> HIDE DEF f
<1>6. ASSUME NEW ls, IsList(ls), NEW r, r.of = "line" => AreLines(r.lines)
      PROVE  IsList(next(ls, r))
  <2> DEFINE parts == [i \in DOMAIN ls |-> RewriteLine(ls[i], r)]
  <2>1. Len(ls) \in Nat /\ DOMAIN ls = 1..Len(ls)
    BY <1>6, ListBasics
  <2>2. DOMAIN parts = 1..Len(ls) /\ parts = [i \in 1..Len(ls) |-> parts[i]]
    BY <2>1
  <2>3. \A i \in DOMAIN parts : IsList(parts[i])
    BY <1>6, RewrittenLine
  <2> HIDE DEF parts
  <2>4. IsListOfLists(parts)
    BY <2>1, <2>2, <2>3, ListMade DEF IsListOfLists
  <2>5. IsList(FlattenSeq(parts))
    BY <2>4, FlattenList
  <2> QED
    BY <2>5 DEF parts
<1> DEFINE T == {n \in Nat : n <= L => IsList(f[n])}
<1>7. T = Nat
  <2> HIDE DEF next, L
  <2>1. 0 \in T
    BY <1>4
  <2>2. ASSUME NEW n \in T PROVE n + 1 \in T
    <3> SUFFICES ASSUME n + 1 <= L PROVE IsList(f[n + 1])
      OBVIOUS
    <3>1. IsList(f[n]) /\ n + 1 \in 1..L /\ (n + 1) - 1 = n
      BY <1>1
    <3>2. /\ f[n + 1] = next(f[n], rewrites[n + 1])
          /\ rewrites[n + 1].of = "line" => AreLines(rewrites[n + 1].lines)
      BY <1>1, <1>4, <3>1
    <3> QED
      BY <1>6, <3>1, <3>2
  <2>3. T \subseteq Nat
    OBVIOUS
  <2> HIDE DEF T
  <2> QED
    BY <2>1, <2>2, <2>3, SetInduction
<1> QED
  <2> HIDE DEF L
  <2> QED
    BY <1>1, <1>5, <1>7

(* What the frozen list takes, and has no empty value, the step            *)
(* definitions run.                                                        *)
LEMMA RegisteredRun ==
  ASSUME NEW t, MatchesRegisteredPattern(t), \A i \in DOMAIN t.args : t.args[i] # {}
  PROVE  Runs(t, StepDefs)
<1>1. Range(StepDefs) = Elements(StepDefs)
  BY DEF Range, Elements
<1>2. PICK p \in RegisteredPatterns : Matches(p, t)
  BY DEF MatchesRegisteredPattern
<1>3. PICK q \in Elements(StepDefs) :
        q.is = "def" /\ q.words = p.words /\ Len(q.args) = Len(p.args)
  BY StepDefsAssumption
<1>4. Matches(q, t)
  BY <1>2, <1>3 DEF Matches
<1> QED
  BY <1>1, <1>3, <1>4 DEF Runs

(* The suite: two features, then the step definitions of each origin.      *)
IsFile(f) == f = File(f.path, f.lines)
IsBatch(suite) ==
  \E n \in 2..4 :
    /\ DOMAIN suite = 1..n
    /\ \A i \in 1..n : IsFile(suite[i])
    /\ \A i \in 1..2 : IsFeature(suite[i]) /\ ~IsSteps(suite[i])
    /\ \A i \in 3..n : suite[i] = StepFile

LEMMA WhichFiles ==
  ASSUME NEW suite, NEW n \in 2..4, DOMAIN suite = 1..n,
         \A i \in 1..2 : IsFeature(suite[i]) /\ ~IsSteps(suite[i]),
         \A i \in 3..n : IsSteps(suite[i]) /\ ~IsFeature(suite[i])
  PROVE  /\ {i \in DOMAIN suite : IsFeature(suite[i])} = 1..2
         /\ {i \in DOMAIN suite : IsSteps(suite[i])} = 3..n
         /\ n > 2 => (CHOOSE i \in 3..n : \A k \in 3..n : k <= i) = n
         /\ n = 2 => DefsOf(suite) = StepDefs
         /\ n > 2 => DefsOf(suite) = suite[n].lines
<1>1. \A i \in 1..n : i \in 1..2 \/ i \in 3..n
  OBVIOUS
<1>2. /\ {i \in DOMAIN suite : IsFeature(suite[i])} = 1..2
      /\ {i \in DOMAIN suite : IsSteps(suite[i])} = 3..n
  BY <1>1
<1>3. ASSUME n > 2 PROVE (CHOOSE i \in 3..n : \A k \in 3..n : k <= i) = n
  <2> DEFINE m == CHOOSE i \in 3..n : \A k \in 3..n : k <= i
  <2>1. n \in 3..n /\ \A k \in 3..n : k <= n
    BY <1>3
  <2>2. m \in 3..n /\ \A k \in 3..n : k <= m
    BY <2>1
  <2> HIDE DEF m
  <2> QED
    BY <2>1, <2>2 DEF m
<1>4. n = 2 => 3..n = {}
  OBVIOUS
<1>5. n > 2 => 3..n # {}
  BY <1>1
<1> QED
  BY <1>2, <1>3, <1>4, <1>5 DEF DefsOf

LEMMA StepFileIs ==
  /\ IsFile(StepFile) /\ IsSteps(StepFile) /\ ~IsFeature(StepFile)
  /\ StepFile.lines = StepDefs
BY DEF StepFile, File, IsFile, IsSteps, IsFeature

(* The batch before it is humanized.                                       *)
LEMMA BatchIs ==
  ASSUME NEW suite, NEW n \in 2..4, DOMAIN suite = 1..n,
         \A i \in 1..2 : IsFeature(suite[i]) /\ ~IsSteps(suite[i]),
         \A i \in 3..n : suite[i] = StepFile
  PROVE  /\ GroupBDDPair(suite).pair <=> n > 2
         /\ n > 2 => GroupBDDPair(suite).features = 1..2 /\ GroupBDDPair(suite).steps = n
         /\ DefsOf(suite) = StepDefs
<1>1. \A i \in 3..n : IsSteps(suite[i]) /\ ~IsFeature(suite[i])
  BY StepFileIs
<1>2. /\ {i \in DOMAIN suite : IsFeature(suite[i])} = 1..2
      /\ {i \in DOMAIN suite : IsSteps(suite[i])} = 3..n
      /\ n > 2 => (CHOOSE i \in 3..n : \A k \in 3..n : k <= i) = n
      /\ n = 2 => DefsOf(suite) = StepDefs
      /\ n > 2 => DefsOf(suite) = suite[n].lines
  BY <1>1, WhichFiles
<1>3. 1..2 # {} /\ (3..n # {} <=> n > 2)
  <2>1. 1 \in 1..2 /\ (n > 2 => n \in 3..n) /\ (n = 2 => 3..n = {})
    OBVIOUS
  <2> QED
    BY <2>1
<1>4. DefsOf(suite) = StepDefs
  <2>1. CASE n = 2
    BY <1>2, <2>1
  <2>2. CASE n > 2
    <3>1. n \in 3..n
      BY <2>2
    <3> QED
      BY <1>2, <2>2, <3>1, StepFileIs
  <2> QED
    BY <2>1, <2>2
<1> QED
  BY <1>2, <1>3, <1>4 DEF GroupBDDPair

(* What validation of the pair lets through can run.                       *)
LEMMA SafeAgainstRuns ==
  ASSUME NEW lines, NEW defs, IsList(defs),
         IsGherkinSafeAgainst(lines, ExtractStepPatterns(defs))
  PROVE  \A l \in Range(lines) : l.is = "step" => Runs(l, defs)
<1> DEFINE patterns == ExtractStepPatterns(defs)
<1>1. \A q : Range(q) = Elements(q)
  BY DEF Range, Elements
<1>2. Range(patterns) = {p \in Range(defs) : p.is = "def"}
  <2>1. Elements(patterns) = Elements(defs) \cap {p \in Range(defs) : p.is = "def"}
    BY <1>1, ListOnly DEF ExtractStepPatterns
  <2> HIDE DEF patterns
  <2> QED
    BY <1>1, <2>1
<1> HIDE DEF patterns
<1>3. \A l \in Range(lines) : l.is = "step" => \E p \in Range(patterns) : Matches(p, l)
  BY DEF IsGherkinSafeAgainst, patterns
<1> QED
  BY <1>2, <1>3 DEF Runs

(* The pair: its features run on the definitions that are written.         *)
LEMMA PairRuns ==
  ASSUME IsBatch(batch), batch = plain, HumanizePair
  PROVE  StepsStayDefined'
<1>1. PICK n \in 2..4 :
        /\ DOMAIN batch = 1..n /\ \A i \in 1..n : IsFile(batch[i])
        /\ \A i \in 1..2 : IsFeature(batch[i]) /\ ~IsSteps(batch[i])
        /\ \A i \in 3..n : batch[i] = StepFile
  BY DEF IsBatch
<1>2. /\ n > 2 /\ GroupBDDPair(batch).features = 1..2 /\ GroupBDDPair(batch).steps = n
      /\ DefsOf(batch) = StepDefs
  BY <1>1, BatchIs DEF HumanizePair
<1>3. n \in 3..n /\ 1..n = 1..2 \cup 3..n /\ 1..2 \cap 3..n = {}
  BY <1>2
<1> DEFINE old == [i \in 1..2 |-> batch[i].lines]
<1>4. PICK answer \in Answers :
        LET new == HumanizeSuite(old, StepDefs, answer) IN
        batch' = [i \in 1..n |->
                    IF i = n THEN [batch[i] EXCEPT !.lines = new.steps]
                    ELSE IF i \in 1..2 THEN [batch[i] EXCEPT !.lines = new.features[i]]
                    ELSE batch[i]]
  <2>1. batch[n].lines = StepDefs
    BY <1>1, <1>3, StepFileIs
  <2> DEFINE p == GroupBDDPair(batch)
  <2>2. PICK answer \in Answers :
          LET new == HumanizeSuite([i \in p.features |-> batch[i].lines],
                                   batch[p.steps].lines, answer) IN
          batch' = [i \in DOMAIN batch |->
                      IF i = p.steps THEN [batch[i] EXCEPT !.lines = new.steps]
                      ELSE IF i \in p.features THEN [batch[i] EXCEPT !.lines = new.features[i]]
                      ELSE batch[i]]
    BY DEF HumanizePair
  <2>3. /\ [i \in p.features |-> batch[i].lines] = old
        /\ batch[p.steps].lines = StepDefs
    BY <1>2, <2>1
  <2>4. p.features = 1..2 /\ p.steps = n /\ DOMAIN batch = 1..n
    BY <1>1, <1>2
  <2> HIDE DEF p, old
  <2> QED
    BY <2>2, <2>3, <2>4
<1> DEFINE new == HumanizeSuite(old, StepDefs, answer)
           steps == ApplyRewrites(StepDefs, answer.patterns)
           features == [i \in 1..2 |-> ApplyRewrites(old[i], answer.features)]
<1>5. /\ \A i \in 1..n : /\ batch[i] = File(batch[i].path, batch[i].lines)
                         /\ batch'[i].path = batch[i].path
      /\ DOMAIN batch' = 1..n
      /\ batch'[n].lines = new.steps
      /\ \A i \in 1..2 : batch'[i].lines = new.features[i]
      /\ \A i \in 3..n : i # n => batch'[i].lines = StepDefs
  <2> HIDE DEF new
  <2>1. \A i \in 1..n : batch[i] = [path |-> batch[i].path, lines |-> batch[i].lines]
    BY <1>1 DEF IsFile, File
  <2>2. DOMAIN batch' = 1..n /\ batch'[n] = [batch[n] EXCEPT !.lines = new.steps]
    BY <1>3, <1>4 DEF new
  <2>3. \A i \in 1..2 : batch'[i] = [batch[i] EXCEPT !.lines = new.features[i]]
    BY <1>2, <1>3, <1>4 DEF new
  <2>4. \A i \in 3..n : i # n => batch'[i] = StepFile
    BY <1>1, <1>3, <1>4 DEF new
  <2>5. /\ batch'[n].path = batch[n].path /\ batch'[n].lines = new.steps
    BY <1>3, <2>1, <2>2
  <2>6. \A i \in 1..2 : batch'[i].path = batch[i].path /\ batch'[i].lines = new.features[i]
    BY <1>3, <2>1, <2>3
  <2>7. \A i \in 3..n : i # n =>
          batch'[i].path = batch[i].path /\ batch'[i].lines = StepDefs
    BY <1>1, <2>4, StepFileIs
  <2>8. \A i \in 1..n : batch'[i].path = batch[i].path
    BY <1>3, <2>5, <2>6, <2>7
  <2> QED
    BY <2>1, <2>2, <2>5, <2>6, <2>7, <2>8 DEF File
<1>6. DefsOf(batch') = new.steps /\ DefsOf(plain') = StepDefs
  <2> HIDE DEF new
  <2>1. /\ \A i \in 1..2 : IsFeature(batch'[i]) /\ ~IsSteps(batch'[i])
        /\ \A i \in 3..n : IsSteps(batch'[i]) /\ ~IsFeature(batch'[i])
    BY <1>1, <1>3, <1>5, StepFileIs DEF IsFeature, IsSteps
  <2>2. DefsOf(batch') = batch'[n].lines
    BY <1>2, <1>5, <2>1, WhichFiles
  <2>3. plain' = batch
    BY DEF HumanizePair
  <2> QED
    BY <1>2, <1>5, <2>2, <2>3
<1>7. \/ /\ new.steps = StepDefs /\ new.features = old
      \/ /\ new.steps = steps /\ new.features = features
         /\ ValidateSuite(StepDefs, steps, features, answer.patterns)
  BY DEF HumanizeSuite
<1> HIDE DEF new, steps, features
<1>8. /\ \A i \in RunnableFeatures(plain') : /\ i \in 1..2 /\ batch[i] = plain'[i]
                                              /\ \A l \in StepsOf(batch[i]) : Runs(l, StepDefs)
  <2>1. plain' = batch
    BY DEF HumanizePair
  <2>2. Features(batch) \subseteq 1..2
    BY <1>1, <1>3, StepFileIs DEF Features
  <2> QED
    BY <1>2, <2>1, <2>2 DEF RunnableFeatures
<1>9. CASE new.steps = StepDefs /\ new.features = old
  <2>1. \A i \in 1..2 : StepsOf(batch'[i]) = StepsOf(batch[i])
    BY <1>3, <1>5, <1>9 DEF StepsOf
  <2>2. \A i \in RunnableFeatures(plain') : \A l \in StepsOf(batch'[i]) : Runs(l, DefsOf(batch'))
    BY <1>6, <1>8, <1>9, <2>1
  <2> QED
    BY <1>6, <1>9, <2>2 DEF StepsStayDefined
<1>10. CASE /\ new.steps = steps /\ new.features = features
            /\ ValidateSuite(StepDefs, steps, features, answer.patterns)
  <2>1. IsList(steps)
    BY StepDefsAssumption, ScenariosAssumption, RewrittenLines DEF steps, AreLines
  <2>2. \A i \in 1..2 : \A l \in StepsOf(batch'[i]) : Runs(l, steps)
    <3> TAKE i \in 1..2
    <3>1. features[i] \in Range(features) /\ batch'[i].lines = features[i]
      BY <1>5, <1>10 DEF features, Range
    <3>2. IsGherkinSafeAgainst(features[i], ExtractStepPatterns(steps))
      BY <1>10, <3>1 DEF ValidateSuite
    <3> QED
      BY <2>1, <3>1, <3>2, SafeAgainstRuns DEF StepsOf
  <2>3. HandlerHashes(steps) = HandlerHashes(StepDefs)
    BY <1>10 DEF ValidateSuite
  <2> QED
    BY <1>6, <1>8, <1>10, <2>2, <2>3 DEF StepsStayDefined
<1> QED
  BY <1>7, <1>9, <1>10

(* Files of no pair: there are no step definitions among them.             *)
LEMMA EachRuns ==
  ASSUME IsBatch(batch), batch = plain, HumanizeEach
  PROVE  StepsStayDefined'
<1>1. PICK n \in 2..4 :
        /\ DOMAIN batch = 1..n /\ \A i \in 1..n : IsFile(batch[i])
        /\ \A i \in 1..2 : IsFeature(batch[i]) /\ ~IsSteps(batch[i])
        /\ \A i \in 3..n : batch[i] = StepFile
  BY DEF IsBatch
<1>2. n = 2 /\ DefsOf(batch) = StepDefs
  <2>1. ~GroupBDDPair(batch).pair
    BY DEF HumanizeEach
  <2>2. ~(n > 2) /\ DefsOf(batch) = StepDefs
    BY <1>1, <2>1, BatchIs
  <2> QED
    BY <2>2
<1>3. PICK answers \in [1..2 -> {a.features : a \in Answers}] :
        batch' = [i \in 1..2 |->
                    [batch[i] EXCEPT !.lines = Humanize("gherkin", @, answers[i])]]
  <2>1. DOMAIN batch = 1..2
    BY <1>1, <1>2
  <2>2. PICK answers \in [DOMAIN batch -> {a.features : a \in Answers}] :
          batch' = [i \in DOMAIN batch |->
                      [batch[i] EXCEPT !.lines = Humanize("gherkin", @, answers[i])]]
    BY DEF HumanizeEach
  <2> QED
    BY <2>1, <2>2
<1>4. /\ DOMAIN batch' = 1..2 /\ plain' = batch
      /\ \A i \in 1..2 : /\ batch'[i].path = batch[i].path
                         /\ batch'[i].lines = Humanize("gherkin", batch[i].lines, answers[i])
  <2>1. \A i \in 1..2 : batch[i] = [path |-> batch[i].path, lines |-> batch[i].lines]
    BY <1>1, <1>2 DEF IsFile, File
  <2> QED
    BY <1>3, <2>1 DEF HumanizeEach
<1>5. DefsOf(batch') = StepDefs
  <2>1. \A i \in 1..2 : IsFeature(batch'[i]) /\ ~IsSteps(batch'[i])
    BY <1>1, <1>4 DEF IsFeature, IsSteps
  <2>2. 3..2 = {}
    OBVIOUS
  <2> QED
    BY <1>4, <2>1, <2>2, WhichFiles
<1>6. ASSUME NEW i \in 1..2, \A l \in StepsOf(batch[i]) : Runs(l, StepDefs),
             NEW l \in StepsOf(batch'[i])
      PROVE  Runs(l, StepDefs) \/ Unguarded(l, batch'[i])
  <2> DEFINE lines == batch[i].lines  after == ApplyRewrites(lines, answers[i])
  <2>1. CASE batch'[i].lines = lines
    BY <1>6, <2>1 DEF StepsOf
  <2>2. CASE batch'[i].lines # lines
    <3>1. /\ batch'[i].lines = after
          /\ LooksLikeFeatureFile(after) => IsGherkinSafe(after)
      BY <1>4, <2>2 DEF Humanize
    <3>2. l \in Range(batch'[i].lines) /\ l.is = "step"
      BY <1>6 DEF StepsOf
    <3> HIDE DEF lines, after
    <3>3. CASE LooksLikeFeatureFile(after) /\ \A k \in DOMAIN l.args : l.args[k] # {}
      <4>1. MatchesRegisteredPattern(l)
        BY <3>1, <3>2, <3>3 DEF IsGherkinSafe
      <4> QED
        BY <3>3, <4>1, RegisteredRun
    <3> QED
      BY <3>1, <3>3 DEF Unguarded
  <2> QED
    BY <2>1, <2>2
<1>7. ~GroupBDDPair(plain').pair
  BY <1>4 DEF HumanizeEach
<1>8. ASSUME NEW i \in RunnableFeatures(plain')
      PROVE  i \in 1..2 /\ \A l \in StepsOf(batch[i]) : Runs(l, StepDefs)
  BY <1>1, <1>2, <1>4 DEF RunnableFeatures, Features
<1> QED
  BY <1>2, <1>4, <1>5, <1>6, <1>7, <1>8 DEF StepsStayDefined

-----------------------------------------------------------------------------
(* The batch is as it was written until it is humanized.                   *)
SuiteInv ==
  /\ stage = "pair" => IsBatch(batch) /\ batch = plain
  /\ stage = "done" => StepsStayDefined

LEMMA FeatureIs ==
  ASSUME NEW name, NEW lines
  PROVE  LET f == Feature(name, lines) IN IsFile(f) /\ IsFeature(f) /\ ~IsSteps(f)
<1> DEFINE all == <<Line("feature", "", <<name>>, << >>, << >>)>> \o lines
           f == Feature(name, lines)
<1>1. f = File(<<"features", name>>, all)
  BY DEF Feature
<1> HIDE DEF all, f
<1> QED
  BY <1>1 DEF IsFile, File, IsFeature, IsSteps, f

LEMMA Emitted ==
  ASSUME Emit
  PROVE  IsBatch(batch') /\ batch' = plain'
<1> DEFINE lines == FlattenSeq([i \in DOMAIN Dedup(composed) |-> Dedup(composed)[i].steps])
           happy == Feature("happy", Happy)  extra == Feature("extra", lines)
           pair == <<happy, extra>>
<1>1. /\ IsFile(happy) /\ IsFeature(happy) /\ ~IsSteps(happy)
      /\ IsFile(extra) /\ IsFeature(extra) /\ ~IsSteps(extra)
  <2> HIDE DEF lines
  <2> QED
    BY FeatureIs
<1>2. PICK origins \in 0..2 : batch' = pair \o [i \in 1..origins |-> StepFile]
  BY DEF Emit
<1> HIDE DEF happy, extra, lines
<1> DEFINE defs == [i \in 1..origins |-> StepFile]  n == 2 + origins
<1>6. /\ IsList(pair) /\ Len(pair) = 2 /\ pair[1] = happy /\ pair[2] = extra
  <2>1. pair \in Seq({happy, extra}) /\ Len(pair) = 2 /\ pair[1] = happy /\ pair[2] = extra
    OBVIOUS
  <2> HIDE DEF pair
  <2> QED
    BY <2>1, ListOf
<1>7. IsList(defs) /\ Len(defs) = origins /\ \A i \in 1..origins : defs[i] = StepFile
  <2>1. origins \in Nat /\ DOMAIN defs = 1..origins /\ defs = [i \in 1..origins |-> defs[i]]
        /\ \A i \in 1..origins : defs[i] = StepFile
    OBVIOUS
  <2> HIDE DEF defs
  <2> QED
    BY <2>1, ListMade
<1> HIDE DEF pair, defs
<1>8. /\ IsList(pair \o defs) /\ Len(pair \o defs) = n
      /\ \A i \in 1..2 : (pair \o defs)[i] = pair[i]
      /\ \A i \in 1..origins : (pair \o defs)[2 + i] = defs[i]
  <2>1. IsList(pair) /\ IsList(defs)
    BY <1>6, <1>7
  <2>2. /\ IsList(pair \o defs) /\ Len(pair \o defs) = Len(pair) + Len(defs)
        /\ \A i \in 1..Len(pair) : (pair \o defs)[i] = pair[i]
        /\ \A i \in 1..Len(defs) : (pair \o defs)[Len(pair) + i] = defs[i]
    BY <2>1, ListConcat
  <2> QED
    BY <1>6, <1>7, <2>2
<1>9. batch' = pair \o defs
  BY <1>2 DEF defs
<1>10. DOMAIN batch' = 1..n
  BY <1>8, <1>9, ListBasics
<1>11. batch'[1] = happy /\ batch'[2] = extra
  BY <1>6, <1>8, <1>9
<1>12. ASSUME NEW i \in 3..n PROVE batch'[i] = StepFile
  <2>1. i - 2 \in 1..origins /\ 2 + (i - 2) = i
    OBVIOUS
  <2> QED
    BY <1>7, <1>8, <1>9, <2>1
<1>13. \A i \in 1..2 : IsFile(batch'[i]) /\ IsFeature(batch'[i]) /\ ~IsSteps(batch'[i])
  <2>1. \A i \in 1..2 : i = 1 \/ i = 2
    OBVIOUS
  <2> QED
    BY <1>1, <1>11, <2>1
<1>14. n \in 2..4 /\ \A i \in 1..n : IsFile(batch'[i])
  <2>1. \A i \in 1..n : i \in 1..2 \/ i \in 3..n
    OBVIOUS
  <2> QED
    BY <1>12, <1>13, <2>1, StepFileIs
<1> HIDE DEF n
<1>15. IsBatch(batch')
  BY <1>10, <1>12, <1>13, <1>14 DEF IsBatch
<1> QED
  BY <1>15 DEF Emit

LEMMA SuiteStep ==
  ASSUME SuiteInv, [ScenariosNext]_scenariosVars
  PROVE  SuiteInv'
<1>1. CASE Propose \/ ProposeFails
  <2>1. stage' \in {"ask", "check", "emit"}
    BY <1>1 DEF Propose, ProposeFails, NextJourney
  <2> QED
    BY <2>1 DEF SuiteInv
<1>2. CASE Check
  <2>1. stage' \in {"ask", "emit"}
    BY <1>2 DEF Check, NextJourney
  <2> QED
    BY <2>1 DEF SuiteInv
<1>3. CASE Emit
  <2>1. stage' = "pair"
    BY <1>3 DEF Emit
  <2> QED
    BY <1>3, <2>1, Emitted DEF SuiteInv
<1>4. CASE HumanizePair
  <2>1. stage' = "done" /\ stage = "pair"
    BY <1>4 DEF HumanizePair
  <2> QED
    BY <1>4, <2>1, PairRuns DEF SuiteInv
<1>5. CASE HumanizeEach
  <2>1. stage' = "done" /\ stage = "pair"
    BY <1>5 DEF HumanizeEach
  <2> QED
    BY <1>5, <2>1, EachRuns DEF SuiteInv
<1>6. CASE HumanizeFails
  <2>1. stage' = "done" /\ stage = "pair" /\ batch' = batch /\ plain' = plain
    BY <1>6 DEF HumanizeFails
  <2>2. batch' = plain'
    BY <2>1 DEF SuiteInv
  <2>3. StepsStayDefined'
    BY <2>2 DEF StepsStayDefined, RunnableFeatures
  <2> QED
    BY <2>1, <2>3 DEF SuiteInv
<1>7. CASE UNCHANGED scenariosVars
  BY <1>7 DEF scenariosVars, SuiteInv, StepsStayDefined
<1> QED
  BY <1>1, <1>2, <1>3, <1>4, <1>5, <1>6, <1>7 DEF ScenariosNext

(* HumanizeSuite and Humanize, whatever a model answers and however the    *)
(* batch is divided: of a feature that could run every step left has a     *)
(* definition, or the guard of a lone file does not look at it; handlers   *)
(* are as they were.                                                       *)
THEOREM HumanizedSuiteRuns ==
  ScenariosSpec => []StepsStayDefined
<1>1. ScenariosInit => SuiteInv
  BY DEF ScenariosInit, SuiteInv
<1>2. SuiteInv /\ [ScenariosNext]_scenariosVars => SuiteInv'
  BY SuiteStep
<1>3. SuiteInv => StepsStayDefined
  BY DEF SuiteInv, StepsStayDefined
<1> QED
  BY <1>1, <1>2, <1>3, PTL DEF ScenariosSpec
=============================================================================
