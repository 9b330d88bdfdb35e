---------------------------- MODULE OpenPRProofs ----------------------------
(***************************************************************************)
(* Proofs about OpenPR for any number of invocations and suites, any mix   *)
(* of tokens and paths, and any bounds on faults and people's actions.     *)
(***************************************************************************)
EXTENDS OpenPR, TLAPS

(* The steps an invocation reaches only after its files became the head.   *)
Announcing == {"precheck", "edit", "create", "fallback", "fallbackEdit",
               "shPrecheck", "shEdit", "shCreate"}

(* An invocation that is about to describe its files has pushed them, and  *)
(* what is described already was pushed.                                   *)
PushedFirst == \A r \in Runs : pc[r] \in Announcing => r \in pushed

(* GitHub: an open pull request has a head.                                *)
OpenHasHead == Open # {} => branch # NoBranch

USE DEF Goto, local, github, bounds, ghost, Idle, Calls, ShCalls

-----------------------------------------------------------------------------
(* What the actions do to the list of pull requests.                       *)

LEMMA TitledStaysTyped ==
  ASSUME NEW s \in Seq(PR), NEW r \in Runs, NEW n
  PROVE  /\ [s EXCEPT ![n].title = r] \in Seq(PR)
         /\ DOMAIN [s EXCEPT ![n].title = r] = DOMAIN s
         /\ \A m \in DOMAIN s :
              /\ [s EXCEPT ![n].title = r][m].title \in {r, s[m].title}
              /\ [s EXCEPT ![n].title = r][m].state = s[m].state
<1> DEFINE t == [s EXCEPT ![n].title = r]
<1>1. s \in [1..Len(s) -> PR] /\ Len(s) \in Nat /\ DOMAIN s = 1..Len(s)
  OBVIOUS
<1>2. \A m \in 1..Len(s) :
        t[m] \in PR /\ t[m].title \in {r, s[m].title} /\ t[m].state = s[m].state
  BY <1>1 DEF PR
<1>3. t \in [1..Len(s) -> PR]
  BY <1>1, <1>2
<1> QED
  BY <1>1, <1>2, <1>3

Decided == {"closed", "merged"}

LEMMA ClosedStaysTyped ==
  ASSUME NEW s \in Seq(PR), NEW n, NEW how \in Decided
  PROVE  /\ [s EXCEPT ![n].state = how] \in Seq(PR)
         /\ DOMAIN [s EXCEPT ![n].state = how] = DOMAIN s
         /\ \A m \in DOMAIN s : [s EXCEPT ![n].state = how][m].title = s[m].title
<1> DEFINE t == [s EXCEPT ![n].state = how]
<1>1. s \in [1..Len(s) -> PR] /\ Len(s) \in Nat /\ DOMAIN s = 1..Len(s)
  OBVIOUS
<1>2. \A m \in 1..Len(s) : t[m] \in PR /\ t[m].title = s[m].title
  BY <1>1 DEF PR, Decided
<1>3. t \in [1..Len(s) -> PR]
  BY <1>1, <1>2
<1> QED
  BY <1>1, <1>2, <1>3


LEMMA SetTitleKeeps ==
  ASSUME prs \in Seq(PR), NEW r \in Runs, NEW n, SetTitle(r, n)
  PROVE  /\ prs' \in Seq(PR) /\ DOMAIN prs' = DOMAIN prs /\ Open' = Open
         /\ \A m \in DOMAIN prs : prs'[m].title \in {r, prs[m].title}
BY TitledStaysTyped DEF SetTitle, Open

LEMMA CloseKeeps ==
  ASSUME prs \in Seq(PR), NEW n, NEW how \in Decided, Close(n, how)
  PROVE  /\ prs' \in Seq(PR) /\ DOMAIN prs' = DOMAIN prs
         /\ \A m \in DOMAIN prs : prs'[m].title = prs[m].title
BY ClosedStaysTyped DEF Close

LEMMA ClosingAllKeeps ==
  ASSUME prs \in Seq(PR),
         prs' = [n \in DOMAIN prs |-> IF n \in Open
                   THEN [prs[n] EXCEPT !.state = "closed"] ELSE prs[n]]
  PROVE  /\ prs' \in Seq(PR) /\ DOMAIN prs' = DOMAIN prs
         /\ \A m \in DOMAIN prs : /\ prs'[m].title = prs[m].title
                                  /\ prs'[m].state # "open"
<1>1. prs \in [1..Len(prs) -> PR] /\ Len(prs) \in Nat
      /\ DOMAIN prs = 1..Len(prs)
  OBVIOUS
<1>2. ASSUME NEW m \in 1..Len(prs)
      PROVE  /\ prs'[m] \in PR /\ prs'[m].title = prs[m].title
             /\ prs'[m].state # "open"
  <2> DEFINE p == prs[m]
             c == [p EXCEPT !.state = "closed"]
  <2>1. p \in PR
    BY <1>1
  <2>2. c \in PR /\ c.title = p.title /\ c.state = "closed"
    BY <2>1 DEF PR
  <2>3. prs'[m] = IF p.state = "open" THEN c ELSE p
    BY <1>1 DEF Open
  <2> QED
    BY <2>1, <2>2, <2>3
<1>3. DOMAIN prs' = DOMAIN prs /\ prs' = [m \in 1..Len(prs) |-> prs'[m]]
  BY <1>1
<1>4. prs' \in [1..Len(prs) -> PR]
  BY <1>2, <1>3
<1>5. prs' \in Seq(PR)
  BY <1>1, <1>4
<1> QED
  BY <1>1, <1>2, <1>3, <1>5

LEMMA OpenNewKeeps ==
  ASSUME prs \in Seq(PR), NEW r \in Runs, OpenNew(r)
  PROVE  /\ prs' \in Seq(PR)
         /\ \A m \in DOMAIN prs' : \/ m \in DOMAIN prs /\ prs'[m] = prs[m]
                                   \/ prs'[m].title = r
<1> DEFINE new == [state |-> "open", title |-> r]
<1>1. new \in PR
  BY DEF PR
<1>2. prs' = Append(prs, new)
  BY DEF OpenNew
<1> QED
  BY <1>1, <1>2

-----------------------------------------------------------------------------
(* Types.  The head of the branch keeps its fields only because a merge    *)
(* finds an open pull request, and those have a head.                      *)

LEMMA CommitTyped == ASSUME TypeOK, NEW r \in Runs
                     PROVE  Commit(r) \in Heads /\ Commit(r) # NoBranch
BY SharesAssumption DEF TypeOK, Commit, Heads, NoBranch, SendsWorkflows

(* The calls that change nothing on GitHub.                                *)
LEMMA QuietStep ==
  ASSUME TypeOK, PushedFirst, NEW r \in Runs,
         \/ Start(r) \/ GetRef(r) \/ BuildCommit(r)
         \/ Precheck(r) \/ Fallback(r) \/ ShPrecheck(r)
         \/ Clone(r) \/ CommitFiles(r) \/ CallFails(r) \/ Crash(r)
  PROVE  TypeOK' /\ PushedFirst' /\ UNCHANGED <<branch, prs, pushed>>
<1> USE SharesAssumption DEF TypeOK, Fault
<1>1. UNCHANGED <<base, branch, prs, pushed>>
  BY DEF Start, GetRef, BuildCommit, Precheck, Fallback, ShPrecheck, ListPRs,
         Clone, CommitFiles, CallFails, Crash
<1>2. pc' \in [Runs -> Idle \cup Calls \cup ShCalls]
  <2>1. \E s \in Idle \cup Calls \cup ShCalls : pc' = [pc EXCEPT ![r] = s]
    <3>1. CASE Start(r) \/ GetRef(r) \/ BuildCommit(r)
      BY <3>1 DEF Start, GetRef, BuildCommit
    <3>2. CASE Precheck(r) \/ Fallback(r) \/ ShPrecheck(r)
      BY <3>2 DEF Precheck, Fallback, ShPrecheck, ListPRs
    <3>3. CASE Clone(r) \/ CommitFiles(r) \/ CallFails(r) \/ Crash(r)
      BY <3>3 DEF Clone, CommitFiles, CallFails, Crash, AfterError
    <3> QED
      BY <3>1, <3>2, <3>3
  <2> QED
    BY <2>1
<1>3. target' \in [Runs -> Nat]
  <2>1. target' = target \/ \E n \in Open : target' = [target EXCEPT ![r] = n]
    BY DEF Start, GetRef, BuildCommit, Precheck, Fallback, ShPrecheck, ListPRs,
           Clone, CommitFiles, CallFails, Crash
  <2>2. Open \subseteq Nat
    BY DEF Open
  <2> QED
    BY <2>1, <2>2
<1>4. parent' \in [Runs -> Suites]
  <2>1. parent' = parent \/ parent' = [parent EXCEPT ![r] = base]
    BY DEF Start, GetRef, BuildCommit, Precheck, Fallback, ShPrecheck, ListPRs,
           Clone, CommitFiles, CallFails, Crash
  <2> QED
    BY <2>1
<1>5. /\ faults' \in Nat /\ touches' \in Nat
      /\ alone' \subseteq Runs /\ published' \in Runs \cup {NoRun}
  BY DEF Start, GetRef, BuildCommit, Precheck, Fallback, ShPrecheck, ListPRs,
         Clone, CommitFiles, CallFails, Crash
<1>6. PushedFirst'
  BY DEF PushedFirst, Announcing, Start, GetRef, BuildCommit, Precheck,
         Fallback, ShPrecheck, ListPRs, Clone, CommitFiles, CallFails, Crash,
         AfterError, Refused, SendsWorkflows
<1> QED
  BY <1>1, <1>2, <1>3, <1>4, <1>5, <1>6

(* The calls that make an invocation's files the head of the branch.       *)
LEMMA PushStep ==
  ASSUME TypeOK, OpenHasHead, PushedFirst, DescribesPushedFiles,
         NEW r \in Runs, PushHead(r), prs' = prs,
         pc' \in [Runs -> Idle \cup Calls \cup ShCalls],
         \A o \in Runs \ {r} : pc'[o] = pc[o],
         UNCHANGED <<target, parent, base, touches>>, faults' \in Nat
  PROVE  TypeOK' /\ OpenHasHead' /\ PushedFirst' /\ DescribesPushedFiles'
<1>1. branch' \in Heads /\ branch' # NoBranch
  BY CommitTyped DEF PushHead
<1>2. pushed' = pushed \cup {r} /\ UNCHANGED <<alone, published>>
  BY DEF PushHead
<1>3. TypeOK'
  BY <1>1, <1>2 DEF TypeOK
<1>4. PushedFirst'
  BY <1>2 DEF PushedFirst
<1>5. DescribesPushedFiles'
  BY <1>2 DEF DescribesPushedFiles
<1> QED
  BY <1>1, <1>3, <1>4, <1>5 DEF OpenHasHead

(* The calls that describe the files in a pull request, old or new.        *)
LEMMA DescribeStep ==
  ASSUME TypeOK, OpenHasHead, PushedFirst, DescribesPushedFiles,
         NEW r \in Runs, pc[r] \in Announcing,
         \/ SetTitle(r, target[r])
         \/ OpenNew(r) /\ branch # NoBranch,
         pc' \in [Runs -> Idle \cup Calls \cup ShCalls],
         \A o \in Runs \ {r} : pc'[o] = pc[o],
         UNCHANGED <<target, parent, base, branch, touches>>, faults' \in Nat,
         pushed' = pushed, alone' = alone, published' \in Runs \cup {NoRun}
  PROVE  TypeOK' /\ OpenHasHead' /\ PushedFirst' /\ DescribesPushedFiles'
<1>1. r \in pushed
  BY DEF PushedFirst
<1>2. prs \in Seq(PR)
  BY DEF TypeOK
<1>3. PushedFirst'
  BY <1>1 DEF PushedFirst, Announcing, TypeOK
<1>4. CASE SetTitle(r, target[r])
  <2>1. /\ prs' \in Seq(PR) /\ DOMAIN prs' = DOMAIN prs /\ Open' = Open
        /\ \A m \in DOMAIN prs : prs'[m].title \in {r, prs[m].title}
    BY <1>2, <1>4, SetTitleKeeps
  <2> QED
    BY <1>1, <1>3, <2>1 DEF TypeOK, OpenHasHead, DescribesPushedFiles
<1>5. CASE OpenNew(r) /\ branch # NoBranch
  <2>1. /\ prs' \in Seq(PR)
        /\ \A m \in DOMAIN prs' : \/ m \in DOMAIN prs /\ prs'[m] = prs[m]
                                  \/ prs'[m].title = r
    BY <1>2, <1>5, OpenNewKeeps
  <2> QED
    BY <1>1, <1>3, <1>5, <2>1 DEF TypeOK, OpenHasHead, DescribesPushedFiles
<1> QED
  BY <1>4, <1>5

-----------------------------------------------------------------------------
IInv == TypeOK /\ OpenHasHead /\ PushedFirst /\ DescribesPushedFiles

LEMMA RestPushStep ==
  ASSUME IInv, NEW r \in Runs, CreateRef(r) \/ UpdateRef(r) \/ Push(r)
  PROVE  IInv'
<1> USE DEF IInv
<1>1. pc' \in [Runs -> Idle \cup Calls \cup ShCalls]
  BY DEF TypeOK, CreateRef, UpdateRef, Push, Refused, SendsWorkflows
<1>2. /\ \A o \in Runs \ {r} : pc'[o] = pc[o]
      /\ UNCHANGED <<prs, target, parent, base, touches, faults>>
  BY DEF TypeOK, CreateRef, UpdateRef, Push
<1>3. CASE PushHead(r)
  BY <1>1, <1>2, <1>3, PushStep DEF TypeOK
<1>4. CASE UNCHANGED <<branch, ghost>> /\ pc'[r] \in {"updateRef", "failed"}
  BY <1>1, <1>2, <1>4 DEF TypeOK, Open, OpenHasHead, PushedFirst, Announcing,
                          DescribesPushedFiles
<1> QED
  BY <1>3, <1>4 DEF TypeOK, CreateRef, UpdateRef, Push

LEMMA AnnounceStep ==
  ASSUME IInv, NEW r \in Runs,
         EditPR(r) \/ CreatePR(r) \/ ShEdit(r) \/ ShCreate(r)
  PROVE  IInv'
<1> USE DEF IInv
<1>1. pc[r] \in Announcing
  BY DEF Announcing, EditPR, CreatePR, ShEdit, ShCreate
<1>2. /\ pc' \in [Runs -> Idle \cup Calls \cup ShCalls]
      /\ \A o \in Runs \ {r} : pc'[o] = pc[o]
      /\ UNCHANGED <<target, parent, base, branch, touches, faults>>
      /\ pushed' = pushed /\ alone' = alone
      /\ published' \in Runs \cup {NoRun}
  BY DEF TypeOK, EditPR, CreatePR, ShEdit, ShCreate, ReturnURL
<1>3. CASE SetTitle(r, target[r]) /\ pc'[r] = "done"
  BY <1>1, <1>2, <1>3, DescribeStep DEF TypeOK
<1>4. CASE OpenNew(r) /\ branch # NoBranch /\ pc'[r] = "done"
  BY <1>1, <1>2, <1>4, DescribeStep DEF TypeOK
<1>5. CASE prs' = prs
  BY <1>1, <1>2, <1>5 DEF TypeOK, Open, OpenHasHead, PushedFirst,
                          DescribesPushedFiles
<1> QED
  BY <1>3, <1>4, <1>5
     DEF TypeOK, EditPR, CreatePR, ShEdit, ShCreate, ReturnURL, Openable

LEMMA LostStep == ASSUME IInv, NEW r \in Runs, ReplyLost(r) PROVE IInv'
<1> USE DEF IInv
<1>1. /\ pc' \in [Runs -> Idle \cup Calls \cup ShCalls]
      /\ \A o \in Runs \ {r} : pc'[o] = pc[o]
      /\ UNCHANGED <<target, parent, base, touches>> /\ faults' \in Nat
  BY DEF TypeOK, ReplyLost, AfterError, Fault
<1>2. CASE PushHead(r) /\ prs' = prs
  BY <1>1, <1>2, PushStep
<1>3. CASE /\ pc[r] \in {"edit", "fallbackEdit", "shEdit"}
           /\ SetTitle(r, target[r]) /\ UNCHANGED <<branch, ghost>>
  <2>1. pc[r] \in Announcing /\ published' \in Runs \cup {NoRun}
    BY <1>3 DEF TypeOK, Announcing
  <2> QED
    BY <1>1, <1>3, <2>1, DescribeStep
<1>4. CASE /\ pc[r] \in {"create", "shCreate"} /\ branch # NoBranch
           /\ OpenNew(r) /\ UNCHANGED <<branch, ghost>>
  <2>1. pc[r] \in Announcing /\ published' \in Runs \cup {NoRun}
    BY <1>4 DEF TypeOK, Announcing
  <2> QED
    BY <1>1, <1>4, <2>1, DescribeStep
<1> QED
  BY <1>2, <1>3, <1>4 DEF ReplyLost, Openable

LEMMA PeopleStep == IInv /\ People => IInv'
<1> SUFFICES ASSUME IInv, People PROVE IInv'
  OBVIOUS
<1> USE DEF IInv, Touch, TypeOK, PushedFirst
<1>1. CASE MergePR
  <2>1. PICK n \in Open : Close(n, "merged")
    BY <1>1 DEF MergePR
  <2>2. /\ prs' \in Seq(PR) /\ DOMAIN prs' = DOMAIN prs
        /\ \A m \in DOMAIN prs : prs'[m].title = prs[m].title
    BY <2>1, CloseKeeps DEF Decided
  <2>3. branch \in Heads
    BY <2>1 DEF OpenHasHead
  <2>4. branch' \in Heads /\ branch' # NoBranch /\ base' \in Suites
    BY <1>1, <2>3, SharesAssumption DEF MergePR, Heads, NoBranch
  <2>5. UNCHANGED <<pc, target, parent, faults, pushed>> /\ touches' \in Nat
        /\ alone' = {} /\ published' = NoRun
    BY <1>1 DEF MergePR
  <2>6. TypeOK'
    BY <2>2, <2>4, <2>5
  <2>7. OpenHasHead' /\ PushedFirst' /\ DescribesPushedFiles'
    BY <2>2, <2>4, <2>5 DEF OpenHasHead, DescribesPushedFiles
  <2> QED
    BY <2>6, <2>7
<1>2. CASE ClosePR
  <2>1. PICK n \in Open : Close(n, "closed")
    BY <1>2 DEF ClosePR
  <2>2. /\ prs' \in Seq(PR) /\ DOMAIN prs' = DOMAIN prs
        /\ \A m \in DOMAIN prs : prs'[m].title = prs[m].title
    BY <2>1, CloseKeeps DEF Decided
  <2>3. branch' # NoBranch
    BY <1>2, <2>1 DEF ClosePR, OpenHasHead
  <2> QED
    BY <1>2, <2>2, <2>3 DEF ClosePR, OpenHasHead, DescribesPushedFiles
<1>3. CASE DeleteBranch
  <2>1. /\ prs' \in Seq(PR) /\ DOMAIN prs' = DOMAIN prs
        /\ \A m \in DOMAIN prs : /\ prs'[m].title = prs[m].title
                                 /\ prs'[m].state # "open"
    BY <1>3, ClosingAllKeeps DEF DeleteBranch, Open
  <2>2. Open' = {}
    BY <2>1 DEF Open
  <2> QED
    BY <1>3, <2>1, <2>2 DEF DeleteBranch, OpenHasHead, DescribesPushedFiles
<1>4. CASE CommitToBase
  BY <1>4 DEF CommitToBase, Open, OpenHasHead, DescribesPushedFiles
<1> QED
  BY <1>1, <1>2, <1>3, <1>4 DEF People

LEMMA InvStep == IInv /\ [Next]_vars => IInv'
<1> SUFFICES ASSUME IInv, [Next]_vars PROVE IInv'
  OBVIOUS
<1>1. ASSUME NEW r \in Runs,
             \/ Start(r) \/ GetRef(r) \/ BuildCommit(r)
             \/ Precheck(r) \/ Fallback(r) \/ ShPrecheck(r)
             \/ Clone(r) \/ CommitFiles(r) \/ CallFails(r) \/ Crash(r)
      PROVE IInv'
  BY <1>1, QuietStep DEF IInv, Open, OpenHasHead, DescribesPushedFiles
<1>2. CASE UNCHANGED vars
  BY <1>2 DEF vars, IInv, TypeOK, Open, OpenHasHead, PushedFirst,
              DescribesPushedFiles
<1> QED
  BY <1>1, <1>2, RestPushStep, AnnounceStep, LostStep, PeopleStep
     DEF Next, Step

LEMMA InvAlways == Spec => []IInv
<1>1. Init => IInv
  BY SharesAssumption
     DEF Init, IInv, TypeOK, Open, OpenHasHead, PushedFirst, Announcing,
         DescribesPushedFiles
<1> QED
  BY <1>1, InvStep, PTL DEF Spec

(* Every variable keeps its type; in particular the head of the branch,    *)
(* which a merge rewrites in place, always is a head or absent.            *)
THEOREM TypeCorrect == Spec => []TypeOK
<1>1. IInv => TypeOK
  BY DEF IInv
<1> QED
  BY <1>1, InvAlways, PTL

(* gh.go:206-252 and openpr_shell.go:90-131, for any number of runs, any   *)
(* faults and any interference: a pull request never carries the title of  *)
(* an invocation whose files have not been the branch head.                *)
THEOREM TitlesFollowPushes == Spec => []DescribesPushedFiles
<1>1. IInv => DescribesPushedFiles
  BY DEF IInv
<1> QED
  BY <1>1, InvAlways, PTL

-----------------------------------------------------------------------------
(* A step keeps every decision: no pull request disappears, and only an    *)
(* action of a person moves one, out of the open state.                    *)
DecisionKept ==
  \A n \in DOMAIN prs :
    /\ n \in DOMAIN prs'
    /\ prs'[n].state # prs[n].state =>
         prs[n].state = "open" /\ touches' = touches + 1

LEMMA OpenNewKeepsDecisions ==
  ASSUME prs \in Seq(PR), NEW r \in Runs, OpenNew(r)
  PROVE  DecisionKept
<1>1. \A n \in DOMAIN prs : n \in DOMAIN prs' /\ prs'[n] = prs[n]
  BY DEF OpenNew
<1> QED
  BY <1>1 DEF DecisionKept

LEMMA SetTitleKeepsDecisions ==
  ASSUME prs \in Seq(PR), NEW r \in Runs, NEW n, SetTitle(r, n)
  PROVE  DecisionKept
BY TitledStaysTyped DEF SetTitle, DecisionKept

LEMMA PeopleKeepDecisions ==
  ASSUME prs \in Seq(PR), People
  PROVE  DecisionKept
<1>1. prs \in [1..Len(prs) -> PR] /\ DOMAIN prs = 1..Len(prs)
  OBVIOUS
<1>2. ASSUME NEW m \in Open, NEW how \in Decided, Close(m, how), Touch
      PROVE  DecisionKept
  <2>1. prs[m].state = "open" /\ touches' = touches + 1
    BY <1>2 DEF Open, Touch
  <2>2. DOMAIN prs' = DOMAIN prs /\ \A n \in DOMAIN prs \ {m} : prs'[n] = prs[n]
    BY <1>1, <1>2 DEF Close
  <2> QED
    BY <2>1, <2>2 DEF DecisionKept
<1>3. CASE MergePR
  BY <1>2, <1>3 DEF MergePR, Decided
<1>4. CASE ClosePR
  BY <1>2, <1>4 DEF ClosePR, Decided
<1>5. CASE DeleteBranch
  <2>1. /\ DOMAIN prs' = DOMAIN prs /\ touches' = touches + 1
        /\ \A n \in DOMAIN prs \ Open : prs'[n] = prs[n]
    BY <1>5 DEF DeleteBranch, Touch
  <2> QED
    BY <2>1 DEF DecisionKept, Open
<1>6. CASE CommitToBase
  BY <1>6 DEF CommitToBase, DecisionKept
<1> QED
  BY <1>3, <1>4, <1>5, <1>6 DEF People

LEMMA DecisionStep == IInv /\ [Next]_vars => DecisionKept
<1> SUFFICES ASSUME IInv, [Next]_vars PROVE DecisionKept
  OBVIOUS
<1>1. prs \in Seq(PR)
  BY DEF IInv, TypeOK
<1>2. CASE prs' = prs
  BY <1>2 DEF DecisionKept
<1>3. CASE \E r \in Runs : OpenNew(r) \/ \E n \in Nat : SetTitle(r, n)
  BY <1>1, <1>3, OpenNewKeepsDecisions, SetTitleKeepsDecisions
<1>4. ASSUME NEW r \in Runs, Start(r) \/ Step(r) \/ CallFails(r) \/ ReplyLost(r) \/ Crash(r)
      PROVE  prs' = prs \/ OpenNew(r) \/ SetTitle(r, target[r])
  BY <1>4 DEF Step, Start, GetRef, BuildCommit, CreateRef, UpdateRef, Precheck,
              Fallback, ShPrecheck, ListPRs, EditPR, CreatePR, Clone, CommitFiles,
              Push, ShEdit, ShCreate, CallFails, ReplyLost, Crash
<1>5. \A r \in Runs : target[r] \in Nat
  BY DEF IInv, TypeOK
<1> QED
  BY <1>1, <1>2, <1>3, <1>4, <1>5, PeopleKeepDecisions DEF Next, vars

(* gh.go:225-279 and openpr_shell.go:104-131 edit and open pull requests   *)
(* but never close or reopen one: for any number of runs and any faults, a *)
(* merged or closed pull request stays so, and only a person closes one.   *)
THEOREM DecisionsAreFinal == Spec => DecisionsStand
<1>1. IInv /\ [Next]_vars => [DecisionKept]_vars
  BY DecisionStep
<1> QED
  BY <1>1, InvAlways, PTL DEF Spec, DecisionsStand, DecisionKept

-----------------------------------------------------------------------------
(* An invocation nobody disturbs.  Nobody else is on its way, so the head  *)
(* it pushed is still its own and the pull request it found is still open. *)
OneOpen == \A m, n \in Open : m = n

OwnPath == \A r \in Runs : pc[r] \in ShCalls => r \in Shell

AloneInv ==
  \A r \in alone :
    /\ \A o \in Runs \ {r} : ~Active(o)
    /\ pc[r] \in Announcing => branch = Commit(r)
    /\ pc[r] \in {"edit", "fallbackEdit", "shEdit"} => target[r] \in Open

PublishedInv ==
  published # NoRun =>
    /\ \A o \in Runs : ~Active(o)
    /\ published \notin Shell => Describes(published) /\ Open # {}

AInv == IInv /\ OneOpen /\ OwnPath /\ AloneInv /\ PublishedInv

(* What an active invocation finds: nobody it disturbs, nothing published. *)
LEMMA ActiveActor ==
  ASSUME AInv, NEW r \in Runs, Active(r)
  PROVE  published = NoRun /\ alone \subseteq {r}
BY DEF AInv, IInv, TypeOK, AloneInv, PublishedInv

LEMMA PathStep == AInv /\ IInv' /\ [Next]_vars => OwnPath'
<1> SUFFICES ASSUME AInv, IInv', [Next]_vars PROVE OwnPath'
  OBVIOUS
<1> USE SharesAssumption DEF AInv, IInv, TypeOK, OwnPath
<1>1. CASE pc' = pc
  BY <1>1
<1>2. ASSUME NEW r \in Runs,
             Start(r) \/ Step(r) \/ CallFails(r) \/ ReplyLost(r) \/ Crash(r)
      PROVE  /\ \A o \in Runs \ {r} : pc'[o] = pc[o]
             /\ pc'[r] \in ShCalls => r \in Shell
  BY <1>2 DEF Step, Start, GetRef, BuildCommit, CreateRef, UpdateRef, Precheck,
              Fallback, ShPrecheck, ListPRs, EditPR, CreatePR, Clone, CommitFiles,
              Push, ShEdit, ShCreate, ReturnURL, CallFails, ReplyLost, Crash, AfterError
<1>3. People => pc' = pc
  BY DEF People, MergePR, ClosePR, DeleteBranch, CommitToBase, Touch
<1> QED
  BY <1>1, <1>2, <1>3 DEF Next, vars

(* There is at most one open pull request.                                 *)
LEMMA OneOpenStep == AInv /\ [Next]_vars => OneOpen'
<1> SUFFICES ASSUME AInv, [Next]_vars PROVE OneOpen'
  OBVIOUS
<1>0. /\ prs \in Seq(PR) /\ OneOpen
      /\ \A r \in Runs : target[r] \in Nat
  BY DEF AInv, IInv, TypeOK
<1>1. CASE Open' \subseteq Open
  BY <1>0, <1>1 DEF OneOpen
<1>2. CASE Open = {} /\ \E r \in Runs : OpenNew(r)
  <2>1. PICK r \in Runs : OpenNew(r)
    BY <1>2
  <2>2. \A m \in DOMAIN prs' : (m \in DOMAIN prs /\ prs'[m] = prs[m]) \/ m = Len(prs) + 1
    BY <1>0, <2>1 DEF OpenNew
  <2>3. \A m \in Open' : m = Len(prs) + 1
    BY <1>2, <2>2 DEF Open
  <2> QED
    BY <2>3 DEF OneOpen
<1>3. ASSUME NEW r \in Runs,
             Start(r) \/ Step(r) \/ CallFails(r) \/ ReplyLost(r) \/ Crash(r)
      PROVE  prs' = prs \/ (OpenNew(r) /\ Open = {}) \/ SetTitle(r, target[r])
  BY <1>3 DEF Step, Start, GetRef, BuildCommit, CreateRef, UpdateRef, Precheck,
              Fallback, ShPrecheck, ListPRs, EditPR, CreatePR, Clone, CommitFiles,
              Push, ShEdit, ShCreate, CallFails, ReplyLost, Crash, Openable
<1>4. ASSUME NEW r \in Runs, SetTitle(r, target[r]) PROVE Open' = Open
  BY <1>0, <1>4, SetTitleKeeps
<1>5. CASE People
  <2>1. DecisionKept /\ DOMAIN prs' = DOMAIN prs
    <3>1. DecisionKept
      BY <1>0, <1>5, PeopleKeepDecisions
    <3>2. DOMAIN prs' = DOMAIN prs
      BY <1>0, <1>5, CloseKeeps
         DEF People, MergePR, ClosePR, DeleteBranch, CommitToBase, Decided
    <3> QED
      BY <3>1, <3>2
  <2>2. Open' \subseteq Open
    BY <2>1 DEF DecisionKept, Open
  <2> QED
    BY <1>1, <2>2
<1>6. prs' = prs => Open' = Open
  BY DEF Open
<1> QED
  BY <1>1, <1>2, <1>3, <1>4, <1>5, <1>6 DEF Next, vars

(* What a step of an active invocation owes, if nobody has disturbed it.   *)
Owes(r) ==
  /\ pc'[r] \in Announcing => branch' = Commit(r)
  /\ pc'[r] \in {"edit", "fallbackEdit", "shEdit"} => target'[r] \in Open'
  /\ published' # NoRun =>
       /\ published' = r /\ pc'[r] \in Idle
       /\ r \notin Shell => Describes(r)' /\ Open' # {}

LEMMA OwnStep ==
  ASSUME AInv, NEW r \in Runs, Active(r),
         \A o \in Runs \ {r} : pc'[o] = pc[o], alone' = alone,
         r \notin alone => published' = published,
         r \in alone => Owes(r)
  PROVE  AloneInv' /\ PublishedInv'
<1>1. published = NoRun /\ alone \subseteq {r}
  BY ActiveActor
<1>2. CASE r \notin alone
  BY <1>1, <1>2 DEF AloneInv, PublishedInv
<1>3. CASE r \in alone
  <2>1. \A o \in Runs \ {r} : ~Active(o) /\ ~Active(o)'
    BY <1>3 DEF AInv, AloneInv, Active
  <2>2. Owes(r)
    BY <1>3
  <2>3. AloneInv'
    BY <1>1, <2>1, <2>2 DEF AloneInv, Owes
  <2>4. PublishedInv'
    BY <2>1, <2>2 DEF PublishedInv, Owes, Active
  <2> QED
    BY <2>3, <2>4
<1> QED
  BY <1>2, <1>3

(* What the invariants say of an undisturbed invocation.                   *)
LEMMA Undisturbed ==
  ASSUME AInv, NEW r \in alone, Active(r)
  PROVE  /\ r \in Runs /\ published = NoRun
         /\ pc[r] \in Announcing => branch = Commit(r)
         /\ pc[r] \in {"edit", "fallbackEdit", "shEdit"} => target[r] \in Open
         /\ pc[r] \in ShCalls => r \in Shell
BY ActiveActor DEF AInv, IInv, TypeOK, AloneInv, OwnPath

(* Its title and its head are in place once it has edited or opened the    *)
(* one open pull request.                                                  *)
LEMMA Described ==
  ASSUME AInv, OneOpen', NEW r \in alone, Active(r), pc[r] \in Announcing,
         branch' = branch,
         \/ SetTitle(r, target[r]) /\ target[r] \in Open
         \/ OpenNew(r)
  PROVE  Describes(r)' /\ Open' # {}
<1>1. /\ r \in Runs /\ prs \in Seq(PR) /\ branch = Commit(r)
  BY Undisturbed DEF AInv, IInv, TypeOK
<1>2. branch'.by = r /\ branch'.suite = Suite[r]
  BY <1>1 DEF Commit
<1>3. \E n \in Open' : prs'[n].title = r
  <2>1. CASE SetTitle(r, target[r]) /\ target[r] \in Open
    <3>1. Open' = Open
      BY <1>1, <2>1, SetTitleKeeps
    <3>2. prs[target[r]] \in PR /\ target[r] \in DOMAIN prs
      BY <1>1, <2>1 DEF Open
    <3>3. prs'[target[r]] = [prs[target[r]] EXCEPT !.title = r]
      BY <2>1, <3>2 DEF SetTitle
    <3>4. prs'[target[r]].title = r
      BY <3>2, <3>3 DEF PR
    <3> QED
      BY <2>1, <3>1, <3>4
  <2>2. CASE OpenNew(r)
    <3>1. /\ Len(prs) + 1 \in DOMAIN prs'
          /\ prs'[Len(prs) + 1] = [state |-> "open", title |-> r]
      BY <1>1, <2>2 DEF OpenNew
    <3>2. Len(prs) + 1 \in Open' /\ prs'[Len(prs) + 1].title = r
      BY <3>1 DEF Open
    <3> QED
      BY <3>2
  <2> QED
    BY <2>1, <2>2
<1> QED
  BY <1>2, <1>3 DEF Describes, OneOpen

LEMMA ActorKeepsPromise ==
  ASSUME AInv, IInv', OneOpen', NEW r \in Runs,
         Step(r) \/ CallFails(r) \/ ReplyLost(r) \/ Crash(r)
  PROVE  AloneInv' /\ PublishedInv'
<1> USE DEF Announcing
<1>1. pc \in [Runs -> Idle \cup Calls \cup ShCalls] /\ branch \in Heads \cup {NoBranch}
  BY DEF AInv, IInv, TypeOK
<1>2. /\ Active(r) /\ alone' = alone /\ \A o \in Runs \ {r} : pc'[o] = pc[o]
      /\ r \notin alone => published' = published
  BY <1>1 DEF Step, GetRef, BuildCommit, CreateRef, UpdateRef, Precheck, Fallback,
              ShPrecheck, ListPRs, EditPR, CreatePR, Clone, CommitFiles, Push, ShEdit,
              ShCreate, ReturnURL, PushHead, CallFails, ReplyLost, Crash, AfterError,
              Active
<1>3. ASSUME r \in alone PROVE Owes(r)
  <2>0. /\ published = NoRun
        /\ pc[r] \in Announcing => branch = Commit(r)
        /\ pc[r] \in {"edit", "fallbackEdit", "shEdit"} => target[r] \in Open
        /\ pc[r] \in ShCalls => r \in Shell
    BY <1>2, <1>3, Undisturbed
  <2>1. CASE \/ GetRef(r) \/ BuildCommit(r) \/ Clone(r) \/ CommitFiles(r)
             \/ CallFails(r) \/ Crash(r)
    <3>1. pc'[r] \notin Announcing \/ (pc'[r] = "shCreate" /\ pc[r] \in Announcing)
      BY <1>1, <2>1 DEF GetRef, BuildCommit, Clone, CommitFiles, CallFails, Crash, AfterError
    <3>2. branch' = branch
      BY <2>1 DEF GetRef, BuildCommit, Clone, CommitFiles, CallFails, Crash
    <3>3. published' = published \/ (published' = r /\ pc[r] = "commit" /\ pc'[r] = "nothing")
      BY <1>1, <2>1 DEF GetRef, BuildCommit, Clone, CommitFiles, CallFails, Crash, AfterError
    <3> QED
      BY <2>0, <3>1, <3>2, <3>3 DEF Owes
  <2>2. CASE Precheck(r) \/ Fallback(r) \/ ShPrecheck(r)
    <3>1. pc[r] \in Announcing /\ branch' = branch /\ published' = published
      BY <2>2 DEF Precheck, Fallback, ShPrecheck, ListPRs
    <3>2. pc'[r] \in {"edit", "fallbackEdit", "shEdit"} => target'[r] \in Open'
      <4>1. Open' = Open
        BY <2>2 DEF Precheck, Fallback, ShPrecheck, ListPRs, Open
      <4>2. target \in [Runs -> Nat]
        BY DEF AInv, IInv, TypeOK
      <4> QED
        BY <1>1, <2>2, <4>1, <4>2 DEF Precheck, Fallback, ShPrecheck, ListPRs
    <3> QED
      BY <2>0, <3>1, <3>2 DEF Owes
  <2>3. CASE CreateRef(r) \/ UpdateRef(r) \/ Push(r)
    <3>1. /\ published' = published
          /\ pc'[r] \in {"updateRef", "failed"}
               \/ (branch' = Commit(r) /\ pc'[r] \in {"precheck", "shPrecheck"})
      BY <1>1, <2>3 DEF CreateRef, UpdateRef, Push, PushHead
    <3> QED
      BY <2>0, <3>1 DEF Owes
  <2>4. CASE EditPR(r) \/ CreatePR(r) \/ ShEdit(r) \/ ShCreate(r)
    <3>1. pc[r] \in Announcing /\ branch' = branch
      BY <2>4 DEF EditPR, CreatePR, ShEdit, ShCreate
    <3>2. CASE /\ pc'[r] = "done" /\ published' = r
               /\ (SetTitle(r, target[r]) /\ target[r] \in Open) \/ OpenNew(r)
      <4>1. Describes(r)' /\ Open' # {}
        BY <1>2, <1>3, <3>1, <3>2, Described
      <4> QED
        BY <3>2, <4>1 DEF Owes
    <3>3. CASE pc'[r] \in {"fallback", "failed"} /\ published' = published
      BY <2>0, <3>1, <3>3 DEF Owes
    <3> QED
      BY <1>1, <1>3, <2>0, <2>4, <3>2, <3>3
         DEF EditPR, CreatePR, ShEdit, ShCreate, ReturnURL
  <2>5. CASE ReplyLost(r)
    <3>1. /\ published' = published
          /\ pc'[r] = "failed" \/ (pc'[r] = "shCreate" /\ pc[r] = "shEdit" /\ branch' = branch)
      BY <1>1, <2>5 DEF ReplyLost, AfterError, PushHead
    <3> QED
      BY <2>0, <3>1 DEF Owes
  <2> QED
    BY <2>1, <2>2, <2>3, <2>4, <2>5 DEF Step
<1> QED
  BY <1>2, <1>3, OwnStep

LEMMA AInvStep == AInv /\ [Next]_vars => AInv'
<1> SUFFICES ASSUME AInv, [Next]_vars PROVE AInv'
  OBVIOUS
<1>1. IInv' /\ OneOpen' /\ OwnPath'
  BY InvStep, OneOpenStep, PathStep DEF AInv
<1>2. ASSUME NEW r \in Runs, Start(r) PROVE AloneInv' /\ PublishedInv'
  <2>1. published' = NoRun /\ pc'[r] \notin Announcing
    BY <1>2 DEF Start, Announcing, AInv, IInv, TypeOK
  <2>2. alone' # {} => alone' = {r} /\ \A o \in Runs \ {r} : ~Active(o)'
    BY <1>2 DEF Start, Active, AInv, IInv, TypeOK
  <2> QED
    BY <2>1, <2>2 DEF AloneInv, PublishedInv, Announcing
<1>3. People => AloneInv' /\ PublishedInv'
  BY DEF People, MergePR, ClosePR, DeleteBranch, CommitToBase, Touch, AloneInv,
         PublishedInv
<1>4. ASSUME UNCHANGED vars PROVE AloneInv' /\ PublishedInv'
  BY <1>4 DEF vars, AInv, AloneInv, PublishedInv, Active, Describes, Open
<1>5. ASSUME NEW r \in Runs, Step(r) \/ CallFails(r) \/ ReplyLost(r) \/ Crash(r)
      PROVE  AloneInv' /\ PublishedInv'
  BY <1>1, <1>5, ActorKeepsPromise
<1>6. AloneInv' /\ PublishedInv'
  BY <1>2, <1>3, <1>4, <1>5 DEF Next
<1> QED
  BY <1>1, <1>6 DEF AInv

(* gh.go:173-252: an invocation of the REST path that nobody disturbed and *)
(* that returned success has published: for any number of runs before it,  *)
(* failed, crashed or replied to in vain, every open pull request carries  *)
(* its title and its files, and there is one.                              *)
THEOREM SuccessPublishes == Spec => []UndisturbedSuccess
<1>1. Init => AInv
  BY SharesAssumption
     DEF Init, AInv, IInv, TypeOK, Open, OpenHasHead, PushedFirst, Announcing,
         DescribesPushedFiles, OneOpen, OwnPath, AloneInv, PublishedInv
<1>2. AInv => UndisturbedSuccess
  BY SharesAssumption DEF AInv, PublishedInv, UndisturbedSuccess
<1> QED
  BY <1>1, <1>2, AInvStep, PTL DEF Spec

-----------------------------------------------------------------------------
(* Runs among themselves.  Without people a head once pushed stays, ahead  *)
(* of the base, and a pull request once opened stays open.                 *)
HeadStays ==
  touches = 0 =>
    /\ branch # NoBranch => branch.ahead
    /\ \A r \in Runs :
         /\ pc[r] \in Announcing \cup {"updateRef"} => branch # NoBranch
         /\ pc[r] \in {"fallback", "fallbackEdit"} => Open # {}

RaceInv == AInv /\ HeadStays /\ RacesAreAbsorbed

(* The bound on people's actions counts them.                              *)
LEMMA PeopleCount == ASSUME IInv, People PROVE touches' # 0
<1>1. touches \in Nat /\ touches' = touches + 1
  BY DEF IInv, TypeOK, People, MergePR, ClosePR, DeleteBranch, CommitToBase, Touch
<1> QED
  BY <1>1

(* A pull request once open stays open while only runs act.                *)
LEMMA OpenGrows ==
  ASSUME IInv, NEW r \in Runs,
         Start(r) \/ Step(r) \/ CallFails(r) \/ ReplyLost(r) \/ Crash(r),
         Open # {}
  PROVE  Open' # {}
<1>1. prs \in Seq(PR) /\ target[r] \in Nat
  BY DEF IInv, TypeOK
<1>2. prs' = prs \/ OpenNew(r) \/ SetTitle(r, target[r])
  BY DEF Step, Start, GetRef, BuildCommit, CreateRef, UpdateRef, Precheck,
         Fallback, ShPrecheck, ListPRs, EditPR, CreatePR, Clone, CommitFiles,
         Push, ShEdit, ShCreate, CallFails, ReplyLost, Crash
<1>3. CASE prs' = prs
  BY <1>3 DEF Open
<1>4. CASE SetTitle(r, target[r])
  BY <1>1, <1>4, SetTitleKeeps
<1>5. CASE OpenNew(r)
  <2>1. \A m \in DOMAIN prs : m \in DOMAIN prs' /\ prs'[m] = prs[m]
    BY <1>1, <1>5 DEF OpenNew
  <2> QED
    BY <2>1 DEF Open
<1> QED
  BY <1>2, <1>3, <1>4, <1>5

LEMMA RaceStep ==
  ASSUME RaceInv, NEW r \in Runs, touches' = 0,
         Start(r) \/ Step(r) \/ CallFails(r) \/ ReplyLost(r) \/ Crash(r)
  PROVE  HeadStays'
<1> USE DEF Announcing
<1>1. /\ pc \in [Runs -> Idle \cup Calls \cup ShCalls] /\ touches = 0
      /\ branch # NoBranch => branch.ahead
      /\ \A o \in Runs :
           /\ pc[o] \in Announcing \cup {"updateRef"} => branch # NoBranch
           /\ pc[o] \in {"fallback", "fallbackEdit"} => Open # {}
  <2>1. touches' = touches
    BY DEF Step, Start, GetRef, BuildCommit, CreateRef, UpdateRef, Precheck,
           Fallback, ShPrecheck, ListPRs, EditPR, CreatePR, Clone, CommitFiles,
           Push, ShEdit, ShCreate, CallFails, ReplyLost, Crash, Fault
  <2> QED
    BY <2>1 DEF RaceInv, HeadStays, AInv, IInv, TypeOK
<1>2. Commit(r) # NoBranch /\ Commit(r).ahead
  <2>1. Commit(r) # NoBranch
    BY CommitTyped DEF RaceInv, AInv, IInv
  <2> QED
    BY <2>1 DEF Commit
<1>3. branch' \in {branch, Commit(r)}
  BY DEF Step, Start, GetRef, BuildCommit, CreateRef, UpdateRef, Precheck,
         Fallback, ShPrecheck, ListPRs, EditPR, CreatePR, Clone, CommitFiles,
         Push, ShEdit, ShCreate, CallFails, ReplyLost, Crash, PushHead
<1>4. /\ \A o \in Runs \ {r} : pc'[o] = pc[o]
      /\ pc'[r] \in Announcing \cup {"updateRef"} => branch' # NoBranch
  BY <1>1, <1>2
     DEF Step, Start, GetRef, BuildCommit, CreateRef, UpdateRef, Precheck,
         Fallback, ShPrecheck, ListPRs, EditPR, CreatePR, Clone, CommitFiles,
         Push, ShEdit, ShCreate, ReturnURL, CallFails, ReplyLost, Crash, AfterError,
         PushHead
<1>5. pc'[r] \in {"fallback", "fallbackEdit"} => Open # {}
  BY <1>1
     DEF Step, Start, GetRef, BuildCommit, CreateRef, UpdateRef, Precheck,
         Fallback, ShPrecheck, ListPRs, EditPR, CreatePR, Clone, CommitFiles,
         Push, ShEdit, ShCreate, ReturnURL, CallFails, ReplyLost, Crash, AfterError
<1>6. Open # {} => Open' # {}
  BY OpenGrows DEF RaceInv, AInv
<1> QED
  BY <1>1, <1>2, <1>3, <1>4, <1>5, <1>6 DEF HeadStays

LEMMA NoneFails ==
  ASSUME RaceInv, NEW r \in Runs, touches' = 0, faults' = 0,
         Start(r) \/ Step(r) \/ CallFails(r) \/ ReplyLost(r) \/ Crash(r)
  PROVE  \A o \in Runs \ Shell : pc'[o] = "failed" => Refused(o)
<1> USE DEF Announcing
<1>1. /\ pc \in [Runs -> Idle \cup Calls \cup ShCalls] /\ faults \in Nat
  BY DEF RaceInv, AInv, IInv, TypeOK
<1>2. touches = 0 /\ faults = 0 /\ (Start(r) \/ Step(r))
  BY <1>1 DEF Step, Start, GetRef, BuildCommit, CreateRef, UpdateRef, Precheck,
         Fallback, ShPrecheck, ListPRs, EditPR, CreatePR, Clone, CommitFiles,
         Push, ShEdit, ShCreate, CallFails, ReplyLost, Crash, Fault
<1>3. /\ \A o \in Runs \ Shell : pc[o] = "failed" => Refused(o)
      /\ branch # NoBranch => branch.ahead
      /\ pc[r] \in Announcing \cup {"updateRef"} => branch # NoBranch
      /\ pc[r] \in {"fallback", "fallbackEdit"} => Open # {}
      /\ pc[r] \in ShCalls => r \in Shell
  BY <1>2 DEF RaceInv, HeadStays, RacesAreAbsorbed, AInv, OwnPath
<1>4. \A o \in Runs \ {r} : pc'[o] = pc[o]
  BY <1>1, <1>2
     DEF Step, Start, GetRef, BuildCommit, CreateRef, UpdateRef, Precheck,
         Fallback, ShPrecheck, ListPRs, EditPR, CreatePR, Clone, CommitFiles,
         Push, ShEdit, ShCreate, ReturnURL
<1>5. r \notin Shell /\ pc'[r] = "failed" => Refused(r)
  BY <1>1, <1>2, <1>3
     DEF Step, Start, GetRef, BuildCommit, CreateRef, UpdateRef, Precheck,
         Fallback, ShPrecheck, ListPRs, EditPR, CreatePR, Clone, CommitFiles,
         Push, ShEdit, ShCreate, ReturnURL, Openable
<1> QED
  BY <1>3, <1>4, <1>5

LEMMA RaceInvStep == RaceInv /\ [Next]_vars => RaceInv'
<1> SUFFICES ASSUME RaceInv, [Next]_vars PROVE RaceInv'
  OBVIOUS
<1>1. AInv'
  BY AInvStep DEF RaceInv
<1>2. ASSUME NEW r \in Runs,
             Start(r) \/ Step(r) \/ CallFails(r) \/ ReplyLost(r) \/ Crash(r)
      PROVE  HeadStays' /\ RacesAreAbsorbed'
  <2>1. touches' = 0 => HeadStays'
    BY <1>2, RaceStep
  <2>2. touches' = 0 /\ faults' = 0 => \A o \in Runs \ Shell : pc'[o] = "failed" => Refused(o)
    BY <1>2, NoneFails
  <2> QED
    BY <2>1, <2>2 DEF HeadStays, RacesAreAbsorbed, Refused, SendsWorkflows
<1>3. ASSUME People PROVE HeadStays' /\ RacesAreAbsorbed'
  BY <1>3, PeopleCount DEF RaceInv, AInv, HeadStays, RacesAreAbsorbed
<1>4. ASSUME UNCHANGED vars PROVE HeadStays' /\ RacesAreAbsorbed'
  BY <1>4 DEF vars, RaceInv, HeadStays, RacesAreAbsorbed, Open
<1>5. HeadStays' /\ RacesAreAbsorbed'
  BY <1>2, <1>3, <1>4 DEF Next
<1> QED
  BY <1>1, <1>5 DEF RaceInv

(* gh.go:225-249, for any number of runs at once: while no call fails and  *)
(* nobody touches GitHub, a run of the REST path fails only for want of    *)
(* the workflow permission.                                                *)
THEOREM RacesAbsorbed == Spec => []RacesAreAbsorbed
<1>1. Init => RaceInv
  BY SharesAssumption
     DEF Init, RaceInv, AInv, IInv, TypeOK, Open, OpenHasHead, PushedFirst, Announcing,
         DescribesPushedFiles, OneOpen, OwnPath, AloneInv, PublishedInv, HeadStays,
         RacesAreAbsorbed
<1>2. RaceInv => RacesAreAbsorbed
  BY DEF RaceInv
<1> QED
  BY <1>1, <1>2, RaceInvStep, PTL DEF Spec
=============================================================================
