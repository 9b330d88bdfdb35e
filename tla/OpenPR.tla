------------------------------- MODULE OpenPR -------------------------------
(***************************************************************************)
(* gh.Client.OpenPR: publish a generated suite as one commit on the bot    *)
(* branch and describe it in one pull request.  Several invocations share  *)
(* the branch name (a re-trigger, a "synchronize" event, a retry), and no  *)
(* lock orders them: GitHub is the only shared state.                      *)
(*                                                                         *)
(* Two implementations of the same promise are modelled: the REST path     *)
(* (gh.go) and the git/gh command path used on Actions runners             *)
(* (openpr_shell.go).  Every remote call is one action, because another    *)
(* invocation or a person can act between two calls.  CreateTree and       *)
(* CreateCommit only add unreachable git objects, so they are one action.  *)
(*                                                                         *)
(* The files of an invocation are abstracted to one payload: the value of  *)
(* the generated suite, and whether workflow files are among them.         *)
(***************************************************************************)
EXTENDS Naturals, Sequences, FiniteSets

CONSTANTS
  Runs,          \* invocations of OpenPR for one head branch
  Actions,       \* those with GITHUB_ACTIONS=true
  Shell,         \* those for which useShellOpenPR holds and git, gh exist
  Scoped,        \* those whose token carries the workflow permission
  KeepWorkflows, \* QUAIL_KEEP_WORKFLOWS=1
  Suites,        \* values of the generated files
  Suite,         \* Suite[r]: what invocation r generated
  Workflows,     \* invocations whose Files hold .github/workflows/*
  NoRun,         \* no invocation
  MaxFaults,     \* bound: failed calls, lost replies and crashes
  MaxTouches     \* bound: actions of people on GitHub

ASSUME SharesAssumption ==
  /\ Shell \subseteq Actions /\ Actions \subseteq Runs
  /\ Scoped \subseteq Runs /\ Workflows \subseteq Runs
  /\ KeepWorkflows \in BOOLEAN
  /\ Suite \in [Runs -> Suites]
  /\ NoRun \notin Runs

ASSUME BoundsAssumption ==
  MaxFaults \in Nat /\ MaxTouches \in Nat

VARIABLES
  pc,        \* the call each invocation makes next
  target,    \* number of the pull request an invocation is about to edit
  base,      \* the suite on the base branch
  parent,    \* the base suite an invocation started from
  branch,    \* head of the bot branch
  prs,       \* pull requests of the bot branch, oldest first
  faults, touches,
  (* history *)
  pushed,    \* invocations whose files have been the branch head
  alone,     \* invocations nobody has disturbed since they started
  published  \* the undisturbed invocation that last returned success

github == <<base, branch, prs>>
local  == <<pc, target, parent>>
bounds == <<faults, touches>>
ghost  == <<pushed, alone, published>>
vars   == <<local, github, bounds, ghost>>

Idle     == {"idle", "done", "nothing", "failed"}
Calls    == {"getRef", "buildCommit", "createRef", "updateRef", "precheck",
             "edit", "create", "fallback", "fallbackEdit"}
ShCalls  == {"clone", "commit", "push", "shPrecheck", "shEdit", "shCreate"}
Active(r) == pc[r] \notin Idle

NoBranch == [by |-> NoRun]
Heads == [by : Runs, suite : Suites, workflows : BOOLEAN, ahead : BOOLEAN]
PR == [state : {"open", "closed", "merged"}, title : Runs]
Open == {n \in DOMAIN prs : prs[n].state = "open"}

-----------------------------------------------------------------------------
(* The workflow filter: under Actions the workflow files are left out of   *)
(* the push unless the caller vouches for the token.                       *)

SendsWorkflows(r) ==
  r \in Workflows /\ (r \notin Actions \/ KeepWorkflows)

(* The remote refuses a push with a workflow file from a token without the *)
(* permission.                                                             *)
Refused(r) == SendsWorkflows(r) /\ r \notin Scoped

\* Mutant: the commit record is built without its relation to the base.
CommitUntracked(r) == [by |-> r, suite |-> Suite[r]]

Commit(r) == [by |-> r, suite |-> Suite[r], workflows |-> SendsWorkflows(r),
              ahead |-> TRUE]

-----------------------------------------------------------------------------
(* How an invocation moves on.                                             *)

Goto(r, step) == pc' = [pc EXCEPT ![r] = step]

ReturnURL(r) ==
  /\ Goto(r, "done")
  /\ published' = IF r \in alone THEN r ELSE published
  /\ UNCHANGED <<pushed, alone>>

PushHead(r) ==
  /\ branch' = Commit(r)
  /\ pushed' = pushed \cup {r}
  /\ UNCHANGED <<alone, published>>

SetTitle(r, n) == prs' = [prs EXCEPT ![n].title = r]

(* A fresh attempt: the first, or a re-trigger after a failure.  The       *)
(* others in flight are disturbed by it, and it by them.                   *)
Start(r) ==
  /\ pc[r] \in {"idle", "failed"}
  /\ Goto(r, IF r \in Shell THEN "clone" ELSE "getRef")
  /\ alone' = IF \E o \in Runs \ {r} : Active(o) THEN {}
              ELSE {r}
  /\ published' = NoRun
  /\ UNCHANGED <<target, parent, github, bounds, pushed>>

-----------------------------------------------------------------------------
(* The REST path.                                                          *)

GetRef(r) ==
  /\ pc[r] = "getRef"
  /\ parent' = [parent EXCEPT ![r] = base]
  /\ Goto(r, "buildCommit")
  /\ UNCHANGED <<target, github, bounds, ghost>>

BuildCommit(r) ==
  /\ pc[r] = "buildCommit"
  /\ Goto(r, IF Refused(r) THEN "failed" ELSE "createRef")
  /\ UNCHANGED <<target, parent, github, bounds, ghost>>

\* Mutant: an existing ref is taken for success and never forced.
CreateRefKeepsOld(r) ==
  /\ pc[r] = "createRef"
  /\ IF branch = NoBranch THEN PushHead(r) ELSE UNCHANGED <<branch, ghost>>
  /\ Goto(r, "precheck")
  /\ UNCHANGED <<target, parent, base, prs, bounds>>

\* Mutant: isAlreadyExists never recognises the refusal.
CreateRefOnce(r) ==
  /\ pc[r] = "createRef"
  /\ IF branch = NoBranch
       THEN PushHead(r) /\ Goto(r, "precheck")
       ELSE Goto(r, "failed") /\ UNCHANGED <<branch, ghost>>
  /\ UNCHANGED <<target, parent, base, prs, bounds>>

CreateRef(r) ==
  /\ pc[r] = "createRef"
  /\ IF branch = NoBranch
       THEN PushHead(r) /\ Goto(r, "precheck")
       ELSE Goto(r, "updateRef") /\ UNCHANGED <<branch, ghost>>
  /\ UNCHANGED <<target, parent, base, prs, bounds>>

(* Force update; the ref may have been deleted since CreateRef refused.    *)
UpdateRef(r) ==
  /\ pc[r] = "updateRef"
  /\ IF branch # NoBranch
       THEN PushHead(r) /\ Goto(r, "precheck")
       ELSE Goto(r, "failed") /\ UNCHANGED <<branch, ghost>>
  /\ UNCHANGED <<target, parent, base, prs, bounds>>

(* updateExistingPR, first half: list the open pull requests of the head.  *)
ListPRs(r, from, edit, none) ==
  /\ pc[r] = from
  /\ \/ /\ Open = {}
        /\ Goto(r, none)
        /\ UNCHANGED target
     \/ \E n \in Open : Goto(r, edit) /\ target' = [target EXCEPT ![r] = n]
  /\ UNCHANGED <<parent, github, bounds, ghost>>

Precheck(r) == ListPRs(r, "precheck", "edit", "create")
Fallback(r) == ListPRs(r, "fallback", "fallbackEdit", "failed")

\* Mutant: the pull request is found and returned, but not edited.
EditPRNot(r) ==
  /\ pc[r] \in {"edit", "fallbackEdit"}
  /\ ReturnURL(r)
  /\ UNCHANGED <<target, parent, github, bounds>>

\* Mutant: the edit also sends state "open".
EditPRReopens(r) ==
  /\ pc[r] \in {"edit", "fallbackEdit"}
  /\ prs' = [prs EXCEPT ![target[r]] = [state |-> "open", title |-> r]]
  /\ ReturnURL(r)
  /\ UNCHANGED <<target, parent, base, branch, bounds>>

(* updateExistingPR, second half.  GitHub accepts the edit whatever state  *)
(* the pull request has reached meanwhile.                                 *)
EditPR(r) ==
  /\ pc[r] \in {"edit", "fallbackEdit"}
  /\ SetTitle(r, target[r])
  /\ ReturnURL(r)
  /\ UNCHANGED <<target, parent, base, branch, bounds>>

(* GitHub opens a pull request only for a head that exists, is ahead of    *)
(* the base and has no open pull request yet.                              *)
Openable == branch # NoBranch /\ branch.ahead /\ Open = {}

OpenNew(r) == prs' = Append(prs, [state |-> "open", title |-> r])

\* Mutant: "already exists" from Create is an error like any other.
CreatePRNoFallback(r) ==
  /\ pc[r] = "create"
  /\ IF Openable THEN OpenNew(r) /\ ReturnURL(r)
     ELSE Goto(r, "failed") /\ UNCHANGED <<prs, ghost>>
  /\ UNCHANGED <<target, parent, base, branch, bounds>>

CreatePR(r) ==
  /\ pc[r] = "create"
  /\ \/ Openable /\ OpenNew(r) /\ ReturnURL(r)
     \/ Open # {} /\ Goto(r, "fallback") /\ UNCHANGED <<prs, ghost>>
     \/ /\ ~Openable /\ Open = {}
        /\ Goto(r, "failed")
        /\ UNCHANGED <<prs, ghost>>
  /\ UNCHANGED <<target, parent, base, branch, bounds>>

-----------------------------------------------------------------------------
(* The command path.                                                       *)

Clone(r) ==
  /\ pc[r] = "clone"
  /\ parent' = [parent EXCEPT ![r] = base]
  /\ Goto(r, "commit")
  /\ UNCHANGED <<target, github, bounds, ghost>>

(* git commit exits non-zero when the files equal the clone's, and the     *)
(* invocation then returns success without a URL.                          *)
CommitFiles(r) ==
  /\ pc[r] = "commit"
  /\ IF Suite[r] = parent[r] /\ ~SendsWorkflows(r)
       THEN /\ Goto(r, "nothing")
            /\ published' = IF r \in alone THEN r ELSE published
            /\ UNCHANGED <<pushed, alone>>
       ELSE Goto(r, "push") /\ UNCHANGED ghost
  /\ UNCHANGED <<target, parent, github, bounds>>

Push(r) ==
  /\ pc[r] = "push"
  /\ IF Refused(r) THEN Goto(r, "failed") /\ UNCHANGED <<branch, ghost>>
     ELSE PushHead(r) /\ Goto(r, "shPrecheck")
  /\ UNCHANGED <<target, parent, base, prs, bounds>>

ShPrecheck(r) == ListPRs(r, "shPrecheck", "shEdit", "shCreate")

ShEdit(r) ==
  /\ pc[r] = "shEdit"
  /\ SetTitle(r, target[r])
  /\ ReturnURL(r)
  /\ UNCHANGED <<target, parent, base, branch, bounds>>

(* gh pr create: any refusal, "already exists" included, is the result.    *)
ShCreate(r) ==
  /\ pc[r] = "shCreate"
  /\ IF Openable THEN OpenNew(r) /\ ReturnURL(r)
     ELSE Goto(r, "failed") /\ UNCHANGED <<prs, ghost>>
  /\ UNCHANGED <<target, parent, base, branch, bounds>>

-----------------------------------------------------------------------------
(* Faults: a call fails without effect, or takes effect and its reply is   *)
(* lost, or the process dies.  The command path ignores a failing list and *)
(* a failing patch and goes on to create, and takes a failing commit for   *)
(* an empty one; every other error ends the attempt.                       *)

AfterError(r) ==
  CASE pc[r] \in {"shPrecheck", "shEdit"} -> "shCreate"
    [] pc[r] = "commit" -> "nothing"
    [] OTHER -> "failed"

Fault == faults < MaxFaults /\ faults' = faults + 1 /\ UNCHANGED touches

CallFails(r) ==
  /\ Fault /\ Active(r)
  /\ Goto(r, AfterError(r))
  /\ published' = IF AfterError(r) = "nothing" /\ r \in alone THEN r
                  ELSE published
  /\ UNCHANGED <<target, parent, github, pushed, alone>>

ReplyLost(r) ==
  /\ Fault
  /\ Goto(r, AfterError(r))
  /\ \/ /\ \/ pc[r] = "createRef" /\ branch = NoBranch
           \/ pc[r] = "updateRef" /\ branch # NoBranch
           \/ pc[r] = "push" /\ ~Refused(r)
        /\ PushHead(r)
        /\ UNCHANGED prs
     \/ /\ pc[r] \in {"edit", "fallbackEdit", "shEdit"}
        /\ SetTitle(r, target[r])
        /\ UNCHANGED <<branch, ghost>>
     \/ /\ pc[r] \in {"create", "shCreate"} /\ Openable
        /\ OpenNew(r)
        /\ UNCHANGED <<branch, ghost>>
  /\ UNCHANGED <<target, parent, base>>

Crash(r) ==
  /\ Fault /\ Active(r)
  /\ Goto(r, "failed")
  /\ UNCHANGED <<target, parent, github, ghost>>

-----------------------------------------------------------------------------
(* People: merge or close the pull request, delete the branch (GitHub then *)
(* closes its pull request), change the files on the base branch.          *)

Touch ==
  /\ touches < MaxTouches /\ touches' = touches + 1
  /\ alone' = {} /\ published' = NoRun
  /\ UNCHANGED <<local, faults, pushed>>

Close(n, how) == prs' = [prs EXCEPT ![n].state = how]

MergePR ==
  /\ Touch
  /\ \E n \in Open : Close(n, "merged")
  /\ base' = branch.suite
  /\ branch' = [branch EXCEPT !.ahead = FALSE]

ClosePR ==
  /\ Touch
  /\ \E n \in Open : Close(n, "closed")
  /\ UNCHANGED <<base, branch>>

DeleteBranch ==
  /\ Touch
  /\ branch # NoBranch
  /\ branch' = NoBranch
  /\ prs' = [n \in DOMAIN prs |-> IF n \in Open
               THEN [prs[n] EXCEPT !.state = "closed"] ELSE prs[n]]
  /\ UNCHANGED base

CommitToBase ==
  /\ Touch
  /\ \E s \in Suites : base' = s
  /\ UNCHANGED <<branch, prs>>

-----------------------------------------------------------------------------
Init ==
  /\ pc = [r \in Runs |-> "idle"]
  /\ target = [r \in Runs |-> 0]
  /\ base \in Suites
  /\ parent = [r \in Runs |-> base]
  /\ branch = NoBranch
  /\ prs = << >>
  /\ faults = 0 /\ touches = 0
  /\ pushed = {} /\ alone = {} /\ published = NoRun

Step(r) ==
  \/ GetRef(r) \/ BuildCommit(r) \/ CreateRef(r) \/ UpdateRef(r)
  \/ Precheck(r) \/ EditPR(r) \/ CreatePR(r) \/ Fallback(r)
  \/ Clone(r) \/ CommitFiles(r) \/ Push(r)
  \/ ShPrecheck(r) \/ ShEdit(r) \/ ShCreate(r)

People == MergePR \/ ClosePR \/ DeleteBranch \/ CommitToBase

Next ==
  \/ \E r \in Runs : Start(r) \/ Step(r)
                       \/ CallFails(r) \/ ReplyLost(r) \/ Crash(r)
  \/ People

Spec == Init /\ [][Next]_vars

(* A live process makes its next call, and CI or an operator re-triggers   *)
(* an invocation that failed.                                              *)
Fairness == \A r \in Runs : WF_vars(Step(r)) /\ WF_vars(Start(r))

FairSpec == Spec /\ Fairness

-----------------------------------------------------------------------------
(* Types of every variable.                                                *)
TypeOK ==
  /\ pc \in [Runs -> Idle \cup Calls \cup ShCalls]
  /\ target \in [Runs -> Nat]
  /\ base \in Suites
  /\ parent \in [Runs -> Suites]
  /\ branch \in Heads \cup {NoBranch}
  /\ prs \in Seq(PR)
  /\ faults \in Nat /\ touches \in Nat
  /\ pushed \subseteq Runs /\ alone \subseteq Runs
  /\ published \in Runs \cup {NoRun}

(* Ordering (gh.go:206-252, openpr_shell.go:90-131): a pull request is     *)
(* never opened or retitled by an invocation whose files have not been the *)
(* branch head, whichever calls failed, raced or were retried.             *)
DescribesPushedFiles == \A n \in DOMAIN prs : prs[n].title \in pushed

(* gh.go:225-249 and its comment "Race: the PR was created between our     *)
(* precheck and our Create": as long as no call fails and nobody touches   *)
(* GitHub, an invocation of the REST path fails only for want of the       *)
(* workflow permission, however many run at once and whichever of them     *)
(* opens the pull request.                                                 *)
RacesAreAbsorbed ==
  faults = 0 /\ touches = 0 =>
    \A r \in Runs \ Shell : pc[r] = "failed" => Refused(r)

(* After an invocation ran undisturbed and returned success, every open    *)
(* pull request of the branch carries its files and its title, whatever    *)
(* earlier attempts (crashed half way, lost replies) left behind.          *)
Describes(r) ==
  \A n \in Open : prs[n].title = r /\ branch.by = r /\ branch.suite = Suite[r]

UndisturbedSuccess ==
  published \in Runs \ Shell => Describes(published) /\ Open # {}

(* A person's decision stands: a closed or merged pull request never opens *)
(* again, and a run never closes one.                                      *)
DecisionsStand ==
  [][\A n \in DOMAIN prs :
       /\ n \in DOMAIN prs'
       /\ prs'[n].state # prs[n].state =>
            prs[n].state = "open" /\ touches' = touches + 1]_vars

(* Convergence: re-triggering a failed invocation finishes it, whatever    *)
(* state the earlier attempts and the people left on GitHub.               *)
EventuallyReturns == \A r \in Runs : <>(pc[r] \in {"done", "nothing"})
=============================================================================
