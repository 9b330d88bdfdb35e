------------------------------- MODULE Runner -------------------------------
(***************************************************************************)
(* browser.EnsureRunner: every probe that drives a real browser first      *)
(* makes sure that the shared Playwright runner directory holds the node   *)
(* packages and the binary of the engine it asks for.  Goroutines of one   *)
(* process are ordered by a mutex, processes by a file lock; two kinds of  *)
(* sentinel file record what has been installed.                           *)
(*                                                                         *)
(* npm and npx are processes of their own: they outlive the probe that     *)
(* started them, and the file lock does not pass to them.                  *)
(*                                                                         *)
(* Names that Probe has too are distinguished here, as ProbeProofs is      *)
(* about both.                                                             *)
(***************************************************************************)
EXTENDS Naturals

CONSTANTS
  Process, Call,
  ProcessOf,   \* ProcessOf[c]: the process that makes call c
  Browser,
  EngineOf,    \* EngineOf[c]: the engine call c asks for
  Package,     \* packages npm install is given
  TestPackage, \* @playwright/test, the one pkgInstalled looks for
  Nobody,
  MaxFaults,   \* bound: failing steps and killed processes
  MaxWipes     \* bound: times somebody clears a cache by hand

ASSUME SharingAssumption ==
  /\ ProcessOf \in [Call -> Process]
  /\ EngineOf \in [Call -> Browser]
  /\ TestPackage \in Package
  /\ Nobody \notin Call

ASSUME BoundsAssumption == MaxFaults \in Nat /\ MaxWipes \in Nat

VARIABLES
  stage,        \* what each call does next
  mutex,        \* ensureRunnerMu of each process: the call that holds it
  flock,        \* the call whose descriptor holds .install.lock
  packages,     \* packages in node_modules
  engines,      \* engine binaries on disk
  depsMark,     \* .quail-node-deps-ready exists
  engineMarks,  \* engines whose .quail-engine-<engine>-ready exists
  depsReady,    \* local variables of the same name
  engineReady,
  child,        \* the installer each call started, while it runs
  faults, wipes

locks == <<mutex, flock>>
disk  == <<packages, engines>>
marks == <<depsMark, engineMarks>>
local == <<depsReady, engineReady>>
bounds == <<faults, wipes>>
runnerVars  == <<stage, locks, disk, marks, local, child, bounds>>

Waiting  == {"mutex", "flock"}
Locked   == {"recheck", "install", "npm", "markDeps", "engine", "npx", "markEngine"}
Finished == {"ready", "unavailable", "dead"}

NodeDepsReady == depsMark /\ TestPackage \in packages

EngineSentinelExists(e) == e \in engineMarks

Proceed(c, step) == stage' = [stage EXCEPT ![c] = step]

RunnerInit ==
  /\ stage = [c \in Call |-> "idle"]
  /\ mutex = [p \in Process |-> Nobody] /\ flock = Nobody
  /\ packages = {} /\ engines = {}
  /\ depsMark = FALSE /\ engineMarks = {}
  /\ depsReady = [c \in Call |-> FALSE] /\ engineReady = [c \in Call |-> FALSE]
  /\ child = [c \in Call |-> "none"]
  /\ faults = 0 /\ wipes = 0

(* A call, or a new one by the same goroutine after a failure.             *)
Start(c) ==
  /\ stage[c] \in {"idle", "unavailable"}
  /\ Proceed(c, "mutex")
  /\ UNCHANGED <<locks, disk, marks, local, child, bounds>>

LockMutex(c) ==
  /\ stage[c] = "mutex"
  /\ mutex[ProcessOf[c]] = Nobody
  /\ mutex' = [mutex EXCEPT ![ProcessOf[c]] = c]
  /\ Proceed(c, "check")
  /\ UNCHANGED <<flock, disk, marks, local, child, bounds>>

\* Mutant: the file lock is not released.
LeaveHoldingFlock(c, result) ==
  /\ Proceed(c, result)
  /\ mutex' = [mutex EXCEPT ![ProcessOf[c]] = Nobody]
  /\ UNCHANGED flock

(* The deferred calls: release the file lock if held, then the mutex.      *)
Leave(c, result) ==
  /\ Proceed(c, result)
  /\ mutex' = [mutex EXCEPT ![ProcessOf[c]] = Nobody]
  /\ flock' = IF flock = c THEN Nobody ELSE flock

BothReady(c) == NodeDepsReady /\ EngineSentinelExists(EngineOf[c])

(* The fast path takes no file lock.                                       *)
Check(c) ==
  /\ stage[c] = "check"
  /\ depsReady' = [depsReady EXCEPT ![c] = NodeDepsReady]
  /\ engineReady' = [engineReady EXCEPT ![c] = EngineSentinelExists(EngineOf[c])]
  /\ IF BothReady(c) THEN Leave(c, "ready")
     ELSE Proceed(c, "flock") /\ UNCHANGED locks
  /\ UNCHANGED <<disk, marks, child, bounds>>

\* Mutant: the file lock is a no-op.
LockRunnerNoOp(c) ==
  /\ stage[c] = "flock"
  /\ flock' = c
  /\ Proceed(c, "recheck")
  /\ UNCHANGED <<mutex, disk, marks, local, child, bounds>>

LockRunner(c) ==
  /\ stage[c] = "flock"
  /\ flock = Nobody
  /\ flock' = c
  /\ Proceed(c, "recheck")
  /\ UNCHANGED <<mutex, disk, marks, local, child, bounds>>

\* Mutant: what was read before the lock is used after it.
RecheckStale(c) ==
  /\ stage[c] = "recheck"
  /\ Proceed(c, "install")
  /\ UNCHANGED <<locks, local, disk, marks, child, bounds>>

Recheck(c) ==
  /\ stage[c] = "recheck"
  /\ depsReady' = [depsReady EXCEPT ![c] = NodeDepsReady]
  /\ engineReady' = [engineReady EXCEPT ![c] = EngineSentinelExists(EngineOf[c])]
  /\ IF BothReady(c) THEN Leave(c, "ready")
     ELSE Proceed(c, "install") /\ UNCHANGED locks
  /\ UNCHANGED <<disk, marks, child, bounds>>

SkipDeps(c) ==
  /\ stage[c] = "install" /\ depsReady[c]
  /\ Proceed(c, "engine")
  /\ UNCHANGED <<locks, disk, marks, local, child, bounds>>

\* Mutant: the deps sentinel is written before npm install.
RunNpmMarksFirst(c) ==
  /\ stage[c] = "install" /\ ~depsReady[c]
  /\ child' = [child EXCEPT ![c] = "npm"]
  /\ depsMark' = TRUE
  /\ Proceed(c, "npm")
  /\ UNCHANGED <<locks, disk, engineMarks, local, bounds>>

RunNpm(c) ==
  /\ stage[c] = "install" /\ ~depsReady[c]
  /\ child' = [child EXCEPT ![c] = "npm"]
  /\ Proceed(c, "npm")
  /\ UNCHANGED <<locks, disk, marks, local, bounds>>

MarkDeps(c) ==
  /\ stage[c] = "markDeps"
  /\ IF TestPackage \in packages
       THEN /\ depsMark' = TRUE
            /\ Proceed(c, "engine")
            /\ UNCHANGED locks
       ELSE /\ Leave(c, "unavailable")
            /\ UNCHANGED depsMark
  /\ UNCHANGED <<engineMarks, disk, local, child, bounds>>

SkipEngine(c) ==
  /\ stage[c] = "engine" /\ engineReady[c]
  /\ Leave(c, "ready")
  /\ UNCHANGED <<disk, marks, local, child, bounds>>

RunNpx(c) ==
  /\ stage[c] = "engine" /\ ~engineReady[c]
  /\ child' = [child EXCEPT ![c] = "npx"]
  /\ Proceed(c, "npx")
  /\ UNCHANGED <<locks, disk, marks, local, bounds>>

\* Mutant: the sentinel is not named after the engine.
MarkEngineByProcess(c) ==
  /\ stage[c] = "markEngine"
  /\ engineMarks' = engineMarks \cup {ProcessOf[c]}
  /\ Leave(c, "ready")
  /\ UNCHANGED <<depsMark, disk, local, child, bounds>>

MarkEngine(c) ==
  /\ stage[c] = "markEngine"
  /\ engineMarks' = engineMarks \cup {EngineOf[c]}
  /\ Leave(c, "ready")
  /\ UNCHANGED <<depsMark, disk, local, child, bounds>>

(* npm is not in PATH, the directory, the lock file, package.json or a     *)
(* sentinel cannot be written.                                             *)
Fails(c) ==
  /\ stage[c] \in {"check", "flock", "install", "markDeps", "markEngine"}
  /\ faults < MaxFaults
  /\ faults' = faults + 1
  /\ Leave(c, "unavailable")
  /\ UNCHANGED <<disk, marks, local, child, wipes>>

-----------------------------------------------------------------------------
(* External: the installers.  npm adds one package at a time and succeeds  *)
(* when all are there; npx downloads one binary.  Either may fail or be    *)
(* killed with the context, and either works on when its parent is dead.   *)

Extract(c) ==
  /\ child[c] = "npm"
  /\ \E p \in Package \ packages : packages' = packages \cup {p}
  /\ UNCHANGED <<stage, locks, engines, marks, local, child, bounds>>

NpmExits(c) ==
  /\ child[c] = "npm"
  /\ packages = Package
  /\ child' = [child EXCEPT ![c] = "none"]
  /\ IF stage[c] = "npm" THEN Proceed(c, "markDeps") ELSE UNCHANGED stage
  /\ UNCHANGED <<locks, disk, marks, local, bounds>>

NpxExits(c) ==
  /\ child[c] = "npx"
  /\ engines' = engines \cup {EngineOf[c]}
  /\ child' = [child EXCEPT ![c] = "none"]
  /\ IF stage[c] = "npx" THEN Proceed(c, "markEngine") ELSE UNCHANGED stage
  /\ UNCHANGED <<locks, packages, marks, local, bounds>>

InstallerFails(c) ==
  /\ child[c] # "none"
  /\ faults < MaxFaults
  /\ faults' = faults + 1
  /\ child' = [child EXCEPT ![c] = "none"]
  /\ IF stage[c] \in {"npm", "npx"}
       THEN Leave(c, "unavailable")
       ELSE UNCHANGED <<stage, locks>>
  /\ UNCHANGED <<disk, marks, local, wipes>>

(* External: the kernel drops a killed process's locks, and the user may   *)
(* clear node_modules or the engine cache; the sentinels stay behind.      *)
Kill(p) ==
  /\ \E c \in Call : ProcessOf[c] = p /\ stage[c] \notin Finished
  /\ faults < MaxFaults
  /\ faults' = faults + 1
  /\ stage' = [c \in Call |-> IF ProcessOf[c] = p THEN "dead" ELSE stage[c]]
  /\ mutex' = [mutex EXCEPT ![p] = Nobody]
  /\ flock' = IF flock # Nobody /\ ProcessOf[flock] = p THEN Nobody ELSE flock
  /\ UNCHANGED <<disk, marks, local, child, wipes>>

Wipe ==
  /\ wipes < MaxWipes
  /\ wipes' = wipes + 1
  /\ \/ packages' = {} /\ UNCHANGED engines
     \/ engines' = {} /\ UNCHANGED packages
  /\ UNCHANGED <<stage, locks, marks, local, child, faults>>

CallStep(c) ==
  \/ LockMutex(c) \/ Check(c) \/ LockRunner(c) \/ Recheck(c)
  \/ SkipDeps(c) \/ RunNpm(c) \/ MarkDeps(c)
  \/ SkipEngine(c) \/ RunNpx(c) \/ MarkEngine(c)

Install(c) == Extract(c) \/ NpmExits(c) \/ NpxExits(c)

RunnerNext ==
  \/ \E c \in Call : Start(c) \/ CallStep(c) \/ Fails(c) \/ Install(c) \/ InstallerFails(c)
  \/ \E p \in Process : Kill(p)
  \/ Wipe

RunnerSpec == RunnerInit /\ [][RunnerNext]_runnerVars

(* A call that can go on does, and an installer ends.                      *)
FairRunnerSpec ==
  /\ RunnerSpec
  /\ \A c \in Call : WF_runnerVars(CallStep(c)) /\ WF_runnerVars(Install(c))

-----------------------------------------------------------------------------
(* Types of every variable.                                                *)
RunnerTypeOK ==
  /\ stage \in [Call -> {"idle", "check"} \cup Waiting \cup Locked \cup Finished]
  /\ mutex \in [Process -> Call \cup {Nobody}]
  /\ flock \in Call \cup {Nobody}
  /\ packages \subseteq Package /\ engines \subseteq Browser
  /\ depsMark \in BOOLEAN /\ engineMarks \subseteq Browser
  /\ depsReady \in [Call -> BOOLEAN] /\ engineReady \in [Call -> BOOLEAN]
  /\ child \in [Call -> {"none", "npm", "npx"}]
  /\ faults \in Nat /\ wipes \in Nat

(* runner.go:68-69 "an flock on .install.lock serialises concurrent        *)
(* installs": two installers run at once only after a process was killed   *)
(* and left its own behind.                                                *)
InstallsSerialised ==
  \A c, d \in Call :
    c # d /\ child[c] # "none" /\ child[d] # "none" =>
      stage[c] = "dead" \/ stage[d] = "dead"

(* runner.go:60-62: a call that returns the directory has guaranteed all   *)
(* the packages and its engine, whichever calls failed or were killed      *)
(* half-way before it, as long as nobody clears a cache by hand.           *)
Guaranteed(c) == stage[c] = "ready" => packages = Package /\ EngineOf[c] \in engines

EnsuredUnlessWiped == wipes = 0 => \A c \in Call : Guaranteed(c)

(* runner.go:62,113-119 "Idempotent per (deps, engine)": no call starts    *)
(* an installer for what another has installed while it waited.            *)
NothingInstalledTwice ==
  [][ wipes = 0 => \A c \in Call : child[c] = "none" =>
        /\ child'[c] = "npm" => ~NodeDepsReady
        /\ child'[c] = "npx" => ~EngineSentinelExists(EngineOf[c]) ]_runnerVars

(* Every call returns: no error path, killed process or waiting order      *)
(* leaves the mutex or the file lock taken.                                *)
EveryCallReturns == \A c \in Call : stage[c] = "mutex" ~> stage[c] \in Finished
=============================================================================
