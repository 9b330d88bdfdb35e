# Verification of quail-core

quail-core is the Go library under the quail CLI (`quail-review`) and its
multi-tenant web application (`quail-platform`): it crawls a web site or reads
source code, decides which tests to generate, renders them, and publishes them
as one pull request.  This directory holds TLA+ models of the parts of it whose
correctness depends on order, concurrency, failure or history, the TLC
configurations that check them on small instances, and TLAPS proofs of their
main properties for every instance.

Paths below are relative to the root of the repository; a line number is a line
of the file as it is beside this directory.

    tlc -workers 2 -config MC_OpenPR.cfg MC_OpenPR      # check one run
    tlapm OpenPRProofs.tla                              # check its proofs

## 1. Inventory

| Component | State it keeps | Operations | Interacts with | Hard behaviour | What makes it correct |
|---|---|---|---|---|---|
| `gh` publishing | none of its own; the bot branch and its pull requests on GitHub | `OpenPR`, REST path and `git`/`gh` command path | GitHub, the people on it, other invocations | several invocations share a branch without a lock; calls fail, replies get lost | a pull request describes files that were pushed; races are absorbed; a person's decision stands; a re-trigger converges |
| `mindmap` crawl | queue, page map, crawl order, errors | `Crawl`, robots and sitemap loading, URL resolution | the site, `probe` | redirects, duplicates, failing fetches, budgets | bounded, breadth first, on the origin, within robots.txt, no link lost |
| `mindmap` journeys, `probe` items | the map; a probe's plan items, which share its slices | `IdentifyJourneys`, prompt filter, `itemFromJourney` | crawl, `prompt`, `gen` | priorities, caps and deduplication; aliasing of slices | caps per kind, best kind keeps a page, forms where they belong |
| `probe` orchestration | `QUAIL_BROWSERS` in the environment; per-origin results | `RunAll`, static/browser modes, engine cascade | `mindmap`, `probe/browser`, `gen` | fallbacks of fallbacks, partial results, a process-global variable shared by goroutines | best attempt kept, no silent failure, sensible default engine |
| `probe/browser` runner | a directory of packages, engines and sentinel files | `EnsureRunner`, the node sidecar | npm, npx, other processes | mutex + file lock, crash between install and sentinel, orphaned installers | one installer at a time, ready means installed, nothing installed twice, everyone returns |
| `composer` | a directory of cached answers; the feedback of the ledger | `ProposeWithLadderAndCache`, `ClassifyWithLadderAndCache`, `DiskCache` | `llm`, `ledger` | writers race on one temporary path, killed writers, retries along a ladder | the cache is a lossy memo; the first rung that can answer does |
| `ledger` | a markdown table that people edit | `FindingsFromReport`, `Merge`, `NewFindings`, `EmitSentinels` | Playwright reports, `composer` | history over many runs, lossy text round trip | rows keep their history; regressions told from known debt |
| `probe` state | `.quail-probe-state.json` | `WriteState`, `ReadState`, `SuiteAlreadyCovers` | the CLI | crash while writing, expiry, order of URLs | an unchanged probe is skipped, a changed one never |
| `heal` | the test files, through its caller | `Run` in both modes, report reading, ranking of candidates, rewriting | Playwright reports, `diff`, `llm` | report and page are older than the file; which locator failed is guessed from text; several edits of one line | only what the report names is replaced, by something that is there |
| `merge` | the test file on disk, through its caller | `Append` for TypeScript, Python, Go | `gen` | repeated merges after any history of edits | merging again changes nothing |
| `diff` | none (pure) | `Parse`, `Intersects` | `plan`, `heal` | text that looks like the diff's own syntax | a plain hunk is read exactly, no file disturbs another |
| `plan` | none (pure); a Go map of groups inside `Build` | `Build`, `FilterByKinds`, page roots and grouping | `diff`, `ast`, `gen` | random order of a map, three places that emit items | every touched symbol tested once, in one framework, with what it needs to run |
| `gen` | none (pure) | `Render`, `GroupBDDPair` | everything above | which of many rules names an element | a test finds what the page has |
| `composer` replies | none (pure) | `Parse`, `Validate`, `ValidateAgainst`, `Dedup` | `llm`, `probe` | truncated and malformed replies, wrong assertions | what fits is kept, what the page refutes is dropped |
| `llm` | none | `Humanize`, `HumanizeSuite`, chat client | model servers, `composer`, `gen` | any part of a text replaced; features and steps rewritten together | every step that is left has its definition |
| `prompt`, `compat`, `integration`, `config` | none | prompt narrowing, versions, settings | model servers | — | — |
| `ast`, `openapi`, `asyncapi`, `graphql`, `grpc`, `log` | none | parsers of source and schemas, logging | files | — | — |

The components in the order of what can go wrong between steps, rather than
inside one: publishing, the shared runner, the shared cache, the orchestration of
crawls, the crawl, the ledger, the journeys; then the way of a test: from a diff to
a plan, from a plan to a file that is merged, run and healed, and from a model's
reply to a suite.  That is the order of the plan.  `PROJECT.json` lists every
package, and every hazard with its line.

## 2. Plan

Done:

| Step | Module | Composes | Abstract specification | Proofs |
|---|---|---|---|---|
| 1 | `OpenPR` | — | — | `OpenPRProofs` |
| 2 | `SiteURLs`, `Crawl` | MC_Crawl feeds `SiteURLs` into `Crawl` | — | `MindmapProofs` |
| 3 | `ComposerCache` | — | `Memo` | `ComposerProofs` |
| 4 | `Runner` | — | — | `ProbeProofs` |
| 5 | `Journeys` | crawl map → journeys → filter → items | — | `MindmapProofs` |
| 6 | `Ledger` | report → table → regressions, sentinels | — | `LedgerProofs` |
| 7 | `Probe` | modes, cascade and environment over abstract crawls | — | `ProbeProofs` |
| 8 | `Diff`, `Plan`, `Pages` | `Pipeline`: `diff` → `plan` → filter | `Unified` and `TrulyAdded`, what git writes and means | `PipelineProofs` |
| 9 | `Gen`, `Merge`, `Heal`, `Locators` | `Suite`: page → test → merge → run → heal, with the marker of `probe/state.go` | — | `SuiteProofs` |
| 10 | `Composer`, `Humanizer` | `Scenarios`: reply → scenarios → suite → humanized suite | — | `ComposerProofs` |
| 11 | `Filtering` | the loop that keeps part of a slice, in Crawl, Journeys, Merge, Composer, Plan and Pages | — | `FilteringProofs` |

Left, in order:

1. Output paths of `probe` (`probe/probe.go` 2100-2174) and the families of items
   other than journeys: which items collide at one path.
2. Tagging of pages (`mindmap/tag.go`), the input of `Journeys`.
3. Composition: `Probe` over `Runner` (an engine that cannot be ensured is the
   "unavailable" of the cascade) and over `Crawl`.
4. The other templates of `gen/gen.go`.

Every invariant and action property of a run is stated by a theorem; liveness is left
to TLC.

## 3. The modules

### OpenPR — `gh/gh.go`, `gh/openpr_shell.go`

One action per remote call of `Client.OpenPR`, because another invocation, a
person or a fault can come between any two.  State: where each invocation is
(`pc`), the pull request it is about to edit (`target`), the base it started
from (`parent`), and GitHub: `base`, `branch`, `prs`.

* REST path: `GetRef`, `BuildCommit` (blob, tree and commit objects, unreachable
  until a ref moves, so one action), `CreateRef`, `UpdateRef` (forced, when the
  ref exists), `Precheck`/`EditPR` (`updateExistingPR` before creating),
  `CreatePR`, `Fallback` (`updateExistingPR` again, after "already exists").
* Command path, on Actions runners: `Clone`, `CommitFiles`, `Push`, `ShPrecheck`,
  `ShEdit`, `ShCreate`.
* Faults: `CallFails`, `ReplyLost` (the call took effect, its reply is lost),
  `Crash`.  People: `MergePR`, `ClosePR`, `DeleteBranch`, `CommitToBase`.
* `SendsWorkflows` and `Refused` are the filter of workflow files and GitHub's
  refusal of them.

History variables: `pushed` (whose files have been the head), `alone` (who has
run undisturbed so far), `published`.

### Filtering

`Only(s, T)` is Go's loop that appends to a new slice what passes a test, as a
recursive function over the prefixes of the slice.  Crawl, Journeys, Merge,
Composer, Plan and Pages use it where a proof has to unfold the loop; `SelectSeq` has
no definition the provers can use.  `IsList(q)` says that `q` is a sequence, of
whatever it holds.

### SiteURLs and Crawl — `mindmap/mindmap.go`, `sitemap.go`, `robots.go`

`SiteURLs` has the pure functions: `CanonicalURL`, `AbsoluteSameOrigin` with
`ResolveLinkHref`, the avoided paths, `AllowPath` (longest prefix wins),
`SitemapURLs` (nested indexes, caps).  A URL is a host, a sequence of segments
and a trailing slash.  `Crawl` is the loop of `mindmap.Crawl`: `LoadRobots`,
`Seed`, then one of `SkipSeen`, `FetchFails`, `FetchSeen` (redirected to a known
page), `Record`, until `Finish`.  `Crawl` takes the site as functions (`Served`,
`Links`, `Permitted`, `SeedLists`); MC_Crawl computes them with `SiteURLs` from
hrefs, a robots file and three sitemaps.

### Memo and ComposerCache — `composer/ladder.go`, `cache.go`, `composer.go`, `classify.go`

`Memo` is the promise: a store whose entries are missing or an answer won for
that key.  `ComposerCache` is the code: `Get`; the walk along the ladder with
`ChatFails`, `ChatEmpty`, `ChatAnswers` and the retry inside a rung; then `Put`
as `OpenTmp`, `Write`, `Rename` on files.  A path names an inode; all writers of
a key share `<key>.json.tmp`; a writer keeps its inode when the path is renamed
under it; a shorter text written over a longer one leaves a tail, which is what
makes an entry unreadable.  The refinement maps the store to what a reader can
decode (`Read`) and a caller's result to `given`.

### Runner — `probe/browser/runner.go`, `flock_unix.go`

`LockMutex`, `Check` (the fast path without the file lock), `LockRunner`,
`Recheck`, `SkipDeps` or `RunNpm` and `MarkDeps`, `SkipEngine` or `RunNpx` and
`MarkEngine`, `Leave` (deferred unlocks), `Fails`.  npm and npx are processes of
their own (`Extract`, `NpmExits`, `NpxExits`, `InstallerFails`), and outlive a
killed parent (`Kill`) while the kernel drops its locks.  `Wipe` is a user who
clears `node_modules` or the engine cache.

### Probe — `probe/probe.go` (584-933), `probe/browser_probe.go`

`NextOrigin`, `StaticCrawl` (any result a static crawl may have: `StaticCrawls`),
`RunEngine` (one engine of the cascade, any result of `BrowserCrawls`), `Getenv`
and `Setenv` (the two halves of `rememberWinningEngine`, between which another
goroutine may run), `Exhausted` (what each mode does when no engine saw a page),
`Emit`.  History: `tried` (what each engine returned), `user` (the variable as
the user set it), `winners`.

### Journeys — `mindmap/journey.go`, `probe/probe.go` (931-978, 1869-2016)

`Identify` runs the ten finders, in order of priority and with their caps, and
`DedupJourneys`; `Narrow` applies the prompt; `BuildItem` makes one plan item.
Anchors of a page are a Go slice all items share: `cells[u]` is the array under
it, and a symbol holds only its length, so that what `withoutForm` does to the
array in place is seen through every other symbol.

### Ledger — `ledger/ledger.go`, `sentinels.go`

`Update` reads, merges and writes the table; `RunSuite` brings a report of a
later day; `SetStatus` and `DeleteRow` are edits by hand.  Cells are modelled as
far as reading them back: `SymptomFrom` escapes a pipe, `Unescaped` removes the
escape, writing puts none back, and a row without seven cells is not read.
History: `since`, `chosen`, `marred`.

### Diff, Plan, Pages and Pipeline — `diff/diff.go`, `plan/plan.go`, `pages.go`, `kinds.go`

`Pipeline` is `plan.Build`: `ParseDiff`, `BuildFile` for each file of the diff
(`PickTemplate`, `TestPathFor`, `FanOutAspects` of `Plan`), `Match` (`groupByPage`,
with `FindPageRoots` and `MatchComponents` of `Pages`), `MaterialiseGroup` for the
groups of the Go map in any order, `Assemble` (page roots that no item covers,
multi-step flows) and `Filter`.  Where the code sorts by a key that does not tell
all elements apart (`ByLine`, `FindPageRoots`) or ranges over a map of URLs
(`ApplyPageURLOverrides`), any order that agrees with the key is a behaviour.  `Added`
is what a caller adds to the plan, step definitions only to a suite in Gherkin
(`companionItems`).  `Diff` is `diff.Parse` as one `Scan` per line; its
second half writes a diff as git does (`Unified`) and says which lines are really
added (`TrulyAdded`), the reference the parser is compared with.  A file is
`Plain` if `Parse` can count it: see the divergences for what it miscounts.
A symbol begins and ends on the lines its extractor recorded, and 0 stands for a
line it did not record, as it does in the code.

### Gen, Merge, Heal, Locators and Suite — `gen/gen.go`, `merge/*.go`, `heal/*.go`, `probe/state.go`

`Suite` is the life of one test file: `Start` (skip, or probe: `SuiteAlreadyCovers`),
`Write` (`Render` of `Gen`, `AppendTo` of `Merge`, or a sibling file), `WriteState`,
`Crash`, `Tick`; people who change the page (`ChangeSource`) and the file
(`UserStarts`, `UserAdds`, `UserDeletes`); `RunTests`; `HealOnFailure` and `HealDiff`.
A file is imports and blocks, a block is lines of locators; a locator is an
attribute and the words it names, which is what `Heal` ranks by and what a page
has or lacks (`Finds`).  A title has the symbol of its page, in letters of which
some are capitals; `Lowered` is what `normalizeForDedup` does to a title with a dash
behind the symbol, and leaves other titles alone.  A report has a result per try and
for each error the locators its message and snippet mention (`ErrorOf`), of which
`LocatorFailures` takes the first; the line is where the test is declared.
Anchors are those of all UI files: `AnchorsBefore` and `AnchorsAfter` stand for the files that are walked
before and after the page's own, `UIFiles` for those a diff touches.
History: `last` (what was merged last), `done` (the last probe that ended).

### Composer, Humanizer and Scenarios — `composer/composer.go`, `step_patterns.go`, `gherkin_safe.go`, `llm/llm.go`, `humanize_suite.go`, `gen/bdd_pair.go`

`Scenarios` is a probe's way from replies to a suite: for each journey `Propose` or
`ProposeFails` (twice), `Check` (`Validate`, `ValidateAgainst`, `Cap`), then `Emit`
(`Dedup`, the features and the step definitions, once per origin) and
`HumanizePair`, `HumanizeEach` or `HumanizeFails`.  A reply is an array of objects
that parse, parse once sanitised, break when sanitised, never parse or do not end;
a step is words and quoted texts; a pattern is words and shapes of parameters.
A rewrite replaces every occurrence of a word, in steps, quoted texts, patterns and
handlers (`RewriteWord`), of a whole pattern (`RewritePattern`), or of a whole line
by any lines or none (`RewriteWhole`): a keyword or a header lost, a step cut in two
or dropped.

## 4. Runs

| Run | Asks | Instance and bounds | Distinct states |
|---|---|---|---|
| `MC_OpenPR` | publishing under races, faults and people | two REST invocations and one command-path one, two suites, one with a token without the workflow permission; one fault, one touch | 260,644 |
| `MC_Crawl` | the crawl of one site | a disallowed section, an avoided path, a cycle, links off the origin, a redirect to a known page, one to another host, a nested sitemap; 5 pages, depth 3 | 4,838 |
| `MC_ComposerCache` | the shared cache | three calls, two of them on one key, ladders of up to two rungs, answers of two lengths; one fault | 459,441 |
| `MC_Runner` | the shared runner | two processes, three calls, two engines, two packages; two faults, one wipe | 64,615 |
| `MC_Probe` | modes and cascade | one goroutine in auto mode with two engines, one in always mode with one engine and two origins; two pages, one disallowed | 2,919,714 |
| `MC_Journeys` | identification and items | every map of four pages drawn from four landing pages and eight kinds of inner pages; caps 1 and 2, three prompts | 45,114 |
| `MC_Ledger` | the table over time | three tests, one with a pipe in its title, messages with and without pipes, several attempts; three days, two edits | 257,099 |
| `MC_Pipeline` | from a diff to the plan | every hunk of at most three lines of nine kinds beside another file; edits, creations, renames and removals of two pages and two components, three layouts, three styles; symbols with and without recorded lines; filters and URLs given by hand | 14,747 |
| `MC_Suite` | the life of a test file | a page in three versions (form, links, neither) beside another UI file, its symbol in two spellings, a function in two versions, four languages; soft checks whose errors name the locator and hard ones whose errors do not; two changes by people, two tries, a file of at most seven blocks | 98,128 |
| `MC_Scenarios` | from replies to a suite | two journeys over four pages; every walk of two steps behind the landing page, and of three that end in an assertion; every state of three objects of a reply, closed or cut off; 108 answers to the request to humanize; up to two origins | 39,994 |

These pass.  Two runs show a bug, each with one property that TLC violates:

| Run | Statement | What the code does |
|---|---|---|
| `MC_Journeys_form` | `probe/probe.go:1895-1896`: form-goal kinds keep the form intact | `kept := s.Anchors[:0]` (1979) overwrites the array they share with navigation journeys |
| `MC_Ledger_kept` | `ledger/ledger.go:245-246`: findings not in the batch are kept | a symptom with a pipe is unescaped when read and not escaped when written, so its row is dropped by the next merge but one |

What the properties of the passing runs say:

* **OpenPR.** `DescribesPushedFiles`: no pull request is opened or retitled by an
  invocation whose files were never the head.  `RacesAreAbsorbed`: without faults
  and people the REST path fails only for want of the workflow permission.  `UndisturbedSuccess`: after an
  undisturbed success every open pull request carries that invocation's files and
  title.  `DecisionsStand`: closed and merged stay so.  `EventuallyReturns`.
* **Crawl.** `OrderListsPages`, `PageBudget`, `BreadthFirst`,
  `PermittedLinksAsked` (robots.txt is kept to, and no permitted link is lost),
  `Terminates`.
* **ComposerCache.** `IsLossyMemo` (refines `Memo`), `FirstRungWins`,
  `WinsAreCached`, `EveryCallReturns`.
* **Runner.** `InstallsSerialised`, `EnsuredUnlessWiped`, `NothingInstalledTwice`,
  `EveryCallReturns`.
* **Probe.** `BestAttemptWins`, `NoSilentFailure`, `DefaultIsAWinner`.
* **Journeys.** `CapPerKind`, `BestKindKeepsPage`, `NavigationNeverSubmits`.
* **Ledger.** `RowsRemember` and `JudgedByHand`, of tests that bring no pipe into
  the table.
* **Pipeline.** `TouchedAreTested`: of a plain file exactly the symbols are planned
  in whose recorded lines a truly added one is, whatever stands in the files around
  it.
  `EachComponentOnce`: grouping loses no component and tests none twice, in every
  order of the map.  `OneFramework`: Gherkin if and only if the project is set up
  for it.  `FilteredSuiteRuns`: a filter never drops the step definitions of a
  journey it keeps, and keeps nothing that is denied, sentinels as little as tests.
* **Suite.** `RerunIsNoop`: merging the last chunk again changes nothing, after
  any edits around it, nor does the same chunk in another spelling of the symbol if
  only titles with a dash have it.
  `HeaderOnlyBehindReport`: a header is repeated only where a quality report hides
  it.  `HealsOnlyReported`: healing on failure replaces only a locator that an error
  of the report mentions first, and both modes write only the body or what some UI
  file has now, however old the report is.  That it failed, or that the substitute is
  on its page, cannot be said.
  `SkipIsFresh`: a probe is skipped only for a recent one of the same URLs that
  ended.
* **Scenarios.** `CompleteScenariosKept`: every complete scenario of a broken reply
  is read.  `RefutedAreDropped`: no scenario is kept with a text that the page it is on
  refutes, unless it went astray before (`Astray`: its last move is one validation
  does not follow); and one that is dropped has such a text, or went astray and has
  one the page named last refutes.  `StepsStayDefined`: each step humanizing leaves in
  a feature that could run has a definition, in a pair always, alone unless a value
  was emptied or the header was lost (`Unguarded`); handlers are as they were.

**Why the bounds are enough.** A race over one object takes two; every run has
two or three actors and, where kinds differ, one of each (REST and command
path, propose and classify, auto and always). A fault matters for what comes
after it: one lost reply or crash, then a re-trigger, reaches every state an
attempt can leave behind. Runner has two faults, so that a killed parent and a
failing installer meet. The crawl's budget of 5 is below the number of
reachable pages, and its depth of 3 is reached. Ledger needs three merges to
lose a row that has been read back once, hence three days. A merge that is not
idempotent shows at the second of two, a stale report after one change; two
changes by people, of four kinds, fall before, between and after the merges.
Three lines of a hunk are enough for an odd line between two others, and a
second file behind it shows what leaks. A truncated reply needs an object
before, at and behind the break: three. Nothing in the modules fixes a size;
the bounds (`MaxFaults`, `MaxTouches`, `MaxWipes`, `MaxEdits`, `MaxDay`,
`MaxChanges`, `MaxBlocks`, `Horizon`, `Tries`, `Failing`, `N`, `StateTTL`, `MaxPages`,
`MaxDepth`, `MaxRungs`) are constants, of which `MaxPages`, `MaxDepth`,
`MaxRungs`, `N` and `StateTTL` are the program's own.

**Deadlock** is not checked where a program ends: every run reaches states in
which all calls have returned.  What should not stop is a liveness property.

**Fairness.**

* OpenPR: weak fairness of every invocation's next call (REST and git calls have
  time-outs or fail) and of starting it again after a failure: CI and operators
  re-trigger.  Faults and people are unfair and bounded.
* Crawl: weak fairness of the loop; `probe`'s client bounds a fetch at 10 s.
* ComposerCache: weak fairness of each call's next step; a chat is bounded by the
  model time-out, and no other step blocks.  Starting a call is not fair.
* Runner: weak fairness of each call's next step and of the installers, which
  end.  A waiting call could be overtaken only by calls that start again after a
  failure; failures are bounded in the model, and Go's mutex hands over to a
  starved waiter.  Starting a call is not fair.
* Probe, Journeys, Ledger, Pipeline, Suite and Scenarios: safety only.  The last
  three have no loop of their own that could fail to end, or are driven by people.

## 5. Proofs

Every theorem is of the specification without fairness and for all values of the
constants under the module's ASSUMEs, which TLC evaluates on every run.  Journeys,
Scenarios and Runner name their formulas `JourneysSpec`, `ScenariosSpec` and
`RunnerSpec`, since the proofs of a package extend its modules side by side; the
systems share no state.

* **OpenPRProofs.**  `TypeCorrect`, `TitlesFollowPushes`.  `DescribesPushedFiles`
  alone is not inductive: an invocation about to open or edit a pull request must
  be known to have pushed.  `IInv` adds `PushedFirst` (the steps after the push
  are reached only by invocations in `pushed`) and `OpenHasHead` (an open pull
  request has a branch).  One lemma per group of actions.  `DecisionsAreFinal` follows
  step by step from the types (`DecisionStep`).  `SuccessPublishes` rests on `AInv`:
  at most one pull request is open, and an invocation in `alone` is the only active
  one, its commit is the head once it has pushed, and the pull request it found is
  open; `Owes` is what each of its steps must establish.  `RacesAbsorbed` adds
  `HeadStays`: until a person acts, a head stays where it is or is replaced by another
  that is ahead of the base, and what `Fallback` lists is still there.
* **FilteringProofs.**  What `Only` yields: `OnlyInduction` (what holds of nothing and
  stays with every element holds of the result), and from it `OnlyElements`,
  `OnlyTyped`, `OnlyCounts`, `OnlyPrefix`, `OnlyAscending`.  Induction is over sets of
  naturals: `Least` and `SetInduction` come from the well-foundedness of `<`, and
  `RecursiveFunction` shows that a definition over `0..n` in terms of the value
  before defines a function.  `FlattenInduction` is the same for `FlattenSeq` of the
  community modules; `ListAppend`, `ListConcat`, `ListOnly` and `FlattenList` say what
  lists hold, `OnlyPairs`, `ConcatPairs` and `FlattenPairs` what any two elements of
  one have in common.  `FlattenPlaces` says where each element of the parts stands in
  the joined list, and `SamePlaces` that parts of equal lengths stand at equal places.
* **MindmapProofs.**  Of the crawl: `OrderAndPagesAgree`, `WithinBudget`, from
  `OrderInv`: `order` is a sequence of the pages, and what is appended is new.
  `WalkIsBreadthFirst`, from `DepthInv`: the queue is ordered by depth and within one
  level of its head (`ByDepth`, `InBand`), and no page is deeper than what is queued.
  `AllowedLinksAreAsked`, from `AskedInv`: what is asked for or queued is allowed, and
  of each link of an expanded page `LinkKept`.
  Of the journeys, under the assumption on the sites: `KindsAreCapped` and
  `BestKindsStay`, from `JourneysInv`.  Each finder returns at most `cap` journeys of
  its kind (`FoundParts`), so a kind fills one interval of the candidates
  (`CandidatesShape`); deduplication keeps the indices nothing beats, each once and by
  rank (`KeptShape`), hence an injection into the candidates and, by `SlotHasBest`, a
  best journey for each slot; a prompt makes no kind more frequent (`OnlyCounts`).
  `NoFormOnTheWay`, from `ItemsInv`: every item of a navigating journey looks at a
  prefix without a submit button of an array, and compacting moves nothing before the
  first of them (`CompactShape`).
* **ComposerProofs.**  `LossyMemo`: `Spec => Memo!Spec` under the refinement
  mapping.  `CacheInv` is what files can hold and calls can carry: `KeyInv`, every
  path and descriptor of a key leads to an inode made for that key, and an inode
  holds nothing or an answer won for it; `CallInv`, a call past the ladder has an
  answer won for its key and, past `OpenTmp`, an inode.  `RefStep` then maps every
  step to `Win`, `Settle`, `Leave` or a stutter, with one lemma for the keys a step
  does not touch (`OtherKeysUntouched`).  `LoneWinsAreCached` adds `LoneWriter`: the
  temporary path of an undisturbed writer still leads to the inode it opened, which
  is empty before the write and whole after it.
  `FirstRungAnswers`, from `LadderInv`: each rung before the one at hand has given up,
  on every chat it is allowed, and a call has noted one error for each chat before.
  Of the replies, for any journeys, replies and step definitions of the assumption of
  Scenarios: `CompleteObjectsAreRead` and `OnlyRefutedAreDropped`, from `ReplyInv`
  (what is to be checked was read from a reply to a request for this journey).  The
  first unfolds the search for complete objects, the second the loop over the steps:
  until an assertion is refuted, the page the loop is at is the one named last
  (`LoopIsRight`), and that is where the browser is unless a later move led away from
  it (`NamedIsRight`).  The theorem says so of every scenario and names the rest
  (`Astray`) instead of assuming it away.
  `HumanizedSuiteRuns`, from `SuiteInv`: what is composed are lists of steps, and the
  batch is two features before the step definitions until it is humanized.  A rewrite
  may lose, add or change any line; what it leaves are lines (`RewrittenLines`).  In a
  pair every step matches a pattern of the new definitions, which are the ones written
  last (`SafeAgainstRuns`, `WhichFiles`).  Alone, a feature with a header is held
  against the frozen list, so the theorem needs what links that list to the step
  definitions (`StepDefsAssumption`): every pattern of it has a definition in
  `pw_steps_bdd.tmpl` with as many parameters, which takes all texts but empty ones
  (`RegisteredRun`).
* **ProbeProofs**, of the runner.  `RunnerTypeCorrect`, `Serialised`, `Ensured`,
  `InstalledOnce`.  `LockInv`: a call in the locked part holds the file lock, and an installer
  belongs to the call that waits for it or to a dead one.  `MarkInv`: the flags a
  call read still agree with the sentinels.  `DiskInv`: unless something was
  wiped, a sentinel implies what it stands for, and so does the place a call has
  reached.  `FreshInv`: what a call decided to install under the lock is still
  missing when it starts the installer.
* **LedgerProofs.**  `RowsAreKept`, `JudgedRight`.  `IInv` is `Shape` (fields of
  rows, which tests have rows), `PlainRows` (a test outside `marred` has a plain
  row, so it is read back as it was written), `Unjudged` (who has no row has no
  judgment) and `RowsRemember`.
* **ProbeProofs**, of the orchestration.  `TypeCorrect`, `NothingSilent`, `DefaultsAreWinners`, `BestAttempts`.  `IInv`
  says, for each prober, what the step it is at implies: `CascadeInv` (engines
  are left, or a map was settled on and its engine is a winner), `ModeInv` (an
  escalation in auto mode has a static result to fall back on), `ResultInv` and
  `EnvInv` (only an unset variable is set).  `BestAttempts` adds `AttemptInv`: until
  the cascade settles, no attempt got through and the partial map kept is the first
  largest of those made (`KeptIsBest`).  Sizes compare because a site has finitely
  many pages (`CascadeAssumption`).
* **SuiteProofs.**  `SkipsAreFresh`.  `SkipIsFresh` compares a decision with the last
  probe that ended; what carries it is `MarkerIsLast`, that a marker that can be read
  is the one that probe wrote: a crash leaves the old one or one that cannot be read,
  and nothing but `WriteState` and `Crash` touches it (`OthersKeepTheMarker`).
  `HeadersNeverRepeat` and `RerunsChangeNothing` rest on `FilesInv`: what a header is
  followed by in the file, and that the chunk merged last is in it as far as people
  left it (`LastIsIn`), whatever was merged, edited or healed since; each language has
  its own lemma about merging (`MergedTS`, `MergedPython`, `MergedGo`).  Another spelling
  of the symbol lower-cases to the same chunk only if all titles that have it have a
  dash behind it (`OtherSpelling`, `SameChunk`), which `RerunIsNoop` therefore asks for.
  `OnlyReportedAreHealed` adds `ListsInv`: a report is a list of results with lists of
  errors, and the steps of each test of a TypeScript file are a list, given that the
  anchors and inputs of the pages are (`PagesAssumption`).  Its argument follows the
  code.  A best candidate is a call made from one of the anchors given, hence finds it
  (`CandidatesFind`, `BestIsACall`), and those given are of UI files as they are
  (`AnchorsListed`).  Every edit is made from a line of the file as it was read and
  changes one call, which on failure is the first of an error of the report
  (`FailuresMention`, `LocatorRewritten`, `FailureEdits`, `DiffEdits`); two edits of one
  line overwrite each other and never chain (`EditsWritten`).  What is written is a file
  with exactly those lines, whatever its tests (`LinesWritten`, from where each block
  begins, `FileLines`), so that the two files can be compared line by line
  (`HealedLines`).

* **PipelineProofs.**  All four properties of the planner, for any number of files,
  hunks, lines, symbols, page roots and URLs, under `InputsAssumption` (what git
  writes: no two changes of one new file, lines counted from 1), `SymbolsAssumption` (no
  two components of a file begin on one line; first and last line may each be 0, not
  recorded, but a component's first line is) and `CompanionsAssumption`.
  `OneFrameworkHolds` and `FilteredSuiteRunsHolds` rest on `FrameInv`: every list of
  items is `SoundItems`, a step definition comes with the caller's items, and a filter
  keeps it (`FilteredShape`).
  `TouchedAreTestedHolds` has two halves.  `ParseReads` is about one diff: `Parse` of
  what `Unified` writes has one entry per change that is not removed, and that of a
  plain change covers exactly `TrulyAdded`.  It is proved line by line: a body line of a
  plain hunk advances the count by one exactly if it is of the new file (`ScanBody`,
  `UpToStep`), ranges merge without loss (`MergeShape`), and no line of a body closes
  the file (`ScanInner`).  `PlanInv` carries it through the loop over files: each plain
  change is still `Pending`, as a file not planned yet that reads it, or `Done`, its
  touched symbols being those of the items, where a symbol without an end line is
  never touched; `WellPlanned` keeps the tests of components
  apart, which needs that no two files of a diff have one path (`FilesApart`).
  `EachComponentOnceHolds` rests on `OnceInv`.  While groups are left, each component is
  in one journey of the leftovers or of a page, or in one group (`Split`, `Leftovers`,
  from `MatchSplits`), and materialising any group in any order moves its components
  from one side to the other (`FoldNext`); assembling adds page roots, which begin on no
  line of a component and are of files no journey is of (`AssembledFinal`), and the
  filter only drops (`FilteredFinal`).

Model-checked only:

* liveness (`EventuallyReturns`, `Terminates`, both `EveryCallReturns`): out of
  the prover's reach.

## 6. Divergences

Where the code and a comment or the code around it disagree, besides the two that runs
show (section 4).  The models have the behaviour of the code in all of them unless an
entry says otherwise.  The first seven are statements a passing property comes close
to: it says what the code keeps of them and names the exception.

* `plan/plan.go:407-410`: `fanOutAspects` "emits the diff-mode aspect items for a
  Symbol", "plus the v0.26 additions: serialization round-trip for DTOs, constructor
  tests for classes, store tests".  Their extractors record no end line
  (`ast/ts/v026.go:62-70`, 94-102, 114-161; `ast/proto/proto.go:34-45` records neither
  line), and `diff.Intersects` (`diff/diff.go:124-127`) is false of 0: of a diff none of
  them is ever planned, nor a remote procedure.  `TouchedAreTested` speaks of recorded
  lines; the inputs of its run have such symbols.
* `plan/kinds.go:205-207`: sentinels "are never dropped by either list", and 51-52 and
  185 ("not user-filterable").  `isAlwaysKeep` has none since v0.99.1 (its comment,
  241-247, and `kinds_test.go:223-239`), so three comments are out of date.
  `FilteredSuiteRuns` follows the code.
* `composer/composer.go:458-460`: `ValidateAgainst` "only ever drops scenarios it can
  prove wrong".  Submitting a form, going back and opening the landing page again do
  not move the tracked page (473-480), so a right scenario is dropped if its next
  assertion does not fit the page it left, and a wrong one kept if it does.
  `RefutedAreDropped` names these steps (`Astray`).
* `composer/gherkin_safe.go:16-21`: steps without a definition are what `IsGherkinSafe`
  "is the defense" against.  Its list takes an empty value for a field
  (`composer.go:569`), the step definition (`pw_steps_bdd.tmpl:51`) does not: a feature
  humanized alone may lose a value and with it its definition.  `StepsStayDefined`
  names the case (`Unguarded`).
* `llm/llm.go:88`: "same structure, only title/comment strings differ".  Any substring
  is replaced (254-266).  The signature counts keywords of code and none of Gherkin, and
  both guards of features pass over lines without a step keyword
  (`step_patterns.go:112-114`): a step may lose its keyword, or be dropped, and a
  feature that loses its header is not looked at at all (`Unguarded`).
* `merge/ts.go:44-46`: a chunk is skipped that is the same "modulo symbol-name casing".
  `normalizeForDedup` lower-cases only what stands before the dash of `test.describe`
  (`strip_header.go:40`), while negative tests (`pw_happyflow.tmpl:277-279`, 299-301,
  327) and a describe without a kind of journey (21) have the symbol as well: the page
  of a form is appended once more in the other spelling.  `RerunIsNoop` leaves these
  spellings out (`OnlyDashed`).
* `heal/report.go:1`: heal "repairs broken Playwright locators".  What is broken is the
  first call in message, stack and snippet (80-81, 114-117), and the snippet shows the
  lines around: of a test of one line with two locators, the first may be replaced
  though the second failed.  `HealsOnlyReported` says "mentioned first".
* `mindmap/mindmap.go:6` promises "same-origin only"; a redirect's target is
  recorded unchecked (138-144).
* `composer/feedback.go:8-10`: the composer avoids what has repeatedly failed; the
  key of the cache omits the feedback and a hit is returned before it is looked at
  (`ladder.go:57`).
* `probe/probe.go:607-610`: the default is to honour robots.txt; the browser crawl a
  static one escalates to (816-824) is never told of it.
* `probe/state.go:66-69`: "Order and duplicates are normalised"; `normalizeURLs`
  (91-101) sorts and keeps duplicates, so the same URL given twice forces a probe.
* `gh/gh.go:205-285`: forcing the ref and editing the title are two calls; two
  invocations at once may leave the title of one suite over the files of the other,
  until one is triggered again.
* `ast/ast.go:34`: "1-based start line"; the extractors of TypeScript and Java join
  lines of unbalanced parentheses and go on counting from the first of them
  (`ast/ts/ts.go:79`, 501-514, `ast/java/java.go:96-108`), so that behind a declaration
  of several lines every recorded line is too small.  The models take recorded lines
  as given.
* `diff/diff.go`: an added line that begins with `++ ` is taken for a header and
  renames the file (56); one with `++x` advances the line but is not recorded as
  added (76, 85); a deleted `-- ` is a header as well (44), a deleted `--x` and git's
  remark on a missing newline advance the line (85).  Later ranges of the hunk are
  shifted.  `PlainHunk` names what is counted rightly.
* `plan/pages.go:315-327`: `app/page.tsx` gets the URL `/page.tsx`, since the suffix
  looked for begins with a slash, which `/app/` has already taken.
* `plan/pages.go:787-790` means to avoid double emission; a page whose own component
  is folded into a group behind another one is emitted again, because only the first
  symbol of an item counts as covered.  Two groups with one stem get one path.
* `heal/heal.go:50-63`: the line of a report is the declaration of the test, so a
  failing step on a line of its own is never healed; only one-line tests are.  The
  fallback of line 68 needs anchors of which none yields a candidate.
* `heal/heal.go:230-252`, 207-228: candidates are the anchors of every UI file of the
  project or the diff, so a test may be given a locator of another page; the reason
  written beside the edit (68-80) speaks of the suite and of "the page".
* `heal/heal.go:103-139`: an anchor that moved from one file of the diff to another
  counts as gone, since files are compared one by one.
* `merge/go.go:61`: imports of a generated file are merged although its functions
  are known and dropped; when a function gained a return value the merged file has an
  unused import and does not compile, where `merge/merge.go:5-6` promises `ok=false`.
* `merge/python.go`: tests are not deduplicated, a second merge adds them again.
  A doc comment of the user's at the top of the file makes the header pattern
  (`merge/strip_header.go:29`) reach to quail's further down and swallow what lies
  between, so the chunk is not recognised; `RerunIsNoop` leaves such files out.
* `composer/composer.go:560-600`: the prompt offers steps the frozen list refuses.  A
  step may match two definitions, which Playwright refuses as ambiguous; no guard looks
  for that.
* `composer/composer.go:399-407`: every reply is sanitised before it is parsed.
  Typographic quotes inside a text become plain ones, which breaks JSON that was valid,
  and texts that still parse are changed: an apostrophe, two commas in a row, a comma
  before a bracket.  Composer has the break and takes the rest as the same text, so
  `CompleteScenariosKept` says which scenarios are kept and not that their texts are
  to the letter.
* `llm/llm.go:254-266`: rewrites are applied one after the other to what earlier ones
  wrote, and to the whole file, code and texts alike.
* `llm/llm.go:348`: the deadline of `HumanizeAll` allows each file its full time-out
  and so never passes; `HumanizeSuite` does not look at `QUAIL_HUMANIZE=0`.
* `gen/bdd_pair.go:29`: of several step-definition files the last is paired and the
  earlier ones are in neither part; `IfMissingOnly` (`probe/probe.go:1823`) keeps an
  older file on disk that the humanized features were not checked against.

## 7. What is left out

* Contents: files, prompts, answers, pages and messages are values of small
  sets.  What is rendered from them is not modelled.
* Journeys: the ranking of links (`rankLinks`) is a parameter (`nav`); promotion
  of primary components, `DirectGoto` flags and file names of items are left
  out.
* Probe: the two kinds of crawl are any result the code allows; `Crawl` models
  the static one, and the page logic of `probe.mjs` is external.
* OpenPR: authentication and the text of pull requests.  GitHub's
  behaviour (who may open a pull request, what a forced update needs) is
  external and modelled from how the code uses it.
* Runner: Windows, where the file lock is a no-op (`flock_windows.go`).
* Ledger: several processes updating the table at once; the caller reads and
  writes the file, and is not in the repository.
* Suite: writing files and applying edits is done by quail's command, which is not
  in the repository; the models take the edits as applied in order.  Templates other
  than the happy flow of a page are headers of files.  What a snippet of Playwright
  shows around the line that failed is external: two lines before and three behind.
* Pipeline: extractors (`ast`) are a function from paths to symbols, with the lines
  they record or do not; of the HTML of
  pages only anchors, links and hidden parts are modelled.  Text that stands where
  a header would have a path is no path of the project.
* Scenarios: characters, and with them rewrites of parts of words; the prompt; HTTP of
  the chat client (`llm/base_url.go`).
* Parsers (`ast`, `openapi`, `asyncapi`, `graphql`, `grpc`) are pure functions of
  large inputs without state; `config`, `compat`, `integration` and `log` keep none
  either.  Probes of API surfaces (`probe/graphql.go`, `webhook.go`, `origin.go`) are
  single requests without state between them.
