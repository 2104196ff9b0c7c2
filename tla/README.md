# Verification of repodeps

`repodeps` keeps two databases: the *repository state database* (package
`poll`: which commit of which repository was last seen) and the *dependency
graph* (package `graph`: one row per package). A JSON-RPC server (package
`service`) keeps the second in step with the first by polling remotes, cloning
what moved and storing the packages found. This directory holds TLA+ models of
the parts where calls interleave, fail half way or are cut off by a crash, and
of the algorithms and programs around them, the TLC runs that check them on
small instances, and theorems checked by TLAPS.

Paths below are relative to `src/`.

## 1. The system

| Component | State | Operations | Interacts with |
|---|---|---|---|
| Storage (`storage/storage.go`) | a map from keys to encoded records | Load, Store, Scan (keys in order from a start key), Delete | badger underneath; one store per database |
| Repository state database (`poll/poll.go`, `poll/result.go`) | one `Status` per key: URL, or URL`@`label | Check, Status, Tags, Remove, Scan; `ShouldCheck`, `CheckResult.Clone` | its store; `git ls-remote`, `git clone` |
| Update (`service/update.go`) | the call in progress | Update, clone, load, store packages | both databases, git, loader; called by clients, by the workers of Scan and by the dependency server |
| Dependency graph (`graph/graph.go`) | one `Row` per import path, attributed to one repository | Add, AddAll, Row, List, Scan, ScanUpdate, Remove, MatchImporters | its store |
| Scan guard (`service/scan.go:124-128`) | a 32-bit counter | tryScanning, doneScanning | shared by Scan and Rank |
| Scan (`service/scan.go`) | set of keys seen, task group, counters | list, filter, sample, start Updates, wait | guard, state database, Update |
| Rank (`service/ranking.go`) | ranks in memory | read the graph, iterate, write ranks back | guard, graph |
| Remove (`service/remove.go`) | the repositories removed | delete rows, records, attributed rows | both databases |
| Match, Reverse (`service/match.go`, `reverse.go`) | one page and its next key | page through the graph | graph |
| Resolve (`service/resolve.go`), RepoStatus (`service/repostatus.go`) | none | read | both databases, `local` |
| Server (`service/service.go`) | options, handles | open, close, dispatch, `pushLog` | all of the above |
| Loader (`local`, `deps`) | none | turn a clone into packages | git clone, Go build lists |
| RDF encoding (`graph/rdf.go`) | none | quads of the graph | graph |
| Client (`client/client.go`) | notification channel | call, loop over pages, notify | server |
| Dependency server, crawler and other tools (`tools/`) | work lists | use the client or the databases | server |

### How they interact, and what is hard

* A server handles calls concurrently (`jrpc2` with a concurrency option), and
  Scan runs Updates from a task group. There is **no lock over the databases**:
  each access is one transaction of the store, and everything between two
  accesses of one call (a remote being asked, a repository cloned and loaded)
  is open to steps of other calls.
* A Check loads a record, asks the remote, and stores the record. Two Checks of
  one key interleave and the later store wins.
* Update records the new digest **before** it stores the packages, so a failure
  or crash between the two must be told apart from success by somebody.
* Scanning the graph takes the listing first and loads rows one by one. A row
  can disappear, or change its repository, after it was listed or loaded.
* Scan and Rank share one guard that refused calls also modify.

### What makes each component correct

* **State database**: reference and digest of a record belong together; no
  digest is recorded that nobody was told about; a history is bounded and loses
  nothing; the record under a key is that key's; a Check looks atomic.
* **Update**: a successful update leaves the reported commit in the graph; a row
  is attributed to a repository that has it; nothing is removed but what a reset
  may remove; after "no update needed" the graph is current; every call returns.
* **Guard**: one at a time, and open again when the admitted call is done.
* **Scan**: each eligible repository is checked once per scan and every task is
  waited for; a task must not undo a newer request.
* **Rank**: writing ranks back changes ranks only.
* **Remove**: all tags and all rows of a repository go, nothing else does.
* **Match, Reverse and the client's loops**: each row of an unchanged graph is
  delivered exactly once, whatever the page size.
* **Client notifications**: no send on a closed channel, no second close, no call
  that waits behind a notification nobody reads.

`PROJECT.json` lists the hazards of the code line by line, with the properties
that cover them, or what would be needed to cover them.

## 2. The modules

| Module | Contents |
|---|---|
| `Storage` | a store as a function with a finite domain: `Put`, `Drop`, `Listing` |
| `CheckTable` | abstract: a Check is one atomic step on one record |
| `Poll` | `DB.Check` with concurrent callers, failures and crashes |
| `OneAtATime` | abstract: an exclusive section |
| `ScanGuard` | the counter of `tryScanning` and `doneScanning` |
| `Update` | `Server.Update` over both databases (extends `Poll`) |
| `Scan` | `Server.Scan`: listing, tasks, waiting (extends `Update`, `ScanGuard`) |
| `Rank` | the two passes of `Server.Rank` over the graph (extends `Update`, `ScanGuard`) |
| `Service` | `Scan` and `Rank` together, driven by crawlers, beside direct Updates |
| `Remove` | `Server.Remove` and `DB.Tags` beside Updates (extends `Update`) |
| `Query` | `Server.Match`, `Server.Reverse` and the client's loops over their pages |
| `Notify` | the client's notification channel: `Dial`, `Receive`, `Close` |
| `Client` | programs that enumerate (`Query`) or receive (`Notify`) |
| `Links` | a graph at rest, and what is missing from it |
| `Closure`, `Ranking`, `Quads` | `tools/transdeps`, the arithmetic of Rank, `EncodeToQuads` (extend `Links`) |
| `Import` | import paths as sequences of names |
| `Loader`, `Resolve`, `ResolveDeps` | `local.Load` with its labels, `ResolveRepository`, `tools/resolvedeps` (extend `Import`) |
| `Remote` | `bestHead`, `CleanRepoURL`, `ShouldCheck` |
| `Programs` | the client programs and the algorithms, of which one runs |
| `MCPoll`, `MCUpdate`, `MCService`, `MCRemove`, `MCPrograms` | the small instances |
| `PollProofs`, `ScanGuardProofs` | the state database; the guard |
| `UpdateProofs` | Update; Updates whose repositories and packages are apart; resets (extends `PollProofs`) |
| `ServiceProofs` | the whole server (extends `UpdateProofs`, `ScanGuardProofs`) |
| `RemoveProofs`, `ClientProofs` | Removes beside Updates; the client's pages and notifications |
| `LinksProofs` | closure, quads and ranking; induction and sums over finite sets |
| `ImportProofs` | loading, resolution and remotes (extends `LinksProofs`) |

### Poll

`repoDB` is the stored `Status` records by key `<<url, label>>`; `pending` is
the Checks in flight, each with the record it holds in memory. Two history
variables exist for the properties only: `reported` (digests some Check reported
with `NeedsUpdate`) and `resolved` (heads the remotes answered with).

| Definition | Code |
|---|---|
| `CheckLoad` | `poll.go:122-160`: key, load or new record, label, change of reference, reset of the digest |
| `HeadAnswers` | `poll.go:172-203`: history, trimming, digest, reference, error counter, store, result |
| `HeadFails` | the error branch of the remote (`poll.go:164-177`): `ErrorCount++` and store |
| `CheckAborts` | a store that fails to read or write |
| `PollCrash` | the process stops between load and store |
| `Retargeted`, `Remembered`, `Recent`, ... | what is done to the record, one operator per idea |

`Matching` gives the names each requested pattern selects at the remote
(`bestHead`); which of them answers, and with which digest, is the remote's
choice at that moment. Left out: `LastCheck` and the times in the history (no
property tells them apart), the stored `Prefix` (written, never read), and the
spelling of URLs (`FixRepoURL`): a URL here is a canonical one.

`HeadFails` stores under `FailureKey`, the URL *without* the label, because
that is what `poll.go:176` does.

### Update

`Update` extends `Poll` with `graph` (a row is the repository and commit it was
taken from) and `call` (request, step, result so far, rows or packages still to
visit). Each step of a call is one access to a database:

| Definition | Code (`service/update.go`) |
|---|---|
| `BeginUpdate` | validation, then `CheckLoad` |
| `CheckSucceeds`, `CheckErrs` | `repoDB.Check` returns |
| `MustUpdate`, `ReturnsUnchanged`, `UpdateStarts` | the branches after the Check, the error limit included |
| `ResetLoads`, `ResetRemoves`, `ResetRemoveFails`, `ResetDone` | the scan of a reset: load, compare, delete by key |
| `ResetAborts` | a listed row is gone or unreadable: the scan ends and its error is dropped |
| `CloneLoads`, `CloneFails` | directory, clone, fetch of the digest, loader |
| `AddPackage`, `AddFails`, `UpdateDone` | `AddAll`, one package at a time |
| `Crash` | the process stops; databases stay |

`CheckResult.Errors` is nonzero only where Check also returns an error
(`poll.go:176-177`), and Update has returned by then, so `ResultErrors == 0`.

The order in which `AddAll` stores packages is the loader's, so any order is
allowed. A repository holds a package once (`Contents` is a set): several
directories with the same import path are not modelled. A row's files, imports
and rank are left out.

### ScanGuard

`scanning` is the counter, `% Modulus` as the machine wraps it. The code has a
signed counter; it is compared with 1 only, so counting modulo 2^32 is the same.
`busy` is the callers inside, `refused` (history) the calls refused since the
counter was last zero.

### Scan, Rank and Service

A client that calls Scan or Rank is a member of `Clients` (of the guard); the
goroutines that run Updates are `Callers`.

| Definition | Code |
|---|---|
| `ScanBegins`, `ScanRefused` | `scan.go:34-57`: read-only test, guard, sampling rate, the listing |
| `ScanSkips`, `ScanSamples`, `ScanAborts` | the visit of a key: loaded, not due or not sampled, or made a task; an error ends the listing |
| `TaskRequest`, `TaskStarts`, `TaskStep` | the task: an Update with URL, tag and reference of the record *as listed* |
| `ScanReturns` | `g.Wait`, then the deferred `doneScanning` |
| `RankBegins`, `RankLoads`, `RankComputes` | `ranking.go`: guard, link graph, computation |
| `RankReads`, `RankStores` | `Graph.ScanUpdate` (`graph.go:114-122`): load, decide, store the row as loaded |
| `CrawlScans`, `CrawlInScan`, `CrawlRanks`, `CrawlInRank` | the loop of `tools/crawldeps` |
| `DirectUpdate` | a client's Update, which no guard keeps out |
| `ServerRestarts` | the process stops and starts on its databases; the guard was in memory |

Whether a loaded row differs in its ranking is a choice (`differs`), so `Rank`
allows more than the computation would; the computation is in `Ranking`. The
task group is an external package: whether the listing waits for a free worker
or runs ahead is left open.

### Remove

`remove` is the calls in progress; the steps follow the code's order
(`remove.go:28-75`): the named packages, for each named repository its records
by `Tags`, then the scan of the graph for rows of the repositories found.
`KeyOrder` and `Under` say how keys sort and which URLs lie below which:
`"-" < "/" < "@"`. `Tags` compares against the base and the base with `/`, so it
takes repositories *below* the named one and ends at the first key that is
neither; labels are stored behind `@`, so none of a named repository is ever
found. `excused` (history) collects the repositories for which a Remove met an
error, was cut short, or ran beside an Update, and, when it returns, those whose
rows it kept on request.

### Query, Notify, Client

| Definition | Code |
|---|---|
| `CallsPage`, `TurnsPage`, `Delivers` | the loops of `Client.Match` and `Client.Reverse` (`client.go:97-121`, `137-162`) |
| `PageStops`, `PageBreaks`, `PageTakes`, `PageMisses`, `PageAnswers` | the scan of one page (`match.go:29-89`, `reverse.go:28-110`) |
| `Learned` | the repository cache of Reverse |
| `OthersStore`, `OthersRemove` | Updates and Removes meanwhile |
| `ReadsNote`, `HandsOver`, `GivesUp`, `Panics` | `OnNotify` (`client.go:58-67`) |
| `ReceiverReturns`, `ReceiveEnds` | `Receive` (`client.go:79-88`) and the callback of crawldeps (`crawldeps.go:79-84`) |
| `ReceivesNil` | the closed channel yields nil and `Receive` calls the callback with it (`client.go:84-85`), which reads the parameters of no request (`crawldeps.go:81`) and panics |
| `Cancels`, `Closes` | `Close` (`client.go:91`) |

A row is its repository and what it imports; a regular expression of Reverse is
the set of paths it matches. The lookups of one visited row are one step.

### The algorithms

| Module | State | Code |
|---|---|---|
| `Closure` | work list, seen, dead, the range in progress | `tools/transdeps/transdeps.go:49-76`; ranging over a map that grows is a choice |
| `Ranking` | the two weights of each node | `ranking.go`: `initialize`, `push`, `advance`, scaling; whole numbers instead of floating point, so that a push leaves the remainder of its division over |
| `Quads` | nodes assigned, quads sent | `graph/rdf.go:40-116` |
| `Loader` | directories left, label map, packages | the walk of `local/local.go` and `deps.PathLabelMap` |
| `Resolve` | the page and the token reached | `service/resolve.go` |
| `ResolveDeps` | step of each input, shared prefixes | `tools/resolvedeps/resolvedeps.go` |
| `Remote` | the line reached, or argument and result | `poll.go:222-263`, `291-313`, `result.go:57-79` |

The URLs of `Remote` are sequences of words and marks. `Spellings` of a host and
a path are those with or without scheme, as `host/path`, `git@host:path` or
`git@host/path`, with or without `.git`. Two limits are the code's: a path that
ends in `.git` itself loses it, since one suffix is cut off, so a repository's
path must not end that way; and after `git@` the first colon is replaced, so that
`git@host/path` with a colon in the path is not a spelling.

## 3. What is checked

A run is one question. Every passing property has a mutant in `PROJECT.json`: a
plausible slip in the code with which TLC finds the property violated under the
same configuration.

| Run | Shows |
|---|---|
| `poll_concurrent` | two callers, labels, every reference change, failed stores and crashes: types and history bound, `DigestsReported`, `ResolvedTogether` |
| `poll_label_failure` | *violated*: a failed Check with a label stores under the key without it |
| `update_workers` | two workers on repositories of their own, all failures and crashes: types, `RowsReported`, `UpdateStoresCommit`, `OnlyOwnRowsRemoved` |
| `update_current` | clone and store do not fail, nobody crashes, no request only checks: "no update needed" means the graph holds the commit; every call returns |
| `update_alone` | one caller, no labels, requests that change the branch, a package moving between two repositories, remote and clone failures and crashes, but stores that can be read and written: after a reset the graph attributes nothing else to the repository; the records implement the atomic `CheckTable` |
| `update_clone_fails` | *violated*: a clone that fails once leaves the graph out of date for good |
| `update_error_limit` | *violated*: repositories beyond the error limit stay |
| `service` | two crawlers, two workers, a direct caller, store failures, restarts: the guard counts and implements `OneAtATime`; tasks stay inside their scan; scans lose no history and rankings undo no Update, as long as nobody updates directly; every round ends |
| `remove` | Removes beside Updates of three repositories, failures and crashes: no row outlives its repository's records except where the call was disturbed (`NoOrphanRows`), the record of every named repository is gone after an undisturbed lookup (`NamedRecordsGone`), every Remove returns |
| `remove_takes_others` | *violated*: a Remove takes the records of repositories below the named one |
| `remove_leaves_labels` | *violated*: a Remove leaves the labelled records of the repository |
| `programs` | each program and algorithm on its own: pages deliver every unchanged row once and end; notifications and calls; labels, resolution, closure, ranking, quads, heads, spellings and schedules against reference definitions |

### Findings

1. **A failed Check of a labelled repository is filed under the wrong key**
   (`poll_label_failure`). `poll.go:176` stores `url`, where the success path
   stores `key`. The record of the unlabelled repository is overwritten with the
   other's tag and reference, and the labelled record's error count never grows.
   Remove deletes a record by the tag it holds (`remove.go:53`), so such a record
   is found and not removed: `NamedRecordsGone` would be violated in `remove` if
   remotes could fail there.
2. **The error limit is never applied** (`update_error_limit`, `update.go:61`):
   `res.Errors` is always zero there, so no repository is removed however often
   it fails, against `service.go:48-50`.
3. **The digest is recorded before the packages are** (`update_clone_fails`,
   `update.go:44`): after a clone or load error, a crash, or a request with
   `CheckOnly`, the next Update says that nothing is needed although the graph
   lacks the commit. The run has only the failing clone; the others break
   `NoUpdateMeansCurrent` the same way, which is why `update_current` has none.
4. **Remove takes other repositories** (`remove_takes_others`, `poll.go:57`):
   `Tags` promises the records of "the specified URL" (`poll.go:52`) and returns
   those of every URL below it, which Remove deletes, and their rows. A Remove of
   `u` and `u-x` with only `u/s` stored removes `u/s`. RepoStatus answers with
   such records too.
5. **Remove leaves labels** (`remove_leaves_labels`, `poll.go:57`): labelled
   records are stored behind `@` (`poll.go:104`), which `Tags` does not look for.
   No `u@v` is ever found through `u`, wherever it sorts; after `u` is reported as
   removed, a scan still updates `u@v` and stores its rows again.

Other behaviour met while modelling that a maintainer should know. The first two
contradict a comment too; the properties of `programs` say what holds instead.

* Receive calls back with nil: a notification given up at Close closes the channel
  (`client.go:64`), Receive reads nil from it and calls `f(nil)` (`client.go:85`),
  though it "calls f with each server notification received" (`client.go:77`), and
  the callback of crawldeps panics on it (`crawldeps.go:81`). A second one makes the
  reader itself panic (`client.go:60-65`). `PanicsOnGivenUp` says that no panic takes
  less.
* No dummy rows are written, whatever `rdf.go:107-108` says: every needed package
  got a node when it was imported (`rdf.go:89`), so the test for packages without a
  node (`rdf.go:110`) never holds. `ImportsDescribed` says how a reader can still
  tell: the node of a missing package has no import path.
* Concurrent Checks lose history (`poll.go:133` to `:199`): both load the same
  record, and the digest recorded by the first is replaced by the second without
  entering the history. `ScansKeepHistory` shows that scans alone do not do it.
* A reset may stop early and say nothing (`update.go:73`): if another call
  deletes a listed row, `graph.Scan` ends with an error that is not looked at.
* A reset deletes by key what it compared earlier (`update.go:75-76`): between
  load and delete the row can become another repository's.
* Rank stores rows as it loaded them (`graph.go:114-122`): a direct Update or a Remove
  in between is undone. A task of a scan carries the record as listed and undoes
  a reference changed since.
* A listing of `Tags` that meets a key of neither kind stops, also before
  repositories that lie below the named one: with `u-x` stored, `u/s` is not found.
* Remove does not test the read-only option itself (a read-only store refuses
  it); an Update running beside it can leave rows without a record.
* Two labels of one repository share its rows in the graph.
* `ranking.go:138` says that a scale of 0 means not to scale; it means the default
  (`ranking.go:43-45`). A negative scale is used as it is and makes every ranking 0.
* `ShouldCheck` divides the span of n updates by n, not n - 1 (`result.go:77`);
  repositories become due earlier, never later (`DueInTime`).
* `resolvedeps` compares prefixes without a slash: a resolved `.../a` also hides
  `.../a-x`. `SkipsCovered` says what it does guarantee.
* `CleanRepoURL` removes one `.git` only; `PathLabelMap` matters only with
  `UseImportComments`, although it also holds the modules of `go.mod` files.

### Bounds

* `MaxHistory` is 20 in the code; 1 and 2 are enough for the trimming to happen
  (three updates) and for an order of two to be observable. Proofs are for all.
* `MaxErrors` caps the error counter; nothing branches on its value except the
  unreachable limit, for which `update_error_limit` counts beyond `ErrorLimit`.
* Two commits let a repository move, move back and be seen to do so by two
  callers.
* Two names, in the runs that have them, let a request change the branch.
* Two URLs and four packages: each repository has a package that the move of the
  commit adds, and one that it drops; `MovingContents` has a package that is in
  both repositories at different commits.
* `service`: two crawlers, so that one is refused while the other is inside, and
  two workers, so that two tasks of a scan overlap; one row suffices for a
  ranking to hold while an Update stores. `Modulus` 3 with `MaxRefused` 1 is the
  tightest pair the assumption allows: one more refusal would wrap the counter
  and open the guard a second time; with 2^32 values that is not a real
  schedule, so it is an assumption and is named in the theorem.
* `remove`: `u`, `u-x` and `u/s` are the three ways a URL can begin alike; one
  label of `u` sorts behind both others. One request names `u` and `u-x`, so that
  a listing stops early or goes on depending on what is removed first; another
  names a package and `u`, and keeps the rows. Remotes do not fail (`MaxErrors` is
  0), for finding 1 would show again.
* `programs`: pages of one item, a limit of two or three, five paths of which
  two sort inside a tree and one (`a-x`) before it although it is not part of it;
  all graphs of up to three rows, self-imports and missing rows included; three
  notifications, one more than the two `PanicsOnGivenUp` speaks of; pages of up to three
  tokens; listings of up to three lines.
* `Unit` 864 is divisible by everything the two rounds divide by, so that the
  whole numbers are exact.
* `Faults` names the failures of a run, `Requests`, `RemoveReqs` and `Queries`
  the requests. Where a run leaves one out, the table above says so.
* `MCSymmetry` permutes callers, URLs, digests and names: no definition of Poll
  tells two of them apart, and each set of the configuration that contains one
  contains all. It is used for invariants only.

Idle callers can always start a new call, so no run of the server disables the
deadlock check; `programs` does, because a program ends.

### Fairness

* `FairUpdateSpec`: weak fairness of `UpdateStep(c)` for each call. A goroutine
  that can run is run; git, the loader and the store return, with a result or an
  error (`update.go` passes a context, so a hung git is ended by the caller). It
  is not assumed that a new call is ever made.
* `ServiceSpec`: weak fairness of each crawler's step inside a scan or ranking,
  and from a finished scan to its ranking, and of each worker's step. Neither a
  tick, nor a direct call, nor a restart, nor a failing store has to happen; the
  deferred `doneScanning` runs on every return.
* `RemoveSpec`: weak fairness of `RemoveStep(r)`, the steps of a call on a store
  that works.
* `ProgramsSpec`: the server and the callbacks answer, the client's reader and
  `Receive` go on, `Close` once begun goes on, and a program that computes goes
  on. Whether a program stops or closes its client is left open.

## 4. What is proved

All theorems hold for every value of the constants that meets the named
assumptions: any number of callers, repositories, labels, packages, digests, any
length of history, any width of counter, every set of faults, any page size,
graph, checkout or listing. The invariant of each is inductive: the proof shows
that it holds at the start, that every action keeps it, and that it implies the
property.

| Theorem | States |
|---|---|
| `PollTypes` | `PollSpec => []PollTypeOK` |
| `RecordedDigestsWereReported` | `PollSpec => []DigestsReported` |
| `RecordsWereResolved` | `PollSpec => []ResolvedTogether` |
| `UpdateTypes` | `UpdateSpec => []UpdateTypeOK` |
| `RowsWereReported` | `UpdateSpec => []RowsReported` |
| `OneCallerIsAtomic` | `PollSpec => ChecksAreAtomic`, if there is one caller and no label |
| `ApartRowsRemoved` | `UpdateSpec => OnlyOwnRowsRemoved`, if no package is in two repositories |
| `ApartUpdatesStore` | `UpdateSpec => []UpdateStoresCommit`, if moreover no two callers name the same repository |
| `ApartChecksAreCurrent` | `UpdateSpec => []NoUpdateMeansCurrent`, if packages and callers' repositories are apart, requests update and have no label, and only remotes and deletions fail |
| `CounterAlwaysCounts` | `GuardSpec => []CounterCounts`, if `MaxRefused < Modulus - 1` |
| `GuardExcludes` | `GuardSpec => GuardImplements`, under the same condition |
| `ClosureIsExact` | `ClosureSpec => []ClosureExact` |
| `ResetsClean` | `UpdateSpec => []ResetLeavesOnlyCommit`, if the store works (`StoreWorks`) and, while one caller may reset a repository, the others reset none and do not name that one (`OneResets`) |
| `ServiceTypes` | `ServiceSpec => [](ServiceTypeOK /\ RowsReported)` (this and the next eleven: `MaxRefused < Modulus - 1`) |
| `ServerCounts` | `ServiceSpec => []CounterCounts` |
| `ServerExcludes` | `ServiceSpec => GuardImplements` |
| `TasksStayInside` | `ServiceSpec => []TasksInsideScan` |
| `HistoryKept` | `ServiceSpec => ScansKeepHistory` |
| `RowsKept` | `ServiceSpec => RankKeepsRows` |
| `ServerRecordsSound` | `ServiceSpec => [](DigestsReported /\ ResolvedTogether)` |
| `ServerChecksAtomic` | `ServiceSpec => [][direct \/ Table!Next]_repoDB` |
| `PackagesStay` | `ServiceSpec => [][direct \/ DOMAIN graph \subseteq DOMAIN graph']_graph` |
| `TasksStoreCommits` | `ServiceSpec => [](direct \/ UpdateStoresCommit)`, if no package is in two repositories |
| `TasksToldTheTruth` | `ServiceSpec => [](direct \/ NoUpdateMeansCurrent)`, if moreover only remotes and deletions fail |
| `RankingsSeeCurrent` | under the same conditions: without direct calls, while a ranking is in progress the graph holds the packages of every record's commit |
| `RemoveTypes` | `RemoveSpec => []RemoveTypeOK` |
| `NoRowOrphaned` | `RemoveSpec => []NoOrphanRows` |
| `NamedRecordsGo` | `RemoveSpec => []NamedRecordsGone`, if there are no labels or remotes do not fail (`FilesWell`) |
| `NotesComeFirst` | `NotifySpec => []NotesBeforeAnswer` |
| `PanicNeedsGivenUp` | `NotifySpec => []PanicsOnGivenUp` |
| `ClientTypes` | `ClientSpec => []ClientTypeOK` |
| `PagesDeliverOnce` | `ClientSpec => []DeliveredOnce` |
| `PagesDeliverAll` | `ClientSpec => []AllDelivered` |
| `LeftOutIsCovered` | `ResolverSpec => []SkipsCovered` |
| `FirstTagResolves` | `ResolvingSpec => []ResolvesFirst` |
| `QuadsDescribe` | `EncodingSpec => []ImportsDescribed` |
| `WalkNames` | `LoaderSpec => []PackagesNamed` |
| `HeadIsChosen` | `RemoteSpec => []HeadChosen` |
| `ChecksAreDue` | `RemoteSpec => []DueInTime` |
| `SpellingsHaveOneKey` | `RemoteSpec => []SpellingsAgree` |
| `PushesConserveWeight` | `RankingSpec => []WeightConserved` |
| `ScalingKeepsOrder` | `RankingSpec => []RanksInScale` |

**Poll** (assuming `PollAssumption`). The invariant is `PollSafe`: the types, and
that every record, stored or held by a Check in flight, is `Sound` (trimmed,
reported, resolved). The records in memory have to be in it, because they are
what is stored next. The argument: a record's soundness mentions its repository
but not its key (a failed Check stores under another key of the same URL);
`reported` and `resolved` only grow, so a sound record stays sound
(`SoundGrows`); relabelling and changing the reference keep it sound, because
the digest is reset with the reference; and an answer makes it sound by what is
reported and resolved in the same step (`AnsweredSound`). `RecentElements` says
what trimming keeps, for every bound.

**Update** (assuming `UpdateAssumption` too). `UpdateSafe` adds to `PollSafe` the
types of graph and calls, `RowsReported`, that each call in flight is `Trusted`
and that Checks and checking calls match. `RowsReported` alone is not inductive: a row is
added from what a call carries, so the invariant says of a call past the
`"checked"` step that its digest was reported, and of an adding call that its
packages are those of the commit. A forced update makes the first part less than
obvious: there the Check need not have reported the digest itself, but then the
record already had it, and by `DigestsReported` it was reported before.

**Atomic Checks.** To `PollSafe` the proof adds `PendingReady`: what a Check
holds in memory is what it would load now. One caller and no failed Check under
another key keep it true, so an answer pushes the *stored* digest onto the
*stored* history. With two callers a digest is lost from the history, and with
labels `poll_label_failure` happens.

**Calls apart.** `OwnDrops` says that a row about to be deleted is one of a
package of the call's repository. It is inductive whatever the packages are, for
the row loaded was reported (`RowsReported`) and the scan cannot move in between.
It follows that a call touches rows of its repository's packages only
(`OthersRowsStay`); with packages apart that is `OnlyOwnRowsRemoved`, even if
several callers work on one repository. With callers apart too, what a call has
added stays (`AddedStays`), and at the end that is the commit. `update_workers`
is such an instance.

**Current.** `NoUpdateMeansCurrent` is about a call and its repository's rows, and
is far from inductive: Check records a digest before its packages are stored, and
the next call believes the record. `Current` says what bridges the gap: each
record's digest is in the graph with all its packages (`Settled`), or a call of
that repository is `Working`, that is, bound to store them; the record has the
digest of the call that works; and a Check in flight holds a settled digest, as
it began when nobody worked on its repository. When the working call ends,
`AddedStays` makes its record settled. The conditions are the ones needed: a
clone, a store or a process that fails leaves a record unsettled with no call at
work, and so does a request that checks only. `update_current` is such an
instance.

**Resets.** `ResetSays` follows a reset through its call: while the scan goes on,
every row of the repository is among those still to visit and none of the rows to
visit has gone, hence the scan does not end early; after it no row is attributed
to the repository; and then only rows the call added. Other callers may store
rows of other repositories meanwhile, even over rows of this one. A second reset
could delete a listed row and end the scan, which is why there is none, and a
store that fails could leave a row behind.

**Guard** (assuming `GuardAssumption`). `CounterCounts` is inductive given the
bound on refusals; the refinement follows, since an admission needs a counter
that becomes one, hence was zero, hence `busy = {}`.

**Server** (assuming `ServiceAssumption` and those of its parts). `ServiceSafe` is
`UpdateSafe` and `CounterCounts` with the scans and rankings that the crawlers
inside the guard have in progress. A ranking stores a row it loaded earlier, so
the invariant says of that row too that it was reported (`HeldReported`). This
holds beside direct Updates. What the guard is for holds without them:
`Undisturbed` says that either a direct Update was made or the writers are
`Tidy`. Every call is a task of the one scan in progress, and works on a record
of its own (`CallsInside`), because a record is either still to be listed, or
waits in the queue as it is stored, or is in the hands of one call
(`ScanOrdered`); so a Check in flight holds its record as it is stored
(`PendingFresh`) and stores it with the old digest last in the history. While a
ranking is inside the guard no scan and hence no call is, so the row it holds is
the row that is there (`HeldFresh`). Failing scans wait for their tasks and a
restart drops them, so both keep this.

**From Update to the server.** The theorems about Updates that are apart assume
something of the requests; their lemmas assume only what holds of the calls in
progress: one call per repository (`OneCallEach`), none that merely checks or has
a label (`CallsUpdate`), no row about to be deleted that is another's
(`OwnDrops`). `Tidy` and `TasksPlain` give all three, since tasks do not reset. And
`CrawledStep` says that a step of the server without direct calls is a step of one
such call, the begin of one, a restart, or nothing to the databases: a ranking
stores the row that is there. So `AddedStays` and `Current` carry over, and what was
proved for callers that happen to keep apart holds of the server because its guard
and its listing keep them apart. A Check in flight holds its record as it is
stored, hence is ready in the sense of *Atomic Checks*: what one caller alone was
promised, every worker of a scan gets. A ranking runs when no call does, so no
repository is being worked on and every record is settled.

**Remove.** In `RemoveSafe` every row is covered (`RowsCovered`): its repository
has a record, or is excused, or a Remove that found the repository will still
come to the row, or keeps it and has yet to return. An Update past its Check has the record it stored or is excused
(`CallsRecorded`), since it would store rows later; and a Remove beside an Update
of the same repository excuses it at once (`Excuses`). `RemoveGoneSafe` adds
`RecordsGone`: the record of a repository looked up without disturbance is gone,
or one the call will still delete. The lookup does find it, for it is the first
key of its listing, and a listing ends only behind it; nobody stores it again, for
an Update of the repository would disturb the call. It needs that
records carry the tag of their key, for Remove deletes by tag (`remove.go:53`);
finding 1 breaks this where there are labels and remotes that fail, and `FilesWell`
excludes just that. The run has labels, and remotes that answer.

**Notifications.** `NotifyIInv` accounts for every notification: those sent are
those received, those in the inbox, the one the reader offers, and the one given
up at Close. An answer is last in the inbox, so when it is read nothing waits.
The channel is closed only when one was given up, and both panics need it closed.

**Pages** (assuming `QueryAssumption` and `OrderAssumption`). `QuerySafe` says that
the items delivered and on the page rise, with every item before the rows still to
come and before the next key, so none comes twice. `QueryCovers` says that
each wanted item of a row nobody changed is among them or `Coming`: behind the key
asked for, still listed, or behind the next key. That the scan may stop at the
first row that does not begin like a match is where the order of names comes in
(`PastPattern`): a tree's paths follow its root, and nothing stands between two of them that does
not begin like them. A count visits each row once, and its number is the size of
the set of items of the rows visited. The targets of a Reverse are finitely many,
as it counts them.

**Closure** (assuming `LinksAssumption`, `ClosureAssumption`). The invariant has
two halves. Everything on the work list or seen is in every closed set, because
a visit adds only what the row of a path seen imports. And the arguments and all
imports of rows seen are on the work list, seen or without a row; when a round
ends and nothing is left to do, what is seen is therefore closed, so it has every
reachable row. Visits in any order, and visits of paths added while the range is
in progress, keep both.

**Prefixes** (assuming `ResolveDepsAssumption`). Every shared prefix is that of
the answer to some input, and that input is accounted for or still to be; a
package is skipped only under a shared prefix, and prefixes are never withdrawn.

**Resolution.** No token read so far ends the loop; hence when one does, it is the
first, and the tags of the page's head begin with it (`LoopEndsAtTag`).

**Quads** (assuming `LinksAssumption`). A node stands for one path or one file
(`Numbered`: the numbers given are distinct and below the next one), and the quads
sent are those of the rows and imports passed, over nodes already known
(`Described`); so a node without an import path is that of a package without a row. The mention of a package or a file leaves the others alone, which
`PackageMentioned` and `FileMentioned` state once for all actions.

**Loading** (assuming `LoaderAssumption`: a checkout is a tree, so it has every
directory above one it has). The labels in the map are what the directories walked
so far declare (`LabelsDeclared`), and the walk reaches a directory after all
above it (`WalksDown`); so what `Find` returns is the nearest declaration there
will ever be. A special directory's subtree is dropped as a whole
(`BelowSkipped`), so nothing below it is walked.

**Remotes** (assuming `RemoteAssumption`: HEAD is listed once). `BestSoFar`: no
master has been read, and the best line is the first branch read, else HEAD if it
was read, else none. For the schedule, a span of at most `n - 1` gaps divided by
`n` is less than one gap (`GapBelow`). A spelling is taken apart in the order in which
the code does it: the scheme is its first piece or absent (`WithoutSchemeIs`), what
follows `git@` has its first colon where the host ends (`WithoutUserIs`), and what is
left ends in `.git` exactly if the spelling put it there (`WithoutSuffixIs`).

**Ranking** (assuming `RankingAssumption`: finite graphs, a damping factor between
zero and one). What is pushed is a sum over the importers of each node; what is
conserved compares sums over different sets. The library's induction theorems take
a predicate, which the provers cannot instantiate, so induction is stated over *a
set*: a set of numbers that has zero, and with each number its successor, has all
(`NumberInduction`), for otherwise there would be a least one missing; and likewise a set of
subsets of a finite set (`SetInduction`). With that the recursive function behind
a sum is shown to exist level by level, a sum to unfold at any of its elements
(`SumUnfolds`, `SumRemove`), and two sums to be exchanged (`SumsExchange`): what
arrives at all nodes is what each row with imports gives, its share times the
number of its imports, which with the remainder of that division is its weight.
For the scaling: the apex is above every ranking, and truncated division is
monotone, so that a scaled ranking stays below the power of ten and two of them keep
their order.

**Model-checked only.** Liveness (`UpdateReturns`, `RoundsEnd`, `RemovesReturn`,
`ClientReturns`, `ProgramsEnd`), which is beyond the prover. Every safety property
of a passing run is stated by a theorem. `MCSymmetry`, by which two runs are
reduced, is argued for in section 3 and not proved.

## 5. What is not modelled

* Storage encoding and badger itself: external. A key listing is taken as a
  snapshot at the start of a scan, as a badger iterator in one read transaction
  gives it; rows are loaded in transactions of their own.
* git, go/build and the pages of the network: what a remote, a clone, a load or
  a host may answer is a choice. git prints digests in hexadecimal, so the error
  for one that is not (`poll.go:247-248`) is left out.
* Arguments of `transdeps` that end in `/...`, which Match takes for a tree: each
  argument is the path of one package.
* In the loader: hashes of source files, package types, the virtual file system,
  and `Options.PackagePrefix` as merged from requests. The directory given to
  Load is not itself named like a special one (`deps.go:55-59`).
* In the RDF encoding: types, rankings and repositories of rows. `quaddeps`
  prints one of its two errors for the other; no state depends on it.
* `Prefix` of a status record: stored with the record, applied by nobody.
* Server: flags, defaults of the options, opening and closing of the databases,
  dispatch. The scale and iterations of Rank are as resolved from their
  defaults: iterations of zero or less and a scale of zero mean the default. A
  negative scale in a request is not modelled (see section 3).
* The dependency server (`tools/depserver`) and the tools that forward one call
  or print what they read: process glue without state of their own.
* `MatchImporters` and the generated protocol code.

## 6. Plan

Done: the databases and Update; Scan, Rank and their composition; Remove; paging
and notifications; the algorithms; the proofs of all safety properties of the
passing runs, and of the server what is proved of its parts. What could follow:
`Batch`, the updates that `src/repodeps.go` makes of a list of directories, and
Removes beside scans and rankings, which no guard keeps apart.
