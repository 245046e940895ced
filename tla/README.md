# A TLA+ model of the stores of GitHub Desktop

GitHub Desktop is an Electron program: a main process that owns the windows,
the menu and the updates, and a renderer process that runs everything else. The
renderer's logic sits in the *stores* under `app/src/lib/stores`: objects that
hold state, change it in asynchronous methods and emit "did-update" events. There
is one thread, so nothing is preempted; what makes the code hard is that every
`await` lets any other handler run, and that a method goes on afterwards with
whatever it read before. The modules here model that: **an action is the code
between two awaits**, and the interleavings are those of the event loop.

## The parts of the system

| Part | State | Operations | Talks to |
|---|---|---|---|
| `AppStore` network operations | `isPushPullFetchInProgress`, `pushPullFetchProgress` per repository state | `_push`, `_pull`, `_fetch`, the indicator's fetch | `GitStore`, `RepositoryStateCache`, git processes |
| `RepositoryStateCache` | one `IRepositoryState` per `Repository.hash` | `get`, `update` | everything in `AppStore` |
| Repository selection | `selectedRepository`, `repositories`, the current background fetcher, branch pruner and pull request updater | select, refresh tasks, focus and blur, reaction to database updates | `RepositoriesStore`, `BackgroundFetcher`, `BranchPruner`, `PullRequestCoordinator` |
| `RepositoriesStore` | the IndexedDB tables; a pending emission | add, remove, update, list | `AppStore` by its update event |
| `BackgroundFetcher`, `RepositoryIndicatorUpdater`, `PullRequestUpdater`, `BranchPruner` | a timer, a stopped or running flag | start, stop, tick | `AppStore`, the GitHub API |
| `CommitStatusStore` | subscriptions, an LRU cache, a queue of refreshes | subscribe, dispose, manual and background refresh | check-run badges, notifications, the API |
| `SignInStore` | the step of the sign-in dialog | begin, set endpoint, authenticate, two factor, cancel | the API, the browser, `AccountsStore` |
| `AccountsStore` | the signed-in accounts, also in local storage and the keychain | add, remove, refresh | the API, `AppStore` |
| `GitStore` | history, branches, tags, tags to push, stashes, messages of one repository | load, reconcile, create and delete | git processes, `AppStore` |
| `AheadBehindStore` | an LRU cache and a set of workers | request with an abort handle | git processes, branch lists |
| `PopupManager` | the stack of open popups | add, add error, update, remove | dialogs |
| Committing, stashing, checkout | `isCommitting`, stash entries, the checked-out branch | commit, amend, checkout with a stash strategy | `GitStore` |
| Multi-commit operations | `multiCommitOperationState`, conflict state, banners | merge, rebase, cherry-pick, squash, reorder, with conflicts, abort and undo | `GitStore`, dialogs |
| Changes and diffs | the working directory with its selections, the diff shown | status, select, include lines | `GitStore` |
| Pull requests, issues, API repositories, GitHub users | database tables and caches | refresh from the API | the API, `AppStore` |
| Notifications and the live connection | subscriptions to Alive sessions | subscribe, event, notify | the server, `CommitStatusStore` |
| Trampoline | tokens and a TCP server | askpass requests of git | git processes, keychain |
| Main process | windows, menu, updater state | window life cycle, update and quit | the renderer by IPC |
| `lib/git`, parsers, API client | none to speak of | one function per git command or request | processes, HTTP |
| User interface | React component state | rendering, input | `Dispatcher` |

### Where the hard behaviours are

* **State read before an await and used after it.** `Repository` objects are
  immutable values whose hash changes with the record; the caches are keyed by
  that hash. `AccountsStore.refresh`, `SignInStore` and `CommitStatusStore` all
  write results over state that may have moved on.
* **Timers that are stopped while a tick is in flight.** Background fetcher,
  branch pruner, pull request updater and indicator updater each have a tick
  with awaits in it, and `stop()` can come between any two.
* **Locks that are plain booleans.** `withPushPullFetch`, `withIsCommitting`,
  the load requests of `GitStore`, `emitQueued`: each has to be reset on every
  path out.
* **Answers that are late, lost or out of order.** Requests for ahead/behind
  counts, check runs and tokens are answered after they were cancelled.
* **Limits.** The popup stack, the cache sizes, the number of concurrent
  refreshes.

### What makes each part correct

* Network operations: at most one operation on a repository state; the lock and
  the progress are reset whatever fails.
* Selection: the background fetcher that runs is that of the selected repository,
  there is one, and a stopped one starts no fetch; no emission of the database goes
  unseen.
* Commit status: one refresh per commit at a time, no call to a subscriber that
  is gone, and what the cache learns reaches every subscriber.
* Sign in: an answer only moves the dialog that asked for it; a cancelled dialog
  stays cancelled; every promise of a sign-in is settled.
* Accounts: what was removed stays removed, what was added is stored.
* Tags: every tag made here is pushed or still listed as to be pushed.
* History: a load request blocks a second one while it runs and not longer.
* Ahead/behind: at most the permitted number of workers, every request that was
  not aborted is answered, with the value of its own key.
* Popups: errors are on top, no other popup is open twice, the stack stays within
  its limit.
* Uncommitted work: it is in the working directory, in a stash, in a commit, or
  the user gave it up; a commit has the files and the lines selected and no others.
* Multi-commit operations: undo goes back to where that operation began; conflicts
  come to the user's eyes, and a dialog about conflicts that are gone does not stay.
* Trampoline: no git command waits for a server that is not being started.


That is the aim. Where the code misses it, "Known limits" below says so; nothing
in the properties pretends otherwise.

## Which module models what

An `await` ends an action. A method that has started is a record in a variable
(`op`, `call`, `run`, `calls`, `tasks`, ...) holding its position (`pc`) and the
locals it goes on with; several such records are the overlapping calls. What a
method reads before its await is in its record, what it reads afterwards is the
state of that moment. Errors are nondeterministic outcomes of each await.

| Module | Code | State and actions |
|---|---|---|
| `NetworkOperations` | `app-store.ts`: `withPushPullFetch`, `performPush`, `performPull`, `performFetch`, `fetchForRepositoryIndicator` and what they await | `isPushPullFetchInProgress`, `pushPullFetchProgress` by `Repository.hash`; `op` holds where each operation is. `Request` begins an operation, `Continue` is its next part; `Enter` and `Release` are the two ends of the `try` in `withPushPullFetch`. |
| `ExclusiveAccess` | what `withPushPullFetch` promises | one set of workers per key. Abstract; `NetworkOperations` implements it. |
| `RepositoryUpdates` | what `RepositoriesStore` promises to `AppStore` | `db`, the emission under way, the subscriber's copy. Abstract; `RepositoriesStore` implements it and `RepositorySelection` extends it. |
| `RepositoriesStore` | `repositories-store.ts` on IndexedDB | the queue of transactions, created and completed, and `emitQueued`. |
| `RepositorySelection` | `app-store.ts`: `_selectRepository` and its refresh tasks, `updateRepositorySelectionAfterRepositoriesChanged`, focus and blur; `background-fetcher.ts` | the selected object with the emission it came from, the waiting calls of `_selectRepository`, the fetchers with their position, the current fetcher, pruner and updater. |
| `CommitStatusStore` | `commit-status-store.ts` | subscriptions, cache, queue; `tasks` are the refreshes in flight. |
| `BranchPruner` | `branch-pruner.ts`, `startBackgroundPruner`, `stopBackgroundPruner` | `run[p]` is `pruneLocalBranches` of pruner `p` between two awaits with what it has found so far. |
| `SignInStore` | `sign-in-store.ts`, `oauth.ts` | the step of the dialog, `oauthState`, the calls that wait for a server or the browser. |
| `AccountsStore` | `accounts-store.ts` | memory, local storage and keychain, and the calls between them. |
| `TagsToPush` | `git-store.ts` (tags), `performPush` | the list, git's tags here and on the remote, calls that await git. |
| `CompareView` | `_executeCompare`, `_loadNextCommitBatch`, `loadCommitBatch` and what they call | the list of commits, the form, `requestsInFlight`. |
| `CommitSelection` | `_changeCommitSelection`, `_loadChangedFilesForCurrentSelection`, `_changeFileSelection`, `updateOrSelectFirstCommit` | the commits selected, their files, the file, its diff, the loads in flight. |
| `PullRequestStore` | `pull-request-store.ts`, `pull-request-coordinator.ts`, the fetching part of `api.ts` | GitHub, the database with `lastUpdated`, the cache, the refresh in progress. |
| `PullRequestUpdater` | `pull-request-updater.ts` | timers by the time they have left, calls that have not returned. |
| `PullRequests` | the two together | the ticks call the store's refresh, whose end returns the calls. |
| `RepositoryIndicatorUpdater` | `repository-indicator-updater.ts` and its use in `app-store.ts` | the switch, the timer, the pause; `pass` are the calls of `refreshAllRepositories`, which outlive `stop()`. |
| `AheadBehindStore` | `ahead-behind-store.ts` | callers by where they are, the limiter's queue, the workers shared by callers, the cache. |
| `TrampolineServer` | `trampoline-server.ts`, `trampoline-tokens.ts`, `trampoline-environment.ts` | what Node has of the server, `listeningPromise`, git commands and their tokens. |
| `ApiRepositoriesStore` | `api-repositories-store.ts`, the pages of `api.ts` | the list of each account, keyed by the account object; loads page by page. |
| `PopupManager` | `popup-manager.ts`, `_closePopup` | operators on the stack of popups. |
| `InOrder` | `Array.filter` | operators: the members of a set of numbers in order, the entries of an array at these. |
| `MultiCommitOperation` | `dispatcher.ts` (squash, reorder, rebase, cherry-pick, merge), `ui/multi-commit-operation`, `app-store.ts` (conflicts at every load of the status, undo) | `git` the repository with its heads and conflicts, `view` what the app has read of it, `ui` popups, flow, banner and undo state; `task` the handlers under way. |
| `WorkingDirectory` | `app-store.ts` (checkout, stash, discard, commit), `lib/git/stash.ts`, `checkout.ts`, `commit.ts`, `update-index.ts`, `reset.ts` | `git` with work tree, index, stash and trees of the branches, `view`, the dialog that is open, `task` the handlers under way by the git command they await. |
| `DiffSelection` | `models/diff/diff-selection.ts` | operators: the selection of a file's lines. |
| `PatchFormatter` | `patch-formatter.ts`, the diff of `diff-parser.ts` | operators: diff, patch to commit and patch to discard; what `git apply` makes of a patch. |
| `PartialCommit` | `updateChangesWorkingDirectoryDiff`, `updateChangedFiles`, `_changeFileLineSelection`, `_changeFileIncluded`, `_commitIncludedChanges`, `_discardChangesFromSelection`, `apply.ts` | one file: what is changed on disk, the diff shown and those on their way, the selection, a commit under way. |
| `*_proofs` | - | theorems. |
| `MC*` | - | instances for TLC: the parts that are checked together, values of constants, symmetry. |

Popups that are not part of the flow of a multi-commit operation are one type in
`MultiCommitOperation`. In `WorkingDirectory` a file's content is the number of the
write that made it, so that lost work is a number that is nowhere any more. In
`PartialCommit` a file with its changes is one script of lines that are there before,
after or both; the model of `git apply` searches for a hunk as git does, first at the
line the header says, then further and further away, after and before by turns.

What is outside the repository is modelled by what the code sees of it: git
answers with the repository as it is at one moment between call and answer,
IndexedDB runs overlapping transactions in order of creation, a server answers
any time or fails, the user does anything the interface lets him do.

The composition follows the calls. `RepositorySelection` runs on top of the
promise `RepositoryUpdates`, and `RepositoriesStore` is shown to keep the promise,
so what TLC shows of the selection holds for the real store. `PullRequests`
has the updater's steps synchronised with those of the store by `INSTANCE`.

## The runs

Parts that share no state are checked in one run: a variable `part` says which of
them a behaviour is about, and the others rest in one of their initial states. The
states of such a run are the sum of those of its parts, and what a formula says of a
part that rests is what it says of an initial state. `CHECK_DEADLOCK FALSE` stands
where the system may stop: the bounds are used up and nothing is in flight. Every
run has one invariant of types, which also says what shape the pieces of the state
have relative to each other.

| Run | Parts | Bounds, and why they are enough |
|---|---|---|
| `network` | `NetworkOperations`, `CommitStatusStore`, `RepositoryIndicatorUpdater`, `AheadBehindStore`, `TrampolineServer` | One path, two variants of its record, two operations: two are needed to collide and two states to miss each other. One commit with and without a branch, two listeners on one subscription, one change on the server. Two repositories, two passes, one of which outlives a stop. Two ranges, three callers, one worker as in the code (`MaxConcurrent`): two callers wait in the limiter, one of them for the range that is being computed. Three git commands, two errors of the server. |
| `sign_in_and_repositories` | `SignInStore`, `RepositoriesStore` | GitHub.com and an Enterprise server, two calls, two browser callbacks, two requests to the browser: one call is late, the other belongs to the next dialog. One row and three transactions of each queue: a write is overtaken by a write and a read while an emission is queued. |
| `local_storage` | `AccountsStore`, `TagsToPush`, `ApiRepositoriesStore` | One endpoint, two users, two overlapping calls, three tokens, one restart. Two tags, a list of two, one refresh. Two users with two repositories, two loads, one change on the server, sign-outs at any moment. A list that heals, because it is loaded again after a sign-out in the middle of a load, takes more changes than the run has and is left to the proof. |
| `commits_and_requests` | `CommitSelection`, `PartialCommit`, `PullRequests` | Three selections, one of which has no diff, two files with one in common, three lists and three diffs on their way at a time (`MaxLoads`). Five scripts: two hunks, one with an addition that can be left out, an edit that takes the second hunk away, one that takes all changes away, a new file, and a file whose lines repeat; any number of edits, gestures, commits and discards, one diff on its way. Two pull requests on pages of one (a list of either kind has a second page), two points of time (updates may share one), interval 2, frequency 1, two timers. |
| `background` | `RepositorySelection`, `BranchPruner` | Two repositories, one change of the database, emissions that fail, two waiting calls, two fetchers: one was stopped in an await. Two branches, none with a reserved name (those are left to the proof), two pruners, two steps of the user's work between reading and deleting. |
| `branches` | `WorkingDirectory`, `CompareView` | Two branches, two files, one handler and one refresh under way together, two stash entries ever made, every setting, each git command failing or not. Two tips with two and three batches of history, one move of HEAD. |
| `multi_commit` | `MultiCommitOperation` | The scenarios: each kind of operation once, conflicts made on the command line, and a squash with a command next to it; a stack of four popups, one handler of the user's and one refresh, two commits made. |

The passing runs show, property by property, what the comment over each definition
says. In short: the lock of the network operations is exclusive and released on
every path; checks of commits are not replaced by older ones and reach those that
stay subscribed; indicators are refreshed again and again; who asks for a
distance and stays interested is told; a sign-in that was cancelled adds no account;
no write to the table of repositories is lost to its subscriber; one account per endpoint
survives a restart; a tag is listed until it is pushed, unless a push or a
refresh that overlaps takes it off; background work follows the
selection; pruning deletes only what may be deleted unless somebody uses the branch
during the run; no uncommitted work is lost although any git command fails; a commit
has the files and the lines selected; the history has no gap while HEAD stays; a
diff belongs to its commits; a refresh of pull requests that asks only for news misses
none but those GitHub moved between two pages, or updated at the same time as another; the undo of an operation goes back to where it began, and conflicts are shown.

Five runs expect a violation: the code does not do there what a comment in it says.

| Run | What the code does |
|---|---|
| `commit_files` | `_loadChangedFilesForCurrentSelection` awaits git and then compares the selection it started with to itself (`app-store.ts:1583`): the files of a former selection are shown. |
| `multi_commit_undo` | the undo state is one per repository and the next operation overwrites it, even one that is cancelled: the banner of the first squash, which stays for a while, then resets to the state of the second (`app-store.ts:6977`). |
| `stash_overwrite` | whether there is an entry that a new one would replace is read from the entries of the last refresh (`app-store.ts:3698`), and the entry that is dropped from git: it may go without a question. |
| `indicators` | a refresh that throws leaves the updater running with no pass scheduled (`repository-indicator-updater.ts:94`). |
| `partial_commit` | a hunk of a partial commit is written with the line it would have if the hunks left out were in it (`patch-formatter.ts:216`). In a file whose lines repeat, git finds such lines there and commits a change that was not selected. `StagedIsSelected` and `DiscardedIsSelected` say when this cannot happen: no line of the file is like another, or as many additions as deletions are left out before each hunk. |

## Fairness

Fairness is assumed only of what happens by itself. The event loop runs every
continuation whose promise is settled, and each request is answered or fails
(git processes end, requests time out), which is weak fairness of the steps that
continue a method. `CommitStatusStore` also needs its interval to go on, the clock
to pass the age at which an entry is stale, and strong fairness of the three steps
of a refresh: a request that is repeated forever does not fail forever. Users,
servers that change and restarts are never assumed to do anything. `LoadingEnds`
and `EventuallyShown` state the environment they need in the formula: that no
request failed outright, and that the background refresh stays on and nobody
subscribes or refreshes by hand over and over.

The indicator updater needs its timer to fire and its passes to go on;
`IndicatorsAreRefreshed` asks in the formula that the updater runs, that its last
pass did not throw and that the application keeps the focus. The ahead-behind store
needs its limiter to go on and git to end. `MultiCommitOperation` needs its handlers to
go on, a repository that is refreshed again (by the focus and the timers), and a user
who some time closes a dialog in front of the others. In a run of several parts,
nothing that fairness speaks of is enabled in a part that rests.

Symmetry is used in runs without liveness properties only.

## What is proved

TLAPS checks these for every value of the constants. A module of proofs extends the
module of a component, or the `MC` module that has several side by side; then each
component has an invariant of its own, and one lemma says that the steps of the
whole are steps of the part.

* `Network_proofs`: of the network operations `TypeCorrect`; `FlagCorrect`, the flag is set iff one
  operation is inside; `ProgressCorrect`; `Refinement`, the implementation of
  `ExclusiveAccess`. `FlagMatchesOperations` with `TypeOK` is inductive: an
  operation takes the flag in the step that finds it unset, and the step that
  leaves resets it. The refinement needs it, since a second worker on one key
  would be no step of `ExclusiveAccess`. `ProgressEndsWithOperation` is inductive only
  with that and with `ProgressReported`, by which the progress is gone before the
  operation reaches the `finally`, where the flag goes.
  Of the commit status `ChecksConsistent`, that `ChecksAreConsistent` holds, an invariant
  and an action property. `StatusInv` has what each party knows at a time: a callback
  is of a subscription that listens, an answer under way is no older than what the
  cache held when it was asked for and no newer than the server, and what is queued or
  refreshing is what `queue` and `tasks` say. `NoneIsLeftWaiting`: the promise of the
  trampoline server is pending only while the server is being started.
  `OneRunForARange`, by an invariant that counts: git has run once for a range exactly
  if there is an answer or a worker for it. `NetworkTypes`, with the types of the
  indicator updater.
* `LocalStorage_proofs`: `OneAccount`. Memory and local storage are written from
  each other at different times, so the invariant covers both, and what the refresh
  holds while it waits. `StoredSurvives` adds which accounts a call or a refresh under
  way may still write (`CallsAlone`, `RefreshAlone`), that the token of every other
  one is the keychain's, and who is without one: the program may end after the
  keychain has answered and before the call goes on, which `cut` remembers of a
  sign-out. `TagsSurvive`: what a read, a push or a restart holds of the list covers the
  tags not pushed yet (`UnpushedKept`), except those made during a push that ends well
  or an older read (`late`). `ListsAreServers`: what a load has sent so far is what it was
  asked for less what is due (`SentSoFar`); an account's object may be replaced while it
  runs, and the entry moves with it; who signs out during a load is `orphaned` until a
  load begins when no other is left. `LocalTypes`.
* `Background_proofs`: `TasksFollowSelection`, `SelectionAgrees` and
  `FetchesFollowSelection` from one invariant, `SelectionInv`: a fetcher that is alive
  is for the selected object or about to be stopped, a selection that misses its
  fetcher has a call under way that starts it, and the emission that is in flight or
  queued carries the table as it is, unless the reading for the last one failed
  (`missed`). `PrunedAreExpendable`: what a run has found out of
  a branch still holds, or the branch was touched. `BackgroundTypes`.
* `Branches_proofs`: `WorkIsKept`, that `NoWorkLost` holds. It is not inductive: a drop is
  safe for what the handler has done before it. `WorkInv` adds what a handler relies on
  from step to step (`HandlerOK`): the entry it is about to drop was given up, is back in
  the working directory (`GivenUp`), or has a newer one of its branch before it
  (`IsReplaced`); the place it found is still that entry's; and an entry that was read and
  is still there is as it was read (`Known`). `Written` and `Numbered` say that contents and
  entries are new when they are made. That places do not move between the look-up and
  the drop takes the hypothesis `Apart`: of the handlers that put entries on the stash or
  take them off no two are under way together, and none that stages files is beside a
  commit. Discards, the editor, selections, refreshes, and commits beside a drop overlap
  as they like; without `Apart` the code loses work (see Known limits). `CommitsAreOfSelection`
  follows: the index is emptied before it is filled from the selection.
  `HistoryIsShown`, from `CompareInv`: of two requests no two skip the same number of
  commits, each has the list it is going to be put behind, and while `HEAD` has not moved
  that list is a beginning of the history and the answer its continuation
  (`LogContinues`). `BranchesTypes`, without a hypothesis: `WorkInv` has the part that
  needs `Apart` behind a switch.
* `CommitsAndRequests_proofs`: `DiffCorrect` and `SelectionTypes`. A selection forgets the
  diff in the step that changes it, and a load that comes late is compared with
  what is selected then. `LinesAreChosen`: the lemma `RangeIsSelected` is the law of
  `withRangeSelection`, that of the lines that can be selected those in the range get the
  new state and no other changes, although a selection of all or none starts its
  representation anew. It needs that no line diverges that is known not to be one to
  select; and the invariant has to say that the diff shown is the one that said which
  are, if any has since the selection began. `NothingIsMissed`: while pages come
  (`PagesKnow`), what has not been read, and did not move, has no fewer items of the list
  before it than were received, so it is on a later page; a list that ends at its last
  page, or at an item no newer than `lastUpdated`, has therefore all that is newer. An
  answer on its way was right when GitHub gave its pages, and what changed since is no
  older than all of it (`AnswerKnows`), so taking its newest time for `lastUpdated`
  leaves nothing behind. Two pull requests of the same time can be on two pages, of
  which the second is not asked for; they are `tied`, and nothing is claimed of them.
  What changed, moved or was refused between two pages is `unsure` until the open ones
  are read anew. `NextRefreshIsDue`: a refresh that begins
  pushes back when the next is due, never the timers, and a call that waits schedules one
  when the refresh ends. `RequestTypes`.
  `CommitHasLinesChosen` and `DiscardTakesLinesChosen`: what git makes of a patch is what
  was selected, for any file, changes and lines chosen. The file while it is patched is a
  set of entries of the script, those of the hunks applied so far taken from the result
  and the others from the file (`Reached`, `Image`). A hunk fits at the place its
  entries have in it (`RightPlace`). It fits nowhere else if no line is like another
  (`OnlyPlace`), and otherwise git looks there first if the header of the hunk says so
  (`InPlaceIs`), so in both cases git finds it there (`PlaceIsFound`), and what it puts there
  is the next such set (`HunkApplied`, from `Joined` and `Spliced`, what concatenating parts
  of a file does to its entries). `PatchApplied` goes from hunk to hunk: the first one
  after which the image is not that set, the least of a set of numbers, has one before it.
  It needs of the diff that hunks follow one another, hold all changes and, but for one
  at the first line, begin with a line that stays (`DiffIs`), which is why
  `ContextLines` is not 0: git takes a hunk without old lines to be behind the line its
  header names. `PatchInv` has what an await carries: a diff on its way is of some
  script, and a commit is given the rows the user chose, all of them if the file goes in
  as a whole. The model of `git apply` is external, so the theorems say that the patches
  are right for a git that looks for hunks that way. `AllTypes`.
* `SignInAndRepositories_proofs`: `NothingIsLost`, that the subscriber holds the table as
  it is when nothing is queued or in flight. `NoUpdateLost` is far from inductive; the
  argument follows the one read an emission has. `QueuedIsRead` and `ReadIsAlone`: while
  `emitQueued` is set the read is due, created or completed, and there is one.
  `Covered`: it has seen the table as it is, or is going to, or a write that completed
  behind it is going to ask for another emission. The lemmas say what appending to a
  queue and taking from it does to these. `UpdatesFollow` maps every step to
  `RepositoryUpdates`, with `unseen` for a write no read comes after (`Unseen`): a write
  that is committed sets it, the `getAll` of the one emission resets it, and no write that
  resumes changes it, since a callback is due or a read comes by the time it does. That
  the emission ends is the part of `UpdatesEmitted` that stays with TLC.
  `AccountsAreAskedFor`: a call that waits for an answer about credentials was made at
  the step that asks for them (`CallsAreOfSteps`), and the handler compares the step
  with that one; the browser's request belongs to the one call that waits for it.
  `SignInAndRepositoriesTypes`.
* `InOrder_proofs`: what `Array.filter` keeps, and in which order: the entries of an array
  at a set of places, in the order of the places (`InOrderIs`), of the parts one after the
  other where one part is before the other (`InOrderOfUnion`).
* `MultiCommitOperation_proofs`: `TypesAndPopups`, that `TypeOK` holds: no popup twice in
  the stack, errors on top of the others, the limit kept whatever is added, replaced or
  taken out (`StackFiltered`, `StackShortened`, `PopupInserted`). `UndoBelongs`, that `UndoIsOfOperation` holds, and
  `OperationTypes`, from one invariant, `OperationInv`. The flow and the undo state are
  written by different methods, and handlers, the status they load and the dialogs
  may replace one flow with another, so the invariant says of the store (`UiOK`) that a
  squash or reorder under way is where its undo state is, that the undo state of a branch
  is a commit, and that who chooses a branch to rebase onto has a branch to rebase; and of
  every handler (`HandlerOK`) what it may rely on after its await: the status it is about
  to apply was read whole, the operation it starts has branches that exist. The attempt
  showed two guards of the code that the model lacked: what begins from the warning is
  a squash, a reorder or a rebase, and a rebase that was found, without a branch, does not
  begin there.

The assumptions are those named in the modules (`ASSUME`), which TLC evaluates with
every run that extends the module or restates the assumption, and the hypotheses a
theorem states. Liveness (`FlagIsReleased`, `EventuallyShown`,
`IndicatorsAreRefreshed`, `InterestedAreTold`, `LoadingEnds`, `NoPhantomConflicts`,
`ConflictIsShown`, and that emissions end in `UpdatesEmitted`) is checked
by TLC only; it needs fairness and `ENABLED`, which the prover does not have. Every
invariant that a passing run checks is proved, some under the hypotheses named above,
which hold in that run. Where data has any length, a patch of any number of
hunks for one, the library's induction theorems cannot be used; the arguments take the
least number for which a claim fails (`LeastIs`), and what depends on the order of a
set of places is in `InOrder_proofs`.

## Known limits of the code

Met while modelling. They are stated here and not as properties: where one stands
in the way of a property above, the property names the exception (`late` in
`TagsToPush`, `raced` and `cut` in `AccountsStore`, `orphaned` in `ApiRepositoriesStore`,
`missed` in `RepositorySelection`, `unsure` and `tied` in `PullRequestStore`, `touched` in `BranchPruner`, `moves = 0` in
`CompareView`, `failed` in `SignInStore`, `RefreshIsScheduled` in
`IndicatorsAreRefreshed`, `fresh`, `Distinct` and `InPlace` in `PartialCommit`), or the instance
has one handler at a time (`WorkingDirectory`). Paths are under `app/src/lib`.

* Network: the lock is kept by `Repository.hash`, and the hash changes when the
  record does, for one when a repository is associated with GitHub. A second
  operation can begin in the same directory (`stores/app-store.ts:4368`). The
  fetch for the indicators wipes the progress of a running operation when it is
  refused (3422), and leaves its own behind when it throws (3417). The updater of
  the indicators means to leave out the selected repository and compares objects
  that are not the same (3399).
* Commit status: who subscribes again while a refresh is in flight is not called by
  it (`stores/commit-status-store.ts:330`); a refresh without a branch makes the entry
  of one with a branch look fresh (329). The background refresh mends both.
* Pruner: `stop()` during the first run finds no timer, and the interval is set
  afterwards (`stores/helpers/branch-pruner.ts:87`); so two pruners can run, and
  both can pass the check of the date on one day (139, 159). A branch that is
  committed to or checked out after git was asked is deleted nevertheless (229).
* Sign in: a request that throws leaves the dialog loading
  (`stores/sign-in-store.ts:355`); an error that comes late brings back a dialog that
  was cancelled (477); an answer is taken for the dialog of another endpoint (359);
  a callback URL that is opened twice is taken twice (`oauth.ts:63`).
* Accounts: `refresh` writes back the list it began with. An account removed
  meanwhile returns, one added is lost (`stores/accounts-store.ts:113`). If the program
  ends after the keychain deleted a token and before local storage is written (158),
  the account is back at the next start, without a token.
* Tags: a tag made during a push is taken off the list
  (`stores/app-store.ts:4278`); an older read of the tags takes a new one off
  (`stores/git-store.ts:256`); a tag listed twice cannot be pushed (502).
* Compare view: the list can be that of another tip than the one noted
  (`stores/app-store.ts:1357`); a batch that comes late replaces a comparison (1548);
  of two answers the last one wins over what the user chose last (1454, 1397); the
  merge status can be that of a former branch (1474).
* Commit selection: the files of a former selection are shown (1583); hiding
  whitespace twice shows the diff that is answered last (1664).
* Repositories: if reading the table for an emission fails, the error is logged and
  `AppStore` keeps what it had until another write emits (`stores/repositories-store.ts:707`).
* Pull requests: a list of the open ones is stored as whole when a page of it failed
  (`api.ts:1574`); one that is closed while the pages come moves the others up, and the
  first of the next page is missed (1573); of those updated at the time of the last
  refresh the ones behind the end of a page are missed (1115), although the answer is
  said to have "all issues modified _at_ or after the timestamp"
  (`stores/pull-request-store.ts:95`); the cache can be filled from a read that began before the last change
  (`stores/pull-request-coordinator.ts:243`); the table is emptied without an event
  (`stores/pull-request-store.ts:149`, 230); a tick that finds it is too early
  schedules another one and refreshes all the same
  (`stores/helpers/pull-request-updater.ts:61`).
* API repositories: a page that comes after its account was signed out puts the
  account back (`stores/api-repositories-store.ts:53`), so that `MatchesAccounts` of the
  module does not hold; a page that fails makes the repositories that
  were not listed yet look deleted.
* Trampoline: a server that could not listen keeps its rejected promise, since `close`
  awaits that promise and throws before it resets it
  (`trampoline/trampoline-server.ts:75`): no git command that needs it works until a
  restart, although "it will be restarted lazily the next time it's needed" (78).
* Multi-commit operations: a squash or reorder that failed, and a merge that failed,
  leave their flow behind (`ui/dispatcher/dispatcher.ts:3636`, "TODO: clear state");
  `_closePopup()` without a type closes the error on top of the flow when `--continue`
  or a cherry-pick fails; a dialog covered by an error is not closed when its conflicts
  are gone; `_clearCherryPickingHead` aborts whatever cherry-pick there is; a status
  loaded while a rebase is running shows its conflicts dialog in the middle; the banner
  of a success can be that of another operation; `endFlowInvalidState`, which should
  never be needed, is reached.
* Checkout and stashing: entries are addressed by their number, and a handler that
  overlaps with another or with the command line pops or drops the entry that has the
  number by then (`git/stash.ts:205`, 228). The run has one handler of the user's at a
  time, and the proofs have `Apart`.
* Lines of a file: a selection is kept by the indices of the lines when the diff is
  read anew, so it is of other lines when the file has changed; of two diffs of one
  file on their way the one that is answered last is shown, which may be the older; the
  patch of a commit is made of a new diff and the indices of the one shown
  (`git/apply.ts:61`). `StagedIsSelected` therefore speaks of a file that has not
  changed since its diff was shown.
* Read, not modelled: `UpdateStore` awaits the release notes before it says that an
  update is ready (`ui/lib/update-store.ts:185`), and stays "checking" if they cannot
  be had; turning off notifications does not end an Alive subscription that still
  awaits another one (`stores/alive-store.ts`).

## What is not modelled

`PROJECT.json` lists every part with its reason. Left out for good: the user
interface (its drawing; the gestures that call the stores are in the modules of
these), statistics, parsers, wrappers of single git commands but for those named above,
the API client but for its paging, the main process, Windows and macOS integration.
They are most of the lines of the repository: the components of the user interface,
the main process, the statistics and the generated icons alone keep no state that
other parts could find in disorder, or keep it for the time of one rendering.

Left out of modelled parts:

* `MultiCommitOperation`: a cherry-pick to a new branch, squash merges, the rebase of a
  pull with conflicts, the retry after a stash.
* `WorkingDirectory`: renaming a branch (which moves its stash entry), checkouts that
  create a branch, deleted files, what others stage in part.
* `PartialCommit`: other files, renames, the diff that hides whitespace, "No newline at
  end of file", and the failure of git itself.
* `PullRequestStore`: the pages of a list have one size; the code lets those of updated
  pull requests grow so that a new page fits behind what was received
  (`api.ts`, `getNextPagePathWithIncreasingPageSize`). More results than `maxResults` end
  the refresh like a refused page.
* The eviction of caches; how long timers take, but for the pull request updater.

## Plan

1. Done: network operations, selection with its background work, the store of
   repositories; the stores with late answers; the parts with a protocol of their own:
   indicator updater, ahead-behind store, trampoline, API repositories, popups and
   multi-commit operations, working directory with stashes and checkouts, partial
   commits.
2. To model: `UpdateStore` with quitting and the main process; `AliveStore` with
   `NotificationsStore`; the changes view with several files selected and a stash
   shown (`_hideStashedChanges`); amending and the undo of a commit.
