------------------------- MODULE NetworkOperations -------------------------
(***************************************************************************)
(* Push, pull, fetch and the repository-indicator fetch of AppStore        *)
(* (src/app/src/lib/stores/app-store.ts), run as asynchronous functions on *)
(* one event loop: each action is the code between two awaits.             *)
(*                                                                         *)
(* All of them go through withPushPullFetch, whose flag lives in the       *)
(* IRepositoryState of RepositoryStateCache. The cache is keyed by         *)
(* Repository.hash, which covers the path and also the alias, the GitHub   *)
(* repository, the missing flag and the workflow preference: a repository  *)
(* whose record is updated gets a second, fresh state.                     *)
(***************************************************************************)
EXTENDS Naturals

CONSTANTS Path,     \* working directories
          Variant,  \* values of the other attributes that enter the hash
          Op,       \* slots for operations in flight
          None      \* null

ASSUME NoneIsNoKind == None \notin {"push", "pull", "fetch", "indicator"}

\* Repository.hash: the path and everything else createEqualityHash is given.
Hash == Path \X Variant

Kind == {"push", "pull", "fetch", "indicator"}

\* Where an operation stands between two awaits.
Pc == {"idle", "account", "mergeBase", "git", "refresh", "release", "clear"}

VARIABLES
    variant,                    \* [Path -> Variant], the record in the database
    isPushPullFetchInProgress,  \* [Hash -> BOOLEAN]
    pushPullFetchProgress,      \* [Hash -> Kind \cup {None}], who reported last
    op                          \* [Op -> record], the operations in flight

vars == <<variant, isPushPullFetchInProgress, pushPullFetchProgress, op>>

Idle == [pc : {"idle"}, kind : Kind, repo : Hash, threw : {FALSE}]
Operation == [pc : Pc, kind : Kind, repo : Hash, threw : BOOLEAN]

TypeOK ==
    /\ variant \in [Path -> Variant]
    /\ isPushPullFetchInProgress \in [Hash -> BOOLEAN]
    /\ pushPullFetchProgress \in [Hash -> Kind \cup {None}]
    /\ op \in [Op -> Operation]

Init ==
    /\ variant \in [Path -> Variant]
    /\ isPushPullFetchInProgress = [h \in Hash |-> FALSE]
    /\ pushPullFetchProgress = [h \in Hash |-> None]
    /\ op \in [Op -> Idle]

-----------------------------------------------------------------------------

\* Operation o is inside withPushPullFetch, between its try and its finally.
Inside(o) == op[o].pc \in {"mergeBase", "git", "refresh", "release"}

Goto(o, pc) == op' = [op EXCEPT ![o].pc = pc]

Progress(h, p) ==
    pushPullFetchProgress' = [pushPullFetchProgress EXCEPT ![h] = p]

SetInProgress(h, b) ==
    isPushPullFetchInProgress' = [isPushPullFetchInProgress EXCEPT ![h] = b]

\* RepositoriesStore writes a new alias, GitHub repository, missing flag or
\* workflow preference and AppStore picks up the Repository object with it.
UpdateRepository(p, v) ==
    /\ variant' = [variant EXCEPT ![p] = v]
    /\ UNCHANGED <<isPushPullFetchInProgress, pushPullFetchProgress, op>>

\* _push, _pull, _fetch and fetchForRepositoryIndicator: the caller hands
\* over the Repository object it holds; withAuthenticatingUser looks for the
\* account before anything else happens.
Request(o, kind, p) ==
    /\ op[o].pc = "idle"
    /\ op' = [op EXCEPT ![o] = [pc |-> "account", kind |-> kind,
                                repo |-> <<p, variant[p]>>, threw |-> FALSE]]
    /\ UNCHANGED <<variant, isPushPullFetchInProgress, pushPullFetchProgress>>

\* withAuthenticatingUser continues with the object it was given or, when it
\* had to refresh the GitHub association first, with an up-to-date one.
RepositoryAfterRefresh(o) ==
    LET given == op[o].repo
    IN  {given, <<given[1], variant[given[1]]>>}

\* performPush finds no remote: the publish dialog, and nothing else.
PushWithoutRemote(o) ==
    /\ op[o].pc = "account"
    /\ op[o].kind = "push"
    /\ Goto(o, "idle")
    /\ UNCHANGED <<variant, isPushPullFetchInProgress, pushPullFetchProgress>>

\* "Don't allow concurrent network operations.": withPushPullFetch returns at
\* once. Only the indicator's fetch has code left to run after that.
Refuse(o) ==
    /\ op[o].pc = "account"
    /\ \E h \in RepositoryAfterRefresh(o) :
          /\ isPushPullFetchInProgress[h]
          /\ op' = [op EXCEPT ![o].repo = h,
                              ![o].pc = IF op[o].kind = "indicator"
                                          THEN "clear" ELSE "idle"]
    /\ UNCHANGED <<variant, isPushPullFetchInProgress, pushPullFetchProgress>>

\* Mutant: the flag is read by whoever starts the operation, not here.
EnterUnchecked(o) ==
    /\ op[o].pc = "account"
    /\ \E h \in RepositoryAfterRefresh(o) :
          /\ SetInProgress(h, TRUE)
          /\ op' = [op EXCEPT ![o].repo = h, ![o].pc = "git"]
          /\ UNCHANGED pushPullFetchProgress
    /\ UNCHANGED variant

\* withPushPullFetch takes the flag and runs the first part of the operation,
\* up to its first await. A push or a pull reports its start unless the tip is
\* no branch; a pull of a branch with an upstream asks for the merge base first.
Enter(o) ==
    /\ op[o].pc = "account"
    /\ \E h \in RepositoryAfterRefresh(o) :
          /\ ~isPushPullFetchInProgress[h]
          /\ SetInProgress(h, TRUE)
          /\ \/ /\ op[o].kind \in {"fetch", "indicator"}
                /\ op' = [op EXCEPT ![o].repo = h, ![o].pc = "git"]
                /\ UNCHANGED pushPullFetchProgress
             \/ /\ op[o].kind \in {"push", "pull"}
                /\ op' = [op EXCEPT ![o].repo = h, ![o].pc = "git"]
                /\ Progress(h, op[o].kind)
             \/ /\ op[o].kind = "pull"
                /\ op' = [op EXCEPT ![o].repo = h, ![o].pc = "mergeBase"]
                /\ UNCHANGED pushPullFetchProgress
             \/ /\ op[o].kind \in {"push", "pull"}   \* unborn, detached, no remote
                /\ op' = [op EXCEPT ![o].repo = h, ![o].pc = "release"]
                /\ UNCHANGED pushPullFetchProgress
    /\ UNCHANGED variant

\* performPull after getMergeBase. An error leaves before the inner try.
MergeBase(o) ==
    /\ op[o].pc = "mergeBase"
    /\ \/ Goto(o, "git") /\ Progress(op[o].repo, op[o].kind)
       \/ Goto(o, "release") /\ UNCHANGED pushPullFetchProgress
    /\ UNCHANGED <<variant, isPushPullFetchInProgress>>

\* Git writes a progress line and the callback passes it on.
Report(o) ==
    /\ op[o].pc = "git"
    /\ Progress(op[o].repo, op[o].kind)
    /\ UNCHANGED <<variant, isPushPullFetchInProgress, op>>

\* The git commands of a push, pull or fetch are through. A failed pull or
\* fetch command is swallowed by performFailableOperation and the refresh runs
\* all the same; a failed push skips it.
GitDone(o) ==
    /\ op[o].pc = "git"
    /\ op[o].kind # "indicator"
    /\ Goto(o, "refresh")
    /\ Progress(op[o].repo, op[o].kind)
    /\ UNCHANGED <<variant, isPushPullFetchInProgress>>

\* Mutant: no inner finally.
GitFailedKeepsProgress(o) ==
    /\ op[o].pc = "git"
    /\ op[o].kind # "indicator"
    /\ Goto(o, "release")
    /\ UNCHANGED <<variant, isPushPullFetchInProgress, pushPullFetchProgress>>

\* The failed push, and a pull or fetch that throws (updateRemoteHEAD and the
\* ahead/behind count are not run under performFailableOperation): the inner
\* finally resets the progress.
GitFailed(o) ==
    /\ op[o].pc = "git"
    /\ op[o].kind # "indicator"
    /\ Goto(o, "release")
    /\ Progress(op[o].repo, None)
    /\ UNCHANGED <<variant, isPushPullFetchInProgress>>

\* fetchForRepositoryIndicator has no inner try: whether its fetch returned or
\* threw decides whether the line after withPushPullFetch runs.
IndicatorFetchDone(o) ==
    /\ op[o].pc = "git"
    /\ op[o].kind = "indicator"
    /\ \E threw \in BOOLEAN :
          op' = [op EXCEPT ![o].pc = "release", ![o].threw = threw]
    /\ UNCHANGED <<variant, isPushPullFetchInProgress, pushPullFetchProgress>>

\* fastForwardBranches, refreshBranchProtectionState and _refreshRepository are
\* through, or one of them threw: the progress is reset either way.
RefreshDone(o) ==
    /\ op[o].pc = "refresh"
    /\ Goto(o, "release")
    /\ Progress(op[o].repo, None)
    /\ UNCHANGED <<variant, isPushPullFetchInProgress>>

\* Mutants: the flag is only reset when the operation did not throw, as it
\* would be without the finally; a released operation goes to no known place.
ReleaseUnlessThrown(o) ==
    /\ op[o].pc = "release"
    /\ IF op[o].threw
         THEN UNCHANGED isPushPullFetchInProgress
         ELSE SetInProgress(op[o].repo, FALSE)
    /\ Goto(o, IF op[o].kind = "indicator" /\ ~op[o].threw
                 THEN "clear" ELSE "idle")
    /\ UNCHANGED <<variant, pushPullFetchProgress>>

ReleaseToNowhere(o) ==
    /\ op[o].pc = "release"
    /\ SetInProgress(op[o].repo, FALSE)
    /\ Goto(o, "done")
    /\ UNCHANGED <<variant, pushPullFetchProgress>>

\* The finally of withPushPullFetch.
Release(o) ==
    /\ op[o].pc = "release"
    /\ SetInProgress(op[o].repo, FALSE)
    /\ Goto(o, IF op[o].kind = "indicator" /\ ~op[o].threw
                 THEN "clear" ELSE "idle")
    /\ UNCHANGED <<variant, pushPullFetchProgress>>

\* fetchForRepositoryIndicator resets the progress after withPushPullFetch,
\* whether or not that ran the fetch.
IndicatorClear(o) ==
    /\ op[o].pc = "clear"
    /\ Progress(op[o].repo, None)
    /\ Goto(o, "idle")
    /\ UNCHANGED <<variant, isPushPullFetchInProgress>>

-----------------------------------------------------------------------------

\* What an operation does by itself once it was requested.
Continue(o) ==
    \/ PushWithoutRemote(o) \/ Refuse(o) \/ Enter(o)
    \/ MergeBase(o) \/ GitDone(o) \/ GitFailed(o)
    \/ IndicatorFetchDone(o) \/ RefreshDone(o)
    \/ Release(o) \/ IndicatorClear(o)

Next ==
    \/ \E p \in Path, v \in Variant : UpdateRepository(p, v)
    \/ \E o \in Op, kind \in Kind, p \in Path : Request(o, kind, p)
    \/ \E o \in Op : Continue(o) \/ Report(o)

\* Promises are settled and git processes end; nobody has to request anything.
Fairness == \A o \in Op : WF_vars(Continue(o))

Spec == Init /\ [][Next]_vars
FairSpec == Spec /\ Fairness

-----------------------------------------------------------------------------

\* isPushPullFetchInProgress of a repository state is set exactly while one
\* operation on that state is between the try and the finally of
\* withPushPullFetch: no path out of an operation, by error or by an early
\* return, leaves the flag behind, and none resets it for somebody else.
FlagMatchesOperations ==
    /\ \A h \in Hash :
          isPushPullFetchInProgress[h]
             <=> \E o \in Op : Inside(o) /\ op[o].repo = h
    /\ \A o1, o2 \in Op :
          Inside(o1) /\ Inside(o2) /\ op[o1].repo = op[o2].repo => o1 = o2

\* The progress a push, pull or fetch reported never outlives it, whatever it
\* failed at: the toolbar button is disabled for as long as there is progress.
ProgressEndsWithOperation ==
    \A h \in Hash :
       pushPullFetchProgress[h] \in {"push", "pull", "fetch"} =>
          \E o \in Op : /\ Inside(o)
                        /\ op[o].repo = h
                        /\ op[o].kind = pushPullFetchProgress[h]

\* Every operation that took the flag of a repository state gives it back, so
\* that later pushes, pulls and fetches of that state are not refused forever.
FlagIsReleased ==
    \A h \in Hash :
       []<>~isPushPullFetchInProgress[h]

\* withPushPullFetch gives exclusive access to each repository state.
Exclusive == INSTANCE ExclusiveAccess
    WITH Key <- Hash, Client <- Op,
         workers <- [h \in Hash |-> {o \in Op : Inside(o) /\ op[o].repo = h}]
ExclusivePerState == Exclusive!Spec
=============================================================================
