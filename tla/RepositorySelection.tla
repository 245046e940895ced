------------------------ MODULE RepositorySelection ------------------------
(***************************************************************************)
(* The selected repository of AppStore (app-store.ts) and the background    *)
(* work that follows it: the BackgroundFetcher                              *)
(* (helpers/background-fetcher.ts), the branch pruner and the pull request  *)
(* updater. RepositoriesStore is taken as RepositoryUpdates describes it.   *)
(*                                                                          *)
(* _selectRepository is re-entrant. It awaits recoverMissingRepository and  *)
(* goes on only if selectedRepository is still the very object it was given.*)
(* Each emission builds new Repository objects, so identity is tracked: an  *)
(* object carries the token of the emission that made it.                   *)
(***************************************************************************)
EXTENDS RepositoryUpdates, FiniteSets

CONSTANTS Call,     \* bound: calls of _selectRepository waiting to continue
          MaxChanges,    \* bound: changes of the database
          InitialRow,    \* bound: what the rows are that the program begins with
          Fetcher,  \* bound: background fetchers not yet at their end
          Cloning   \* a CloningRepository

Token == 0 .. Cardinality(Call) + 2
Object == [id : ID, row : Row, token : Token]

\* The rest of _selectRepository, and a BackgroundFetcher.
CallState == [object : Object, skew : BOOLEAN]
FetcherState == [id : ID, pc : {"timer", "should", "fetch", "poll"}, stopped : BOOLEAN]

ASSUME SelectionAssumption ==
    /\ IsFiniteSet(Call) /\ MaxChanges \in Nat /\ InitialRow \subseteq Row
    /\ Cloning \notin Object \cup {None}
    /\ None \notin ID \cup Row \cup Table \cup Object \cup CallState
    /\ None \notin Fetcher \cup FetcherState

VARIABLES
    listToken,                 \* identifies the objects in repositories
    selectedRepository,        \* an object, Cloning or None
    lastSelectedID,            \* LastSelectedRepositoryIDKey, in local storage
    call,                      \* [Call -> None or the rest of _selectRepository]
    fetcher,                   \* [Fetcher -> None or a BackgroundFetcher]
    currentBackgroundFetcher,  \* an element of Fetcher or None
    currentBranchPruner,       \* the id of the repository it prunes, or None
    pullRequestUpdater,        \* the id of the repository it updates, or None
    appIsFocused,
    missed,                    \* history: the last emission failed, AppStore has not
                               \* heard of what it had read
    changes                    \* how often the database was changed

taskVars == <<fetcher, currentBackgroundFetcher, currentBranchPruner,
              pullRequestUpdater>>
selectionVars == <<listToken, selectedRepository, lastSelectedID, call,
                   taskVars, appIsFocused>>
vars == <<updateVars, selectionVars, missed, changes>>

TypeOK ==
    /\ UpdateTypeOK
    /\ listToken \in Token
    /\ selectedRepository \in Object \cup {Cloning, None}
    /\ lastSelectedID \in ID \cup {None}
    /\ call \in [Call -> CallState \cup {None}]
    /\ fetcher \in [Fetcher -> FetcherState \cup {None}]
    /\ currentBackgroundFetcher \in Fetcher \cup {None}
    /\ currentBranchPruner \in ID \cup {None}
    /\ pullRequestUpdater \in ID \cup {None}
    /\ appIsFocused \in BOOLEAN
    /\ missed \in BOOLEAN
    /\ changes \in 0 .. MaxChanges

IsRepository(r) == r \notin {None, Cloning}

\* Repository.hash; a repository being cloned has a hash of its own.
HashOf(r) == IF IsRepository(r) THEN <<r.id, r.row>> ELSE <<r>>

\* The objects of an emission that is given token t.
Listed(table, i, t) == [id |-> i, row |-> table[i], token |-> t]

Used == {r.token : r \in {o \in {selectedRepository} \cup
                            {call[c].object : c \in {c \in Call : call[c] # None}} :
                          IsRepository(o)}}
FreshToken(taken) == CHOOSE t \in Token : t \notin Used \cup taken

Rows(table) == {i \in ID : table[i] # None}

-----------------------------------------------------------------------------

\* stopBackgroundFetching: a fetcher that waits for its timer is gone, one in
\* an await finds out when that is over.
FetcherStopped ==
    IF currentBackgroundFetcher = None THEN fetcher
    ELSE [fetcher EXCEPT ![currentBackgroundFetcher] =
            IF @.pc = "timer" THEN None ELSE [@ EXCEPT !.stopped = TRUE]]

\* _selectRepository up to its first await, as call c.
SelectRepository(c, r) ==
    /\ selectedRepository' = r
    /\ fetcher' = FetcherStopped
    /\ currentBackgroundFetcher' = None
    /\ currentBranchPruner' = None
    /\ pullRequestUpdater' = None
    /\ IF IsRepository(r)
         THEN /\ call[c] = None
              /\ call' = [call EXCEPT ![c] =
                            [object |-> r, skew |-> selectedRepository = None]]
              /\ lastSelectedID' = r.id
         ELSE UNCHANGED <<call, lastSelectedID>>

\* The user picks a repository of the list.
UserSelects(c, i) ==
    /\ repositories[i] # None
    /\ SelectRepository(c, Listed(repositories, i, listToken))
    /\ UNCHANGED <<updateVars, listToken, appIsFocused, missed, changes>>

\* A caller that has just written the row selects the object the store gave it
\* (addRepository, _cloneAgain). No older emission arrives after such a write.
SelectHanded(c, i) ==
    /\ changes > 0
    /\ db[i] # None
    /\ snapshot = None
    /\ SelectRepository(c, Listed(db, i, FreshToken({listToken})))
    /\ UNCHANGED <<updateVars, listToken, appIsFocused, missed, changes>>

\* A clone is started and shown.
SelectCloning ==
    /\ \E c \in Call : SelectRepository(c, Cloning)
    /\ UNCHANGED <<updateVars, listToken, appIsFocused, missed, changes>>

\* The repository to be selected after an emission with token t.
Reselected(table, t) ==
    LET kept == IF IsRepository(selectedRepository)
                  THEN Rows(table) \cap {selectedRepository.id} ELSE {}
        last == Rows(table) \cap {lastSelectedID}
        first == {i \in Rows(table) : \A j \in Rows(table) : i <= j}
        candidates == IF kept # {} THEN kept
                      ELSE IF last # {} THEN last ELSE first
    IN  IF candidates = {} THEN None
        ELSE Listed(table, CHOOSE i \in candidates : TRUE, t)

\* Mutants of the emission's handler: it compares ids, and it takes the new
\* object over when nothing about the repository has changed.
EmissionComparesIDs(c) ==
    /\ Emit
    /\ listToken' = FreshToken({})
    /\ LET r == Reselected(snapshot, listToken')
       IN IF HashOf(r)[1] # HashOf(selectedRepository)[1]
            THEN SelectRepository(c, r)
            ELSE UNCHANGED <<selectedRepository, lastSelectedID, call, taskVars>>
    /\ missed' = FALSE
    /\ UNCHANGED <<appIsFocused, changes>>

EmissionReplacesObject(c) ==
    /\ Emit
    /\ listToken' = FreshToken({})
    /\ LET r == Reselected(snapshot, listToken')
       IN IF HashOf(r) # HashOf(selectedRepository)
            THEN SelectRepository(c, r)
            ELSE /\ selectedRepository' = r
                 /\ UNCHANGED <<lastSelectedID, call, taskVars>>
    /\ missed' = FALSE
    /\ UNCHANGED <<appIsFocused, changes>>

\* RepositoriesStore emits: the list is replaced, and
\* updateRepositorySelectionAfterRepositoriesChanged selects anew if the hash
\* of the selection has changed. Otherwise the selected object stays as it is.
Emission(c) ==
    /\ Emit
    /\ listToken' = FreshToken({})
    /\ LET r == Reselected(snapshot, listToken')
       IN IF HashOf(r) # HashOf(selectedRepository)
            THEN SelectRepository(c, r)
            ELSE UNCHANGED <<selectedRepository, lastSelectedID, call, taskVars>>
    /\ missed' = FALSE
    /\ UNCHANGED <<appIsFocused, changes>>

\* getAll rejects: the error is logged, AppStore hears nothing.
EmissionFailed ==
    /\ EmitFailed
    /\ missed' = TRUE
    /\ UNCHANGED <<selectionVars, changes>>

-----------------------------------------------------------------------------

\* Bound.
Counted == changes < MaxChanges /\ changes' = changes + 1

\* recoverMissingRepository of a repository that is marked missing: it is
\* still missing, and the call ends; or it is there again, the row is updated,
\* and the call ends because the object it goes on with is not selected.
Recovered(c) ==
    /\ call[c] # None
    /\ call[c].object.row.missing
    /\ call' = [call EXCEPT ![c] = None]
    /\ \/ UNCHANGED <<updateVars, changes>>
       \/ Counted /\ SetMissing(call[c].object.id, FALSE)
    /\ UNCHANGED <<listToken, selectedRepository, lastSelectedID, taskVars,
                   appIsFocused, missed>>

\* The background work of repository r is started, the old one stopped.
StartTasks(r, skew, stopped) ==
    /\ IF r.row.gitHub
         THEN \E f \in Fetcher :
                 /\ stopped[f] = None
                 /\ fetcher' = [stopped EXCEPT ![f] =
                                  [id |-> r.id, stopped |-> FALSE,
                                   pc |-> IF skew THEN "timer" ELSE "should"]]
                 /\ currentBackgroundFetcher' = f
         ELSE fetcher' = stopped /\ currentBackgroundFetcher' = None
    /\ currentBranchPruner' = r.id
    /\ pullRequestUpdater' = IF appIsFocused /\ r.row.gitHub THEN r.id ELSE None

\* Mutant: what a re-entrant call has started is not stopped.
RefreshTasksOnTop(c) ==
    /\ call[c] # None
    /\ ~call[c].object.row.missing
    /\ call' = [call EXCEPT ![c] = None]
    /\ IF selectedRepository = call[c].object
         THEN StartTasks(call[c].object, call[c].skew, fetcher)
         ELSE UNCHANGED taskVars
    /\ UNCHANGED <<updateVars, listToken, selectedRepository, lastSelectedID,
                   appIsFocused, missed, changes>>

\* _selectRepositoryRefreshTasks.
RefreshTasks(c) ==
    /\ call[c] # None
    /\ ~call[c].object.row.missing
    /\ call' = [call EXCEPT ![c] = None]
    /\ IF selectedRepository = call[c].object
         THEN StartTasks(call[c].object, call[c].skew, FetcherStopped)
         ELSE UNCHANGED taskVars
    /\ UNCHANGED <<updateVars, listToken, selectedRepository, lastSelectedID,
                   appIsFocused, missed, changes>>

\* _setAppFocusState.
Focus(focused) ==
    /\ appIsFocused' = focused
    /\ pullRequestUpdater' =
          IF ~focused THEN None
          ELSE IF ~IsRepository(selectedRepository) THEN pullRequestUpdater
          ELSE IF selectedRepository.row.gitHub THEN selectedRepository.id
          ELSE None
    /\ UNCHANGED <<updateVars, listToken, selectedRepository, lastSelectedID, call,
                   fetcher, currentBackgroundFetcher, currentBranchPruner, missed,
                   changes>>

-----------------------------------------------------------------------------

\* BackgroundFetcher.performAndScheduleFetch, from await to await.
FetcherMoves(f, next) ==
    /\ fetcher' = [fetcher EXCEPT ![f] = next]
    /\ UNCHANGED <<updateVars, listToken, selectedRepository, lastSelectedID, call,
                   currentBackgroundFetcher, currentBranchPruner,
                   pullRequestUpdater, appIsFocused, missed, changes>>

At(f, pc) == fetcher[f] # None /\ fetcher[f].pc = pc

TimerFires(f) ==
    /\ At(f, "timer")
    /\ FetcherMoves(f, [fetcher[f] EXCEPT !.pc = "should"])

\* Mutant: stopped is not looked at after the await.
ShouldFetchAnsweredUnchecked(f) ==
    /\ At(f, "should")
    /\ \E pc \in {"fetch", "poll"} :
          FetcherMoves(f, [fetcher[f] EXCEPT !.pc = pc])

\* shouldPerformFetch is answered.
ShouldFetchAnswered(f) ==
    /\ At(f, "should")
    /\ \/ fetcher[f].stopped /\ FetcherMoves(f, None)
       \/ /\ ~fetcher[f].stopped
          /\ \E pc \in {"fetch", "poll"} :
                FetcherMoves(f, [fetcher[f] EXCEPT !.pc = pc])

\* The fetch is through; an error is only logged.
FetchDone(f) ==
    /\ At(f, "fetch")
    /\ FetcherMoves(f, IF fetcher[f].stopped THEN None
                       ELSE [fetcher[f] EXCEPT !.pc = "poll"])

\* Mutant: no timer is set, the fetcher is left nowhere.
IntervalKnownNoTimer(f) ==
    /\ At(f, "poll")
    /\ FetcherMoves(f, IF fetcher[f].stopped THEN None
                       ELSE [fetcher[f] EXCEPT !.pc = "done"])

\* The server's poll interval is known, or the default is used.
IntervalKnown(f) ==
    /\ At(f, "poll")
    /\ FetcherMoves(f, IF fetcher[f].stopped THEN None
                       ELSE [fetcher[f] EXCEPT !.pc = "timer"])

FetcherStep(f) ==
    ShouldFetchAnswered(f) \/ FetchDone(f) \/ IntervalKnown(f) \/ TimerFires(f)

-----------------------------------------------------------------------------

Init ==
    /\ UpdateInit
    /\ \A i \in ID : db[i] \in InitialRow \cup {None}
    /\ listToken = 0
    /\ selectedRepository = None
    /\ lastSelectedID = None
    /\ call = [c \in Call |-> None]
    /\ fetcher = [f \in Fetcher |-> None]
    /\ currentBackgroundFetcher = None
    /\ currentBranchPruner = None
    /\ pullRequestUpdater = None
    /\ appIsFocused = FALSE
    /\ missed = FALSE
    /\ changes = 0

\* updateRepositorySelectionAfterRepositoriesChanged in loadInitialState.
Load(c) ==
    /\ selectedRepository = None
    /\ snapshot = None
    /\ Rows(repositories) # {}
    /\ SelectRepository(c, Reselected(repositories, listToken))
    /\ UNCHANGED <<updateVars, listToken, appIsFocused, missed, changes>>

Continue(c) == Recovered(c) \/ RefreshTasks(c)

Next ==
    \/ Counted /\ Write /\ UNCHANGED <<selectionVars, missed>>
    \/ Read /\ UNCHANGED <<selectionVars, missed, changes>>
    \/ EmissionFailed
    \/ \E c \in Call : Load(c) \/ Emission(c) \/ Continue(c)
    \/ \E c \in Call, i \in ID : UserSelects(c, i) \/ SelectHanded(c, i)
    \/ SelectCloning
    \/ \E focused \in BOOLEAN : Focus(focused)
    \/ \E f \in Fetcher : FetcherStep(f)

Spec == Init /\ [][Next]_vars

-----------------------------------------------------------------------------

\* The background fetcher AppStore holds is alive and works for the selected
\* repository, which is neither missing nor without a GitHub repository. It is
\* the only one alive: "We should only have on background fetcher active".
FetcherOfSelection ==
    /\ currentBackgroundFetcher # None =>
          /\ IsRepository(selectedRepository)
          /\ selectedRepository.row = [missing |-> FALSE, gitHub |-> TRUE]
          /\ fetcher[currentBackgroundFetcher] # None
          /\ fetcher[currentBackgroundFetcher].id = selectedRepository.id
    /\ \A f \in Fetcher :
          fetcher[f] # None =>
             (fetcher[f].stopped <=> f # currentBackgroundFetcher)

\* Wherever the selection moves while a fetcher awaits something: a background
\* fetch is only ever begun in the repository that is selected by then.
FetchesSelectedOnly ==
    [][\A f \in Fetcher :
          ~At(f, "fetch") /\ At(f, "fetch")' =>
             IsRepository(selectedRepository)
             /\ fetcher[f].id = selectedRepository.id]_vars

\* The pull request updater runs for the selected repository and only while
\* the window has the focus.
UpdaterFollowsFocus ==
    pullRequestUpdater # None =>
       /\ appIsFocused
       /\ IsRepository(selectedRepository)
       /\ pullRequestUpdater = selectedRepository.id
       /\ selectedRepository.row.gitHub

\* Once all updates have arrived the selection agrees with the database: what
\* was removed is not selected any more, and what changed is selected anew. Where
\* the reading for the last emission failed there is nothing to arrive; the next
\* emission makes up for it, whatever was selected in the meantime.
SelectionUpToDate ==
    ~unseen /\ snapshot = None /\ ~missed =>
       /\ repositories = db
       /\ IsRepository(selectedRepository) =>
             selectedRepository.row = db[selectedRepository.id]

\* The re-entrant calls of _selectRepository do not leave the background work
\* to each other: when none of them is pending, the selected repository has its
\* background fetcher, whatever emissions and selections came between.
SettledSelectionHasFetcher ==
    /\ \A c \in Call : call[c] = None
    /\ IsRepository(selectedRepository)
    /\ selectedRepository.row = [missing |-> FALSE, gitHub |-> TRUE]
    => currentBackgroundFetcher # None

\* Background work follows the selection, through emissions, re-entrant selections,
\* clones and changes of the focus: it is for the selected repository, it is done
\* once, and it is there when the selection has settled.
TasksOfSelection == FetcherOfSelection /\ UpdaterFollowsFocus /\ SettledSelectionHasFetcher
=============================================================================
