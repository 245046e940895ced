------------------------- MODULE CommitStatusStore -------------------------
(***************************************************************************)
(* CommitStatusStore (commit-status-store.ts): subscriptions to the checks  *)
(* of a commit, a cache of what the API last said, and refreshes that fill  *)
(* the cache and call the subscribers.                                      *)
(*                                                                          *)
(* The store has one subscription per key, shared by all its callbacks. It  *)
(* is dropped with the last callback; a refresh in flight keeps the object  *)
(* it started with, and the set of callbacks in that object stays empty.    *)
(***************************************************************************)
EXTENDS Naturals, FiniteSets

CONSTANTS Key,                   \* a commit of a GitHub repository
          Listener,              \* a component that shows checks
          Branch,                \* branches whose workflow runs are looked for
          MaxConcurrentFetches,  \* refreshes that run at the same time
          MaxVersion,            \* bound: changes of the checks on the server
          None

Version == 0 .. MaxVersion

\* The combined check: what the server said, and whether both requests were answered,
\* that for statuses and that for check runs. The workflow runs that are attached
\* to it are left out.
Check == [version : Version, whole : BOOLEAN]

\* Both were answered, or only one of them, or what was answered has no checks.
Part == {"whole", "half", "empty"}

Subscription == [branch : Branch \cup {None}, callbacks : (SUBSET Listener) \ {{}}]
CacheEntry == [check : Check \cup {None}, fresh : BOOLEAN]
Listening == [key : Key, branch : Branch \cup {None}]

StatusAssumption ==
    /\ MaxConcurrentFetches \in Nat \ {0}
    /\ MaxVersion \in Nat
    /\ None \notin Branch \cup Check \cup Subscription \cup CacheEntry \cup Listening

VARIABLES
    server,         \* [Key -> version], the checks as GitHub has them
    subscriptions,  \* [Key -> None or [branch, callbacks]]
    cache,          \* [Key -> None or [check, fresh]]
    queue,          \* the keys being refreshed
    tasks,          \* the refreshes waiting for the limiter or running
    refreshQueued,  \* a setImmediate callback is due
    background,     \* the background interval is set
    signedIn,       \* there is an account for the endpoint
    listening,      \* [Listener -> None or [key, branch]]
    shown           \* [Listener -> None or the check the component shows]

vars == <<server, subscriptions, cache, queue, tasks, refreshQueued,
          background, signedIn, listening, shown>>

Task == [key : Key, pc : {"waiting", "api", "workflows"},
         branch : Branch \cup {None},  \* of the subscription it started with
         live : BOOLEAN,               \* which is still that of the key
         version : Version,            \* requested at, then answered with
         part : Part]                  \* answered, likewise

TypeOK ==
    /\ server \in [Key -> Version]
    /\ subscriptions \in [Key -> Subscription \cup {None}]
    /\ cache \in [Key -> CacheEntry \cup {None}]
    /\ queue \subseteq Key
    /\ tasks \subseteq Task
    /\ refreshQueued \in BOOLEAN /\ background \in BOOLEAN /\ signedIn \in BOOLEAN
    /\ listening \in [Listener -> Listening \cup {None}]
    /\ shown \in [Listener -> Check \cup {None}]

Init ==
    /\ server = [k \in Key |-> 0]
    /\ subscriptions = [k \in Key |-> None]
    /\ cache = [k \in Key |-> None]
    /\ queue = {} /\ tasks = {}
    /\ refreshQueued = FALSE /\ background = FALSE
    /\ signedIn \in BOOLEAN
    /\ listening = [l \in Listener |-> None]
    /\ shown = [l \in Listener |-> None]

-----------------------------------------------------------------------------

CachedCheck(k) == IF cache[k] = None THEN None ELSE cache[k].check

\* tryGetStatus.
TryGetStatus(k, branch) ==
    IF branch # None /\ (subscriptions[k] = None \/ subscriptions[k].branch # branch)
      THEN None ELSE CachedCheck(k)

\* subscribe, by a component that has just asked for the status it is to show
\* at first. A subscription that has another branch is given the new one and
\* its cache entry an age that makes it eligible.
Subscribe(l, k, branch) ==
    /\ listening[l] = None
    /\ listening' = [listening EXCEPT ![l] = [key |-> k, branch |-> branch]]
    /\ shown' = [shown EXCEPT ![l] = TryGetStatus(k, branch)]
    /\ LET before == IF subscriptions[k] = None THEN {} ELSE subscriptions[k].callbacks
       IN subscriptions' = [subscriptions EXCEPT ![k] =
                              [branch |-> branch, callbacks |-> before \cup {l}]]
    /\ cache' = IF /\ subscriptions[k] # None /\ subscriptions[k].branch # branch
                   /\ cache[k] # None
                  THEN [cache EXCEPT ![k].fresh = FALSE] ELSE cache
    /\ refreshQueued' = TRUE
    /\ UNCHANGED <<server, queue, tasks, background, signedIn>>

\* The Disposable that subscribe returned.
Dispose(l) ==
    /\ listening[l] # None
    /\ LET k == listening[l].key
           left == subscriptions[k].callbacks \ {l}
       IN IF left = {}
            THEN /\ subscriptions' = [subscriptions EXCEPT ![k] = None]
                 /\ tasks' = {IF t.key = k THEN [t EXCEPT !.live = FALSE] ELSE t :
                                 t \in tasks}
            ELSE /\ subscriptions' = [subscriptions EXCEPT ![k].callbacks = left]
                 /\ UNCHANGED tasks
    /\ listening' = [listening EXCEPT ![l] = None]
    /\ shown' = [shown EXCEPT ![l] = None]
    /\ UNCHANGED <<server, cache, queue, refreshQueued, background, signedIn>>

\* manualRefreshSubscription: the cached check is shown as pending and counts
\* as just fetched. That it is pending is left out.
ManualRefresh(k) ==
    /\ subscriptions[k] # None
    /\ CachedCheck(k) # None
    /\ cache' = [cache EXCEPT ![k].fresh = TRUE]
    /\ shown' = [l \in Listener |-> IF l \in subscriptions[k].callbacks
                                      THEN CachedCheck(k) ELSE shown[l]]
    /\ UNCHANGED <<server, subscriptions, queue, tasks, refreshQueued, background,
                   signedIn, listening>>

-----------------------------------------------------------------------------

\* startBackgroundRefresh and stopBackgroundRefresh.
Background(on) ==
    /\ background # on
    /\ background' = on
    /\ refreshQueued' = (on \/ refreshQueued)
    /\ UNCHANGED <<server, subscriptions, cache, queue, tasks, signedIn,
                   listening, shown>>

IntervalFires ==
    /\ background
    /\ ~refreshQueued
    /\ refreshQueued' = TRUE
    /\ UNCHANGED <<server, subscriptions, cache, queue, tasks, background,
                   signedIn, listening, shown>>

NewTask(k) == [key |-> k, pc |-> "waiting", branch |-> None, live |-> FALSE,
               version |-> 0, part |-> "whole"]

NotFresh(k) == cache[k] = None \/ ~cache[k].fresh

\* Mutant: it is not looked at whether a key is being worked on.
RefreshEligibleAgain ==
    /\ refreshQueued
    /\ refreshQueued' = FALSE
    /\ LET eligible == {k \in Key : subscriptions[k] # None /\ NotFresh(k)}
       IN /\ tasks' = tasks \cup {NewTask(k) : k \in eligible}
          /\ queue' = queue \cup eligible
    /\ UNCHANGED <<server, subscriptions, cache, background, signedIn, listening, shown>>

\* The setImmediate callback: refreshEligibleSubscriptions.
RefreshEligible ==
    /\ refreshQueued
    /\ refreshQueued' = FALSE
    /\ LET eligible == {k \in Key : /\ subscriptions[k] # None
                                    /\ k \notin queue
                                    /\ NotFresh(k)}
       IN /\ tasks' = tasks \cup {NewTask(k) : k \in eligible}
          /\ queue' = queue \cup eligible
    /\ UNCHANGED <<server, subscriptions, cache, background, signedIn, listening, shown>>

Running == {t \in tasks : t.pc # "waiting"}

Becomes(t, u) == tasks' = (tasks \ {t}) \cup {u}

\* The promise of the limiter is settled and the key leaves the queue.
Over(t) == tasks' = tasks \ {t} /\ queue' = queue \ {t.key}

\* refreshSubscription up to its first await.
Start(t) ==
    /\ t.pc = "waiting"
    /\ Cardinality(Running) < MaxConcurrentFetches
    /\ IF subscriptions[t.key] = None \/ ~signedIn
         THEN Over(t)
         ELSE /\ Becomes(t, [t EXCEPT !.pc = "api", !.live = TRUE,
                                      !.branch = subscriptions[t.key].branch,
                                      !.version = server[t.key]])
              /\ UNCHANGED queue
    /\ UNCHANGED <<server, subscriptions, cache, refreshQueued, background,
                   signedIn, listening, shown>>

\* The new check is cached and the callbacks of the subscription the refresh
\* started with are called.
Deliver(t, check) ==
    /\ Over(t)
    /\ cache' = [cache EXCEPT ![t.key] = [check |-> check, fresh |-> TRUE]]
    /\ shown' = [l \in Listener |->
                   IF t.live /\ l \in subscriptions[t.key].callbacks
                     THEN check ELSE shown[l]]

\* Both requests came to nothing: the entry is kept, or an empty one made.
AnsweredNothing(t) ==
    /\ t.pc = "api"
    /\ Over(t)
    /\ cache' = [cache EXCEPT ![t.key] = [check |-> CachedCheck(t.key), fresh |-> TRUE]]
    /\ UNCHANGED <<server, subscriptions, refreshQueued, background, signedIn,
                   listening, shown>>

\* createCombinedCheckFromChecks: there is none if there are no checks.
Combined(v, part) ==
    IF part = "empty" THEN None ELSE [version |-> v, whole |-> part = "whole"]

\* The checks are there, or those that one of the requests told. With a branch the
\* workflow runs are looked for next, unless those of the cached check are reused,
\* for it has some and the same check runs, or the subscription or the account is gone.
Answered(t, part) ==
    /\ t.pc = "api"
    /\ \E v \in t.version .. server[t.key], reused \in BOOLEAN :
          /\ reused => t.branch # None /\ CachedCheck(t.key) # None /\ part # "empty"
          /\ IF t.branch = None \/ reused \/ subscriptions[t.key] = None \/ ~signedIn
             THEN Deliver(t, Combined(v, part))
             ELSE /\ Becomes(t, [t EXCEPT !.pc = "workflows", !.version = v, !.part = part])
                  /\ UNCHANGED <<cache, queue, shown>>
    /\ UNCHANGED <<server, subscriptions, refreshQueued, background, signedIn, listening>>

WorkflowsAnswered(t) ==
    /\ t.pc = "workflows"
    /\ Deliver(t, Combined(t.version, t.part))
    /\ UNCHANGED <<server, subscriptions, refreshQueued, background, signedIn, listening>>

\* Mutant: the queue is only tidied up after a success.
RefreshFailedKeepsKey(t) ==
    /\ t.pc # "waiting"
    /\ tasks' = tasks \ {t}
    /\ UNCHANGED <<server, subscriptions, cache, queue, refreshQueued, background,
                   signedIn, listening, shown>>

\* An API call throws: the error is logged.
RefreshFailed(t) ==
    /\ t.pc # "waiting"
    /\ Over(t)
    /\ UNCHANGED <<server, subscriptions, cache, refreshQueued, background,
                   signedIn, listening, shown>>

-----------------------------------------------------------------------------

\* The checks of a commit change on GitHub.
ServerChanges(k) ==
    /\ server[k] < MaxVersion
    /\ server' = [server EXCEPT ![k] = @ + 1]
    /\ UNCHANGED <<subscriptions, cache, queue, tasks, refreshQueued, background,
                   signedIn, listening, shown>>

\* onAccountsUpdated.
AccountsUpdated ==
    /\ signedIn' = ~signedIn
    /\ UNCHANGED <<server, subscriptions, cache, queue, tasks, refreshQueued,
                   background, listening, shown>>

\* An entry is older than a minute.
Age(k) ==
    /\ cache[k] # None /\ cache[k].fresh
    /\ cache' = [cache EXCEPT ![k].fresh = FALSE]
    /\ UNCHANGED <<server, subscriptions, queue, tasks, refreshQueued, background,
                   signedIn, listening, shown>>

User ==
    \/ \E l \in Listener : \/ Dispose(l)
                           \/ \E k \in Key, b \in Branch \cup {None} : Subscribe(l, k, b)
    \/ \E k \in Key : ManualRefresh(k)
    \/ \E on \in BOOLEAN : Background(on)
    \/ AccountsUpdated

Settle == \E t \in tasks : \/ AnsweredNothing(t) \/ (\E part \in Part : Answered(t, part))
                           \/ WorkflowsAnswered(t) \/ RefreshFailed(t)

Next ==
    \/ User
    \/ \E k \in Key : ServerChanges(k) \/ Age(k)
    \/ IntervalFires \/ RefreshEligible
    \/ \E t \in tasks : Start(t)
    \/ Settle

\* Timers and callbacks run, requests are answered, the limiter takes its tasks
\* in turn, so that none waits for ever, and both requests for a key that is asked
\* for again and again are answered now and then.
Fairness ==
    /\ WF_vars(IntervalFires) /\ WF_vars(RefreshEligible)
    /\ WF_vars(Settle)
    /\ \A k \in Key :
          /\ WF_vars(Age(k))
          /\ SF_vars(\E t \in tasks : t.key = k /\ Start(t))
          /\ SF_vars(\E t \in tasks : t.key = k /\ Answered(t, "whole"))
          /\ SF_vars(\E t \in tasks : t.key = k /\ t.part = "whole" /\ WorkflowsAnswered(t))

Spec == Init /\ [][Next]_vars
FairSpec == Spec /\ Fairness

-----------------------------------------------------------------------------

\* The queue holds just the keys being refreshed, and no key is refreshed twice
\* at the same time: one left behind would never be refreshed again.
QueueMatchesTasks ==
    /\ queue = {t.key : t \in tasks}
    /\ \A t, u \in tasks : t.key = u.key => t = u

\* Answers do not overtake each other: what the cache holds for a commit is
\* never replaced by something older. Half an answer takes away the checks it does
\* not have, all of them if it has none.
CacheNeverRegresses ==
    [][\A k \in Key :
          CachedCheck(k) # None /\ CachedCheck(k)' # None =>
             CachedCheck(k)'.version >= CachedCheck(k).version]_vars

\* A component shows nothing newer than what the store has cached.
ShownIsCached ==
    \A l \in Listener :
       shown[l] # None =>
          /\ cache[listening[l].key] # None
          /\ CachedCheck(listening[l].key) # None =>
                shown[l].version <= CachedCheck(listening[l].key).version

\* With the background refresh running, and nobody refreshing by hand over and
\* over, a component that stays subscribed gets
\* to show the checks as they are on the server, whatever refresh its
\* subscription was too late for and whichever requests failed.
EventuallyShown ==
    /\ <>[](background /\ signedIn)
    /\ <>[][listening' = listening /\ \A k \in Key : ~ManualRefresh(k)]_vars
    =>
       \A l \in Listener :
          []<>(listening[l] # None =>
                  /\ shown[l] # None /\ shown[l].whole
                  /\ shown[l].version = server[listening[l].key])
=============================================================================
