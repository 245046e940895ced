-------------------------- MODULE PullRequestStore --------------------------
(***************************************************************************)
(* The pull requests of a GitHub repository: on GitHub, in the database     *)
(* (pull-request-store.ts), in the cache of the coordinator                 *)
(* (pull-request-coordinator.ts) and in the state of the application. A     *)
(* refresh asks for what was updated since the last one; it falls back to   *)
(* all open pull requests if it is the first or if that fails. Either list  *)
(* comes in pages, and GitHub may change between two of them.               *)
(***************************************************************************)
EXTENDS Naturals, FiniteSets, FiniteSetsExt

CONSTANTS Count,          \* pull requests have the numbers 1 .. Count
          MaxTime,        \* bound on the clock of GitHub; 0 stands for never
          PageSize,       \* pull requests on a page
          None

PullRequestAssumption ==
    Count \in Nat /\ MaxTime \in Nat \ {0} /\ PageSize \in Nat \ {0}

Number == 1 .. Count
Time == 1 .. MaxTime

VARIABLES
    github,       \* [Number -> [open, updated]]; updated is 0 before it exists
    clock,
    db,           \* [Number -> the update stored or 0]
    lastUpdated,  \* the last update seen, 0 for none
    cache,        \* prCache: None or whether it has what the table has
    shown,        \* openPullRequests, likewise
    reader,       \* what getPullRequestsFor has read, likewise
    op,           \* the refresh in progress, None if there is none
    unsure,       \* history: those that may have slipped through the pages of a list
    tied          \* history: those updated at the same time as another

history == <<unsure, tied>>
vars == <<github, clock, db, lastUpdated, cache, shown, reader, op, history>>

PullRequests == [Number -> 0 .. MaxTime]

\* A copy of the table, as it is now or as it was once.
Copy == {None, "current", "old"}

TypeOK ==
    /\ github \in [Number -> [open : BOOLEAN, updated : 0 .. MaxTime]]
    /\ clock \in Time /\ db \in PullRequests /\ lastUpdated \in 0 .. MaxTime
    /\ cache \in Copy /\ shown \in Copy /\ reader \in Copy
    /\ op = None \/ op.pc \in {"begin", "updated", "open", "store", "emit"}
    /\ unsure \subseteq Number /\ tied \subseteq Number
    \* what is shown has been in the cache, unless the program has only begun
    /\ shown # None => cache # None

Init ==
    /\ github = [n \in Number |-> [open |-> FALSE, updated |-> 0]] /\ clock = 1
    /\ db = [n \in Number |-> 0] /\ lastUpdated = 0
    /\ cache = None /\ shown = None /\ reader = None /\ op = None
    /\ unsure = {} /\ tied = {}

-----------------------------------------------------------------------------

\* A list of which some pages have come.
BetweenPages == op # None /\ op.pc \in {"updated", "open"} /\ op.from > 0

Read == {p.number : p \in op.got}

\* Somebody opens, changes, closes or reopens a pull request. Two updates may
\* have the same time. Between two pages that makes it unsure what a list has of
\* it; and if one is closed, those after it in the list of open ones move up.
Update(n, open) ==
    /\ clock' \in {clock, clock + 1} \cap Time
    /\ n > 1 => github[n - 1].updated > 0
    /\ github[n].updated = 0 => open
    /\ github' = [github EXCEPT ![n] = [open |-> open, updated |-> clock']]
    /\ unsure' = (unsure \ {n})
                   \cup (IF BetweenPages THEN {n} ELSE {})
                   \cup (IF BetweenPages /\ op.pc = "open" /\ github[n].open /\ ~ open
                         THEN Number \ Read ELSE {})
    /\ LET others == {m \in Number \ {n} : github[m].updated = clock'}
       IN tied' = (tied \ {n}) \cup others \cup (IF others = {} THEN {} ELSE {n})
    /\ UNCHANGED <<db, lastUpdated, cache, shown, reader, op>>

\* refreshPullRequests. Another call meanwhile gets the same promise.
Refresh ==
    /\ op = None
    /\ op' = [pc |-> "begin"]
    /\ UNCHANGED <<github, clock, db, lastUpdated, cache, shown, reader, history>>

\* A list is asked for. What an earlier list missed does not matter when all open
\* pull requests are read anew.
Listing(pc) ==
    /\ op' = [pc |-> pc, got |-> {}, from |-> 0]
    /\ unsure' = IF pc = "open" THEN {} ELSE unsure
    /\ UNCHANGED tied

\* fetchAndStorePullRequests.
GetLastUpdated ==
    /\ op # None /\ op.pc = "begin"
    /\ Listing(IF lastUpdated = 0 THEN "open" ELSE "updated")
    /\ UNCHANGED <<github, clock, db, lastUpdated, cache, shown, reader>>

Answer(ns) == {[number |-> n, open |-> github[n].open, updated |-> github[n].updated] : n \in ns}

\* The page that GitHub answers with has what follows the items received so far in
\* the list as it is now, greatest key first and those with the same key in any order.
IsPage(page, front, list, key) ==
    /\ front \subseteq list /\ page \subseteq list \ front
    /\ Cardinality(front) <= op.from /\ (Cardinality(front) = op.from \/ front = list)
    /\ Cardinality(page) <= PageSize
    /\ Cardinality(page) = PageSize \/ front \cup page = list
    /\ \A n \in front, m \in list \ front : key[n] >= key[m]
    /\ \A n \in page, m \in list \ (front \cup page) : key[n] >= key[m]

Existing == {n \in Number : github[n].updated > 0}
Updated == [n \in Number |-> github[n].updated]
Open == {n \in Number : github[n].open}
Newest == [n \in Number |-> n]

Storing(answer) == op' = [pc |-> "store", answer |-> answer]

AskForMore(page) ==
    op' = [op EXCEPT !.got = @ \cup Answer(page), !.from = @ + Cardinality(page)]

\* Mutant: what was updated at the very time of the last update is taken to be known.
FetchLaterPullRequests ==
    /\ op # None /\ op.pc = "updated"
    /\ \E front, page \in SUBSET Existing :
          /\ IsPage(page, front, Existing, Updated)
          /\ IF front \cup page = Existing \/ \E n \in page : github[n].updated <= lastUpdated
             THEN Storing({p \in op.got \cup Answer(page) : p.updated > lastUpdated})
             ELSE AskForMore(page)
    /\ UNCHANGED <<github, clock, db, lastUpdated, cache, shown, reader, history>>

\* fetchUpdatedPullRequests: a page of all pull requests, last updated first. It asks
\* for no more if that was the last page or the last item is at or before lastUpdated.
FetchUpdatedPullRequests ==
    /\ op # None /\ op.pc = "updated"
    /\ \E front, page \in SUBSET Existing :
          /\ IsPage(page, front, Existing, Updated)
          /\ IF front \cup page = Existing \/ \E n \in page : github[n].updated <= lastUpdated
             THEN Storing({p \in op.got \cup Answer(page) : p.updated >= lastUpdated})
             ELSE AskForMore(page)
    /\ UNCHANGED <<github, clock, db, lastUpdated, cache, shown, reader, history>>

Outdated(copy) == IF copy = None THEN None ELSE "old"

\* The table has changed.
CopiesOutdated ==
    cache' = Outdated(cache) /\ shown' = Outdated(shown) /\ reader' = Outdated(reader)

\* It got too many results or GitHub answered with an error.
FallBack ==
    /\ op # None /\ op.pc = "updated"
    /\ db' = [n \in Number |-> 0] /\ lastUpdated' = 0
    /\ Listing("open") /\ CopiesOutdated
    /\ UNCHANGED <<github, clock>>

\* fetchAllOpenPullRequests: a page of the open pull requests, the newest first.
FetchAllOpenPullRequests ==
    /\ op # None /\ op.pc = "open"
    /\ \E front, page \in SUBSET Open :
          /\ IsPage(page, front, Open, Newest)
          /\ IF front \cup page = Open THEN Storing(op.got \cup Answer(page)) ELSE AskForMore(page)
    /\ UNCHANGED <<github, clock, db, lastUpdated, cache, shown, reader, history>>

\* fetchAll returns what it has if GitHub answers a page of that list with an error.
PageRefused ==
    /\ op # None /\ op.pc = "open"
    /\ Storing(op.got)
    /\ unsure' = unsure \cup (Open \ Read)
    /\ UNCHANGED <<github, clock, db, lastUpdated, cache, shown, reader, tied>>

\* GitHub cannot be reached.
RefreshFailed ==
    /\ op # None /\ op.pc \in {"updated", "open"}
    /\ op' = None
    /\ UNCHANGED <<github, clock, db, lastUpdated, cache, shown, reader, history>>

\* Nothing came, or one open pull request that is stored as it is.
NothingNew(answer) == \/ answer = {}
                      \/ \E p \in answer : answer = {p} /\ p.open /\ db[p.number] = p.updated

\* storePullRequests. The closed ones are deleted, then the open ones are put: of
\* one that was read twice, on pages of different moments, the later open version.
StorePullRequests ==
    /\ op # None /\ op.pc = "store"
    /\ IF NothingNew(op.answer)
       THEN op' = None /\ UNCHANGED <<db, lastUpdated, cache, shown, reader>>
       ELSE /\ db' = [n \in Number |->
                         LET read == {p \in op.answer : p.number = n}
                         IN IF read = {} THEN db[n]
                            ELSE Max({IF p.open THEN p.updated ELSE 0 : p \in read})]
            /\ lastUpdated' = Max({p.updated : p \in op.answer})
            /\ op' = [pc |-> "emit"] /\ CopiesOutdated
    /\ UNCHANGED <<github, clock, history>>

\* emitPullRequestsChanged, to the coordinator and on to the AppStore.
EmitPullRequestsChanged ==
    /\ op # None /\ op.pc = "emit"
    /\ cache' = "current" /\ shown' = "current"
    /\ op' = None
    /\ UNCHANGED <<github, clock, db, lastUpdated, reader, history>>

\* getAllPullRequests, when the repository is selected: the cache has them, or the
\* database is read.
ShowCached ==
    /\ cache # None
    /\ shown' = cache
    /\ UNCHANGED <<github, clock, db, lastUpdated, cache, reader, op, history>>

GetPullRequestsFor ==
    /\ cache = None /\ reader = None
    /\ reader' = "current"
    /\ UNCHANGED <<github, clock, db, lastUpdated, cache, shown, op, history>>

GotPullRequests ==
    /\ reader # None
    /\ cache' = reader /\ shown' = reader
    /\ reader' = None
    /\ UNCHANGED <<github, clock, db, lastUpdated, op, history>>

Restart ==
    /\ cache' = None /\ shown' = None /\ reader' = None /\ op' = None
    /\ UNCHANGED <<github, clock, db, lastUpdated, history>>

RefreshStep ==
    \/ GetLastUpdated \/ FetchUpdatedPullRequests \/ FallBack
    \/ FetchAllOpenPullRequests \/ PageRefused \/ RefreshFailed
    \/ StorePullRequests \/ EmitPullRequestsChanged

-----------------------------------------------------------------------------

\* A refresh that only asks for what was updated since lastUpdated misses nothing
\* but what GitHub changed, moved or refused between two pages of a list, and what
\* was updated at the same time as another: a pull request whose last update is
\* older is stored if it is open and is not if it is closed, through failures at
\* any step and restarts between them.
Synced ==
    lastUpdated # 0 =>
       \A n \in Number \ (unsure \cup tied) :
          0 < github[n].updated /\ github[n].updated < lastUpdated =>
             db[n] = IF github[n].open THEN github[n].updated ELSE 0
=============================================================================
