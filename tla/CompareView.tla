---------------------------- MODULE CompareView ----------------------------
(***************************************************************************)
(* The list of commits of the history tab (app-store.ts, _executeCompare    *)
(* and what it calls): the history of the current branch, which is loaded a *)
(* batch at a time, or the commits by which it differs from another branch. *)
(* Each of them asks git and changes the list when git has answered,        *)
(* whatever has happened to HEAD, to the list and to the form meanwhile.    *)
(***************************************************************************)
EXTENDS Naturals, FiniteSets, Sequences, SequencesExt

CONSTANTS Tip,       \* the commits HEAD may be at
          History,   \* [Tip -> the commits git log prints for it]
          Branch,    \* the branches to compare with
          Batch,     \* CommitBatchSize
          MaxMoves,  \* bound on the times HEAD moves
          None

Commit == UNION {Range(History[t]) : t \in Tip}

CompareAssumption ==
    /\ \A t \in Tip : History[t] \in Seq(Commit) /\ Len(History[t]) > 0
    /\ Batch \in Nat \ {0} /\ MaxMoves \in Nat
    /\ {"history", "loading"} \cap (Branch \cup {None}) = {} /\ None \notin Branch

VARIABLES
    head,    \* git: where HEAD is
    moves,   \* how often it has moved
    tip,     \* gitStore.tip: where the program knows it to be
    form,    \* formState: "history" or the branch compared with
    listTip, \* compareState.tip, None at first
    list,    \* commitSHAs: a batch of the history, or the branch of a comparison
    keys,    \* requestsInFight: how many commits each request skips
    loads,   \* the requests git has not answered or whose answer is not used yet
    merge,   \* currentMergeTreePromise: None or the branch it merges
    status   \* mergeStatus: None, "loading" or the branch the result is about

vars == <<head, moves, tip, form, listTip, list, keys, loads, merge, status>>

Commits(s) == [kind |-> "history", commits |-> s]
Comparison(b) == [kind |-> "compare", branch |-> b]
IsHistory(l) == l.kind = "history"

\* What git log prints for HEAD.
GitLog(t, skip) == SubSeq(History[t], skip + 1, Min({skip + Batch, Len(History[t])}))

First(t) == [kind |-> "first", tip |-> t, skip |-> 0, answer |-> None]
NextBatch(s) == [kind |-> "next", onto |-> s, skip |-> Len(s), answer |-> None]
Compare(b) == [kind |-> "compare", branch |-> b]

IsBatch(l) == l.kind \in {"first", "next"}

TypeOK ==
    /\ head \in Tip /\ moves \in 0 .. MaxMoves /\ tip \in Tip
    /\ form \in Branch \cup {"history"}
    /\ listTip \in Tip \cup {None}
    /\ IsHistory(list) => list.commits \in Seq(Commit)
    /\ ~IsHistory(list) => list.branch \in Branch
    /\ merge \in Branch \cup {None}
    /\ status \in Branch \cup {"loading", None}
    \* a key is in flight exactly while a request for it is, or nothing could
    \* be loaded any more
    /\ keys = {l.skip : l \in {k \in loads : IsBatch(k)}}
    /\ status = "loading" => merge # None

Init ==
    /\ head \in Tip /\ tip = head /\ moves = 0
    /\ form = "history" /\ listTip = None /\ list = Commits(<<>>)
    /\ keys = {} /\ loads = {}
    /\ merge = None /\ status = None

-----------------------------------------------------------------------------

\* A checkout, a commit, a pull, or somebody outside of the program.
MoveHead(t) ==
    /\ moves < MaxMoves /\ t # head
    /\ head' = t /\ moves' = moves + 1
    /\ UNCHANGED <<tip, form, listTip, list, keys, loads, merge, status>>

\* _loadStatus, with which a refresh of the repository begins.
LoadStatus ==
    /\ tip' = head
    /\ UNCHANGED <<head, moves, form, listTip, list, keys, loads, merge, status>>

\* loadCommitBatch: it returns null while the same batch is in flight.
LoadCommitBatch(l) ==
    /\ l.skip \notin keys
    /\ keys' = keys \cup {l.skip}
    /\ loads' = loads \cup {l}

\* Nothing important has changed since the list was loaded.
Unchanged ==
    /\ tip = listTip /\ form = "history"
    /\ IsHistory(list) => list.commits # <<>>

\* _executeCompare, for what the user asked for or, from _initializeCompare at the
\* end of a refresh, for what the form shows.
ExecuteHistory ==
    /\ IF Unchanged \/ 0 \in keys
       THEN UNCHANGED <<keys, loads>>
       ELSE LoadCommitBatch(First(tip))
    /\ UNCHANGED <<head, moves, tip, form, listTip, list, merge, status>>

ExecuteCompare(b) ==
    /\ loads' = loads \cup {Compare(b)}
    /\ UNCHANGED <<head, moves, tip, form, listTip, list, keys, merge, status>>

\* _loadNextCommitBatch: the list is scrolled to its end.
LoadNextCommitBatch ==
    /\ form = "history" /\ IsHistory(list) /\ list.commits # <<>>
    /\ LoadCommitBatch(NextBatch(list.commits))
    /\ UNCHANGED <<head, moves, tip, form, listTip, list, merge, status>>

\* git log reads HEAD; the program does not know it yet.
GitAnswers(l) ==
    /\ l \in loads /\ IsBatch(l) /\ l.answer = None
    /\ loads' = (loads \ {l}) \cup {[l EXCEPT !.answer = GitLog(head, l.skip)]}
    /\ UNCHANGED <<head, moves, tip, form, listTip, list, keys, merge, status>>

Answered(l) ==
    /\ l \in loads
    /\ loads' = loads \ {l}
    /\ keys' = IF IsBatch(l) THEN keys \ {l.skip} ELSE keys

\* _executeCompare goes on with the first batch.
FirstLoaded(l) ==
    /\ l \in loads /\ l.kind = "first" /\ l.answer # None
    /\ Answered(l)
    /\ listTip' = l.tip /\ form' = "history" /\ list' = Commits(l.answer)
    /\ UNCHANGED <<head, moves, tip, merge, status>>

\* Mutant: the batch is put behind whatever the list is by now.
AppendToCurrent(l) ==
    /\ l \in loads /\ l.kind = "next" /\ l.answer # None
    /\ Answered(l)
    /\ list' = IF IsHistory(list) THEN Commits(list.commits \o l.answer) ELSE list
    /\ UNCHANGED <<head, moves, tip, form, listTip, merge, status>>

\* _loadNextCommitBatch goes on: the batch is put behind the list as it was.
NextLoaded(l) ==
    /\ l \in loads /\ l.kind = "next" /\ l.answer # None
    /\ Answered(l)
    /\ list' = Commits(l.onto \o l.answer)
    /\ UNCHANGED <<head, moves, tip, form, listTip, merge, status>>

\* updateCompareToBranch goes on: unless a merge is being tried already, it tries
\* one, if the branch is ahead.
CompareLoaded(l) ==
    /\ l \in loads /\ l.kind = "compare"
    /\ Answered(l)
    /\ form' = l.branch /\ list' = Comparison(l.branch)
    /\ \/ /\ merge # None
          /\ status' = "loading"
          /\ UNCHANGED merge
       \/ /\ merge = None
          /\ merge' = l.branch /\ status' = "loading"
       \/ /\ merge = None
          /\ status' = None
          /\ UNCHANGED merge
    /\ UNCHANGED <<head, moves, tip, listTip>>

\* Mutant: a request that failed stays in flight.
FailedInFlight(l) ==
    /\ l \in loads
    /\ loads' = loads \ {l}
    /\ UNCHANGED <<head, moves, tip, form, listTip, list, keys, merge, status>>

\* git could not be asked, or there is no branch to compare.
LoadFailed(l) ==
    /\ Answered(l)
    /\ UNCHANGED <<head, moves, tip, form, listTip, list, merge, status>>

\* determineMergeability ends, well or not.
MergeTried ==
    /\ merge # None
    /\ merge' = None
    /\ status' \in {merge, None}
    /\ UNCHANGED <<head, moves, tip, form, listTip, list, keys, loads>>

Next ==
    \/ \E t \in Tip : MoveHead(t)
    \/ LoadStatus \/ ExecuteHistory \/ LoadNextCommitBatch \/ MergeTried
    \/ \E b \in Branch : ExecuteCompare(b)
    \/ \E l \in loads :
          \/ GitAnswers(l) \/ FirstLoaded(l) \/ NextLoaded(l)
          \/ CompareLoaded(l) \/ LoadFailed(l)

Spec == Init /\ [][Next]_vars

-----------------------------------------------------------------------------

\* While HEAD stays where it is, the history shown is the history of HEAD from its
\* first commit on, with none missing and none twice, however the user scrolls,
\* compares and comes back while batches are loaded.
HistoryIsWhole ==
    moves = 0 /\ form = "history" /\ IsHistory(list) => IsPrefix(list.commits, History[head])
=============================================================================
