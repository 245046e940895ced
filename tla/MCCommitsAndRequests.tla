------------------------- MODULE MCCommitsAndRequests -------------------------
(* Instances for TLC of what a user picks from lists: commits, with the files *)
(* and the diff of those selected (CommitSelection), lines of a changed file  *)
(* (PartialCommit), and pull requests (PullRequests). They share no state, so *)
(* a behaviour is one of any of them while the others do not begin.           *)
EXTENDS MCCommitSelection

CONSTANTS Count, MaxTime, PageSize, Interval, Frequency, MaxTimers,
          Script, ContextLines, DiffLoad, Rejected, Unknown

VARIABLES part,
          github, clock, db, lastUpdated, cache, shown, reader, op, unsure, tied,
          running, timers, calls, age,
          disk, listed, fileDiff, diffLoads, selection, commit, chosen, result

requestVars == <<github, clock, db, lastUpdated, cache, shown, reader, op, unsure, tied,
                 running, timers, calls, age>>
partialVars == <<disk, listed, fileDiff, diffLoads, selection, commit, chosen, result>>

Requests == INSTANCE PullRequests
Partial == INSTANCE PartialCommit WITH diff <- fileDiff, loads <- diffLoads

ASSUME RequestsAssumed == Requests!PullRequestAssumption
ASSUME UpdaterAssumed == Requests!UpdaterAssumption
ASSUME PartialAssumed == Partial!PartialCommitAssumption

AnyInit ==
    /\ part \in {"commits", "pull requests", "lines"}
    /\ Init /\ Requests!PullRequestsInit /\ Partial!Init
    /\ part # "commits" => ~ hide
    /\ IF part = "lines" THEN Partial!Changed(disk) # {} ELSE disk = CHOOSE s \in Script : TRUE

AnyNext ==
    \/ part = "commits" /\ Next /\ UNCHANGED <<part, requestVars, partialVars>>
    \/ part = "pull requests" /\ Requests!PullRequestsNext /\ UNCHANGED <<part, vars, partialVars>>
    \/ part = "lines" /\ Partial!Next /\ UNCHANGED <<part, vars, requestVars>>

AnySpec == AnyInit /\ [][AnyNext]_<<part, vars, requestVars, partialVars>>

\* The changes of a file by the types of its lines and their texts.
Changes(types, texts) == [n \in DOMAIN types |-> [type |-> types[n], text |-> texts[n]]]

\* Two hunks in a file whose lines differ, with an addition before the second that
\* can be left out; an edit that takes the second hunk away, and one that takes
\* all changes away; a new file; and a file of lines
\* that repeat, with two hunks, where git may find a hunk in the wrong place.
MCScripts ==
    {Changes(<<"Add", "Context", "Context", "Context", "Delete">>, <<"a", "b", "c", "d", "e">>),
     Changes(<<"Add", "Context", "Context", "Context", "Context">>, <<"a", "b", "c", "d", "e">>),
     Changes(<<"Context", "Context", "Context", "Context">>, <<"b", "c", "d", "e">>),
     Changes(<<"Add", "Add">>, <<"a", "b">>),
     Changes(<<"Delete", "Add", "Context", "Context", "Context", "Add", "Context">>,
             <<"a", "b", "a", "a", "a", "c", "a">>)}

\* The types of all components; the updater waits for a refresh only while the
\* store of pull requests has one in progress.
AllTypeOK ==
    /\ TypeOK /\ Requests!TypeOK /\ Requests!UpdaterTypeOK
    /\ part = "lines" => Partial!TypeOK

\* A refresh of pull requests misses nothing, see PullRequestStore.
Synced == Requests!Synced

\* The next refresh of pull requests is under way or due in time, see PullRequests.
RefreshIsDue == Requests!RefreshIsDue

\* The lines selected are those the user has chosen, see PartialCommit.
SelectionIsChosen == Partial!SelectionIsChosen

\* A commit has the lines chosen if they cannot be mistaken, see PartialCommit.
StagedIsSelected == Partial!StagedIsSelected

\* A discard takes away the lines chosen if they cannot be mistaken, see PartialCommit.
DiscardedIsSelected == Partial!DiscardedIsSelected
=============================================================================
