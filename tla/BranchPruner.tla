---------------------------- MODULE BranchPruner ----------------------------
(***************************************************************************)
(* BranchPruner (helpers/branch-pruner.ts) and the part of AppStore that    *)
(* starts and stops it: local branches that were merged and whose upstream  *)
(* is gone are deleted in the background. Each selection of a repository    *)
(* makes a pruner of its own; stop() takes its timer away and nothing else. *)
(*                                                                          *)
(* A run awaits the database and git a number of times, and uses at the end *)
(* what it read at each of them. One repository is modelled, on GitHub; the *)
(* git repository is no more than what the pruner asks about it.            *)
(***************************************************************************)
EXTENDS Naturals, FiniteSets

CONSTANTS Branch,     \* local branches other than the default branch
          Reserved,   \* those among them that ReservedRefs lists
          Pruner,     \* bound: the pruners made for the repository
          MaxWork,    \* bound: what is done in the repository meanwhile
          Default,    \* the default branch
          None

Local == [merged : BOOLEAN,     \* every commit of it is in the default branch
          recent : BOOLEAN,     \* checked out within two weeks, by the reflog
          upstream : BOOLEAN]   \* an upstream is configured

Run == [pc : {"date", "stamp", "merged", "head", "checkouts", "remotes", "delete"},
        first : BOOLEAN,             \* the one that start() awaits
        tracking : SUBSET Branch,    \* branches with an upstream, from the cache
        doomed : SUBSET Branch,      \* branches found fit for deletion so far
        touched : SUBSET Branch]     \* history: used since the run began

PrunerAssumption ==
    /\ Reserved \subseteq Branch /\ Default \notin Branch /\ MaxWork \in Nat
    /\ None \notin Pruner \cup BOOLEAN \cup Local \cup Run

VARIABLES
    branches,     \* [Branch -> None or its state in git]
    head,         \* the branch that is checked out
    remotes,      \* the branches whose upstream is among refs/remotes
    cached,       \* branchesState.allBranches: [Branch -> None or has an upstream]
    prunedToday,  \* lastPruneDate is less than 24 hours ago
    current,      \* AppStore.currentBranchPruner
    unused,       \* pruners not made yet
    timer,        \* [Pruner -> BOOLEAN], the interval is set
    run,          \* [Pruner -> None or pruneLocalBranches in progress]
    refreshDue,   \* _refreshRepository was called by onPruneCompleted
    work          \* how often something was done in the repository

prunerVars == <<branches, head, remotes, cached, prunedToday, current, unused, timer,
                run, refreshDue>>
vars == <<prunerVars, work>>

TypeOK ==
    /\ branches \in [Branch -> Local \cup {None}]
    /\ head \in {b \in Branch : branches[b] # None} \cup {Default}
    /\ remotes \subseteq Branch
    /\ cached \in [Branch -> BOOLEAN \cup {None}]
    /\ prunedToday \in BOOLEAN /\ refreshDue \in BOOLEAN
    /\ current \in Pruner \cup {None} /\ current \notin unused
    /\ unused \subseteq Pruner
    /\ timer \in [Pruner -> BOOLEAN]
    /\ run \in [Pruner -> Run \cup {None}]
    /\ \A p \in unused : run[p] = None /\ ~timer[p]
    /\ work \in 0 .. MaxWork

Exists(b) == branches[b] # None

\* What _refreshRepository reads.
BranchList == [b \in Branch |-> IF Exists(b) THEN branches[b].upstream ELSE None]

\* Branches in work, branches that were merged and have lost their upstream, and
\* branches made of the default branch and never pushed.
Init ==
    /\ branches \in [Branch -> {l \in Local : ~l.recent /\ (l.merged \/ l.upstream)}]
    /\ head = Default
    /\ remotes = {b \in Branch : ~branches[b].merged}
    /\ cached = BranchList
    /\ prunedToday = FALSE
    /\ current = None /\ unused = Pruner
    /\ timer = [p \in Pruner |-> FALSE]
    /\ run = [p \in Pruner |-> None]
    /\ refreshDue = FALSE /\ work = 0

-----------------------------------------------------------------------------

NewRun(first) == [pc |-> "date", first |-> first, tracking |-> {}, doomed |-> {},
                  touched |-> {head} \cap Branch]

\* startBackgroundPruner and start: the first run is awaited before the
\* interval is set.
StartPruner(p) ==
    /\ current = None /\ p \in unused
    /\ current' = p
    /\ unused' = unused \ {p}
    /\ run' = [run EXCEPT ![p] = NewRun(TRUE)]
    /\ UNCHANGED <<branches, head, remotes, cached, prunedToday, timer, refreshDue>>

\* stopBackgroundPruner and stop, which does nothing while the timer is null.
StopPruner ==
    /\ current # None
    /\ timer' = [timer EXCEPT ![current] = FALSE]
    /\ current' = None
    /\ UNCHANGED <<branches, head, remotes, cached, prunedToday, unused, run,
                   refreshDue>>

\* The interval is far longer than a run.
Tick(p) ==
    /\ timer[p] /\ run[p] = None
    /\ run' = [run EXCEPT ![p] = NewRun(FALSE)]
    /\ UNCHANGED <<branches, head, remotes, cached, prunedToday, current, unused,
                   timer, refreshDue>>

-----------------------------------------------------------------------------

At(p, pc) == run[p] # None /\ run[p].pc = pc

\* pruneLocalBranches returns; start() sets the interval after its first run.
Return(p) ==
    /\ run' = [run EXCEPT ![p] = None]
    /\ timer' = [timer EXCEPT ![p] = @ \/ run[p].first]

Continue(p, pc, doomed) ==
    /\ run' = [run EXCEPT ![p].pc = pc, ![p].doomed = doomed]
    /\ UNCHANGED timer

\* getLastPruneDate has answered.
DateRead(p) ==
    /\ At(p, "date")
    /\ IF prunedToday THEN Return(p) ELSE Continue(p, "stamp", {})
    /\ UNCHANGED <<branches, head, remotes, cached, prunedToday, current, unused,
                   refreshDue>>

\* updateLastPruneDate is done, and the branches are taken from the state of
\* the repository, which may have no default branch.
Stamped(p) ==
    /\ At(p, "stamp")
    /\ prunedToday' = TRUE
    /\ \/ Return(p)
       \/ /\ run' = [run EXCEPT ![p].pc = "merged",
                                ![p].tracking = {b \in Branch : cached[b] = TRUE}]
          /\ UNCHANGED timer
    /\ UNCHANGED <<branches, head, remotes, cached, current, unused, refreshDue>>

\* getMergedBranches; when it fails there is nothing to prune.
MergedRead(p) ==
    /\ At(p, "merged")
    /\ \/ Return(p)
       \/ Continue(p, "head", {b \in Branch : Exists(b) /\ branches[b].merged})
    /\ UNCHANGED <<branches, head, remotes, cached, prunedToday, current, unused,
                   refreshDue>>

\* getSymbolicRef: the current branch is left out.
HeadRead(p) ==
    /\ At(p, "head")
    /\ LET others == run[p].doomed \ {head}
       IN IF others = {} THEN Return(p) ELSE Continue(p, "checkouts", others)
    /\ UNCHANGED <<branches, head, remotes, cached, prunedToday, current, unused,
                   refreshDue>>

\* Mutant: the reflog is not asked.
CheckoutsReadKeepsRecent(p) ==
    /\ At(p, "checkouts")
    /\ Continue(p, "remotes", run[p].doomed)
    /\ UNCHANGED <<branches, head, remotes, cached, prunedToday, current, unused,
                   refreshDue>>

\* getBranchCheckouts: branches checked out lately are left out.
CheckoutsRead(p) ==
    /\ At(p, "checkouts")
    /\ Continue(p, "remotes", {b \in run[p].doomed : ~(Exists(b) /\ branches[b].recent)})
    /\ UNCHANGED <<branches, head, remotes, cached, prunedToday, current, unused,
                   refreshDue>>

\* getBranches of refs/remotes: the last filter, for the branches that are not
\* reserved, have an upstream and have lost it.
RemotesRead(p) ==
    /\ At(p, "remotes")
    /\ LET ready == {b \in run[p].doomed : /\ b \notin Reserved
                                           /\ b \in run[p].tracking
                                           /\ b \notin remotes}
       IN IF ready = {} THEN Return(p) /\ refreshDue' = TRUE
                        ELSE Continue(p, "delete", ready) /\ UNCHANGED refreshDue
    /\ UNCHANGED <<branches, head, remotes, cached, prunedToday, current, unused>>

\* One turn of the loop: git does not delete the branch that is checked out,
\* and a failure is reported and passed over. onPruneCompleted comes last.
DeleteBranch(p) ==
    /\ At(p, "delete")
    /\ \E b \in run[p].doomed, fails \in BOOLEAN :
          /\ IF b = head \/ fails THEN UNCHANGED branches
                                  ELSE branches' = [branches EXCEPT ![b] = None]
          /\ IF run[p].doomed = {b}
               THEN Return(p) /\ refreshDue' = TRUE
               ELSE Continue(p, "delete", run[p].doomed \ {b}) /\ UNCHANGED refreshDue
    /\ UNCHANGED <<head, remotes, cached, prunedToday, current, unused>>

\* A call outside performFailableOperation throws; the first run takes start()
\* with it.
RunThrows(p) ==
    /\ run[p] # None /\ run[p].pc \notin {"merged", "delete"}
    /\ run' = [run EXCEPT ![p] = None]
    /\ UNCHANGED <<branches, head, remotes, cached, prunedToday, current, unused,
                   timer, refreshDue>>

\* _refreshRepository, whoever called it.
Refresh ==
    /\ cached' = BranchList
    /\ refreshDue' = FALSE
    /\ UNCHANGED <<branches, head, remotes, prunedToday, current, unused, timer, run>>

-----------------------------------------------------------------------------

\* Whatever happens to a branch is noted in the runs in progress.
Touch(b) == run' = [p \in Pruner |-> IF run[p] = None THEN None
                                     ELSE [run[p] EXCEPT !.touched = @ \cup ({b} \cap Branch)]]

\* Someone works in the repository: in the program, a terminal or on GitHub.
Checkout(b) ==
    /\ b # head /\ b \in {c \in Branch : Exists(c)} \cup {Default}
    /\ head' = b
    /\ branches' = IF b = Default THEN branches ELSE [branches EXCEPT ![b].recent = TRUE]
    /\ Touch(b)
    /\ UNCHANGED <<remotes, cached, prunedToday, current, unused, timer, refreshDue>>

Commit ==
    /\ head # Default
    /\ branches' = [branches EXCEPT ![head].merged = FALSE]
    /\ UNCHANGED <<head, remotes, cached, prunedToday, current, unused, timer, run,
                   refreshDue>>

Push(b) ==
    /\ Exists(b)
    /\ branches' = [branches EXCEPT ![b].upstream = TRUE]
    /\ remotes' = remotes \cup {b}
    /\ Touch(b)
    /\ UNCHANGED <<head, cached, prunedToday, current, unused, timer, refreshDue>>

\* The branch is merged on GitHub, deleted there, and both are fetched.
MergeAndPrune(b) ==
    /\ Exists(b) /\ b \in remotes
    /\ branches' = [branches EXCEPT ![b].merged = TRUE]
    /\ remotes' = remotes \ {b}
    /\ UNCHANGED <<head, cached, prunedToday, current, unused, timer, run, refreshDue>>

\* Two weeks without a checkout of the branch.
Forgotten(b) ==
    /\ Exists(b) /\ branches[b].recent
    /\ branches' = [branches EXCEPT ![b].recent = FALSE]
    /\ UNCHANGED <<head, remotes, cached, prunedToday, current, unused, timer, run,
                   refreshDue>>

\* 24 hours are over; no run takes that long.
DayPasses ==
    /\ prunedToday
    /\ \A p \in Pruner : run[p] = None
    /\ prunedToday' = FALSE
    /\ UNCHANGED <<branches, head, remotes, cached, current, unused, timer, run,
                   refreshDue>>

PruneStep(p) ==
    \/ DateRead(p) \/ Stamped(p) \/ MergedRead(p) \/ HeadRead(p)
    \/ CheckoutsRead(p) \/ RemotesRead(p) \/ DeleteBranch(p)

Program ==
    \/ StopPruner \/ Refresh
    \/ \E p \in Pruner : StartPruner(p) \/ Tick(p) \/ PruneStep(p) \/ RunThrows(p)

\* Whatever is done in the repository from elsewhere.
Work ==
    \/ Commit
    \/ \E b \in Branch : Push(b) \/ MergeAndPrune(b) \/ Forgotten(b)
    \/ \E b \in Branch \cup {Default} : Checkout(b)

Next ==
    \/ (Program \/ DayPasses) /\ UNCHANGED work
    \/ work < MaxWork /\ Work /\ work' = work + 1

Spec == Init /\ [][Next]_vars

-----------------------------------------------------------------------------

\* A branch nobody touches while a run is going on is deleted by it only when
\* all the conditions hold together at that moment, though the run read each
\* at another time: it is merged, it has lost the upstream it had, it was not
\* checked out for two weeks, and it is neither current nor reserved.
PrunedIsExpendable ==
    [][\A b \in Branch :
          Exists(b) /\ ~Exists(b)' =>
             \/ \E p \in Pruner : At(p, "delete") /\ b \in run[p].touched
             \/ /\ branches[b] = [merged |-> TRUE, recent |-> FALSE, upstream |-> TRUE]
                /\ b \notin remotes \cup Reserved \cup {head}]_vars

\* Whichever of the deletions failed, and however runs overlap: a branch that
\* was pruned is gone from the list of branches, or the refresh that takes it
\* out is due, or a run that ends with one is still deleting.
PrunedAreNoticed ==
    \A b \in Branch :
       ~Exists(b) /\ cached[b] # None =>
          refreshDue \/ \E p \in Pruner : At(p, "delete")
=============================================================================
