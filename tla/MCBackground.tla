---------------------------- MODULE MCBackground ----------------------------
(* Instances for TLC of what works in the background on timers,               *)
(* RepositorySelection with its fetcher, and BranchPruner. Which repository   *)
(* is selected is all that they share: the first has it, and the other is     *)
(* modelled for one repository. So a behaviour is one of either while the     *)
(* other does not begin.                                                      *)
EXTENDS RepositorySelection, TLC

CONSTANTS Branch, Reserved, Pruner, MaxWork, Default

VARIABLES part,
          branches, head, remotes, cached, prunedToday, current, unused, timer, run,
          refreshDue, work

branchVars == <<branches, head, remotes, cached, prunedToday, current, unused, timer, run,
                refreshDue, work>>

Pruning == INSTANCE BranchPruner

ASSUME PrunerAssumed == Pruning!PrunerAssumption

EitherInit ==
    /\ part \in {"selection", "pruner"}
    /\ Init /\ Pruning!Init
    /\ part = "pruner" => nextID = 1
    /\ part = "selection" =>
         \A b \in Branch : branches[b].upstream /\ ~ branches[b].merged

EitherNext ==
    \/ part = "selection" /\ Next /\ UNCHANGED <<part, branchVars>>
    \/ part = "pruner" /\ Pruning!Next /\ UNCHANGED <<part, vars>>

EitherSpec == EitherInit /\ [][EitherNext]_<<part, vars, branchVars>>

\* The types of both components.
BothTypeOK == TypeOK /\ Pruning!TypeOK

\* No branch is pruned that somebody has use for, and the app learns of one that is
\* pruned, see BranchPruner.
PrunedIsExpendable == Pruning!PrunedIsExpendable /\ []Pruning!PrunedAreNoticed

\* A repository that is not on GitHub, and one that is and has been missing.
MCInitialRow == {[missing |-> FALSE, gitHub |-> FALSE], [missing |-> TRUE, gitHub |-> TRUE]}

\* Calls are interchangeable, fetchers and pruners are until they are made, and
\* branches are that are reserved or not alike.
Symmetry == Permutations(Call) \cup Permutations(Fetcher) \cup Permutations(Pruner)
            \cup Permutations(Branch \ Reserved)
=============================================================================
