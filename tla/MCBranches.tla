----------------------------- MODULE MCBranches -----------------------------
(* Instances for TLC of what is done with the branches of a repository:       *)
(* commits, checkouts and stashes (WorkingDirectory), and the list of commits *)
(* and the comparison of branches (CompareView). Each has what it asks of git *)
(* for itself, so a behaviour is one of either while the other does not begin. *)
EXTENDS WorkingDirectory, TLC

CONSTANTS t1, t2, Tip, History, Batch, MaxMoves, None

VARIABLES part, head, moves, tip, form, listTip, list, keys, loads, merge, status

compareVars == <<head, moves, tip, form, listTip, list, keys, loads, merge, status>>

Comparing == INSTANCE CompareView

ASSUME CompareAssumed == Comparing!CompareAssumption

\* A component that rests is in one of its initial states.
EitherInit ==
    /\ part \in {"working directory", "compare"}
    /\ Init /\ Comparing!Init
    /\ part = "working directory" => head = t1
    /\ part = "compare" =>
         /\ bound = CHOOSE b \in Scenario : TRUE
         /\ setting = CHOOSE s \in Setting : TRUE
         /\ view.files = <<>> /\ \A b \in Branch, f \in File : git.tree[b][f] = 0

EitherNext ==
    \/ part = "working directory" /\ Next /\ UNCHANGED <<part, compareVars>>
    \/ part = "compare" /\ Comparing!Next /\ UNCHANGED <<part, vars>>

EitherSpec == EitherInit /\ [][EitherNext]_<<part, vars, compareVars>>

\* The types of both components.
BothTypeOK == TypeOK /\ Comparing!TypeOK

\* The list of commits is a beginning of what git log prints, see CompareView.
HistoryIsWhole == Comparing!HistoryIsWhole

\* Two branches that have a commit in common.
MCHistories == t1 :> <<"a3", "a2", "c">> @@ t2 :> <<"b2", "c">>

\* On a protected branch every strategy is to bring the changes.
AllSettings == {[strategy |-> "ask", protected |-> {}], [strategy |-> "stash", protected |-> {}],
                [strategy |-> "ask", protected |-> Branch]}

Bounds(clicks, refreshes, edits, selects) ==
    [clicks |-> clicks, refreshes |-> refreshes, edits |-> edits, selects |-> selects]

\* Three handlers in a row; two with a refresh on focus or with a selection.
Scenarios == {Bounds(3, 0, 1, 0), Bounds(2, 1, 0, 0), Bounds(2, 0, 1, 1)}

\* A stash, a refresh on focus, a write and another stash.
TwoStashes == {Bounds(2, 1, 1, 0)}

\* Branches are interchangeable, and so are files.
Symmetry == Permutations(Branch) \cup Permutations(File)
=============================================================================
