---------------------------- MODULE PullRequests ----------------------------
(***************************************************************************)
(* The pull requests with the updater that keeps them up to date: the ticks *)
(* of PullRequestUpdater and the user call refreshPullRequests of the store, *)
(* which has one refresh in progress at most, and the promise they share is *)
(* settled where that refresh ends. Start and Stop follow the focus and the *)
(* selection, see RepositorySelection.                                      *)
(***************************************************************************)
EXTENDS PullRequestStore

CONSTANTS Interval,   \* PullRequestInterval
          Frequency,  \* MaxPullRequestRefreshFrequency
          MaxTimers   \* bound on the timers and calls of the updater

UpdaterAssumption ==
    /\ {Interval, Frequency, MaxTimers} \subseteq Nat
    /\ 0 < Frequency /\ Frequency < Interval

VARIABLES running, timers, calls, age

Updater == INSTANCE PullRequestUpdater WITH op <- op # None

updaterVars == <<running, timers, calls, age>>
pullRequestVars == <<vars, updaterVars>>

PullRequestsInit == Init /\ Updater!Init

\* A refresh that is in progress is shared with the caller.
RefreshPullRequests == Refresh \/ (op # None /\ UNCHANGED vars)

TickRefreshes == RefreshPullRequests /\ Updater!Tick

UserRefreshes == Refresh /\ Updater!UserRefreshes

\* A refresh in progress goes on, and settles its promise when it ends.
RefreshGoesOn ==
    /\ RefreshStep
    /\ IF op' = None THEN Updater!RefreshEnds ELSE UNCHANGED updaterVars

\* The program ends and begins anew.
ProgramRestarts ==
    /\ Restart
    /\ running' = FALSE /\ timers' = Updater!NoTimers /\ calls' = 0 /\ age' = Interval

PullRequestsNext ==
    \/ TickRefreshes \/ UserRefreshes \/ RefreshGoesOn \/ ProgramRestarts
    \/ \E n \in Number, open \in BOOLEAN : Update(n, open) /\ UNCHANGED updaterVars
    \/ (ShowCached \/ GetPullRequestsFor \/ GotPullRequests) /\ UNCHANGED updaterVars
    \/ UNCHANGED vars /\ (Updater!Start \/ Updater!Stop \/ Updater!TimePasses)

Spec == PullRequestsInit /\ [][PullRequestsNext]_pullRequestVars

-----------------------------------------------------------------------------

\* The updater's state is typed, and it waits for a refresh only while the store
\* has one in progress.
UpdaterTypeOK == Updater!TypeOK

\* While the updater runs, the next refresh is under way or due in time, wherever
\* the refreshes of the store end, and whoever asked for them.
RefreshIsDue == Updater!RefreshIsDue
=============================================================================
