------------------------- MODULE PullRequestUpdater -------------------------
(***************************************************************************)
(* PullRequestUpdater (pull-request-updater.ts): while the application has   *)
(* the focus, the pull requests of the selected repository are refreshed    *)
(* from time to time, which the user may also ask for. Time passes in steps; *)
(* a timer fires when it is due.                                            *)
(***************************************************************************)
EXTENDS Naturals, FiniteSets, FiniteSetsExt

CONSTANTS Interval,   \* PullRequestInterval
          Frequency,  \* MaxPullRequestRefreshFrequency
          MaxTimers   \* bound on the timers and calls of the updater

VARIABLES
    running,  \* whether there is an updater that runs
    timers,   \* [0 .. Interval -> its pending timers that are due in that time]
    calls,    \* its calls of refreshPullRequests that have not returned
    op,       \* whether the store is refreshing, which the store knows
    age       \* time since the store began its last refresh, Interval if longer

vars == <<running, timers, calls, op, age>>

NoTimers == [d \in 0 .. Interval |-> 0]
Timers == SumFunction(timers)

TypeOK ==
    /\ running \in BOOLEAN /\ op \in BOOLEAN
    /\ timers \in [0 .. Interval -> Nat]
    /\ calls \in Nat /\ age \in 0 .. Interval
    \* its calls return when the refresh they wait for ends, and not before
    /\ calls > 0 => op /\ running

Init ==
    /\ running = FALSE /\ timers = NoTimers /\ calls = 0
    /\ op = FALSE /\ age = Interval

-----------------------------------------------------------------------------

Left(timeout) == IF timeout > age THEN timeout - age ELSE 0

\* scheduleTick. The id of one timer is remembered; the others go on.
Scheduled(ts, timeout, n) == [ts EXCEPT ![Left(timeout)] = @ + n]

\* startPullRequestUpdater makes a new updater.
Start ==
    /\ running' = TRUE
    /\ timers' = Scheduled(NoTimers, Frequency, 1)
    /\ calls' = 0
    /\ UNCHANGED <<op, age>>

\* stopPullRequestUpdater. What is left of the old updater does nothing any more.
Stop ==
    /\ running
    /\ running' = FALSE /\ timers' = NoTimers /\ calls' = 0
    /\ UNCHANGED <<op, age>>

\* PullRequestStore.refreshPullRequests, which notes the time at once; a call
\* during a refresh waits for that one.
RefreshStore ==
    /\ op' = TRUE
    /\ age' = IF op THEN age ELSE 0

UserRefreshes ==
    /\ ~op
    /\ RefreshStore
    /\ UNCHANGED <<running, timers, calls>>

\* tick: if it is too early for a refresh it schedules another tick, and refreshes.
Tick ==
    /\ timers[0] > 0
    /\ age < Frequency => Timers + calls < MaxTimers
    /\ LET others == [timers EXCEPT ![0] = @ - 1]
       IN timers' = IF age < Frequency THEN Scheduled(others, Interval, 1) ELSE others
    /\ calls' = calls + 1
    /\ RefreshStore
    /\ UNCHANGED running

\* Mutant: no tick is scheduled after a refresh that failed.
RefreshEndsIfWell ==
    /\ op
    /\ op' = FALSE
    /\ timers' \in {timers, Scheduled(timers, Interval, calls)}
    /\ calls' = 0
    /\ UNCHANGED <<running, age>>

\* The refresh ends, well or not, and each call schedules the next tick.
RefreshEnds ==
    /\ op
    /\ op' = FALSE
    /\ timers' = Scheduled(timers, Interval, calls)
    /\ calls' = 0
    /\ UNCHANGED <<running, age>>

TimePasses ==
    /\ timers[0] = 0
    /\ timers' = [d \in 0 .. Interval |-> IF d < Interval THEN timers[d + 1] ELSE 0]
    /\ age' = IF age < Interval THEN age + 1 ELSE age
    /\ UNCHANGED <<running, calls, op>>

-----------------------------------------------------------------------------

\* While the updater runs the pull requests never get older than Interval: it waits
\* for a refresh, or has a timer that is due by then, whether refreshes fail, the
\* user refreshes in between or the application loses and gets the focus.
RefreshIsDue ==
    running => calls > 0 \/ \E d \in 0 .. Interval : timers[d] > 0 /\ d <= Left(Interval)
=============================================================================
