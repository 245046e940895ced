--------------------- MODULE RepositoryIndicatorUpdater ---------------------
(***************************************************************************)
(* RepositoryIndicatorUpdater (repository-indicator-updater.ts): every now   *)
(* and then it goes through the repositories that are not selected and       *)
(* refreshes the numbers beside their names. A pass is one call of           *)
(* refreshAllRepositories: it may outlive a stop and the next start, and it  *)
(* rests while the application is without the focus. Each action is the code *)
(* between two awaits. How long the timer takes is left out.                 *)
(***************************************************************************)
EXTENDS Naturals, FiniteSets

CONSTANTS Repository,
          Pass,      \* bound on the passes in progress
          None

IndicatorsAssumption == None \notin Repository

VARIABLES
    enabled,  \* repositoryIndicatorsEnabled of AppStore
    running,  \* running
    timer,    \* refreshTimeoutId # null
    paused,   \* paused
    others,   \* what getRepositories returns: all but the selected repository
    pass      \* [Pass -> record], the passes in progress

vars == <<enabled, running, timer, paused, others, pass>>

\* What a pass awaits: the refresh of a repository, or the end of a pause,
\* before the first repository or after one. A resume wakes those that rest,
\* and the pause that may follow is not theirs.
Pc == {"idle", "restsBefore", "wokenBefore", "refreshes", "rests", "woken"}

Idle == [pc |-> "idle", at |-> None, done |-> {}]

TypeOK ==
    /\ {enabled, running, timer, paused} \subseteq BOOLEAN
    /\ others \subseteq Repository
    /\ pass \in [Pass -> [pc : Pc, at : Repository \cup {None}, done : SUBSET Repository]]
    /\ timer => running
    /\ running => enabled
    /\ \A p \in Pass : pass[p].pc \in {"restsBefore", "rests"} => paused

Init ==
    /\ enabled \in BOOLEAN /\ others \in SUBSET Repository
    /\ running = FALSE /\ timer = FALSE /\ paused = FALSE
    /\ pass = [p \in Pass |-> Idle]

-----------------------------------------------------------------------------

Goto(p, pc) == pass' = [pass EXCEPT ![p].pc = pc]

\* start, which schedules a pass unless one is scheduled; it is called when the
\* setting is turned on, some time after the launch and with the list of
\* repositories.
Start ==
    /\ enabled /\ ~ running
    /\ running' = TRUE /\ timer' = TRUE
    /\ UNCHANGED <<enabled, paused, others, pass>>

\* _setRepositoryIndicatorsEnabled
Enable ==
    /\ ~ enabled
    /\ enabled' = TRUE /\ running' = TRUE /\ timer' = TRUE
    /\ UNCHANGED <<paused, others, pass>>

\* _setRepositoryIndicatorsEnabled, stop and clearRefreshTimeout
Disable ==
    /\ enabled
    /\ enabled' = FALSE /\ running' = FALSE /\ timer' = FALSE
    /\ UNCHANGED <<paused, others, pass>>

\* The application loses the focus.
Pause ==
    /\ ~ paused
    /\ paused' = TRUE
    /\ UNCHANGED <<enabled, running, timer, others, pass>>

\* Mutant: a pass waits for the pause there is by then.
ResumeWakesNobody ==
    /\ paused
    /\ paused' = FALSE
    /\ UNCHANGED <<enabled, running, timer, others, pass>>

\* The application has the focus again: the promise of the pause is resolved.
Resume ==
    /\ paused
    /\ paused' = FALSE
    /\ pass' = [p \in Pass |->
          CASE pass[p].pc = "restsBefore" -> [pass[p] EXCEPT !.pc = "wokenBefore"]
            [] pass[p].pc = "rests" -> [pass[p] EXCEPT !.pc = "woken"]
            [] OTHER -> pass[p]]
    /\ UNCHANGED <<enabled, running, timer, others>>

\* Repositories are added, removed and selected.
OthersChange ==
    /\ others' \in (SUBSET Repository) \ {others}
    /\ UNCHANGED <<enabled, running, timer, paused, pass>>

-----------------------------------------------------------------------------

\* The loop of refreshAllRepositories when `done` are done: on to the next
\* repository, or the end of the pass, which schedules the next one.
GoOn(p, done) ==
    \/ \E r \in others \ done :
          /\ running
          /\ pass' = [pass EXCEPT ![p] = [pc |-> "refreshes", at |-> r, done |-> done]]
          /\ UNCHANGED timer
    \/ /\ running => others \subseteq done
       /\ pass' = [pass EXCEPT ![p] = Idle]
       /\ timer' = running

\* The timer fires: refreshAllRepositories.
Fire(p) ==
    /\ timer /\ pass[p].pc = "idle"
    /\ IF paused
         THEN Goto(p, "restsBefore") /\ timer' = FALSE
         ELSE \/ \E r \in others :
                    /\ pass' = [pass EXCEPT ![p] = [pc |-> "refreshes", at |-> r, done |-> {}]]
                    /\ timer' = FALSE
              \/ others = {} /\ UNCHANGED <<pass, timer>>   \* and schedules anew
    /\ UNCHANGED <<enabled, running, paused, others>>

\* The pause a pass began with is over.
Begin(p) ==
    /\ pass[p].pc = "wokenBefore"
    /\ IF running THEN GoOn(p, {}) ELSE pass' = [pass EXCEPT ![p] = Idle] /\ UNCHANGED timer
    /\ UNCHANGED <<enabled, running, paused, others>>

\* refreshRepositoryIndicators returns.
Refreshed(p) ==
    /\ pass[p].pc = "refreshes"
    /\ IF paused THEN Goto(p, "rests") /\ UNCHANGED timer
                 ELSE GoOn(p, pass[p].done \cup {pass[p].at})
    /\ UNCHANGED <<enabled, running, paused, others>>

\* The pause after a repository is over.
Rested(p) ==
    /\ pass[p].pc = "woken"
    /\ GoOn(p, pass[p].done \cup {pass[p].at})
    /\ UNCHANGED <<enabled, running, paused, others>>

\* refreshIndicatorForRepository throws, as it does when git cannot tell the
\* remote HEAD or the ahead/behind count: nothing catches it, so the pass ends
\* without the next one being scheduled.
Throws(p) ==
    /\ pass[p].pc = "refreshes"
    /\ pass' = [pass EXCEPT ![p] = Idle]
    /\ UNCHANGED <<enabled, running, timer, paused, others>>

-----------------------------------------------------------------------------

Continue(p) == Begin(p) \/ Refreshed(p) \/ Rested(p)

Next ==
    \/ Start \/ Enable \/ Disable \/ Pause \/ Resume \/ OthersChange
    \/ \E p \in Pass : Fire(p) \/ Continue(p) \/ Throws(p)

Spec == Init /\ [][Next]_vars

\* Timers fire, git ends and promises are settled.
Fairness ==
    /\ WF_vars(\E p \in Pass : Fire(p))
    /\ \A p \in Pass : WF_vars(Continue(p))

FairSpec == Spec /\ Fairness

-----------------------------------------------------------------------------

\* "Refresh repository indicators every 15 minutes.": while the updater runs, the
\* next pass is scheduled or one is in progress.
RefreshIsScheduled ==
    running => timer \/ \E p \in Pass : pass[p].pc # "idle"

\* An updater that runs, and whose last pass did not throw, refreshes each repository
\* again and again, as long as the application has the focus and the repository is
\* listed and not selected: however often the updater was stopped in the middle of a
\* pass, started beside it, paused and resumed before, and whatever happens to the
\* list of repositories.
IndicatorsAreRefreshed ==
    \A r \in Repository :
       <>[](running /\ RefreshIsScheduled /\ ~ paused /\ r \in others) =>
          []<>(\E p \in Pass : pass[p].pc = "refreshes" /\ pass[p].at = r)
=============================================================================
