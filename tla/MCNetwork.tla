------------------------------ MODULE MCNetwork ------------------------------
(* Instances for TLC of the components that ask git servers and GitHub for     *)
(* what the app shows: NetworkOperations, CommitStatusStore,                   *)
(* RepositoryIndicatorUpdater, AheadBehindStore and TrampolineServer.  They    *)
(* share no state, so a behaviour is one of any of them while the others do    *)
(* not begin.                                                                  *)
EXTENDS NetworkOperations

CONSTANTS Key, Listener, Branch, MaxConcurrentFetches, MaxVersion,
          Repository, Pass,
          CommitRange, Caller, MaxConcurrent,
          Command, MaxErrors

VARIABLES
    part,
    server, subscriptions, cache, queue, tasks, refreshQueued, background, signedIn,
    listening, shown,
    enabled, running, timer, paused, others, pass,
    distances, workers, limited, call, disposed, called, runs,
    listener, listeningPromise, command, tokens, errors

statusVars == <<server, subscriptions, cache, queue, tasks, refreshQueued, background,
                signedIn, listening, shown>>
indicatorVars == <<enabled, running, timer, paused, others, pass>>
aheadBehindVars == <<distances, workers, limited, call, disposed, called, runs>>
trampolineVars == <<listener, listeningPromise, command, tokens, errors>>

Status == INSTANCE CommitStatusStore
Indicators == INSTANCE RepositoryIndicatorUpdater
AheadBehind == INSTANCE AheadBehindStore
    WITH Key <- CommitRange, cache <- distances, queue <- limited
Trampoline == INSTANCE TrampolineServer WITH server <- listener

ASSUME StatusAssumed == Status!StatusAssumption
ASSUME IndicatorsAssumed == Indicators!IndicatorsAssumption
ASSUME AheadBehindAssumed == AheadBehind!AheadBehindAssumption
ASSUME TrampolineAssumed == Trampoline!TrampolineAssumption

\* A component that rests is in one of its initial states.
AnyInit ==
    /\ part \in {"network", "status", "indicators", "ahead-behind", "trampoline"}
    /\ Init /\ Status!Init /\ Indicators!Init /\ AheadBehind!Init /\ Trampoline!Init
    /\ part # "network" =>
         /\ variant = [p \in Path |-> CHOOSE v \in Variant : TRUE]
         /\ \A o \in Op : op[o].kind = "push"
                          /\ op[o].repo = <<CHOOSE p \in Path : TRUE, CHOOSE v \in Variant : TRUE>>
    /\ part # "status" => ~ signedIn
    /\ part # "indicators" => ~ enabled /\ others = {}
    /\ part # "ahead-behind" => \A c \in Caller : call[c].range = CHOOSE r \in CommitRange : TRUE

AnyNext ==
    \/ /\ part = "network" /\ Next
       /\ UNCHANGED <<part, statusVars, indicatorVars, aheadBehindVars, trampolineVars>>
    \/ /\ part = "status" /\ Status!Next
       /\ UNCHANGED <<part, vars, indicatorVars, aheadBehindVars, trampolineVars>>
    \/ /\ part = "indicators" /\ Indicators!Next
       /\ UNCHANGED <<part, vars, statusVars, aheadBehindVars, trampolineVars>>
    \/ /\ part = "ahead-behind" /\ AheadBehind!Next
       /\ UNCHANGED <<part, vars, statusVars, indicatorVars, trampolineVars>>
    \/ /\ part = "trampoline" /\ Trampoline!Next
       /\ UNCHANGED <<part, vars, statusVars, indicatorVars, aheadBehindVars>>

\* Nothing that fairness speaks of is enabled in a component that rests.
AnySpec ==
    /\ AnyInit
    /\ [][AnyNext]_<<part, vars, statusVars, indicatorVars, aheadBehindVars, trampolineVars>>
    /\ Fairness /\ Status!Fairness /\ Indicators!Fairness /\ AheadBehind!Fairness

\* The types of all components.
AllTypeOK ==
    /\ TypeOK /\ Status!TypeOK /\ Indicators!TypeOK /\ AheadBehind!TypeOK
    /\ Trampoline!TypeOK

\* The queue holds just the keys being refreshed, a component shows nothing newer
\* than what the store has cached, and answers about checks do not overtake each
\* other, see CommitStatusStore.
ChecksAreConsistent ==
    [](Status!QueueMatchesTasks /\ Status!ShownIsCached) /\ Status!CacheNeverRegresses

\* A component that stays subscribed gets to show the server's checks, see
\* CommitStatusStore.
EventuallyShown == Status!EventuallyShown

\* The indicators are refreshed again and again, see RepositoryIndicatorUpdater.
IndicatorsAreRefreshed == Indicators!IndicatorsAreRefreshed

\* git computes the distance of two commits once, and who asks for it and stays
\* interested is told, see AheadBehindStore.
InterestedAreTold == []AheadBehind!CalculatedOnce /\ AheadBehind!InterestedAreTold

\* No git command waits for a server that does not come, see TrampolineServer.
WaitsForStart == Trampoline!WaitsForStart
=============================================================================
