-------------------------- MODULE AheadBehindStore --------------------------
(***************************************************************************)
(* AheadBehindStore (ahead-behind-store.ts): how far two commits are apart,  *)
(* computed by git for whoever asks, a few ranges at a time, once for each   *)
(* range, and not at all if everybody who asked has lost interest. What the  *)
(* end of a git command sets off is done before the next event.              *)
(***************************************************************************)
EXTENDS Naturals, FiniteSets, SequencesExt

CONSTANTS Key,           \* keys of the cache: a repository and two commits
          Caller,        \* calls of getAheadBehind
          MaxConcurrent  \* MaxConcurrent, "safe to bump" in the code's words

AheadBehindAssumption == MaxConcurrent \in Nat \ {0}

VARIABLES
    cache,     \* [Key -> "undefined", "null" (git failed) or "known"]
    workers,   \* ranges git is working at
    queue,     \* callers that wait for the limiter
    call,      \* [Caller -> range and where the call stands]
    disposed,  \* callers that have disposed of their subscription
    called,    \* callers whose callback has been called
    runs       \* [Key -> how often git was run for it]

vars == <<cache, workers, queue, call, disposed, called, runs>>

\* A call has not been made, waits for the limiter, for git, or is over.
Pc == {"none", "queued", "awaits", "over"}

Awaiting == {c \in Caller : call[c].pc = "awaits"}

TypeOK ==
    /\ cache \in [Key -> {"undefined", "null", "known"}]
    /\ call \in [Caller -> [range : Key, pc : Pc]]
    /\ disposed \subseteq Caller /\ called \subseteq Caller
    /\ runs \in [Key -> Nat]
    \* the limiter's queue holds each call that waits for it, once
    /\ IsInjective(queue) /\ ToSet(queue) = {c \in Caller : call[c].pc = "queued"}
    \* git works at just the ranges somebody waits for
    /\ workers = {call[c].range : c \in Awaiting}

Init ==
    /\ cache = [r \in Key |-> "undefined"] /\ workers = {} /\ queue = <<>>
    /\ call \in [Caller -> [range : Key, pc : {"none"}]]
    /\ disposed = {} /\ called = {}
    /\ runs = [r \in Key |-> 0]

-----------------------------------------------------------------------------

Goto(c, pc) == call' = [call EXCEPT ![c].pc = pc]

\* What the cache says of a range is all there is to do.
FromCache(c) ==
    /\ Goto(c, "over")
    /\ called' = IF cache[call[c].range] = "known" THEN called \cup {c} ELSE called

\* getAheadBehind: answered from the cache, or handed to the limiter.
GetAheadBehind(c) ==
    /\ call[c].pc = "none"
    /\ IF cache[call[c].range] # "undefined"
         THEN FromCache(c) /\ UNCHANGED queue
         ELSE Goto(c, "queued") /\ queue' = Append(queue, c) /\ UNCHANGED called
    /\ UNCHANGED <<cache, workers, disposed, runs>>

\* The caller disposes of what getAheadBehind returned.
Dispose(c) ==
    /\ call[c].pc # "none" /\ c \notin disposed
    /\ disposed' = disposed \cup {c}
    /\ UNCHANGED <<cache, workers, queue, call, called, runs>>

\* The limiter runs the function of the next caller: nothing to do for one that
\* is disposed, an answer from the cache, or a worker, there already or new.
RunLimited ==
    /\ queue # <<>> /\ Cardinality(Awaiting) < MaxConcurrent
    /\ queue' = Tail(queue)
    /\ LET c == Head(queue)
           r == call[c].range
       IN \/ /\ c \in disposed
             /\ Goto(c, "over") /\ UNCHANGED <<workers, called, runs>>
          \/ /\ c \notin disposed /\ cache[r] # "undefined"
             /\ FromCache(c) /\ UNCHANGED <<workers, runs>>
          \/ /\ c \notin disposed /\ cache[r] = "undefined"
             /\ Goto(c, "awaits") /\ workers' = workers \cup {r}
             /\ runs' = IF r \in workers THEN runs ELSE [runs EXCEPT ![r] = @ + 1]
             /\ UNCHANGED called
    /\ UNCHANGED <<cache, disposed>>

\* Mutant: those who wait for git do not learn that it has failed.
FailureIsNotTold(r, answer) ==
    /\ r \in workers
    /\ cache' = [cache EXCEPT ![r] = answer]
    /\ workers' = workers \ {r}
    /\ LET waiting == {c \in Awaiting : call[c].range = r}
       IN /\ call' = IF answer = "null" THEN call
                     ELSE [c \in Caller |-> [call[c] EXCEPT !.pc = IF c \in waiting THEN "over" ELSE @]]
          /\ called' = IF answer = "known" THEN called \cup (waiting \ disposed) ELSE called
    /\ UNCHANGED <<queue, disposed, runs>>

\* git ends, well or not: the answer is cached, also that there is none, and the
\* callers that waited are told unless they have lost interest.
WorkerDone(r, answer) ==
    /\ r \in workers
    /\ cache' = [cache EXCEPT ![r] = answer]
    /\ workers' = workers \ {r}
    /\ LET waiting == {c \in Awaiting : call[c].range = r}
       IN /\ call' = [c \in Caller |->
                        [call[c] EXCEPT !.pc = IF c \in waiting THEN "over" ELSE @]]
          /\ called' = IF answer = "known" THEN called \cup (waiting \ disposed) ELSE called
    /\ UNCHANGED <<queue, disposed, runs>>

-----------------------------------------------------------------------------

Next ==
    \/ \E c \in Caller : GetAheadBehind(c) \/ Dispose(c)
    \/ RunLimited
    \/ \E r \in Key, answer \in {"null", "known"} : WorkerDone(r, answer)

\* The limiter's queue goes on and git ends.
Fairness ==
    /\ WF_vars(RunLimited)
    /\ \A r \in Key : WF_vars(\E answer \in {"null", "known"} : WorkerDone(r, answer))

Spec == Init /\ [][Next]_vars /\ Fairness

-----------------------------------------------------------------------------

\* git is run once for a range, however many ask for it, one after the other or at
\* once, and whether it answered or failed.
CalculatedOnce == \A r \in Key : runs[r] <= 1

\* Who asks and stays interested is told, unless git fails for the range, although
\* others who asked before lose interest while git works for them.
InterestedAreTold ==
    \A c \in Caller :
       []<>(call[c].pc # "none" =>
               c \in called \/ c \in disposed \/ cache[call[c].range] = "null")
=============================================================================
