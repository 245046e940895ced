-------------------------- MODULE ExclusiveAccess --------------------------
(***************************************************************************)
(* What AppStore promises with                                             *)
(*     "Don't allow concurrent network operations."                        *)
(* (app-store.ts, withPushPullFetch): for every key at most one client is  *)
(* at work, a client that finds the key taken goes away without queueing,  *)
(* and the client that took a key gives it back.                           *)
(***************************************************************************)
EXTENDS FiniteSets

CONSTANTS Key,      \* what is protected: one entry per repository state
          Client    \* the operations that compete for it

VARIABLE workers    \* [Key -> SUBSET Client], the clients at work on each key

Init == workers = [k \in Key |-> {}]

\* Client c starts work on a key nobody works on.
Acquire(c, k) ==
    /\ workers[k] = {}
    /\ \A other \in Key : c \notin workers[other]
    /\ workers' = [workers EXCEPT ![k] = {c}]

Release(c, k) ==
    /\ workers[k] = {c}
    /\ workers' = [workers EXCEPT ![k] = {}]

Next == \E c \in Client, k \in Key : Acquire(c, k) \/ Release(c, k)

Spec == Init /\ [][Next]_workers
=============================================================================
