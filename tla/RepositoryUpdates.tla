------------------------- MODULE RepositoryUpdates -------------------------
(***************************************************************************)
(* What RepositoriesStore promises to its subscriber, AppStore: each change *)
(* of the table is followed by an emission that was read after it. An       *)
(* emission may be older than the table by the time it arrives, but then a  *)
(* further one is due.                                                      *)
(***************************************************************************)
EXTENDS Naturals

CONSTANTS MaxID,  \* bound: the number of rows ever added
          None

ASSUME MaxIDAssumption == MaxID \in Nat \ {0}

ID == 1 .. MaxID

\* What AppStore looks at: whether the directory was missing when last checked,
\* and whether there is a GitHub repository the user has an account for.
Row == [missing : BOOLEAN, gitHub : BOOLEAN]

Table == [ID -> Row \cup {None}]

VARIABLES
    db,            \* the committed rows
    nextID,        \* the key the next row gets: keys are not used again
    unseen,        \* a change has been made that no emission has read yet
    snapshot,      \* what the emission under way has read, or None
    repositories   \* the subscriber's copy

updateVars == <<db, nextID, unseen, snapshot, repositories>>

UpdateTypeOK ==
    /\ db \in Table
    /\ nextID \in 1 .. MaxID + 1
    /\ unseen \in BOOLEAN
    /\ snapshot \in Table \cup {None}
    /\ repositories \in Table

\* loadInitialState reads the table before anything can change it.
UpdateInit ==
    /\ nextID \in 1 .. MaxID + 1
    /\ db \in {t \in Table : \A i \in ID : i >= nextID => t[i] = None}
    /\ unseen = FALSE
    /\ snapshot = None
    /\ repositories = db

Change(table) ==
    /\ db' = table
    /\ unseen' = TRUE
    /\ UNCHANGED <<snapshot, repositories>>

\* addRepository; a path that is in the table already is not added again.
Add ==
    \/ /\ nextID <= MaxID
       /\ nextID' = nextID + 1
       /\ \E missing \in BOOLEAN :
             Change([db EXCEPT ![nextID] = [missing |-> missing, gitHub |-> FALSE]])
    \/ Change(db) /\ UNCHANGED nextID

Remove(i) == Change([db EXCEPT ![i] = None]) /\ UNCHANGED nextID

\* Dexie's update does nothing to a row that is gone.
SetMissing(i, missing) ==
    /\ Change(IF db[i] = None THEN db ELSE [db EXCEPT ![i].missing = missing])
    /\ UNCHANGED nextID

\* "We currently never clear GitHub repository associations."
Associate(i) ==
    /\ Change(IF db[i] = None THEN db ELSE [db EXCEPT ![i].gitHub = TRUE])
    /\ UNCHANGED nextID

Read ==
    /\ unseen
    /\ snapshot = None
    /\ snapshot' = db
    /\ unseen' = FALSE
    /\ UNCHANGED <<db, nextID, repositories>>

Emit ==
    /\ snapshot # None
    /\ repositories' = snapshot
    /\ snapshot' = None
    /\ UNCHANGED <<db, nextID, unseen>>

\* getAll failed: the emission is only logged.
EmitFailed ==
    /\ snapshot # None
    /\ snapshot' = None
    /\ UNCHANGED <<db, nextID, unseen, repositories>>

Write ==
    \/ Add
    \/ \E i \in ID : Remove(i) \/ Associate(i)
    \/ \E i \in ID, missing \in BOOLEAN : SetMissing(i, missing)

UpdateNext == Write \/ Read \/ Emit \/ EmitFailed

UpdateSpec == UpdateInit /\ [][UpdateNext]_updateVars
=============================================================================
