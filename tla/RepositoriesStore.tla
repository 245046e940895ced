------------------------- MODULE RepositoriesStore -------------------------
(***************************************************************************)
(* RepositoriesStore (repositories-store.ts): writes to IndexedDB and the   *)
(* emission of the whole table that follows them.                           *)
(*                                                                          *)
(* IndexedDB runs transactions whose scopes overlap one after the other, in *)
(* the order they were created, and reports their completion in that order. *)
(* emitUpdatedRepositories depends on it: a write that completes while an   *)
(* emission is queued asks for no other one.                                *)
(***************************************************************************)
EXTENDS Naturals, Sequences

CONSTANTS MaxID,            \* bound: the number of rows ever added
          MaxTransactions,  \* bound: the transactions created and not yet
                            \* continued from at the same time
          None

ID == 1 .. MaxID
Row == [missing : BOOLEAN, gitHub : BOOLEAN]
Table == [ID -> Row \cup {None}]

ASSUME StoreAssumption ==
    /\ MaxID \in Nat \ {0} /\ MaxTransactions \in Nat \ {0}
    /\ None \notin Row /\ None \notin Table

\* The writes of the store. An addition names no row, it gets the next one.
Writer == [kind : {"add"}, id : {0}, missing : BOOLEAN]
          \cup [kind : {"remove", "associate"}, id : ID, missing : {FALSE}]
          \cup [kind : {"missing"}, id : ID, missing : BOOLEAN]

Reader == [kind : {"read"}, id : {0}, missing : {FALSE}]

VARIABLES
    db, nextID,     \* the committed table and the next key
    created,        \* transactions in the order they were created
    completed,      \* those that are through and whose await has not resumed
    rows,           \* what the completed getAll has read, or None
    immediate,      \* a setImmediate callback is due
    emitQueued,
    readFailed,     \* the last emission failed
    repositories    \* the subscriber's copy

vars == <<db, nextID, created, completed, rows, immediate, emitQueued,
          readFailed, repositories>>

TypeOK ==
    /\ db \in Table
    /\ nextID \in 1 .. MaxID + 1
    /\ created \in Seq(Writer \cup Reader)
    /\ completed \in Seq(Writer \cup Reader)
    /\ Len(created) + Len(completed) <= MaxTransactions + 1
    /\ rows \in Table \cup {None}
    /\ immediate \in BOOLEAN /\ emitQueued \in BOOLEAN /\ readFailed \in BOOLEAN
    /\ repositories \in Table

Init ==
    /\ nextID \in 1 .. MaxID + 1
    /\ db \in {t \in Table : \A i \in ID : i >= nextID => t[i] = None}
    /\ created = <<>> /\ completed = <<>>
    /\ rows = None
    /\ immediate = FALSE /\ emitQueued = FALSE /\ readFailed = FALSE
    /\ repositories = db

-----------------------------------------------------------------------------

\* addRepository, removeRepository, updateRepositoryMissing,
\* setGitHubRepository...: create the transaction and wait for it.
StartWrite(w) ==
    /\ Len(created) + Len(completed) < MaxTransactions
    /\ created' = Append(created, w)
    /\ UNCHANGED <<db, nextID, completed, rows, immediate, emitQueued,
                   readFailed, repositories>>

\* The table after write w. A path that is there already is not added again,
\* and Dexie's update does nothing to a row that is gone.
Written(w) ==
    CASE w.kind = "add" ->
            {db} \cup (IF nextID > MaxID THEN {}
                       ELSE {[db EXCEPT ![nextID] = [missing |-> w.missing,
                                                     gitHub |-> FALSE]]})
      [] w.kind = "remove" -> {[db EXCEPT ![w.id] = None]}
      [] w.kind # "add" /\ w.kind # "remove" /\ db[w.id] = None -> {db}
      [] w.kind = "missing" /\ db[w.id] # None ->
            {[db EXCEPT ![w.id].missing = w.missing]}
      [] w.kind = "associate" /\ db[w.id] # None ->
            {[db EXCEPT ![w.id].gitHub = TRUE]}

\* IndexedDB runs the oldest transaction.
CommitWrite ==
    /\ created # <<>>
    /\ Head(created).kind # "read"
    /\ db' \in Written(Head(created))
    /\ nextID' = IF Head(created).kind = "add" /\ db' # db
                   THEN nextID + 1 ELSE nextID
    /\ created' = Tail(created)
    /\ completed' = Append(completed, Head(created))
    /\ UNCHANGED <<rows, immediate, emitQueued, readFailed, repositories>>

CommitRead ==
    /\ created # <<>>
    /\ Head(created).kind = "read"
    /\ rows' = db
    /\ created' = Tail(created)
    /\ completed' = Append(completed, Head(created))
    /\ UNCHANGED <<db, nextID, immediate, emitQueued, readFailed, repositories>>

\* Mutant: the emission waits for more than getAll before its finally, and a
\* write that completed behind it resumes first.
WriteDoneOvertakes ==
    /\ \E i \in 1 .. Len(completed) :
          /\ completed[i].kind # "read"
          /\ completed' = SubSeq(completed, 1, i - 1)
                            \o SubSeq(completed, i + 1, Len(completed))
    /\ IF emitQueued
         THEN UNCHANGED <<immediate, emitQueued>>
         ELSE immediate' = TRUE /\ emitQueued' = TRUE
    /\ UNCHANGED <<db, nextID, created, rows, readFailed, repositories>>

\* The await of a write resumes: emitUpdatedRepositories.
WriteDone ==
    /\ completed # <<>>
    /\ Head(completed).kind # "read"
    /\ completed' = Tail(completed)
    /\ IF emitQueued
         THEN UNCHANGED <<immediate, emitQueued>>
         ELSE immediate' = TRUE /\ emitQueued' = TRUE
    /\ UNCHANGED <<db, nextID, created, rows, readFailed, repositories>>

\* Mutant: the callback stays due.
StartReadAgain ==
    /\ immediate
    /\ created' = Append(created, [kind |-> "read", id |-> 0, missing |-> FALSE])
    /\ UNCHANGED <<db, nextID, completed, rows, immediate, emitQueued,
                   readFailed, repositories>>

\* The setImmediate callback calls getAll.
StartRead ==
    /\ immediate
    /\ immediate' = FALSE
    /\ created' = Append(created, [kind |-> "read", id |-> 0, missing |-> FALSE])
    /\ UNCHANGED <<db, nextID, completed, rows, emitQueued, readFailed, repositories>>

\* getAll resolved: emitUpdate, then the finally.
ReadDone ==
    /\ completed # <<>>
    /\ Head(completed).kind = "read"
    /\ completed' = Tail(completed)
    /\ repositories' = rows
    /\ rows' = None
    /\ readFailed' = FALSE
    /\ emitQueued' = FALSE
    /\ UNCHANGED <<db, nextID, created, immediate>>

\* getAll rejected: the error is logged, then the finally.
ReadFailed ==
    /\ completed # <<>>
    /\ Head(completed).kind = "read"
    /\ completed' = Tail(completed)
    /\ rows' = None
    /\ readFailed' = TRUE
    /\ emitQueued' = FALSE
    /\ UNCHANGED <<db, nextID, created, immediate, repositories>>

-----------------------------------------------------------------------------

Commit == CommitWrite \/ CommitRead
Resume == WriteDone \/ ReadDone \/ ReadFailed

Next == Commit \/ StartRead \/ Resume \/ \E w \in Writer : StartWrite(w)

\* The database works its transactions off, and awaits and callbacks run;
\* nobody has to write anything.
Fairness == WF_vars(Commit) /\ WF_vars(StartRead) /\ WF_vars(Resume)

Spec == Init /\ [][Next]_vars
FairSpec == Spec /\ Fairness

-----------------------------------------------------------------------------

InFlight == \E s \in {created, completed} : s # <<>>

\* When nothing is queued and no write is in flight, the subscriber holds the
\* table as it is: emitUpdatedRepositories drops no update, although a write
\* that finds emitQueued set asks for nothing.
NoUpdateLost ==
    ~emitQueued /\ ~InFlight /\ ~readFailed => repositories = db

\* The store never stops emitting: emitQueued does not stay behind.
EmissionEnds == emitQueued ~> ~emitQueued

\* Some write has been committed that no read has come after.
Unseen ==
    \/ immediate
    \/ \E i \in 1 .. Len(created) : created[i].kind = "read"
    \/ \E i \in 1 .. Len(completed) :
          /\ completed[i].kind # "read"
          /\ \A j \in i + 1 .. Len(completed) : completed[j].kind # "read"

\* The store keeps the promise RepositorySelection relies on: each change is followed
\* by an emission that was read after it, and emitting does end.
Updates == INSTANCE RepositoryUpdates WITH unseen <- Unseen, snapshot <- rows
UpdatesEmitted == Updates!UpdateSpec /\ EmissionEnds
=============================================================================
