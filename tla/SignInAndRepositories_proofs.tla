------------------- MODULE SignInAndRepositories_proofs -------------------
(* Proofs about RepositoriesStore and SignInStore, the components of                *)
(* MCSignInAndRepositories: that the emissions of the repositories store follow     *)
(* what RepositoryUpdates promises, and that no account is added while no sign-in   *)
(* is under way.                                                                    *)
EXTENDS MCSignInAndRepositories, SequenceTheorems, TLAPS

(* The emission of the repositories store: one read is queued or under way.         *)

Transaction == Writer \cup Reader

\* Where a queue of transactions has reads.
Reads(s) == {i \in 1 .. Len(s) : s[i].kind = "read"}

\* There is a write in the queue that no read comes after.
Behind(s) ==
    \E i \in 1 .. Len(s) :
       s[i].kind # "read" /\ \A j \in i + 1 .. Len(s) : s[j].kind # "read"

Typed ==
    /\ created \in Seq(Transaction) /\ completed \in Seq(Transaction)
    /\ immediate \in BOOLEAN /\ emitQueued \in BOOLEAN

\* An emission is queued while its read is due, created or completed.
QueuedIsRead ==
    emitQueued <=> immediate \/ Reads(created) # {} \/ Reads(completed) # {}

\* It has one read.
ReadIsAlone ==
    /\ immediate => Reads(created) = {} /\ Reads(completed) = {}
    /\ Reads(created) = {} \/ Reads(completed) = {}
    /\ \A i, j \in Reads(created) : i = j
    /\ \A i, j \in Reads(completed) : i = j

\* The table as it is has been seen, is going to be, or is going to be asked for.
Covered ==
    \/ immediate \/ Reads(created) # {}
    \/ Behind(completed)
    \/ Reads(completed) # {} /\ rows = db
    \/ ~emitQueued /\ (readFailed \/ repositories = db)

EmissionInv == Typed /\ QueuedIsRead /\ ReadIsAlone /\ Covered

-----------------------------------------------------------------------------

\* A transaction at the end of a queue.
LEMMA AtTheEnd ==
    ASSUME NEW s \in Seq(Transaction), NEW t \in Transaction
    PROVE  /\ Append(s, t) \in Seq(Transaction)
           /\ t.kind # "read" => Reads(Append(s, t)) = Reads(s) /\ Behind(Append(s, t))
           /\ t.kind = "read" => Reads(Append(s, t)) = Reads(s) \cup {Len(s) + 1}
<1> DEFINE a == Append(s, t)
<1>1. /\ a \in Seq(Transaction) /\ Len(a) = Len(s) + 1 /\ a[Len(s) + 1] = t
      /\ \A i \in 1 .. Len(s) : a[i] = s[i]
  BY AppendProperties
<1>2. Len(s) \in Nat
  BY LenProperties
<1> HIDE DEF a
<1>3. ASSUME t.kind # "read"
      PROVE  Reads(a) = Reads(s) /\ Behind(a)
  <2>1. Reads(a) = Reads(s)
    BY <1>1, <1>2, <1>3 DEF Reads
  <2>2. a[Len(s) + 1].kind # "read" /\ Len(s) + 1 \in 1 .. Len(a)
    BY <1>1, <1>2, <1>3
  <2>3. \A j \in Len(s) + 1 + 1 .. Len(a) : a[j].kind # "read"
    BY <1>1, <1>2
  <2> QED
    BY <2>1, <2>2, <2>3 DEF Behind
<1>4. ASSUME t.kind = "read"
      PROVE  Reads(a) = Reads(s) \cup {Len(s) + 1}
  BY <1>1, <1>2, <1>4 DEF Reads
<1> QED
  BY <1>1, <1>3, <1>4 DEF a

\* A queue without its first transaction.
LEMMA WithoutHead ==
    ASSUME NEW s \in Seq(Transaction), s # <<>>
    PROVE  /\ Tail(s) \in Seq(Transaction)
           /\ Head(s) \in Transaction
           /\ \A i \in Reads(Tail(s)) : i + 1 \in Reads(s) /\ i + 1 # 1
           /\ Head(s).kind = "read" => 1 \in Reads(s)
           /\ Head(s).kind # "read" => (Reads(Tail(s)) = {} <=> Reads(s) = {})
           /\ Behind(s) => \/ Behind(Tail(s))
                           \/ Head(s).kind # "read" /\ Reads(s) = {}
<1> DEFINE r == Tail(s)
<1>1. /\ r \in Seq(Transaction) /\ Head(s) \in Transaction
      /\ Len(r) = Len(s) - 1
      /\ \A i \in 1 .. Len(r) : r[i] = s[i + 1]
  BY HeadTailProperties
<1>2. Len(s) \in Nat /\ Len(s) > 0 /\ Head(s) = s[1]
  BY LenProperties, EmptySeq
<1> HIDE DEF r
<1>3. \A i \in Reads(r) : i + 1 \in Reads(s) /\ i + 1 # 1
  BY <1>1, <1>2 DEF Reads
<1>4. Head(s).kind = "read" => 1 \in Reads(s)
  BY <1>2 DEF Reads
<1>5. ASSUME NEW i \in Reads(s), i # 1
      PROVE  i - 1 \in Reads(r)
  <2>1. i \in 1 .. Len(s) /\ i - 1 \in 1 .. Len(r) /\ s[i].kind = "read"
    BY <1>1, <1>2, <1>5 DEF Reads
  <2>2. r[i - 1] = s[i]
    BY <1>1, <1>2, <2>1
  <2> QED
    BY <2>1, <2>2 DEF Reads
<1>6. Head(s).kind # "read" => (Reads(r) = {} <=> Reads(s) = {})
  <2>1. Head(s).kind # "read" => 1 \notin Reads(s)
    BY <1>2 DEF Reads
  <2> QED
    BY <1>3, <1>5, <2>1
<1>7. ASSUME Behind(s)
      PROVE  Behind(r) \/ (Head(s).kind # "read" /\ Reads(s) = {})
  <2>1. PICK i \in 1 .. Len(s) :
           s[i].kind # "read" /\ \A j \in i + 1 .. Len(s) : s[j].kind # "read"
    BY <1>7 DEF Behind
  <2>2. CASE i = 1
    <3>1. \A j \in 1 .. Len(s) : s[j].kind # "read"
      BY <1>2, <2>1, <2>2
    <3> QED
      BY <1>2, <3>1 DEF Reads
  <2>3. CASE i # 1
    <3>1. i - 1 \in 1 .. Len(r) /\ r[i - 1].kind # "read"
      BY <1>1, <1>2, <2>1, <2>3
    <3>2. \A j \in i - 1 + 1 .. Len(r) : r[j].kind # "read"
      BY <1>1, <1>2, <2>1, <2>3
    <3> QED
      BY <3>1, <3>2 DEF Behind
  <2> QED
    BY <2>2, <2>3
<1> QED
  BY <1>1, <1>3, <1>4, <1>6, <1>7 DEF r

LEMMA WritersWrite == \A w \in Writer : w \in Transaction /\ w.kind # "read"
BY DEF Writer, Transaction

LEMMA EmptyQueue == Reads(<<>>) = {} /\ ~ Behind(<<>>)
BY DEF Reads, Behind

-----------------------------------------------------------------------------

LEMMA EmissionBegins ==
    ASSUME Init
    PROVE  EmissionInv
BY EmptyQueue, EmptySeq
   DEF Init, EmissionInv, Typed, QueuedIsRead, ReadIsAlone, Covered, Reads

LEMMA StartWriteStep ==
    ASSUME EmissionInv, NEW w \in Writer, StartWrite(w)
    PROVE  EmissionInv'
<1>1. Typed' /\ Reads(created)' = Reads(created)
  BY WritersWrite, AtTheEnd DEF EmissionInv, Typed, StartWrite
<1>2. UNCHANGED <<db, completed, rows, immediate, emitQueued, readFailed, repositories>>
  BY DEF StartWrite
<1> QED
  BY <1>1, <1>2 DEF EmissionInv, QueuedIsRead, ReadIsAlone, Covered, Reads, Behind

LEMMA CommitWriteStep ==
    ASSUME EmissionInv, CommitWrite
    PROVE  EmissionInv'
<1>1. /\ created # <<>> /\ Head(created).kind # "read"
      /\ created' = Tail(created) /\ completed' = Append(completed, Head(created))
      /\ UNCHANGED <<immediate, emitQueued>>
  BY DEF CommitWrite
<1>2. Typed' /\ Behind(completed)' /\ Reads(completed)' = Reads(completed)
  BY <1>1, AtTheEnd, WithoutHead DEF EmissionInv, Typed
<1>3. /\ Reads(created)' = {} <=> Reads(created) = {}
      /\ \A i \in Reads(created)' : i + 1 \in Reads(created)
  BY <1>1, WithoutHead DEF EmissionInv, Typed
<1>4. \A i, j \in Reads(created)' : i = j
  BY <1>3 DEF EmissionInv, ReadIsAlone, Reads
<1> QED
  BY <1>1, <1>2, <1>3, <1>4 DEF EmissionInv, QueuedIsRead, ReadIsAlone, Covered

LEMMA CommitReadStep ==
    ASSUME EmissionInv, CommitRead
    PROVE  EmissionInv'
<1>1. /\ created # <<>> /\ Head(created).kind = "read"
      /\ created' = Tail(created) /\ completed' = Append(completed, Head(created))
      /\ rows' = db' /\ UNCHANGED <<immediate, emitQueued>>
  BY DEF CommitRead
<1>2. Typed' /\ Reads(completed)' = Reads(completed) \cup {Len(completed) + 1}
  BY <1>1, AtTheEnd, WithoutHead DEF EmissionInv, Typed
<1>3. /\ 1 \in Reads(created)
      /\ \A i \in Reads(created)' : i + 1 \in Reads(created) /\ i + 1 # 1
  BY <1>1, WithoutHead DEF EmissionInv, Typed
<1>4. Reads(created)' = {} /\ Reads(completed) = {} /\ ~ immediate /\ emitQueued
  BY <1>3 DEF EmissionInv, Typed, ReadIsAlone, QueuedIsRead
<1> QED
  BY <1>1, <1>2, <1>4 DEF EmissionInv, QueuedIsRead, ReadIsAlone, Covered

LEMMA WriteDoneStep ==
    ASSUME EmissionInv, WriteDone
    PROVE  EmissionInv'
<1>1. /\ completed # <<>> /\ Head(completed).kind # "read"
      /\ completed' = Tail(completed)
      /\ UNCHANGED <<db, created, rows, readFailed, repositories>>
      /\ IF emitQueued THEN UNCHANGED <<immediate, emitQueued>>
                       ELSE immediate' = TRUE /\ emitQueued' = TRUE
  BY DEF WriteDone
<1>2. Typed'
  BY <1>1, WithoutHead DEF EmissionInv, Typed
<1>3. /\ Reads(completed)' = {} <=> Reads(completed) = {}
      /\ \A i \in Reads(completed)' : i + 1 \in Reads(completed)
      /\ Behind(completed) => Behind(completed)' \/ Reads(completed) = {}
  BY <1>1, WithoutHead DEF EmissionInv, Typed
<1>4. \A i, j \in Reads(completed)' : i = j
  BY <1>3 DEF EmissionInv, ReadIsAlone, Reads
<1>5. Reads(created)' = Reads(created)
  BY <1>1
<1>6. CASE emitQueued
  <2>1. immediate' = immediate /\ emitQueued' = emitQueued
    BY <1>1, <1>6
  <2>2. QueuedIsRead' /\ ReadIsAlone'
    BY <1>3, <1>4, <1>5, <2>1 DEF EmissionInv, QueuedIsRead, ReadIsAlone
  <2>3. Covered'
    BY <1>1, <1>3, <1>5, <1>6, <2>1 DEF EmissionInv, QueuedIsRead, Covered
  <2> QED
    BY <1>2, <2>2, <2>3 DEF EmissionInv
<1>7. CASE ~ emitQueued
  <2>1. immediate' /\ emitQueued'
    BY <1>1, <1>7
  <2>2. Reads(created)' = {} /\ Reads(completed)' = {}
    BY <1>3, <1>5, <1>7 DEF EmissionInv, QueuedIsRead
  <2> QED
    BY <1>2, <2>1, <2>2 DEF EmissionInv, QueuedIsRead, ReadIsAlone, Covered
<1> QED
  BY <1>6, <1>7

LEMMA StartReadStep ==
    ASSUME EmissionInv, StartRead
    PROVE  EmissionInv'
<1> DEFINE read == [kind |-> "read", id |-> 0, missing |-> FALSE]
<1>1. read \in Transaction /\ read.kind = "read"
  BY DEF Transaction, Reader
<1>2. /\ immediate /\ immediate' = FALSE /\ created' = Append(created, read)
      /\ UNCHANGED <<db, completed, rows, emitQueued, readFailed, repositories>>
  BY DEF StartRead
<1> HIDE DEF read
<1>3. Typed' /\ Reads(created)' = Reads(created) \cup {Len(created) + 1}
  BY <1>1, <1>2, AtTheEnd DEF EmissionInv, Typed
<1>4. Reads(created) = {} /\ Reads(completed)' = {} /\ emitQueued'
  BY <1>2 DEF EmissionInv, ReadIsAlone, QueuedIsRead
<1> QED
  BY <1>2, <1>3, <1>4 DEF EmissionInv, QueuedIsRead, ReadIsAlone, Covered

\* What the end of a read leaves: no other one.
LEMMA ReadEnds ==
    ASSUME EmissionInv, completed # <<>>, Head(completed).kind = "read",
           completed' = Tail(completed), created' = created, immediate' = immediate,
           emitQueued' = FALSE
    PROVE  /\ Typed' /\ QueuedIsRead' /\ ReadIsAlone'
           /\ rows = db \/ Behind(completed)'
<1>1. /\ 1 \in Reads(completed)
      /\ \A i \in Reads(completed)' : i + 1 \in Reads(completed) /\ i + 1 # 1
      /\ Behind(completed) => Behind(completed)'
      /\ Typed'
  BY WithoutHead DEF EmissionInv, Typed
<1>2. Reads(completed)' = {} /\ Reads(created)' = {} /\ ~ immediate' /\ emitQueued
  BY <1>1 DEF EmissionInv, Typed, ReadIsAlone, QueuedIsRead
<1>3. QueuedIsRead' /\ ReadIsAlone'
  BY <1>2 DEF QueuedIsRead, ReadIsAlone
<1>4. rows = db \/ Behind(completed)'
  BY <1>1, <1>2 DEF EmissionInv, Covered
<1> QED
  BY <1>1, <1>3, <1>4

\* The invariant of the emission: no step of IndexedDB, of a write or of an emission
\* breaks it.
LEMMA EmissionNext ==
    ASSUME EmissionInv, [Next]_vars
    PROVE  EmissionInv'
<1>1. CASE CommitWrite
  BY <1>1, CommitWriteStep
<1>2. CASE CommitRead
  BY <1>2, CommitReadStep
<1>3. CASE StartRead
  BY <1>3, StartReadStep
<1>4. CASE WriteDone
  BY <1>4, WriteDoneStep
<1>5. CASE ReadDone
  <2>1. /\ UNCHANGED <<db>> /\ repositories' = rows /\ ~ emitQueued'
        /\ Typed' /\ QueuedIsRead' /\ ReadIsAlone' /\ (rows = db \/ Behind(completed)')
    BY <1>5, ReadEnds DEF ReadDone
  <2> QED
    BY <2>1 DEF EmissionInv, Covered
<1>6. CASE ReadFailed
  <2>1. /\ readFailed' /\ ~ emitQueued'
        /\ Typed' /\ QueuedIsRead' /\ ReadIsAlone'
    BY <1>6, ReadEnds DEF ReadFailed
  <2> QED
    BY <2>1 DEF EmissionInv, Covered
<1>7. ASSUME NEW w \in Writer, StartWrite(w)
      PROVE  EmissionInv'
  BY <1>7, StartWriteStep
<1>8. CASE UNCHANGED vars
  BY <1>8 DEF vars, EmissionInv, Typed, QueuedIsRead, ReadIsAlone, Covered, Reads, Behind
<1> QED
  BY <1>1, <1>2, <1>3, <1>4, <1>5, <1>6, <1>7, <1>8 DEF Next, Commit, Resume

-----------------------------------------------------------------------------
(* That the store implements RepositoryUpdates.                              *)

TableTyped ==
    /\ db \in Table /\ nextID \in 1 .. MaxID + 1
    /\ rows \in Table \cup {None} /\ repositories \in Table /\ readFailed \in BOOLEAN

\* Keys are not used again.
RowsAreBelow == \A i \in ID : i >= nextID => db[i] = None

\* What was read is kept until the read that is through resumes.
ReadHasRows == rows # None <=> Reads(completed) # {}

\* Writes keep within their bound; the read of an emission comes on top.
WithinBound ==
    Len(created) + Len(completed) <= MaxTransactions + (IF emitQueued /\ ~immediate THEN 1 ELSE 0)

TableInv == TableTyped /\ RowsAreBelow /\ ReadHasRows /\ WithinBound

LEMMA StoreFacts ==
    /\ MaxID \in Nat \ {0} /\ MaxTransactions \in Nat \ {0}
    /\ ID = 1 .. MaxID /\ Row = [missing : BOOLEAN, gitHub : BOOLEAN]
    /\ Table = [ID -> Row \cup {None}] /\ None \notin Row /\ None \notin Table
BY StoreAssumption DEF ID, Row, Table

LEMMA UnseenIs ==
    Unseen <=> immediate \/ Reads(created) # {} \/ Behind(completed)
BY DEF Unseen, Reads, Behind

\* What a write makes of the table.
LEMMA WrittenIs ==
    ASSUME nextID \in Nat, NEW w \in Writer, NEW t \in Written(w)
    PROVE  \/ /\ w.kind = "add"
              /\ \/ t = db
                 \/ /\ nextID <= MaxID
                    /\ t = [db EXCEPT ![nextID] = [missing |-> w.missing, gitHub |-> FALSE]]
           \/ w.kind = "remove" /\ t = [db EXCEPT ![w.id] = None]
           \/ w.kind \in {"missing", "associate"} /\ db[w.id] = None /\ t = db
           \/ /\ w.kind = "missing" /\ db[w.id] # None
              /\ t = [db EXCEPT ![w.id].missing = w.missing]
           \/ /\ w.kind = "associate" /\ db[w.id] # None
              /\ t = [db EXCEPT ![w.id].gitHub = TRUE]
<1>1. w.kind \in {"add", "remove", "missing", "associate"}
  BY DEF Writer
<1>2. CASE w.kind = "add"
  <2>1. Written(w) = {db} \cup (IF nextID > MaxID THEN {}
                                ELSE {[db EXCEPT ![nextID] = [missing |-> w.missing,
                                                              gitHub |-> FALSE]]})
    BY <1>2 DEF Written
  <2>2. CASE nextID > MaxID
    BY <1>2, <2>1, <2>2
  <2>3. CASE ~ (nextID > MaxID)
    <3>1. t = db \/ t = [db EXCEPT ![nextID] = [missing |-> w.missing, gitHub |-> FALSE]]
      BY <2>1, <2>3
    <3> QED BY <1>2, <2>3, <3>1, StoreFacts
  <2> QED BY <2>2, <2>3
<1>3. CASE w.kind = "remove"
  BY <1>3 DEF Written
<1>4. CASE w.kind = "missing"
  BY <1>4 DEF Written
<1>5. CASE w.kind = "associate"
  BY <1>5 DEF Written
<1> QED BY <1>1, <1>2, <1>3, <1>4, <1>5

LEMMA TableBegins ==
    Init => TableInv
<1> SUFFICES ASSUME Init PROVE TableInv
  OBVIOUS
<1>1. /\ nextID \in 1 .. MaxID + 1 /\ db \in Table /\ \A i \in ID : i >= nextID => db[i] = None
      /\ created = <<>> /\ completed = <<>> /\ rows = None /\ repositories = db
  BY Zenon DEF Init
<1>2. readFailed \in BOOLEAN
  BY Zenon DEF Init
<1>3. Len(created) = 0 /\ Len(completed) = 0 /\ Reads(completed) = {}
  BY <1>1, EmptyQueue, EmptySeq
<1>4. WithinBound
  BY <1>3, StoreFacts DEF WithinBound
<1> QED BY <1>1, <1>2, <1>3, <1>4 DEF TableInv, TableTyped, RowsAreBelow, ReadHasRows

\* A write that is committed is one of the abstract writes, and leaves the table typed.
LEMMA CommitWriteMaps ==
    ASSUME EmissionInv, TableInv, CommitWrite
    PROVE  TableInv' /\ Updates!Write
<1> DEFINE w == Head(created)
<1>1. /\ created # <<>> /\ w.kind # "read" /\ db' \in Written(w)
      /\ nextID' = IF w.kind = "add" /\ db' # db THEN nextID + 1 ELSE nextID
      /\ created' = Tail(created) /\ completed' = Append(completed, w)
      /\ UNCHANGED <<rows, immediate, emitQueued, readFailed, repositories>>
  BY DEF CommitWrite
<1>2. /\ w \in Transaction
      /\ created \in Seq(Transaction) /\ completed \in Seq(Transaction)
      /\ Len(created') = Len(created) - 1 /\ Len(completed') = Len(completed) + 1
      /\ Len(created) \in Nat /\ Len(completed) \in Nat
  BY <1>1, WithoutHead, HeadTailProperties, AppendProperties, LenProperties
     DEF EmissionInv, Typed
<1>3. w \in Writer
  BY <1>1, <1>2 DEF Transaction, Reader
<1>4. Reads(completed)' = Reads(completed) /\ Behind(completed)'
  BY <1>1, <1>2, AtTheEnd DEF EmissionInv, Typed
<1>5. /\ db \in [ID -> Row \cup {None}] /\ nextID \in 1 .. MaxID + 1 /\ MaxID \in Nat
      /\ ID = 1 .. MaxID /\ Row = [missing : BOOLEAN, gitHub : BOOLEAN] /\ None \notin Row
      /\ \A i \in ID : i >= nextID => db[i] = None
  BY StoreFacts DEF TableInv, TableTyped, RowsAreBelow
<1>6. Unseen' = TRUE
  BY <1>4, UnseenIs, Zenon DEF Unseen, Behind
<1> HIDE DEF w
<1>7. /\ db' \in [ID -> Row \cup {None}] /\ nextID' \in 1 .. MaxID + 1
      /\ \A i \in ID : i >= nextID' => db'[i] = None
      /\ Updates!Write
  <2>0. nextID \in Nat
    BY <1>5
  <2>1. CASE w.kind = "add" /\ db' = db
    <3>1. nextID' = nextID
      BY <1>1, <2>1
    <3>2. Updates!Change(db) /\ UNCHANGED nextID
      BY <1>1, <1>6, <2>1, <3>1 DEF Updates!Change
    <3> QED BY <1>5, <2>1, <3>1, <3>2 DEF Updates!Write, Updates!Add
  <2>2. CASE w.kind = "add" /\ db' # db
    <3>1. /\ nextID <= MaxID /\ w.missing \in BOOLEAN
          /\ db' = [db EXCEPT ![nextID] = [missing |-> w.missing, gitHub |-> FALSE]]
          /\ nextID' = nextID + 1
      BY <1>1, <1>3, <2>0, <2>2, WrittenIs DEF Writer
    <3>2. Updates!Change([db EXCEPT ![nextID] = [missing |-> w.missing, gitHub |-> FALSE]])
      BY <1>1, <1>6, <3>1 DEF Updates!Change
    <3>3. Updates!Add
      BY <3>1, <3>2 DEF Updates!Add
    <3>4. [missing |-> w.missing, gitHub |-> FALSE] \in Row
      BY <1>5, <3>1
    <3> QED BY <1>5, <3>1, <3>3, <3>4 DEF Updates!Write
  <2>3. CASE w.kind = "remove"
    <3>1. w.id \in ID /\ db' = [db EXCEPT ![w.id] = None] /\ nextID' = nextID
      BY <1>1, <1>3, <2>0, <2>3, WrittenIs DEF Writer
    <3>2. Updates!Remove(w.id)
      BY <1>1, <1>6, <3>1 DEF Updates!Remove, Updates!Change
    <3>3. Updates!Write
      BY <1>5, <3>1, <3>2 DEF Updates!Write, Updates!ID
    <3> QED BY <1>5, <3>1, <3>3
  <2>4. CASE w.kind = "missing"
    <3>1. /\ w.id \in ID /\ w.missing \in BOOLEAN /\ nextID' = nextID
          /\ db' = IF db[w.id] = None THEN db ELSE [db EXCEPT ![w.id].missing = w.missing]
      BY <1>1, <1>3, <2>0, <2>4, WrittenIs DEF Writer
    <3>2. Updates!SetMissing(w.id, w.missing)
      BY <1>1, <1>6, <3>1 DEF Updates!SetMissing, Updates!Change
    <3>3. Updates!Write
      BY <1>5, <3>1, <3>2 DEF Updates!Write, Updates!ID
    <3> QED BY <1>5, <3>1, <3>3
  <2>5. CASE w.kind = "associate"
    <3>1. /\ w.id \in ID /\ nextID' = nextID
          /\ db' = IF db[w.id] = None THEN db ELSE [db EXCEPT ![w.id].gitHub = TRUE]
      BY <1>1, <1>3, <2>0, <2>5, WrittenIs DEF Writer
    <3>2. Updates!Associate(w.id)
      BY <1>1, <1>6, <3>1 DEF Updates!Associate, Updates!Change
    <3>3. Updates!Write
      BY <1>5, <3>1, <3>2 DEF Updates!Write, Updates!ID
    <3> QED BY <1>5, <3>1, <3>3
  <2>6. w.kind \in {"add", "remove", "missing", "associate"}
    BY <1>3 DEF Writer
  <2> QED BY <2>1, <2>2, <2>3, <2>4, <2>5, <2>6
<1>8. TableTyped'
  BY <1>1, <1>7, StoreFacts DEF TableInv, TableTyped
<1>9. RowsAreBelow' /\ ReadHasRows'
  BY <1>1, <1>4, <1>7 DEF TableInv, RowsAreBelow, ReadHasRows
<1>10. WithinBound'
  BY <1>1, <1>2 DEF TableInv, WithinBound
<1> QED BY <1>7, <1>8, <1>9, <1>10 DEF TableInv

\* The read of an emission sees every write that was committed before it.
LEMMA CommitReadMaps ==
    ASSUME EmissionInv, TableInv, CommitRead
    PROVE  TableInv' /\ Updates!Read
<1>1. /\ created # <<>> /\ Head(created).kind = "read" /\ rows' = db
      /\ created' = Tail(created) /\ completed' = Append(completed, Head(created))
      /\ UNCHANGED <<db, nextID, immediate, emitQueued, readFailed, repositories>>
  BY DEF CommitRead
<1>2. /\ created \in Seq(Transaction) /\ completed \in Seq(Transaction)
      /\ completed' \in Seq(Transaction)
      /\ Len(created') = Len(created) - 1 /\ Len(completed') = Len(completed) + 1
      /\ completed'[Len(completed')] = Head(created)
      /\ Len(created) \in Nat /\ Len(completed) \in Nat
  BY <1>1, WithoutHead, HeadTailProperties, AppendProperties, LenProperties
     DEF EmissionInv, Typed
<1>3. Reads(completed)' = Reads(completed) \cup {Len(completed) + 1}
  BY <1>1, AtTheEnd, WithoutHead DEF EmissionInv, Typed
<1>4. /\ 1 \in Reads(created)
      /\ \A i \in Reads(created)' : i + 1 \in Reads(created) /\ i + 1 # 1
  BY <1>1, <1>2, WithoutHead
<1>5. Reads(created)' = {} /\ Reads(completed) = {} /\ ~ immediate /\ emitQueued
  BY <1>4 DEF EmissionInv, Typed, ReadIsAlone, QueuedIsRead
<1>6. ~Behind(completed)'
  <2>1. completed'[Len(completed')].kind = "read" /\ Len(completed') \in Nat
    BY <1>1, <1>2
  <2>2. ASSUME NEW i \in 1 .. Len(completed'), completed'[i].kind # "read"
        PROVE  \E j \in i + 1 .. Len(completed') : completed'[j].kind = "read"
    <3>1. i # Len(completed') /\ Len(completed') \in i + 1 .. Len(completed')
      BY <2>1, <2>2
    <3> QED BY <2>1, <3>1
  <2> QED BY <2>2 DEF Behind
<1>7. Unseen = TRUE /\ Unseen' = FALSE
  <2>1. Unseen
    BY <1>4, UnseenIs
  <2>2. ~Unseen'
    BY <1>1, <1>5, <1>6 DEF Unseen, Behind, Reads
  <2> QED BY <2>1, <2>2, Zenon DEF Unseen
<1>8. rows = None
  BY <1>5 DEF TableInv, ReadHasRows
<1>9. db \in Table /\ db # None
  BY StoreFacts DEF TableInv, TableTyped
<1>10. TableTyped' /\ RowsAreBelow' /\ ReadHasRows'
  BY <1>1, <1>3, <1>9 DEF TableInv, TableTyped, RowsAreBelow, ReadHasRows
<1>11. WithinBound'
  BY <1>1, <1>2 DEF TableInv, WithinBound
<1>12. Updates!Read
  BY <1>1, <1>7, <1>8 DEF Updates!Read
<1> QED BY <1>10, <1>11, <1>12 DEF TableInv

\* A queue is behind if it is so without its first transaction.
LEMMA BehindAtTail ==
    ASSUME NEW s \in Seq(Transaction), s # <<>>
    PROVE  /\ Behind(Tail(s)) => Behind(s)
           /\ Head(s).kind # "read" /\ Reads(s) = {} => Behind(s)
<1> DEFINE r == Tail(s)
<1>1. /\ Len(r) = Len(s) - 1 /\ \A i \in 1 .. Len(r) : r[i] = s[i + 1]
      /\ Len(s) \in Nat /\ Len(s) > 0 /\ Head(s) = s[1]
  BY HeadTailProperties, LenProperties, EmptySeq
<1> HIDE DEF r
<1>2. ASSUME Behind(r) PROVE Behind(s)
  <2>1. PICK i \in 1 .. Len(r) :
           r[i].kind # "read" /\ \A j \in i + 1 .. Len(r) : r[j].kind # "read"
    BY <1>2 DEF Behind
  <2>2. i + 1 \in 1 .. Len(s) /\ s[i + 1].kind # "read"
    BY <1>1, <2>1
  <2>3. ASSUME NEW j \in i + 1 + 1 .. Len(s) PROVE s[j].kind # "read"
    <3>1. j - 1 \in i + 1 .. Len(r) /\ j - 1 \in 1 .. Len(r) /\ j - 1 + 1 = j
      BY <1>1, <2>1
    <3>2. r[j - 1] = s[j]
      BY <1>1, <3>1
    <3> QED BY <2>1, <3>1, <3>2
  <2> QED BY <2>2, <2>3 DEF Behind
<1>3. ASSUME Head(s).kind # "read", Reads(s) = {} PROVE Behind(s)
  <2>1. 1 \in 1 .. Len(s) /\ \A j \in 1 .. Len(s) : s[j].kind # "read"
    BY <1>1, <1>3 DEF Reads
  <2> QED BY <1>1, <2>1 DEF Behind
<1> QED BY <1>2, <1>3 DEF r

LEMMA WriteDoneMaps ==
    ASSUME EmissionInv, TableInv, WriteDone
    PROVE  TableInv' /\ UNCHANGED Updates!updateVars
<1>1. /\ completed # <<>> /\ Head(completed).kind # "read"
      /\ completed' = Tail(completed)
      /\ UNCHANGED <<db, nextID, created, rows, readFailed, repositories>>
      /\ \/ emitQueued /\ UNCHANGED <<immediate, emitQueued>>
         \/ ~emitQueued /\ immediate' = TRUE /\ emitQueued' = TRUE
  BY DEF WriteDone
<1>2. /\ created \in Seq(Transaction) /\ completed \in Seq(Transaction)
      /\ Len(completed') = Len(completed) - 1
      /\ Len(created) \in Nat /\ Len(completed) \in Nat
  BY <1>1, HeadTailProperties, LenProperties DEF EmissionInv, Typed
<1>3. /\ Reads(completed)' = {} <=> Reads(completed) = {}
      /\ Behind(completed) => Behind(completed)' \/ Reads(completed) = {}
      /\ Behind(completed)' => Behind(completed)
      /\ Reads(completed) = {} => Behind(completed)
  BY <1>1, <1>2, WithoutHead, BehindAtTail
<1>4. Reads(created)' = Reads(created)
  BY <1>1
<1>5. Unseen <=> immediate \/ Reads(created) # {} \/ Behind(completed)
  BY UnseenIs
<1>6. Unseen' <=> immediate' \/ Reads(created)' # {} \/ Behind(completed)'
  BY DEF Unseen, Reads, Behind
<1>7. Unseen' <=> Unseen
  BY <1>1, <1>3, <1>4, <1>5, <1>6 DEF EmissionInv, QueuedIsRead
<1>8. Unseen' = Unseen
  BY <1>7, Zenon DEF Unseen
<1>9. TableTyped' /\ RowsAreBelow' /\ ReadHasRows'
  BY <1>1, <1>3 DEF TableInv, TableTyped, RowsAreBelow, ReadHasRows
<1>10. WithinBound'
  BY <1>1, <1>2, StoreFacts DEF TableInv, WithinBound
<1> QED BY <1>1, <1>8, <1>9, <1>10 DEF TableInv, Updates!updateVars

LEMMA StartReadMaps ==
    ASSUME EmissionInv, TableInv, StartRead
    PROVE  TableInv' /\ UNCHANGED Updates!updateVars
<1> DEFINE read == [kind |-> "read", id |-> 0, missing |-> FALSE]
<1>1. read \in Transaction /\ read.kind = "read"
  BY DEF Transaction, Reader
<1>2. /\ immediate /\ immediate' = FALSE /\ created' = Append(created, read)
      /\ UNCHANGED <<db, nextID, completed, rows, emitQueued, readFailed, repositories>>
  BY DEF StartRead
<1> HIDE DEF read
<1>3. /\ created \in Seq(Transaction) /\ completed \in Seq(Transaction)
      /\ Len(created') = Len(created) + 1
      /\ Len(created) \in Nat /\ Len(completed) \in Nat
      /\ Reads(created)' = Reads(created) \cup {Len(created) + 1}
  BY <1>1, <1>2, AtTheEnd, AppendProperties, LenProperties DEF EmissionInv, Typed
<1>4. Unseen /\ Unseen' /\ emitQueued
  BY <1>2, <1>3, UnseenIs DEF EmissionInv, QueuedIsRead, Unseen, Reads, Behind
<1>5. Unseen' = Unseen
  BY <1>4, Zenon DEF Unseen
<1>6. TableTyped' /\ RowsAreBelow' /\ ReadHasRows'
  BY <1>2 DEF TableInv, TableTyped, RowsAreBelow, ReadHasRows
<1>7. WithinBound'
  BY <1>2, <1>3, <1>4, StoreFacts DEF TableInv, WithinBound
<1> QED BY <1>2, <1>5, <1>6, <1>7 DEF TableInv, Updates!updateVars

LEMMA StartWriteMaps ==
    ASSUME EmissionInv, TableInv, NEW w \in Writer, StartWrite(w)
    PROVE  TableInv' /\ UNCHANGED Updates!updateVars
<1>1. /\ Len(created) + Len(completed) < MaxTransactions
      /\ created' = Append(created, w)
      /\ UNCHANGED <<db, nextID, completed, rows, immediate, emitQueued, readFailed,
                     repositories>>
  BY DEF StartWrite
<1>2. /\ created \in Seq(Transaction) /\ completed \in Seq(Transaction)
      /\ Len(created') = Len(created) + 1
      /\ Len(created) \in Nat /\ Len(completed) \in Nat
      /\ Reads(created)' = Reads(created)
  BY <1>1, WritersWrite, AtTheEnd, AppendProperties, LenProperties DEF EmissionInv, Typed
<1>3. Unseen' <=> Unseen
  BY <1>1, <1>2, UnseenIs DEF Unseen, Reads, Behind
<1>4. Unseen' = Unseen
  BY <1>3, Zenon DEF Unseen
<1>5. TableTyped' /\ RowsAreBelow' /\ ReadHasRows'
  BY <1>1 DEF TableInv, TableTyped, RowsAreBelow, ReadHasRows
<1>6. WithinBound'
  BY <1>1, <1>2, StoreFacts DEF WithinBound
<1> QED BY <1>1, <1>4, <1>5, <1>6 DEF TableInv, Updates!updateVars

\* What both ends of a read have in common.
LEMMA ReadEndsMaps ==
    ASSUME EmissionInv, TableInv, completed # <<>>, Head(completed).kind = "read",
           completed' = Tail(completed), rows' = None, emitQueued' = FALSE,
           UNCHANGED <<db, nextID, created, immediate>>, repositories' \in {repositories, rows},
           readFailed' \in BOOLEAN
    PROVE  TableInv' /\ rows # None /\ Unseen' = Unseen
<1>1. /\ created \in Seq(Transaction) /\ completed \in Seq(Transaction)
      /\ Len(completed') = Len(completed) - 1
      /\ Len(created) \in Nat /\ Len(completed) \in Nat
  BY HeadTailProperties, LenProperties DEF EmissionInv, Typed
<1>2. /\ 1 \in Reads(completed)
      /\ \A i \in Reads(completed)' : i + 1 \in Reads(completed) /\ i + 1 # 1
      /\ Behind(completed) => Behind(completed)'
      /\ Behind(completed)' => Behind(completed)
  BY <1>1, WithoutHead, BehindAtTail
<1>3. Reads(completed)' = {}
  BY <1>2 DEF EmissionInv, Typed, ReadIsAlone
<1>4. rows # None
  BY <1>2 DEF TableInv, ReadHasRows
<1>5. Unseen' <=> Unseen
  BY <1>2, UnseenIs DEF Unseen, Reads, Behind
<1>6. Unseen' = Unseen
  BY <1>5, Zenon DEF Unseen
<1>7. TableTyped' /\ RowsAreBelow' /\ ReadHasRows'
  BY <1>3, <1>4 DEF TableInv, TableTyped, RowsAreBelow, ReadHasRows
<1>8. WithinBound'
  BY <1>1, StoreFacts DEF TableInv, WithinBound
<1> QED BY <1>4, <1>6, <1>7, <1>8 DEF TableInv

\* Every step of the store is one of what it promises, or a step of its own.
LEMMA StepsMap ==
    ASSUME EmissionInv, TableInv, [Next]_vars
    PROVE  TableInv' /\ [Updates!UpdateNext]_(Updates!updateVars)
<1>1. CASE CommitWrite
  BY <1>1, CommitWriteMaps DEF Updates!UpdateNext
<1>2. CASE CommitRead
  BY <1>2, CommitReadMaps DEF Updates!UpdateNext
<1>3. CASE StartRead
  BY <1>3, StartReadMaps
<1>4. CASE WriteDone
  BY <1>4, WriteDoneMaps
<1>5. CASE ReadDone
  <2>1. TableInv' /\ rows # None /\ Unseen' = Unseen
    BY <1>5, ReadEndsMaps DEF ReadDone
  <2>2. Updates!Emit
    BY <1>5, <2>1 DEF ReadDone, Updates!Emit
  <2> QED BY <2>1, <2>2 DEF Updates!UpdateNext
<1>6. CASE ReadFailed
  <2>1. TableInv' /\ rows # None /\ Unseen' = Unseen
    BY <1>6, ReadEndsMaps DEF ReadFailed
  <2>2. Updates!EmitFailed
    BY <1>6, <2>1 DEF ReadFailed, Updates!EmitFailed
  <2> QED BY <2>1, <2>2 DEF Updates!UpdateNext
<1>7. ASSUME NEW w \in Writer, StartWrite(w)
      PROVE  TableInv' /\ UNCHANGED Updates!updateVars
  BY <1>7, StartWriteMaps
<1>8. CASE UNCHANGED vars
  <2>1. TableInv'
    BY <1>8 DEF vars, TableInv, TableTyped, RowsAreBelow, ReadHasRows, WithinBound, Reads
  <2>2. Unseen' <=> Unseen
    BY <1>8 DEF vars, Unseen
  <2>3. Unseen' = Unseen
    BY <2>2, Zenon DEF Unseen
  <2> QED BY <1>8, <2>1, <2>3 DEF vars, Updates!updateVars
<1> QED
  BY <1>1, <1>2, <1>3, <1>4, <1>5, <1>6, <1>7, <1>8 DEF Next, Commit, Resume

LEMMA UpdatesBegin ==
    ASSUME Init PROVE Updates!UpdateInit
<1>1. /\ nextID \in 1 .. MaxID + 1
      /\ db \in {t \in Table : \A i \in ID : i >= nextID => t[i] = None}
      /\ created = <<>> /\ completed = <<>> /\ rows = None /\ repositories = db
      /\ immediate = FALSE
  BY Zenon DEF Init
<1>2. ~Unseen
  BY <1>1, EmptyQueue, UnseenIs
<1>3. Unseen = FALSE
  BY <1>2, Zenon DEF Unseen
<1> QED BY <1>1, <1>3 DEF Updates!UpdateInit, Updates!ID, Updates!Table, Updates!Row, ID,
           Table, Row

-----------------------------------------------------------------------------
(* The sign-in store: every call that waits keeps the step it was made at.          *)

\* A call asks for metadata just if it was made where the address is entered.
CallsAreOfSteps ==
    \A c \in Call : calls[c] # None =>
        (calls[c].on = "metadata" <=> calls[c].from.kind = "EndpointEntry")

CallsTyped ==
    /\ calls \in [Call -> SignIn!Waiting \cup {None}] /\ asks \in 0 .. MaxAsks
    /\ oauthState \in SignIn!Request(asks) \cup {None}

CallsInv == CallsTyped /\ CallsAreOfSteps /\ SignIn!OneBrowserRequest

DialogTyped ==
    /\ state \in SignIn!Steps \cup {SignIn!Success, None}
    /\ event \in Endpoint \cup {None}
    /\ misused \in BOOLEAN /\ failed \in BOOLEAN

CallbacksTyped ==
    callbacks \in [Callback -> [pc : {"token", "user"}, redeemedAt : Endpoint,
                                fetchedFrom : Endpoint] \cup {None}]

SignInInv == CallsInv /\ DialogTyped /\ CallbacksTyped

\* What keeps the account of a late answer out.
EventIsOfDialog ==
    event' # None => state # None /\ state' = SignIn!Success /\
                     state.kind \in {"Authentication", "TwoFactorAuthentication"}

LEMMA SignInFacts ==
    /\ DotCom \in Endpoint /\ MaxAsks \in Nat
    /\ None \notin Endpoint /\ None \notin SignIn!Waiting /\ None \notin SignIn!Request(MaxAsks)
BY SignInAssumed DEF SignIn!SignInAssumption

\* The steps of the dialog.
LEMMA StepsAre ==
    ASSUME NEW s \in SignIn!Steps
    PROVE  /\ s.kind \in {"EndpointEntry", "Authentication", "TwoFactorAuthentication"}
           /\ s.kind # "EndpointEntry" => s.endpoint \in Endpoint
           /\ [s EXCEPT !.loading = TRUE] \in SignIn!Steps
           /\ [s EXCEPT !.error = TRUE] \in SignIn!Steps
           /\ [s EXCEPT !.error = TRUE, !.loading = FALSE] \in SignIn!Steps
BY DEF SignIn!Steps

\* Nor is what a refusal leaves anything else.
LEMMA RefusalsAre ==
    ASSUME NEW s \in SignIn!Steps, s.kind # "EndpointEntry"
    PROVE  /\ [s EXCEPT !.loading = FALSE] \in SignIn!Steps
           /\ [s EXCEPT !.kind = "TwoFactorAuthentication", !.error = FALSE, !.loading = FALSE]
                \in SignIn!Steps
           /\ [s EXCEPT !.kind = "Authentication", !.basic = FALSE,
                        !.error = @ /\ s.kind = "Authentication", !.loading = FALSE]
                \in SignIn!Steps
BY DEF SignIn!Steps

LEMMA WaitingIs ==
    ASSUME NEW w \in SignIn!Waiting
    PROVE  /\ w # None /\ w.on \in {"metadata", "authorization", "user", "browser"}
           /\ w.endpoint \in Endpoint /\ w.from \in SignIn!Steps
BY SignInFacts DEF SignIn!Waiting

\* A call that was settled, with its browser request if it had one.
LEMMA SettledKeeps ==
    ASSUME CallsInv, NEW c \in Call, calls' = [calls EXCEPT ![c] = None], asks' = asks,
           \/ oauthState' = oauthState /\ ~SignIn!Waits(c, "browser")
           \/ oauthState # None /\ oauthState.call = c /\ oauthState' = None
    PROVE  CallsInv'
<1>1. CallsTyped'
  BY DEF CallsInv, CallsTyped
<1>2. \A d \in Call : calls'[d] = IF d = c THEN None ELSE calls[d]
  BY DEF CallsInv, CallsTyped
<1>3. CallsAreOfSteps'
  BY <1>2 DEF CallsInv, CallsAreOfSteps
<1>4. SignIn!OneBrowserRequest'
  <2>1. \A d \in Call : SignIn!Waits(d, "browser")' <=> SignIn!Waits(d, "browser") /\ d # c
    BY <1>2 DEF SignIn!Waits
  <2>2. oauthState # None => oauthState.call \in Call
    BY DEF CallsInv, CallsTyped, SignIn!Request
  <2> QED BY <1>2, <2>1, <2>2 DEF CallsInv, SignIn!OneBrowserRequest
<1> QED BY <1>1, <1>3, <1>4 DEF CallsInv

\* A call that waits for a server now, and for no browser before.
LEMMA WaitingKeeps ==
    ASSUME CallsInv, NEW c \in Call, NEW w \in SignIn!Waiting,
           calls' = [calls EXCEPT ![c] = w], UNCHANGED <<asks, oauthState>>,
           ~SignIn!Waits(c, "browser"), w.on # "browser",
           w.on = "metadata" <=> w.from.kind = "EndpointEntry"
    PROVE  CallsInv'
<1>1. CallsTyped'
  BY DEF CallsInv, CallsTyped
<1>2. \A d \in Call : calls'[d] = IF d = c THEN w ELSE calls[d]
  BY DEF CallsInv, CallsTyped
<1>3. CallsAreOfSteps'
  BY <1>2 DEF CallsInv, CallsAreOfSteps
<1>4. SignIn!OneBrowserRequest'
  <2>1. \A d \in Call : SignIn!Waits(d, "browser")' <=> SignIn!Waits(d, "browser")
    BY <1>2 DEF SignIn!Waits
  <2>2. oauthState # None => oauthState.call \in Call
    BY DEF CallsInv, CallsTyped, SignIn!Request
  <2> QED BY <1>2, <2>1, <2>2 DEF CallsInv, SignIn!OneBrowserRequest
<1> QED BY <1>1, <1>3, <1>4 DEF CallsInv

LEMMA SignInBegins ==
    SignIn!Init => SignInInv
<1> SUFFICES ASSUME SignIn!Init PROVE SignInInv
  OBVIOUS
<1>1. /\ state = None /\ calls = [c \in Call |-> None] /\ asks = 0 /\ oauthState = None
      /\ callbacks = [c \in Callback |-> None] /\ event = None
  BY Zenon DEF SignIn!Init
<1>2. misused \in BOOLEAN /\ failed \in BOOLEAN
  BY Zenon DEF SignIn!Init
<1>3. CallsInv
  BY <1>1, SignInFacts
     DEF CallsInv, CallsTyped, CallsAreOfSteps, SignIn!OneBrowserRequest, SignIn!Waits
<1> QED BY <1>1, <1>2, <1>3 DEF SignInInv, DialogTyped, CallbacksTyped

LEMMA NoCallsChange ==
    ASSUME CallsInv, UNCHANGED <<calls, asks, oauthState>>
    PROVE  CallsInv'
BY DEF CallsInv, CallsTyped, CallsAreOfSteps, SignIn!OneBrowserRequest, SignIn!Waits

LEMMA DialogSteps ==
    ASSUME SignInInv,
           SignIn!Reset \/ SignIn!BeginDotComSignIn \/ SignIn!BeginEnterpriseSignIn
    PROVE  SignInInv' /\ EventIsOfDialog
<1>1. /\ UNCHANGED <<calls, asks, oauthState, callbacks, misused, failed>> /\ event' = None
      /\ \/ state' = None \/ state' = SignIn!Authentication(DotCom, FALSE)
         \/ state' = [kind |-> "EndpointEntry", endpoint |-> None, basic |-> FALSE,
                      error |-> FALSE, loading |-> FALSE]
  BY DEF SignIn!Reset, SignIn!BeginDotComSignIn, SignIn!BeginEnterpriseSignIn, SignIn!Quiet
<1>2. state' \in SignIn!Steps \cup {None}
  <2>1. SignIn!Authentication(DotCom, FALSE) \in SignIn!Steps
    BY SignInFacts DEF SignIn!Steps, SignIn!Authentication
  <2>2. [kind |-> "EndpointEntry", endpoint |-> None, basic |-> FALSE,
         error |-> FALSE, loading |-> FALSE] \in SignIn!Steps
    BY DEF SignIn!Steps
  <2> QED BY <1>1, <2>1, <2>2
<1>3. CallsInv'
  BY <1>1, NoCallsChange DEF SignInInv
<1> QED BY <1>1, <1>2, <1>3 DEF SignInInv, DialogTyped, CallbacksTyped, EventIsOfDialog

\* A form is sent: its call waits for a server.
LEMMA SubmittedKeeps ==
    ASSUME SignInInv, NEW c \in Call, NEW on \in {"metadata", "authorization"},
           NEW e \in Endpoint, SignIn!Submitted(c, on, e), state \in SignIn!Steps,
           on = "metadata" <=> state.kind = "EndpointEntry",
           UNCHANGED <<asks, oauthState, callbacks, misused, failed>>
    PROVE  SignInInv' /\ EventIsOfDialog
<1> DEFINE w == [on |-> on, endpoint |-> e, from |-> state]
<1>1. /\ calls[c] = None /\ calls' = [calls EXCEPT ![c] = w] /\ event' = None
      /\ state' = [state EXCEPT !.loading = TRUE]
  BY DEF SignIn!Submitted, SignIn!Quiet
<1>2. w \in SignIn!Waiting /\ w.on = on /\ w.from = state
  BY DEF SignIn!Waiting
<1> HIDE DEF w
<1>3. CallsInv'
  BY <1>1, <1>2, WaitingKeeps DEF SignInInv, SignIn!Waits
<1>4. state' \in SignIn!Steps
  BY <1>1, StepsAre
<1> QED BY <1>1, <1>3, <1>4 DEF SignInInv, DialogTyped, CallbacksTyped, EventIsOfDialog

LEMMA SetEndpointStep ==
    ASSUME SignInInv, NEW c \in Call, SignIn!SetEndpoint(c)
    PROVE  SignInInv' /\ EventIsOfDialog
<1>1. /\ state # None /\ state.kind = "EndpointEntry"
      /\ UNCHANGED <<asks, oauthState, callbacks, misused, failed>>
  BY DEF SignIn!SetEndpoint, SignIn!AtStep
<1>2. state \in SignIn!Steps
  BY <1>1 DEF SignInInv, DialogTyped, SignIn!Success
<1>3. CASE \E e \in Endpoint \ {DotCom} : SignIn!Submitted(c, "metadata", e)
  BY <1>1, <1>2, <1>3, SubmittedKeeps
<1>4. CASE state' = [state EXCEPT !.error = TRUE] /\ SignIn!Quiet /\ UNCHANGED calls
  <2>1. CallsInv' /\ state' \in SignIn!Steps
    BY <1>1, <1>2, <1>4, NoCallsChange, StepsAre DEF SignInInv
  <2> QED BY <1>1, <1>4, <2>1
          DEF SignInInv, DialogTyped, CallbacksTyped, EventIsOfDialog, SignIn!Quiet
<1> QED BY <1>3, <1>4 DEF SignIn!SetEndpoint

LEMMA SendCredentialsStep ==
    ASSUME SignInInv, NEW c \in Call, SignIn!SendCredentials(c)
    PROVE  SignInInv' /\ EventIsOfDialog
<1>1. /\ state # None /\ state.kind \in {"Authentication", "TwoFactorAuthentication"}
      /\ SignIn!Submitted(c, "authorization", state.endpoint)
      /\ UNCHANGED <<asks, oauthState, callbacks, misused, failed>>
  BY DEF SignIn!SendCredentials, SignIn!AtStep
<1>2. state \in SignIn!Steps
  BY <1>1 DEF SignInInv, DialogTyped, SignIn!Success
<1>3. state.endpoint \in Endpoint
  BY <1>1, <1>2, StepsAre
<1> QED BY <1>1, <1>2, <1>3, SubmittedKeeps

\* The request of the browser that waits is the one just made.
LEMMA AuthenticateWithBrowserStep ==
    ASSUME SignInInv, NEW c \in Call, SignIn!AuthenticateWithBrowser(c)
    PROVE  SignInInv' /\ EventIsOfDialog
<1> DEFINE w == [on |-> "browser", endpoint |-> state.endpoint, from |-> state]
           r == [id |-> asks + 1, endpoint |-> state.endpoint, call |-> c]
<1>1. /\ state # None /\ state.kind = "Authentication" /\ asks < MaxAsks
      /\ calls' = [calls EXCEPT ![c] = w] /\ asks' = asks + 1 /\ oauthState' = r
      /\ oauthState # None /\ oauthState.call \in Call => oauthState.call = c
      /\ state' = [state EXCEPT !.loading = TRUE] /\ event' = None
      /\ UNCHANGED <<callbacks, misused, failed>>
  BY DEF SignIn!AuthenticateWithBrowser, SignIn!AtStep, SignIn!Quiet
<1>2. state \in SignIn!Steps
  BY <1>1 DEF SignInInv, DialogTyped, SignIn!Success
<1>3. state.endpoint \in Endpoint /\ state' \in SignIn!Steps
  BY <1>1, <1>2, StepsAre
<1>4. w \in SignIn!Waiting /\ w.on = "browser" /\ w.from = state
  BY <1>2, <1>3 DEF SignIn!Waiting
<1>5. asks' \in 0 .. MaxAsks
  BY <1>1, SignInFacts DEF SignInInv, CallsInv, CallsTyped
<1>6. r \in SignIn!Request(asks') /\ r.call = c /\ r.endpoint = state.endpoint
  <2>1. asks + 1 \in 1 .. asks'
    BY <1>1, SignInFacts DEF SignInInv, CallsInv, CallsTyped
  <2> QED BY <1>3, <2>1 DEF SignIn!Request
<1>7. r # None
  <2>1. r.id \in 1 .. MaxAsks /\ r = [id |-> r.id, endpoint |-> r.endpoint, call |-> r.call]
    BY <1>1, SignInFacts DEF SignInInv, CallsInv, CallsTyped
  <2>2. r \in SignIn!Request(MaxAsks)
    BY <1>3, <1>6, <2>1 DEF SignIn!Request
  <2> QED BY <2>2, SignInFacts
<1> HIDE DEF w, r
<1>8. CallsTyped'
  BY <1>1, <1>4, <1>5, <1>6 DEF SignInInv, CallsInv, CallsTyped
<1>9. \A d \in Call : calls'[d] = IF d = c THEN w ELSE calls[d]
  BY <1>1 DEF SignInInv, CallsInv, CallsTyped
<1>10. CallsAreOfSteps'
  BY <1>1, <1>4, <1>9 DEF SignInInv, CallsInv, CallsAreOfSteps
<1>11. SignIn!OneBrowserRequest'
  <2>1. \A d \in Call : SignIn!Waits(d, "browser")' <=> d = c
    <3>1. w # None
      BY <1>4, WaitingIs
    <3>2. \A d \in Call : SignIn!Waits(d, "browser") => d = c
      BY <1>1 DEF SignInInv, CallsInv, SignIn!OneBrowserRequest
    <3> QED BY <1>4, <1>9, <3>1, <3>2 DEF SignIn!Waits
  <2> QED BY <1>1, <1>4, <1>6, <1>7, <1>9, <2>1 DEF SignIn!OneBrowserRequest
<1> QED BY <1>1, <1>3, <1>8, <1>10, <1>11
        DEF SignInInv, CallsInv, DialogTyped, CallbacksTyped, EventIsOfDialog

\* The error of a call goes into the step it was made at.
LEMMA ErrorShownIs ==
    ASSUME SignInInv, NEW c \in Call, calls[c] # None, SignIn!ErrorShown(c)
    PROVE  state' \in SignIn!Steps
<1>1. calls[c].from \in SignIn!Steps
  BY WaitingIs DEF SignInInv, CallsInv, CallsTyped
<1>2. PICK from \in SignIn!Steps : from = calls[c].from
  BY <1>1
<1>3. state' = [from EXCEPT !.error = TRUE, !.loading = FALSE]
  BY <1>2 DEF SignIn!ErrorShown
<1> QED BY <1>3, StepsAre

\* What the settling of a call leaves to be shown.
LEMMA SettledStep ==
    ASSUME SignInInv, NEW c \in Call, SignIn!Settled(c), calls[c].on # "browser",
           state' \in SignIn!Steps \cup {state, SignIn!Success},
           event' = None \/ (event' \in Endpoint /\ EventIsOfDialog),
           failed' \in {failed, TRUE}, UNCHANGED <<asks, oauthState, callbacks, misused>>
    PROVE  SignInInv' /\ EventIsOfDialog
<1>1. CallsInv'
  BY SettledKeeps DEF SignInInv, SignIn!Settled, SignIn!Waits
<1>2. failed' \in BOOLEAN
  BY DEF SignInInv, DialogTyped
<1> QED BY <1>1, <1>2 DEF SignInInv, DialogTyped, CallbacksTyped, EventIsOfDialog

LEMMA MetadataAnsweredStep ==
    ASSUME SignInInv, NEW c \in Call, SignIn!MetadataAnswered(c)
    PROVE  SignInInv' /\ EventIsOfDialog
<1>1. /\ calls[c] # None /\ calls[c].on = "metadata" /\ SignIn!Settled(c) /\ event' = None
      /\ UNCHANGED <<asks, oauthState, callbacks, misused, failed>>
      /\ \/ state' = state
         \/ \E basic \in BOOLEAN : state' = SignIn!Authentication(calls[c].endpoint, basic)
         \/ SignIn!ErrorShown(c)
  BY DEF SignIn!MetadataAnswered, SignIn!Waits, SignIn!Quiet
<1>2. calls[c].endpoint \in Endpoint
  BY <1>1, WaitingIs DEF SignInInv, CallsInv, CallsTyped
<1>3. \A basic \in BOOLEAN : SignIn!Authentication(calls[c].endpoint, basic) \in SignIn!Steps
  BY <1>2 DEF SignIn!Steps, SignIn!Authentication
<1>4. state' \in SignIn!Steps \cup {state}
  BY <1>1, <1>3, ErrorShownIs
<1> QED BY <1>1, <1>4, SettledStep

LEMMA RefusedStep ==
    ASSUME SignInInv, NEW c \in Call, SignIn!Refused(c)
    PROVE  SignInInv' /\ EventIsOfDialog
<1> DEFINE from == calls[c].from
<1>1. /\ calls[c] # None /\ calls[c].on = "authorization" /\ SignIn!Settled(c) /\ event' = None
      /\ UNCHANGED <<asks, oauthState, callbacks, misused, failed>>
      /\ \/ SignIn!ErrorShown(c)
         \/ state' = [from EXCEPT !.kind = "Authentication", !.basic = FALSE,
                        !.error = @ /\ from.kind = "Authentication", !.loading = FALSE]
         \/ state' = [from EXCEPT !.loading = FALSE]
         \/ state' = [from EXCEPT !.kind = "TwoFactorAuthentication", !.error = FALSE,
                                  !.loading = FALSE]
  BY DEF SignIn!Refused, SignIn!Waits, SignIn!Quiet
<1>2. from \in SignIn!Steps /\ from.kind # "EndpointEntry"
  BY <1>1, WaitingIs DEF SignInInv, CallsInv, CallsTyped, CallsAreOfSteps
<1> HIDE DEF from
<1>3. CASE SignIn!ErrorShown(c)
  BY <1>1, <1>3, ErrorShownIs, SettledStep
<1>4. CASE ~SignIn!ErrorShown(c)
  <2>1. state' \in SignIn!Steps
    BY <1>1, <1>2, <1>4, RefusalsAre
  <2> QED BY <1>1, <2>1, SettledStep
<1> QED BY <1>3, <1>4

LEMMA AbortedOrUnhandledStep ==
    ASSUME SignInInv, NEW c \in Call, SignIn!Aborted(c) \/ SignIn!Unhandled(c)
    PROVE  SignInInv' /\ EventIsOfDialog
<1>1. /\ calls[c].on # "browser" /\ SignIn!Settled(c) /\ event' = None
      /\ UNCHANGED <<state, asks, oauthState, callbacks, misused>>
      /\ failed' \in {failed, TRUE}
  BY DEF SignIn!Aborted, SignIn!Unhandled, SignIn!Waits, SignIn!Quiet
<1> QED BY <1>1, SettledStep

LEMMA AuthorizedStep ==
    ASSUME SignInInv, NEW c \in Call, SignIn!Authorized(c)
    PROVE  SignInInv' /\ EventIsOfDialog
<1> DEFINE w == [calls[c] EXCEPT !.on = "user"]
<1>1. /\ calls[c] # None /\ calls[c].on = "authorization" /\ event' = None
      /\ calls' = [calls EXCEPT ![c].on = "user"]
      /\ UNCHANGED <<state, asks, oauthState, callbacks, misused, failed>>
  BY DEF SignIn!Authorized, SignIn!Waits, SignIn!Quiet
<1>2. calls[c] \in SignIn!Waiting /\ calls[c].from.kind # "EndpointEntry"
  BY <1>1 DEF SignInInv, CallsInv, CallsTyped, CallsAreOfSteps
<1>3. w \in SignIn!Waiting /\ w.on = "user" /\ w.from = calls[c].from
  BY <1>2 DEF SignIn!Waiting
<1>4. calls' = [calls EXCEPT ![c] = w]
  BY <1>1
<1> HIDE DEF w
<1>5. CallsInv'
  BY <1>1, <1>2, <1>3, <1>4, WaitingKeeps DEF SignInInv, SignIn!Waits
<1> QED BY <1>1, <1>5 DEF SignInInv, DialogTyped, CallbacksTyped, EventIsOfDialog

\* The account of a call is added while the dialog is at the step the call was made at.
LEMMA UserFetchedStep ==
    ASSUME SignInInv, NEW c \in Call, SignIn!UserFetched(c)
    PROVE  SignInInv' /\ EventIsOfDialog
<1>1. /\ calls[c] # None /\ calls[c].on = "user" /\ SignIn!Settled(c)
      /\ state # None /\ state.kind = calls[c].from.kind
      /\ state' = SignIn!Success /\ event' = calls[c].endpoint
      /\ UNCHANGED <<asks, oauthState, callbacks, misused, failed>>
  BY DEF SignIn!UserFetched, SignIn!Waits, SignIn!AtStep
<1>2. calls[c] \in SignIn!Waiting /\ calls[c].from.kind # "EndpointEntry"
  BY <1>1 DEF SignInInv, CallsInv, CallsTyped, CallsAreOfSteps
<1>3. calls[c].endpoint \in Endpoint
      /\ calls[c].from.kind \in {"Authentication", "TwoFactorAuthentication"}
  <2>1. calls[c].endpoint \in Endpoint /\ calls[c].from \in SignIn!Steps
    BY <1>2, WaitingIs
  <2>2. calls[c].from.kind \in {"EndpointEntry", "Authentication", "TwoFactorAuthentication"}
    BY <2>1, StepsAre
  <2> QED BY <1>2, <2>1, <2>2
<1>4. EventIsOfDialog
  BY <1>1, <1>3 DEF EventIsOfDialog
<1> QED BY <1>1, <1>3, <1>4, SettledStep

-----------------------------------------------------------------------------

LEMMA BrowserReturnsStep ==
    ASSUME SignInInv, NEW b \in Callback, NEW id, SignIn!BrowserReturns(b, id)
    PROVE  SignInInv' /\ EventIsOfDialog
<1> DEFINE k == [pc |-> "token", redeemedAt |-> oauthState.endpoint,
                 fetchedFrom |-> oauthState.endpoint]
<1>1. /\ oauthState # None /\ callbacks' = [callbacks EXCEPT ![b] = k] /\ event' = None
      /\ UNCHANGED <<state, calls, asks, oauthState, misused, failed>>
  BY DEF SignIn!BrowserReturns, SignIn!Quiet
<1>2. oauthState.endpoint \in Endpoint
  BY <1>1 DEF SignInInv, CallsInv, CallsTyped, SignIn!Request
<1>3. k \in [pc : {"token", "user"}, redeemedAt : Endpoint, fetchedFrom : Endpoint]
  BY <1>2
<1> HIDE DEF k
<1>4. CallbacksTyped'
  BY <1>1, <1>3 DEF SignInInv, CallbacksTyped
<1> QED BY <1>1, <1>4, NoCallsChange DEF SignInInv, DialogTyped, EventIsOfDialog

\* Whatever the browser brings back settles the request that waits, or none.
LEMMA ResolveStep ==
    ASSUME SignInInv, CallbacksTyped', NEW e \in Endpoint, SignIn!Resolve(e),
           UNCHANGED <<asks, failed>>
    PROVE  SignInInv' /\ EventIsOfDialog
<1>1. CASE oauthState = None
  <2>1. /\ misused' = TRUE /\ event' = None /\ UNCHANGED <<state, calls, asks, oauthState, failed>>
    BY <1>1 DEF SignIn!Resolve, SignIn!Quiet
  <2>2. CallsInv' /\ misused' \in BOOLEAN
    BY <2>1, NoCallsChange DEF SignInInv
  <2> QED BY <2>1, <2>2 DEF SignInInv, DialogTyped, EventIsOfDialog
<1>2. CASE oauthState # None
  <2>1. /\ oauthState' = None /\ SignIn!Settled(oauthState.call) /\ UNCHANGED misused
        /\ \/ /\ state # None /\ state.kind = "Authentication"
              /\ state' = SignIn!Success /\ event' = e
           \/ event' = None /\ state' = state
    BY <1>2 DEF SignIn!Resolve, SignIn!Quiet, SignIn!AtStep
  <2>2. oauthState.call \in Call
    BY <1>2 DEF SignInInv, CallsInv, CallsTyped, SignIn!Request
  <2>3. CallsInv'
    BY <1>2, <2>1, <2>2, SettledKeeps DEF SignInInv, SignIn!Settled
  <2> QED BY <2>1, <2>3 DEF SignInInv, DialogTyped, EventIsOfDialog
<1> QED BY <1>1, <1>2

LEMMA RejectStep ==
    ASSUME SignInInv, CallbacksTyped', SignIn!Reject, UNCHANGED <<asks, failed>>
    PROVE  SignInInv' /\ EventIsOfDialog
<1>1. CASE oauthState = None
  <2>1. /\ misused' = TRUE /\ event' = None /\ UNCHANGED <<state, calls, asks, oauthState, failed>>
    BY <1>1 DEF SignIn!Reject, SignIn!Quiet
  <2>2. CallsInv' /\ misused' \in BOOLEAN
    BY <2>1, NoCallsChange DEF SignInInv
  <2> QED BY <2>1, <2>2 DEF SignInInv, DialogTyped, EventIsOfDialog
<1>2. CASE oauthState # None
  <2>1. /\ oauthState' = None /\ SignIn!Settled(oauthState.call) /\ UNCHANGED misused
        /\ event' = None /\ SignIn!ErrorShown(oauthState.call)
    BY <1>2 DEF SignIn!Reject, SignIn!Quiet
  <2>2. oauthState.call \in Call /\ calls[oauthState.call] # None
    BY <1>2 DEF SignInInv, CallsInv, CallsTyped, SignIn!Request, SignIn!OneBrowserRequest,
                SignIn!Waits
  <2>3. CallsInv' /\ state' \in SignIn!Steps
    BY <1>2, <2>1, <2>2, SettledKeeps, ErrorShownIs DEF SignInInv, SignIn!Settled
  <2> QED BY <2>1, <2>3 DEF SignInInv, DialogTyped, EventIsOfDialog
<1> QED BY <1>1, <1>2

LEMMA TokenAnsweredStep ==
    ASSUME SignInInv, NEW b \in Callback, SignIn!TokenAnswered(b)
    PROVE  SignInInv' /\ EventIsOfDialog
<1>1. CASE /\ oauthState # None
           /\ callbacks[b] # None
           /\ callbacks' = [callbacks EXCEPT ![b].pc = "user",
                                             ![b].fetchedFrom = oauthState.endpoint]
           /\ event' = None
           /\ UNCHANGED <<state, calls, asks, oauthState, misused, failed>>
  <2>1. oauthState.endpoint \in Endpoint
    BY <1>1 DEF SignInInv, CallsInv, CallsTyped, SignIn!Request
  <2>2. CallbacksTyped'
    BY <1>1, <2>1 DEF SignInInv, CallbacksTyped
  <2> QED BY <1>1, <2>2, NoCallsChange DEF SignInInv, DialogTyped, EventIsOfDialog
<1>2. CASE /\ SignIn!Reject /\ callbacks' = [callbacks EXCEPT ![b] = None]
           /\ UNCHANGED <<asks, failed>>
  <2>1. CallbacksTyped'
    BY <1>2 DEF SignInInv, CallbacksTyped
  <2> QED BY <1>2, <2>1, RejectStep
<1> QED BY <1>1, <1>2 DEF SignIn!TokenAnswered, SignIn!Quiet

LEMMA BrowserUserAnsweredStep ==
    ASSUME SignInInv, NEW b \in Callback, SignIn!BrowserUserAnswered(b)
    PROVE  SignInInv' /\ EventIsOfDialog
<1>1. /\ callbacks[b] # None /\ callbacks' = [callbacks EXCEPT ![b] = None]
      /\ UNCHANGED <<asks, failed>>
      /\ SignIn!Resolve(callbacks[b].fetchedFrom) \/ SignIn!Reject
  BY DEF SignIn!BrowserUserAnswered
<1>2. CallbacksTyped' /\ callbacks[b].fetchedFrom \in Endpoint
  BY <1>1 DEF SignInInv, CallbacksTyped
<1> QED BY <1>1, <1>2, ResolveStep, RejectStep

LEMMA SignInNext ==
    ASSUME SignInInv, [SignIn!Next]_(SignIn!vars)
    PROVE  SignInInv' /\ (SignIn!Next => EventIsOfDialog)
<1>1. ASSUME SignIn!User PROVE SignInInv' /\ EventIsOfDialog
  BY <1>1, DialogSteps, SetEndpointStep, SendCredentialsStep, AuthenticateWithBrowserStep,
     BrowserReturnsStep DEF SignIn!User
<1>2. ASSUME NEW c \in Call, SignIn!Answered(c) PROVE SignInInv' /\ EventIsOfDialog
  BY <1>2, MetadataAnsweredStep, RefusedStep, AbortedOrUnhandledStep, AuthorizedStep,
     UserFetchedStep DEF SignIn!Answered
<1>3. ASSUME NEW b \in Callback, SignIn!TokenAnswered(b) \/ SignIn!BrowserUserAnswered(b)
      PROVE  SignInInv' /\ EventIsOfDialog
  BY <1>3, TokenAnsweredStep, BrowserUserAnsweredStep
<1>4. CASE UNCHANGED SignIn!vars
  <2>1. UNCHANGED <<state, calls, asks, oauthState, callbacks, event, misused, failed>>
    BY <1>4 DEF SignIn!vars
  <2>2. CallsInv'
    BY <2>1, NoCallsChange DEF SignInInv
  <2>3. DialogTyped' /\ CallbacksTyped'
    BY <2>1 DEF SignInInv, DialogTyped, CallbacksTyped
  <2>4. SignIn!Next => SignInInv' /\ EventIsOfDialog
    BY <1>1, <1>2, <1>3 DEF SignIn!Next
  <2> QED BY <2>2, <2>3, <2>4 DEF SignInInv
<1>5. SignIn!Next => SignInInv' /\ EventIsOfDialog
  BY <1>1, <1>2, <1>3 DEF SignIn!Next
<1> QED BY <1>4, <1>5

-----------------------------------------------------------------------------
(* The theorems.                                                                    *)

\* What each step of either store keeps.
EitherInv == EmissionInv /\ TableInv /\ SignInInv

LEMMA EitherBegins ==
    EitherInit => EitherInv
BY EmissionBegins, TableBegins, SignInBegins DEF EitherInit, EitherInv

\* The part that rests changes nothing of what the other one keeps.
LEMMA EitherStep ==
    ASSUME EitherInv, [EitherNext]_<<part, vars, signInVars>>
    PROVE  /\ EitherInv' /\ [Updates!UpdateNext]_(Updates!updateVars)
           /\ [EventIsOfDialog]_(SignIn!vars)
<1>1. UNCHANGED signInVars <=> UNCHANGED SignIn!vars
  BY DEF signInVars, SignIn!vars
<1>2. [Next]_vars /\ [SignIn!Next]_(SignIn!vars)
  BY <1>1 DEF EitherNext
<1>3. EmissionInv' /\ TableInv' /\ [Updates!UpdateNext]_(Updates!updateVars)
  BY <1>2, EmissionNext, StepsMap DEF EitherInv
<1>4. SignInInv' /\ [EventIsOfDialog]_(SignIn!vars)
  BY <1>2, SignInNext DEF EitherInv
<1> QED BY <1>3, <1>4 DEF EitherInv

\* The types of both stores: the rows of the table and what was read of it, the
\* transactions within their bound, the step of the dialog, the calls that wait with
\* the step they were made at; and a browser request waits just for its call.
THEOREM SignInAndRepositoriesTypes == EitherSpec => []BothTypeOK
<1>1. EitherInv => BothTypeOK
  <2> SUFFICES ASSUME EitherInv PROVE BothTypeOK
    OBVIOUS
  <2>1. /\ Len(created) + Len(completed) <= MaxTransactions + 1
    BY LenProperties, StoreFacts DEF EitherInv, EmissionInv, Typed, TableInv, WithinBound
  <2>2. TypeOK
    BY <2>1 DEF EitherInv, EmissionInv, Typed, TableInv, TableTyped, TypeOK, Transaction
  <2>3. oauthState # None => calls[oauthState.call] # None
    BY DEF EitherInv, SignInInv, CallsInv, CallsTyped, SignIn!Request,
           SignIn!OneBrowserRequest, SignIn!Waits
  <2>4. SignIn!TypeOK
    BY <2>3 DEF EitherInv, SignInInv, CallsInv, CallsTyped, DialogTyped, CallbacksTyped,
                SignIn!TypeOK
  <2> QED BY <2>2, <2>4 DEF EitherInv, SignInInv, CallsInv, BothTypeOK
<1> QED
  BY <1>1, EitherBegins, EitherStep, PTL DEF EitherSpec

\* emitUpdatedRepositories drops no update: when nothing is queued and no write is in
\* flight the subscriber holds the table as it is, although a write that finds
\* emitQueued set asks for nothing.
THEOREM NothingIsLost == EitherSpec => []NoUpdateLost
<1>1. EitherInv => NoUpdateLost
  BY EmptyQueue DEF EitherInv, EmissionInv, QueuedIsRead, Covered, NoUpdateLost, InFlight
<1> QED
  BY <1>1, EitherBegins, EitherStep, PTL DEF EitherSpec

\* The repositories store implements RepositoryUpdates: a change of the table that is
\* committed has not been seen, the getAll of an emission reads all changes before it,
\* and what it read is what the subscriber is given.
THEOREM UpdatesFollow == EitherSpec => Updates!UpdateSpec
<1>1. EitherInit => Updates!UpdateInit
  BY UpdatesBegin DEF EitherInit
<1> QED
  BY <1>1, EitherBegins, EitherStep, PTL DEF EitherSpec, Updates!UpdateSpec

\* The sign-in store emits an account while its dialog waits for credentials, and never
\* else: an answer that comes after the dialog was closed adds no account.
THEOREM AccountsAreAskedFor == EitherSpec => NoAccountWithoutDialog
<1>1. [EventIsOfDialog]_(SignIn!vars)
      => [event' # None => state # None /\ state' = SignIn!Success /\
             state.kind \in {"Authentication", "TwoFactorAuthentication"}]_(SignIn!vars)
  BY DEF EventIsOfDialog
<1> QED
  BY <1>1, EitherBegins, EitherStep, PTL
     DEF EitherSpec, NoAccountWithoutDialog, SignIn!NoAccountWithoutDialog
=============================================================================
