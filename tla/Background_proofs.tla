------------------------- MODULE Background_proofs -------------------------
(***************************************************************************)
(* What holds of the background work for any number of repositories, calls, *)
(* fetchers, branches and pruners. MCBackground has the selection with its  *)
(* fetcher and the pruner side by side, and each has an invariant of its    *)
(* own. That of the selection says which call is going to begin what the    *)
(* selection does not have yet, and which emission is going to bring what   *)
(* it does not agree with. That of the pruner says what is still so of the  *)
(* branches a run has found, unless somebody has used them since.           *)
(***************************************************************************)
EXTENDS MCBackground, FiniteSetTheorems, TLAPS

\* The settled selection has its fetcher, or a call is going to begin one.
FetcherIsDue ==
    IsRepository(selectedRepository)
    /\ selectedRepository.row = [missing |-> FALSE, gitHub |-> TRUE] =>
       \/ currentBackgroundFetcher # None
       \/ \E c \in Call : call[c] # None /\ call[c].object = selectedRepository

\* While no change waits to be read, an emission under way has read the last one,
\* and AppStore has it when there is none under way, unless that failed.
EmissionIsLast ==
    ~ unseen =>
       /\ snapshot # None => snapshot = db
       /\ snapshot = None /\ ~ missed =>
             /\ repositories = db
             /\ IsRepository(selectedRepository) =>
                   selectedRepository.row = db[selectedRepository.id]

SelectionInv ==
    TypeOK /\ FetcherOfSelection /\ UpdaterFollowsFocus /\ FetcherIsDue /\ EmissionIsLast

LEMMA SelectionFacts ==
    /\ IsFiniteSet(Call) /\ MaxChanges \in Nat /\ MaxID \in Nat \ {0} /\ InitialRow \subseteq Row
    /\ Cloning \notin Object /\ Cloning # None
    /\ None \notin ID /\ None \notin Row /\ None \notin Table /\ None \notin Object
    /\ None \notin CallState /\ None \notin Fetcher /\ None \notin FetcherState
BY SelectionAssumption, MaxIDAssumption

LEMMA UnionBound ==
    ASSUME NEW S, IsFiniteSet(S), NEW T, IsFiniteSet(T)
    PROVE  IsFiniteSet(S \cup T) /\ Cardinality(S \cup T) <= Cardinality(S) + Cardinality(T)
<1>1. Cardinality(S) \in Nat /\ Cardinality(T) \in Nat
  BY FS_CardinalityType
<1>2. IsFiniteSet(S \cap T)
  BY FS_Subset
<1>3. Cardinality(S \cap T) \in Nat
  BY <1>2, FS_CardinalityType
<1>4. IsFiniteSet(S \cup T)
      /\ Cardinality(S \cup T) = Cardinality(S) + Cardinality(T) - Cardinality(S \cap T)
  BY FS_Union
<1> QED BY <1>1, <1>3, <1>4

\* There is always a token that no object held has.
LEMMA FreshTokens ==
    ASSUME TypeOK, NEW taken, IsFiniteSet(taken), Cardinality(taken) <= 1
    PROVE  FreshToken(taken) \in Token /\ FreshToken(taken) \notin Used \cup taken
<1> DEFINE called == {c \in Call : call[c] # None}
           tokens == {call[c].object.token : c \in called}
           given == [c \in called |-> call[c].object.token]
           held == tokens \cup {selectedRepository.token}
<1>1. IsFiniteSet(called) /\ Cardinality(called) <= Cardinality(Call)
      /\ Cardinality(Call) \in Nat /\ Cardinality(called) \in Nat
  BY SelectionFacts, FS_Subset, FS_CardinalityType
<1>2. IsFiniteSet(tokens) /\ Cardinality(tokens) <= Cardinality(called)
  <2>1. given \in Surjection(called, tokens)
    BY DEF Surjection
  <2> QED BY <1>1, <2>1, FS_Surjection DEF ExistsSurjection
<1>3. IsFiniteSet(held) /\ Cardinality(held) <= Cardinality(Call) + 1
  <2>1. IsFiniteSet({selectedRepository.token}) /\ Cardinality({selectedRepository.token}) = 1
    BY FS_Singleton
  <2>2. Cardinality(tokens) \in Nat /\ Cardinality(held) \in Nat /\ IsFiniteSet(held)
        /\ Cardinality(held) <= Cardinality(tokens) + 1
    <3> HIDE DEF tokens
    <3>1. IsFiniteSet(held) /\ Cardinality(held) <= Cardinality(tokens) + 1
      BY <1>2, <2>1, UnionBound
    <3> QED BY <1>2, <3>1, FS_CardinalityType
  <2> HIDE DEF tokens, called, held
  <2> QED BY <1>1, <1>2, <2>2
<1>4. Used \subseteq held
  BY DEF Used
<1>5. IsFiniteSet(Used) /\ Cardinality(Used) <= Cardinality(Call) + 1
      /\ Cardinality(Used) \in Nat /\ Cardinality(held) \in Nat
  BY <1>1, <1>3, <1>4, FS_Subset, FS_CardinalityType
<1>6. IsFiniteSet(Used \cup taken) /\ Cardinality(Used \cup taken) <= Cardinality(Call) + 2
  <2>1. Cardinality(taken) \in Nat /\ IsFiniteSet(Used \cup taken)
        /\ Cardinality(Used \cup taken) <= Cardinality(Used) + Cardinality(taken)
    BY <1>5, FS_CardinalityType, UnionBound
  <2>2. Cardinality(Used \cup taken) \in Nat
    BY <2>1, FS_CardinalityType
  <2> QED BY <1>1, <1>5, <2>1, <2>2
<1>7. IsFiniteSet(Token) /\ Cardinality(Token) = Cardinality(Call) + 3
  <2> DEFINE n == Cardinality(Call) + 2
  <2>1. 0 \in Int /\ n \in Int /\ ~ 0 > n /\ n - 0 + 1 = Cardinality(Call) + 3
    BY <1>1
  <2> HIDE DEF n
  <2>2. IsFiniteSet(0 .. n) /\ Cardinality(0 .. n) = n - 0 + 1
    BY <2>1, FS_Interval
  <2> QED BY <2>1, <2>2 DEF Token, n
<1>8. ~ (Token \subseteq Used \cup taken)
  BY <1>1, <1>6, <1>7, FS_Subset, FS_CardinalityType
<1> QED BY <1>8 DEF FreshToken

LEMMA SelectionInit == Init => SelectionInv
<1> SUFFICES ASSUME Init PROVE SelectionInv
  OBVIOUS
<1>1. UpdateTypeOK /\ repositories = db /\ unseen = FALSE /\ snapshot = None
  BY SelectionFacts DEF Init, UpdateInit, UpdateTypeOK
<1>2. listToken \in Token /\ changes \in 0 .. MaxChanges
  BY SelectionFacts, FS_CardinalityType DEF Init, Token
<1>3. TypeOK
  BY <1>1, <1>2 DEF Init, TypeOK
<1> QED
  BY <1>1, <1>3 DEF Init, SelectionInv, FetcherOfSelection, UpdaterFollowsFocus, FetcherIsDue,
     EmissionIsLast, IsRepository

\* No fetcher works for a selection once the current one was stopped.
LEMMA StoppedFetchers ==
    ASSUME SelectionInv
    PROVE  /\ FetcherStopped \in [Fetcher -> FetcherState \cup {None}]
           /\ \A f \in Fetcher : FetcherStopped[f] # None => FetcherStopped[f].stopped
           /\ \A f \in Fetcher : FetcherStopped[f] # None =>
                 fetcher[f] # None /\ FetcherStopped[f].pc = fetcher[f].pc
<1>1. CASE currentBackgroundFetcher = None
  BY <1>1, SelectionFacts DEF FetcherStopped, SelectionInv, TypeOK, FetcherOfSelection
<1>2. CASE currentBackgroundFetcher # None
  <2> DEFINE g == currentBackgroundFetcher
             new == IF fetcher[g].pc = "timer" THEN None ELSE [fetcher[g] EXCEPT !.stopped = TRUE]
  <2>1. g \in Fetcher /\ fetcher[g] # None /\ fetcher[g] \in FetcherState
    BY <1>2 DEF SelectionInv, TypeOK, FetcherOfSelection
  <2>2. FetcherStopped = [fetcher EXCEPT ![g] = new]
    BY <1>2 DEF FetcherStopped
  <2>3. new \in FetcherState \cup {None} /\ (new # None => new.stopped /\ new.pc = fetcher[g].pc)
    BY <2>1 DEF FetcherState
  <2> HIDE DEF new
  <2> QED BY <2>1, <2>2, <2>3 DEF SelectionInv, TypeOK, FetcherOfSelection
<1> QED BY <1>1, <1>2

\* A repository is selected that there is an object for, or none is.
LEMMA SelectStep ==
    ASSUME SelectionInv, NEW c \in Call, NEW r \in Object \cup {Cloning, None},
           SelectRepository(c, r), UpdateTypeOK', listToken' \in Token,
           missed' \in BOOLEAN, UNCHANGED <<appIsFocused, changes>>, EmissionIsLast'
    PROVE  SelectionInv'
<1>1. /\ selectedRepository' = r /\ fetcher' = FetcherStopped
      /\ currentBackgroundFetcher' = None /\ currentBranchPruner' = None
      /\ pullRequestUpdater' = None
  BY DEF SelectRepository
<1> DEFINE new == [object |-> r, skew |-> selectedRepository = None]
<1>2. CASE IsRepository(r)
  <2>1. /\ call' = [call EXCEPT ![c] = new] /\ lastSelectedID' = r.id
        /\ r \in Object /\ new \in CallState /\ new.object = r
    BY <1>2 DEF SelectRepository, IsRepository, CallState
  <2>2. call' \in [Call -> CallState \cup {None}] /\ call'[c] = new /\ new # None
    BY <2>1, SelectionFacts DEF SelectionInv, TypeOK
  <2>3. r.id \in ID
    BY <2>1 DEF Object
  <2> HIDE DEF new
  <2>4. TypeOK'
    BY <1>1, <2>1, <2>2, <2>3, StoppedFetchers DEF SelectionInv, TypeOK
  <2> QED
    BY <1>1, <2>1, <2>2, <2>4, StoppedFetchers, SelectionFacts DEF SelectionInv, TypeOK,
       FetcherOfSelection, UpdaterFollowsFocus, FetcherIsDue
<1>3. CASE ~ IsRepository(r)
  <2>1. UNCHANGED <<call, lastSelectedID>>
    BY <1>3 DEF SelectRepository
  <2>2. TypeOK'
    BY <1>1, <2>1, StoppedFetchers DEF SelectionInv, TypeOK
  <2> QED
    BY <1>1, <1>3, <2>1, <2>2, StoppedFetchers, SelectionFacts DEF SelectionInv, TypeOK,
       FetcherOfSelection, UpdaterFollowsFocus, FetcherIsDue, IsRepository
<1> QED BY <1>2, <1>3

\* What is selected after an emission is a row of it.
LEMMA ReselectedIsListed ==
    ASSUME NEW table \in Table, NEW t \in Token
    PROVE  /\ Reselected(table, t) \in Object \cup {None}
           /\ Reselected(table, t) # None
                  => Reselected(table, t).row = table[Reselected(table, t).id]
<1> DEFINE kept == IF IsRepository(selectedRepository)
                     THEN Rows(table) \cap {selectedRepository.id} ELSE {}
           last == Rows(table) \cap {lastSelectedID}
           first == {i \in Rows(table) : \A j \in Rows(table) : i <= j}
           candidates == IF kept # {} THEN kept ELSE IF last # {} THEN last ELSE first
           chosen == CHOOSE i \in candidates : TRUE
<1>1. Reselected(table, t) = IF candidates = {} THEN None ELSE Listed(table, chosen, t)
  BY DEF Reselected
<1>2. candidates \subseteq Rows(table)
  OBVIOUS
<1>3. CASE candidates # {}
  <2>1. chosen \in candidates
    BY <1>3
  <2>2. chosen \in ID /\ table[chosen] \in Row
    BY <1>2, <2>1 DEF Rows, Table
  <2>3. Listed(table, chosen, t) \in Object /\ Listed(table, chosen, t).row = table[chosen]
        /\ Listed(table, chosen, t).id = chosen
    BY <2>2 DEF Listed, Object
  <2> HIDE DEF chosen, candidates
  <2> QED BY <1>1, <1>3, <2>3
<1> QED BY <1>1, <1>3

\* The database is written: the emission that is then due will read it.
LEMMA WriteTypes ==
    ASSUME UpdateTypeOK, Write \/ (\E i \in ID, missing \in BOOLEAN : SetMissing(i, missing))
    PROVE  UpdateTypeOK' /\ unseen' /\ UNCHANGED <<snapshot, repositories>>
<1>1. ASSUME NEW missing \in BOOLEAN, nextID <= MaxID, nextID' = nextID + 1,
             Change([db EXCEPT ![nextID] = [missing |-> missing, gitHub |-> FALSE]])
      PROVE  UpdateTypeOK' /\ unseen' /\ UNCHANGED <<snapshot, repositories>>
  <2>1. [missing |-> missing, gitHub |-> FALSE] \in Row
    BY DEF Row
  <2>2. nextID' \in 1 .. MaxID + 1 /\ nextID \in ID
    BY <1>1, SelectionFacts DEF UpdateTypeOK, ID
  <2>3. db' \in Table
    BY <1>1, <2>1, <2>2 DEF Change, UpdateTypeOK, Table
  <2> QED BY <1>1, <2>2, <2>3 DEF Change, UpdateTypeOK
<1>2. CASE Change(db) /\ UNCHANGED nextID
  BY <1>2 DEF Change, UpdateTypeOK
<1>3. ASSUME NEW i \in ID, Remove(i)
      PROVE  UpdateTypeOK' /\ unseen' /\ UNCHANGED <<snapshot, repositories>>
  BY <1>3 DEF Remove, Change, UpdateTypeOK, Table
<1>4. ASSUME NEW i \in ID, Associate(i) \/ \E missing \in BOOLEAN : SetMissing(i, missing)
      PROVE  UpdateTypeOK' /\ unseen' /\ UNCHANGED <<snapshot, repositories>>
  <2>1. \A r \in Row : /\ [r EXCEPT !.gitHub = TRUE] \in Row
                       /\ \A missing \in BOOLEAN : [r EXCEPT !.missing = missing] \in Row
    BY DEF Row
  <2>2. PICK row \in Row \cup {None} : db' = IF db[i] = None THEN db ELSE [db EXCEPT ![i] = row]
    BY <1>4, <2>1 DEF Associate, SetMissing, Change, UpdateTypeOK, Table
  <2>3. db' \in Table
    BY <2>2 DEF UpdateTypeOK, Table
  <2> QED BY <1>4, <2>3 DEF Associate, SetMissing, Change, UpdateTypeOK
<1> QED BY <1>1, <1>2, <1>3, <1>4 DEF Write, Add

\* An emission: what is not selected anew has not changed.
LEMMA EmissionStep ==
    ASSUME SelectionInv, NEW c \in Call, Emission(c)
    PROVE  SelectionInv'
<1> DEFINE r == Reselected(snapshot, listToken')
<1>1. /\ snapshot \in Table /\ snapshot # None /\ repositories' = snapshot /\ snapshot' = None
      /\ UNCHANGED <<db, nextID, unseen>>
  BY DEF Emission, Emit, SelectionInv, TypeOK, UpdateTypeOK
<1>2. UpdateTypeOK'
  BY <1>1 DEF SelectionInv, TypeOK, UpdateTypeOK
<1>3. listToken' \in Token
  <2>1. IsFiniteSet({}) /\ Cardinality({}) <= 1
    BY FS_EmptySet
  <2>2. TypeOK
    BY DEF SelectionInv
  <2> QED BY <2>1, <2>2, FreshTokens DEF Emission
<1>4. /\ r \in Object \cup {None}
      /\ r # None => r.row = snapshot[r.id]
  BY <1>1, <1>3, ReselectedIsListed
<1>5. CASE HashOf(r) # HashOf(selectedRepository)
  <2>1. SelectRepository(c, r) /\ selectedRepository' = r
    BY <1>5 DEF Emission, SelectRepository
  <2>2. EmissionIsLast'
    BY <1>1, <1>4, <2>1 DEF EmissionIsLast, SelectionInv, IsRepository
  <2> HIDE DEF r
  <2> QED BY <1>2, <1>3, <1>4, <2>1, <2>2, SelectStep DEF Emission
<1>6. CASE HashOf(r) = HashOf(selectedRepository)
  <2>1. /\ UNCHANGED <<selectedRepository, lastSelectedID, call, taskVars, appIsFocused, changes>>
        /\ missed' = FALSE
    BY <1>6 DEF Emission
  <2>2. IsRepository(selectedRepository) => selectedRepository.row = snapshot[selectedRepository.id]
    <3> HIDE DEF r
    <3> SUFFICES ASSUME IsRepository(selectedRepository)
                 PROVE  selectedRepository.row = snapshot[selectedRepository.id]
      OBVIOUS
    <3>1. HashOf(r) = <<selectedRepository.id, selectedRepository.row>>
      BY <1>6 DEF HashOf
    <3>2. r # None
      <4> SUFFICES ASSUME r = None PROVE FALSE
        OBVIOUS
      <4>1. <<None>> = <<selectedRepository.id, selectedRepository.row>>
        BY <3>1 DEF HashOf, IsRepository
      <4> QED BY <4>1
    <3>3. <<r.id, r.row>> = <<selectedRepository.id, selectedRepository.row>>
      BY <1>4, <3>1, <3>2, SelectionFacts DEF HashOf, IsRepository
    <3> QED BY <1>4, <3>2, <3>3
  <2>3. EmissionIsLast'
    BY <1>1, <2>1, <2>2 DEF EmissionIsLast, SelectionInv, IsRepository
  <2> QED
    BY <1>2, <1>3, <2>1, <2>3 DEF SelectionInv, TypeOK, FetcherOfSelection, UpdaterFollowsFocus,
       FetcherIsDue, taskVars, IsRepository
<1> QED BY <1>5, <1>6

\* A repository is selected between emissions.
LEMMA SelectedStep ==
    ASSUME SelectionInv, NEW c \in Call,
           \/ Load(c) \/ \E i \in ID : UserSelects(c, i) \/ SelectHanded(c, i)
           \/ SelectRepository(c, Cloning)
                /\ UNCHANGED <<updateVars, listToken, appIsFocused, missed, changes>>
    PROVE  SelectionInv'
<1> DEFINE Shown(r) == /\ r \in Object \cup {Cloning, None}
                       /\ ~ unseen /\ snapshot = None /\ ~ missed /\ IsRepository(r) => r.row = db[r.id]
<1>1. UpdateTypeOK /\ listToken \in Token /\ TypeOK
  BY DEF SelectionInv, TypeOK
<1>2. UNCHANGED <<updateVars, listToken, appIsFocused, missed, changes>>
  BY DEF Load, UserSelects, SelectHanded
<1>3. \A table \in Table, i \in ID, t \in Token : table[i] # None =>
         /\ Listed(table, i, t) \in Object
         /\ Listed(table, i, t).row = table[i] /\ Listed(table, i, t).id = i
  BY DEF Table, Listed, Object
<1>4. \E r : SelectRepository(c, r) /\ Shown(r)
  <2>1. CASE Load(c)
    <3> DEFINE r == Reselected(repositories, listToken)
    <3>1. SelectRepository(c, r)
      BY <2>1 DEF Load
    <3>2. /\ r \in Object \cup {None}
          /\ r # None => r.row = repositories[r.id]
      BY <1>1, ReselectedIsListed DEF UpdateTypeOK
    <3> HIDE DEF r
    <3> QED BY <3>1, <3>2 DEF SelectionInv, EmissionIsLast, IsRepository
  <2>2. ASSUME NEW i \in ID, UserSelects(c, i) PROVE \E r : SelectRepository(c, r) /\ Shown(r)
    <3>1. Shown(Listed(repositories, i, listToken))
      BY <1>1, <1>3, <2>2 DEF UserSelects, SelectionInv, EmissionIsLast, UpdateTypeOK
    <3> QED BY <2>2, <3>1 DEF UserSelects
  <2>3. ASSUME NEW i \in ID, SelectHanded(c, i) PROVE \E r : SelectRepository(c, r) /\ Shown(r)
    <3>1. FreshToken({listToken}) \in Token
      <4>1. IsFiniteSet({listToken}) /\ Cardinality({listToken}) = 1
        BY FS_Singleton
      <4> QED BY <1>1, <4>1, FreshTokens
    <3>2. Shown(Listed(db, i, FreshToken({listToken})))
      BY <1>1, <1>3, <2>3, <3>1 DEF SelectHanded, UpdateTypeOK
    <3> QED BY <2>3, <3>2 DEF SelectHanded
  <2>4. CASE SelectRepository(c, Cloning)
    BY <2>4 DEF IsRepository
  <2> QED BY <2>1, <2>2, <2>3, <2>4
<1>5. PICK r : SelectRepository(c, r) /\ Shown(r)
  BY <1>4
<1>6. selectedRepository' = r
  BY <1>5 DEF SelectRepository
<1>7. UpdateTypeOK' /\ listToken' \in Token /\ missed' \in BOOLEAN
  BY <1>1, <1>2 DEF TypeOK, UpdateTypeOK, updateVars
<1>8. EmissionIsLast'
  BY <1>2, <1>5, <1>6 DEF EmissionIsLast, SelectionInv, updateVars, IsRepository
<1> QED BY <1>2, <1>5, <1>7, <1>8, SelectStep

\* A call of _selectRepository goes on: it ends, or it begins the background work.
LEMMA CallContinues ==
    ASSUME SelectionInv, NEW c \in Call, Continue(c)
    PROVE  SelectionInv'
<1>1. /\ call[c] # None /\ call[c] \in CallState /\ call[c].object \in Object
      /\ call[c].object.row \in Row /\ call[c].object.id \in ID /\ call[c].skew \in BOOLEAN
  BY DEF Continue, Recovered, RefreshTasks, SelectionInv, TypeOK, CallState, Object
<1>2. call' = [call EXCEPT ![c] = None] /\ call' \in [Call -> CallState \cup {None}]
      /\ UNCHANGED <<listToken, selectedRepository, lastSelectedID, appIsFocused, missed>>
  BY DEF Continue, Recovered, RefreshTasks, SelectionInv, TypeOK
<1>3. \A k \in Call : k # c => call'[k] = call[k]
  BY <1>2 DEF SelectionInv, TypeOK
<1>4. CASE Recovered(c)
  <2>1. UNCHANGED taskVars /\ call[c].object.row.missing
    BY <1>4 DEF Recovered
  <2>2. UpdateTypeOK' /\ changes' \in 0 .. MaxChanges /\ EmissionIsLast'
    <3>1. CASE UNCHANGED <<updateVars, changes>>
      BY <1>2, <3>1 DEF updateVars, SelectionInv, TypeOK, UpdateTypeOK, EmissionIsLast
    <3>2. CASE Counted /\ SetMissing(call[c].object.id, FALSE)
      <4>1. UpdateTypeOK' /\ unseen'
        BY <1>1, <3>2, WriteTypes DEF SelectionInv, TypeOK
      <4> QED BY <3>2, <4>1, SelectionFacts DEF Counted, EmissionIsLast, SelectionInv, TypeOK
    <3> QED BY <1>4, <3>1, <3>2 DEF Recovered
  <2>3. TypeOK' /\ FetcherOfSelection' /\ UpdaterFollowsFocus'
    BY <1>2, <2>1, <2>2 DEF SelectionInv, TypeOK, FetcherOfSelection, UpdaterFollowsFocus,
       taskVars
  <2>4. FetcherIsDue'
    BY <1>2, <1>3, <2>1 DEF SelectionInv, FetcherIsDue, taskVars
  <2> QED BY <2>2, <2>3, <2>4 DEF SelectionInv
<1>5. CASE RefreshTasks(c) /\ selectedRepository # call[c].object
  <2>1. UNCHANGED <<updateVars, taskVars, changes>>
    BY <1>5 DEF RefreshTasks
  <2> QED
    BY <1>2, <1>3, <1>5, <2>1 DEF SelectionInv, TypeOK, UpdateTypeOK, FetcherOfSelection,
       UpdaterFollowsFocus, FetcherIsDue, EmissionIsLast, taskVars, updateVars
<1>6. CASE RefreshTasks(c) /\ selectedRepository = call[c].object
  <2> DEFINE r == call[c].object
  <2>1. /\ StartTasks(r, call[c].skew, FetcherStopped) /\ ~ r.row.missing
        /\ UNCHANGED <<updateVars, changes>>
    BY <1>6 DEF RefreshTasks
  <2>2. IsRepository(r) /\ r = selectedRepository
    BY <1>1, <1>6, SelectionFacts DEF IsRepository
  <2>3. /\ currentBranchPruner' = r.id
        /\ pullRequestUpdater' = IF appIsFocused /\ r.row.gitHub THEN r.id ELSE None
    BY <2>1 DEF StartTasks
  <2>4. UpdateTypeOK' /\ EmissionIsLast' /\ UpdaterFollowsFocus'
    BY <1>2, <2>1, <2>2, <2>3 DEF SelectionInv, TypeOK, UpdateTypeOK, EmissionIsLast,
       UpdaterFollowsFocus, updateVars
  <2>5. CASE r.row.gitHub
    <3>1. PICK f \in Fetcher :
             /\ FetcherStopped[f] = None
             /\ fetcher' = [FetcherStopped EXCEPT ![f] =
                              [id |-> r.id, stopped |-> FALSE,
                               pc |-> IF call[c].skew THEN "timer" ELSE "should"]]
             /\ currentBackgroundFetcher' = f
      BY <2>1, <2>5 DEF StartTasks
    <3> DEFINE new == [id |-> r.id, stopped |-> FALSE,
                       pc |-> IF call[c].skew THEN "timer" ELSE "should"]
    <3>2. new \in FetcherState /\ ~ new.stopped /\ new.id = r.id
      BY <1>1 DEF FetcherState
    <3>3. fetcher' = [FetcherStopped EXCEPT ![f] = new]
      BY <3>1
    <3> HIDE DEF new
    <3>4. /\ fetcher' \in [Fetcher -> FetcherState \cup {None}] /\ fetcher'[f] = new
          /\ \A g \in Fetcher : g # f /\ fetcher'[g] # None => fetcher'[g].stopped
      BY <3>2, <3>3, StoppedFetchers
    <3>5. r.row = [missing |-> FALSE, gitHub |-> TRUE] /\ new # None /\ f # None
      BY <1>1, <2>1, <2>5, <3>2, SelectionFacts DEF Row
    <3>6. TypeOK'
      BY <1>1, <1>2, <2>1, <2>3, <2>4, <3>1, <3>4 DEF SelectionInv, TypeOK
    <3>7. FetcherOfSelection' /\ FetcherIsDue'
      BY <1>2, <2>2, <3>1, <3>2, <3>4, <3>5 DEF FetcherOfSelection, FetcherIsDue
    <3> QED BY <2>4, <3>6, <3>7 DEF SelectionInv
  <2>6. CASE ~ r.row.gitHub
    <3>1. fetcher' = FetcherStopped /\ currentBackgroundFetcher' = None
      BY <2>1, <2>6 DEF StartTasks
    <3>2. TypeOK'
      BY <1>1, <1>2, <2>1, <2>3, <2>4, <3>1, StoppedFetchers DEF SelectionInv, TypeOK
    <3>3. FetcherOfSelection' /\ FetcherIsDue'
      BY <1>2, <2>2, <2>6, <3>1, StoppedFetchers, SelectionFacts DEF FetcherOfSelection,
         FetcherIsDue
    <3> QED BY <2>4, <3>2, <3>3 DEF SelectionInv
  <2> QED BY <2>5, <2>6
<1> QED BY <1>4, <1>5, <1>6 DEF Continue

\* A fetcher goes on, and ends only when it was stopped.
LEMMA FetcherSteps ==
    ASSUME SelectionInv, NEW f \in Fetcher, FetcherStep(f)
    PROVE  /\ SelectionInv'
           /\ fetcher'[f] # None => fetcher'[f].id = fetcher[f].id
           /\ \A g \in Fetcher : g # f => fetcher'[g] = fetcher[g]
           /\ At(f, "should") /\ At(f, "fetch")' => ~ fetcher[f].stopped
<1>1. fetcher[f] \in FetcherState /\ fetcher[f] # None
  BY DEF FetcherStep, TimerFires, ShouldFetchAnswered, FetchDone, IntervalKnown, At,
     SelectionInv, TypeOK
<1>2. PICK next \in FetcherState \cup {None} :
         /\ FetcherMoves(f, next)
         /\ next = None => fetcher[f].stopped
         /\ next # None => next.stopped = fetcher[f].stopped /\ next.id = fetcher[f].id
         /\ At(f, "should") /\ next # None => ~ fetcher[f].stopped
  <2>1. ASSUME NEW pc \in {"timer", "should", "fetch", "poll"}
        PROVE  LET next == [fetcher[f] EXCEPT !.pc = pc]
               IN  /\ next \in FetcherState
                   /\ next.stopped = fetcher[f].stopped /\ next.id = fetcher[f].id
    BY <1>1 DEF FetcherState
  <2>2. CASE TimerFires(f)
    BY <2>1, <2>2, SelectionFacts DEF TimerFires, At
  <2>3. CASE ShouldFetchAnswered(f)
    BY <2>1, <2>3, SelectionFacts DEF ShouldFetchAnswered, At
  <2>4. CASE FetchDone(f) \/ IntervalKnown(f)
    BY <2>1, <2>4, SelectionFacts DEF FetchDone, IntervalKnown, At
  <2> QED BY <2>2, <2>3, <2>4 DEF FetcherStep
<1>3. /\ fetcher' \in [Fetcher -> FetcherState \cup {None}]
      /\ fetcher'[f] = next /\ \A g \in Fetcher : g # f => fetcher'[g] = fetcher[g]
      /\ UNCHANGED <<updateVars, listToken, selectedRepository, lastSelectedID, call,
                     currentBackgroundFetcher, currentBranchPruner, pullRequestUpdater,
                     appIsFocused, missed, changes>>
  BY <1>2 DEF FetcherMoves, SelectionInv, TypeOK
<1>4. TypeOK'
  BY <1>3 DEF SelectionInv, TypeOK, UpdateTypeOK, updateVars
<1>5. FetcherOfSelection'
  <2>1. \A g \in Fetcher : fetcher'[g] # None =>
           /\ fetcher[g] # None /\ fetcher'[g].stopped = fetcher[g].stopped
           /\ fetcher'[g].id = fetcher[g].id
    BY <1>1, <1>2, <1>3
  <2>2. currentBackgroundFetcher # None => fetcher'[currentBackgroundFetcher] # None
    <3>1. CASE currentBackgroundFetcher = f
      <4>1. ~ fetcher[f].stopped
        BY <1>1, <3>1 DEF SelectionInv, FetcherOfSelection
      <4> QED BY <1>2, <1>3, <3>1, <4>1
    <3>2. CASE currentBackgroundFetcher # f
      BY <1>3, <3>2 DEF SelectionInv, FetcherOfSelection, TypeOK
    <3> QED BY <3>1, <3>2
  <2> QED BY <1>3, <2>1, <2>2 DEF SelectionInv, FetcherOfSelection, TypeOK
<1>6. UpdaterFollowsFocus' /\ FetcherIsDue' /\ EmissionIsLast'
  BY <1>3 DEF SelectionInv, UpdaterFollowsFocus, FetcherIsDue, EmissionIsLast, updateVars
<1> QED BY <1>2, <1>3, <1>4, <1>5, <1>6 DEF SelectionInv, At

LEMMA SelectionStep == ASSUME SelectionInv, [Next]_vars PROVE SelectionInv'
<1>1. CASE Counted /\ Write /\ UNCHANGED <<selectionVars, missed>>
  <2>1. UpdateTypeOK' /\ unseen' /\ changes' \in 0 .. MaxChanges
    BY <1>1, WriteTypes, SelectionFacts DEF Counted, SelectionInv, TypeOK
  <2> QED
    BY <1>1, <2>1 DEF selectionVars, taskVars, SelectionInv, TypeOK, FetcherOfSelection,
       UpdaterFollowsFocus, FetcherIsDue, EmissionIsLast
<1>2. CASE Read /\ UNCHANGED <<selectionVars, missed, changes>>
  <2>1. UpdateTypeOK' /\ EmissionIsLast'
    BY <1>2, SelectionFacts DEF Read, SelectionInv, TypeOK, UpdateTypeOK, EmissionIsLast
  <2> QED
    BY <1>2, <2>1 DEF selectionVars, taskVars, SelectionInv, TypeOK, FetcherOfSelection,
       UpdaterFollowsFocus, FetcherIsDue
<1>3. ASSUME NEW focused \in BOOLEAN, Focus(focused) PROVE SelectionInv'
  <2>1. pullRequestUpdater' \in ID \cup {None} /\ UpdaterFollowsFocus'
    BY <1>3 DEF Focus, SelectionInv, TypeOK, UpdaterFollowsFocus, IsRepository, Object
  <2> QED
    BY <1>3, <2>1 DEF Focus, updateVars, SelectionInv, TypeOK, UpdateTypeOK, FetcherOfSelection,
       FetcherIsDue, EmissionIsLast
<1>4. CASE UNCHANGED vars
  BY <1>4 DEF vars, updateVars, selectionVars, taskVars, SelectionInv, TypeOK, UpdateTypeOK,
     FetcherOfSelection, UpdaterFollowsFocus, FetcherIsDue, EmissionIsLast
<1>5. CASE EmissionFailed
  <2>1. UpdateTypeOK' /\ EmissionIsLast' /\ missed' = TRUE
    BY <1>5, SelectionFacts DEF EmissionFailed, EmitFailed, SelectionInv, TypeOK, UpdateTypeOK,
       EmissionIsLast
  <2> QED
    BY <1>5, <2>1 DEF EmissionFailed, selectionVars, taskVars, SelectionInv, TypeOK,
       FetcherOfSelection, UpdaterFollowsFocus, FetcherIsDue
<1> QED
  BY <1>1, <1>2, <1>3, <1>4, <1>5, SelectedStep, EmissionStep, CallContinues, FetcherSteps
     DEF Next, SelectCloning

\* A fetch that begins is one of the current fetcher, which is for the selection.
LEMMA FetchBegins ==
    ASSUME SelectionInv, [Next]_vars, NEW f \in Fetcher, ~ At(f, "fetch"), At(f, "fetch")'
    PROVE  IsRepository(selectedRepository) /\ fetcher[f].id = selectedRepository.id
<1>1. CASE FetcherStep(f)
  <2>1. At(f, "should") /\ fetcher[f] # None /\ ~ fetcher[f].stopped
    BY <1>1 DEF FetcherStep, TimerFires, ShouldFetchAnswered, FetchDone, IntervalKnown,
       FetcherMoves, At, SelectionInv, TypeOK, FetcherState
  <2> QED BY <2>1, SelectionFacts DEF SelectionInv, FetcherOfSelection
<1>2. ASSUME NEW g \in Fetcher, g # f, FetcherStep(g) PROVE FALSE
  BY <1>2, FetcherSteps DEF At
<1>3. CASE UNCHANGED fetcher
  BY <1>3 DEF At
<1>4. CASE fetcher' = FetcherStopped
  BY <1>4, StoppedFetchers DEF At
<1>5. ASSUME NEW c \in Call, Continue(c) PROVE fetcher'[f] = fetcher[f] \/ ~ At(f, "fetch")'
  <2>1. CASE UNCHANGED fetcher
    BY <2>1
  <2>2. CASE StartTasks(call[c].object, call[c].skew, FetcherStopped)
    BY <2>2, StoppedFetchers DEF StartTasks, At
  <2> QED BY <1>5, <2>1, <2>2 DEF Continue, Recovered, RefreshTasks, taskVars
<1>6. \/ \E g \in Fetcher : FetcherStep(g)
      \/ \E c \in Call : Continue(c)
      \/ UNCHANGED fetcher \/ fetcher' = FetcherStopped
  BY DEF Next, vars, selectionVars, taskVars, SelectCloning, Load, UserSelects, SelectHanded,
     SelectRepository, Emission, EmissionFailed, Focus
<1> QED BY <1>1, <1>2, <1>3, <1>4, <1>5, <1>6 DEF At

\* However selections, emissions, clones and changes of the focus are mixed: the
\* background fetcher and the pull request updater are for the selected repository,
\* no second fetcher is alive, and the settled selection is not without one.
THEOREM TasksFollowSelection == Spec => []TasksOfSelection
<1>1. Spec => []SelectionInv
  BY SelectionInit, SelectionStep, PTL DEF Spec
<1>2. SelectionInv => TasksOfSelection
  BY DEF SelectionInv, TypeOK, FetcherIsDue, TasksOfSelection, SettledSelectionHasFetcher
<1> QED BY <1>1, <1>2, PTL

\* Once all updates of the database have arrived, the list and the selected repository
\* are as it is there, unless the reading for the last emission failed; whatever went wrong
\* before is made up for by then.
THEOREM SelectionAgrees == Spec => []SelectionUpToDate
<1>1. Spec => []SelectionInv
  BY SelectionInit, SelectionStep, PTL DEF Spec
<1>2. SelectionInv => SelectionUpToDate
  BY DEF SelectionInv, EmissionIsLast, SelectionUpToDate
<1> QED BY <1>1, <1>2, PTL

\* Wherever the selection moves while a fetcher waits for something: a background fetch
\* is only ever begun in the repository that is selected by then.
THEOREM FetchesFollowSelection == Spec => FetchesSelectedOnly
<1>1. Spec => []SelectionInv
  BY SelectionInit, SelectionStep, PTL DEF Spec
<1>2. SelectionInv /\ [Next]_vars =>
         [\A f \in Fetcher :
             ~At(f, "fetch") /\ At(f, "fetch")' =>
                IsRepository(selectedRepository) /\ fetcher[f].id = selectedRepository.id]_vars
  BY FetchBegins
<1> QED BY <1>1, <1>2, PTL DEF Spec, FetchesSelectedOnly


-----------------------------------------------------------------------------

\* The types of the pruner's state, and that a pruner that was not made does nothing.
PrunerTyped ==
    /\ branches \in [Branch -> Pruning!Local \cup {None}]
    /\ head \in {b \in Branch : branches[b] # None} \cup {Default}
    /\ remotes \subseteq Branch
    /\ cached \in [Branch -> BOOLEAN \cup {None}]
    /\ prunedToday \in BOOLEAN /\ refreshDue \in BOOLEAN
    /\ current \in Pruner \cup {None}
    /\ current \notin unused
    /\ unused \subseteq Pruner
    /\ timer \in [Pruner -> BOOLEAN]
    /\ run \in [Pruner -> Pruning!Run \cup {None}]
    /\ \A p \in unused : run[p] = None /\ ~ timer[p]
    /\ work \in 0 .. MaxWork

\* A branch that is known to have an upstream has one, if it still exists.
Tracked(b) == branches[b] # None => branches[b].upstream

\* Of a branch that nobody used since a run began, what the run has found is still so.
Found(r, b) ==
    /\ r.pc \in {"head", "checkouts", "remotes", "delete"} => branches[b].merged
    /\ r.pc \in {"remotes", "delete"} => ~ branches[b].recent
    /\ r.pc = "delete" => b \in r.tracking /\ b \notin remotes \cup Reserved

RunOK(r) ==
    /\ head \in Branch => head \in r.touched
    /\ \A b \in r.tracking : Tracked(b)
    /\ \A b \in r.doomed \ r.touched : branches[b] # None => Found(r, b)

PrunerInv ==
    /\ PrunerTyped
    /\ \A b \in Branch : cached[b] = TRUE => Tracked(b)
    /\ \A p \in Pruner : run[p] # None => RunOK(run[p])
    /\ Pruning!PrunedAreNoticed

LEMMA PrunerFacts ==
    /\ Reserved \subseteq Branch /\ Default \notin Branch /\ MaxWork \in Nat
    /\ None \notin Pruner /\ None \notin BOOLEAN /\ None \notin Pruning!Local
    /\ None \notin Pruning!Run
BY PrunerAssumed DEF Pruning!PrunerAssumption

LEMMA PrunerInit == Pruning!Init => PrunerInv
<1> SUFFICES ASSUME Pruning!Init PROVE PrunerInv
  OBVIOUS
<1> USE PrunerFacts
<1>1. /\ branches \in [Branch -> Pruning!Local] /\ head = Default
      /\ cached = [b \in Branch |-> IF branches[b] # None THEN branches[b].upstream ELSE None]
      /\ remotes \subseteq Branch /\ work = 0
  BY DEF Pruning!Init, Pruning!BranchList, Pruning!Exists
<1>2. \A b \in Branch : branches[b] # None /\ branches[b].upstream \in BOOLEAN
                        /\ cached[b] = branches[b].upstream
  BY <1>1 DEF Pruning!Local
<1>3. PrunerTyped
  <2>1. cached \in [Branch -> BOOLEAN \cup {None}]
    BY <1>1, <1>2
  <2>2. work \in 0 .. MaxWork
    BY <1>1
  <2>3. /\ current = None /\ unused = Pruner /\ timer \in [Pruner -> BOOLEAN]
        /\ run \in [Pruner -> Pruning!Run \cup {None}]
        /\ \A p \in Pruner : run[p] = None /\ ~ timer[p]
        /\ prunedToday = FALSE /\ refreshDue = FALSE
    BY DEF Pruning!Init
  <2> QED BY <1>1, <2>1, <2>2, <2>3 DEF PrunerTyped
<1> QED
  BY <1>2, <1>3 DEF Pruning!Init, PrunerInv, Tracked, Pruning!PrunedAreNoticed, Pruning!Exists

\* A step of the run of one pruner, in which nothing is done to the branches.
LEMMA RunStep ==
    ASSUME PrunerInv, NEW p \in Pruner, NEW new \in Pruning!Run \cup {None},
           run' = [run EXCEPT ![p] = new],
           UNCHANGED <<branches, head, remotes, cached, work>>,
           prunedToday' \in BOOLEAN, refreshDue' \in BOOLEAN, current' \in Pruner \cup {None},
           current' \notin unused', unused' \subseteq unused, p \notin unused',
           timer' \in [Pruner -> BOOLEAN], \A q \in unused' : ~ timer'[q],
           new # None => RunOK(new),
           \/ refreshDue'
           \/ refreshDue' = refreshDue /\ (Pruning!At(p, "delete") => new # None /\ new.pc = "delete")
    PROVE  PrunerInv'
<1>1. /\ run' \in [Pruner -> Pruning!Run \cup {None}]
      /\ run'[p] = new /\ \A q \in Pruner : q # p => run'[q] = run[q]
  BY DEF PrunerInv, PrunerTyped
<1>2. PrunerTyped'
  BY <1>1 DEF PrunerInv, PrunerTyped
<1>3. ASSUME NEW q \in Pruner, run'[q] # None PROVE RunOK(run[q])'
  <2>1. RunOK(run'[q])
    BY <1>1, <1>3 DEF PrunerInv
  <2> QED BY <2>1 DEF RunOK, Tracked, Found
<1>4. Pruning!PrunedAreNoticed'
  BY <1>1 DEF PrunerInv, Pruning!PrunedAreNoticed, Pruning!Exists, Pruning!At
<1> QED BY <1>2, <1>3, <1>4 DEF PrunerInv, Tracked

\* The two ways in which a step of a run ends.
LEMMA ReturnStep ==
    ASSUME PrunerInv, NEW p \in Pruner, run[p] # None, Pruning!Return(p),
           UNCHANGED <<branches, head, remotes, cached, current, unused, work>>,
           prunedToday' \in BOOLEAN, refreshDue' \in BOOLEAN,
           refreshDue' \/ (refreshDue' = refreshDue /\ ~ Pruning!At(p, "delete"))
    PROVE  PrunerInv'
<1>1. /\ run' = [run EXCEPT ![p] = None] /\ p \notin unused
      /\ timer' \in [Pruner -> BOOLEAN] /\ \A q \in unused : ~ timer'[q]
  <2>1. run[p].first \in BOOLEAN /\ timer[p] \in BOOLEAN /\ p \notin unused
    BY DEF PrunerInv, PrunerTyped, Pruning!Run
  <2> QED BY <2>1 DEF Pruning!Return, PrunerInv, PrunerTyped
<1> QED BY <1>1, RunStep DEF PrunerInv, PrunerTyped

LEMMA ContinueStep ==
    ASSUME PrunerInv, NEW p \in Pruner, NEW pc \in {"stamp", "head", "checkouts", "remotes", "delete"},
           NEW doomed \in SUBSET Branch,
           run[p] # None, Pruning!Continue(p, pc, doomed),
           UNCHANGED <<branches, head, remotes, cached, current, unused, work>>,
           prunedToday' \in BOOLEAN, refreshDue' = refreshDue,
           Pruning!At(p, "delete") => pc = "delete",
           \A b \in doomed \ run[p].touched : branches[b] # None =>
              /\ pc # "stamp" => branches[b].merged
              /\ pc \in {"remotes", "delete"} => ~ branches[b].recent
              /\ pc = "delete" => b \in run[p].tracking /\ b \notin remotes \cup Reserved
    PROVE  PrunerInv'
<1> DEFINE new == [run[p] EXCEPT !.pc = pc, !.doomed = doomed]
<1>1. run[p] \in Pruning!Run /\ p \notin unused
  BY DEF PrunerInv, PrunerTyped
<1>2. /\ new \in Pruning!Run /\ new.pc = pc /\ new.doomed = doomed
      /\ new.tracking = run[p].tracking /\ new.touched = run[p].touched
  BY <1>1 DEF Pruning!Run
<1>3. run' = [run EXCEPT ![p] = new] /\ timer' = timer
  BY <1>1 DEF Pruning!Continue, PrunerInv, PrunerTyped
<1> HIDE DEF new
<1>4. RunOK(new)
  BY <1>2 DEF PrunerInv, RunOK, Found
<1>5. new # None
  BY <1>2, PrunerFacts
<1>6. \A q \in unused : ~ timer[q]
  BY DEF PrunerInv, PrunerTyped
<1> QED BY <1>1, <1>2, <1>3, <1>4, <1>5, <1>6, RunStep DEF PrunerInv, PrunerTyped

\* A branch is deleted, or is not, and the run goes on or returns.
LEMMA DeleteStep ==
    ASSUME PrunerInv, NEW p \in Pruner, Pruning!DeleteBranch(p), work' = work
    PROVE  PrunerInv'
<1> DEFINE r == run[p]
<1>1. PICK b \in r.doomed :
         /\ branches' = branches \/ (b # head /\ branches' = [branches EXCEPT ![b] = None])
         /\ \/ Pruning!Return(p) /\ refreshDue' = TRUE
            \/ Pruning!Continue(p, "delete", r.doomed \ {b}) /\ refreshDue' = refreshDue
  BY DEF Pruning!DeleteBranch
<1>2. /\ r # None /\ r \in Pruning!Run /\ p \notin unused /\ r.pc = "delete" /\ b \in Branch
      /\ UNCHANGED <<head, remotes, cached, prunedToday, current, unused, work>>
  BY <1>1 DEF Pruning!DeleteBranch, Pruning!At, PrunerInv, PrunerTyped, Pruning!Run
<1>3. /\ branches' \in [Branch -> Pruning!Local \cup {None}]
      /\ \A c \in Branch : branches'[c] = branches[c] \/ (branches'[c] = None /\ c # head)
  BY <1>1, <1>2 DEF PrunerInv, PrunerTyped
<1>4. PICK new \in Pruning!Run \cup {None} :
         /\ run' = [run EXCEPT ![p] = new]
         /\ new # None => /\ new.pc = "delete" /\ new.doomed \subseteq r.doomed
                          /\ new.tracking = r.tracking /\ new.touched = r.touched
         /\ new = None => refreshDue' = TRUE
         /\ refreshDue' \in BOOLEAN /\ (refreshDue' = FALSE => refreshDue = FALSE)
         /\ timer' \in [Pruner -> BOOLEAN] /\ \A q \in unused : ~ timer'[q]
  <2>1. CASE Pruning!Return(p) /\ refreshDue' = TRUE
    <3>1. run' = [run EXCEPT ![p] = None]
      BY <2>1 DEF Pruning!Return
    <3>2. timer' \in [Pruner -> BOOLEAN] /\ \A q \in unused : ~ timer'[q]
      <4>1. r.first \in BOOLEAN
        BY <1>2 DEF Pruning!Run
      <4> QED BY <1>2, <2>1, <4>1 DEF Pruning!Return, PrunerInv, PrunerTyped
    <3> QED BY <2>1, <3>1, <3>2
  <2>2. CASE Pruning!Continue(p, "delete", r.doomed \ {b}) /\ refreshDue' = refreshDue
    <3> DEFINE next == [r EXCEPT !.pc = "delete", !.doomed = r.doomed \ {b}]
    <3>1. next \in Pruning!Run /\ next.pc = "delete" /\ next.doomed \subseteq r.doomed
          /\ next.tracking = r.tracking /\ next.touched = r.touched
      BY <1>2 DEF Pruning!Run
    <3>2. run' = [run EXCEPT ![p] = next] /\ timer' = timer
      BY <1>2, <2>2 DEF Pruning!Continue, PrunerInv, PrunerTyped
    <3>3. refreshDue \in BOOLEAN /\ \A q \in unused : ~ timer[q]
      BY DEF PrunerInv, PrunerTyped
    <3> HIDE DEF next
    <3>4. next # None
      BY <3>1, PrunerFacts
    <3> QED BY <2>2, <3>1, <3>2, <3>3, <3>4 DEF PrunerInv, PrunerTyped
  <2> QED BY <1>1, <2>1, <2>2
<1>5. /\ run' \in [Pruner -> Pruning!Run \cup {None}]
      /\ run'[p] = new /\ \A q \in Pruner : q # p => run'[q] = run[q]
  BY <1>4 DEF PrunerInv, PrunerTyped
<1>6. PrunerTyped'
  <2>1. head \in {c \in Branch : branches'[c] # None} \cup {Default}
    BY <1>3, PrunerFacts DEF PrunerInv, PrunerTyped
  <2> QED BY <1>2, <1>3, <1>4, <1>5, <2>1 DEF PrunerInv, PrunerTyped
<1>7. \A c \in Branch : Tracked(c) => Tracked(c)'
  BY <1>3 DEF Tracked
<1>8. ASSUME NEW q \in Pruner, run'[q] # None PROVE RunOK(run[q])'
  <2>1. PICK old \in Pruning!Run :
           /\ run[q] = old /\ RunOK(old)
           /\ run'[q].pc = old.pc /\ run'[q].doomed \subseteq old.doomed
           /\ run'[q].tracking = old.tracking /\ run'[q].touched = old.touched
    BY <1>2, <1>4, <1>5, <1>8 DEF PrunerInv, PrunerTyped
  <2>2. old.tracking \subseteq Branch /\ old.doomed \subseteq Branch
    BY <2>1 DEF Pruning!Run
  <2> QED BY <1>2, <1>3, <1>7, <2>1, <2>2 DEF RunOK, Found
<1>9. Pruning!PrunedAreNoticed'
  BY <1>4, <1>5 DEF Pruning!PrunedAreNoticed, Pruning!At
<1> QED BY <1>2, <1>6, <1>7, <1>8, <1>9 DEF PrunerInv

\* The run's own steps.
LEMMA PruneSteps ==
    ASSUME PrunerInv, NEW p \in Pruner, Pruning!PruneStep(p) \/ Pruning!RunThrows(p),
           work' = work
    PROVE  PrunerInv'
<1> DEFINE r == run[p]
<1>1. r # None /\ r \in Pruning!Run /\ p \notin unused /\ RunOK(r)
  BY DEF PrunerInv, PrunerTyped, Pruning!PruneStep, Pruning!DateRead, Pruning!Stamped,
     Pruning!MergedRead, Pruning!HeadRead, Pruning!CheckoutsRead, Pruning!RemotesRead,
     Pruning!DeleteBranch, Pruning!RunThrows, Pruning!At
<1>2. r.doomed \subseteq Branch /\ prunedToday \in BOOLEAN /\ refreshDue \in BOOLEAN
  BY <1>1 DEF Pruning!Run, PrunerInv, PrunerTyped
<1>3. CASE Pruning!DateRead(p)
  BY <1>1, <1>2, <1>3, ReturnStep, ContinueStep DEF Pruning!DateRead, Pruning!At
<1>4. CASE Pruning!Stamped(p)
  <2>1. CASE Pruning!Return(p)
    BY <1>1, <1>2, <1>4, <2>1, ReturnStep DEF Pruning!Stamped, Pruning!At
  <2>2. CASE ~ Pruning!Return(p)
    <3> DEFINE new == [r EXCEPT !.pc = "merged", !.tracking = {b \in Branch : cached[b] = TRUE}]
    <3>1. /\ new \in Pruning!Run /\ new.pc = "merged"
          /\ new.tracking = {b \in Branch : cached[b] = TRUE}
          /\ new.doomed = r.doomed /\ new.touched = r.touched
      BY <1>1 DEF Pruning!Run
    <3>2. run' = [run EXCEPT ![p] = new] /\ timer' = timer /\ Pruning!At(p, "stamp")
          /\ prunedToday' = TRUE
          /\ UNCHANGED <<branches, head, remotes, cached, current, unused, refreshDue>>
      BY <1>1, <1>4, <2>2 DEF Pruning!Stamped, PrunerInv, PrunerTyped
    <3> HIDE DEF new
    <3>3. RunOK(new)
      BY <1>1, <3>1 DEF RunOK, Found, PrunerInv
    <3>4. \A q \in unused : ~ timer[q]
      BY DEF PrunerInv, PrunerTyped
    <3>5. ~ Pruning!At(p, "delete")
      BY <3>2 DEF Pruning!At
    <3> QED BY <1>1, <1>2, <3>1, <3>2, <3>3, <3>4, <3>5, RunStep DEF PrunerInv, PrunerTyped
  <2> QED BY <2>1, <2>2
<1>5. CASE Pruning!MergedRead(p)
  <2> DEFINE doomed == {b \in Branch : branches[b] # None /\ branches[b].merged}
  <2>1. CASE Pruning!Return(p)
    BY <1>1, <1>2, <1>5, <2>1, ReturnStep DEF Pruning!MergedRead, Pruning!At
  <2>2. CASE Pruning!Continue(p, "head", doomed)
    BY <1>1, <1>2, <1>5, <2>2, ContinueStep DEF Pruning!MergedRead, Pruning!At
  <2> QED BY <1>5, <2>1, <2>2 DEF Pruning!MergedRead, Pruning!Exists
<1>6. CASE Pruning!HeadRead(p)
  <2> DEFINE others == r.doomed \ {head}
  <2>1. CASE Pruning!Return(p)
    BY <1>1, <1>2, <1>6, <2>1, ReturnStep DEF Pruning!HeadRead, Pruning!At
  <2>2. CASE Pruning!Continue(p, "checkouts", others)
    <3>1. \A b \in others \ r.touched : branches[b] # None => branches[b].merged
      BY <1>1, <1>6 DEF Pruning!HeadRead, Pruning!At, RunOK, Found
    <3> QED BY <1>1, <1>2, <1>6, <2>2, <3>1, ContinueStep DEF Pruning!HeadRead, Pruning!At
  <2> QED BY <1>6, <2>1, <2>2 DEF Pruning!HeadRead
<1>7. CASE Pruning!CheckoutsRead(p)
  <2> DEFINE quiet == {b \in r.doomed : ~ (branches[b] # None /\ branches[b].recent)}
  <2>1. \A b \in quiet \ r.touched : branches[b] # None
            => branches[b].merged /\ ~ branches[b].recent
    BY <1>1, <1>7 DEF Pruning!CheckoutsRead, Pruning!At, RunOK, Found
  <2>2. Pruning!Continue(p, "remotes", quiet)
    BY <1>7 DEF Pruning!CheckoutsRead, Pruning!Exists
  <2> QED BY <1>1, <1>2, <1>7, <2>1, <2>2, ContinueStep DEF Pruning!CheckoutsRead, Pruning!At
<1>8. CASE Pruning!RemotesRead(p)
  <2> DEFINE ready == {b \in r.doomed : b \notin Reserved /\ b \in r.tracking /\ b \notin remotes}
  <2>1. CASE Pruning!Return(p) /\ refreshDue' = TRUE
    BY <1>1, <1>2, <1>8, <2>1, ReturnStep DEF Pruning!RemotesRead, Pruning!At
  <2>2. CASE Pruning!Continue(p, "delete", ready) /\ refreshDue' = refreshDue
    <3>1. \A b \in ready \ r.touched : branches[b] # None
              => branches[b].merged /\ ~ branches[b].recent
      BY <1>1, <1>8 DEF Pruning!RemotesRead, Pruning!At, RunOK, Found
    <3> QED BY <1>1, <1>2, <1>8, <2>2, <3>1, ContinueStep DEF Pruning!RemotesRead, Pruning!At
  <2> QED BY <1>8, <2>1, <2>2 DEF Pruning!RemotesRead
<1>9. CASE Pruning!DeleteBranch(p)
  BY <1>9, DeleteStep DEF Pruning!DeleteBranch
<1>10. CASE Pruning!RunThrows(p)
  <2>1. run' = [run EXCEPT ![p] = None] /\ ~ Pruning!At(p, "delete")
        /\ UNCHANGED <<branches, head, remotes, cached, prunedToday, current, unused, timer,
                       refreshDue>>
    BY <1>10 DEF Pruning!RunThrows, Pruning!At
  <2>2. \A q \in unused : ~ timer[q]
    BY DEF PrunerInv, PrunerTyped
  <2> QED BY <1>1, <1>2, <2>1, <2>2, RunStep DEF PrunerInv, PrunerTyped
<1> QED
  BY <1>3, <1>4, <1>5, <1>6, <1>7, <1>8, <1>9, <1>10 DEF Pruning!PruneStep

\* A pruner is made or its interval is over: a run begins.
LEMMA NewRunFacts ==
    ASSUME PrunerInv, NEW first \in BOOLEAN
    PROVE  /\ Pruning!NewRun(first) \in Pruning!Run /\ Pruning!NewRun(first) # None
           /\ RunOK(Pruning!NewRun(first))
<1>1. Pruning!NewRun(first) \in Pruning!Run
  BY DEF Pruning!NewRun, Pruning!Run
<1> QED BY <1>1, PrunerFacts DEF Pruning!NewRun, RunOK

LEMMA PrunersStep ==
    ASSUME PrunerInv, work' = work,
           \/ Pruning!StopPruner \/ Pruning!Refresh
           \/ \E p \in Pruner : Pruning!StartPruner(p) \/ Pruning!Tick(p)
    PROVE  PrunerInv'
<1>1. CASE Pruning!StopPruner
  <2>1. current \in Pruner /\ None \notin unused
    BY <1>1, PrunerFacts DEF Pruning!StopPruner, PrunerInv, PrunerTyped
  <2> QED
    BY <1>1, <2>1 DEF Pruning!StopPruner, PrunerInv, PrunerTyped, RunOK, Found, Tracked,
       Pruning!PrunedAreNoticed, Pruning!Exists, Pruning!At
<1>2. CASE Pruning!Refresh
  <2>1. /\ \A b \in Branch : cached'[b] = IF branches[b] # None THEN branches[b].upstream ELSE None
        /\ refreshDue' = FALSE
        /\ UNCHANGED <<branches, head, remotes, prunedToday, current, unused, timer, run, work>>
    BY <1>2 DEF Pruning!Refresh, Pruning!BranchList, Pruning!Exists
  <2>2. cached' \in [Branch -> BOOLEAN \cup {None}]
    BY <1>2 DEF Pruning!Refresh, Pruning!BranchList, Pruning!Exists, PrunerInv, PrunerTyped,
       Pruning!Local
  <2>3. PrunerTyped'
    BY <2>1, <2>2 DEF PrunerInv, PrunerTyped
  <2>4. \A b \in Branch : Tracked(b)' <=> Tracked(b)
    BY <2>1 DEF Tracked
  <2>5. \A b \in Branch : cached'[b] = TRUE => Tracked(b)'
    BY <2>1, PrunerFacts DEF Tracked
  <2>6. \A p \in Pruner : run[p] # None => RunOK(run[p])'
    BY <2>1 DEF PrunerInv, RunOK, Found, Tracked
  <2>7. Pruning!PrunedAreNoticed'
    BY <2>1 DEF Pruning!PrunedAreNoticed, Pruning!Exists
  <2> QED BY <2>1, <2>3, <2>5, <2>6, <2>7 DEF PrunerInv
<1>3. ASSUME NEW p \in Pruner, Pruning!StartPruner(p) PROVE PrunerInv'
  <2>1. p \in unused /\ ~ Pruning!At(p, "delete") /\ \A q \in unused : ~ timer[q]
    BY <1>3 DEF Pruning!StartPruner, Pruning!At, PrunerInv, PrunerTyped
  <2>2. /\ run' = [run EXCEPT ![p] = Pruning!NewRun(TRUE)]
        /\ current' = p /\ unused' = unused \ {p}
        /\ UNCHANGED <<branches, head, remotes, cached, prunedToday, timer, refreshDue, work>>
    BY <1>3 DEF Pruning!StartPruner
  <2>3. current' \notin unused' /\ unused' \subseteq unused
    BY <2>2
  <2> QED BY <2>1, <2>2, <2>3, NewRunFacts, RunStep DEF PrunerInv, PrunerTyped
<1>4. ASSUME NEW p \in Pruner, Pruning!Tick(p) PROVE PrunerInv'
  <2>1. p \notin unused /\ ~ Pruning!At(p, "delete") /\ \A q \in unused : ~ timer[q]
    BY <1>4 DEF Pruning!Tick, Pruning!At, PrunerInv, PrunerTyped
  <2>2. /\ run' = [run EXCEPT ![p] = Pruning!NewRun(FALSE)]
        /\ UNCHANGED <<branches, head, remotes, cached, prunedToday, current, unused, timer,
                       refreshDue, work>>
    BY <1>4 DEF Pruning!Tick
  <2> QED BY <2>1, <2>2, NewRunFacts, RunStep DEF PrunerInv, PrunerTyped
<1> QED BY <1>1, <1>2, <1>3, <1>4

\* Something is done in the repository: no branch comes or goes, and what a run has
\* found of a branch stays so, unless the run is told that the branch is used.
LEMMA WorkKept ==
    ASSUME PrunerInv, PrunerTyped',
           \A b \in Branch : /\ branches[b] # None <=> branches'[b] # None
                             /\ branches[b] # None /\ branches[b].upstream
                                   => branches'[b].upstream,
           \A p \in Pruner :
              /\ run[p] # None <=> run'[p] # None
              /\ run[p] # None =>
                    /\ run'[p].pc = run[p].pc /\ run'[p].doomed = run[p].doomed
                    /\ run'[p].tracking = run[p].tracking
                    /\ run[p].touched \subseteq run'[p].touched
                    /\ head' \in Branch => head' \in run'[p].touched
                    /\ \A b \in Branch \ run'[p].touched :
                          branches[b] # None =>
                             /\ branches[b].merged => branches'[b].merged
                             /\ ~ branches[b].recent => ~ branches'[b].recent
                             /\ b \notin remotes => b \notin remotes',
           UNCHANGED <<cached, refreshDue>>
    PROVE  PrunerInv'
<1>1. \A b \in Branch : Tracked(b) => Tracked(b)'
  BY DEF Tracked
<1>2. ASSUME NEW p \in Pruner, run'[p] # None PROVE RunOK(run[p])'
  <2>1. PICK old \in Pruning!Run : run[p] = old /\ RunOK(old) /\ old # None
    BY <1>2 DEF PrunerInv, PrunerTyped
  <2>2. old.tracking \subseteq Branch /\ old.doomed \subseteq Branch
    BY <2>1 DEF Pruning!Run
  <2> QED BY <1>1, <1>2, <2>1, <2>2 DEF RunOK, Found
<1>3. Pruning!PrunedAreNoticed'
  BY DEF PrunerInv, Pruning!PrunedAreNoticed, Pruning!Exists, Pruning!At
<1> QED BY <1>1, <1>2, <1>3 DEF PrunerInv

\* What Touch does to the runs.
LEMMA Touched ==
    ASSUME PrunerInv, NEW b \in Branch \cup {Default}, Pruning!Touch(b)
    PROVE  /\ run' \in [Pruner -> Pruning!Run \cup {None}]
           /\ \A p \in Pruner :
                 /\ run[p] # None <=> run'[p] # None
                 /\ run[p] # None =>
                       /\ run'[p].pc = run[p].pc /\ run'[p].doomed = run[p].doomed
                       /\ run'[p].tracking = run[p].tracking
                       /\ run'[p].touched = run[p].touched \cup ({b} \cap Branch)
<1>1. \A p \in Pruner : run'[p] = IF run[p] = None THEN None
                                  ELSE [run[p] EXCEPT !.touched = @ \cup ({b} \cap Branch)]
  BY DEF Pruning!Touch
<1>2. ASSUME NEW r \in Pruning!Run
      PROVE  LET new == [r EXCEPT !.touched = @ \cup ({b} \cap Branch)]
             IN  /\ new \in Pruning!Run /\ new.pc = r.pc /\ new.doomed = r.doomed
                 /\ new.tracking = r.tracking
                 /\ new.touched = r.touched \cup ({b} \cap Branch)
  BY DEF Pruning!Run
<1>3. ASSUME NEW p \in Pruner
      PROVE  /\ run'[p] \in Pruning!Run \cup {None}
             /\ run[p] # None <=> run'[p] # None
             /\ run[p] # None =>
                   /\ run'[p].pc = run[p].pc /\ run'[p].doomed = run[p].doomed
                   /\ run'[p].tracking = run[p].tracking
                   /\ run'[p].touched = run[p].touched \cup ({b} \cap Branch)
  <2>1. CASE run[p] = None
    BY <1>1, <2>1
  <2>2. CASE run[p] # None
    <3> DEFINE new == [run[p] EXCEPT !.touched = @ \cup ({b} \cap Branch)]
    <3>1. run'[p] = new /\ run[p] \in Pruning!Run
      BY <1>1, <2>2 DEF PrunerInv, PrunerTyped
    <3>2. /\ new \in Pruning!Run /\ new.pc = run[p].pc /\ new.doomed = run[p].doomed
          /\ new.tracking = run[p].tracking
          /\ new.touched = run[p].touched \cup ({b} \cap Branch)
      BY <1>2, <3>1
    <3> QED BY <2>2, <3>1, <3>2, PrunerFacts
  <2> QED BY <2>1, <2>2
<1>4. run' = [p \in Pruner |-> run'[p]]
  BY DEF Pruning!Touch
<1>5. run' \in [Pruner -> Pruning!Run \cup {None}]
  BY <1>3, <1>4
<1> QED BY <1>3, <1>5

LEMMA WorkStep ==
    ASSUME PrunerInv, Pruning!Work, work < MaxWork, work' = work + 1
    PROVE  PrunerInv'
<1>1. work' \in 0 .. MaxWork
  BY PrunerFacts DEF PrunerInv, PrunerTyped
<1>2. CASE Pruning!Commit
  <2>1. /\ head \in Branch /\ branches[head] # None
        /\ branches' = [branches EXCEPT ![head].merged = FALSE]
        /\ UNCHANGED <<head, remotes, cached, prunedToday, current, unused, timer, run, refreshDue>>
    BY <1>2 DEF Pruning!Commit, PrunerInv, PrunerTyped
  <2>2. /\ branches' \in [Branch -> Pruning!Local \cup {None}]
        /\ \A b \in Branch : /\ b # head => branches'[b] = branches[b]
                             /\ branches[b] # None <=> branches'[b] # None
                             /\ branches[b] # None
                                    => branches'[b].upstream = branches[b].upstream
    BY <2>1, PrunerFacts DEF PrunerInv, PrunerTyped, Pruning!Local
  <2>3. PrunerTyped'
    BY <1>1, <2>1, <2>2 DEF PrunerInv, PrunerTyped
  <2>4. \A p \in Pruner : run[p] # None => head \in run[p].touched
    BY <2>1 DEF PrunerInv, RunOK
  <2> QED BY <2>1, <2>2, <2>3, <2>4, WorkKept
<1>3. ASSUME NEW b \in Branch, Pruning!Push(b) PROVE PrunerInv'
  <2>1. /\ branches[b] # None
        /\ branches' = [branches EXCEPT ![b].upstream = TRUE]
        /\ remotes' = remotes \cup {b}
        /\ Pruning!Touch(b)
        /\ UNCHANGED <<head, cached, prunedToday, current, unused, timer, refreshDue>>
    BY <1>3 DEF Pruning!Push, Pruning!Exists
  <2>2. /\ branches' \in [Branch -> Pruning!Local \cup {None}]
        /\ \A c \in Branch : /\ branches[c] # None <=> branches'[c] # None
                             /\ branches[c] # None
                                    => /\ branches'[c].merged = branches[c].merged
                                                      /\ branches'[c].recent = branches[c].recent
                             /\ branches[c] # None /\ branches[c].upstream
                                    => branches'[c].upstream
    <3> DEFINE l == [branches[b] EXCEPT !.upstream = TRUE]
    <3>1. branches[b] \in Pruning!Local /\ branches' = [branches EXCEPT ![b] = l]
      BY <2>1 DEF PrunerInv, PrunerTyped
    <3>2. /\ l \in Pruning!Local /\ l.upstream /\ l.merged = branches[b].merged
          /\ l.recent = branches[b].recent
      BY <3>1 DEF Pruning!Local
    <3> HIDE DEF l
    <3>3. l # None
      BY <3>2, PrunerFacts
    <3>4. /\ branches' \in [Branch -> Pruning!Local \cup {None}]
          /\ branches'[b] = l /\ \A c \in Branch : c # b => branches'[c] = branches[c]
      BY <3>1, <3>2 DEF PrunerInv, PrunerTyped
    <3> QED BY <2>1, <3>2, <3>3, <3>4
  <2>3. PrunerTyped'
    BY <1>1, <2>1, <2>2, Touched DEF PrunerInv, PrunerTyped
  <2>4. \A p \in Pruner : run[p] # None /\ head \in Branch => head \in run[p].touched
    BY DEF PrunerInv, RunOK
  <2> QED BY <2>1, <2>2, <2>3, <2>4, Touched, WorkKept
<1>4. ASSUME NEW b \in Branch, Pruning!MergeAndPrune(b) \/ Pruning!Forgotten(b) PROVE PrunerInv'
  <2>1. /\ branches[b] # None
        /\ \/ branches' = [branches EXCEPT ![b].merged = TRUE]
           \/ branches' = [branches EXCEPT ![b].recent = FALSE]
        /\ remotes' \subseteq remotes
        /\ UNCHANGED <<head, cached, prunedToday, current, unused, timer, run, refreshDue>>
    BY <1>4 DEF Pruning!MergeAndPrune, Pruning!Forgotten, Pruning!Exists
  <2>2. /\ branches' \in [Branch -> Pruning!Local \cup {None}]
        /\ \A c \in Branch : /\ branches[c] # None <=> branches'[c] # None
                             /\ branches[c] # None =>
                                   /\ branches[c].merged => branches'[c].merged
                                   /\ ~ branches[c].recent => ~ branches'[c].recent
                                   /\ branches'[c].upstream = branches[c].upstream
    <3>1. PICK l \in Pruning!Local :
             /\ branches' = [branches EXCEPT ![b] = l] /\ l.upstream = branches[b].upstream
             /\ branches[b].merged => l.merged
             /\ ~ branches[b].recent => ~ l.recent
      <4>1. branches[b] \in Pruning!Local
        BY <2>1 DEF PrunerInv, PrunerTyped
      <4>2. CASE branches' = [branches EXCEPT ![b].merged = TRUE]
        <5> DEFINE l == [branches[b] EXCEPT !.merged = TRUE]
        <5>1. l \in Pruning!Local /\ l.upstream = branches[b].upstream /\ l.merged
              /\ l.recent = branches[b].recent
          BY <4>1 DEF Pruning!Local
        <5>2. branches' = [branches EXCEPT ![b] = l]
          BY <4>2
        <5> QED BY <5>1, <5>2
      <4>3. CASE branches' = [branches EXCEPT ![b].recent = FALSE]
        <5> DEFINE l == [branches[b] EXCEPT !.recent = FALSE]
        <5>1. l \in Pruning!Local /\ l.upstream = branches[b].upstream /\ ~ l.recent
              /\ l.merged = branches[b].merged
          BY <4>1 DEF Pruning!Local
        <5>2. branches' = [branches EXCEPT ![b] = l]
          BY <4>3
        <5> QED BY <5>1, <5>2
      <4> QED BY <2>1, <4>2, <4>3
    <3>2. l # None
      BY <3>1, PrunerFacts
    <3>3. /\ branches' \in [Branch -> Pruning!Local \cup {None}]
          /\ branches'[b] = l /\ \A c \in Branch : c # b => branches'[c] = branches[c]
      BY <3>1 DEF PrunerInv, PrunerTyped
    <3> QED BY <2>1, <3>1, <3>2, <3>3
  <2>3. PrunerTyped'
    BY <1>1, <2>1, <2>2 DEF PrunerInv, PrunerTyped
  <2>4. \A p \in Pruner : run[p] # None /\ head \in Branch => head \in run[p].touched
    BY DEF PrunerInv, RunOK
  <2> QED BY <2>1, <2>2, <2>3, <2>4, WorkKept
<1>5. ASSUME NEW b \in Branch \cup {Default}, Pruning!Checkout(b) PROVE PrunerInv'
  <2>1. /\ head' = b /\ (b = Default \/ branches[b] # None)
        /\ branches' = IF b = Default THEN branches ELSE [branches EXCEPT ![b].recent = TRUE]
        /\ Pruning!Touch(b)
        /\ UNCHANGED <<remotes, cached, prunedToday, current, unused, timer, refreshDue>>
    BY <1>5 DEF Pruning!Checkout, Pruning!Exists
  <2>2. /\ branches' \in [Branch -> Pruning!Local \cup {None}]
        /\ \A c \in Branch : /\ branches[c] # None <=> branches'[c] # None
                             /\ c # b => branches'[c] = branches[c]
                             /\ branches[c] # None
                                    => branches'[c].upstream = branches[c].upstream
    BY <2>1, PrunerFacts DEF PrunerInv, PrunerTyped, Pruning!Local
  <2>3. PrunerTyped'
    BY <1>1, <2>1, <2>2, Touched DEF PrunerInv, PrunerTyped
  <2>4. \A p \in Pruner : run[p] # None /\ head' \in Branch => head' \in run'[p].touched
    BY <2>1, Touched
  <2>5. \A p \in Pruner, c \in Branch :
           run[p] # None /\ c \notin run'[p].touched => branches'[c] = branches[c]
    BY <2>1, <2>2, Touched
  <2>6. \A c \in Branch : /\ branches[c] # None <=> branches'[c] # None
                          /\ branches[c] # None /\ branches[c].upstream => branches'[c].upstream
    BY <2>2
  <2> QED BY <2>1, <2>3, <2>4, <2>5, <2>6, Touched, WorkKept
<1> QED BY <1>2, <1>3, <1>4, <1>5 DEF Pruning!Work

LEMMA PrunerStep == ASSUME PrunerInv, [Pruning!Next]_Pruning!vars PROVE PrunerInv'
<1>1. CASE Pruning!DayPasses /\ UNCHANGED work
  BY <1>1 DEF Pruning!DayPasses, PrunerInv, PrunerTyped, RunOK, Found, Tracked,
     Pruning!PrunedAreNoticed, Pruning!Exists, Pruning!At
<1>2. CASE UNCHANGED Pruning!vars
  BY <1>2 DEF Pruning!vars, Pruning!prunerVars, PrunerInv, PrunerTyped, RunOK, Found, Tracked,
     Pruning!PrunedAreNoticed, Pruning!Exists, Pruning!At
<1>3. CASE Pruning!Program /\ UNCHANGED work
  BY <1>3, PrunersStep, PruneSteps DEF Pruning!Program
<1> QED
  BY <1>1, <1>2, <1>3, WorkStep DEF Pruning!Next

\* A branch that a step deletes is one that a run is deleting.
LEMMA ExpendableStep ==
    ASSUME PrunerInv, [Pruning!Next]_Pruning!vars,
           NEW b \in Branch, branches[b] # None, branches'[b] = None
    PROVE  \/ \E p \in Pruner : Pruning!At(p, "delete") /\ b \in run[p].touched
           \/ /\ branches[b] = [merged |-> TRUE, recent |-> FALSE, upstream |-> TRUE]
              /\ b \notin remotes \cup Reserved \cup {head}
<1>1. branches[b] \in Pruning!Local /\ branches \in [Branch -> Pruning!Local \cup {None}]
  BY DEF PrunerInv, PrunerTyped
<1>2. ASSUME NEW p \in Pruner, Pruning!DeleteBranch(p)
      PROVE  Pruning!At(p, "delete") /\ b \in run[p].doomed /\ b # head
  BY <1>1, <1>2 DEF Pruning!DeleteBranch
<1>3. \E p \in Pruner : Pruning!DeleteBranch(p)
  <2>1. \A c \in Branch \cup {Default} : branches[c] # None =>
           \A l \in Pruning!Local :
              /\ [l EXCEPT !.merged = FALSE] # None /\ [l EXCEPT !.merged = TRUE] # None
              /\ [l EXCEPT !.recent = FALSE] # None /\ [l EXCEPT !.recent = TRUE] # None
              /\ [l EXCEPT !.upstream = TRUE] # None
    BY PrunerFacts DEF Pruning!Local
  <2>2. ~ Pruning!Commit
    BY <1>1, <2>1, PrunerFacts DEF Pruning!Commit, PrunerInv, PrunerTyped
  <2>3. \A c \in Branch : ~ Pruning!Push(c) /\ ~ Pruning!MergeAndPrune(c) /\ ~ Pruning!Forgotten(c)
    BY <1>1, <2>1 DEF Pruning!Push, Pruning!MergeAndPrune, Pruning!Forgotten
  <2>4. \A c \in Branch \cup {Default} : ~ Pruning!Checkout(c)
    BY <1>1, <2>1 DEF Pruning!Checkout
  <2>5. ~ UNCHANGED branches
    OBVIOUS
  <2> QED
    BY <2>2, <2>3, <2>4, <2>5 DEF Pruning!Next, Pruning!Work, Pruning!Program,
       Pruning!PruneStep,
       Pruning!vars, Pruning!prunerVars, Pruning!DayPasses, Pruning!StopPruner, Pruning!Refresh,
       Pruning!StartPruner, Pruning!Tick, Pruning!RunThrows, Pruning!DateRead, Pruning!Stamped,
       Pruning!MergedRead, Pruning!HeadRead, Pruning!CheckoutsRead, Pruning!RemotesRead
<1>4. PICK p \in Pruner : Pruning!At(p, "delete") /\ b \in run[p].doomed /\ b # head
  BY <1>2, <1>3
<1>5. CASE b \notin run[p].touched
  <2>1. Found(run[p], b) /\ run[p].pc = "delete" /\ RunOK(run[p])
    BY <1>4, <1>5 DEF PrunerInv, RunOK, Pruning!At
  <2>2. branches[b].merged /\ ~ branches[b].recent /\ branches[b].upstream
        /\ b \notin remotes \cup Reserved
    BY <2>1 DEF Found, RunOK, Tracked
  <2>3. branches[b] = [merged |-> TRUE, recent |-> FALSE, upstream |-> TRUE]
    BY <1>1, <2>2 DEF Pruning!Local
  <2> QED BY <1>4, <2>2, <2>3
<1> QED BY <1>4, <1>5

\* Though a run reads each of its conditions at another time and runs overlap: a branch
\* that nobody has used since the run began is deleted only when it is merged, has lost its
\* upstream, is not recent, current or reserved; and the list of branches learns of it.
THEOREM PrunedAreExpendable == Pruning!Spec => PrunedIsExpendable
<1>1. Pruning!Spec => []PrunerInv
  BY PrunerInit, PrunerStep, PTL DEF Pruning!Spec
<1>2. PrunerInv => Pruning!PrunedAreNoticed
  BY DEF PrunerInv
<1>3. PrunerInv /\ [Pruning!Next]_Pruning!vars =>
         [\A b \in Branch :
             Pruning!Exists(b) /\ ~Pruning!Exists(b)' =>
                \/ \E p \in Pruner : Pruning!At(p, "delete") /\ b \in run[p].touched
                \/ /\ branches[b] = [merged |-> TRUE, recent |-> FALSE, upstream |-> TRUE]
                   /\ b \notin remotes \cup Reserved \cup {head}]_Pruning!vars
  BY ExpendableStep DEF Pruning!Exists
<1> QED
  BY <1>1, <1>2, <1>3, PTL DEF Pruning!Spec, PrunedIsExpendable, Pruning!PrunedIsExpendable

-----------------------------------------------------------------------------

\* The variables of both keep their types in every behaviour of the two side by side; no
\* object is ever without a token of its own.
THEOREM BackgroundTypes == EitherSpec => []BothTypeOK
<1>1. EitherInit => SelectionInv /\ PrunerInv
  BY SelectionInit, PrunerInit DEF EitherInit
<1>2. [EitherNext]_<<part, vars, branchVars>> => [Next]_vars /\ [Pruning!Next]_Pruning!vars
  BY DEF EitherNext, branchVars, Pruning!vars, Pruning!prunerVars
<1>3. EitherSpec => [](SelectionInv /\ PrunerInv)
  BY <1>1, <1>2, SelectionStep, PrunerStep, PTL DEF EitherSpec
<1>4. SelectionInv /\ PrunerInv => BothTypeOK
  BY DEF SelectionInv, PrunerInv, PrunerTyped, BothTypeOK, Pruning!TypeOK
<1> QED BY <1>3, <1>4, PTL
=============================================================================
