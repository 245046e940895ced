--------------------------- MODULE Network_proofs ---------------------------
(***************************************************************************)
(* What the components of MCNetwork keep, for every set of paths, record   *)
(* variants and operations, commits, listeners, repositories, ranges,      *)
(* callers and commands: that isPushPullFetchInProgress is exact, that a   *)
(* progress ends with its operation and withPushPullFetch implements       *)
(* ExclusiveAccess; that checks of commits are consistent, that git is run *)
(* once for a range, that no command waits for a server in vain, and the   *)
(* types of all of them.                                                   *)
(***************************************************************************)
EXTENDS MCNetwork, SequenceTheorems, TLAPS

-----------------------------------------------------------------------------
(* Network operations.                                                     *)


Reporting == {"push", "pull", "fetch"}

\* Stronger than ProgressEndsWithOperation, and inductive: the progress is gone
\* before the operation reaches the finally of withPushPullFetch.
ProgressReported ==
    \A h \in Hash :
       pushPullFetchProgress[h] \in Reporting =>
          \E o \in Op : /\ op[o].pc \in {"git", "refresh"}
                        /\ op[o].repo = h
                        /\ op[o].kind = pushPullFetchProgress[h]

IInv == TypeOK /\ FlagMatchesOperations /\ ProgressReported

-----------------------------------------------------------------------------

\* What an assignment to one or two fields of one operation leaves alone.
LEMMA Moved ==
    ASSUME TypeOK, NEW o \in Op, NEW pc, op' = [op EXCEPT ![o].pc = pc]
    PROVE  /\ op'[o].pc = pc /\ op'[o].repo = op[o].repo
           /\ op'[o].kind = op[o].kind
           /\ \A other \in Op \ {o} : op'[other] = op[other]
BY DEF TypeOK, Operation

LEMMA MovedTo ==
    ASSUME TypeOK, NEW o \in Op, NEW pc, NEW h,
           op' = [op EXCEPT ![o].repo = h, ![o].pc = pc]
    PROVE  /\ op'[o].pc = pc /\ op'[o].repo = h
           /\ op'[o].kind = op[o].kind
           /\ \A other \in Op \ {o} : op'[other] = op[other]
BY DEF TypeOK, Operation

\* Every step keeps the state well typed.
LEMMA TypeStep ==
    ASSUME TypeOK, [Next]_vars
    PROVE  TypeOK'
<1> USE DEF TypeOK, Operation, Pc, Kind
<1>1. ASSUME NEW p \in Path, NEW v \in Variant, UpdateRepository(p, v)
      PROVE  TypeOK'
  BY <1>1 DEF UpdateRepository
<1>2. ASSUME NEW o \in Op, NEW kind \in Kind, NEW p \in Path,
             Request(o, kind, p)
      PROVE  TypeOK'
  <2>1. <<p, variant[p]>> \in Hash
    BY DEF Hash
  <2> QED
    BY <1>2, <2>1 DEF Request
<1>3. ASSUME NEW o \in Op, Continue(o)
      PROVE  TypeOK'
  <2> DEFINE r == op[o].repo
  <2>0. /\ op[o] \in Operation /\ r \in Hash
        /\ op[o].kind \in Kind \cup {None}
        /\ RepositoryAfterRefresh(o) \subseteq Hash
    BY DEF RepositoryAfterRefresh, Hash
  <2>1. CASE PushWithoutRemote(o) BY <2>1 DEF PushWithoutRemote, Goto
  <2>2. CASE Refuse(o) BY <2>0, <2>2 DEF Refuse
  <2>3. CASE Enter(o) BY <2>0, <2>3 DEF Enter, SetInProgress, Progress
  <2>4. CASE MergeBase(o)
    <3>1. /\ op' \in [Op -> Operation]
          /\ UNCHANGED <<variant, isPushPullFetchInProgress>>
      BY <2>4 DEF MergeBase, Goto
    <3>2. pushPullFetchProgress' \in [Hash -> Kind \cup {None}]
      BY <2>0, <2>4 DEF MergeBase, Progress
    <3> QED BY <3>1, <3>2
  <2>5. CASE GitDone(o)
    <3>1. /\ op' \in [Op -> Operation]
          /\ UNCHANGED <<variant, isPushPullFetchInProgress>>
      BY <2>5 DEF GitDone, Goto
    <3>2. pushPullFetchProgress' \in [Hash -> Kind \cup {None}]
      BY <2>0, <2>5 DEF GitDone, Progress
    <3> QED BY <3>1, <3>2
  <2>6. CASE GitFailed(o) BY <2>0, <2>6 DEF GitFailed, Goto, Progress
  <2>7. CASE IndicatorFetchDone(o)
    <3>1. PICK threw \in BOOLEAN :
             op' = [op EXCEPT ![o].pc = "release", ![o].threw = threw]
      BY <2>7 DEF IndicatorFetchDone
    <3>2. op' \in [Op -> Operation]
      BY <3>1
    <3> QED BY <2>7, <3>2 DEF IndicatorFetchDone
  <2>8. CASE RefreshDone(o) BY <2>0, <2>8 DEF RefreshDone, Goto, Progress
  <2>9. CASE Release(o) BY <2>9 DEF Release, Goto, SetInProgress
  <2>10. CASE IndicatorClear(o) BY <2>0, <2>10 DEF IndicatorClear, Goto, Progress
  <2> QED
    BY <1>3, <2>1, <2>2, <2>3, <2>4, <2>5, <2>6, <2>7, <2>8, <2>9, <2>10
       DEF Continue
<1>4. ASSUME NEW o \in Op, Report(o)
      PROVE  TypeOK'
  BY <1>4 DEF Report, Progress
<1>5. CASE UNCHANGED vars
  BY <1>5 DEF vars
<1> QED
  BY <1>1, <1>2, <1>3, <1>4, <1>5 DEF Next

\* A step of withPushPullFetch that takes the flag of one state, by an
\* operation that was outside, and puts that operation inside.
LEMMA Entering ==
    ASSUME TypeOK, TypeOK', FlagMatchesOperations,
           NEW o \in Op, NEW h \in Hash,
           ~Inside(o), ~isPushPullFetchInProgress[h],
           isPushPullFetchInProgress' =
              [isPushPullFetchInProgress EXCEPT ![h] = TRUE],
           Inside(o)', op'[o].repo = h,
           \A other \in Op \ {o} : op'[other] = op[other]
    PROVE  FlagMatchesOperations'
BY DEF FlagMatchesOperations, TypeOK, Inside

\* A step by one operation that neither moves it across the boundary of
\* withPushPullFetch, nor to another state while it is inside.
LEMMA Staying ==
    ASSUME TypeOK, TypeOK', FlagMatchesOperations,
           NEW o \in Op,
           UNCHANGED isPushPullFetchInProgress,
           Inside(o)' <=> Inside(o),
           Inside(o) => op'[o].repo = op[o].repo,
           \A other \in Op \ {o} : op'[other] = op[other]
    PROVE  FlagMatchesOperations'
BY DEF FlagMatchesOperations, TypeOK, Inside

\* The finally: the operation inside leaves and resets the flag of its state.
LEMMA Leaving ==
    ASSUME TypeOK, TypeOK', FlagMatchesOperations,
           NEW o \in Op,
           Inside(o), ~Inside(o)',
           isPushPullFetchInProgress' =
              [isPushPullFetchInProgress EXCEPT ![op[o].repo] = FALSE],
           \A other \in Op \ {o} : op'[other] = op[other]
    PROVE  FlagMatchesOperations'
<1>1. op[o].repo \in Hash
  BY DEF TypeOK, Operation
<1>2. \A other \in Op : Inside(other)' <=> Inside(other) /\ other # o
  BY DEF Inside
<1>3. \A h \in Hash :
         isPushPullFetchInProgress'[h]
            <=> \E other \in Op : Inside(other)' /\ op'[other].repo = h
  <2>1. ASSUME NEW h \in Hash
        PROVE  isPushPullFetchInProgress'[h]
                  <=> isPushPullFetchInProgress[h] /\ h # op[o].repo
    BY <1>1 DEF TypeOK
  <2> QED
    BY <1>2, <2>1 DEF FlagMatchesOperations
<1> QED
  BY <1>2, <1>3 DEF FlagMatchesOperations

\* Every step keeps the flag exact.
LEMMA FlagStep ==
    ASSUME TypeOK, TypeOK', FlagMatchesOperations, [Next]_vars
    PROVE  FlagMatchesOperations'
<1> USE DEF TypeOK, Operation, Inside
<1>1. ASSUME NEW p \in Path, NEW v \in Variant, UpdateRepository(p, v)
      PROVE  FlagMatchesOperations'
  BY <1>1 DEF UpdateRepository, FlagMatchesOperations
<1>2. ASSUME NEW o \in Op, NEW kind \in Kind, NEW p \in Path,
             Request(o, kind, p)
      PROVE  FlagMatchesOperations'
  BY <1>2, Staying DEF Request
<1>3. ASSUME NEW o \in Op, Continue(o)
      PROVE  FlagMatchesOperations'
  <2>1. CASE PushWithoutRemote(o) BY <2>1, Staying DEF PushWithoutRemote, Goto
  <2>2. CASE Refuse(o) BY <2>2, Staying DEF Refuse
  <2>3. CASE Enter(o)
    <3>1. PICK h \in RepositoryAfterRefresh(o) :
             /\ ~isPushPullFetchInProgress[h]
             /\ SetInProgress(h, TRUE)
             /\ \E pc \in {"git", "mergeBase", "release"} :
                   op' = [op EXCEPT ![o].repo = h, ![o].pc = pc]
      BY <2>3 DEF Enter
    <3>2. h \in Hash
      BY <3>1 DEF RepositoryAfterRefresh, Hash
    <3>3. /\ Inside(o)' /\ op'[o].repo = h
          /\ \A other \in Op \ {o} : op'[other] = op[other]
      BY <3>1
    <3>4. ~Inside(o)
      BY <2>3 DEF Enter
    <3> QED
      BY <3>1, <3>2, <3>3, <3>4, Entering DEF SetInProgress
  <2>4. CASE MergeBase(o) BY <2>4, Staying DEF MergeBase, Goto
  <2>5. CASE GitDone(o) BY <2>5, Staying DEF GitDone, Goto
  <2>6. CASE GitFailed(o) BY <2>6, Staying DEF GitFailed, Goto
  <2>7. CASE IndicatorFetchDone(o) BY <2>7, Staying DEF IndicatorFetchDone
  <2>8. CASE RefreshDone(o) BY <2>8, Staying DEF RefreshDone, Goto
  <2>9. CASE Release(o) BY <2>9, Leaving DEF Release, Goto, SetInProgress
  <2>10. CASE IndicatorClear(o) BY <2>10, Staying DEF IndicatorClear, Goto
  <2> QED
    BY <1>3, <2>1, <2>2, <2>3, <2>4, <2>5, <2>6, <2>7, <2>8, <2>9, <2>10
       DEF Continue
<1>4. ASSUME NEW o \in Op, Report(o)
      PROVE  FlagMatchesOperations'
  BY <1>4 DEF Report, FlagMatchesOperations
<1>5. CASE UNCHANGED vars
  BY <1>5 DEF vars, FlagMatchesOperations
<1> QED
  BY <1>1, <1>2, <1>3, <1>4, <1>5 DEF Next

\* Every step keeps reported progress within the operation that reported it.
LEMMA ProgressStep ==
    ASSUME IInv, TypeOK', [Next]_vars
    PROVE  ProgressReported'
<1> USE DEF IInv
<1>1. ASSUME NEW p \in Path, NEW v \in Variant, UpdateRepository(p, v)
      PROVE  ProgressReported'
  BY <1>1 DEF UpdateRepository, ProgressReported
<1>2. ASSUME NEW o \in Op, NEW kind \in Kind, NEW p \in Path,
             Request(o, kind, p)
      PROVE  ProgressReported'
  BY <1>2 DEF Request, ProgressReported, TypeOK
<1>3. ASSUME NEW o \in Op, Continue(o)
      PROVE  ProgressReported'
  <2>0. op[o].repo \in Hash /\ op[o] \in Operation
    BY DEF TypeOK, Operation
  <2>1. CASE PushWithoutRemote(o)
    BY <2>1 DEF PushWithoutRemote, Goto, ProgressReported, TypeOK
  <2>2. CASE Refuse(o)
    BY <2>2 DEF Refuse, ProgressReported, TypeOK
  <2>3. CASE Enter(o)
    <3>1. PICK h \in RepositoryAfterRefresh(o), pc \in Pc :
             /\ op' = [op EXCEPT ![o].repo = h, ![o].pc = pc]
             /\ \/ UNCHANGED pushPullFetchProgress
                \/ pc = "git" /\ Progress(h, op[o].kind)
      BY <2>3 DEF Enter, Pc
    <3>2. h \in Hash
      BY <2>0, <3>1 DEF RepositoryAfterRefresh, Hash, TypeOK
    <3>3. op[o].pc = "account"
      BY <2>3 DEF Enter
    <3> QED
      BY <2>0, <3>1, <3>2, <3>3
         DEF Progress, ProgressReported, TypeOK, Operation
  <2>4. CASE MergeBase(o)
    <3>1. CASE Goto(o, "git") /\ Progress(op[o].repo, op[o].kind)
      BY <2>0, <2>4, <3>1, Moved
         DEF MergeBase, Goto, Progress, ProgressReported, TypeOK
    <3>2. CASE Goto(o, "release") /\ UNCHANGED pushPullFetchProgress
      BY <2>4, <3>2, Moved DEF MergeBase, Goto, ProgressReported
    <3> QED
      BY <2>4, <3>1, <3>2 DEF MergeBase
  <2>5. CASE GitDone(o)
    BY <2>0, <2>5 DEF GitDone, Goto, Progress, ProgressReported, TypeOK
  <2>6. CASE GitFailed(o)
    BY <2>0, <2>6, NoneIsNoKind
       DEF GitFailed, Goto, Progress, ProgressReported, TypeOK, Reporting
  <2>7. CASE IndicatorFetchDone(o)
    BY <2>0, <2>7
       DEF IndicatorFetchDone, ProgressReported, TypeOK, Reporting
  <2>8. CASE RefreshDone(o)
    BY <2>0, <2>8, NoneIsNoKind
       DEF RefreshDone, Goto, Progress, ProgressReported, TypeOK, Reporting
  <2>9. CASE Release(o)
    BY <2>9 DEF Release, Goto, ProgressReported, TypeOK
  <2>10. CASE IndicatorClear(o)
    BY <2>0, <2>10, NoneIsNoKind
       DEF IndicatorClear, Goto, Progress, ProgressReported, TypeOK, Reporting
  <2> QED
    BY <1>3, <2>1, <2>2, <2>3, <2>4, <2>5, <2>6, <2>7, <2>8, <2>9, <2>10
       DEF Continue
<1>4. ASSUME NEW o \in Op, Report(o)
      PROVE  ProgressReported'
  BY <1>4 DEF Report, Progress, ProgressReported, TypeOK
<1>5. CASE UNCHANGED vars
  BY <1>5 DEF vars, ProgressReported
<1> QED
  BY <1>1, <1>2, <1>3, <1>4, <1>5 DEF Next

\* The initial states are well typed, with no flag set and nobody at work.
LEMMA Initially == Init => IInv
BY NoneIsNoKind
   DEF Init, IInv, TypeOK, Idle, Operation, Pc, Kind, Inside,
       FlagMatchesOperations, ProgressReported, Reporting

\* IInv is inductive.
LEMMA Inductive == Spec => []IInv
<1>1. IInv /\ [Next]_vars => IInv'
  BY TypeStep, FlagStep, ProgressStep DEF IInv
<1> QED
  BY Initially, <1>1, PTL DEF Spec

-----------------------------------------------------------------------------

\* The state is always well typed.
THEOREM TypeCorrect == Spec => []TypeOK
BY Inductive, PTL DEF IInv

\* isPushPullFetchInProgress is set exactly while one operation is between the
\* try and the finally of withPushPullFetch, for any number of operations.
THEOREM FlagCorrect == Spec => []FlagMatchesOperations
BY Inductive, PTL DEF IInv

\* The progress of a push, pull or fetch never outlives the operation.
THEOREM ProgressCorrect == Spec => []ProgressEndsWithOperation
<1>1. IInv => ProgressEndsWithOperation
  BY DEF IInv, ProgressReported, ProgressEndsWithOperation, Inside, Reporting
<1> QED
  BY Inductive, <1>1, PTL

-----------------------------------------------------------------------------

\* The operations inside withPushPullFetch, per repository state.
Workers == [h \in Hash |-> {o \in Op : Inside(o) /\ op[o].repo = h}]

\* Entering is Acquire, the finally is Release, every other step stutters.
LEMMA RefinementStep ==
    ASSUME IInv, TypeOK', [Next]_vars
    PROVE  [Exclusive!Next]_Workers
<1> USE DEF IInv, Workers
<1> DEFINE At(o, h) == Inside(o) /\ op[o].repo = h
<1>1. ASSUME NEW o \in Op, NEW h \in Hash, ~Inside(o), Inside(o)',
             op'[o].repo = h, ~isPushPullFetchInProgress[h],
             \A other \in Op \ {o} : op'[other] = op[other]
      PROVE  Exclusive!Next
  <2>1. Workers[h] = {}
    BY <1>1 DEF FlagMatchesOperations
  <2>2. \A other \in Hash : o \notin Workers[other]
    BY <1>1
  <2>3. \A o1 \in Op, k \in Hash :
           At(o1, k)' <=> IF k = h THEN o1 = o ELSE At(o1, k)
    BY <1>1, <2>1 DEF Inside
  <2>4. Workers' = [Workers EXCEPT ![h] = {o}]
    <3> HIDE DEF At
    <3>1. \A k \in Hash :
             Workers'[k] = IF k = h THEN {o} ELSE Workers[k]
      BY <2>3 DEF At
    <3> QED
      BY <3>1
  <2> QED
    BY <1>1, <2>1, <2>2, <2>4 DEF Exclusive!Next, Exclusive!Acquire
<1>2. ASSUME NEW o \in Op, Inside(o), ~Inside(o)',
             \A other \in Op \ {o} : op'[other] = op[other]
      PROVE  Exclusive!Next
  <2> DEFINE h == op[o].repo
  <2>1. h \in Hash
    BY DEF TypeOK, Operation
  <2>2. Workers[h] = {o}
    BY <1>2, <2>1 DEF FlagMatchesOperations
  <2>3. \A o1 \in Op, k \in Hash :
           At(o1, k)' <=> At(o1, k) /\ k # h
    <3>1. \A o1 \in Op : Inside(o1) /\ op[o1].repo = h => o1 = o
      BY <1>2 DEF FlagMatchesOperations
    <3>2. \A o1 \in Op : Inside(o1)' <=> Inside(o1) /\ o1 # o
      BY <1>2 DEF Inside
    <3> QED
      BY <1>2, <3>1, <3>2
  <2>4. Workers' = [Workers EXCEPT ![h] = {}]
    <3>1. \A k \in Hash :
             Workers'[k] = IF k = h THEN {} ELSE Workers[k]
      BY <2>3
    <3> QED
      BY <3>1
  <2> QED
    BY <2>1, <2>2, <2>4 DEF Exclusive!Next, Exclusive!Release
<1>3. ASSUME NEW o \in Op, Inside(o)' <=> Inside(o),
             Inside(o) => op'[o].repo = op[o].repo,
             \A other \in Op \ {o} : op'[other] = op[other]
      PROVE  UNCHANGED Workers
  <2>1. \A o1 \in Op, k \in Hash : At(o1, k)' <=> At(o1, k)
    BY <1>3 DEF Inside
  <2> QED
    BY <2>1
<1>4. ASSUME UNCHANGED op
      PROVE  UNCHANGED Workers
  BY <1>4 DEF Inside
<1>5. ASSUME NEW o \in Op, NEW kind \in Kind, NEW p \in Path,
             Request(o, kind, p)
      PROVE  UNCHANGED Workers
  <2>1. /\ ~Inside(o) /\ ~Inside(o)'
        /\ \A other \in Op \ {o} : op'[other] = op[other]
    BY <1>5 DEF Request, TypeOK, Inside
  <2> QED
    BY <1>3, <2>1
<1>6. ASSUME NEW o \in Op, Continue(o)
      PROVE  [Exclusive!Next]_Workers
  <2>1. CASE Enter(o)
    <3>1. PICK h \in RepositoryAfterRefresh(o),
               pc \in {"git", "mergeBase", "release"} :
             /\ ~isPushPullFetchInProgress[h]
             /\ op' = [op EXCEPT ![o].repo = h, ![o].pc = pc]
      BY <2>1 DEF Enter
    <3>2. h \in Hash
      BY DEF RepositoryAfterRefresh, TypeOK, Operation, Hash
    <3>3. ~Inside(o) /\ Inside(o)'
      BY <2>1, <3>1, MovedTo DEF Enter, Inside
    <3>4. /\ op'[o].repo = h
          /\ \A other \in Op \ {o} : op'[other] = op[other]
      BY <3>1, MovedTo
    <3>5. Exclusive!Next
      BY <1>1, <3>1, <3>2, <3>3, <3>4
    <3> QED
      BY <3>5
  <2>2. CASE Release(o)
    <3>1. PICK pc \in {"idle", "clear"} : op' = [op EXCEPT ![o].pc = pc]
      BY <2>2 DEF Release, Goto
    <3>2. /\ op'[o].pc = pc
          /\ \A other \in Op \ {o} : op'[other] = op[other]
      BY <3>1, Moved
    <3>3. Inside(o) /\ ~Inside(o)'
      BY <2>2, <3>2 DEF Release, Inside
    <3>4. Exclusive!Next
      BY <1>2, <3>2, <3>3
    <3> QED
      BY <3>4
  <2>3. ASSUME NEW pc, Goto(o, pc),
               Inside(o) <=> pc \in {"mergeBase", "git", "refresh", "release"}
        PROVE  UNCHANGED Workers
    <3>1. /\ op'[o].pc = pc /\ op'[o].repo = op[o].repo
          /\ \A other \in Op \ {o} : op'[other] = op[other]
      BY <2>3, Moved DEF Goto
    <3>2. Inside(o)' <=> Inside(o)
      BY <2>3, <3>1 DEF Inside
    <3> QED
      BY <1>3, <3>1, <3>2
  <2>4. CASE PushWithoutRemote(o) \/ IndicatorClear(o)
    BY <2>3, <2>4 DEF PushWithoutRemote, IndicatorClear, Inside
  <2>5. CASE Refuse(o)
    <3>1. PICK h \in RepositoryAfterRefresh(o), pc \in {"idle", "clear"} :
             op' = [op EXCEPT ![o].repo = h, ![o].pc = pc]
      BY <2>5 DEF Refuse
    <3>2. ~Inside(o) /\ ~Inside(o)'
      BY <2>5, <3>1, MovedTo DEF Refuse, Inside
    <3> QED
      BY <1>3, <3>1, <3>2, MovedTo
  <2>6. CASE MergeBase(o)
    BY <2>3, <2>6 DEF MergeBase, Inside
  <2>7. CASE GitDone(o) \/ GitFailed(o) \/ RefreshDone(o)
    BY <2>3, <2>7 DEF GitDone, GitFailed, RefreshDone, Inside
  <2>8. CASE IndicatorFetchDone(o)
    <3>1. /\ op[o].pc = "git" /\ op'[o].pc = "release"
          /\ op'[o].repo = op[o].repo
          /\ \A other \in Op \ {o} : op'[other] = op[other]
      BY <2>8 DEF IndicatorFetchDone, TypeOK, Operation
    <3> QED
      BY <1>3, <3>1 DEF Inside
  <2> QED
    BY <1>6, <2>1, <2>2, <2>4, <2>5, <2>6, <2>7, <2>8 DEF Continue
<1> QED
  BY <1>4, <1>5, <1>6 DEF Next, vars, UpdateRepository, Report

\* withPushPullFetch implements ExclusiveAccess.
THEOREM Refinement == Spec => ExclusivePerState
<1>1. Init => Exclusive!Init
  BY DEF Init, Idle, Inside, Exclusive!Init
<1>2. IInv /\ IInv' /\ [Next]_vars => [Exclusive!Next]_Workers
  BY RefinementStep DEF IInv
<1> QED
  BY Inductive, <1>1, <1>2, PTL
     DEF Spec, ExclusivePerState, Exclusive!Spec, Workers


-----------------------------------------------------------------------------
(* The trampoline server.                                                  *)

TrampolineInv == Trampoline!TypeOK /\ WaitsForStart

LEMMA TrampolineInit ==
    ASSUME Trampoline!Init
    PROVE  TrampolineInv
BY TrampolineAssumed
   DEF Trampoline!TrampolineAssumption, Trampoline!Init, TrampolineInv, Trampoline!TypeOK,
       WaitsForStart, Trampoline!WaitsForStart, Trampoline!Waiting

\* What settling the promise does to the commands.
LEMMA PromiseSettled ==
    ASSUME Trampoline!TypeOK, NEW pc \in {"idle", "runs"}, Trampoline!Settle(pc)
    PROVE  /\ command' \in [Command -> {"idle", "awaitsPort", "runs"}]
           /\ Trampoline!Waiting' = {}
           /\ \A c \in Command :
                command'[c] # "idle" <=>
                   IF c \in Trampoline!Waiting THEN pc # "idle" ELSE command[c] # "idle"
<1>1. \A c \in Command : command'[c] = IF c \in Trampoline!Waiting THEN pc ELSE command[c]
  BY DEF Trampoline!Settle
<1> QED
  BY <1>1 DEF Trampoline!TypeOK, Trampoline!Settle, Trampoline!Waiting

LEMMA TrampolineStep ==
    ASSUME TrampolineInv, [Trampoline!Next]_Trampoline!vars
    PROVE  TrampolineInv'
<1> USE TrampolineAssumed
    DEF Trampoline!TrampolineAssumption, TrampolineInv, Trampoline!TypeOK, WaitsForStart,
        Trampoline!WaitsForStart, Trampoline!Waiting
<1>1. CASE Trampoline!Listening
  <2>1. /\ command' \in [Command -> {"idle", "awaitsPort", "runs"}] /\ Trampoline!Waiting' = {}
        /\ \A c \in Command : command'[c] # "idle" <=> command[c] # "idle"
    <3>1. Trampoline!Settle("runs")
      BY <1>1 DEF Trampoline!Listening
    <3> QED
      BY <3>1, PromiseSettled
  <2> QED
    BY <1>1, <2>1 DEF Trampoline!Listening
<1>2. CASE Trampoline!ListenFails
  <2>1. /\ command' \in [Command -> {"idle", "awaitsPort", "runs"}] /\ Trampoline!Waiting' = {}
        /\ \A c \in Command :
             command'[c] # "idle" <=> c \notin Trampoline!Waiting /\ command[c] # "idle"
    <3>1. Trampoline!Settle("idle")
      BY <1>2 DEF Trampoline!ListenFails
    <3> QED
      BY <3>1, PromiseSettled
  <2>2. errors' \in 0 .. MaxErrors
    BY <1>2 DEF Trampoline!ListenFails
  <2>3. tokens' = {c \in Command : command'[c] # "idle"}
    BY <1>2, <2>1 DEF Trampoline!ListenFails
  <2> QED
    BY <1>2, <2>1, <2>2, <2>3 DEF Trampoline!ListenFails
<1>3. CASE Trampoline!ServerError
  BY <1>3 DEF Trampoline!ServerError
<1>4. ASSUME NEW c \in Command, Trampoline!RequestPort(c)
      PROVE  TrampolineInv'
  BY <1>4 DEF Trampoline!RequestPort
<1>5. ASSUME NEW c \in Command, Trampoline!GitEnds(c)
      PROVE  TrampolineInv'
  BY <1>5 DEF Trampoline!GitEnds
<1>6. CASE UNCHANGED Trampoline!vars
  BY <1>6 DEF Trampoline!vars
<1> QED
  BY <1>1, <1>2, <1>3, <1>4, <1>5, <1>6 DEF Trampoline!Next

LEMMA TrampolineInductive == Trampoline!Spec => []TrampolineInv
BY TrampolineInit, TrampolineStep, PTL DEF Trampoline!Spec

\* While a git command waits for the port the server is being started: however
\* often the server failed before, none is left waiting (getPort).
THEOREM NoneIsLeftWaiting == Trampoline!Spec => []WaitsForStart
BY TrampolineInductive, PTL DEF TrampolineInv

-----------------------------------------------------------------------------
(* The ahead-behind store.                                                 *)


\* git has been run for a range once if there is an answer or a worker for it, and
\* not at all before.
RunsAreSeen ==
    \A r \in CommitRange :
       runs[r] = IF distances[r] # "undefined" \/ r \in workers THEN 1 ELSE 0

AheadBehindInv == limited \in Seq(Caller) /\ AheadBehind!TypeOK /\ RunsAreSeen

LEMMA AheadBehindInit ==
    ASSUME AheadBehind!Init
    PROVE  AheadBehindInv
BY DEF AheadBehind!Init, AheadBehindInv, AheadBehind!TypeOK, RunsAreSeen, AheadBehind!Pc,
       AheadBehind!Awaiting, AheadBehind!IsInjective, AheadBehind!ToSet

\* The limiter's queue when a caller joins it, and when the first one leaves.
LEMMA QueueJoined ==
    ASSUME NEW q \in Seq(Caller), AheadBehind!IsInjective(q),
           NEW c \in Caller, c \notin AheadBehind!ToSet(q)
    PROVE  /\ Append(q, c) \in Seq(Caller)
           /\ AheadBehind!IsInjective(Append(q, c))
           /\ AheadBehind!ToSet(Append(q, c)) = AheadBehind!ToSet(q) \cup {c}
<1> DEFINE a == Append(q, c)
<1>1. /\ a \in Seq(Caller) /\ Len(a) = Len(q) + 1 /\ Len(q) \in Nat
      /\ DOMAIN a = 1 .. Len(q) + 1 /\ DOMAIN q = 1 .. Len(q)
      /\ \A i \in 1 .. Len(q) : a[i] = q[i]
      /\ a[Len(q) + 1] = c
  OBVIOUS
<1> HIDE DEF a
<1>2. \A i \in 1 .. Len(q) : q[i] # c
  BY <1>1 DEF AheadBehind!ToSet
<1>3. AheadBehind!IsInjective(a)
  <2> SUFFICES ASSUME NEW i \in 1 .. Len(q) + 1, NEW j \in 1 .. Len(q) + 1, a[i] = a[j]
               PROVE  i = j
    BY <1>1 DEF AheadBehind!IsInjective
  <2>1. \A k \in 1 .. Len(q) + 1 : k \in 1 .. Len(q) \/ k = Len(q) + 1
    BY <1>1
  <2> QED
    BY <1>1, <1>2, <2>1 DEF AheadBehind!IsInjective
<1>4. AheadBehind!ToSet(a) = AheadBehind!ToSet(q) \cup {c}
  <2>1. 1 .. Len(q) + 1 = (1 .. Len(q)) \cup {Len(q) + 1}
    BY <1>1
  <2> QED
    BY <1>1, <2>1 DEF AheadBehind!ToSet
<1> QED
  BY <1>1, <1>3, <1>4 DEF a

LEMMA QueueLeft ==
    ASSUME NEW q \in Seq(Caller), q # <<>>, AheadBehind!IsInjective(q)
    PROVE  /\ Head(q) \in AheadBehind!ToSet(q)
           /\ Tail(q) \in Seq(Caller)
           /\ AheadBehind!IsInjective(Tail(q))
           /\ AheadBehind!ToSet(Tail(q)) = AheadBehind!ToSet(q) \ {Head(q)}
<1> DEFINE t == Tail(q)
<1>1. /\ t \in Seq(Caller) /\ Len(t) = Len(q) - 1 /\ Len(q) \in Nat /\ Len(q) >= 1
      /\ DOMAIN t = 1 .. Len(q) - 1 /\ DOMAIN q = 1 .. Len(q)
      /\ \A i \in 1 .. Len(q) - 1 : t[i] = q[i + 1]
      /\ Head(q) = q[1]
  BY EmptySeq, HeadTailProperties
<1> HIDE DEF t
<1>2. \A i, j \in 1 .. Len(q) : q[i] = q[j] => i = j
  BY <1>1 DEF AheadBehind!IsInjective
<1>3. AheadBehind!IsInjective(t)
  <2> SUFFICES ASSUME NEW i \in 1 .. Len(q) - 1, NEW j \in 1 .. Len(q) - 1, t[i] = t[j]
               PROVE  i = j
    BY <1>1 DEF AheadBehind!IsInjective
  <2> QED
    BY <1>1, <1>2
<1>4. ASSUME NEW e
      PROVE  e \in AheadBehind!ToSet(t) <=> e \in AheadBehind!ToSet(q) \ {Head(q)}
  <2>0. /\ e \in AheadBehind!ToSet(t) <=> \E i \in 1 .. Len(q) - 1 : t[i] = e
        /\ e \in AheadBehind!ToSet(q) <=> \E j \in 1 .. Len(q) : q[j] = e
    BY <1>1 DEF AheadBehind!ToSet
  <2>1. ASSUME NEW i \in 1 .. Len(q) - 1, t[i] = e
        PROVE  (\E j \in 1 .. Len(q) : q[j] = e) /\ e # q[1]
    <3>1. i + 1 \in 1 .. Len(q) /\ 1 \in 1 .. Len(q) /\ q[i + 1] = e
      BY <1>1, <2>1
    <3> QED BY <1>2, <3>1
  <2>2. ASSUME NEW j \in 1 .. Len(q), q[j] = e, e # q[1]
        PROVE  \E i \in 1 .. Len(q) - 1 : t[i] = e
    <3>1. j - 1 \in 1 .. Len(q) - 1 /\ t[j - 1] = e
      BY <1>1, <2>2
    <3> QED BY <3>1
  <2> QED BY <1>1, <2>0, <2>1, <2>2
<1>5. Head(q) \in AheadBehind!ToSet(q)
  BY <1>1 DEF AheadBehind!ToSet
<1> QED
  BY <1>1, <1>3, <1>4, <1>5 DEF t

\* A call that goes on keeps its range, and the others stay where they are.
LEMMA CallMoved ==
    ASSUME AheadBehind!TypeOK, NEW c \in Caller, NEW pc \in AheadBehind!Pc,
           AheadBehind!Goto(c, pc)
    PROVE  /\ call' \in [Caller -> [range : CommitRange, pc : AheadBehind!Pc]]
           /\ call'[c].pc = pc /\ call'[c].range = call[c].range
           /\ \A other \in Caller \ {c} : call'[other] = call[other]
BY DEF AheadBehind!TypeOK, AheadBehind!Goto

LEMMA AheadBehindStep ==
    ASSUME AheadBehindInv, [AheadBehind!Next]_AheadBehind!vars
    PROVE  AheadBehindInv'
<1> DEFINE Calls == [Caller -> [range : CommitRange, pc : AheadBehind!Pc]]
<1>0. /\ distances \in [CommitRange -> {"undefined", "null", "known"}]
      /\ call \in Calls /\ disposed \subseteq Caller /\ called \subseteq Caller
      /\ runs \in [CommitRange -> Nat]
      /\ limited \in Seq(Caller) /\ AheadBehind!IsInjective(limited)
      /\ AheadBehind!ToSet(limited) = {c \in Caller : call[c].pc = "queued"}
      /\ \A r : r \in workers <=> \E c \in Caller : call[c].pc = "awaits" /\ call[c].range = r
      /\ AheadBehind!TypeOK
  BY DEF AheadBehindInv, AheadBehind!TypeOK, AheadBehind!Awaiting
<1>00. ASSUME (/\ distances \in [CommitRange -> {"undefined", "null", "known"}]
               /\ call \in Calls /\ disposed \subseteq Caller /\ called \subseteq Caller
               /\ runs \in [CommitRange -> Nat]
               /\ limited \in Seq(Caller) /\ AheadBehind!IsInjective(limited)
               /\ AheadBehind!ToSet(limited) = {c \in Caller : call[c].pc = "queued"}
               /\ \A r : r \in workers <=> \E c \in Caller : call[c].pc = "awaits" /\ call[c].range = r
               /\ RunsAreSeen)'
       PROVE  AheadBehindInv'
  BY <1>00 DEF AheadBehindInv, AheadBehind!TypeOK, AheadBehind!Awaiting
<1>1. ASSUME NEW c \in Caller, AheadBehind!GetAheadBehind(c)
      PROVE  AheadBehindInv'
  <2>1. /\ UNCHANGED <<distances, workers, disposed, runs>> /\ call[c].pc = "none"
        /\ called' = called \/ called' = called \cup {c}
        /\ \/ AheadBehind!Goto(c, "over") /\ limited' = limited
           \/ AheadBehind!Goto(c, "queued") /\ limited' = Append(limited, c)
    BY <1>1 DEF AheadBehind!GetAheadBehind, AheadBehind!FromCache
  <2>2. \E pc \in {"over", "queued"} : AheadBehind!Goto(c, pc)
    BY <2>1
  <2>3. /\ call' \in Calls /\ call'[c].pc \in {"over", "queued"}
        /\ \A other \in Caller \ {c} : call'[other] = call[other]
    BY <1>0, <2>2, CallMoved DEF AheadBehind!Pc
  <2>4. /\ (limited \in Seq(Caller) /\ AheadBehind!IsInjective(limited))'
        /\ AheadBehind!ToSet(limited') = {o \in Caller : call'[o].pc = "queued"}
    <3>0. AheadBehind!ToSet(limited) = {o \in Caller : call[o].pc = "queued"}
      BY <1>0
    <3>1. CASE AheadBehind!Goto(c, "over") /\ limited' = limited
      <4>1. call'[c].pc = "over"
        BY <1>0, <3>1, CallMoved DEF AheadBehind!Pc
      <4>2. {o \in Caller : call'[o].pc = "queued"} = {o \in Caller : call[o].pc = "queued"}
        BY <2>1, <2>3, <4>1
      <4> QED BY <1>0, <3>1, <4>2
    <3>2. CASE AheadBehind!Goto(c, "queued") /\ limited' = Append(limited, c)
      <4>1. call'[c].pc = "queued"
        BY <1>0, <3>2, CallMoved DEF AheadBehind!Pc
      <4>2. c \notin AheadBehind!ToSet(limited)
        BY <1>0, <2>1
      <4>3. /\ limited' \in Seq(Caller) /\ AheadBehind!IsInjective(limited')
            /\ AheadBehind!ToSet(limited') = AheadBehind!ToSet(limited) \cup {c}
        BY <1>0, <3>2, <4>2, QueueJoined
      <4>4. {o \in Caller : call'[o].pc = "queued"}
              = {o \in Caller : call[o].pc = "queued"} \cup {c}
        BY <2>1, <2>3, <4>1
      <4> QED BY <1>0, <4>3, <4>4
    <3> QED BY <2>1, <3>1, <3>2
  <2>5. RunsAreSeen'
    BY <2>1 DEF AheadBehindInv, RunsAreSeen
  <2> QED
    <3>1. \A e : \A o \in Caller : call'[o].pc = "awaits" /\ call'[o].range = e
                                  <=> call[o].pc = "awaits" /\ call[o].range = e
      BY <2>1, <2>3
    <3>2. \A e : e \in workers' <=> \E o \in Caller : call'[o].pc = "awaits" /\ call'[o].range = e
      <4>1. /\ workers' = workers
            /\ \A e : e \in workers
                 <=> \E o \in Caller : call[o].pc = "awaits" /\ call[o].range = e
        BY <1>0, <2>1
      <4> QED BY <3>1, <4>1
    <3>3. called' \subseteq Caller
      BY <1>0, <2>1
    <3> QED
      BY <1>0, <1>00, <2>1, <2>3, <2>4, <2>5, <3>2, <3>3
<1>2. ASSUME NEW c \in Caller, AheadBehind!Dispose(c)
      PROVE  AheadBehindInv'
  <2>1. /\ UNCHANGED <<distances, workers, limited, call, called, runs>>
        /\ disposed' \subseteq Caller
    BY <1>0, <1>2 DEF AheadBehind!Dispose
  <2> QED
    BY <1>0, <1>00, <2>1 DEF AheadBehindInv, RunsAreSeen
<1>3. CASE AheadBehind!RunLimited
  <2> DEFINE c == Head(limited)
             r == call[c].range
  <2>1. limited # <<>> /\ limited' = Tail(limited) /\ UNCHANGED <<distances, disposed>>
    BY <1>3 DEF AheadBehind!RunLimited
  <2>2. /\ c \in Caller /\ call[c].pc = "queued" /\ r \in CommitRange
        /\ limited' \in Seq(Caller) /\ AheadBehind!IsInjective(limited')
        /\ AheadBehind!ToSet(limited') = {o \in Caller : call[o].pc = "queued"} \ {c}
    <3>1. /\ c \in AheadBehind!ToSet(limited)
          /\ Tail(limited) \in Seq(Caller) /\ AheadBehind!IsInjective(Tail(limited))
          /\ AheadBehind!ToSet(Tail(limited)) = AheadBehind!ToSet(limited) \ {c}
      BY <1>0, <2>1, QueueLeft
    <3> QED BY <1>0, <2>1, <3>1
  <2>3. ASSUME NEW pc \in {"over", "awaits"}, AheadBehind!Goto(c, pc)
        PROVE  /\ call' \in Calls /\ call'[c].pc = pc /\ call'[c].range = r
               /\ \A other \in Caller \ {c} : call'[other] = call[other]
               /\ AheadBehind!ToSet(limited') = {o \in Caller : call'[o].pc = "queued"}
    <3>1. /\ call' \in Calls /\ call'[c].pc = pc /\ call'[c].range = r
          /\ \A other \in Caller \ {c} : call'[other] = call[other]
      BY <1>0, <2>2, <2>3, CallMoved DEF AheadBehind!Pc
    <3> QED BY <2>2, <3>1
  <2>4. CASE /\ AheadBehind!Goto(c, "over")
             /\ UNCHANGED <<workers, runs>>
             /\ called' = called \/ called' = called \cup {c}
    <3>1. RunsAreSeen'
      BY <2>1, <2>4 DEF AheadBehindInv, RunsAreSeen
    <3>2. /\ call' \in Calls /\ call'[c].pc = "over"
          /\ \A other \in Caller \ {c} : call'[other] = call[other]
          /\ AheadBehind!ToSet(limited') = {o \in Caller : call'[o].pc = "queued"}
      BY <2>3, <2>4
    <3> HIDE DEF c
    <3>3. \A e : e \in workers' <=> \E o \in Caller : call'[o].pc = "awaits" /\ call'[o].range = e
      <4>1. \A e : \A o \in Caller : call'[o].pc = "awaits" /\ call'[o].range = e
                                    <=> call[o].pc = "awaits" /\ call[o].range = e
        BY <2>2, <3>2
      <4> QED BY <1>0, <2>4, <4>1
    <3> QED
      BY <1>0, <1>00, <2>1, <2>2, <2>4, <3>1, <3>2, <3>3
  <2>5. CASE /\ distances[r] = "undefined"
             /\ AheadBehind!Goto(c, "awaits") /\ workers' = workers \cup {r}
             /\ runs' = IF r \in workers THEN runs ELSE [runs EXCEPT ![r] = @ + 1]
             /\ UNCHANGED called
    <3>1. /\ call' \in Calls /\ call'[c].pc = "awaits" /\ call'[c].range = r
          /\ \A other \in Caller \ {c} : call'[other] = call[other]
          /\ AheadBehind!ToSet(limited') = {o \in Caller : call'[o].pc = "queued"}
      BY <2>3, <2>5
    <3>2. /\ runs' \in [CommitRange -> Nat] /\ runs'[r] = 1
          /\ \A other \in CommitRange \ {r} : runs'[other] = runs[other]
      BY <1>0, <2>2, <2>5 DEF AheadBehindInv, RunsAreSeen
    <3>3. RunsAreSeen'
      BY <2>1, <2>2, <2>5, <3>2 DEF AheadBehindInv, RunsAreSeen
    <3> HIDE DEF c
    <3>4. \A e : e \in workers' <=> \E o \in Caller : call'[o].pc = "awaits" /\ call'[o].range = e
      <4>1. \A e : \A o \in Caller :
              call'[o].pc = "awaits" /\ call'[o].range = e
                 <=> (call[o].pc = "awaits" /\ call[o].range = e) \/ (o = c /\ e = r)
        BY <2>2, <3>1
      <4>2. \A e : e \in workers' <=> e \in workers \/ e = r
        BY <2>5
      <4>3. \A e : e \in workers
              <=> \E o \in Caller : call[o].pc = "awaits" /\ call[o].range = e
        BY <1>0
      <4> HIDE DEF r
      <4>4. ASSUME NEW e
            PROVE  e \in workers'
                     <=> \E o \in Caller : call'[o].pc = "awaits" /\ call'[o].range = e
        <5>1. ASSUME e \in workers'
              PROVE  \E o \in Caller : call'[o].pc = "awaits" /\ call'[o].range = e
          BY <2>2, <3>1, <4>1, <4>2, <4>3, <5>1
        <5>2. ASSUME NEW o \in Caller, call'[o].pc = "awaits", call'[o].range = e
              PROVE  e \in workers'
          BY <4>1, <4>2, <4>3, <5>2
        <5> QED BY <5>1, <5>2
      <4> QED BY <4>4
    <3> QED
      BY <1>0, <1>00, <2>1, <2>2, <2>5, <3>1, <3>2, <3>3, <3>4
  <2> QED
    BY <1>3, <2>4, <2>5 DEF AheadBehind!RunLimited, AheadBehind!FromCache
<1>4. ASSUME NEW r \in CommitRange, NEW answer \in {"null", "known"},
             AheadBehind!WorkerDone(r, answer)
      PROVE  AheadBehindInv'
  <2> DEFINE waiting == {c \in AheadBehind!Awaiting : call[c].range = r}
  <2>1. /\ r \in workers /\ UNCHANGED <<limited, disposed, runs>>
        /\ workers' = workers \ {r}
        /\ distances' = [distances EXCEPT ![r] = answer]
        /\ call' = [c \in Caller |->
                      [call[c] EXCEPT !.pc = IF c \in waiting THEN "over" ELSE @]]
        /\ called' \subseteq Caller
    BY <1>0, <1>4 DEF AheadBehind!WorkerDone, AheadBehind!Awaiting
  <2>2. /\ call' \in Calls
        /\ \A c \in Caller :
              /\ call'[c].range = call[c].range
              /\ call[c].pc = "awaits" /\ call[c].range = r => call'[c].pc = "over"
              /\ ~ (call[c].pc = "awaits" /\ call[c].range = r) => call'[c].pc = call[c].pc
    BY <1>0, <2>1 DEF AheadBehind!Pc, AheadBehind!Awaiting
  <2>3. RunsAreSeen'
    BY <1>0, <2>1 DEF AheadBehindInv, RunsAreSeen
  <2>4. \A e : e \in workers' <=> \E c \in Caller : call'[c].pc = "awaits" /\ call'[c].range = e
    <3>1. \A e : \A o \in Caller :
            call'[o].pc = "awaits" /\ call'[o].range = e
               <=> (call[o].pc = "awaits" /\ call[o].range = e) /\ e # r
      BY <2>2
    <3>2. \A e : e \in workers' <=> e \in workers /\ e # r
      BY <2>1
    <3> QED BY <1>0, <3>1, <3>2
  <2>5. distances' \in [CommitRange -> {"undefined", "null", "known"}]
    BY <1>0, <2>1
  <2>6. AheadBehind!ToSet(limited') = {c \in Caller : call'[c].pc = "queued"}
    <3>1. {c \in Caller : call'[c].pc = "queued"} = {c \in Caller : call[c].pc = "queued"}
      BY <2>2
    <3> QED BY <1>0, <2>1, <3>1
  <2> QED
    BY <1>0, <1>00, <2>1, <2>2, <2>3, <2>4, <2>5, <2>6
<1>5. CASE UNCHANGED AheadBehind!vars
  BY <1>0, <1>00, <1>5 DEF AheadBehind!vars, AheadBehindInv, RunsAreSeen
<1> QED
  BY <1>1, <1>2, <1>3, <1>4, <1>5 DEF AheadBehind!Next

LEMMA AheadBehindInductive == AheadBehind!Spec => []AheadBehindInv
BY AheadBehindInit, AheadBehindStep, PTL DEF AheadBehind!Spec

\* git is run at most once for a range (AheadBehindStore's cache and workers), however
\* many callers ask, whatever they lose interest in, and although a failure is
\* remembered like an answer.
THEOREM OneRunForARange == AheadBehind!Spec => []AheadBehind!CalculatedOnce
<1>1. AheadBehindInv => AheadBehind!CalculatedOnce
  BY DEF AheadBehindInv, AheadBehind!TypeOK, RunsAreSeen, AheadBehind!CalculatedOnce
<1> QED
  BY AheadBehindInductive, <1>1, PTL
-----------------------------------------------------------------------------
(* The updater of the indicators.                                          *)

\* A pass that is past its first pause has a repository it is at.
IndicatorsInv ==
    /\ Indicators!TypeOK
    /\ \A p \in Pass : pass[p].pc \in {"refreshes", "rests", "woken"} => pass[p].at \in Repository

LEMMA IndicatorsInit ==
    ASSUME Indicators!Init
    PROVE  IndicatorsInv
BY DEF Indicators!Init, IndicatorsInv, Indicators!TypeOK, Indicators!Idle, Indicators!Pc

LEMMA IndicatorsStep ==
    ASSUME IndicatorsInv, [Indicators!Next]_Indicators!vars
    PROVE  IndicatorsInv'
<1> USE DEF IndicatorsInv, Indicators!TypeOK, Indicators!Idle, Indicators!Pc
<1> DEFINE Passes == [Pass -> [pc : Indicators!Pc, at : Repository \cup {None},
                               done : SUBSET Repository]]
\* A pass goes on, and no timer is set but while the updater runs.
<1>0. ASSUME NEW p \in Pass,
             NEW l \in [pc : Indicators!Pc, at : Repository \cup {None}, done : SUBSET Repository],
             pass' = [pass EXCEPT ![p] = l],
             l.pc \in {"restsBefore", "rests"} => paused,
             l.pc \in {"refreshes", "rests", "woken"} => l.at \in Repository,
             UNCHANGED <<enabled, running, paused, others>>,
             timer' = timer \/ timer' = running \/ timer' = FALSE
      PROVE  IndicatorsInv'
  <2>1. pass' \in Passes /\ pass'[p] = l /\ \A q \in Pass \ {p} : pass'[q] = pass[q]
    BY <1>0
  <2>2. {enabled, running, timer, paused}' \subseteq BOOLEAN /\ (timer => running)'
    <3>1. enabled \in BOOLEAN /\ running \in BOOLEAN /\ timer \in BOOLEAN /\ paused \in BOOLEAN
      OBVIOUS
    <3>2. (enabled \in BOOLEAN /\ running \in BOOLEAN /\ timer \in BOOLEAN /\ paused \in BOOLEAN)'
      BY <1>0, <3>1
    <3>3. CASE timer' = timer
      BY <1>0, <3>2, <3>3, Zenon
    <3>4. CASE timer' = running
      BY <1>0, <3>2, <3>4, Zenon
    <3>5. CASE timer' = FALSE
      BY <1>0, <3>2, <3>5, Zenon
    <3> QED BY <1>0, <3>3, <3>4, <3>5
  <2>3. (\A q \in Pass : pass[q].pc \in {"restsBefore", "rests"} => paused)'
    BY <1>0, <2>1
  <2>4. (\A q \in Pass : pass[q].pc \in {"refreshes", "rests", "woken"} => pass[q].at \in Repository)'
    BY <1>0, <2>1
  <2> QED BY <1>0, <2>1, <2>2, <2>3, <2>4
<1>1. CASE \/ Indicators!Start \/ Indicators!Enable \/ Indicators!Disable
           \/ Indicators!Pause \/ Indicators!OthersChange
  <2>1. CASE Indicators!Start
    BY <2>1 DEF Indicators!Start
  <2>2. CASE Indicators!Enable
    BY <2>2 DEF Indicators!Enable
  <2>3. CASE Indicators!Disable
    BY <2>3 DEF Indicators!Disable
  <2>4. CASE Indicators!Pause
    BY <2>4 DEF Indicators!Pause
  <2>5. CASE Indicators!OthersChange
    BY <2>5 DEF Indicators!OthersChange
  <2> QED BY <1>1, <2>1, <2>2, <2>3, <2>4, <2>5
<1>2. CASE Indicators!Resume
  <2>1. \A p \in Pass :
           /\ pass'[p] \in [pc : Indicators!Pc, at : Repository \cup {None},
                            done : SUBSET Repository]
           /\ pass'[p].pc \notin {"restsBefore", "rests"}
           /\ pass'[p].pc \in {"refreshes", "woken"} => pass'[p].at \in Repository
    BY <1>2 DEF Indicators!Resume
  <2>2. pass' \in Passes
    BY <1>2, <2>1 DEF Indicators!Resume
  <2> QED
    BY <1>2, <2>1, <2>2 DEF Indicators!Resume
\* The loop goes on with the next repository, or ends.
<1>3. ASSUME NEW p \in Pass, NEW done \in SUBSET Repository, Indicators!GoOn(p, done),
             UNCHANGED <<enabled, running, paused, others>>
      PROVE  IndicatorsInv'
  <2>1. PICK l \in [pc : {"refreshes", "idle"}, at : Repository \cup {None},
                    done : SUBSET Repository] :
           /\ pass' = [pass EXCEPT ![p] = l]
           /\ l.pc = "refreshes" => l.at \in Repository
    BY <1>3 DEF Indicators!GoOn
  <2>2. timer' = timer \/ timer' = running
    BY <1>3 DEF Indicators!GoOn
  <2> QED
    BY <1>0, <1>3, <2>1, <2>2
<1>4. ASSUME NEW p \in Pass, Indicators!Fire(p)
      PROVE  IndicatorsInv'
  <2>1. PICK l \in [pc : Indicators!Pc, at : Repository \cup {None},
                    done : SUBSET Repository] :
           /\ pass' = [pass EXCEPT ![p] = l]
           /\ l.pc \in {"restsBefore", "rests"} => paused
           /\ l.pc \in {"refreshes", "rests", "woken"} => l.at \in Repository
    <3>1. CASE paused
      <4> DEFINE l == [pass[p] EXCEPT !.pc = "restsBefore"]
      <4>1. l \in [pc : Indicators!Pc, at : Repository \cup {None}, done : SUBSET Repository]
        OBVIOUS
      <4> QED BY <1>4, <3>1, <4>1 DEF Indicators!Fire, Indicators!Goto
    <3>2. CASE ~ paused /\ others = {} /\ UNCHANGED pass
      BY <3>2
    <3>3. CASE ~ paused /\ \E r \in others :
                  pass' = [pass EXCEPT ![p] = [pc |-> "refreshes", at |-> r, done |-> {}]]
      BY <3>3
    <3> QED BY <1>4, <3>1, <3>2, <3>3 DEF Indicators!Fire
  <2>2. UNCHANGED <<enabled, running, paused, others>> /\ (timer' = timer \/ timer' = FALSE)
    BY <1>4 DEF Indicators!Fire
  <2> QED
    BY <1>0, <2>1, <2>2
<1>5. ASSUME NEW p \in Pass, Indicators!Begin(p)
      PROVE  IndicatorsInv'
  <2>1. CASE running
    BY <1>3, <1>5, <2>1 DEF Indicators!Begin
  <2>2. CASE ~ running
    BY <1>5, <2>2 DEF Indicators!Begin
  <2> QED BY <2>1, <2>2
<1>6. ASSUME NEW p \in Pass, Indicators!Refreshed(p)
      PROVE  IndicatorsInv'
  <2>1. CASE paused
    <3> DEFINE l == [pass[p] EXCEPT !.pc = "rests"]
    <3>1. l \in [pc : Indicators!Pc, at : Repository \cup {None}, done : SUBSET Repository]
      OBVIOUS
    <3>2. pass' = [pass EXCEPT ![p] = l] /\ UNCHANGED <<enabled, running, timer, paused, others>>
      BY <1>6, <2>1 DEF Indicators!Refreshed, Indicators!Goto
    <3> QED BY <1>0, <1>6, <2>1, <3>1, <3>2 DEF Indicators!Refreshed
  <2>2. CASE ~ paused
    <3>1. pass[p].done \cup {pass[p].at} \in SUBSET Repository
      BY <1>6 DEF Indicators!Refreshed
    <3> QED BY <1>3, <1>6, <2>2, <3>1 DEF Indicators!Refreshed
  <2> QED BY <2>1, <2>2
<1>7. ASSUME NEW p \in Pass, Indicators!Rested(p)
      PROVE  IndicatorsInv'
  BY <1>3, <1>7 DEF Indicators!Rested
<1>8. ASSUME NEW p \in Pass, Indicators!Throws(p)
      PROVE  IndicatorsInv'
  BY <1>8 DEF Indicators!Throws
<1>9. CASE UNCHANGED Indicators!vars
  BY <1>9 DEF Indicators!vars
<1> QED
  BY <1>1, <1>2, <1>4, <1>5, <1>6, <1>7, <1>8, <1>9
     DEF Indicators!Next, Indicators!Continue

-----------------------------------------------------------------------------
(* The store of commit statuses.                                           *)

\* The check held for each key, and what a step may do to it.
held == [k \in Key |-> Status!CachedCheck(k)]
HeldKeepsUp ==
    \A k \in Key : held[k] # None /\ held'[k] # None => held[k].version <= held'[k].version

\* No step takes an entry out of the cache; what it holds may go with an answer without checks.
CacheKept == \A k \in Key : cache[k] # None => cache'[k] # None

\* The callbacks of a subscription are those that listen to its key.
CallbacksListen ==
    \A k \in Key, l \in Listener :
       subscriptions[k] # None /\ l \in subscriptions[k].callbacks
          <=> listening[l] # None /\ listening[l].key = k

\* A refresh knows when its subscription has been dropped.
LiveIsSubscribed == \A t \in tasks : t.live => subscriptions[t.key] # None

\* Nothing is newer than on the server, and what is held for a key is no newer than
\* what the refresh of that key is going to answer.
NothingNewer ==
    /\ \A k \in Key : held[k] # None => held[k].version <= server[k]
    /\ \A t \in tasks :
          /\ t.version <= server[t.key]
          /\ t.pc # "waiting" /\ held[t.key] # None => held[t.key].version <= t.version

\* A check of version v is no newer than what is held for key k, and than what the refresh
\* of k is going to answer.
Behind(v, k) ==
    /\ cache[k] # None
    /\ v <= server[k]
    /\ held[k] # None => v <= held[k].version
    /\ \A t \in tasks : t.key = k /\ t.pc # "waiting" => v <= t.version

ShownIsHeld ==
    \A l \in Listener :
       shown[l] # None => listening[l] # None /\ Behind(shown[l].version, listening[l].key)

StatusInv ==
    /\ Status!TypeOK
    /\ CallbacksListen
    /\ LiveIsSubscribed
    /\ NothingNewer
    /\ ShownIsHeld
    /\ Status!QueueMatchesTasks

LEMMA StatusNone ==
    /\ None \notin Branch /\ None \notin Status!Check /\ None \notin Status!Subscription
    /\ None \notin Status!CacheEntry /\ None \notin Status!Listening
    /\ MaxVersion \in Nat
BY StatusAssumed DEF Status!StatusAssumption

\* The values a check, a task, an entry of the cache and a subscription are made of.
LEMMA StatusParts ==
    ASSUME Status!TypeOK
    PROVE  /\ \A k \in Key : server[k] \in Nat
           /\ \A v : v \in Status!Version => v \in Nat
           /\ \A c \in Status!Check : c.version \in Nat
           /\ \A t \in tasks : t \in Status!Task /\ t.key \in Key /\ t.version \in Nat
           /\ held \in [Key -> Status!Check \cup {None}]
           /\ \A l \in Listener : listening[l] # None => listening[l] \in Status!Listening
                                                         /\ listening[l].key \in Key
           /\ \A l \in Listener : shown[l] # None => shown[l] \in Status!Check
                                                     /\ shown[l].version \in Nat
           /\ \A k \in Key : subscriptions[k] # None => subscriptions[k] \in Status!Subscription
           /\ \A k \in Key : cache[k] # None => cache[k] \in Status!CacheEntry
<1> USE StatusNone
<1>1. \A v : v \in Status!Version => v \in Nat
  BY DEF Status!Version
<1>2. \A c \in Status!Check : c.version \in Nat
  BY <1>1 DEF Status!Check
<1>3. held \in [Key -> Status!Check \cup {None}]
  BY DEF Status!TypeOK, held, Status!CachedCheck, Status!CacheEntry
<1>4. \A t \in tasks : t \in Status!Task /\ t.key \in Key /\ t.version \in Nat
  BY <1>1 DEF Status!TypeOK, Status!Task
<1>5. \A l \in Listener : listening[l] # None => listening[l] \in Status!Listening
                                                         /\ listening[l].key \in Key
  BY DEF Status!TypeOK, Status!Listening
<1> QED
  BY <1>1, <1>2, <1>3, <1>4, <1>5 DEF Status!TypeOK

LEMMA StatusInit ==
    ASSUME Status!Init
    PROVE  StatusInv
<1> USE StatusNone
<1>1. Status!TypeOK
  <2>1. 0 \in Status!Version
    BY DEF Status!Version
  <2>2. tasks \subseteq Status!Task /\ queue \subseteq Key
    BY DEF Status!Init
  <2>3. server \in [Key -> Status!Version]
    BY <2>1 DEF Status!Init
  <2> QED
    BY <2>2, <2>3 DEF Status!Init, Status!TypeOK
<1>2. /\ \A k \in Key : subscriptions[k] = None /\ held[k] = None
      /\ \A l \in Listener : listening[l] = None /\ shown[l] = None
      /\ tasks = {} /\ queue = {}
  BY DEF Status!Init, held, Status!CachedCheck
<1> QED
  BY <1>1, <1>2 DEF StatusInv, CallbacksListen, LiveIsSubscribed, NothingNewer, ShownIsHeld,
                    Status!QueueMatchesTasks

\* The entry of one key is replaced.
LEMMA CacheReplaced ==
    ASSUME Status!TypeOK, NEW k \in Key, NEW e \in Status!CacheEntry,
           cache' = [cache EXCEPT ![k] = e]
    PROVE  /\ cache' \in [Key -> Status!CacheEntry \cup {None}]
           /\ held' = [held EXCEPT ![k] = e.check]
           /\ CacheKept /\ cache'[k] # None
<1> USE StatusNone
<1>1. /\ cache' \in [Key -> Status!CacheEntry \cup {None}]
      /\ \A i \in Key : cache'[i] = IF i = k THEN e ELSE cache[i]
  BY DEF Status!TypeOK
<1>2. \A i \in Key : (Status!CachedCheck(i))' = IF i = k THEN e.check ELSE Status!CachedCheck(i)
  BY <1>1 DEF Status!CachedCheck
<1> QED
  BY <1>1, <1>2 DEF held, CacheKept

\* What the age of an entry is set to does not change the check it has.
LEMMA CacheAged ==
    ASSUME Status!TypeOK, NEW k \in Key, cache[k] # None, NEW b \in BOOLEAN,
           cache' = [cache EXCEPT ![k].fresh = b]
    PROVE  /\ cache' \in [Key -> Status!CacheEntry \cup {None}]
           /\ held' = held /\ CacheKept
<1> DEFINE e == [cache[k] EXCEPT !.fresh = b]
<1>1. cache[k] \in Status!CacheEntry
  BY DEF Status!TypeOK
<1>2. e \in Status!CacheEntry /\ e.check = cache[k].check
  BY <1>1 DEF Status!CacheEntry
<1>3. cache' = [cache EXCEPT ![k] = e]
  BY DEF Status!TypeOK
<1>4. held[k] = e.check
  BY <1>2 DEF held, Status!CachedCheck
<1> HIDE DEF e
<1>5. /\ cache' \in [Key -> Status!CacheEntry \cup {None}]
      /\ held' = [held EXCEPT ![k] = e.check] /\ CacheKept
  BY <1>2, <1>3, CacheReplaced
<1> QED
  BY <1>4, <1>5, StatusParts

LEMMA HeldUnchanged == UNCHANGED cache => UNCHANGED held /\ CacheKept
BY DEF held, Status!CachedCheck, CacheKept

\* The refreshes under way have distinct keys: one of them goes on, or is over.
LEMMA TaskGoesOn ==
    ASSUME Status!QueueMatchesTasks, NEW t \in tasks, NEW u, u.key = t.key,
           Status!Becomes(t, u), UNCHANGED queue
    PROVE  Status!QueueMatchesTasks'
BY DEF Status!QueueMatchesTasks, Status!Becomes

LEMMA TaskIsOver ==
    ASSUME Status!QueueMatchesTasks, NEW t \in tasks, Status!Over(t)
    PROVE  /\ Status!QueueMatchesTasks'
           /\ tasks' \subseteq tasks
           /\ \A u \in tasks' : u.key # t.key
BY DEF Status!QueueMatchesTasks, Status!Over

\* What the cache holds is no newer than what is about to be answered.
LEMMA HeldIsBehind ==
    ASSUME Status!TypeOK, NothingNewer, NEW k \in Key, held[k] # None
    PROVE  cache[k] # None /\ Behind(held[k].version, k)
<1>1. cache[k] # None /\ held[k].version \in Nat
  BY StatusParts DEF held, Status!CachedCheck
<1> QED BY <1>1 DEF NothingNewer, Behind

\* What was behind is so after a step that leaves the cache's checks and the server alone
\* and has no refresh go on.
LEMMA BehindStays ==
    ASSUME CacheKept, UNCHANGED <<server, held>>,
           \A u \in tasks' : \/ u.pc = "waiting"
                              \/ \E t \in tasks : u.key = t.key /\ u.version = t.version
                                                  /\ u.pc = t.pc,
           NEW k \in Key, NEW v, Behind(v, k)
    PROVE  Behind(v, k)'
<1>1. \A u \in tasks' : u.key = k /\ u.pc # "waiting" => v <= u.version
  BY DEF Behind
<1>2. cache'[k] # None
  BY DEF Behind, CacheKept
<1> QED BY <1>1, <1>2 DEF Behind

\* So is what is shown, when the components are the same.
LEMMA ShownStays ==
    ASSUME Status!TypeOK, ShownIsHeld, CacheKept, UNCHANGED <<server, held, listening, shown>>,
           \A u \in tasks' : \/ u.pc = "waiting"
                              \/ \E t \in tasks : u.key = t.key /\ u.version = t.version
                                                  /\ u.pc = t.pc
    PROVE  ShownIsHeld'
<1> SUFFICES ASSUME NEW l \in Listener, shown'[l] # None, NEW v, NEW k,
                    v = shown'[l].version, k = listening'[l].key
             PROVE  listening'[l] # None /\ Behind(v, k)'
  BY DEF ShownIsHeld, Behind
<1>1. listening[l] # None /\ k \in Key /\ Behind(v, k)
  BY StatusParts DEF ShownIsHeld
<1>2. Behind(v, k)'
  BY <1>1, BehindStays
<1> QED BY <1>1, <1>2

\* Where the cache and the server stay as they are, no task gets newer.
LEMMA HeldStays ==
    ASSUME Status!TypeOK, UNCHANGED held
    PROVE  HeldKeepsUp
BY StatusParts DEF HeldKeepsUp

\* A refresh is over and what it brought is held and shown.
LEMMA CheckDelivered ==
    ASSUME StatusInv, NEW t \in tasks, t.pc # "waiting",
           NEW check \in Status!Check \cup {None},
           check # None => check.version <= server[t.key] /\ t.version <= check.version,
           Status!Deliver(t, check),
           UNCHANGED <<server, subscriptions, refreshQueued, background, signedIn, listening>>
    PROVE  StatusInv' /\ HeldKeepsUp
<1> DEFINE k == t.key
           e == [check |-> check, fresh |-> TRUE]
<1> USE StatusNone
<1>0. Status!TypeOK /\ CallbacksListen /\ LiveIsSubscribed /\ NothingNewer /\ ShownIsHeld
      /\ Status!QueueMatchesTasks
  BY DEF StatusInv
<1>1. /\ k \in Key /\ t.version \in Nat /\ server[k] \in Nat
      /\ check # None => check.version \in Nat
      /\ held \in [Key -> Status!Check \cup {None}]
  BY <1>0, StatusParts
<1>2. e \in Status!CacheEntry /\ e.check = check
  BY DEF Status!CacheEntry
<1>3. /\ cache' \in [Key -> Status!CacheEntry \cup {None}]
      /\ held' = [held EXCEPT ![k] = check] /\ CacheKept /\ cache'[k] # None
  BY <1>0, <1>1, <1>2, CacheReplaced DEF Status!Deliver
<1>4. held'[k] = check /\ \A i \in Key : i # k => held'[i] = held[i]
  BY <1>1, <1>3
<1>5. /\ Status!QueueMatchesTasks' /\ tasks' \subseteq tasks
      /\ \A u \in tasks' : u.key # k
  BY <1>0, TaskIsOver DEF Status!Deliver
<1>6. HeldKeepsUp
  <2>1. ASSUME held[k] # None, check # None PROVE held[k].version <= check.version
    <3>1. held[k].version <= t.version /\ held[k].version \in Nat
      BY <1>0, <1>1, <2>1, StatusParts DEF NothingNewer
    <3>2. t.version <= check.version /\ check.version \in Nat
      BY <1>1, <2>1
    <3> HIDE DEF k
    <3> QED BY ONLY <1>1, <3>1, <3>2
  <2>2. \A i \in Key : held[i] # None => held[i].version <= held[i].version
    BY <1>0, <1>1, StatusParts
  <2> QED BY <1>4, <2>1, <2>2 DEF HeldKeepsUp
<1>7. \A l \in Listener :
         shown'[l] = IF t.live /\ l \in subscriptions[k].callbacks THEN check ELSE shown[l]
  BY DEF Status!Deliver
<1>8. Status!TypeOK'
  <2>1. shown' \in [Listener -> Status!Check \cup {None}]
    BY <1>0 DEF Status!Deliver, Status!TypeOK
  <2>2. queue' \subseteq Key
    BY <1>0 DEF Status!Deliver, Status!Over, Status!TypeOK
  <2> QED
    BY <1>0, <1>3, <1>5, <2>1, <2>2 DEF Status!TypeOK
<1>9. CallbacksListen' /\ LiveIsSubscribed'
  BY <1>0, <1>5 DEF CallbacksListen, LiveIsSubscribed
<1>10. NothingNewer'
  <2>1. ASSUME NEW i \in Key, held'[i] # None
        PROVE  held'[i].version <= server[i]
    BY <1>0, <1>4, <2>1 DEF NothingNewer
  <2>2. ASSUME NEW u \in tasks'
        PROVE  /\ u.version <= server[u.key]
               /\ u.pc # "waiting" /\ held'[u.key] # None => held'[u.key].version <= u.version
    <3>1. u \in tasks /\ u.key \in Key /\ u.key # k
      BY <1>0, <1>5, StatusParts
    <3> QED BY <1>0, <1>4, <3>1 DEF NothingNewer
  <2> QED BY <2>1, <2>2 DEF NothingNewer
<1>11. ShownIsHeld'
  <2> SUFFICES ASSUME NEW l \in Listener, shown'[l] # None, NEW v, NEW i,
                      v = shown'[l].version, i = listening'[l].key
               PROVE  listening'[l] # None /\ Behind(v, i)'
    BY DEF ShownIsHeld, Behind
  <2>1. CASE t.live /\ l \in subscriptions[k].callbacks
    <3>1. listening[l] # None /\ i = k /\ shown'[l] = check /\ check # None
      BY <1>0, <1>1, <1>7, <2>1 DEF CallbacksListen, LiveIsSubscribed
    <3> QED BY <1>1, <1>3, <1>4, <1>5, <3>1 DEF Behind
  <2>2. CASE ~ (t.live /\ l \in subscriptions[k].callbacks)
    <3>1. shown'[l] = shown[l] /\ listening[l] # None /\ i \in Key /\ Behind(v, i) /\ v \in Nat
      BY <1>0, <1>7, <2>2, StatusParts DEF ShownIsHeld
    <3>2. v <= server[i] /\ cache'[i] # None /\ \A u \in tasks' :
             u.key = i /\ u.pc # "waiting" => v <= u.version
      BY <1>3, <1>5, <3>1 DEF Behind, CacheKept
    <3>3. held'[i] # None => v <= held'[i].version
      <4>1. CASE i = k
        <5>1. v <= t.version
          BY <3>1, <4>1 DEF Behind
        <5> QED BY <1>1, <1>4, <3>1, <4>1, <5>1
      <4>2. CASE i # k
        BY <1>4, <3>1, <4>2 DEF Behind
      <4> QED BY <4>1, <4>2
    <3> QED BY <3>1, <3>2, <3>3 DEF Behind
  <2> QED BY <2>1, <2>2
<1> QED
  BY <1>5, <1>6, <1>8, <1>9, <1>10, <1>11 DEF StatusInv

\* A refresh that ends leaves everything else as it is.
LEMMA RefreshOver ==
    ASSUME StatusInv, NEW t \in tasks, Status!Over(t), UNCHANGED held, CacheKept,
           cache' \in [Key -> Status!CacheEntry \cup {None}],
           UNCHANGED <<server, subscriptions, refreshQueued, background, signedIn, listening, shown>>
    PROVE  StatusInv' /\ HeldKeepsUp
<1>0. Status!TypeOK /\ CallbacksListen /\ LiveIsSubscribed /\ NothingNewer /\ ShownIsHeld
      /\ Status!QueueMatchesTasks
  BY DEF StatusInv
<1>1. Status!QueueMatchesTasks' /\ tasks' \subseteq tasks
  BY <1>0, TaskIsOver
<1>2. Status!TypeOK'
  <2>1. queue' \subseteq Key
    BY <1>0 DEF Status!Over, Status!TypeOK
  <2> QED BY <1>0, <1>1, <2>1 DEF Status!TypeOK
<1>3. HeldKeepsUp
  BY <1>0, HeldStays
<1>4. ShownIsHeld'
  BY <1>0, <1>1, ShownStays
<1>5. CallbacksListen' /\ LiveIsSubscribed' /\ NothingNewer'
  BY <1>0, <1>1 DEF CallbacksListen, LiveIsSubscribed, NothingNewer
<1> QED BY <1>1, <1>2, <1>3, <1>4, <1>5 DEF StatusInv

\* A refresh goes on with what it knows by now.
LEMMA RefreshGoesOn ==
    ASSUME StatusInv, NEW t \in tasks, NEW u \in Status!Task, u.key = t.key,
           u.live => subscriptions[t.key] # None,
           u.version <= server[t.key],
           u.version = server[t.key] \/ (t.pc # "waiting" /\ t.version <= u.version),
           Status!Becomes(t, u),
           UNCHANGED <<server, subscriptions, cache, queue, refreshQueued, background, signedIn,
                       listening, shown>>
    PROVE  StatusInv' /\ HeldKeepsUp
<1>0. Status!TypeOK /\ CallbacksListen /\ LiveIsSubscribed /\ NothingNewer /\ ShownIsHeld
      /\ Status!QueueMatchesTasks
  BY DEF StatusInv
<1>1. Status!QueueMatchesTasks' /\ UNCHANGED held /\ CacheKept
  BY <1>0, TaskGoesOn, HeldUnchanged
<1>2. \A v \in tasks' : v \in tasks \/ v = u
  BY DEF Status!Becomes
<1>3. Status!TypeOK'
  BY <1>0, <1>2 DEF Status!TypeOK
<1>4. CallbacksListen' /\ LiveIsSubscribed'
  BY <1>0, <1>2 DEF CallbacksListen, LiveIsSubscribed
<1>7. /\ t.key \in Key /\ t.version \in Nat /\ u.version \in Nat /\ server[t.key] \in Nat
  <2>1. u.version \in Status!Version
    BY DEF Status!Task
  <2> QED BY <1>0, <2>1, StatusParts
<1>5. NothingNewer'
  <2>1. ASSUME held[t.key] # None PROVE held[t.key].version <= u.version
    <3>1. held[t.key].version \in Nat /\ held[t.key].version <= server[t.key]
      BY <1>0, <1>7, <2>1, StatusParts DEF NothingNewer
    <3>2. t.pc # "waiting" => held[t.key].version <= t.version
      BY <1>0, <2>1 DEF NothingNewer
    <3> QED BY <1>7, <3>1, <3>2
  <2> QED BY <1>0, <1>1, <1>2, <2>1 DEF NothingNewer
<1>8. ShownIsHeld'
  <2> SUFFICES ASSUME NEW l \in Listener, shown'[l] # None, NEW v, NEW k,
                      v = shown'[l].version, k = listening'[l].key
               PROVE  listening'[l] # None /\ Behind(v, k)'
    BY DEF ShownIsHeld, Behind
  <2>1. listening[l] # None /\ k \in Key /\ v \in Nat /\ Behind(v, k)
    BY <1>0, StatusParts DEF ShownIsHeld
  <2>2. k = t.key => v <= u.version
    BY <1>7, <2>1 DEF Behind
  <2>3. Behind(v, k)'
    BY <1>1, <1>2, <2>1, <2>2 DEF Behind, CacheKept
  <2> QED BY <2>1, <2>3
<1>6. HeldKeepsUp
  BY <1>0, <1>1, HeldStays
<1> QED BY <1>1, <1>3, <1>4, <1>5, <1>8, <1>6 DEF StatusInv

LEMMA StatusStep ==
    ASSUME StatusInv, [Status!Next]_Status!vars
    PROVE  StatusInv' /\ HeldKeepsUp
<1> USE StatusNone
<1>0. Status!TypeOK /\ CallbacksListen /\ LiveIsSubscribed /\ NothingNewer /\ ShownIsHeld
      /\ Status!QueueMatchesTasks
  BY DEF StatusInv
\* Steps that leave subscriptions, refreshes, and what is held and shown alone.
<1>1. ASSUME UNCHANGED <<server, subscriptions, queue, tasks, listening, shown, held>>,
             CacheKept, cache' \in [Key -> Status!CacheEntry \cup {None}],
             refreshQueued' \in BOOLEAN, background' \in BOOLEAN, signedIn' \in BOOLEAN
      PROVE  StatusInv' /\ HeldKeepsUp
  <2>1. Status!TypeOK'
    BY <1>0, <1>1 DEF Status!TypeOK
  <2>2. HeldKeepsUp
    BY <1>0, <1>1, HeldStays
  <2>3. (CallbacksListen /\ LiveIsSubscribed /\ NothingNewer)' /\ ShownIsHeld'
    BY <1>0, <1>1, ShownStays DEF CallbacksListen, LiveIsSubscribed, NothingNewer
  <2>4. Status!QueueMatchesTasks'
    BY <1>0, <1>1 DEF Status!QueueMatchesTasks
  <2> QED BY <2>1, <2>2, <2>3, <2>4 DEF StatusInv
<1>2. ASSUME NEW l \in Listener, NEW k \in Key, NEW b \in Branch \cup {None},
             Status!Subscribe(l, k, b)
      PROVE  StatusInv' /\ HeldKeepsUp
  <2> DEFINE before == IF subscriptions[k] = None THEN {} ELSE subscriptions[k].callbacks
             new == [branch |-> b, callbacks |-> before \cup {l}]
             on == [key |-> k, branch |-> b]
  <2>1. /\ listening[l] = None
        /\ listening' = [listening EXCEPT ![l] = on]
        /\ shown' = [shown EXCEPT ![l] = Status!TryGetStatus(k, b)]
        /\ subscriptions' = [subscriptions EXCEPT ![k] = new]
        /\ cache' = cache \/ (cache[k] # None /\ cache' = [cache EXCEPT ![k].fresh = FALSE])
        /\ refreshQueued' = TRUE
        /\ UNCHANGED <<server, queue, tasks, background, signedIn>>
    BY <1>2 DEF Status!Subscribe
  <2>2. held' = held /\ cache' \in [Key -> Status!CacheEntry \cup {None}] /\ CacheKept
    <3>1. CASE cache' = cache
      BY <1>0, <3>1, HeldUnchanged DEF Status!TypeOK
    <3>2. CASE cache[k] # None /\ cache' = [cache EXCEPT ![k].fresh = FALSE]
      BY <1>0, <3>2, CacheAged
    <3> QED BY <2>1, <3>1, <3>2
  <2>3. before \subseteq Listener
    BY <1>0, StatusParts DEF Status!Subscription
  <2>4. new \in Status!Subscription /\ new # None /\ new.callbacks = before \cup {l}
    BY <2>3 DEF Status!Subscription
  <2>5. on \in Status!Listening /\ on # None /\ on.key = k
    BY DEF Status!Listening
  <2>6. Status!TryGetStatus(k, b) \in {None, held[k]}
    BY DEF Status!TryGetStatus, held
  <2>7. held[k] \in Status!Check \cup {None}
    BY <1>0, StatusParts
  <2> HIDE DEF new, on
  <2>8. /\ subscriptions' \in [Key -> Status!Subscription \cup {None}]
        /\ subscriptions'[k] = new /\ \A i \in Key : i # k => subscriptions'[i] = subscriptions[i]
    BY <1>0, <2>1, <2>4 DEF Status!TypeOK
  <2>9. /\ listening' \in [Listener -> Status!Listening \cup {None}]
        /\ listening'[l] = on /\ \A o \in Listener : o # l => listening'[o] = listening[o]
    BY <1>0, <2>1, <2>5 DEF Status!TypeOK
  <2>10. /\ shown' \in [Listener -> Status!Check \cup {None}]
         /\ shown'[l] \in {None, held[k]} /\ \A o \in Listener : o # l => shown'[o] = shown[o]
    BY <1>0, <2>1, <2>6, <2>7 DEF Status!TypeOK
  <2>11. Status!TypeOK'
    BY <1>0, <2>1, <2>2, <2>8, <2>9, <2>10 DEF Status!TypeOK
  <2>12. CallbacksListen'
    <3> SUFFICES ASSUME NEW i \in Key, NEW o \in Listener
                 PROVE  subscriptions'[i] # None /\ o \in subscriptions'[i].callbacks
                          <=> listening'[o] # None /\ listening'[o].key = i
      BY DEF CallbacksListen
    <3>1. subscriptions[i] # None /\ o \in subscriptions[i].callbacks
            <=> listening[o] # None /\ listening[o].key = i
      BY <1>0 DEF CallbacksListen
    <3>2. o \in before /\ i = k <=> i = k /\ subscriptions[i] # None /\ o \in subscriptions[i].callbacks
      OBVIOUS
    <3> HIDE DEF before
    <3>3. CASE i = k /\ o = l
      BY <2>4, <2>5, <2>8, <2>9, <3>3
    <3>4. CASE i = k /\ o # l
      BY <2>4, <2>5, <2>8, <2>9, <3>1, <3>2, <3>4
    <3>5. CASE i # k /\ o = l
      BY <2>1, <2>4, <2>5, <2>8, <2>9, <3>1, <3>5
    <3>6. CASE i # k /\ o # l
      BY <2>8, <2>9, <3>1, <3>6
    <3> QED BY <3>3, <3>4, <3>5, <3>6
  <2>13. LiveIsSubscribed'
    <3> SUFFICES ASSUME NEW t \in tasks, t.live
                 PROVE  subscriptions'[t.key] # None
      BY <2>1 DEF LiveIsSubscribed
    <3> QED BY <1>0, <2>4, <2>8, StatusParts DEF LiveIsSubscribed
  <2>14. NothingNewer'
    BY <1>0, <2>1, <2>2 DEF NothingNewer
  <2>15. ShownIsHeld'
    <3> SUFFICES ASSUME NEW o \in Listener, shown'[o] # None, NEW v, NEW i,
                        v = shown'[o].version, i = listening'[o].key
                 PROVE  listening'[o] # None /\ Behind(v, i)'
      BY DEF ShownIsHeld, Behind
    <3>1. listening'[o] # None /\ i \in Key /\ Behind(v, i)
      <4>1. CASE o = l
        <5>1. shown'[l] = held[k] /\ held[k] # None
          BY <2>10, <4>1
        <5>2. Behind(held[k].version, k)
          BY <1>0, <5>1, HeldIsBehind
        <5> QED BY <2>5, <2>9, <4>1, <5>1, <5>2
      <4>2. CASE o # l
        BY <1>0, <2>9, <2>10, <4>2, StatusParts DEF ShownIsHeld
      <4> QED BY <4>1, <4>2
    <3>2. Behind(v, i)'
      BY <2>1, <2>2, <3>1 DEF Behind, CacheKept
    <3> QED BY <3>1, <3>2
  <2>16. HeldKeepsUp /\ Status!QueueMatchesTasks'
    BY <1>0, <2>1, <2>2, HeldStays DEF Status!QueueMatchesTasks
  <2> QED BY <2>11, <2>12, <2>13, <2>14, <2>15, <2>16 DEF StatusInv
<1>3. ASSUME NEW l \in Listener, Status!Dispose(l)
      PROVE  StatusInv' /\ HeldKeepsUp
  <2> DEFINE k == listening[l].key
             left == subscriptions[k].callbacks \ {l}
             Forgets(t) == IF t.key = k THEN [t EXCEPT !.live = FALSE] ELSE t
  <2>1. /\ listening[l] # None
        /\ listening' = [listening EXCEPT ![l] = None]
        /\ shown' = [shown EXCEPT ![l] = None]
        /\ UNCHANGED <<server, cache, queue, refreshQueued, background, signedIn>>
        /\ \/ /\ left = {} /\ subscriptions' = [subscriptions EXCEPT ![k] = None]
              /\ tasks' = {Forgets(t) : t \in tasks}
           \/ /\ left # {} /\ subscriptions' = [subscriptions EXCEPT ![k].callbacks = left]
              /\ UNCHANGED tasks
    BY <1>3 DEF Status!Dispose
  <2>2. k \in Key /\ subscriptions[k] # None /\ l \in subscriptions[k].callbacks
        /\ subscriptions[k] \in Status!Subscription
    <3>1. k \in Key
      BY <1>0, <2>1, StatusParts
    <3> QED BY <1>0, <2>1, <3>1, StatusParts DEF CallbacksListen
  <2>3. held' = held /\ CacheKept
    BY <2>1, HeldUnchanged
  <2>4. PICK new \in Status!Subscription \cup {None} :
          /\ subscriptions' = [subscriptions EXCEPT ![k] = new]
          /\ new = None => left = {} /\ tasks' = {Forgets(t) : t \in tasks}
          /\ new # None => left # {} /\ new.callbacks = left /\ tasks' = tasks
    <3>1. CASE left = {}
      BY <2>1, <3>1
    <3>2. CASE left # {}
      <4> DEFINE new == [subscriptions[k] EXCEPT !.callbacks = left]
      <4>1. new \in Status!Subscription /\ new.callbacks = left
        BY <2>2, <3>2 DEF Status!Subscription
      <4>2. subscriptions' = [subscriptions EXCEPT ![k] = new]
        BY <1>0, <2>1, <3>2 DEF Status!TypeOK
      <4> HIDE DEF new
      <4> QED BY <2>1, <3>2, <4>1, <4>2
    <3> QED BY <3>1, <3>2
  <2>5. \A t \in tasks : /\ Forgets(t) \in Status!Task /\ Forgets(t).key = t.key
                         /\ Forgets(t).pc = t.pc /\ Forgets(t).version = t.version
                         /\ Forgets(t).live => t.live /\ t.key # k
    BY <1>0, StatusParts DEF Status!Task
  <2>6. \A u \in tasks' : /\ u \in Status!Task
                          /\ \E t \in tasks : /\ u.key = t.key /\ u.pc = t.pc
                                              /\ u.version = t.version
                                              /\ u.live => t.live
                                              /\ u.live /\ new = None => t.key # k
                                              /\ u = Forgets(t) \/ (u = t /\ new # None)
    <3>1. CASE new = None
      <4> HIDE DEF Forgets
      <4> QED BY <2>4, <2>5, <3>1
    <3>2. CASE new # None
      BY <1>0, <2>4, <3>2, StatusParts
    <3> QED BY <3>1, <3>2
  <2>7. /\ subscriptions' \in [Key -> Status!Subscription \cup {None}]
        /\ subscriptions'[k] = new /\ \A i \in Key : i # k => subscriptions'[i] = subscriptions[i]
    BY <1>0, <2>2, <2>4 DEF Status!TypeOK
  <2>8. /\ listening' \in [Listener -> Status!Listening \cup {None}]
        /\ listening'[l] = None /\ \A o \in Listener : o # l => listening'[o] = listening[o]
        /\ shown' \in [Listener -> Status!Check \cup {None}]
        /\ shown'[l] = None /\ \A o \in Listener : o # l => shown'[o] = shown[o]
    BY <1>0, <2>1 DEF Status!TypeOK
  <2>9. Status!TypeOK'
    <3>1. tasks' \subseteq Status!Task
      BY <2>6
    <3> QED BY <1>0, <2>1, <2>7, <2>8, <3>1 DEF Status!TypeOK
  <2>10. CallbacksListen'
    <3> SUFFICES ASSUME NEW i \in Key, NEW o \in Listener
                 PROVE  subscriptions'[i] # None /\ o \in subscriptions'[i].callbacks
                          <=> listening'[o] # None /\ listening'[o].key = i
      BY DEF CallbacksListen
    <3>1. subscriptions[i] # None /\ o \in subscriptions[i].callbacks
            <=> listening[o] # None /\ listening[o].key = i
      BY <1>0 DEF CallbacksListen
    <3>2. subscriptions'[i] # None /\ o \in subscriptions'[i].callbacks
             <=> /\ subscriptions[i] # None /\ o \in subscriptions[i].callbacks
                 /\ i = k => o # l
      BY <2>2, <2>4, <2>7
    <3>3. CASE o = l
      BY <2>8, <3>1, <3>2, <3>3
    <3>4. CASE o # l
      BY <2>8, <3>1, <3>2, <3>4
    <3> QED BY <3>3, <3>4
  <2>11. LiveIsSubscribed'
    <3> SUFFICES ASSUME NEW u \in tasks', u.live
                 PROVE  subscriptions'[u.key] # None
      BY DEF LiveIsSubscribed
    <3>1. PICK t \in tasks : u.key = t.key /\ t.live /\ (new = None => t.key # k)
      BY <2>6
    <3>2. subscriptions[t.key] # None /\ t.key \in Key
      BY <1>0, <3>1, StatusParts DEF LiveIsSubscribed
    <3> QED BY <2>7, <3>1, <3>2
  <2>12. NothingNewer'
    <3>1. \A i \in Key : held[i] # None => held[i].version <= server[i]
      BY <1>0 DEF NothingNewer
    <3>2. ASSUME NEW u \in tasks'
          PROVE  /\ u.version <= server[u.key]
                 /\ u.pc # "waiting" /\ held[u.key] # None => held[u.key].version <= u.version
      <4>1. PICK t \in tasks : u.key = t.key /\ u.pc = t.pc /\ u.version = t.version
        BY <2>6
      <4> QED BY <1>0, <4>1 DEF NothingNewer
    <3> QED BY <2>1, <2>3, <3>1, <3>2 DEF NothingNewer
  <2>13. ShownIsHeld'
    <3> SUFFICES ASSUME NEW o \in Listener, shown'[o] # None, NEW v, NEW i,
                        v = shown'[o].version, i = listening'[o].key
                 PROVE  listening'[o] # None /\ Behind(v, i)'
      BY DEF ShownIsHeld, Behind
    <3>1. listening'[o] # None /\ i \in Key /\ Behind(v, i)
      BY <1>0, <2>8, StatusParts DEF ShownIsHeld
    <3>2. Behind(v, i)'
      BY <2>1, <2>3, <2>6, <3>1, BehindStays
    <3> QED BY <3>1, <3>2
  <2>14. Status!QueueMatchesTasks'
    <3>1. CASE new = None
      <4>1. tasks' = {Forgets(t) : t \in tasks}
        BY <2>4, <3>1
      <4> HIDE DEF Forgets
      <4>2. {u.key : u \in tasks'} = {t.key : t \in tasks}
        BY <2>5, <4>1
      <4>3. \A u, v \in tasks' : u.key = v.key => u = v
        BY <1>0, <2>5, <4>1 DEF Status!QueueMatchesTasks
      <4> QED BY <1>0, <2>1, <4>2, <4>3 DEF Status!QueueMatchesTasks
    <3>2. CASE new # None
      BY <1>0, <2>1, <2>4, <3>2 DEF Status!QueueMatchesTasks
    <3> QED BY <3>1, <3>2
  <2> QED BY <1>0, <2>3, <2>9, <2>10, <2>11, <2>12, <2>13, <2>14, HeldStays DEF StatusInv
<1>4. ASSUME NEW k \in Key, Status!ManualRefresh(k)
      PROVE  StatusInv' /\ HeldKeepsUp
  <2>1. /\ subscriptions[k] # None /\ held[k] # None
        /\ cache' = [cache EXCEPT ![k].fresh = TRUE]
        /\ shown' = [l \in Listener |-> IF l \in subscriptions[k].callbacks
                                          THEN held[k] ELSE shown[l]]
        /\ UNCHANGED <<server, subscriptions, queue, tasks, refreshQueued, background,
                       signedIn, listening>>
    BY <1>4 DEF Status!ManualRefresh, held
  <2>2. cache[k] # None
    BY <2>1 DEF held, Status!CachedCheck
  <2>3. held' = held /\ cache' \in [Key -> Status!CacheEntry \cup {None}] /\ CacheKept
    BY <1>0, <2>1, <2>2, CacheAged
  <2>4. held[k] \in Status!Check /\ held[k].version \in Nat
    BY <1>0, <2>1, StatusParts
  <2>5. Status!TypeOK'
    <3>1. shown' \in [Listener -> Status!Check \cup {None}]
      BY <1>0, <2>1, <2>4 DEF Status!TypeOK
    <3> QED BY <1>0, <2>1, <2>3, <3>1 DEF Status!TypeOK
  <2>6. ShownIsHeld'
    <3> SUFFICES ASSUME NEW o \in Listener, shown'[o] # None, NEW v, NEW i,
                        v = shown'[o].version, i = listening'[o].key
                 PROVE  listening'[o] # None /\ Behind(v, i)'
      BY DEF ShownIsHeld, Behind
    <3>1. listening[o] # None /\ i \in Key /\ Behind(v, i)
      <4>1. CASE o \in subscriptions[k].callbacks
        <5>1. listening[o] # None /\ listening[o].key = k /\ shown'[o] = held[k]
          BY <1>0, <2>1, <4>1 DEF CallbacksListen
        <5>2. Behind(held[k].version, k)
          BY <1>0, <2>1, HeldIsBehind
        <5> QED BY <2>1, <5>1, <5>2
      <4>2. CASE o \notin subscriptions[k].callbacks
        BY <1>0, <2>1, <4>2, StatusParts DEF ShownIsHeld
      <4> QED BY <4>1, <4>2
    <3>2. Behind(v, i)'
      BY <2>1, <2>3, <3>1 DEF Behind, CacheKept
    <3> QED BY <2>1, <3>1, <3>2
  <2>7. (CallbacksListen /\ LiveIsSubscribed /\ NothingNewer)'
    BY <1>0, <2>1, <2>3 DEF CallbacksListen, LiveIsSubscribed, NothingNewer
  <2>8. HeldKeepsUp /\ Status!QueueMatchesTasks'
    BY <1>0, <2>1, <2>3, HeldStays DEF Status!QueueMatchesTasks
  <2> QED BY <2>5, <2>6, <2>7, <2>8 DEF StatusInv
<1>5. ASSUME NEW on \in BOOLEAN, Status!Background(on)
      PROVE  StatusInv' /\ HeldKeepsUp
  BY <1>0, <1>1, <1>5, HeldUnchanged DEF Status!Background, Status!TypeOK
<1>6. CASE Status!AccountsUpdated \/ Status!IntervalFires
  BY <1>0, <1>1, <1>6, HeldUnchanged DEF Status!AccountsUpdated, Status!IntervalFires, Status!TypeOK
<1>7. ASSUME NEW k \in Key, Status!ServerChanges(k)
      PROVE  StatusInv' /\ HeldKeepsUp
  <2>1. /\ server[k] < MaxVersion
        /\ server' = [server EXCEPT ![k] = @ + 1]
        /\ UNCHANGED <<subscriptions, cache, queue, tasks, refreshQueued, background,
                       signedIn, listening, shown>>
    BY <1>7 DEF Status!ServerChanges
  <2>2. held' = held /\ CacheKept
    BY <2>1, HeldUnchanged
  <2>3. /\ server' \in [Key -> Status!Version]
        /\ \A i \in Key : server'[i] \in Nat /\ server[i] \in Nat /\ server[i] <= server'[i]
    BY <1>0, <2>1 DEF Status!TypeOK, Status!Version
  <2>4. Status!TypeOK'
    BY <1>0, <2>1, <2>3 DEF Status!TypeOK
  <2>5. NothingNewer'
    <3>1. ASSUME NEW i \in Key, held[i] # None
          PROVE  held[i].version <= server'[i]
      <4>1. held[i].version <= server[i] /\ held[i].version \in Nat
        BY <1>0, <3>1, StatusParts DEF NothingNewer
      <4> QED BY <2>3, <4>1
    <3>2. ASSUME NEW t \in tasks
          PROVE  /\ t.version <= server'[t.key]
                 /\ t.pc # "waiting" /\ held[t.key] # None => held[t.key].version <= t.version
      <4>1. t.version <= server[t.key] /\ t.version \in Nat /\ t.key \in Key
        BY <1>0, StatusParts DEF NothingNewer
      <4>2. t.version <= server'[t.key]
        BY <2>3, <4>1
      <4> QED BY <1>0, <4>2 DEF NothingNewer
    <3> QED BY <2>1, <2>2, <3>1, <3>2 DEF NothingNewer
  <2>6. (CallbacksListen /\ LiveIsSubscribed)'
    BY <1>0, <2>1 DEF CallbacksListen, LiveIsSubscribed
  <2>7. ShownIsHeld'
    <3> SUFFICES ASSUME NEW o \in Listener, shown'[o] # None, NEW v, NEW i,
                        v = shown'[o].version, i = listening'[o].key
                 PROVE  listening'[o] # None /\ Behind(v, i)'
      BY DEF ShownIsHeld, Behind
    <3>1. listening[o] # None /\ i \in Key /\ v \in Nat /\ Behind(v, i)
      BY <1>0, <2>1, StatusParts DEF ShownIsHeld
    <3>2. v <= server'[i]
      BY <2>3, <3>1 DEF Behind
    <3>3. Behind(v, i)'
      BY <2>1, <2>2, <3>1, <3>2 DEF Behind, CacheKept
    <3> QED BY <2>1, <3>1, <3>3
  <2>8. HeldKeepsUp /\ Status!QueueMatchesTasks'
    BY <1>0, <2>1, <2>2, HeldStays DEF Status!QueueMatchesTasks
  <2> QED BY <2>4, <2>5, <2>6, <2>7, <2>8 DEF StatusInv
<1>8. ASSUME NEW k \in Key, Status!Age(k)
      PROVE  StatusInv' /\ HeldKeepsUp
  <2>1. held' = held /\ cache' \in [Key -> Status!CacheEntry \cup {None}] /\ CacheKept
    BY <1>0, <1>8, CacheAged DEF Status!Age
  <2> QED BY <1>0, <1>1, <1>8, <2>1 DEF Status!Age, Status!TypeOK
<1>9. CASE Status!RefreshEligible
  <2> DEFINE eligible == {k \in Key : /\ subscriptions[k] # None
                                      /\ k \notin queue
                                      /\ Status!NotFresh(k)}
  <2>1. /\ refreshQueued' = FALSE
        /\ tasks' = tasks \cup {Status!NewTask(k) : k \in eligible}
        /\ queue' = queue \cup eligible
        /\ UNCHANGED <<server, subscriptions, cache, background, signedIn, listening, shown>>
    BY <1>9 DEF Status!RefreshEligible
  <2>2. held' = held /\ CacheKept
    BY <2>1, HeldUnchanged
  <2>3. eligible \subseteq Key /\ \A k \in eligible : k \notin queue
    OBVIOUS
  <2>4. \A k \in Key : LET t == Status!NewTask(k) IN
           t \in Status!Task /\ t.key = k /\ t.pc = "waiting" /\ ~ t.live /\ t.version = 0
    BY DEF Status!NewTask, Status!Task, Status!Version, Status!Part
  <2> HIDE DEF eligible
  <2>5. \A u \in tasks' : u \in tasks \/ \E k \in eligible : u = Status!NewTask(k)
    BY <2>1
  <2>6. Status!TypeOK'
    <3>1. tasks' \subseteq Status!Task
      BY <1>0, <2>3, <2>4, <2>5 DEF Status!TypeOK
    <3> QED BY <1>0, <2>1, <2>3, <3>1 DEF Status!TypeOK
  <2>7. LiveIsSubscribed'
    BY <1>0, <2>1, <2>3, <2>4, <2>5 DEF LiveIsSubscribed
  <2>8. NothingNewer'
    <3>1. \A k \in Key : 0 <= server[k]
      BY <1>0, StatusParts
    <3>2. ASSUME NEW u \in tasks'
          PROVE  /\ u.version <= server[u.key]
                 /\ u.pc # "waiting" /\ held[u.key] # None => held[u.key].version <= u.version
      BY <1>0, <2>3, <2>4, <2>5, <3>1 DEF NothingNewer
    <3> QED BY <1>0, <2>1, <2>2, <3>2 DEF NothingNewer
  <2>9. Status!QueueMatchesTasks'
    <3>1. queue = {t.key : t \in tasks} /\ \A t, u \in tasks : t.key = u.key => t = u
      BY <1>0 DEF Status!QueueMatchesTasks
    <3>2. queue' = {t.key : t \in tasks'}
      <4>1. \A e : e \in queue' => \E t \in tasks' : e = t.key
        BY <2>1, <2>3, <2>4, <3>1
      <4>2. \A t \in tasks' : t.key \in queue'
        BY <2>1, <2>3, <2>4, <3>1
      <4> QED BY <4>1, <4>2
    <3>3. ASSUME NEW t \in tasks', NEW u \in tasks', t.key = u.key
          PROVE  t = u
      <4>1. \A v \in tasks : v.key \in queue
        BY <3>1
      <4> QED BY <2>3, <2>4, <2>5, <3>1, <3>3, <4>1
    <3> QED BY <3>2, <3>3 DEF Status!QueueMatchesTasks
  <2>10. CallbacksListen' /\ ShownIsHeld' /\ HeldKeepsUp
    <3>1. \A u \in tasks' : u.pc = "waiting" \/ u \in tasks
      BY <2>3, <2>4, <2>5
    <3>2. ShownIsHeld'
      BY <1>0, <2>1, <2>2, <3>1, ShownStays
    <3> QED BY <1>0, <2>1, <2>2, <3>2, HeldStays DEF CallbacksListen
  <2> QED BY <2>6, <2>7, <2>8, <2>9, <2>10 DEF StatusInv
<1>10. ASSUME NEW t \in tasks, Status!Start(t)
       PROVE  StatusInv' /\ HeldKeepsUp
  <2>1. CASE subscriptions[t.key] = None \/ ~ signedIn
    BY <1>0, <1>10, <2>1, RefreshOver, HeldUnchanged DEF Status!Start, Status!TypeOK
  <2>2. CASE ~ (subscriptions[t.key] = None \/ ~ signedIn)
    <3> DEFINE u == [t EXCEPT !.pc = "api", !.live = TRUE, !.branch = subscriptions[t.key].branch,
                              !.version = server[t.key]]
    <3>1. /\ t \in Status!Task /\ t.key \in Key /\ subscriptions[t.key] \in Status!Subscription
          /\ server[t.key] \in Status!Version /\ server[t.key] \in Nat
      BY <1>0, <2>2, StatusParts DEF Status!TypeOK
    <3>2. /\ u \in Status!Task /\ u.key = t.key /\ u.version = server[t.key]
      BY <3>1 DEF Status!Task, Status!Subscription
    <3>3. Status!Becomes(t, u) /\ UNCHANGED <<server, subscriptions, cache, queue, refreshQueued,
                                              background, signedIn, listening, shown>>
      BY <1>10, <2>2 DEF Status!Start
    <3> HIDE DEF u
    <3> QED BY <2>2, <3>1, <3>2, <3>3, RefreshGoesOn
  <2> QED BY <2>1, <2>2
<1>11. ASSUME NEW t \in tasks, Status!AnsweredNothing(t)
       PROVE  StatusInv' /\ HeldKeepsUp
  <2> DEFINE e == [check |-> held[t.key], fresh |-> TRUE]
  <2>1. t.key \in Key /\ held \in [Key -> Status!Check \cup {None}]
    BY <1>0, StatusParts
  <2>2. /\ cache' = [cache EXCEPT ![t.key] = e] /\ Status!Over(t)
        /\ UNCHANGED <<server, subscriptions, refreshQueued, background, signedIn,
                       listening, shown>>
    BY <1>11, <2>1 DEF Status!AnsweredNothing, held
  <2>3. e \in Status!CacheEntry /\ e.check = held[t.key]
    BY <2>1 DEF Status!CacheEntry
  <2> HIDE DEF e
  <2>4. /\ held' = [held EXCEPT ![t.key] = e.check]
        /\ cache' \in [Key -> Status!CacheEntry \cup {None}] /\ CacheKept
    BY <1>0, <2>1, <2>2, <2>3, CacheReplaced
  <2>5. held' = held
    BY <2>1, <2>3, <2>4
  <2> QED BY <2>2, <2>4, <2>5, RefreshOver
<1>12. ASSUME NEW t \in tasks, NEW p \in Status!Part, Status!Answered(t, p)
       PROVE  StatusInv' /\ HeldKeepsUp
  <2> DEFINE Waits(v) == [t EXCEPT !.pc = "workflows", !.version = v, !.part = p]
  <2>1. PICK v \in t.version .. server[t.key] :
          \/ Status!Deliver(t, Status!Combined(v, p))
          \/ Status!Becomes(t, Waits(v)) /\ UNCHANGED <<cache, queue, shown>>
    BY <1>12 DEF Status!Answered
  <2>2. t.pc = "api"
        /\ UNCHANGED <<server, subscriptions, refreshQueued, background, signedIn, listening>>
    BY <1>12 DEF Status!Answered
  <2>3. /\ t \in Status!Task /\ server[t.key] \in Nat /\ t.version \in Nat
        /\ server[t.key] \in Status!Version
    BY <1>0, StatusParts DEF Status!TypeOK
  <2>4. v \in Status!Version /\ v \in Nat /\ t.version <= v /\ v <= server[t.key]
    BY <2>1, <2>3 DEF Status!Version
  <2>5. CASE Status!Deliver(t, Status!Combined(v, p))
    <3> DEFINE check == Status!Combined(v, p)
    <3>1. check \in Status!Check \cup {None} /\ (check # None => check.version = v)
      BY <2>4 DEF Status!Check, Status!Combined
    <3> HIDE DEF check
    <3> QED BY <2>2, <2>4, <2>5, <3>1, CheckDelivered DEF check
  <2>6. CASE Status!Becomes(t, Waits(v)) /\ UNCHANGED <<cache, queue, shown>>
    <3> DEFINE u == Waits(v)
    <3>1. u \in Status!Task /\ u.key = t.key /\ u.version = v /\ u.live = t.live
      BY <2>3, <2>4 DEF Status!Task
    <3>2. u.live => subscriptions[t.key] # None
      BY <1>0, <3>1 DEF LiveIsSubscribed
    <3>3. Status!Becomes(t, u)
      BY <2>6
    <3> HIDE DEF u
    <3> QED BY <2>2, <2>4, <2>6, <3>1, <3>2, <3>3, RefreshGoesOn
  <2> QED BY <2>1, <2>5, <2>6
<1>13. ASSUME NEW t \in tasks, Status!WorkflowsAnswered(t)
       PROVE  StatusInv' /\ HeldKeepsUp
  <2> DEFINE check == Status!Combined(t.version, t.part)
  <2>1. /\ check \in Status!Check \cup {None} /\ t.version \in Nat
        /\ check # None => check.version = t.version
    BY <1>0, StatusParts DEF Status!Task, Status!Check, Status!Combined
  <2>2. t.version <= server[t.key] /\ t.version <= t.version
    BY <1>0, <2>1 DEF NothingNewer
  <2>3. /\ t.pc = "workflows" /\ Status!Deliver(t, check)
        /\ UNCHANGED <<server, subscriptions, refreshQueued, background, signedIn, listening>>
    BY <1>13 DEF Status!WorkflowsAnswered
  <2> HIDE DEF check
  <2> QED BY <2>1, <2>2, <2>3, CheckDelivered
<1>14. ASSUME NEW t \in tasks, Status!RefreshFailed(t)
       PROVE  StatusInv' /\ HeldKeepsUp
  BY <1>0, <1>14, RefreshOver, HeldUnchanged DEF Status!RefreshFailed, Status!TypeOK
<1>15. CASE UNCHANGED Status!vars
  BY <1>0, <1>1, <1>15, HeldUnchanged DEF Status!vars, Status!TypeOK
<1> QED
  BY <1>2, <1>3, <1>4, <1>5, <1>6, <1>7, <1>8, <1>9, <1>10, <1>11, <1>12, <1>13, <1>14, <1>15
     DEF Status!Next, Status!User, Status!Settle

LEMMA StatusInductive == Status!Spec => []StatusInv
<1>1. StatusInv /\ [Status!Next]_Status!vars => StatusInv'
  BY StatusStep
<1> QED BY StatusInit, <1>1, PTL DEF Status!Spec

LEMMA ChecksStep ==
    ASSUME StatusInv, [Status!Next]_Status!vars
    PROVE  [\A k \in Key :
              Status!CachedCheck(k) # None /\ Status!CachedCheck(k)' # None =>
                 Status!CachedCheck(k)'.version >= Status!CachedCheck(k).version]_Status!vars
<1>1. StatusInv' /\ HeldKeepsUp
  BY StatusStep
<1>2. \A k \in Key : held[k] = Status!CachedCheck(k) /\ held'[k] = Status!CachedCheck(k)'
  BY DEF held
<1>3. \A k \in Key : held[k] # None => held[k].version \in Nat
  BY StatusParts DEF StatusInv
<1>4. \A k \in Key : held'[k] # None => held'[k].version \in Nat
  <2>1. held' \in [Key -> Status!Check \cup {None}]
    BY <1>1, StatusNone
       DEF StatusInv, Status!TypeOK, held, Status!CachedCheck, Status!CacheEntry
  <2> QED BY <2>1, StatusParts DEF StatusInv
<1>5. \A k \in Key : held[k] # None /\ held'[k] # None => held'[k].version >= held[k].version
  BY <1>1, <1>3, <1>4 DEF HeldKeepsUp
<1> QED BY <1>2, <1>5

-----------------------------------------------------------------------------
(* The components side by side.                                            *)

\* A step of the whole is a step of each component or none of it.
LEMMA StepsOfComponents ==
    /\ AnyInit => /\ Init /\ Status!Init /\ Indicators!Init /\ AheadBehind!Init
                  /\ Trampoline!Init
    /\ [AnyNext]_<<part, vars, statusVars, indicatorVars, aheadBehindVars, trampolineVars>> =>
          /\ [Next]_vars /\ [Status!Next]_Status!vars
          /\ [Indicators!Next]_Indicators!vars /\ [AheadBehind!Next]_AheadBehind!vars
          /\ [Trampoline!Next]_Trampoline!vars
BY DEF AnyInit, AnyNext, vars, statusVars, indicatorVars, aheadBehindVars, trampolineVars,
       Status!vars, Indicators!vars, AheadBehind!vars, Trampoline!vars

\* Whatever refreshes overlap, fail or outlive their subscription: the queue holds just
\* the keys being refreshed, no component shows anything newer than what is cached, and no answer
\* is replaced by one that is older.
THEOREM ChecksConsistent == AnySpec => ChecksAreConsistent
<1>1. AnySpec => Status!Spec
  BY StepsOfComponents, PTL DEF AnySpec, Status!Spec
<1>2. StatusInv => Status!QueueMatchesTasks /\ Status!ShownIsCached
  <2> SUFFICES ASSUME StatusInv, NEW l \in Listener, shown[l] # None
               PROVE  /\ cache[listening[l].key] # None
                      /\ Status!CachedCheck(listening[l].key) # None =>
                            shown[l].version <= Status!CachedCheck(listening[l].key).version
    BY DEF StatusInv, Status!ShownIsCached
  <2>1. listening[l].key \in Key
    BY StatusParts DEF StatusInv, ShownIsHeld
  <2> QED BY <2>1 DEF StatusInv, ShownIsHeld, Behind, held
<1>3. Status!Spec => Status!CacheNeverRegresses
  BY StatusInductive, ChecksStep, PTL DEF Status!Spec, Status!CacheNeverRegresses
<1> QED
  BY <1>1, <1>2, <1>3, StatusInductive, PTL DEF ChecksAreConsistent

\* The variables of all components keep their types, in every behaviour of them side by
\* side: the limiter's queue has each caller that waits, once; git is at work at just the
\* ranges somebody waits for; a token is valid while its command lasts; no timer is set
\* but while the updater runs.
THEOREM NetworkTypes == AnySpec => []AllTypeOK
<1>1. AnySpec => /\ Spec /\ Status!Spec /\ Trampoline!Spec
                 /\ Indicators!Init /\ [][Indicators!Next]_Indicators!vars
                 /\ AheadBehind!Init /\ [][AheadBehind!Next]_AheadBehind!vars
  BY StepsOfComponents, PTL DEF AnySpec, Spec, Status!Spec, Trampoline!Spec
<1>2. Indicators!Init /\ [][Indicators!Next]_Indicators!vars => []IndicatorsInv
  BY IndicatorsInit, IndicatorsStep, PTL
<1>3. AheadBehind!Init /\ [][AheadBehind!Next]_AheadBehind!vars => []AheadBehindInv
  BY AheadBehindInit, AheadBehindStep, PTL
<1>4. TypeOK /\ StatusInv /\ TrampolineInv /\ IndicatorsInv /\ AheadBehindInv => AllTypeOK
  BY DEF AllTypeOK, StatusInv, TrampolineInv, IndicatorsInv, AheadBehindInv
<1> QED
  BY <1>1, <1>2, <1>3, <1>4, TypeCorrect, StatusInductive, TrampolineInductive, PTL
=============================================================================
