-------------------- MODULE MultiCommitOperation_proofs --------------------
(***************************************************************************)
(* That a squash or a reorder under way has the undo state of its own      *)
(* beginning, for every number of branches, commits, handlers and          *)
(* refreshes, and whatever operations, dialogs, conflicts and commands of  *)
(* the command line come between its steps; and that the stack of popups   *)
(* stays in its order.                                                     *)
(***************************************************************************)
EXTENDS MultiCommitOperation, InOrder_proofs, SequenceTheorems, TLAPS

\* The handlers, and the points they are at.
Point == {"warn", "start", "running", "checkout", "continue", "continued", "rebased",
          "checkedOut", "reset", "processed", "conflicts", "picked", "merged", "finished",
          "abort",
          "checkoutSource", "aborted", "refresh", "end"}

HandlerState ==
    [pc : Point, load : {"no", "read", "apply", "snapshot"},
     undo : [sha : 0..MaxSha, flow : FlowState],
     seen : ViewState \cup [conflict : ConflictKind \cup {"none"}],
     kind : AnyKind \cup {"none", "undo"}, src : Branch \cup {NoBranch},
     dst : Branch \cup {NoBranch},
     result : {"none", "completed", "conflicts", "error", "gone", "notStaged"}]

\* What a handler may rely on: the status it is about to apply was read whole, a state is
\* made for conflicts there were, git is started for an operation with its branches, and
\* an undo has a commit to go back to.
HandlerOK(h) ==
    /\ h.load = "apply" => h.seen \in ViewState
    /\ h.load = "snapshot" => h.seen.conflict \in ConflictKind
    /\ h.pc \in {"warn", "start", "running", "checkout"} => h.kind \in AnyKind
    /\ h.pc \in {"warn", "start"} /\ h.kind = "rebase" => h.src \in Branch
    /\ h.pc = "checkout" => h.kind = "cherryPick" /\ h.dst \in Branch
    /\ h.pc = "checkedOut" => h.kind = "cherryPick"
    /\ h.pc = "reset" => h.undo.sha # 0

Handlers == {h \in HandlerState : HandlerOK(h)}

GitState == [head : Branch, tip : [Branch -> 1..MaxSha], next : 2..MaxSha + 1,
             busy : ConflictKind \cup {"none"}, running : BOOLEAN, dirty : BOOLEAN]

UndoState == [branch : Branch \cup {NoBranch}, sha : 0..MaxSha, valid : BOOLEAN]

BannerState == [kind : {"none", "success", "conflicts"}, flow : FlowState]

\* The stacks the popup manager may hold.
Ordered == {s \in Seq(PopupType) : StackIsOrdered(s)}
Stacks == {s \in Ordered : Len(s) <= PopupLimit}

\* The state of the store and the popups, in their order. The undo state of a branch is
\* a commit; the one of a squash or reorder is where its flow began; and who chooses a
\* branch to rebase onto has a branch to rebase.
UiOK(u) ==
    /\ u = [flow |-> u.flow, undo |-> u.undo, popups |-> u.popups, banner |-> u.banner,
            late |-> u.late]
    /\ u.flow \in FlowState /\ u.undo \in UndoState /\ u.banner \in BannerState
    /\ u.late \in BOOLEAN /\ u.popups \in Stacks
    /\ u.undo.branch # NoBranch => u.undo.sha # 0
    /\ u.flow.kind \in Interactive => u.undo.valid = TRUE /\ u.undo.sha = u.flow.orig
    /\ u.flow.kind = "rebase" /\ u.flow.step = "chooseBranch" => u.flow.source \in Branch

TasksOK == task \in [Task \cup Refresher -> Handlers \cup {NoTask}]

OperationInv == git \in GitState /\ view \in ViewState /\ UiOK(ui) /\ TasksOK

-----------------------------------------------------------------------------
(* The stack of popups.                                                             *)

\* What is left of an ordered stack is ordered.
LEMMA StackFiltered ==
    ASSUME NEW stack \in Ordered, NEW places \in SUBSET DOMAIN stack
    PROVE  /\ ElementsAt(stack, places) \in Ordered
           /\ Len(ElementsAt(stack, places)) <= Len(stack)
<1> DEFINE left == ElementsAt(stack, places)
           place == InOrder(places)
           size == Cardinality(places)
<1>1. stack \in Seq(PopupType) /\ StackIsOrdered(stack)
  BY DEF Ordered
<1>2. /\ left \in Seq(PopupType) /\ DOMAIN left = 1 .. size
      /\ \A n \in 1 .. size : place[n] \in DOMAIN stack /\ left[n] = stack[place[n]]
      /\ \A m, n \in 1 .. size : m < n <=> place[m] < place[n]
      /\ size \in Nat /\ Len(left) = size
  BY <1>1, ElementsAtIs
<1>. size <= Len(stack)
  <2>1. DOMAIN stack = 1 .. Len(stack) /\ Len(stack) \in Nat
    BY <1>1
  <2>2. IsFiniteSet(DOMAIN stack) /\ Cardinality(DOMAIN stack) = Len(stack)
    BY <2>1, FS_Interval
  <2> QED BY <2>2, FS_Subset
<1> HIDE DEF left, place, size
<1>3. ASSUME NEW m \in DOMAIN left, NEW n \in DOMAIN left, left[m] = "error", m < n
      PROVE  left[n] = "error"
  <2>1. /\ place[m] \in DOMAIN stack /\ place[n] \in DOMAIN stack /\ place[m] < place[n]
        /\ left[m] = stack[place[m]] /\ left[n] = stack[place[n]]
    BY <1>2, <1>3
  <2> QED BY <1>1, <1>3, <2>1 DEF StackIsOrdered
<1>4. ASSUME NEW m \in DOMAIN left, NEW n \in DOMAIN left, left[m] = left[n], m # n
      PROVE  left[m] = "error"
  <2>1. m < n \/ n < m
    BY <1>2, <1>4
  <2>2. place[m] \in Int /\ place[n] \in Int
    BY <1>1, <1>2
  <2>3. place[m] # place[n]
    BY <1>2, <2>1, <2>2
  <2> QED BY <1>1, <1>2, <1>4, <2>3 DEF StackIsOrdered
<1> QED BY <1>2, <1>3, <1>4 DEF Ordered, StackIsOrdered, left

\* So it is without its first or its last.
LEMMA StackShortened ==
    ASSUME NEW stack \in Ordered, stack # <<>>
    PROVE  /\ Tail(stack) \in Ordered /\ Len(Tail(stack)) = Len(stack) - 1
           /\ RemoveCurrent(stack) \in Ordered /\ Len(RemoveCurrent(stack)) = Len(stack) - 1
<1>1. stack \in Seq(PopupType) /\ StackIsOrdered(stack) /\ Len(stack) \in Nat /\ Len(stack) > 0
      /\ DOMAIN stack = 1 .. Len(stack)
  BY DEF Ordered
<1>2. Tail(stack) \in Ordered /\ Len(Tail(stack)) = Len(stack) - 1
  <2> DEFINE tail == Tail(stack)
  <2>1. /\ tail \in Seq(PopupType) /\ Len(tail) = Len(stack) - 1
        /\ DOMAIN tail = 1 .. Len(stack) - 1
        /\ \A n \in DOMAIN tail : n + 1 \in DOMAIN stack /\ tail[n] = stack[n + 1]
    BY <1>1, HeadTailProperties
  <2> HIDE DEF tail
  <2>2. StackIsOrdered(tail)
    <3>1. ASSUME NEW m \in DOMAIN tail, NEW n \in DOMAIN tail, tail[m] = "error", m < n
          PROVE  tail[n] = "error"
      BY <1>1, <2>1, <3>1 DEF StackIsOrdered
    <3>2. ASSUME NEW m \in DOMAIN tail, NEW n \in DOMAIN tail, tail[m] = tail[n], m # n
          PROVE  tail[m] = "error"
      BY <1>1, <2>1, <3>2 DEF StackIsOrdered
    <3> QED BY <3>1, <3>2 DEF StackIsOrdered
  <2> QED BY <2>1, <2>2 DEF Ordered, tail
<1>3. RemoveCurrent(stack) \in Ordered /\ Len(RemoveCurrent(stack)) = Len(stack) - 1
  <2> DEFINE front == RemoveCurrent(stack)
  <2>1. /\ front \in Seq(PopupType) /\ Len(front) = Len(stack) - 1
        /\ DOMAIN front = 1 .. Len(stack) - 1
        /\ \A n \in DOMAIN front : n \in DOMAIN stack /\ front[n] = stack[n]
    BY <1>1 DEF RemoveCurrent
  <2> HIDE DEF front
  <2>2. StackIsOrdered(front)
    BY <1>1, <2>1 DEF StackIsOrdered
  <2> QED BY <2>1, <2>2 DEF Ordered, front
<1> QED BY <1>2, <1>3

\* An error on top is in order, and a popup of a new type between the others and
\* the errors.
LEMMA PopupInserted ==
    ASSUME NEW stack \in Ordered
    PROVE  /\ Append(stack, "error") \in Ordered
           /\ Len(Append(stack, "error")) = Len(stack) + 1
           /\ \A type \in PopupType : type # "error" /\ ~ AreTherePopupsOfType(stack, type) =>
                 /\ InsertBeforeErrorPopups(stack, type) \in Ordered
                 /\ Len(InsertBeforeErrorPopups(stack, type)) = Len(stack) + 1
<1>1. stack \in Seq(PopupType) /\ StackIsOrdered(stack) /\ Len(stack) \in Nat
      /\ DOMAIN stack = 1 .. Len(stack)
  BY DEF Ordered
<1>2. Append(stack, "error") \in Ordered /\ Len(Append(stack, "error")) = Len(stack) + 1
  <2> DEFINE s == Append(stack, "error")
  <2>1. /\ s \in Seq(PopupType) /\ DOMAIN s = 1 .. Len(stack) + 1 /\ Len(s) = Len(stack) + 1
        /\ \A n \in DOMAIN stack : s[n] = stack[n]
        /\ s[Len(stack) + 1] = "error"
    <3>1. "error" \in PopupType
      BY DEF PopupType
    <3> QED BY <1>1, <3>1, AppendProperties
  <2> HIDE DEF s
  <2>2. StackIsOrdered(s)
    BY <1>1, <2>1 DEF StackIsOrdered
  <2> QED BY <2>1, <2>2 DEF Ordered, s
<1>3. ASSUME NEW type \in PopupType, type # "error", ~ AreTherePopupsOfType(stack, type),
             CurrentPopup(stack) # "error"
      PROVE  Append(stack, type) \in Ordered /\ Len(Append(stack, type)) = Len(stack) + 1
  <2> DEFINE s == Append(stack, type)
  <2>1. /\ s \in Seq(PopupType) /\ DOMAIN s = 1 .. Len(stack) + 1 /\ Len(s) = Len(stack) + 1
        /\ \A n \in DOMAIN stack : s[n] = stack[n]
        /\ s[Len(stack) + 1] = type
    BY <1>1, AppendProperties
  <2> HIDE DEF s
  <2>2. \A n \in DOMAIN stack : stack[n] # "error" /\ stack[n] # type
    <3>1. ASSUME NEW n \in DOMAIN stack, stack[n] = "error" PROVE FALSE
      <4>1. stack # <<>> /\ Len(stack) \in DOMAIN stack /\ stack[Len(stack)] # "error"
        BY <1>1, <1>3 DEF CurrentPopup
      <4>2. n = Len(stack) \/ n < Len(stack)
        BY <1>1
      <4> QED BY <1>1, <3>1, <4>1, <4>2 DEF StackIsOrdered
    <3> QED BY <1>3, <3>1 DEF AreTherePopupsOfType
  <2>3. StackIsOrdered(s)
    <3>1. \A n \in DOMAIN s : s[n] # "error"
      BY <1>1, <1>3, <2>1, <2>2
    <3>2. ASSUME NEW m \in DOMAIN s, NEW n \in DOMAIN s, s[m] = s[n], m # n
          PROVE  s[m] = "error"
      <4>1. CASE m \in DOMAIN stack /\ n \in DOMAIN stack
        BY <1>1, <2>1, <3>2, <4>1 DEF StackIsOrdered
      <4>2. CASE m = Len(stack) + 1
        BY <1>1, <2>1, <2>2, <3>2, <4>2
      <4>3. CASE n = Len(stack) + 1
        BY <1>1, <2>1, <2>2, <3>2, <4>3
      <4> QED BY <1>1, <2>1, <4>1, <4>2, <4>3
    <3> QED BY <3>1, <3>2 DEF StackIsOrdered
  <2> QED BY <2>1, <2>3 DEF Ordered, s
<1>4. ASSUME NEW type \in PopupType, type # "error", ~ AreTherePopupsOfType(stack, type),
             CurrentPopup(stack) = "error"
      PROVE  /\ InsertBeforeErrorPopups(stack, type) \in Ordered
             /\ Len(InsertBeforeErrorPopups(stack, type)) = Len(stack) + 1
  <2> DEFINE errors == {i \in DOMAIN stack : stack[i] = "error"}
             others == {i \in DOMAIN stack : stack[i] # "error"}
             below == ElementsAt(stack, others)
             above == ElementsAt(stack, errors)
             s == below \o <<type>> \o above
  <2>1. /\ below \in Seq(PopupType) /\ StackIsOrdered(below)
        /\ \A n \in DOMAIN below : below[n] # "error" /\ below[n] # type
    <3>1. /\ below \in Seq(PopupType) /\ DOMAIN below = 1 .. Cardinality(others)
          /\ \A n \in 1 .. Cardinality(others) : InOrder(others)[n] \in others
                                               /\ below[n] = stack[InOrder(others)[n]]
      BY <1>1, ElementsAtIs
    <3>2. StackIsOrdered(below)
      BY StackFiltered DEF Ordered
    <3>3. \A i \in others : stack[i] # "error" /\ stack[i] # type
      BY <1>4 DEF AreTherePopupsOfType
    <3> HIDE DEF others, below
    <3> QED BY <3>1, <3>2, <3>3
  <2>2. above \in Seq(PopupType) /\ \A n \in DOMAIN above : above[n] = "error"
    <3>1. /\ above \in Seq(PopupType) /\ DOMAIN above = 1 .. Cardinality(errors)
          /\ \A n \in 1 .. Cardinality(errors) : InOrder(errors)[n] \in errors
                                               /\ above[n] = stack[InOrder(errors)[n]]
      BY <1>1, ElementsAtIs
    <3>2. \A i \in errors : stack[i] = "error"
      OBVIOUS
    <3> HIDE DEF errors, above
    <3> QED BY <3>1, <3>2
  <2>9. Len(below) + Len(above) = Len(stack)
    <3>1. IsFiniteSet(DOMAIN stack) /\ Cardinality(DOMAIN stack) = Len(stack)
      BY <1>1, FS_Interval
    <3>2. others \cup errors = DOMAIN stack /\ others \cap errors = {}
      OBVIOUS
    <3>3. IsFiniteSet(others) /\ IsFiniteSet(errors)
      BY <3>1, FS_Subset
    <3>4. Len(below) = Cardinality(others) /\ Len(above) = Cardinality(errors)
      BY <1>1, ElementsAtIs
    <3> HIDE DEF others, errors, below, above
    <3> QED BY <3>1, <3>2, <3>3, <3>4, DisjointSum
  <2> HIDE DEF below, above
  <2>3. /\ s \in Seq(PopupType) /\ Len(s) = Len(below) + 1 + Len(above) /\ DOMAIN s = 1 .. Len(below) + 1 + Len(above)
        /\ Len(below) \in Nat /\ Len(above) \in Nat
        /\ \A n \in DOMAIN s : s[n] = IF n <= Len(below) THEN below[n]
                                      ELSE IF n = Len(below) + 1 THEN type ELSE "error"
    <3>1. <<type>> \in Seq(PopupType) /\ Len(<<type>>) = 1 /\ <<type>>[1] = type
      OBVIOUS
    <3> HIDE DEF s
    <3>2. /\ below \o <<type>> \in Seq(PopupType)
          /\ Len(below \o <<type>>) = Len(below) + 1
          /\ \A n \in 1 .. Len(below) + 1 : (below \o <<type>>)[n] =
                IF n <= Len(below) THEN below[n] ELSE <<type>>[n - Len(below)]
      BY <2>1, <3>1, ConcatProperties
    <3>3. /\ s \in Seq(PopupType)
          /\ Len(s) = Len(below) + 1 + Len(above)
          /\ \A n \in 1 .. Len(below) + 1 + Len(above) : s[n] =
                IF n <= Len(below) + 1 THEN (below \o <<type>>)[n]
                                       ELSE above[n - (Len(below) + 1)]
      BY <2>2, <3>2, ConcatProperties DEF s
    <3>4. Len(below) \in Nat /\ Len(above) \in Nat /\ DOMAIN above = 1 .. Len(above)
      BY <2>1, <2>2
    <3>5. ASSUME NEW n \in DOMAIN s
          PROVE  s[n] = IF n <= Len(below) THEN below[n]
                        ELSE IF n = Len(below) + 1 THEN type ELSE "error"
      <4>1. n \in 1 .. Len(below) + 1 + Len(above)
        BY <3>3, <3>4
      <4>2. CASE n <= Len(below)
        BY <3>2, <3>3, <3>4, <4>1, <4>2
      <4>3. CASE n = Len(below) + 1
        BY <3>1, <3>2, <3>3, <3>4, <4>1, <4>3
      <4>4. CASE n > Len(below) + 1
        <5>1. n - (Len(below) + 1) \in DOMAIN above
          BY <3>4, <4>1, <4>4
        <5> QED BY <2>2, <3>3, <3>4, <4>1, <4>4, <5>1
      <4> QED BY <3>4, <4>1, <4>2, <4>3, <4>4
    <3> QED BY <3>3, <3>4, <3>5
  <2>4. InsertBeforeErrorPopups(stack, type) = s
    BY <1>4 DEF InsertBeforeErrorPopups, NotOfType, OfType, below, above
  <2> HIDE DEF s
  <2>5. DOMAIN below = 1 .. Len(below)
    BY <2>1
  <2>6. ASSUME NEW m \in DOMAIN s, NEW n \in DOMAIN s, s[m] = "error", m < n
        PROVE  s[n] = "error"
    <3>1. ~ (m <= Len(below)) /\ m # Len(below) + 1
      BY <1>4, <2>1, <2>3, <2>5, <2>6
    <3> QED BY <2>3, <2>6, <3>1
  <2>7. ASSUME NEW m \in DOMAIN s, NEW n \in DOMAIN s, s[m] = s[n], m # n
        PROVE  s[m] = "error"
    <3>1. CASE m <= Len(below)
      <4>1. s[m] # type /\ s[m] # "error" /\ s[m] = below[m] /\ m \in DOMAIN below
        BY <2>1, <2>3, <2>5, <3>1
      <4>2. n <= Len(below)
        BY <2>3, <2>7, <4>1
      <4>3. s[n] = below[n] /\ n \in DOMAIN below
        BY <2>3, <2>5, <4>2
      <4> QED BY <2>1, <2>7, <4>1, <4>3 DEF StackIsOrdered
    <3>2. CASE m = Len(below) + 1
      <4>1. s[n] # type
        <5>1. CASE n <= Len(below)
          BY <2>1, <2>3, <2>5, <5>1
        <5>2. CASE ~ (n <= Len(below))
          BY <1>4, <2>3, <2>7, <3>2, <5>2
        <5> QED BY <5>1, <5>2
      <4> QED BY <2>3, <2>7, <3>2, <4>1
    <3>3. CASE m > Len(below) + 1
      BY <2>3, <3>3
    <3> QED BY <2>3, <3>1, <3>2, <3>3
  <2>8. StackIsOrdered(s)
    BY <2>6, <2>7 DEF StackIsOrdered
  <2> QED BY <2>3, <2>4, <2>8, <2>9 DEF Ordered
<1> QED BY <1>2, <1>3, <1>4 DEF InsertBeforeErrorPopups

\* The methods of the popup manager, one more being within the limit when the oldest has
\* gone.
LEMMA StackStays ==
    ASSUME NEW stack \in Stacks
    PROVE  /\ \A type \in PopupType : AddPopup(stack, type) \in Stacks
           /\ ClosePopup(stack) \in Stacks
           /\ \A type : ClosePopupOfType(stack, type) \in Stacks
<1>1. stack \in Ordered /\ Len(stack) <= PopupLimit /\ Len(stack) \in Nat /\ PopupLimit \in Nat
  BY PopupLimitAssumption DEF Stacks, Ordered
<1>2. ASSUME NEW s \in Ordered, Len(s) = Len(stack) + 1 PROVE CheckStackLength(s) \in Stacks
  <2>1. s # <<>>
    BY <1>1, <1>2
  <2> QED BY <1>1, <1>2, <2>1, StackShortened DEF CheckStackLength, Stacks
<1>3. ASSUME NEW type \in PopupType PROVE AddPopup(stack, type) \in Stacks
  BY <1>1, <1>2, PopupInserted DEF AddPopup
<1>4. ClosePopup(stack) \in Stacks
  BY <1>1, StackShortened DEF ClosePopup, Stacks
<1>5. ASSUME NEW type PROVE ClosePopupOfType(stack, type) \in Stacks
  <2> DEFINE left == RemovePopupByType(stack, type)
  <2>1. {i \in DOMAIN stack : stack[i] # type} \in SUBSET DOMAIN stack
    OBVIOUS
  <2>2. left \in Ordered /\ Len(left) <= Len(stack)
    BY <1>1, <2>1, StackFiltered DEF RemovePopupByType, NotOfType
  <2>3. left \in Stacks
    BY <1>1, <2>2 DEF Stacks, Ordered
  <2> HIDE DEF left
  <2> QED BY <2>3 DEF ClosePopupOfType, left
<1> QED BY <1>3, <1>4, <1>5

-----------------------------------------------------------------------------
(* What the methods of the store make of its state.                                 *)

\* The bounds are those of a repository with a branch and a commit.
LEMMA BoundsAre == MaxSha \in Nat /\ MaxSha >= 1 /\ Branch # {}
BY MultiCommitAssumption

\* There is a flow if and only if it has a kind, and then it has all its parts.
LEMMA FlowIs ==
    ASSUME NEW f \in FlowState
    PROVE  /\ f # NoFlow <=> f.kind # "none"
           /\ f # NoFlow => /\ f.kind \in AnyKind /\ f.source \in Branch \cup {NoBranch}
                            /\ f.orig \in 0 .. MaxSha
BY DEF FlowState, NoFlow, AnyKind, ConflictKind, Interactive

\* No other part of the invariant is about the popups ...
LEMMA PopupsChange ==
    ASSUME NEW u, UiOK(u), NEW p \in Stacks
    PROVE  UiOK([u EXCEPT !.popups = p])
BY DEF UiOK

\* ... or about whether a dialog is still to open.
LEMMA LateChanges ==
    ASSUME NEW u, UiOK(u), NEW b \in BOOLEAN
    PROVE  UiOK([u EXCEPT !.late = b])
BY DEF UiOK

\* endMultiCommitOperation.
LEMMA FlowEnds ==
    ASSUME NEW u, UiOK(u)
    PROVE  UiOK(EndMultiCommitOperation(u)) /\ EndMultiCommitOperation(u).flow = NoFlow
BY DEF UiOK, EndMultiCommitOperation, NoFlow, FlowState, Interactive

\* _setBanner.
LEMMA BannerSet ==
    ASSUME NEW u, UiOK(u), NEW b \in BannerState
    PROVE  UiOK(SetBanner(u, b))
BY DEF UiOK, SetBanner

\* A flow of another kind than squash and reorder needs no undo state.
LEMMA FlowSet ==
    ASSUME NEW u, UiOK(u), NEW f \in FlowState, f.kind \notin Interactive,
           f.kind = "rebase" /\ f.step = "chooseBranch" => f.source \in Branch
    PROVE  UiOK([u EXCEPT !.flow = f]) /\ [u EXCEPT !.flow = f].flow = f
BY DEF UiOK

\* setMultiCommitOperationStep, but for the choice of a branch.
LEMMA StepSet ==
    ASSUME NEW u, UiOK(u),
           NEW step \in {"warnForcePush", "showProgress", "hideConflicts"} \cup ConflictSteps
    PROVE  UiOK(SetStep(u, step)) /\ SetStep(u, step).flow.kind = u.flow.kind
<1>1. CASE u.flow = NoFlow
  BY <1>1 DEF SetStep
<1>2. CASE u.flow # NoFlow
  <2>1. PICK kind \in AnyKind, old \in {"chooseBranch", "warnForcePush", "showProgress",
                "hideConflicts"} \cup ConflictSteps,
             source \in Branch \cup {NoBranch}, orig \in 0 .. MaxSha :
          u.flow = [kind |-> kind, step |-> old, source |-> source, orig |-> orig]
    BY <1>2 DEF UiOK, FlowState
  <2>2. step # "chooseBranch"
    BY DEF ConflictSteps
  <2> DEFINE f == [kind |-> kind, step |-> step, source |-> source, orig |-> orig]
  <2>3. SetStep(u, step) = [u EXCEPT !.flow = f]
    BY <1>2, <2>1 DEF SetStep, UiOK
  <2>4. f \in FlowState /\ f.kind = u.flow.kind /\ f.orig = u.flow.orig
        /\ f.step # "chooseBranch"
    BY <2>1, <2>2 DEF FlowState
  <2> HIDE DEF f
  <2> QED BY <2>3, <2>4 DEF UiOK
<1> QED BY <1>1, <1>2

\* A flow that begins with the undo state as it is, or with one of its own.
LEMMA FlowBegins ==
    ASSUME NEW u, UiOK(u), NEW kind \in AnyKind, NEW source \in Branch \cup {NoBranch},
           NEW orig \in 0 .. MaxSha
    PROVE  /\ kind \in ConflictKind =>
                UiOK(InitializeMultiCommitOperation(u, kind, source, orig))
           /\ InitializeMultiCommitOperation(u, kind, source, orig).flow.kind = kind
           /\ \A branch \in Branch : orig # 0 =>
                UiOK([InitializeMultiCommitOperation(u, kind, source, orig)
                        EXCEPT !.undo = [branch |-> branch, sha |-> orig, valid |-> TRUE]])
<1> DEFINE f == [kind |-> kind, step |-> "showProgress", source |-> source, orig |-> orig]
<1>1. InitializeMultiCommitOperation(u, kind, source, orig) = [u EXCEPT !.flow = f]
  BY DEF InitializeMultiCommitOperation, Flow
<1>2. /\ f \in FlowState /\ f.kind = kind /\ f.orig = orig /\ f.step # "chooseBranch"
  BY DEF FlowState
<1>3. kind \in ConflictKind => kind \notin Interactive
  BY DEF ConflictKind, Interactive
<1> HIDE DEF f
<1>4. kind \in ConflictKind => UiOK([u EXCEPT !.flow = f])
  BY <1>2, <1>3 DEF UiOK
<1>5. ASSUME NEW branch \in Branch, orig # 0
      PROVE  UiOK([[u EXCEPT !.flow = f]
                     EXCEPT !.undo = [branch |-> branch, sha |-> orig, valid |-> TRUE]])
  <2> DEFINE n == [branch |-> branch, sha |-> orig, valid |-> TRUE]
  <2>1. n \in UndoState /\ n.sha = orig /\ n.valid = TRUE
    BY DEF UndoState
  <2> HIDE DEF n
  <2> DEFINE w == [flow |-> f, undo |-> n, popups |-> u.popups, banner |-> u.banner,
                   late |-> u.late]
  <2>2. [[u EXCEPT !.flow = f] EXCEPT !.undo = n] = w
    <3> DEFINE v == [flow |-> f, undo |-> u.undo, popups |-> u.popups, banner |-> u.banner,
                     late |-> u.late]
    <3>1. [u EXCEPT !.flow = f] = v
      BY DEF UiOK
    <3>2. [v EXCEPT !.undo = n] = w
      OBVIOUS
    <3> QED BY <3>1, <3>2
  <2>3. w.flow = f /\ w.undo = n /\ w.banner \in BannerState /\ w.late \in BOOLEAN
        /\ w.popups \in Stacks
        /\ w = [flow |-> w.flow, undo |-> w.undo, popups |-> w.popups, banner |-> w.banner,
                late |-> w.late]
    BY DEF UiOK
  <2> HIDE DEF w
  <2>4. UiOK(w)
    BY <1>2, <1>5, <2>1, <2>3 DEF UiOK
  <2> QED BY <2>2, <2>4 DEF n
<1>6. [u EXCEPT !.flow = f].flow.kind = kind
  BY <1>2 DEF UiOK
<1> QED BY <1>1, <1>4, <1>5, <1>6

\* The undo state of a cherry-pick, while no squash or reorder is under way.
LEMMA UndoSet ==
    ASSUME NEW u, UiOK(u), u.flow.kind \notin Interactive, NEW n \in UndoState,
           n.branch # NoBranch => n.sha # 0
    PROVE  UiOK([u EXCEPT !.undo = n])
BY DEF UiOK

\* The types of popups that are shown.
LEMMA PopupTypesAre == "flow" \in PopupType /\ "localChanges" \in PopupType /\ "error" \in PopupType
BY DEF PopupType

\* The popups come and go, and a flow ends with its popup.
LEMMA PopupOps ==
    ASSUME NEW u, UiOK(u)
    PROVE  /\ \A type \in PopupType :
                 UiOK(ShowPopup(u, type)) /\ ShowPopup(u, type).flow = u.flow
           /\ UiOK(CloseAnyPopup(u)) /\ CloseAnyPopup(u).flow = u.flow
           /\ UiOK(CloseFlowPopup(u)) /\ CloseFlowPopup(u).flow = u.flow
           /\ UiOK(OnFlowEnded(u))
           /\ \A result : UiOK(EmitError(u, result)) /\ EmitError(u, result).flow = u.flow
<1>1. ASSUME NEW p \in Stacks
      PROVE  UiOK([u EXCEPT !.popups = p]) /\ [u EXCEPT !.popups = p].flow = u.flow
  BY PopupsChange DEF UiOK
<1> DEFINE stack == u.popups
<1>. stack \in Stacks
  BY DEF UiOK
<1>2. ASSUME NEW type \in PopupType
      PROVE  UiOK(ShowPopup(u, type)) /\ ShowPopup(u, type).flow = u.flow
  BY <1>1, StackStays DEF ShowPopup
<1>3. UiOK(CloseAnyPopup(u)) /\ CloseAnyPopup(u).flow = u.flow
  BY <1>1, StackStays DEF CloseAnyPopup
<1>4. UiOK(CloseFlowPopup(u)) /\ CloseFlowPopup(u).flow = u.flow
  BY <1>1, StackStays DEF CloseFlowPopup
<1>5. UiOK(OnFlowEnded(u))
  BY <1>4, FlowEnds DEF OnFlowEnded
<1>6. \A result : UiOK(EmitError(u, result)) /\ EmitError(u, result).flow = u.flow
  BY <1>2, PopupTypesAre DEF EmitError
<1> QED BY <1>2, <1>3, <1>4, <1>5, <1>6

\* The banners there are.
LEMMA BannersAre ==
    /\ NoBanner \in BannerState
    /\ [kind |-> "conflicts", flow |-> NoFlow] \in BannerState
    /\ \A f \in FlowState : [kind |-> "success", flow |-> f] \in BannerState
BY DEF NoBanner, BannerState, FlowState, NoFlow

\* The conflicts dialog opens, or asks whether to abort.
LEMMA ConflictsShow ==
    ASSUME NEW u, UiOK(u)
    PROVE  UiOK(ShowConflicts(u)) /\ UiOK(SetStep(u, "confirmAbort"))
<1>1. UiOK(SetStep(u, "showConflicts")) /\ UiOK(SetStep(u, "confirmAbort"))
  BY StepSet DEF ConflictSteps
<1> QED BY <1>1, PopupOps, PopupTypesAre DEF ShowConflicts

\* _triggerConflictsFlow and clearConflictsFlowVisuals.
LEMMA FlowsTrigger ==
    ASSUME NEW u, UiOK(u), NEW c
    PROVE  UiOK(ClearConflictsFlowVisuals(u)) /\ UiOK(TriggerConflictsFlow(u, c))
<1>1. UiOK(ClearConflictsFlowVisuals(u))
  <2>1. UiOK(CloseFlowPopup(u)) /\ u.banner \in BannerState
    BY PopupOps DEF UiOK
  <2>2. (IF u.banner.kind = "conflicts" THEN NoBanner ELSE u.banner) \in BannerState
    BY <2>1, BannersAre
  <2>3. UiOK(SetBanner(CloseFlowPopup(u),
                      IF u.banner.kind = "conflicts" THEN NoBanner ELSE u.banner))
    BY <2>1, <2>2, BannerSet
  <2> QED BY <2>3 DEF ClearConflictsFlowVisuals
<1>2. UiOK([u EXCEPT !.late = TRUE]) /\ UiOK(ShowConflicts(u))
  BY LateChanges, ConflictsShow
<1> QED BY <1>1, <1>2 DEF TriggerConflictsFlow

\* A state for conflicts nobody started.
LEMMA FlowsOfConflicts ==
    ASSUME NEW u, UiOK(u), NEW c \in ConflictKind
    PROVE  UiOK(InitializeFromConflicts(u, c))
<1> DEFINE v == InitializeMultiCommitOperation(u, c, NoBranch, 0)
           n == [branch |-> NoBranch, sha |-> 0, valid |-> TRUE]
<1>1. c \in AnyKind /\ 0 \in 0 .. MaxSha /\ c \notin Interactive
  BY BoundsAre DEF AnyKind, ConflictKind, Interactive
<1>2. UiOK(v) /\ v.flow.kind = c
  BY <1>1, FlowBegins
<1>3. n \in UndoState /\ n.branch = NoBranch
  BY BoundsAre DEF UndoState
<1> HIDE DEF v, n
<1>4. UiOK([v EXCEPT !.undo = n])
  BY <1>1, <1>2, <1>3, UndoSet
<1> QED BY <1>2, <1>4 DEF InitializeFromConflicts, v, n

\* The ends of an operation: done, or stopped in conflicts.
LEMMA FlowsComplete ==
    ASSUME NEW u, UiOK(u)
    PROVE  UiOK(Complete(u)) /\ UiOK(StartConflictFlow(u))
<1> DEFINE v == CloseAnyPopup(u)
<1>1. UiOK(v)
  BY PopupOps
<1> HIDE DEF v
<1>2. v.flow \in FlowState
  BY <1>1 DEF UiOK
<1>3. UiOK(EndMultiCommitOperation(SetBanner(v, [kind |-> "success", flow |-> v.flow])))
  BY <1>1, <1>2, BannersAre, BannerSet, FlowEnds
<1>4. UiOK(Complete(u))
  BY <1>1, <1>3 DEF Complete, v
<1> QED BY <1>4, FlowEnds, ConflictsShow DEF StartConflictFlow

\* A squash or reorder begins: its undo state is where its flow begins.
LEMMA InteractiveBegins ==
    ASSUME NEW u, UiOK(u), NEW kind \in Interactive, NEW orig \in 0 .. MaxSha, orig # 0,
           NEW branch \in Branch
    PROVE  UiOK([ShowPopup(InitializeMultiCommitOperation(u, kind, NoBranch, orig), "flow")
                   EXCEPT !.undo = [branch |-> branch, sha |-> orig, valid |-> TRUE]])
<1> DEFINE v == InitializeMultiCommitOperation(u, kind, NoBranch, orig)
           n == [branch |-> branch, sha |-> orig, valid |-> TRUE]
           w == [v EXCEPT !.undo = n]
<1>1. kind \in AnyKind
  BY DEF AnyKind
<1>2. UiOK(w)
  BY <1>1, FlowBegins
<1>3. v = [flow |-> v.flow, undo |-> v.undo, popups |-> v.popups, banner |-> v.banner,
           late |-> v.late]
  BY DEF InitializeMultiCommitOperation, UiOK
<1> DEFINE p == AddPopup(v.popups, "flow")
<1> HIDE DEF v, n
<1>4. ShowPopup(v, "flow") = [flow |-> v.flow, undo |-> v.undo, popups |-> p,
                              banner |-> v.banner, late |-> v.late]
  BY <1>3 DEF ShowPopup
<1> HIDE DEF p
<1>5. [ShowPopup(v, "flow") EXCEPT !.undo = n] = [flow |-> v.flow, undo |-> n, popups |-> p,
                                                  banner |-> v.banner, late |-> v.late]
  BY <1>4
<1>6. w = [flow |-> v.flow, undo |-> n, popups |-> v.popups, banner |-> v.banner,
           late |-> v.late]
  BY <1>3
<1> HIDE DEF w
<1>7. [w EXCEPT !.popups = p] = [flow |-> v.flow, undo |-> n, popups |-> p,
                                 banner |-> v.banner, late |-> v.late]
  BY <1>6
<1>8. UiOK([w EXCEPT !.popups = p])
  <2>1. w.popups = v.popups /\ w.popups \in Stacks
    BY <1>2, <1>6 DEF UiOK
  <2>2. p \in Stacks
    BY <2>1, StackStays, PopupTypesAre DEF p
  <2> QED BY <1>2, <2>2, PopupsChange
<1> QED BY <1>5, <1>7, <1>8 DEF v, n

-----------------------------------------------------------------------------
(* The repository and the handlers.                                                 *)

\* A branch the app shows has a commit.
LEMMA ShaIs ==
    ASSUME view \in ViewState
    PROVE  /\ \A b \in Branch \cup {NoBranch} :
                ViewSha(b) \in 0 .. MaxSha /\ (b # NoBranch => ViewSha(b) # 0)
           /\ CurrentSha \in 0 .. MaxSha
           /\ view.branch # NoBranch => CurrentSha # 0 /\ view.branch \in Branch
           /\ view.branch \in Branch \cup {NoBranch}
           /\ view.conflict \in ConflictKind \cup {"none"}
<1>1. /\ view.branch \in Branch \cup {NoBranch} /\ view.tips \in [Branch -> 1 .. MaxSha]
      /\ view.conflict \in ConflictKind \cup {"none"}
  BY DEF ViewState
<1>2. \A b \in Branch \cup {NoBranch} :
         ViewSha(b) \in 0 .. MaxSha /\ (b # NoBranch => ViewSha(b) # 0)
  BY <1>1, BoundsAre DEF ViewSha
<1> QED BY <1>1, <1>2 DEF CurrentSha

\* What git status reads is what a view is made of.
LEMMA StatusIs ==
    ASSUME git \in GitState
    PROVE  Status \in ViewState
<1>1. /\ git.head \in Branch /\ git.tip \in [Branch -> 1 .. MaxSha]
      /\ git.busy \in ConflictKind \cup {"none"}
  BY DEF GitState
<1>2. (git.dirty \/ git.busy # "none") \in BOOLEAN
  OBVIOUS
<1>3. (IF git.busy = "rebase" THEN NoBranch ELSE git.head) \in Branch \cup {NoBranch}
  BY <1>1
<1> QED BY <1>1, <1>2, <1>3 DEF Status, ViewState

\* git works in a rebase, a cherry-pick or a merge.
LEMMA GitKinds ==
    \A kind \in AnyKind : GitKind(kind) \in ConflictKind
BY DEF GitKind, AnyKind, ConflictKind, Interactive

\* git leaves a repository when it stops and when it commits.
LEMMA GitIs ==
    ASSUME git \in GitState
    PROVE  /\ \A busy \in ConflictKind \cup {"none"} : GitStop(busy) \in GitState
           /\ \A g \in GitCommit : g \in GitState
<1>1. \A busy \in ConflictKind \cup {"none"} : GitStop(busy) \in GitState
  BY DEF GitStop, GitState
<1>2. ASSUME NEW g \in GitCommit PROVE g \in GitState
  <2>1. /\ git.head \in Branch /\ git.tip \in [Branch -> 1 .. MaxSha]
        /\ git.next \in 2 .. MaxSha + 1 /\ git.dirty \in BOOLEAN
    BY DEF GitState
  <2> DEFINE tip == [git.tip EXCEPT ![git.head] = git.next]
  <2>2. /\ git.next <= MaxSha
        /\ g = [git EXCEPT !.tip[git.head] = git.next, !.next = @ + 1, !.busy = "none",
                           !.running = FALSE]
    BY <1>2 DEF GitCommit
  <2>3. tip \in [Branch -> 1 .. MaxSha] /\ git.next + 1 \in 2 .. MaxSha + 1
    BY <2>1, <2>2, BoundsAre
  <2>4. g = [head |-> git.head, tip |-> tip, next |-> git.next + 1, busy |-> "none",
             running |-> FALSE, dirty |-> git.dirty]
    BY <2>2 DEF GitState
  <2> HIDE DEF tip
  <2> QED BY <2>1, <2>3, <2>4 DEF GitState
<1> QED BY <1>1, <1>2

\* What a command ends with ...
LEMMA OutcomesAre ==
    ASSUME git \in GitState, NEW kind \in ConflictKind, NEW o \in GitOutcomes(kind)
    PROVE  o.git \in GitState /\ o.result \in {"completed", "conflicts", "error"}
<1>1. /\ GitStop(kind) \in GitState /\ GitStop("none") \in GitState
      /\ \A g \in GitCommit : g \in GitState
  BY GitIs
<1>2. \/ \E g \in GitCommit : o = [git |-> g, result |-> "completed"]
      \/ o = [git |-> GitStop(kind), result |-> "conflicts"]
      \/ \E r \in {"error", "completed"} : o = [git |-> GitStop("none"), result |-> r]
  BY Zenon DEF GitOutcomes
<1>3. CASE \E g \in GitCommit : o = [git |-> g, result |-> "completed"]
  BY <1>1, <1>3
<1>4. CASE o = [git |-> GitStop(kind), result |-> "conflicts"]
  BY <1>1, <1>4
<1>5. CASE \E r \in {"error", "completed"} : o = [git |-> GitStop("none"), result |-> r]
  BY <1>1, <1>5
<1> QED BY <1>2, <1>3, <1>4, <1>5

\* A handler that is under way is no idle one.
LEMMA HandlerIs ==
    ASSUME NEW h \in Handlers
    PROVE  h \in HandlerState /\ HandlerOK(h) /\ h # NoTask
<1>1. h \in HandlerState /\ HandlerOK(h)
  BY DEF Handlers
<1>2. h.pc \in Point
  BY <1>1 DEF HandlerState
<1>3. h.pc # "idle"
  BY <1>2 DEF Point
<1>4. h # NoTask
  BY <1>3 DEF NoTask
<1> QED BY <1>1, <1>4

\* A handler that begins.
LEMMA HandlingIs ==
    ASSUME NEW pc \in Point, NEW load \in {"no", "read"}, NEW kind \in AnyKind \cup {"none", "undo"},
           NEW src \in Branch \cup {NoBranch}, NEW dst \in Branch \cup {NoBranch},
           pc \in {"warn", "start", "running", "checkout"} => kind \in AnyKind,
           pc \in {"warn", "start"} /\ kind = "rebase" => src \in Branch,
           pc = "checkout" => kind = "cherryPick" /\ dst \in Branch,
           pc \notin {"checkedOut", "reset"}
    PROVE  Handling(pc, load, kind, src, dst) \in Handlers
<1> DEFINE h == Handling(pc, load, kind, src, dst)
<1>1. h = [pc |-> pc, load |-> load, seen |-> NoStatus, kind |-> kind, src |-> src, dst |-> dst,
           undo |-> NotUndoing, result |-> "none"]
  BY DEF Handling
<1>2. NoStatus \in ViewState \cup [conflict : ConflictKind \cup {"none"}]
  BY DEF NoStatus
<1>3. NotUndoing \in [sha : 0..MaxSha, flow : FlowState]
  BY BoundsAre DEF NotUndoing, Undoing, FlowState
<1>4. h \in HandlerState
  BY <1>1, <1>2, <1>3 DEF HandlerState
<1>5. HandlerOK(h)
  BY <1>1 DEF HandlerOK
<1> QED BY <1>4, <1>5 DEF Handlers

\* A handler may begin.
LEMMA BeginKeeps ==
    ASSUME TasksOK, NEW t \in Task \cup Refresher, NEW pc \in Point, NEW load \in {"no", "read"},
           NEW kind \in AnyKind \cup {"none", "undo"},
           NEW src \in Branch \cup {NoBranch}, NEW dst \in Branch \cup {NoBranch},
           pc \in {"warn", "start", "running", "checkout"} => kind \in AnyKind,
           pc \in {"warn", "start"} /\ kind = "rebase" => src \in Branch,
           pc = "checkout" => kind = "cherryPick" /\ dst \in Branch,
           pc \notin {"checkedOut", "reset"},
           Begin(t, pc, load, kind, src, dst)
    PROVE  TasksOK'
<1>1. Handling(pc, load, kind, src, dst) \in Handlers
  BY HandlingIs
<1>2. task' = [task EXCEPT ![t] = Handling(pc, load, kind, src, dst)]
  BY DEF Begin
<1>3. Handlers' = Handlers
  BY DEF Handlers, HandlerState, HandlerOK, ViewState, FlowState
<1> QED BY <1>1, <1>2, <1>3 DEF TasksOK

\* A handler that goes on.
LEMMA AtIs ==
    ASSUME TasksOK, NEW t \in Task \cup Refresher, ~Free(t), NEW pc \in Point,
           NEW load \in {"no", "read"},
           pc \in {"warn", "start", "running", "checkout"} => task[t].kind \in AnyKind,
           pc \in {"warn", "start"} /\ task[t].kind = "rebase" => task[t].src \in Branch,
           pc = "checkout" => task[t].kind = "cherryPick" /\ task[t].dst \in Branch,
           pc = "checkedOut" => task[t].kind = "cherryPick",
           pc = "reset" => task[t].undo.sha # 0
    PROVE  /\ At(t, pc, load) \in Handlers
           /\ \A r \in {"none", "completed", "conflicts", "error", "gone", "notStaged"} :
                [At(t, pc, load) EXCEPT !.result = r] \in Handlers
<1>1. task[t] \in Handlers
  BY DEF TasksOK, Free
<1>2. At(t, pc, load) \in Handlers
  <2>1. CASE pc = "end"
    BY <2>1, HandlingIs DEF At
  <2>2. CASE pc # "end"
    <3> DEFINE h == task[t]
               k == [pc |-> pc, load |-> load, seen |-> NoStatus, kind |-> h.kind,
                     src |-> h.src, dst |-> h.dst, undo |-> h.undo, result |-> h.result]
    <3>1. h \in HandlerState
      BY <1>1, HandlerIs
    <3>2. At(t, pc, load) = k
      BY <2>2, <3>1 DEF At, HandlerState
    <3>3. NoStatus \in ViewState \cup [conflict : ConflictKind \cup {"none"}]
      BY DEF NoStatus
    <3>4. k \in HandlerState
      BY <3>1, <3>3 DEF HandlerState
    <3>5. HandlerOK(k)
      BY DEF HandlerOK
    <3> HIDE DEF k
    <3> QED BY <3>2, <3>4, <3>5 DEF Handlers
  <2> QED BY <2>1, <2>2
<1>3. ASSUME NEW h \in Handlers,
             NEW r \in {"none", "completed", "conflicts", "error", "gone", "notStaged"}
      PROVE  [h EXCEPT !.result = r] \in Handlers
  <2>1. h \in HandlerState /\ HandlerOK(h)
    BY HandlerIs
  <2>2. [h EXCEPT !.result = r] \in HandlerState
    BY <2>1 DEF HandlerState
  <2>3. HandlerOK([h EXCEPT !.result = r])
    BY <2>1 DEF HandlerOK, HandlerState
  <2> QED BY <2>2, <2>3 DEF Handlers
<1> QED BY <1>2, <1>3

\* A handler may go on.
LEMMA GotoKeeps ==
    ASSUME TasksOK, NEW t \in Task \cup Refresher, NEW h \in Handlers, Goto(t, h)
    PROVE  TasksOK'
<1>1. task' = [task EXCEPT ![t] = IF h.pc = "end" /\ h.load = "no" THEN NoTask ELSE h]
  BY DEF Goto
<1>2. Handlers' = Handlers
  BY DEF Handlers, HandlerState, HandlerOK, ViewState, FlowState
<1> QED BY <1>1, <1>2 DEF TasksOK

\* A handler may end.
LEMMA TaskLeaves ==
    ASSUME TasksOK, NEW t \in Task \cup Refresher, task' = [task EXCEPT ![t] = NoTask]
    PROVE  TasksOK'
<1>2. Handlers' = Handlers
  BY DEF Handlers, HandlerState, HandlerOK, ViewState, FlowState
<1> QED BY <1>2 DEF TasksOK

-----------------------------------------------------------------------------
(* The steps.                                                                       *)

\* The invariant of the next state, part by part.
LEMMA InvHolds ==
    ASSUME git' \in GitState, view' \in ViewState, UiOK(ui'), TasksOK'
    PROVE  OperationInv'
BY DEF OperationInv, GitState, ViewState, UiOK, FlowState, UndoState, BannerState

\* What is known of a handler under way.
LEMMA TaskIs ==
    ASSUME TasksOK, NEW t \in Task \cup Refresher, ~Free(t)
    PROVE  /\ task[t] \in Handlers /\ task[t] \in HandlerState /\ HandlerOK(task[t])
           /\ task[t].pc \in Point /\ task[t].kind \in AnyKind \cup {"none", "undo"}
           /\ task[t].src \in Branch \cup {NoBranch} /\ task[t].dst \in Branch \cup {NoBranch}
           /\ task[t].undo \in [sha : 0..MaxSha, flow : FlowState]
<1>1. task[t] \in Handlers
  BY DEF TasksOK, Free
<1>2. task[t] \in HandlerState /\ HandlerOK(task[t])
  BY <1>1, HandlerIs
<1> QED BY <1>1, <1>2 DEF HandlerState

LEMMA LoadStatusReadStep ==
    ASSUME OperationInv, NEW t \in Task \cup Refresher, LoadStatusRead(t)
    PROVE  OperationInv'
<1> DEFINE h == [task[t] EXCEPT !.load = "apply", !.seen = Status]
<1>1. ~Free(t) /\ Goto(t, h) /\ UNCHANGED <<git, view, ui>>
  BY DEF LoadStatusRead, LoadIs
<1>2. task[t] \in HandlerState /\ HandlerOK(task[t])
  BY <1>1, TaskIs DEF OperationInv
<1>3. Status \in ViewState
  BY StatusIs DEF OperationInv
<1>4. h \in HandlerState
  BY <1>2, <1>3 DEF HandlerState
<1>5. HandlerOK(h)
  BY <1>2, <1>3 DEF HandlerState, HandlerOK
<1> HIDE DEF h
<1>6. TasksOK'
  BY <1>1, <1>4, <1>5, GotoKeeps DEF OperationInv, Handlers
<1> QED BY <1>1, <1>6, InvHolds DEF OperationInv

\* Where a handler goes on after it has loaded the status.
LEMMA LoadIsLeft ==
    ASSUME TasksOK, NEW t \in Task \cup Refresher, ~Free(t)
    PROVE  /\ At(t, task[t].pc, "no") \in Handlers
           /\ \A c \in ConflictKind :
                [At(t, task[t].pc, "no") EXCEPT !.load = "snapshot", !.seen.conflict = c]
                  \in Handlers
<1> DEFINE left == At(t, task[t].pc, "no")
<1>1. /\ HandlerOK(task[t]) /\ task[t].pc \in Point /\ task[t] \in HandlerState
  BY TaskIs
<1>2. left \in Handlers
  BY <1>1, AtIs DEF HandlerOK
<1>3. left.seen = NoStatus
  BY <1>1 DEF At, Handling, HandlerState
<1> HIDE DEF left
<1>4. ASSUME NEW c \in ConflictKind
      PROVE  [left EXCEPT !.load = "snapshot", !.seen.conflict = c] \in Handlers
  <2> DEFINE seen == [conflict |-> c]
             k == [pc |-> left.pc, load |-> "snapshot", seen |-> seen, kind |-> left.kind,
                   src |-> left.src, dst |-> left.dst, undo |-> left.undo,
                   result |-> left.result]
  <2>1. left \in HandlerState /\ HandlerOK(left)
    BY <1>2, HandlerIs
  <2>2. [NoStatus EXCEPT !.conflict = c] = seen
    BY DEF NoStatus
  <2>3. [left EXCEPT !.load = "snapshot", !.seen.conflict = c] = k
    <3> DEFINE m == [pc |-> left.pc, load |-> "snapshot", seen |-> left.seen,
                     kind |-> left.kind, src |-> left.src, dst |-> left.dst,
                     undo |-> left.undo, result |-> left.result]
    <3>1. [left EXCEPT !.load = "snapshot"] = m
      BY <2>1 DEF HandlerState
    <3>2. [m EXCEPT !.seen.conflict = c] = k
      BY <1>3 DEF NoStatus
    <3> QED BY <3>1, <3>2
  <2>4. seen \in [conflict : ConflictKind \cup {"none"}] /\ seen.conflict = c
    OBVIOUS
  <2> HIDE DEF seen
  <2>5. k \in HandlerState
    BY <2>1, <2>4 DEF HandlerState
  <2>6. HandlerOK(k)
    BY <2>1, <2>4 DEF HandlerOK
  <2> HIDE DEF k
  <2> QED BY <2>3, <2>5, <2>6 DEF Handlers
<1> QED BY <1>2, <1>4 DEF left

\* The status that is applied was read whole, by the same handler.
LEMMA LoadStatusApplyStep ==
    ASSUME OperationInv, NEW t \in Task \cup Refresher, LoadStatusApply(t)
    PROVE  OperationInv'
<1> DEFINE c      == task[t].seen.conflict
           left   == At(t, task[t].pc, "no")
           isNew  == c # "none" /\ ui.flow = NoFlow
           awaits == isNew /\ c \in {"rebase", "cherryPick"}
           first  == IF c = "none" \/ ui.flow = NoFlow THEN ClearConflictsFlowVisuals(ui) ELSE ui
           snapshot == [left EXCEPT !.load = "snapshot", !.seen.conflict = c]
<1>1. /\ ~Free(t) /\ task[t].load = "apply" /\ view' = task[t].seen
      /\ ui' = IF awaits THEN first
               ELSE TriggerConflictsFlow(
                      IF isNew THEN InitializeFromConflicts(first, c) ELSE first, c)
      /\ Goto(t, IF awaits THEN snapshot ELSE left)
      /\ UNCHANGED <<git, bound>>
  BY DEF LoadStatusApply, LoadIs
<1>2. task[t].seen \in ViewState
  BY <1>1, TaskIs DEF OperationInv, HandlerOK
<1>3. c \in ConflictKind \cup {"none"}
  BY <1>2 DEF ViewState
<1>4. c \in {"rebase", "cherryPick"} => c \in ConflictKind
  BY DEF ConflictKind
<1>5. left \in Handlers /\ (c \in ConflictKind => snapshot \in Handlers)
  BY <1>1, LoadIsLeft DEF OperationInv
<1> HIDE DEF c, left, snapshot
<1>6. UiOK(first)
  BY FlowsTrigger DEF OperationInv
<1> HIDE DEF first
<1>7. UiOK(IF isNew THEN InitializeFromConflicts(first, c) ELSE first)
  BY <1>3, <1>6, FlowsOfConflicts
<1>8. UiOK(ui')
  BY <1>1, <1>6, <1>7, FlowsTrigger
<1>9. TasksOK'
  BY <1>1, <1>4, <1>5, GotoKeeps DEF OperationInv
<1> QED BY <1>1, <1>2, <1>8, <1>9, InvHolds DEF OperationInv

\* The snapshot of an operation that nobody started.
LEMMA LoadStatusSnapshotStep ==
    ASSUME OperationInv, NEW t \in Task \cup Refresher, LoadStatusSnapshot(t)
    PROVE  OperationInv'
<1> DEFINE c == task[t].seen.conflict
           u == IF git.busy = c THEN InitializeFromConflicts(ui, c) ELSE ui
<1>1. /\ ~Free(t) /\ task[t].load = "snapshot"
      /\ ui' = TriggerConflictsFlow(u, view.conflict)
      /\ Goto(t, At(t, task[t].pc, "no"))
      /\ UNCHANGED <<git, view, bound>>
  BY DEF LoadStatusSnapshot, LoadIs
<1>2. c \in ConflictKind
  BY <1>1, TaskIs DEF OperationInv, HandlerOK
<1>3. UiOK(u)
  BY <1>2, FlowsOfConflicts DEF OperationInv
<1> HIDE DEF u
<1>4. UiOK(ui')
  BY <1>1, <1>3, FlowsTrigger
<1>5. TasksOK'
  BY <1>1, LoadIsLeft, GotoKeeps DEF OperationInv
<1> QED BY <1>1, <1>4, <1>5, InvHolds DEF OperationInv

LEMMA LateConflictsDialogStep ==
    ASSUME OperationInv, LateConflictsDialog
    PROVE  OperationInv'
<1>1. ui' = [ShowConflicts(ui) EXCEPT !.late = FALSE] /\ UNCHANGED <<git, view, task>>
  BY DEF LateConflictsDialog
<1>2. UiOK(ShowConflicts(ui))
  BY ConflictsShow DEF OperationInv
<1>3. UiOK(ui')
  BY <1>1, <1>2, LateChanges
<1> QED BY <1>1, <1>3, InvHolds DEF OperationInv, TasksOK

\* A dialog on the screen is one of a flow.
LEMMA ScreenIs ==
    ASSUME OperationInv, NEW kind \in AnyKind, NEW steps, OnScreen(kind, steps)
    PROVE  /\ ui.flow # NoFlow /\ ui.flow.kind = kind /\ ui.flow.step \in steps
           /\ ui.flow.source \in Branch \cup {NoBranch} /\ ui.flow.orig \in 0 .. MaxSha
<1>1. ui.flow # NoFlow /\ ui.flow.kind = kind /\ ui.flow.step \in steps
  BY DEF OnScreen
<1>2. ui.flow \in FlowState
  BY DEF OperationInv, UiOK
<1> QED BY <1>1, <1>2, FlowIs

\* The kinds of operation.
LEMMA KindsAre ==
    /\ \A kind \in Interactive : kind \in AnyKind /\ kind # "rebase" /\ kind # "cherryPick"
    /\ \A kind \in AnyKind : kind \in ConflictKind <=> kind \notin Interactive
    /\ {"rebase", "cherryPick", "merge"} \subseteq AnyKind
    /\ {"rebase", "cherryPick", "merge"} \subseteq ConflictKind
BY DEF AnyKind, ConflictKind, Interactive

LEMMA RefreshRepositoryStep ==
    ASSUME OperationInv, NEW t \in Refresher, RefreshRepository(t)
    PROVE  OperationInv'
<1>1. Begin(t, "end", "read", "none", NoBranch, NoBranch) /\ UNCHANGED <<git, view, ui>>
  BY DEF RefreshRepository
<1>2. "end" \in Point
  BY DEF Point
<1>3. TasksOK'
  BY <1>1, <1>2, BeginKeeps DEF OperationInv
<1> QED BY <1>1, <1>3, InvHolds DEF OperationInv

LEMMA StartInteractiveStep ==
    ASSUME OperationInv, NEW t \in Task, NEW kind \in AnyKind, StartInteractive(t, kind)
    PROVE  OperationInv'
<1>1. kind \in Interactive /\ view.branch # NoBranch /\ UNCHANGED <<git, view>>
  BY DEF StartInteractive, Starts
<1>2. CASE ui' = ShowPopup(ui, "localChanges") /\ UNCHANGED task
  <2>1. UiOK(ui')
    BY <1>2, PopupOps, PopupTypesAre DEF OperationInv
  <2> QED BY <1>1, <1>2, <2>1, InvHolds DEF OperationInv, TasksOK
<1>3. CASE BeginInteractive(kind) /\ Begin(t, "warn", "no", kind, view.branch, NoBranch)
  <2>1. CurrentSha \in 0 .. MaxSha /\ CurrentSha # 0 /\ view.branch \in Branch
    BY <1>1, ShaIs DEF OperationInv
  <2>2. UiOK(ui')
    BY <1>1, <1>3, <2>1, InteractiveBegins DEF OperationInv, BeginInteractive
  <2>3. "warn" \in Point /\ kind # "rebase" /\ kind \in AnyKind
    BY <1>1, KindsAre DEF Point
  <2>4. TasksOK'
    BY <1>3, <2>1, <2>3, BeginKeeps DEF OperationInv
  <2> QED BY <1>1, <2>2, <2>4, InvHolds DEF OperationInv
<1> QED BY <1>2, <1>3 DEF StartInteractive

\* A dialog to choose a branch in has a branch to work on.
LEMMA ShowChooseBranchStep ==
    ASSUME OperationInv, NEW kind \in AnyKind, ShowChooseBranch(kind)
    PROVE  OperationInv'
<1> DEFINE source == IF kind = "merge" THEN NoBranch ELSE view.branch
           f == [kind |-> kind, step |-> "chooseBranch", source |-> source, orig |-> CurrentSha]
           v == InitializeMultiCommitOperation(ui, kind, source, CurrentSha)
<1>1. /\ kind \notin Interactive /\ view.branch # NoBranch /\ UNCHANGED <<git, view, task>>
      /\ ui' = ShowPopup(SetStep(v, "chooseBranch"), "flow")
  BY DEF ShowChooseBranch, Starts
<1>2. CurrentSha \in 0 .. MaxSha /\ view.branch \in Branch /\ source \in Branch \cup {NoBranch}
      /\ (kind = "rebase" => source \in Branch)
  BY <1>1, ShaIs DEF OperationInv
<1>3. f \in FlowState /\ f.kind = kind /\ f.source = source
  BY <1>2 DEF FlowState
<1>4. UiOK(ui)
  BY DEF OperationInv
<1>5. SetStep(v, "chooseBranch") = [ui EXCEPT !.flow = f]
  <2>1. v = [ui EXCEPT !.flow = [kind |-> kind, step |-> "showProgress", source |-> source,
                                 orig |-> CurrentSha]]
    BY DEF InitializeMultiCommitOperation, Flow
  <2>2. v = [flow |-> [kind |-> kind, step |-> "showProgress", source |-> source,
                       orig |-> CurrentSha],
             undo |-> ui.undo, popups |-> ui.popups, banner |-> ui.banner, late |-> ui.late]
    BY <1>4, <2>1 DEF UiOK
  <2>3. v.flow # NoFlow
    BY <2>2, KindsAre DEF NoFlow, AnyKind, ConflictKind, Interactive
  <2>4. [v EXCEPT !.flow.step = "chooseBranch"]
          = [flow |-> f, undo |-> ui.undo, popups |-> ui.popups, banner |-> ui.banner,
             late |-> ui.late]
    BY <2>2
  <2>5. [ui EXCEPT !.flow = f]
          = [flow |-> f, undo |-> ui.undo, popups |-> ui.popups, banner |-> ui.banner,
             late |-> ui.late]
    BY <1>4 DEF UiOK
  <2> QED BY <2>3, <2>4, <2>5 DEF SetStep
<1> HIDE DEF f, v, source
<1>6. UiOK([ui EXCEPT !.flow = f])
  BY <1>1, <1>2, <1>3, <1>4, FlowSet
<1>7. UiOK(ui')
  BY <1>1, <1>5, <1>6, PopupOps, PopupTypesAre
<1> QED BY <1>1, <1>7, InvHolds DEF OperationInv, TasksOK

\* The branch to rebase is the one the dialog opened with.
LEMMA ChooseRebaseStep ==
    ASSUME OperationInv, NEW t \in Task, ChooseRebase(t)
    PROVE  OperationInv'
<1>1. /\ OnScreen("rebase", {"chooseBranch"}) /\ UNCHANGED <<git, view>>
      /\ ui' = InitializeMultiCommitOperation(ui, "rebase", ui.flow.source, CurrentSha)
      /\ Begin(t, "warn", "no", "rebase", ui.flow.source, NoBranch)
  BY DEF ChooseRebase
<1>2. ui.flow.source \in Branch
  BY <1>1, ScreenIs, KindsAre DEF OperationInv, UiOK
<1>3. CurrentSha \in 0 .. MaxSha
  BY ShaIs DEF OperationInv
<1>4. UiOK(ui')
  BY <1>1, <1>2, <1>3, FlowBegins, KindsAre DEF OperationInv
<1>5. "warn" \in Point
  BY DEF Point
<1>6. TasksOK'
  BY <1>1, <1>2, <1>5, KindsAre, BeginKeeps DEF OperationInv
<1> QED BY <1>1, <1>4, <1>6, InvHolds DEF OperationInv

LEMMA ChooseMergeStep ==
    ASSUME OperationInv, NEW t \in Task, NEW other \in Branch, ChooseMerge(t, other)
    PROVE  OperationInv'
<1> DEFINE f == [kind |-> ui.flow.kind, step |-> ui.flow.step, source |-> other,
                 orig |-> ui.flow.orig]
<1>1. /\ OnScreen("merge", {"chooseBranch"}) /\ UNCHANGED <<git, view>>
      /\ ui' = CloseFlowPopup([ui EXCEPT !.flow.source = other])
      /\ view.branch # NoBranch
      /\ Begin(t, "start", "no", "merge", view.branch, other)
  BY DEF ChooseMerge
<1>2. ui.flow # NoFlow /\ ui.flow.kind = "merge" /\ ui.flow \in FlowState
  BY <1>1, ScreenIs, KindsAre DEF OperationInv, UiOK
<1>3. f \in FlowState /\ f.kind = "merge" /\ [ui.flow EXCEPT !.source = other] = f
  BY <1>2 DEF FlowState
<1>4. [ui EXCEPT !.flow.source = other] = [ui EXCEPT !.flow = f]
  BY <1>3 DEF OperationInv, UiOK
<1> HIDE DEF f
<1>5. UiOK([ui EXCEPT !.flow = f])
  BY <1>3, KindsAre, FlowSet DEF OperationInv
<1>6. UiOK(ui')
  BY <1>1, <1>4, <1>5, PopupOps
<1>7. "start" \in Point /\ view.branch \in Branch
  BY <1>1, ShaIs DEF Point, OperationInv
<1>8. TasksOK'
  BY <1>1, <1>7, KindsAre, BeginKeeps DEF OperationInv
<1> QED BY <1>1, <1>6, <1>8, InvHolds DEF OperationInv

\* A cherry-pick begins, with changes in the way or without.
LEMMA BeginCherryPickStep ==
    ASSUME OperationInv, NEW t \in Task, NEW u, UiOK(u), u.flow.kind \notin Interactive,
           NEW other \in Branch, NEW source \in Branch \cup {NoBranch},
           BeginCherryPick(t, u, other, source), UNCHANGED <<git, view>>
    PROVE  OperationInv'
<1>1. CASE ui' = EndMultiCommitOperation(ShowPopup(u, "localChanges")) /\ UNCHANGED task
  <2>1. UiOK(ui')
    BY <1>1, PopupOps, PopupTypesAre, FlowEnds
  <2> QED BY <1>1, <2>1, InvHolds DEF OperationInv, TasksOK
<1>2. CASE /\ ui' = [u EXCEPT !.undo = [branch |-> other, sha |-> ViewSha(other), valid |-> TRUE]]
           /\ Begin(t, "checkout", "no", "cherryPick", source, other)
  <2> DEFINE n == [branch |-> other, sha |-> ViewSha(other), valid |-> TRUE]
  <2>1. n \in UndoState /\ (n.branch # NoBranch => n.sha # 0)
    BY ShaIs DEF OperationInv, UndoState
  <2> HIDE DEF n
  <2>2. UiOK([u EXCEPT !.undo = n])
    BY <2>1, UndoSet
  <2>3. UiOK(ui')
    BY <1>2, <2>2 DEF n
  <2>4. "checkout" \in Point
    BY DEF Point
  <2>5. TasksOK'
    BY <1>2, <2>4, KindsAre, BeginKeeps DEF OperationInv
  <2> QED BY <2>3, <2>5, InvHolds DEF OperationInv
<1> QED BY <1>1, <1>2 DEF BeginCherryPick

LEMMA ChooseCherryPickStep ==
    ASSUME OperationInv, NEW t \in Task, NEW other \in Branch, ChooseCherryPick(t, other)
    PROVE  OperationInv'
<1>1. /\ OnScreen("cherryPick", {"chooseBranch"}) /\ UNCHANGED <<git, view>>
      /\ BeginCherryPick(t, SetStep(ui, "showProgress"), other, ui.flow.source)
  BY DEF ChooseCherryPick
<1>2. ui.flow.kind = "cherryPick" /\ ui.flow.source \in Branch \cup {NoBranch}
  BY <1>1, ScreenIs, KindsAre
<1>3. UiOK(SetStep(ui, "showProgress")) /\ SetStep(ui, "showProgress").flow.kind = "cherryPick"
  BY <1>2, StepSet DEF OperationInv
<1> QED BY <1>1, <1>2, <1>3, KindsAre, BeginCherryPickStep

LEMMA StartCherryPickWithBranchStep ==
    ASSUME OperationInv, NEW t \in Task, NEW other \in Branch,
           StartCherryPickWithBranch(t, other)
    PROVE  OperationInv'
<1> DEFINE v == InitializeMultiCommitOperation(ui, "cherryPick", view.branch, CurrentSha)
<1>1. /\ UNCHANGED <<git, view>>
      /\ BeginCherryPick(t, ShowPopup(v, "flow"), other, view.branch)
  BY DEF StartCherryPickWithBranch
<1>2. view.branch \in Branch \cup {NoBranch} /\ CurrentSha \in 0 .. MaxSha
  BY ShaIs DEF OperationInv
<1>3. UiOK(v) /\ v.flow.kind = "cherryPick"
  BY <1>2, FlowBegins, KindsAre DEF OperationInv
<1> HIDE DEF v
<1>4. UiOK(ShowPopup(v, "flow")) /\ ShowPopup(v, "flow").flow.kind = "cherryPick"
  BY <1>3, PopupOps, PopupTypesAre
<1> QED BY <1>1, <1>2, <1>4, KindsAre, BeginCherryPickStep

LEMMA ClickStep ==
    ASSUME OperationInv, Click
    PROVE  OperationInv'
<1>1. ASSUME NEW kind \in AnyKind, ShowChooseBranch(kind) PROVE OperationInv'
  BY <1>1, ShowChooseBranchStep
<1>2. ASSUME UNCHANGED <<git, view, task>>, UiOK(ui') PROVE OperationInv'
  BY <1>2, InvHolds DEF OperationInv, TasksOK
<1>3. UiOK(ui)
  BY DEF OperationInv
<1>4. ASSUME NEW kind \in AnyKind, HideConflicts(kind) PROVE OperationInv'
  <2>1. UiOK(SetStep(ui, "hideConflicts"))
    BY <1>3, StepSet
  <2>2. UiOK(SetBanner(CloseFlowPopup(SetStep(ui, "hideConflicts")),
                       [kind |-> "conflicts", flow |-> NoFlow]))
    BY <2>1, PopupOps, BannersAre, BannerSet
  <2>3. UiOK(ui')
    BY <1>3, <1>4, <2>2, PopupOps DEF HideConflicts
  <2> QED BY <1>2, <1>4, <2>3 DEF HideConflicts
<1>5. CASE DismissFlow
  <2>1. UiOK(ui')
    BY <1>3, <1>5, PopupOps DEF DismissFlow
  <2> QED BY <1>2, <1>5, <2>1 DEF DismissFlow
<1>6. CASE DismissPopup
  <2>1. UiOK(ui')
    BY <1>3, <1>6, PopupOps DEF DismissPopup
  <2> QED BY <1>2, <1>6, <2>1 DEF DismissPopup
<1>7. CASE ConfirmAbort
  <2>1. UiOK(SetStep(ui, "confirmAbort")) /\ UiOK(SetStep(ui, "showConflicts"))
    BY <1>3, StepSet DEF ConflictSteps
  <2>2. UiOK(ui')
    BY <1>7, <2>1 DEF ConfirmAbort
  <2> QED BY <1>2, <1>7, <2>2 DEF ConfirmAbort
<1>8. CASE OpenConflicts
  <2>1. UiOK(SetBanner(ui, NoBanner))
    BY <1>3, BannersAre, BannerSet
  <2>2. UiOK([SetBanner(ui, NoBanner) EXCEPT !.late = TRUE])
        /\ UiOK(ShowConflicts(SetBanner(ui, NoBanner)))
    BY <2>1, LateChanges, ConflictsShow
  <2>3. UiOK(ui')
    BY <1>8, <2>1, <2>2 DEF OpenConflicts
  <2> QED BY <1>2, <1>8, <2>3 DEF OpenConflicts
<1>9. CASE BannerTimeout
  <2>1. UiOK(ui')
    BY <1>3, <1>9, BannersAre, BannerSet DEF BannerTimeout
  <2> QED BY <1>2, <1>9, <2>1 DEF BannerTimeout
<1> QED BY <1>1, <1>4, <1>5, <1>6, <1>7, <1>8, <1>9 DEF Click

LEMMA WarnAboutRemoteCommitsStep ==
    ASSUME OperationInv, NEW t \in Task \cup Refresher, WarnAboutRemoteCommits(t)
    PROVE  OperationInv'
<1>1. ~Free(t) /\ task[t].pc = "warn" /\ UNCHANGED <<git, view>>
  BY DEF WarnAboutRemoteCommits, Ready
<1>2. UiOK(SetStep(ui, "warnForcePush"))
  BY StepSet DEF OperationInv
<1>3. UiOK(ui')
  BY <1>2 DEF WarnAboutRemoteCommits, OperationInv
<1>4. At(t, "start", "no") \in Handlers
  <2>1. HandlerOK(task[t])
    BY <1>1, TaskIs DEF OperationInv
  <2> QED BY <1>1, <2>1, AtIs DEF OperationInv, Point, HandlerOK
<1>5. \/ task' = [task EXCEPT ![t] = NoTask]
      \/ Goto(t, At(t, "start", "no"))
  BY DEF WarnAboutRemoteCommits
<1>6. TasksOK'
  BY <1>4, <1>5, TaskLeaves, GotoKeeps DEF OperationInv
<1> QED BY <1>1, <1>3, <1>6, InvHolds DEF OperationInv

\* The operation that was warned about begins anew, with an undo state of now.
LEMMA BeginOperationStep ==
    ASSUME OperationInv, NEW t \in Task, NEW kind \in AnyKind, BeginOperation(t, kind)
    PROVE  OperationInv'
<1>1. /\ kind \in Interactive \cup {"rebase"} /\ OnScreen(kind, {"warnForcePush"})
      /\ UNCHANGED <<git, view>>
  BY DEF BeginOperation
<1>2. "start" \in Point
  BY DEF Point
<1>3. CASE kind = "rebase"
  <2>1. /\ ui.flow.source # NoBranch
        /\ ui' = InitializeMultiCommitOperation(ui, "rebase", ui.flow.source, CurrentSha)
        /\ Begin(t, "start", "no", "rebase", ui.flow.source, NoBranch)
    BY <1>3 DEF BeginOperation
  <2>2. ui.flow.source \in Branch
    BY <1>1, <2>1, ScreenIs
  <2>3. CurrentSha \in 0 .. MaxSha
    BY ShaIs DEF OperationInv
  <2>4. UiOK(ui')
    BY <2>1, <2>2, <2>3, FlowBegins, KindsAre DEF OperationInv
  <2>5. TasksOK'
    BY <1>2, <2>1, <2>2, KindsAre, BeginKeeps DEF OperationInv
  <2> QED BY <1>1, <2>4, <2>5, InvHolds DEF OperationInv
<1>4. CASE kind # "rebase" /\ ui' = ShowPopup(ui, "localChanges") /\ UNCHANGED task
  <2>1. UiOK(ui')
    BY <1>4, PopupOps, PopupTypesAre DEF OperationInv
  <2> QED BY <1>1, <1>4, <2>1, InvHolds DEF OperationInv, TasksOK
<1>5. CASE /\ kind # "rebase" /\ view.branch # NoBranch /\ BeginInteractive(kind)
           /\ Begin(t, "start", "no", kind, view.branch, NoBranch)
  <2>1. CurrentSha \in 0 .. MaxSha /\ CurrentSha # 0 /\ view.branch \in Branch
    BY <1>5, ShaIs DEF OperationInv
  <2>2. kind \in Interactive
    BY <1>1, <1>5
  <2>3. UiOK(ui')
    BY <1>5, <2>1, <2>2, InteractiveBegins DEF OperationInv, BeginInteractive
  <2>4. TasksOK'
    BY <1>2, <1>5, <2>1, BeginKeeps DEF OperationInv
  <2> QED BY <1>1, <2>3, <2>4, InvHolds DEF OperationInv
<1> QED BY <1>3, <1>4, <1>5 DEF BeginOperation

\* What the handler does when its command has ended.
LEMMA GitEndedStep ==
    ASSUME OperationInv, NEW t \in Task \cup Refresher, ~Free(t), task[t].kind \in AnyKind,
           NEW result \in {"completed", "conflicts", "error"}, GitEnded(t, result),
           git' \in GitState, view' = view
    PROVE  OperationInv'
<1> DEFINE kind == task[t].kind
           v == IF ui.flow # NoFlow THEN ui
                ELSE InitializeMultiCommitOperation(ui, "merge", task[t].dst, ViewSha(task[t].src))
<1>1. /\ ui' = CASE kind \in Interactive -> ui
                 [] kind = "merge" /\ result = "conflicts" -> ShowConflicts(v)
                 [] OTHER -> EmitError(ui, result)
      /\ Goto(t, [At(t, AfterGit(kind), IF kind = "merge" THEN "no" ELSE "read")
                    EXCEPT !.result = result])
  BY DEF GitEnded
<1>2. task[t].src \in Branch \cup {NoBranch} /\ task[t].dst \in Branch \cup {NoBranch}
  BY TaskIs DEF OperationInv
<1>3. UiOK(v)
  <2>1. ViewSha(task[t].src) \in 0 .. MaxSha
    BY <1>2, ShaIs DEF OperationInv
  <2> QED BY <1>2, <2>1, FlowBegins, KindsAre DEF OperationInv
<1>4. AfterGit(kind) \in {"processed", "rebased", "picked", "merged"}
  BY DEF AfterGit, AnyKind, ConflictKind
<1>5. AfterGit(kind) \in Point /\ AfterGit(kind) \notin {"warn", "start", "running", "checkout", "checkedOut", "reset"}
  BY <1>4 DEF Point
<1>6. [At(t, AfterGit(kind), IF kind = "merge" THEN "no" ELSE "read") EXCEPT !.result = result]
        \in Handlers
  <2>1. (IF kind = "merge" THEN "no" ELSE "read") \in {"no", "read"}
    OBVIOUS
  <2> HIDE DEF kind
  <2> DEFINE load == IF kind = "merge" THEN "no" ELSE "read"
  <2>2. load \in {"no", "read"}
    OBVIOUS
  <2> HIDE DEF load
  <2>3. [At(t, AfterGit(kind), load) EXCEPT !.result = result] \in Handlers
    BY <1>5, <2>2, AtIs DEF OperationInv
  <2> QED BY <2>3 DEF load
<1> HIDE DEF v
<1>7. UiOK(ui) /\ UiOK(ShowConflicts(v)) /\ UiOK(EmitError(ui, result))
  BY <1>3, ConflictsShow, PopupOps DEF OperationInv
<1>8. UiOK(ui')
  BY <1>1, <1>7
<1>9. TasksOK'
  BY <1>1, <1>6, GotoKeeps DEF OperationInv
<1> QED BY <1>8, <1>9, InvHolds DEF OperationInv

\* git starts on branches that exist, whoever moved HEAD meanwhile.
LEMMA GitStartStep ==
    ASSUME OperationInv, NEW t \in Task \cup Refresher, GitStart(t)
    PROVE  OperationInv'
<1> DEFINE kind == task[t].kind
           head == IF kind = "rebase" THEN task[t].src ELSE git.head
<1>1. ~Free(t) /\ task[t].pc = "start" /\ view' = view
  BY DEF GitStart, Ready
<1>2. HandlerOK(task[t])
  BY <1>1, TaskIs DEF OperationInv
<1>3. kind \in AnyKind /\ (kind = "rebase" => task[t].src \in Branch)
  BY <1>1, <1>2 DEF HandlerOK
<1>4. CASE GitEnded(t, "error") /\ UNCHANGED git
  BY <1>1, <1>3, <1>4, GitEndedStep DEF OperationInv
<1>5. CASE /\ git' = [git EXCEPT !.busy = GitKind(kind), !.running = TRUE,
                                !.head = IF kind = "rebase" THEN task[t].src ELSE @]
           /\ Goto(t, At(t, "running", "no"))
           /\ UNCHANGED ui
  <2>1. GitKind(kind) \in ConflictKind
    BY <1>3, GitKinds
  <2>2. git \in GitState
    BY DEF OperationInv
  <2>3. head \in Branch
    BY <1>3, <2>2 DEF GitState
  <2> DEFINE busy == GitKind(kind)
  <2>4. git' = [head |-> head, tip |-> git.tip, next |-> git.next, busy |-> busy,
                running |-> TRUE, dirty |-> git.dirty]
    BY <1>5, <2>2 DEF GitState
  <2> HIDE DEF busy, head
  <2>5. git' \in GitState
    BY <2>1, <2>2, <2>3, <2>4 DEF GitState, busy
  <2>6. At(t, "running", "no") \in Handlers
    BY <1>1, <1>3, AtIs DEF OperationInv, Point
  <2>7. TasksOK'
    BY <1>5, <2>6, GotoKeeps DEF OperationInv
  <2> QED BY <1>1, <1>5, <2>5, <2>7, InvHolds DEF OperationInv
<1> QED BY <1>4, <1>5 DEF GitStart

LEMMA GitEndStep ==
    ASSUME OperationInv, NEW t \in Task \cup Refresher, GitEnd(t)
    PROVE  OperationInv'
<1>1. ~Free(t) /\ task[t].pc = "running" /\ view' = view
  BY DEF GitEnd, Ready
<1>2. HandlerOK(task[t])
  BY <1>1, TaskIs DEF OperationInv
<1>3. task[t].kind \in AnyKind
  BY <1>1, <1>2 DEF HandlerOK
<1>4. PICK o \in GitOutcomes(GitKind(task[t].kind)) : git' = o.git /\ GitEnded(t, o.result)
  BY DEF GitEnd
<1>5. o.git \in GitState /\ o.result \in {"completed", "conflicts", "error"}
  BY <1>3, GitKinds, OutcomesAre DEF OperationInv
<1> QED BY <1>1, <1>3, <1>4, <1>5, GitEndedStep

LEMMA ContinueAfterConflictsStep ==
    ASSUME OperationInv, NEW t \in Task, NEW kind \in AnyKind, ContinueAfterConflicts(t, kind)
    PROVE  OperationInv'
<1>1. /\ OnScreen(kind, {"showConflicts"}) /\ UNCHANGED <<git, view>>
      /\ ui' = SetStep(ui, "showProgress")
      /\ Begin(t, "continue", "no", kind, ui.flow.source, NoBranch)
  BY DEF ContinueAfterConflicts
<1>2. ui.flow.source \in Branch \cup {NoBranch}
  BY <1>1, ScreenIs
<1>3. UiOK(ui')
  BY <1>1, StepSet DEF OperationInv
<1>4. "continue" \in Point
  BY DEF Point
<1>5. TasksOK'
  BY <1>1, <1>2, <1>4, BeginKeeps DEF OperationInv
<1> QED BY <1>1, <1>3, <1>5, InvHolds DEF OperationInv

\* A handler that goes on to something other than the start of git.
LEMMA GoesOn ==
    ASSUME TasksOK, NEW t \in Task \cup Refresher, ~Free(t),
           NEW pc \in Point \ {"warn", "start", "running", "checkout", "reset", "checkedOut"},
           NEW load \in {"no", "read"}, Goto(t, At(t, pc, load))
    PROVE  TasksOK'
BY AtIs, GotoKeeps

\* ... and what --continue comes back with.
LEMMA ContinuesWith ==
    ASSUME git \in GitState, NEW kind, NEW o \in ContinueOutcomes(kind)
    PROVE  /\ o.git \in GitState
           /\ o.result \in {"completed", "conflicts", "error", "gone", "notStaged"}
<1>1. \A g \in GitCommit : g \in GitState
  BY GitIs
<1>2. \/ o = [git |-> git, result |-> "gone"]
      \/ \E g \in GitCommit : o = [git |-> g, result |-> "completed"]
      \/ \E r \in {"conflicts", "notStaged", "error"} : o = [git |-> git, result |-> r]
  BY Zenon DEF ContinueOutcomes
<1>3. CASE o = [git |-> git, result |-> "gone"]
  BY <1>3
<1>4. CASE \E g \in GitCommit : o = [git |-> g, result |-> "completed"]
  BY <1>1, <1>4
<1>5. CASE \E r \in {"conflicts", "notStaged", "error"} : o = [git |-> git, result |-> r]
  BY <1>5
<1> QED BY <1>2, <1>3, <1>4, <1>5

LEMMA GitContinueStep ==
    ASSUME OperationInv, NEW t \in Task \cup Refresher, GitContinue(t)
    PROVE  OperationInv'
<1> DEFINE pc == IF task[t].kind = "cherryPick" THEN "picked" ELSE "continued"
<1>1. ~Free(t) /\ view' = view
  BY DEF GitContinue, Ready
<1>2. PICK o \in ContinueOutcomes(GitKind(task[t].kind)) :
        /\ git' = o.git /\ ui' = EmitError(ui, o.result)
        /\ Goto(t, [At(t, pc, "read") EXCEPT !.result = o.result])
  BY DEF GitContinue
<1>3. /\ o.git \in GitState
      /\ o.result \in {"completed", "conflicts", "error", "gone", "notStaged"}
  BY ContinuesWith DEF OperationInv
<1>4. UiOK(ui')
  BY <1>2, PopupOps DEF OperationInv
<1>5. pc \in Point /\ pc \notin {"warn", "start", "running", "checkout", "checkedOut", "reset"}
  BY DEF Point
<1> HIDE DEF pc
<1>6. [At(t, pc, "read") EXCEPT !.result = o.result] \in Handlers
  BY <1>1, <1>3, <1>5, AtIs DEF OperationInv
<1>7. TasksOK'
  BY <1>2, <1>6, GotoKeeps DEF OperationInv
<1> QED BY <1>1, <1>2, <1>3, <1>4, <1>7, InvHolds DEF OperationInv

LEMMA LoadAgainStep ==
    ASSUME OperationInv, NEW t \in Task \cup Refresher, LoadAgain(t)
    PROVE  OperationInv'
<1>1. ~Free(t) /\ UNCHANGED <<git, view, ui>>
  BY DEF LoadAgain, Ready
<1>2. {"processed", "end"} \subseteq Point \ {"warn", "start", "running", "checkout", "checkedOut", "reset"}
  BY DEF Point
<1>3. Goto(t, At(t, "processed", "read")) \/ Goto(t, At(t, "end", "read"))
  BY DEF LoadAgain
<1>4. TasksOK'
  BY <1>1, <1>2, <1>3, GoesOn DEF OperationInv
<1> QED BY <1>1, <1>4, InvHolds DEF OperationInv

LEMMA RebaseResultStep ==
    ASSUME OperationInv, NEW t \in Task \cup Refresher, RebaseResult(t)
    PROVE  OperationInv'
<1>1. ~Free(t) /\ UNCHANGED <<git, view>>
  BY DEF RebaseResult, ResultIs, Ready
<1>2. ui' = ui \/ ui' = Complete(ui) \/ ui' = ShowConflicts(ui)
      \/ ui' = EndMultiCommitOperation(ui)
  BY DEF RebaseResult
<1>3. UiOK(ui')
  BY <1>2, FlowsComplete, ConflictsShow, FlowEnds DEF OperationInv
<1>4. "end" \in Point \ {"warn", "start", "running", "checkout", "checkedOut", "reset"}
  BY DEF Point
<1>5. Goto(t, At(t, "end", "no")) \/ Goto(t, At(t, "end", "read"))
  BY DEF RebaseResult
<1>6. TasksOK'
  BY <1>1, <1>4, <1>5, GoesOn DEF OperationInv
<1> QED BY <1>1, <1>3, <1>6, InvHolds DEF OperationInv

LEMMA ProcessRebaseResultStep ==
    ASSUME OperationInv, NEW t \in Task \cup Refresher, ProcessRebaseResult(t)
    PROVE  OperationInv'
<1>1. ~Free(t) /\ UNCHANGED <<git, view>>
  BY DEF ProcessRebaseResult, ResultIs, Ready
<1>2. ui' = ui \/ ui' = Complete(ui) \/ ui' = StartConflictFlow(ui) \/ ui' = CloseAnyPopup(ui)
  BY DEF ProcessRebaseResult
<1>3. UiOK(ui')
  BY <1>2, FlowsComplete, PopupOps DEF OperationInv
<1>4. {"end", "conflicts"} \subseteq Point \ {"warn", "start", "running", "checkout", "checkedOut", "reset"}
  BY DEF Point
<1>5. Goto(t, At(t, "end", "no")) \/ Goto(t, At(t, "end", "read"))
      \/ Goto(t, At(t, "conflicts", "read"))
  BY DEF ProcessRebaseResult
<1>6. TasksOK'
  BY <1>1, <1>4, <1>5, GoesOn DEF OperationInv
<1> QED BY <1>1, <1>3, <1>6, InvHolds DEF OperationInv

\* The target of a cherry-pick is a branch.
\* A cherry-pick that cannot begin ends.
LEMMA PickEnds ==
    ASSUME OperationInv, NEW t \in Task \cup Refresher, ~Free(t), NEW u, UiOK(u),
           CannotPick(t, u)
    PROVE  UiOK(ui') /\ TasksOK'
<1>1. ui' = EndMultiCommitOperation(u) /\ Goto(t, At(t, "end", "no"))
  BY DEF CannotPick
<1>2. UiOK(ui')
  BY <1>1, FlowEnds
<1>3. TasksOK'
  BY <1>1, GoesOn DEF OperationInv, Point
<1> QED BY <1>2, <1>3

LEMMA CheckoutTargetStep ==
    ASSUME OperationInv, NEW t \in Task \cup Refresher, CheckoutTarget(t)
    PROVE  OperationInv'
<1>1. ~Free(t) /\ task[t].pc = "checkout" /\ view' = view
  BY DEF CheckoutTarget, Ready
<1>2. HandlerOK(task[t])
  BY <1>1, TaskIs DEF OperationInv
<1>3. task[t].kind = "cherryPick" /\ task[t].dst \in Branch
  BY <1>1, <1>2 DEF HandlerOK
<1>4. git \in GitState /\ view \in ViewState /\ UiOK(ui)
  BY DEF OperationInv
<1>5. CASE /\ git' = [git EXCEPT !.head = task[t].dst]
           /\ Goto(t, At(t, "checkedOut", "no"))
           /\ UNCHANGED ui
  <2>1. git' \in GitState
    BY <1>3, <1>4, <1>5 DEF GitState
  <2>2. At(t, "checkedOut", "no") \in Handlers
    BY <1>1, <1>3, AtIs DEF OperationInv, Point
  <2>3. TasksOK'
    BY <1>5, <2>2, GotoKeeps DEF OperationInv
  <2> QED BY <1>1, <1>4, <1>5, <2>1, <2>3, InvHolds
<1>6. CASE CannotPick(t, EmitError(ui, "error")) /\ UNCHANGED git
  <2>1. UiOK(EmitError(ui, "error"))
    BY <1>4, PopupOps
  <2>2. UiOK(ui') /\ TasksOK'
    BY <1>1, <1>6, <2>1, PickEnds
  <2> QED BY <1>1, <1>4, <1>6, <2>2, InvHolds
<1> QED BY <1>5, <1>6 DEF CheckoutTarget

LEMMA LoadCheckedOutStep ==
    ASSUME OperationInv, NEW t \in Task \cup Refresher, LoadCheckedOut(t)
    PROVE  OperationInv'
<1>1. ~Free(t) /\ task[t].pc = "checkedOut" /\ git' = git
  BY DEF LoadCheckedOut, Ready
<1>2. HandlerOK(task[t])
  BY <1>1, TaskIs DEF OperationInv
<1>3. task[t].kind = "cherryPick"
  BY <1>1, <1>2 DEF HandlerOK
<1>4. git \in GitState /\ view \in ViewState /\ UiOK(ui)
  BY DEF OperationInv
<1>5. CASE /\ view' = [view EXCEPT !.branch = Status.branch, !.tips = Status.tips]
           /\ IF Status.branch = NoBranch THEN CannotPick(t, ui)
              ELSE Goto(t, At(t, "start", "read")) /\ UNCHANGED ui
  <2>1. Status \in ViewState
    BY <1>4, StatusIs
  <2>2. view' \in ViewState
    BY <1>4, <1>5, <2>1 DEF ViewState
  <2>3. CASE CannotPick(t, ui)
    <3>1. UiOK(ui') /\ TasksOK'
      BY <1>1, <1>4, <2>3, PickEnds
    <3> QED BY <1>1, <1>4, <2>2, <3>1, InvHolds
  <2>4. CASE Goto(t, At(t, "start", "read")) /\ UNCHANGED ui
    <3>1. At(t, "start", "read") \in Handlers
      BY <1>1, <1>3, KindsAre, AtIs DEF OperationInv, Point
    <3>2. TasksOK'
      BY <2>4, <3>1, GotoKeeps DEF OperationInv
    <3> QED BY <1>1, <1>4, <2>2, <2>4, <3>2, InvHolds
  <2> QED BY <1>5, <2>3, <2>4
<1>6. CASE CannotPick(t, EmitError(ui, "error")) /\ UNCHANGED view
  <2>1. UiOK(EmitError(ui, "error"))
    BY <1>4, PopupOps
  <2>2. UiOK(ui') /\ TasksOK'
    BY <1>1, <1>6, <2>1, PickEnds
  <2> QED BY <1>1, <1>4, <1>6, <2>2, InvHolds
<1> QED BY <1>5, <1>6 DEF LoadCheckedOut

LEMMA ProcessCherryPickResultStep ==
    ASSUME OperationInv, NEW t \in Task \cup Refresher, ProcessCherryPickResult(t)
    PROVE  OperationInv'
<1>1. ~Free(t) /\ UNCHANGED <<git, view>>
  BY DEF ProcessCherryPickResult, ResultIs, Ready
<1>2. \/ ui' = Complete(ui) \/ ui' = SetStep(ui, "showConflicts")
      \/ ui' = EndMultiCommitOperation(ui)
      \/ ui' = CloseAnyPopup(EndMultiCommitOperation(ui))
  BY DEF ProcessCherryPickResult
<1>3. UiOK(SetStep(ui, "showConflicts"))
  BY StepSet DEF OperationInv, ConflictSteps
<1>4. UiOK(ui')
  BY <1>2, <1>3, FlowsComplete, FlowEnds, PopupOps DEF OperationInv
<1>5. {"end", "abort"} \subseteq Point \ {"warn", "start", "running", "checkout", "checkedOut", "reset"}
  BY DEF Point
<1>6. Goto(t, At(t, "end", "no")) \/ Goto(t, At(t, "end", "read"))
      \/ Goto(t, At(t, "abort", "no"))
  BY DEF ProcessCherryPickResult
<1>7. TasksOK'
  BY <1>1, <1>5, <1>6, GoesOn DEF OperationInv
<1> QED BY <1>1, <1>4, <1>7, InvHolds DEF OperationInv

LEMMA MergeResultStep ==
    ASSUME OperationInv, NEW t \in Task \cup Refresher, MergeResult(t)
    PROVE  OperationInv'
<1>1. ~Free(t) /\ UNCHANGED <<git, view>> /\ Goto(t, At(t, "end", "read"))
  BY DEF MergeResult, Ready
<1>2. ui.flow \in FlowState
  BY DEF OperationInv, UiOK
<1>3. UiOK(SetBanner(ui, [kind |-> "success", flow |-> ui.flow]))
  BY <1>2, BannersAre, BannerSet DEF OperationInv
<1>4. UiOK(ui')
  BY <1>3, FlowEnds DEF OperationInv, MergeResult
<1>5. TasksOK'
  BY <1>1, GoesOn DEF OperationInv, Point
<1> QED BY <1>1, <1>4, <1>5, InvHolds DEF OperationInv

LEMMA FinishConflictedMergeStep ==
    ASSUME OperationInv, NEW t \in Task, FinishConflictedMerge(t)
    PROVE  OperationInv'
<1>1. view' = view /\ Begin(t, "finished", "read", "merge", NoBranch, NoBranch)
  BY DEF FinishConflictedMerge
<1>2. ui.flow \in FlowState
  BY DEF OperationInv, UiOK
<1>3. UiOK(SetBanner(ui, [kind |-> "success", flow |-> ui.flow]))
  BY <1>2, BannersAre, BannerSet DEF OperationInv
<1>4. UiOK(ui')
  BY <1>3, PopupOps DEF OperationInv, FinishConflictedMerge
<1>5. git' \in GitState
  BY GitIs DEF OperationInv, FinishConflictedMerge
<1>6. TasksOK'
  BY <1>1, KindsAre, BeginKeeps DEF OperationInv, Point
<1> QED BY <1>1, <1>4, <1>5, <1>6, InvHolds DEF OperationInv

LEMMA MergeFinishedStep ==
    ASSUME OperationInv, NEW t \in Task \cup Refresher, MergeFinished(t)
    PROVE  OperationInv'
<1>1. /\ ~Free(t) /\ UNCHANGED <<git, view>> /\ Goto(t, At(t, "end", "no"))
      /\ ui' = OnFlowEnded(ui)
  BY DEF MergeFinished, Ready
<1>2. UiOK(ui')
  BY <1>1, PopupOps DEF OperationInv
<1>3. TasksOK'
  BY <1>1, GoesOn DEF OperationInv, Point
<1> QED BY <1>1, <1>2, <1>3, InvHolds DEF OperationInv

LEMMA AbortStep ==
    ASSUME OperationInv, NEW t \in Task, NEW kind \in AnyKind, Abort(t, kind)
    PROVE  OperationInv'
<1>1. /\ OnScreen(kind, ConflictSteps) /\ UNCHANGED <<git, view>>
      /\ ui' = OnFlowEnded(ui)
      /\ Begin(t, "abort", "no", kind, ui.flow.source, NoBranch)
  BY DEF Abort
<1>2. ui.flow.source \in Branch \cup {NoBranch}
  BY <1>1, ScreenIs
<1>3. UiOK(ui')
  BY <1>1, PopupOps DEF OperationInv
<1>4. TasksOK'
  BY <1>1, <1>2, BeginKeeps DEF OperationInv, Point
<1> QED BY <1>1, <1>3, <1>4, InvHolds DEF OperationInv

LEMMA GitAbortStep ==
    ASSUME OperationInv, NEW t \in Task \cup Refresher, GitAbort(t)
    PROVE  OperationInv'
<1>1. ~Free(t) /\ view' = view
  BY DEF GitAbort, Ready
<1>2. \/ git' = GitStop("none") /\ UNCHANGED ui
      \/ ui' = EmitError(ui, "error") /\ UNCHANGED git
  BY DEF GitAbort
<1>3. git' \in GitState /\ UiOK(ui')
  BY <1>2, GitIs, PopupOps DEF OperationInv
<1>4. \/ Goto(t, At(t, "checkoutSource", "no")) \/ Goto(t, At(t, "end", "read"))
      \/ Goto(t, At(t, "refresh", "read"))
  BY DEF GitAbort
<1>5. {"checkoutSource", "end", "refresh"} \subseteq Point \ {"warn", "start", "running", "checkout", "checkedOut", "reset"}
  BY DEF Point
<1>6. TasksOK'
  BY <1>1, <1>4, <1>5, GoesOn DEF OperationInv
<1> QED BY <1>1, <1>3, <1>6, InvHolds DEF OperationInv

LEMMA UndoneIs == Undone \in BannerState
BY DEF Undone, BannerState, FlowState

LEMMA CheckoutSourceStep ==
    ASSUME OperationInv, NEW t \in Task \cup Refresher, CheckoutSource(t)
    PROVE  OperationInv'
<1> DEFINE pc == CASE task[t].kind = "undo"   -> "refresh"
                   [] task[t].result = "none" -> "aborted"
                   [] OTHER                   -> "end"
<1>1. ~Free(t) /\ view' = view /\ Goto(t, At(t, pc, "read"))
  BY DEF CheckoutSource, Ready
<1>2. task[t].src \in Branch \cup {NoBranch}
  BY <1>1, TaskIs DEF OperationInv
<1> DEFINE u == IF task[t].src = NoBranch \/ CanCheckout THEN ui ELSE EmitError(ui, "error")
<1>3. /\ \/ git' = git
         \/ task[t].src # NoBranch /\ git' = [git EXCEPT !.head = task[t].src]
      /\ ui' = SetBanner(u, Undone) \/ ui' = u
  BY DEF CheckoutSource
<1>4. git' \in GitState
  BY <1>2, <1>3 DEF OperationInv, GitState
<1>5. UiOK(ui')
  <2>1. UiOK(u)
    BY PopupOps DEF OperationInv
  <2> HIDE DEF u
  <2> QED BY <1>3, <2>1, UndoneIs, BannerSet
<1>6. pc \in Point \ {"warn", "start", "running", "checkout", "checkedOut", "reset"}
  BY DEF Point
<1> HIDE DEF pc
<1>7. TasksOK'
  BY <1>1, <1>6, GoesOn DEF OperationInv
<1> QED BY <1>1, <1>4, <1>5, <1>7, InvHolds DEF OperationInv

LEMMA CherryPickAbortedStep ==
    ASSUME OperationInv, NEW t \in Task \cup Refresher, CherryPickAborted(t)
    PROVE  OperationInv'
<1>1. /\ ~Free(t) /\ UNCHANGED <<git, view>> /\ Goto(t, At(t, "end", "read"))
      /\ ui' = EndMultiCommitOperation(ui)
  BY DEF CherryPickAborted, Ready
<1>2. UiOK(ui')
  BY <1>1, FlowEnds DEF OperationInv
<1>3. TasksOK'
  BY <1>1, GoesOn DEF OperationInv, Point
<1> QED BY <1>1, <1>2, <1>3, InvHolds DEF OperationInv

\* The reset of the branch that is checked out.
LEMMA ResetIs ==
    ASSUME git \in GitState, NEW sha \in 1 .. MaxSha
    PROVE  GitReset(sha) \in GitState
<1> DEFINE stopped == GitStop("none")
           tip == [git.tip EXCEPT ![git.head] = sha]
<1>1. stopped \in GitState /\ stopped.tip = git.tip
  BY GitIs DEF GitStop, GitState
<1>2. tip \in [Branch -> 1 .. MaxSha]
  BY DEF GitState
<1>3. \/ GitReset(sha) = [git EXCEPT !.dirty = FALSE]
      \/ GitReset(sha) = [stopped EXCEPT !.tip[git.head] = sha, !.dirty = FALSE]
  BY DEF GitReset
<1> HIDE DEF stopped
<1>4. [stopped EXCEPT !.tip[git.head] = sha, !.dirty = FALSE]
        = [stopped EXCEPT !.tip = tip, !.dirty = FALSE]
  BY <1>1 DEF GitState
<1> HIDE DEF tip
<1>5. /\ [stopped EXCEPT !.tip = tip, !.dirty = FALSE] \in GitState
      /\ [git EXCEPT !.dirty = FALSE] \in GitState
  BY <1>1, <1>2 DEF GitState
<1> QED BY <1>3, <1>4, <1>5

LEMMA UndoMultiCommitOperationStep ==
    ASSUME OperationInv, NEW t \in Task, UndoMultiCommitOperation(t)
    PROVE  OperationInv'
<1>1. /\ ui.banner.flow # NoFlow /\ UNCHANGED <<git, view>> /\ ui' = SetBanner(ui, NoBanner)
  BY DEF UndoMultiCommitOperation
<1>2. UiOK(ui) /\ git \in GitState
  BY DEF OperationInv
<1>3. UiOK(ui')
  BY <1>1, <1>2, BannersAre, BannerSet
<1> DEFINE flow == ui.banner.flow
           h == [pc |-> "reset", load |-> "no", seen |-> NoStatus, kind |-> "undo",
                 src |-> flow.source, dst |-> NoBranch,
                 undo |-> Undoing(ui.undo.sha, flow), result |-> "none"]
<1>4. CASE task' = task
  BY <1>1, <1>2, <1>3, <1>4, InvHolds DEF OperationInv, TasksOK
<1>5. CASE CanUndo /\ task' = [task EXCEPT ![t] = h]
  <2>1. ui.undo.sha \in 0 .. MaxSha /\ ui.undo.sha # 0
    <3>1. ui.undo.branch # NoBranch
      BY <1>5 DEF CanUndo
    <3> QED BY <1>2, <3>1 DEF UiOK, UndoState
  <2>2. flow \in FlowState /\ flow.source \in Branch \cup {NoBranch}
    BY <1>1, <1>2, FlowIs DEF UiOK, BannerState
  <2> HIDE DEF flow
  <2>3. NoStatus \in ViewState \cup [conflict : ConflictKind \cup {"none"}]
    BY DEF NoStatus
  <2>4. Undoing(ui.undo.sha, flow) \in [sha : 0..MaxSha, flow : FlowState]
        /\ Undoing(ui.undo.sha, flow).sha # 0
    BY <2>1, <2>2 DEF Undoing
  <2>5. h \in HandlerState
    BY <2>2, <2>3, <2>4 DEF HandlerState, Point
  <2>6. HandlerOK(h)
    BY <2>4 DEF HandlerOK
  <2>7. h \in Handlers
    BY <2>5, <2>6 DEF Handlers
  <2> HIDE DEF h
  <2>8. Handlers' = Handlers
    BY DEF Handlers, HandlerState, HandlerOK, ViewState, FlowState
  <2>9. TasksOK'
    BY <1>5, <2>7, <2>8 DEF OperationInv, TasksOK
  <2> QED BY <1>1, <1>2, <1>3, <2>9, InvHolds DEF OperationInv
<1>6. [Handling("reset", "no", "undo", ui.banner.flow.source, NoBranch)
         EXCEPT !.undo = Undoing(ui.undo.sha, ui.banner.flow)] = h
  BY DEF Handling
<1> HIDE DEF h
<1> QED BY <1>4, <1>5, <1>6 DEF UndoMultiCommitOperation

LEMMA ResetToUndoStep ==
    ASSUME OperationInv, NEW t \in Task \cup Refresher, ResetToUndo(t)
    PROVE  OperationInv'
<1>1. ~Free(t) /\ task[t].pc = "reset" /\ view' = view
  BY DEF ResetToUndo, Ready
<1>2. git \in GitState /\ view \in ViewState /\ UiOK(ui)
  BY DEF OperationInv
<1>3. task[t].undo.sha \in 1 .. MaxSha
  <2>1. task[t].undo \in [sha : 0..MaxSha, flow : FlowState] /\ HandlerOK(task[t])
    BY <1>1, TaskIs DEF OperationInv
  <2>2. task[t].undo.sha # 0
    BY <1>1, <2>1 DEF HandlerOK
  <2> QED BY <2>1, <2>2, BoundsAre
<1>4. GitReset(task[t].undo.sha) \in GitState
  BY <1>2, <1>3, ResetIs
<1>5. /\ git' = GitReset(task[t].undo.sha) \/ git' = git
      /\ ui' = ui \/ ui' = SetBanner(ui, Undone) \/ ui' = EmitError(ui, "error")
      /\ \/ Goto(t, At(t, "checkoutSource", "no")) \/ Goto(t, At(t, "refresh", "read"))
         \/ Goto(t, At(t, "end", "no"))
  BY DEF ResetToUndo
<1>6. git' \in GitState
  BY <1>2, <1>4, <1>5
<1>7. UiOK(ui')
  BY <1>2, <1>5, UndoneIs, BannerSet, PopupOps
<1>8. TasksOK'
  BY <1>1, <1>5, GoesOn DEF OperationInv, Point
<1> QED BY <1>1, <1>2, <1>6, <1>7, <1>8, InvHolds

LEMMA ExternalStep ==
    ASSUME OperationInv, External
    PROVE  OperationInv'
<1>1. git \in GitState /\ UNCHANGED <<view, ui, task>>
  BY DEF External, OperationInv
<1>2. \/ \E g \in GitCommit : git' = [g EXCEPT !.dirty = FALSE]
      \/ git' = [GitStop("none") EXCEPT !.dirty = FALSE]
      \/ \E k \in ConflictKind : git' = GitStop(k)
      \/ git' = [git EXCEPT !.dirty = ~@]
  BY DEF External
<1>3. \A g \in GitState : [g EXCEPT !.dirty = FALSE] \in GitState
                          /\ [g EXCEPT !.dirty = ~@] \in GitState
  BY DEF GitState
<1>4. git' \in GitState
  BY <1>1, <1>2, <1>3, GitIs
<1> QED BY <1>1, <1>4, InvHolds DEF OperationInv, TasksOK

-----------------------------------------------------------------------------
\* The invariant holds when the repository is opened ...
LEMMA OperationInit == Init => OperationInv
<1> SUFFICES ASSUME Init PROVE OperationInv
  OBVIOUS
<1> DEFINE head == CHOOSE b \in Branch : TRUE
           tip  == [b \in Branch |-> 1]
<1>1. head \in Branch
  BY BoundsAre
<1>2. tip \in [Branch -> 1 .. MaxSha] /\ 2 \in 2 .. MaxSha + 1
  BY BoundsAre
<1>3. /\ git = [head |-> head, tip |-> tip, next |-> 2, busy |-> "none", running |-> FALSE,
                dirty |-> FALSE]
      /\ view = [branch |-> git.head, tips |-> git.tip, files |-> FALSE, conflict |-> "none"]
      /\ ui = [flow |-> NoFlow, undo |-> NoUndo, popups |-> <<>>, banner |-> NoBanner,
               late |-> FALSE]
      /\ task = [t \in Task \cup Refresher |-> NoTask]
  BY Zenon DEF Init
<1> HIDE DEF head, tip
<1>4. git \in GitState
  BY <1>1, <1>2, <1>3 DEF GitState
<1>5. git.head = head /\ git.tip = tip
  BY <1>3
<1>6. view \in ViewState
  BY <1>1, <1>2, <1>3, <1>5 DEF ViewState
<1>7. UiOK(ui)
  <2>1. NoFlow \in FlowState /\ NoFlow.kind = "none" /\ "none" \notin Interactive
    BY DEF FlowState, NoFlow, Interactive
  <2>2. NoUndo \in UndoState /\ NoUndo.branch = NoBranch
    BY BoundsAre DEF NoUndo, UndoState
  <2>3. <<>> \in Stacks
    BY PopupLimitAssumption DEF Stacks, Ordered, StackIsOrdered
  <2> QED BY <1>3, <2>1, <2>2, <2>3, BannersAre DEF UiOK
<1>8. TasksOK
  BY <1>3 DEF TasksOK
<1> QED BY <1>4, <1>6, <1>7, <1>8 DEF OperationInv

\* ... no step of a handler breaks it ...
LEMMA HandlerStep ==
    ASSUME OperationInv, NEW t \in Task \cup Refresher, Handler(t)
    PROVE  OperationInv'
BY LoadStatusReadStep, LoadStatusApplyStep, LoadStatusSnapshotStep, WarnAboutRemoteCommitsStep,
   CheckoutTargetStep, LoadCheckedOutStep, GitStartStep, GitEndStep, GitContinueStep, LoadAgainStep,
   RebaseResultStep, ProcessRebaseResultStep, ProcessCherryPickResultStep, MergeResultStep,
   MergeFinishedStep, GitAbortStep, CheckoutSourceStep, CherryPickAbortedStep,
   ResetToUndoStep
   DEF Handler

\* ... and none of the user ...
LEMMA UserStep ==
    ASSUME OperationInv, NEW t \in Task, User(t)
    PROVE  OperationInv'
BY StartInteractiveStep, BeginOperationStep, ContinueAfterConflictsStep, AbortStep,
   ChooseMergeStep, ChooseCherryPickStep, StartCherryPickWithBranchStep, ChooseRebaseStep,
   FinishConflictedMergeStep, UndoMultiCommitOperationStep
   DEF User

\* ... so that every step keeps it.
LEMMA OperationNext == OperationInv /\ [Next]_vars => OperationInv'
<1> SUFFICES ASSUME OperationInv, [Next]_vars PROVE OperationInv'
  OBVIOUS
<1>1. CASE Next
  BY <1>1, HandlerStep, UserStep, RefreshRepositoryStep, ClickStep, LateConflictsDialogStep,
     ExternalStep DEF Next
<1>2. CASE UNCHANGED vars
  BY <1>2, InvHolds DEF vars, OperationInv, TasksOK
<1> QED BY <1>1, <1>2

\* Whatever steps of handlers, dialogs and refreshes come between: the repository, the
\* status shown, the flow, the undo state, the banner and every handler are what the code
\* takes them for, and the undo state of a squash or reorder is its own.
THEOREM OperationTypes == Spec => []OperationInv
BY OperationInit, OperationNext, PTL DEF Spec, Safety

\* Among them, the popups: errors are on top of the others, no other popup is open twice
\* and there are no more than the limit, whichever popups come, go or are pushed out.
THEOREM TypesAndPopups == Spec => []TypeOK
<1>1. OperationInv => TypeOK
  <2> SUFFICES ASSUME OperationInv PROVE TypeOK
    OBVIOUS
  <2>1. /\ StackIsOrdered(ui.popups) /\ Len(ui.popups) <= PopupLimit
        /\ \A i \in DOMAIN ui.popups : ui.popups[i] \in PopupType
    BY DEF OperationInv, UiOK, Stacks, Ordered
  <2>2. ui.banner.kind \in {"none", "success", "conflicts"} /\ ui.banner.flow \in FlowState
    BY DEF OperationInv, UiOK, BannerState
  <2>3. ASSUME NEW t \in Task \cup Refresher, ~ Free(t)
        PROVE  /\ task[t].load \in {"no", "read", "apply", "snapshot"}
               /\ task[t].seen.conflict \in ConflictKind \cup {"none"}
               /\ {task[t].src, task[t].dst} \subseteq Branch \cup {NoBranch}
    <3>1. task[t] \in HandlerState
      BY <2>3 DEF OperationInv, TasksOK, Handlers, Free
    <3>2. \A s \in ViewState : s.conflict \in ConflictKind \cup {"none"}
      BY DEF ViewState
    <3> QED BY <3>1, <3>2 DEF HandlerState
  <2> QED
    BY <2>1, <2>2, <2>3 DEF TypeOK, OperationInv, UiOK, UndoState, GitState
<1> QED BY <1>1, OperationTypes, PTL

\* No handler, no conflict that is found and no second operation leaves a squash or a
\* reorder under way with the undo state of another operation.
THEOREM UndoBelongs == Spec => []UndoIsOfOperation
<1>1. OperationInv => UndoIsOfOperation
  BY DEF OperationInv, UiOK, UndoIsOfOperation
<1> QED BY <1>1, OperationTypes, PTL

=============================================================================
