------------------------ MODULE MultiCommitOperation ------------------------
(***************************************************************************)
(* Squash, reorder, rebase, cherry-pick and merge of one repository: the   *)
(* flow of dialogs (ui/multi-commit-operation), the handlers that run git  *)
(* (dispatcher.ts) and the detection of conflicts at every load of the     *)
(* status (app-store.ts).  A handler is a task; it awaits git between its  *)
(* steps, and every handler calls _loadStatus, a subroutine with awaits of *)
(* its own, so other handlers, the user and the command line come between. *)
(***************************************************************************)
EXTENDS Integers, Sequences, FiniteSets, PopupManager

CONSTANTS
  Branch,       \* the local branches
  Task,         \* handlers the user started that may be under way together
  Refresher,    \* refreshes of the repository that may be under way together
  MaxSha,       \* bound: commits ever made
  Scenario      \* bounds: the kinds of operation started, how many are, and how
                \* many commands are run outside of the app

Interactive == {"squash", "reorder"}

ConflictKind  == {"rebase", "cherryPick", "merge"}
AnyKind       == ConflictKind \cup Interactive

ASSUME MultiCommitAssumption ==
  /\ Task \cap Refresher = {}
  /\ Branch # {} /\ MaxSha \in Nat \ {0}
  /\ Scenario \subseteq [kinds : SUBSET AnyKind, starts : Nat, external : Nat]

VARIABLES
  git,    \* the repository on disk: head, tip per branch, the operation git has stopped in
  view,   \* what the last applied status says: tip, changed files, conflictState
  ui,     \* flow (multiCommitOperationState), undo state, popups, banner
  task,   \* the handlers under way
  bound   \* what is left of the scenario

vars == <<git, view, ui, task, bound>>

NoBranch == "no branch"
NoFlow   == [kind |-> "none"]
NoUndo   == [branch |-> NoBranch, sha |-> 0, valid |-> FALSE]
NoBanner == [kind |-> "none", flow |-> NoFlow]
NoTask   == [pc |-> "idle"]

ConflictSteps == {"showConflicts", "confirmAbort"}

-----------------------------------------------------------------------------
(* The store's state: each operator is one of its methods.                 *)

\* source is the branch a cherry-pick or a merge takes from, the one a rebase
\* moves.
Flow(kind, step, source, orig) ==
  [kind |-> kind, step |-> step, source |-> source, orig |-> orig]

\* The sha of a branch the app shows; branches come with the status.
ViewSha(b) == IF b = NoBranch THEN 0 ELSE view.tips[b]
CurrentSha == ViewSha(view.branch)

InitializeMultiCommitOperation(u, kind, source, orig) ==
  [u EXCEPT !.flow = Flow(kind, "showProgress", source, orig)]

\* An update of a null state is only reported.
SetStep(u, step) == IF u.flow = NoFlow THEN u ELSE [u EXCEPT !.flow.step = step]

EndMultiCommitOperation(u) == [u EXCEPT !.flow = NoFlow]

ShowPopup(u, type)   == [u EXCEPT !.popups = AddPopup(@, type)]
CloseAnyPopup(u)     == [u EXCEPT !.popups = ClosePopup(@)]
CloseFlowPopup(u)    == [u EXCEPT !.popups = ClosePopupOfType(@, "flow")]
SetBanner(u, b)      == [u EXCEPT !.banner = b]

\* onFlowEnded of the dialogs.
OnFlowEnded(u) == EndMultiCommitOperation(CloseFlowPopup(u))

ShowConflicts(u) == ShowPopup(SetStep(u, "showConflicts"), "flow")

\* Mutant: any step of the dialog.
DialogIsOpen(u) == CurrentPopup(u.popups) = "flow" /\ u.flow # NoFlow

UserIsStarting(u) ==
  /\ CurrentPopup(u.popups) = "flow"
  /\ u.flow # NoFlow
  /\ u.flow.step \in {"chooseBranch", "warnForcePush", "showProgress"}

ClearConflictsFlowVisuals(u) ==
  IF UserIsStarting(u) THEN u
  ELSE SetBanner(CloseFlowPopup(u),
                 IF u.banner.kind = "conflicts" THEN NoBanner ELSE u.banner)

\* Mutant: without a look at the popups.
StepIsConflicts(u) == u.flow # NoFlow /\ u.flow.step \in ConflictSteps

IsConflictsFlow(u) ==
  /\ AreTherePopupsOfType(u.popups, "flow")
  /\ u.flow # NoFlow
  /\ u.flow.step \in ConflictSteps

\* For a merge of an unknown branch the dialog waits for the branches that
\* point at MERGE_HEAD, and nobody waits for the dialog.
TriggerConflictsFlow(u, conflict) ==
  IF conflict = "none" THEN ClearConflictsFlowVisuals(u)
  ELSE IF u.flow = NoFlow \/ u.banner.kind = "conflicts" \/ IsConflictsFlow(u) THEN u
  ELSE IF conflict = "merge" /\ (u.flow.kind # "merge" \/ u.flow.source = NoBranch)
       THEN [u EXCEPT !.late = TRUE]
  ELSE ShowConflicts(u)

\* The state for conflicts found without an operation; a cherry-pick's undo
\* state has no branch and so is never used.
InitializeFromConflicts(u, conflict) ==
  LET v == InitializeMultiCommitOperation(u, conflict, NoBranch, 0)
  IN  IF conflict = "cherryPick"
      THEN [v EXCEPT !.undo = [branch |-> NoBranch, sha |-> 0, valid |-> TRUE]]
      ELSE v

-----------------------------------------------------------------------------
(* The repository on disk and the git commands.                            *)

\* HEAD is detached while a rebase is under way.
Status == [branch   |-> IF git.busy = "rebase" THEN NoBranch ELSE git.head,
           tips     |-> git.tip,
           files    |-> git.dirty \/ git.busy # "none",
           conflict |-> git.busy]

GitCommit == IF git.next <= MaxSha
             THEN {[git EXCEPT !.tip[git.head] = git.next, !.next = @ + 1,
                               !.busy = "none", !.running = FALSE]}
             ELSE {}

GitStop(kind) == [git EXCEPT !.busy = kind, !.running = FALSE]

\* What a command started by the app ends with.  Only a cherry-pick makes a
\* commit in any case.
GitOutcomes(kind) ==
  {[git |-> g, result |-> "completed"] : g \in GitCommit} \cup
  {[git |-> GitStop(kind), result |-> "conflicts"]} \cup
  {[git |-> GitStop("none"), result |-> r]
     : r \in {"error"} \cup IF kind = "cherryPick" THEN {} ELSE {"completed"}}

\* What --continue may come back with.
ContinueOutcomes(kind) ==
  IF git.busy # kind THEN {[git |-> git, result |-> "gone"]}
  ELSE {[git |-> g, result |-> "completed"] : g \in GitCommit} \cup
       {[git |-> git, result |-> r] : r \in {"conflicts", "notStaged", "error"}}

\* --abort works on what git has stopped in.
CanAbort(kind) == git.busy = kind /\ ~git.running

CanCheckout == git.busy = "none" /\ ~git.dirty

\* An error git reports ends in an error popup.
EmitError(u, result) == IF result = "error" THEN ShowPopup(u, "error") ELSE u

-----------------------------------------------------------------------------
(* Handlers.  load is the point of _loadStatus the handler is at.          *)

Free(t) == task[t] = NoTask

NoStatus == [conflict |-> "none"]

\* What an undo was called with: the sha to go back to and the operation of its banner.
Undoing(sha, flow) == [sha |-> sha, flow |-> flow]
NotUndoing == Undoing(0, NoFlow)

Handling(pc, load, kind, src, dst) ==
  [pc |-> pc, load |-> load, seen |-> NoStatus, kind |-> kind, src |-> src, dst |-> dst,
   undo |-> NotUndoing, result |-> "none"]

\* The handler t goes on at pc, first through _loadStatus if load is "read";
\* at its end there may be the load of a refresh left.
At(t, pc, load) ==
  IF pc = "end" THEN Handling(pc, load, "none", NoBranch, NoBranch)
  ELSE [task[t] EXCEPT !.pc = pc, !.load = load, !.seen = NoStatus]
Goto(t, new) == task' = [task EXCEPT ![t] = IF new.pc = "end" /\ new.load = "no"
                                            THEN NoTask ELSE new]
Begin(t, pc, load, kind, src, dst) ==
  task' = [task EXCEPT ![t] = Handling(pc, load, kind, src, dst)]
Ready(t, pc) == ~Free(t) /\ task[t].pc = pc /\ task[t].load = "no"

LoadIs(t, load) == ~Free(t) /\ task[t].load = load

\* git status is read ...
LoadStatusRead(t) ==
  /\ LoadIs(t, "read")
  /\ Goto(t, [task[t] EXCEPT !.load = "apply", !.seen = Status])
  /\ UNCHANGED <<git, view, ui, bound>>

\* ... and applied: the conflict state, the visuals, a state for conflicts
\* nobody started.  For a rebase and a cherry-pick that state awaits a snapshot.
LoadStatusApply(t) ==
  LET c      == task[t].seen.conflict
      left   == At(t, task[t].pc, "no")
      isNew  == c # "none" /\ ui.flow = NoFlow
      awaits == isNew /\ c \in {"rebase", "cherryPick"}
      first  == IF c = "none" \/ ui.flow = NoFlow THEN ClearConflictsFlowVisuals(ui) ELSE ui
  IN  /\ LoadIs(t, "apply")
      /\ view' = task[t].seen
      /\ ui' = IF awaits THEN first
               ELSE TriggerConflictsFlow(
                      IF isNew THEN InitializeFromConflicts(first, c) ELSE first, c)
      /\ Goto(t, IF awaits THEN [left EXCEPT !.load = "snapshot", !.seen.conflict = c] ELSE left)
      /\ UNCHANGED <<git, bound>>

\* The snapshot is there, unless git is out of the operation by now.
LoadStatusSnapshot(t) ==
  LET c == task[t].seen.conflict
  IN  /\ LoadIs(t, "snapshot")
      /\ ui' = TriggerConflictsFlow(
                 IF git.busy = c THEN InitializeFromConflicts(ui, c) ELSE ui, view.conflict)
      /\ Goto(t, At(t, task[t].pc, "no"))
      /\ UNCHANGED <<git, view, bound>>

\* The branches of MERGE_HEAD are there: the dialog opens, whatever happened
\* meanwhile.
LateConflictsDialog ==
  /\ ui.late
  /\ ui' = [ShowConflicts(ui) EXCEPT !.late = FALSE]
  /\ UNCHANGED <<git, view, task, bound>>

\* A refresh of the repository: focus, a tab, a fetch.
RefreshRepository(t) ==
  /\ Free(t)
  /\ Begin(t, "end", "read", "none", NoBranch, NoBranch)
  /\ UNCHANGED <<git, view, ui, bound>>

-----------------------------------------------------------------------------
(* Starting.  Menus and lists react while no popup is open.                *)

Starts == /\ ui.popups = <<>>
          /\ bound.starts > 0
          /\ bound' = [bound EXCEPT !.starts = @ - 1]
          /\ view.branch # NoBranch

\* squash and reorderCommits, up to the look at the remote's commits.
\* Mutant: the undo state of the last operation stays when its branch is this one.
BeginInteractiveKeepsUndo(kind) ==
  ui' = LET v == ShowPopup(InitializeMultiCommitOperation(ui, kind, NoBranch, CurrentSha), "flow")
        IN  IF ui.undo.valid THEN v
            ELSE [v EXCEPT !.undo = [branch |-> view.branch, sha |-> CurrentSha, valid |-> TRUE]]

BeginInteractive(kind) ==
  ui' = [ShowPopup(InitializeMultiCommitOperation(ui, kind, NoBranch, CurrentSha), "flow")
           EXCEPT !.undo = [branch |-> view.branch, sha |-> CurrentSha, valid |-> TRUE]]

StartInteractive(t, kind) ==
  /\ Free(t) /\ kind \in bound.kinds \cap Interactive /\ Starts /\ ui.flow = NoFlow
  /\ IF view.files
     THEN ui' = ShowPopup(ui, "localChanges") /\ UNCHANGED task
     ELSE BeginInteractive(kind) /\ Begin(t, "warn", "no", kind, view.branch, NoBranch)
  /\ UNCHANGED <<git, view>>

\* showRebaseDialog, startMergeBranchOperation and startCherryPickWithoutBranch
\* (the last from the history list, which an operation under way disables).
ShowChooseBranch(kind) ==
  /\ kind \in bound.kinds \ Interactive /\ Starts
  /\ kind = "cherryPick" => ui.flow = NoFlow
  /\ ui' = ShowPopup(SetStep(
             InitializeMultiCommitOperation(
               ui, kind, IF kind = "merge" THEN NoBranch ELSE view.branch, CurrentSha),
             "chooseBranch"), "flow")
  /\ UNCHANGED <<git, view, task>>

OnScreen(kind, steps) ==
  /\ CurrentPopup(ui.popups) = "flow"
  /\ ui.flow # NoFlow /\ ui.flow.kind = kind /\ ui.flow.step \in steps

\* startRebase from the dialog, of the branch that was current when it opened.
ChooseRebase(t) ==
  /\ Free(t) /\ OnScreen("rebase", {"chooseBranch"})
  /\ ui' = InitializeMultiCommitOperation(ui, "rebase", ui.flow.source, CurrentSha)
  /\ Begin(t, "warn", "no", "rebase", ui.flow.source, NoBranch)
  /\ UNCHANGED <<git, view, bound>>

\* mergeBranch from the dialog, which then closes.
ChooseMerge(t, other) ==
  /\ Free(t) /\ OnScreen("merge", {"chooseBranch"}) /\ other # view.branch
  /\ view.branch # NoBranch
  /\ ui' = CloseFlowPopup([ui EXCEPT !.flow.source = other])
  /\ Begin(t, "start", "no", "merge", view.branch, other)
  /\ UNCHANGED <<git, view, bound>>

\* cherryPick from the dialog or from a drop on a branch: with changes in the
\* working directory it asks to stash them and ends the operation.
BeginCherryPick(t, u, other, source) ==
  IF view.files
  THEN ui' = EndMultiCommitOperation(ShowPopup(u, "localChanges")) /\ UNCHANGED task
  ELSE /\ ui' = [u EXCEPT !.undo = [branch |-> other, sha |-> ViewSha(other), valid |-> TRUE]]
       /\ Begin(t, "checkout", "no", "cherryPick", source, other)

ChooseCherryPick(t, other) ==
  /\ Free(t) /\ OnScreen("cherryPick", {"chooseBranch"}) /\ other # view.branch
  /\ BeginCherryPick(t, SetStep(ui, "showProgress"), other, ui.flow.source)
  /\ UNCHANGED <<git, view, bound>>

StartCherryPickWithBranch(t, other) ==
  /\ Free(t) /\ "cherryPick" \in bound.kinds /\ Starts /\ ui.flow = NoFlow /\ other # view.branch
  /\ BeginCherryPick(t, ShowPopup(InitializeMultiCommitOperation(
                            ui, "cherryPick", view.branch, CurrentSha), "flow"),
                     other, view.branch)
  /\ UNCHANGED <<git, view>>

\* The dialogs that end the flow when dismissed, and the ones on top of it.
DismissFlow ==
  /\ \E k \in AnyKind : OnScreen(k, {"chooseBranch", "warnForcePush"})
  /\ ui' = OnFlowEnded(ui)
  /\ UNCHANGED <<git, view, task, bound>>

DismissPopup ==
  /\ CurrentPopup(ui.popups) \in {"error", "localChanges"}
  /\ ui' = CloseAnyPopup(ui)
  /\ UNCHANGED <<git, view, task, bound>>

-----------------------------------------------------------------------------
(* The handlers' steps between their awaits.                               *)

\* warnAboutRemoteCommits: the warning takes over, or git starts.  rebase()
\* does not start when the state is no longer that of a rebase.
WarnAboutRemoteCommits(t) ==
  /\ Ready(t, "warn")
  /\ \/ /\ ui' = SetStep(ui, "warnForcePush")
        /\ task' = [task EXCEPT ![t] = NoTask]
     \/ /\ IF task[t].kind = "rebase" /\ (ui.flow = NoFlow \/ ui.flow.kind # "rebase")
           THEN task' = [task EXCEPT ![t] = NoTask]
           ELSE Goto(t, At(t, "start", "no"))
        /\ UNCHANGED ui
  /\ UNCHANGED <<git, view, bound>>

\* onBeginOperation of the warning: all over again, without the warning, unless the
\* rebase is one that was found.  A merge and a cherry-pick have none.
BeginOperation(t, kind) ==
  /\ Free(t) /\ kind \in Interactive \cup {"rebase"} /\ OnScreen(kind, {"warnForcePush"})
  /\ IF kind = "rebase"
     THEN /\ ui.flow.source # NoBranch
          /\ ui' = InitializeMultiCommitOperation(ui, "rebase", ui.flow.source, CurrentSha)
          /\ Begin(t, "start", "no", "rebase", ui.flow.source, NoBranch)
     ELSE IF view.files THEN ui' = ShowPopup(ui, "localChanges") /\ UNCHANGED task
     ELSE /\ view.branch # NoBranch
          /\ BeginInteractive(kind)
          /\ Begin(t, "start", "no", kind, view.branch, NoBranch)
  /\ UNCHANGED <<git, view, bound>>

\* The command of the handler's kind; while it runs its files are there for
\* every status.  rebase and cherry-pick refuse to start over changes.
GitKind(kind) == IF kind \in Interactive THEN "rebase" ELSE kind

AfterGit(kind) == CASE kind \in Interactive -> "processed"
                    [] kind = "rebase"      -> "rebased"
                    [] kind = "cherryPick"  -> "picked"
                    [] kind = "merge"       -> "merged"

\* squash and reorder catch what git throws, the others pass it to the popups;
\* conflicts of a merge are an error whose handler shows them.
GitEnded(t, result) ==
  LET kind == task[t].kind
  IN  /\ ui' = CASE kind \in Interactive -> ui
                 [] kind = "merge" /\ result = "conflicts" ->
                      ShowConflicts(IF ui.flow # NoFlow THEN ui
                                    ELSE InitializeMultiCommitOperation(
                                           ui, "merge", task[t].dst, ViewSha(task[t].src)))
                 [] OTHER -> EmitError(ui, result)
      /\ Goto(t, [At(t, AfterGit(kind), IF kind = "merge" THEN "no" ELSE "read")
                    EXCEPT !.result = result])

GitStart(t) ==
  LET kind    == task[t].kind
      refused == git.busy # "none" \/ (kind # "merge" /\ git.dirty)
  IN  /\ Ready(t, "start")
      /\ IF refused THEN GitEnded(t, "error") /\ UNCHANGED git
         ELSE /\ git' = [git EXCEPT !.busy = GitKind(kind), !.running = TRUE,
                                    !.head = IF kind = "rebase" THEN task[t].src ELSE @]
              /\ Goto(t, At(t, "running", "no"))
              /\ UNCHANGED ui
      /\ UNCHANGED <<view, bound>>

GitEnd(t) ==
  /\ Ready(t, "running")
  /\ \E o \in GitOutcomes(GitKind(task[t].kind)) : git' = o.git /\ GitEnded(t, o.result)
  /\ UNCHANGED <<view, bound>>

\* onContinueAfterConflicts of the rebases and of the cherry-pick.
ContinueAfterConflicts(t, kind) ==
  /\ Free(t) /\ kind # "merge" /\ OnScreen(kind, {"showConflicts"})
  /\ IF kind = "cherryPick" THEN view.conflict # "none" ELSE view.conflict = GitKind(kind)
  /\ ui' = SetStep(ui, "showProgress")
  /\ Begin(t, "continue", "no", kind, ui.flow.source, NoBranch)
  /\ UNCHANGED <<git, view, bound>>

GitContinue(t) ==
  LET kind == task[t].kind
  IN  /\ Ready(t, "continue") /\ ~git.running
      /\ \E o \in ContinueOutcomes(GitKind(kind)) :
           /\ git' = o.git
           /\ ui' = EmitError(ui, o.result)
           /\ Goto(t, [At(t, IF kind = "cherryPick" THEN "picked" ELSE "continued", "read")
                         EXCEPT !.result = o.result])
      /\ UNCHANGED <<view, bound>>

\* continueRebase loads the status itself, before the result is processed;
\* abortRebase ends with a refresh.
LoadAgain(t) ==
  /\ \/ Ready(t, "continued") /\ Goto(t, At(t, "processed", "read"))
     \/ Ready(t, "refresh") /\ Goto(t, At(t, "end", "read"))
  /\ UNCHANGED <<git, view, ui, bound>>

-----------------------------------------------------------------------------
(* What the results do, after the status is loaded.                        *)

\* completeMultiCommitOperation: without an operation, or with one that has no
\* banner (an exception), only the popup goes.
Complete(u) ==
  LET v == CloseAnyPopup(u)
  IN  IF v.flow.kind \in {"none", "merge"} THEN v
      ELSE EndMultiCommitOperation(SetBanner(v, [kind |-> "success", flow |-> v.flow]))

\* startMultiCommitOperationConflictFlow.
StartConflictFlow(u) ==
  IF view.conflict = "none" THEN EndMultiCommitOperation(u) ELSE ShowConflicts(u)

ResultIs(t, pc, results) == Ready(t, pc) /\ task[t].result \in results

\* rebase().
RebaseResult(t) ==
  /\ \/ /\ ResultIs(t, "rebased", {"completed"})
        /\ ui' = IF view.branch = NoBranch THEN ui ELSE Complete(ui)
        /\ Goto(t, At(t, "end", IF view.branch = NoBranch THEN "no" ELSE "read"))
     \/ /\ ResultIs(t, "rebased", {"conflicts"})
        /\ ui' = IF view.conflict = "rebase" THEN ShowConflicts(ui) ELSE ui
        /\ Goto(t, At(t, "end", "no"))
     \/ /\ ResultIs(t, "rebased", {"error"})
        /\ ui' = EndMultiCommitOperation(ui)
        /\ Goto(t, At(t, "end", "no"))
  /\ UNCHANGED <<git, view, bound>>

\* processMultiCommitOperationRebaseResult.
ProcessRebaseResult(t) ==
  /\ \/ /\ ResultIs(t, "processed", {"completed"})
        /\ ui' = Complete(ui)
        /\ Goto(t, At(t, "end", "read"))
     \/ /\ ResultIs(t, "processed", {"conflicts"})
        /\ Goto(t, At(t, "conflicts", "read"))
        /\ UNCHANGED ui
     \/ /\ Ready(t, "conflicts")
        /\ ui' = StartConflictFlow(ui)
        /\ Goto(t, At(t, "end", "no"))
     \/ /\ ResultIs(t, "processed", {"error", "notStaged", "gone"})
        /\ ui' = CloseAnyPopup(ui)
        /\ Goto(t, At(t, "end", "no"))
  /\ UNCHANGED <<git, view, bound>>

\* A cherry-pick ends before it has begun.
CannotPick(t, u) ==
  /\ ui' = EndMultiCommitOperation(u)
  /\ Goto(t, At(t, "end", "no"))

\* cherryPick() checks the target out ...
CheckoutTarget(t) ==
  /\ Ready(t, "checkout")
  /\ \/ /\ CanCheckout
        /\ git' = [git EXCEPT !.head = task[t].dst]
        /\ Goto(t, At(t, "checkedOut", "no"))
        /\ UNCHANGED ui
     \/ CannotPick(t, EmitError(ui, "error")) /\ UNCHANGED git
  /\ UNCHANGED <<view, bound>>

\* ... asks for the name of the branch, which only a status that is not null and not of
\* a detached HEAD has, and refreshes before it picks.
LoadCheckedOut(t) ==
  /\ Ready(t, "checkedOut")
  /\ \/ /\ view' = [view EXCEPT !.branch = Status.branch, !.tips = Status.tips]
        /\ IF Status.branch = NoBranch THEN CannotPick(t, ui)
           ELSE Goto(t, At(t, "start", "read")) /\ UNCHANGED ui
     \/ CannotPick(t, EmitError(ui, "error")) /\ UNCHANGED view
  /\ UNCHANGED <<git, bound>>

\* processCherryPickResult; whatever went wrong, git is told to abort.
ProcessCherryPickResult(t) ==
  /\ \/ /\ ResultIs(t, "picked", {"completed"})
        /\ ui' = Complete(ui)
        /\ Goto(t, At(t, "end", "read"))
     \/ /\ ResultIs(t, "picked", {"conflicts"})
        /\ ui' = IF view.conflict = "cherryPick" /\ ui.flow.kind = "cherryPick"
                 THEN SetStep(ui, "showConflicts") ELSE EndMultiCommitOperation(ui)
        /\ Goto(t, At(t, "end", "no"))
     \/ /\ ResultIs(t, "picked", {"gone"})
        /\ ui' = EndMultiCommitOperation(ui)
        /\ Goto(t, At(t, "end", "no"))
     \/ /\ ResultIs(t, "picked", {"error", "notStaged"})
        /\ ui' = CloseAnyPopup(EndMultiCommitOperation(ui))
        /\ Goto(t, At(t, "abort", "no"))
  /\ UNCHANGED <<git, view, bound>>

\* _mergeBranch, which ends with a refresh.
MergeResult(t) ==
  /\ Ready(t, "merged")
  /\ ui' = IF task[t].result = "completed" /\ view.branch # NoBranch
           THEN EndMultiCommitOperation(
                  SetBanner(ui, [kind |-> "success", flow |-> ui.flow]))
           ELSE ui
  /\ Goto(t, At(t, "end", "read"))
  /\ UNCHANGED <<git, view, bound>>

\* onContinueAfterConflicts of the merge: the commit, the changes with their
\* status, and only then the end of the flow, commit or not.
FinishConflictedMerge(t) ==
  /\ Free(t) /\ OnScreen("merge", {"showConflicts"}) /\ view.conflict = "merge"
  /\ ~git.running
  /\ \/ \E g \in GitCommit :
          /\ git.busy = "merge" /\ git' = g
          /\ ui' = SetBanner(ui, [kind |-> "success", flow |-> ui.flow])
     \/ ui' = EmitError(ui, "error") /\ UNCHANGED git
  /\ Begin(t, "finished", "read", "merge", NoBranch, NoBranch)
  /\ UNCHANGED <<view, bound>>

MergeFinished(t) ==
  /\ Ready(t, "finished")
  /\ ui' = OnFlowEnded(ui)
  /\ Goto(t, At(t, "end", "no"))
  /\ UNCHANGED <<git, view, bound>>

-----------------------------------------------------------------------------
(* The conflicts dialog and the banners.                                   *)

\* onConfirmingAbort, when conflicts have been resolved, and the way back.
ConfirmAbort ==
  /\ \E k \in AnyKind :
       \/ OnScreen(k, {"showConflicts"}) /\ ui' = SetStep(ui, "confirmAbort")
       \/ OnScreen(k, {"confirmAbort"}) /\ ui' = SetStep(ui, "showConflicts")
  /\ UNCHANGED <<git, view, task, bound>>

\* onAbort: the flow ends, git follows.
Abort(t, kind) ==
  /\ Free(t) /\ OnScreen(kind, ConflictSteps)
  /\ ui' = OnFlowEnded(ui)
  /\ Begin(t, "abort", "no", kind, ui.flow.source, NoBranch)
  /\ UNCHANGED <<git, view, bound>>

\* The banner of an operation undone, which has no link.
Undone == [kind |-> "success", flow |-> NoFlow]

GitAbort(t) ==
  LET kind == task[t].kind
  IN  /\ Ready(t, "abort")
      /\ IF CanAbort(GitKind(kind))
         THEN git' = GitStop("none") /\ UNCHANGED ui
         ELSE ui' = EmitError(ui, "error") /\ UNCHANGED git
      /\ Goto(t, CASE kind = "cherryPick" -> At(t, "checkoutSource", "no")
                   [] kind = "merge"      -> At(t, "end", "read")
                   [] OTHER               -> At(t, "refresh", "read"))
      /\ UNCHANGED <<view, bound>>

\* After a cherry-pick the source is checked out; one the user aborted ends
\* its operation once more after the status, one that failed only refreshes, and
\* one that was undone has its banner.
CheckoutSource(t) ==
  LET src == task[t].src
      u   == IF src = NoBranch \/ CanCheckout THEN ui ELSE EmitError(ui, "error")
  IN  /\ Ready(t, "checkoutSource")
      /\ git' = IF src # NoBranch /\ CanCheckout THEN [git EXCEPT !.head = src] ELSE git
      /\ ui' = IF task[t].kind = "undo" THEN SetBanner(u, Undone) ELSE u
      /\ Goto(t, At(t, CASE task[t].kind = "undo"   -> "refresh"
                         [] task[t].result = "none" -> "aborted"
                         [] OTHER                   -> "end", "read"))
      /\ UNCHANGED <<view, bound>>

CherryPickAborted(t) ==
  /\ Ready(t, "aborted")
  /\ ui' = EndMultiCommitOperation(ui)
  /\ Goto(t, At(t, "end", "read"))
  /\ UNCHANGED <<git, view, bound>>

\* onConflictsDialogDismissed: the banner takes the dialog's place.  A merge
\* whose conflicts are gone ends instead.
HideConflicts(kind) ==
  /\ OnScreen(kind, {"showConflicts"})
  /\ ui' = IF kind = "merge" /\ view.conflict # "merge" THEN OnFlowEnded(ui)
           ELSE SetBanner(CloseFlowPopup(SetStep(ui, "hideConflicts")),
                          [kind |-> "conflicts", flow |-> NoFlow])
  /\ UNCHANGED <<git, view, task, bound>>

\* The link of that banner.  A cherry-pick's progress is awaited first.
OpenConflicts ==
  LET v == SetBanner(ui, NoBanner)
  IN  /\ ui.banner.kind = "conflicts" /\ ui.popups = <<>>
      /\ ui' = IF view.conflict = "none" THEN v
               ELSE IF ui.flow # NoFlow /\ ui.flow.kind = "cherryPick" THEN [v EXCEPT !.late = TRUE]
               ELSE ShowConflicts(v)
      /\ UNCHANGED <<git, view, task, bound>>

BannerTimeout ==
  /\ ui.banner.kind = "success"
  /\ ui' = SetBanner(ui, NoBanner)
  /\ UNCHANGED <<git, view, task, bound>>

\* Undo of a success banner, if the branch is still the one of the undo state and there
\* are no changes: what the reset that follows goes back to is read now.
Undoable == Interactive \cup {"cherryPick"}

CanUndo == /\ ui.undo.valid
           /\ ~view.files
           /\ view.branch = ui.undo.branch /\ view.branch # NoBranch

UndoMultiCommitOperation(t) ==
  /\ Free(t) /\ ui.popups = <<>>
  /\ ui.banner.kind = "success" /\ ui.banner.flow # NoFlow /\ ui.banner.flow.kind \in Undoable
  /\ ui' = SetBanner(ui, NoBanner)
  /\ task' = IF CanUndo
             THEN [task EXCEPT ![t] =
                     [Handling("reset", "no", "undo", ui.banner.flow.source, NoBranch)
                        EXCEPT !.undo = Undoing(ui.undo.sha, ui.banner.flow)]]
             ELSE task
  /\ UNCHANGED <<git, view, bound>>

\* git reset --hard moves the branch, unless a rebase has detached HEAD, and takes the
\* conflicts of a merge or a cherry-pick and all changes away.
GitReset(sha) ==
  IF git.busy = "rebase" THEN [git EXCEPT !.dirty = FALSE]
  ELSE [GitStop("none") EXCEPT !.tip[git.head] = sha, !.dirty = FALSE]

\* The reset, if it fails the undo is over.
ResetToUndo(t) ==
  LET flow == task[t].undo.flow
  IN  /\ Ready(t, "reset")
      /\ \/ /\ ~git.running /\ git' = GitReset(task[t].undo.sha)
            /\ IF flow.kind = "cherryPick"
               THEN Goto(t, At(t, "checkoutSource", "no")) /\ UNCHANGED ui
               ELSE Goto(t, At(t, "refresh", "read")) /\ ui' = SetBanner(ui, Undone)
         \/ /\ ui' = EmitError(ui, "error")
            /\ Goto(t, At(t, "end", "no"))
            /\ UNCHANGED git
      /\ UNCHANGED <<view, bound>>

-----------------------------------------------------------------------------
(* The command line and the file system, next to the app.                  *)

External ==
  /\ ~git.running /\ bound.external > 0
  /\ \/ git' \in {[g EXCEPT !.dirty = FALSE] : g \in GitCommit}       \* commit, or finish
     \/ git.busy # "none" /\ git' = [GitStop("none") EXCEPT !.dirty = FALSE]  \* abort
     \/ git.busy = "none" /\ \E k \in ConflictKind : git' = GitStop(k)  \* a conflict
     \/ git' = [git EXCEPT !.dirty = ~@]                              \* edit, discard
  /\ bound' = [bound EXCEPT !.external = @ - 1]
  /\ UNCHANGED <<view, ui, task>>

-----------------------------------------------------------------------------
Init ==
  /\ git = [head |-> CHOOSE b \in Branch : TRUE, tip |-> [b \in Branch |-> 1], next |-> 2,
            busy |-> "none", running |-> FALSE, dirty |-> FALSE]
  /\ view = [branch |-> git.head, tips |-> git.tip, files |-> FALSE, conflict |-> "none"]
  /\ ui = [flow |-> NoFlow, undo |-> NoUndo, popups |-> <<>>, banner |-> NoBanner,
           late |-> FALSE]
  /\ task = [t \in Task \cup Refresher |-> NoTask]
  /\ bound \in Scenario

\* What a handler that is under way does next.
Handler(t) ==
  \/ LoadStatusRead(t) \/ LoadStatusApply(t) \/ LoadStatusSnapshot(t)
  \/ WarnAboutRemoteCommits(t) \/ CheckoutTarget(t) \/ LoadCheckedOut(t)
  \/ GitStart(t) \/ GitEnd(t)
  \/ GitContinue(t) \/ LoadAgain(t)
  \/ RebaseResult(t) \/ ProcessRebaseResult(t) \/ ProcessCherryPickResult(t)
  \/ MergeResult(t) \/ MergeFinished(t)
  \/ GitAbort(t) \/ CheckoutSource(t) \/ CherryPickAborted(t) \/ ResetToUndo(t)

\* What the user does.
User(t) ==
  \/ \E k \in AnyKind : \/ StartInteractive(t, k) \/ BeginOperation(t, k)
                        \/ ContinueAfterConflicts(t, k) \/ Abort(t, k)
  \/ \E b \in Branch : \/ ChooseMerge(t, b) \/ ChooseCherryPick(t, b)
                       \/ StartCherryPickWithBranch(t, b)
  \/ ChooseRebase(t) \/ FinishConflictedMerge(t) \/ UndoMultiCommitOperation(t)

Click == \/ \E k \in AnyKind : ShowChooseBranch(k) \/ HideConflicts(k)
         \/ DismissFlow \/ DismissPopup \/ ConfirmAbort \/ OpenConflicts \/ BannerTimeout

Next == \/ \E t \in Task \cup Refresher : Handler(t)
        \/ \E t \in Task : User(t)
        \/ \E t \in Refresher : RefreshRepository(t)
        \/ Click \/ LateConflictsDialog \/ External

Safety == Init /\ [][Next]_vars

\* Promises settle, and the repository is refreshed again and again (focus, the
\* background fetch); the user closes the popups on top of a dialog.
Spec == /\ Safety
        /\ \A t \in Task \cup Refresher : WF_vars(Handler(t))
        /\ \A t \in Refresher : WF_vars(RefreshRepository(t))
        /\ WF_vars(LateConflictsDialog)
        /\ WF_vars(DismissPopup)

-----------------------------------------------------------------------------
FlowState == {NoFlow} \cup
  [kind : AnyKind,
   step : {"chooseBranch", "warnForcePush", "showProgress", "hideConflicts"} \cup ConflictSteps,
   source : Branch \cup {NoBranch}, orig : 0..MaxSha]
ViewState == [branch : Branch \cup {NoBranch}, tips : [Branch -> 1..MaxSha],
              files : BOOLEAN, conflict : ConflictKind \cup {"none"}]

\* The popups of this component: the dialog of its operation, the warning about
\* local changes, and errors.
PopupType == {"flow", "localChanges", "error"}

TypeOK ==
  /\ git \in [head : Branch, tip : [Branch -> 1..MaxSha], next : 2..MaxSha + 1,
              busy : ConflictKind \cup {"none"}, running : BOOLEAN, dirty : BOOLEAN]
  /\ view \in ViewState
  /\ ui.flow \in FlowState
  /\ ui.undo \in [branch : Branch \cup {NoBranch}, sha : 0..MaxSha, valid : BOOLEAN]
  /\ StackIsOrdered(ui.popups) /\ Len(ui.popups) <= PopupLimit
  /\ \A i \in DOMAIN ui.popups : ui.popups[i] \in PopupType
  /\ ui.banner.kind \in {"none", "success", "conflicts"} /\ ui.banner.flow \in FlowState
  /\ \A t \in Task \cup Refresher :
       \/ Free(t)
       \/ /\ task[t].load \in {"no", "read", "apply", "snapshot"}
          /\ task[t].seen.conflict \in ConflictKind \cup {"none"}
          /\ {task[t].src, task[t].dst} \subseteq Branch \cup {NoBranch}

-----------------------------------------------------------------------------
(* Properties.                                                             *)

ConflictsShown == /\ CurrentPopup(ui.popups) = "flow"
                  /\ ui.flow # NoFlow /\ ui.flow.step \in ConflictSteps

\* A dialog about conflicts the repository no longer has does not stay.
NoPhantomConflicts == (ConflictsShown /\ view.conflict = "none") ~>
                      ~(ConflictsShown /\ view.conflict = "none")

\* Conflicts come to the user's eyes, in the dialog or the banner, whoever
\* started the operation.
ConflictIsShown == (view.conflict # "none") ~>
                   \/ view.conflict = "none"
                   \/ ui.banner.kind = "conflicts"
                   \/ ConflictsShown

\* The undo state is that of the squash or reorder under way.
UndoIsOfOperation ==
  ui.flow # NoFlow /\ ui.flow.kind \in Interactive =>
    ui.undo.valid /\ ui.undo.sha = ui.flow.orig

\* "This method will perform a hard reset back to the tip of the branch before
\* the multi commit operation happened."
UndoRestores ==
  [][\A t \in Task :
       /\ Ready(t, "reset") /\ task'[t].pc = "refresh"
       /\ task[t].undo.flow.kind \in Interactive
         => git'.tip[git.head] = task[t].undo.flow.orig]_vars

=============================================================================
