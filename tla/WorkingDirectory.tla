-------------------------- MODULE WorkingDirectory --------------------------
(***************************************************************************)
(* What the app does to the uncommitted work of one repository: committing *)
(* the selected files, discarding, stashing, restoring and dropping a      *)
(* stash, and checking out a branch under each strategy for uncommitted    *)
(* changes (app-store.ts, lib/git/stash.ts, commit.ts, update-index.ts).   *)
(* A handler awaits git between its steps; the user's editor writes files  *)
(* and refreshes come at any time.  A file's content is the number of the  *)
(* write that made it, 0 an absent file and -c a part of content c.        *)
(***************************************************************************)
EXTENDS Integers, Sequences, FiniteSets, SequencesExt

CONSTANTS
  Branch,      \* the local branches
  File,
  Task,        \* handlers of the user's that may be under way together
  Refresher,   \* refreshes of the repository that may be under way together
  Setting,     \* preferences: the strategy for uncommitted changes, protected branches
  MaxStash,    \* bound: stash entries ever made
  Scenario     \* bounds: clicks that start a handler or open a dialog, refreshes
               \* on focus, writes of the editor, changes of the selection

Strategies == {"ask", "stash", "move"}
NoBranch   == "no branch"
NoEntry    == [sha |-> 0]

ASSUME WorkingDirectoryAssumption ==
  /\ Task \cap Refresher = {}
  /\ NoBranch \notin Branch
  /\ Setting \subseteq [strategy : Strategies, protected : SUBSET Branch]
  /\ MaxStash \in Nat
  /\ Scenario \subseteq [clicks : Nat, refreshes : Nat, edits : Nat, selects : Nat]

VARIABLES
  git,      \* the repository on disk: head, trees, index, working directory, stash
  view,     \* what the app shows: branch, changed files and their selection, stash entries
  popup,    \* the dialog that asks what to do with the changes
  task,     \* the handlers and refreshes under way
  setting,  \* the preferences
  agreed,   \* contents the user gave up: overwritten, discarded, replaced, dropped
  bound     \* what is left of the scenario

vars == <<git, view, popup, task, setting, agreed, bound>>

NoPopup == [kind |-> "none", to |-> NoBranch]
Idle    == [at |-> "idle", kind |-> "none"]

-----------------------------------------------------------------------------
(* The repository on disk and the git commands, all external.              *)

Tree      == git.tree[git.head]
IsChanged(f) == git.work[f] # Tree[f]
Changed   == {f \in File : IsChanged(f)}
Untracked == {f \in Changed : Tree[f] = 0 /\ f \notin DOMAIN git.index}

\* update-index --add.
IndexWith(contents) == [f \in (DOMAIN git.index) \cup (DOMAIN contents) |->
                          IF f \in DOMAIN contents THEN contents[f] ELSE git.index[f]]
WorkOf(files) == [f \in files |-> git.work[f]]

\* stash push takes what is tracked or staged and resets it.
Stashable == {f \in Changed : f \notin Untracked}
GitStashPush(branch) ==
  [git EXCEPT !.stash = <<[sha |-> git.entries + 1, branch |-> branch,
                           files |-> WorkOf(Stashable)]>> \o @,
              !.entries = @ + 1,
              !.work = [f \in File |-> IF f \in Stashable THEN Tree[f] ELSE @[f]],
              !.index = <<>>]

\* stash drop stash@{i}: entries are named by their place.
GitStashDrop(i) == [git EXCEPT !.stash = RemoveAt(@, i)]

\* stash pop stash@{i} is refused when a local change is in the way; new files
\* come back staged; with conflicts the entry stays.
CanApply(entry) == (DOMAIN entry.files) \cap Changed = {}
GitStashApply(entry) ==
  [git EXCEPT !.work  = [f \in File |-> IF f \in DOMAIN entry.files
                                        THEN entry.files[f] ELSE @[f]],
              !.index = IndexWith([f \in {g \in DOMAIN entry.files : Tree[g] = 0}
                                     |-> entry.files[f]])]

\* checkout is refused when a changed file differs between the branches.
CanCheckout(b) == \A f \in Changed \cup (DOMAIN git.index) : Tree[f] = git.tree[b][f]
GitCheckout(b) == [git EXCEPT !.head = b,
                              !.work = [f \in File |-> IF IsChanged(f) THEN @[f]
                                                       ELSE git.tree[b][f]]]

\* commit makes the index the new tree.
GitCommit == [git EXCEPT !.tree[git.head] = [f \in File |-> IF f \in DOMAIN git.index
                                                            THEN git.index[f] ELSE @[f]],
                         !.history = @ \cup Range(git.index),
                         !.index = <<>>]

-----------------------------------------------------------------------------
(* The store.                                                              *)

\* getStashes, loadStashEntries: of the entries of a branch the latest counts.
LastEntry(stash, branch) ==
  LET ofBranch == {i \in DOMAIN stash : stash[i].branch = branch}
  IN  IF ofBranch = {} THEN NoEntry ELSE stash[Min(ofBranch)]

\* changesState.stashEntry
ShownEntry == LastEntry(view.stash, view.head)

ShownFiles == DOMAIN view.files
HasChanges == ShownFiles # {}

Status == [head |-> git.head, changed |-> Changed, untracked |-> Untracked]

\* A file keeps its selection; after a commit what was partly selected is not
\* selected any more; a new file is selected.
UpdateChangedFiles(status, clearPartialState) ==
  [f \in status.changed |->
     IF f \notin ShownFiles THEN "all"
     ELSE IF clearPartialState /\ view.files[f] = "partial" THEN "none"
     ELSE view.files[f]]

-----------------------------------------------------------------------------
(* Refreshing: the status and, later, the stash entries.                   *)

RefreshRepository == [Idle EXCEPT !.at = "readStatus", !.kind = "refresh"]

Goto(p, at) == task' = [task EXCEPT ![p].at = at]
Become(p, record) == task' = [task EXCEPT ![p] = record]

Refresh(r) ==
  /\ task[r] = Idle
  /\ Become(r, RefreshRepository)
  /\ UNCHANGED <<git, view, popup, setting, agreed>>

LoadStatusRead(p) ==
  /\ task[p].at = "readStatus"
  /\ Become(p, [kind |-> task[p].kind, at |-> "status", status |-> Status])
  /\ UNCHANGED <<git, view, popup, setting, agreed>>

LoadStatusApply(p) ==
  /\ task[p].at = "status"
  /\ LET s == task[p].status
     IN  view' = [view EXCEPT !.head = s.head, !.untracked = s.untracked,
                    !.files = UpdateChangedFiles(s, task[p].kind = "commit")]
  /\ Become(p, IF task[p].kind = "commit" THEN Idle
               ELSE [kind |-> "refresh", at |-> "readStash"])
  /\ UNCHANGED <<git, popup, setting, agreed>>

LoadStashEntriesRead(p) ==
  /\ task[p].at = "readStash"
  /\ Become(p, [kind |-> "refresh", at |-> "stash", stash |-> git.stash])
  /\ UNCHANGED <<git, view, popup, setting, agreed>>

LoadStashEntriesApply(p) ==
  /\ task[p].at = "stash"
  /\ view' = [view EXCEPT !.stash = task[p].stash]
  /\ Become(p, Idle)
  /\ UNCHANGED <<git, popup, setting, agreed>>

-----------------------------------------------------------------------------
(* Starting a handler.  A dialog is modal.                                 *)

CanStart(t) == task[t] = Idle /\ popup = NoPopup

\* to: the branch to check out or null; branch: the one the entry is for;
\* asked: whether the user confirmed that an entry will be replaced; sha: the
\* entry to pop or to drop; place: where it was when it was looked up.
Handler(kind, at, to, branch, asked) ==
  [kind |-> kind, at |-> at, to |-> to, branch |-> branch, asked |-> asked,
   sha |-> 0, place |-> 0, files |-> {}]

\* checkoutImplementation, with the strategy forced on a protected branch.
Checkout(to, strategy, asked) ==
  LET actual == IF view.head \in setting.protected THEN "move" ELSE strategy
      first  == IF actual = "stash" /\ HasChanges THEN "readLast" ELSE "checkout"
  IN  Handler(IF actual = "move" THEN "bring" ELSE "leave", first, to, view.head, asked)

\* What stands between a click on a branch and its checkout.
AsksToOverwrite == setting.strategy = "stash" /\ HasChanges /\ ShownEntry # NoEntry
AsksToSwitch    == setting.strategy = "ask" /\ HasChanges
                   /\ view.head \notin setting.protected

CheckoutBranch(t, to) ==
  /\ CanStart(t) /\ to # view.head
  /\ IF AsksToOverwrite THEN popup' = [kind |-> "overwrite", to |-> to] /\ UNCHANGED task
     ELSE IF AsksToSwitch THEN popup' = [kind |-> "switch", to |-> to] /\ UNCHANGED task
     ELSE Become(t, Checkout(to, setting.strategy, FALSE)) /\ UNCHANGED popup
  /\ UNCHANGED <<git, view, setting, agreed>>

\* The dialog that asks whether to leave or to bring the changes.
SubmitSwitch(t, strategy) ==
  /\ popup.kind = "switch" /\ task[t] = Idle
  /\ IF strategy = "stash" /\ ShownEntry # NoEntry
     THEN popup' = [popup EXCEPT !.kind = "overwrite"] /\ UNCHANGED task
     ELSE /\ popup' = NoPopup
          /\ Become(t, IF popup.to = view.head THEN Idle
                       ELSE Checkout(popup.to, strategy, FALSE))
  /\ UNCHANGED <<git, view, setting, agreed>>

\* The dialog that asks whether the stash may be replaced.
SubmitOverwrite(t) ==
  /\ popup.kind = "overwrite" /\ task[t] = Idle
  /\ popup' = NoPopup
  /\ Become(t, IF popup.to = NoBranch
               THEN Handler("stash", "readLast", NoBranch, view.head, TRUE)
               ELSE IF popup.to = view.head THEN Idle
               ELSE Checkout(popup.to, "stash", TRUE))
  /\ UNCHANGED <<git, view, setting, agreed>>

DismissPopup ==
  /\ popup # NoPopup
  /\ popup' = NoPopup
  /\ UNCHANGED <<git, view, task, setting, agreed>>

CreateStashForCurrentBranch(t) ==
  /\ CanStart(t)
  /\ IF ShownEntry # NoEntry
     THEN popup' = [kind |-> "overwrite", to |-> NoBranch] /\ UNCHANGED task
     ELSE /\ Become(t, Handler("stash", "readLast", NoBranch, view.head, FALSE))
          /\ UNCHANGED popup
  /\ UNCHANGED <<git, view, setting, agreed>>

PopStash(t) ==
  /\ CanStart(t) /\ ShownEntry # NoEntry
  /\ Become(t, [Handler("pop", "findToPop", NoBranch, view.head, FALSE)
                  EXCEPT !.sha = ShownEntry.sha])
  /\ UNCHANGED <<git, view, popup, setting, agreed>>

\* Asks for confirmation first.
DropStash(t) ==
  /\ CanStart(t) /\ ShownEntry # NoEntry
  /\ Become(t, [Handler("drop", "find", NoBranch, view.head, FALSE)
                  EXCEPT !.sha = ShownEntry.sha])
  /\ agreed' = agreed \cup Range(ShownEntry.files)
  /\ UNCHANGED <<git, view, popup, setting>>

\* Asks for confirmation first.
DiscardChanges(t, files) ==
  /\ CanStart(t)
  /\ files # {} /\ files \subseteq ShownFiles
  /\ Become(t, [Handler("discard", "trash", NoBranch, view.head, FALSE)
                  EXCEPT !.files = files])
  /\ UNCHANGED <<git, view, popup, setting, agreed>>

\* One commit at a time.
CommitIncludedChanges(t) ==
  LET selected == {f \in ShownFiles : view.files[f] # "none"}
  IN  /\ CanStart(t) /\ selected # {}
      /\ \A u \in Task : task[u].kind # "commit"
      /\ Become(t, [Handler("commit", "unstage", NoBranch, view.head, FALSE)
                      EXCEPT !.files = [f \in selected |-> view.files[f]]])
      /\ UNCHANGED <<git, view, popup, setting, agreed>>

-----------------------------------------------------------------------------
(* createCommit.                                                           *)

\* Mutant: what was staged before stays.
KeepIndex == git.index

UnstageAll == <<>>

CommitUnstage(t) ==
  /\ task[t].at = "unstage"
  /\ git' = [git EXCEPT !.index = UnstageAll]
  /\ Goto(t, "stage")
  /\ UNCHANGED <<view, popup, setting, agreed>>

\* stageFiles: the whole file, or the selected part of what it is now.
StageFiles(files) ==
  IndexWith([f \in DOMAIN files |-> IF files[f] = "partial" THEN 0 - git.work[f]
                                    ELSE git.work[f]])

CommitStage(t) ==
  /\ task[t].at = "stage"
  /\ git' = [git EXCEPT !.index = StageFiles(task[t].files)]
  /\ Goto(t, "commit")
  /\ UNCHANGED <<view, popup, setting, agreed>>

\* A commit that fails, in a hook or as there is nothing to commit, leaves the
\* index and refreshes nothing.
Commit(t) ==
  /\ task[t].at = "commit"
  /\ \/ /\ \E f \in DOMAIN git.index : git.index[f] # Tree[f]
        /\ git' = GitCommit
        /\ Become(t, [kind |-> "commit", at |-> "readStatus"])
     \/ Become(t, Idle) /\ UNCHANGED git
  /\ UNCHANGED <<view, popup, setting, agreed>>

-----------------------------------------------------------------------------
(* createStashAndDropPreviousEntry and the checkouts that bring changes.   *)

\* After the part that stashes: the checkout goes on whether it worked or not.
AfterStash(h, created) ==
  IF h.to # NoBranch THEN [h EXCEPT !.at = "checkout"]
  ELSE IF created THEN RefreshRepository ELSE Idle

ReadLastEntry(t) ==
  /\ task[t].at = "readLast"
  /\ task' = [task EXCEPT ![t].sha = LastEntry(git.stash, task[t].branch).sha,
                          ![t].at = "stageUntracked"]
  /\ UNCHANGED <<git, view, popup, setting, agreed>>

\* createDesktopStashEntry stages the untracked files the app knows of.
StageUntracked(t) ==
  /\ task[t].at = "stageUntracked"
  /\ git' = [git EXCEPT !.index = IndexWith(WorkOf({f \in view.untracked : IsChanged(f)}))]
  /\ Goto(t, "push")
  /\ UNCHANGED <<view, popup, setting, agreed>>

\* The entry that brings changes is one of the branch they are brought to.
EntryBranch(h) == IF h.kind = "bring" THEN h.to ELSE h.branch

StashPush(t) ==
  LET h == task[t]
  IN  /\ h.at = "push"
      /\ \/ /\ Stashable # {} /\ git.entries < MaxStash
            /\ git' = GitStashPush(EntryBranch(h))
            /\ Become(t, IF h.kind = "bring" THEN [h EXCEPT !.at = "readTransient"]
                         ELSE IF h.sha # 0 THEN [h EXCEPT !.at = "find"]
                         ELSE AfterStash(h, TRUE))
         \/ /\ UNCHANGED git
            /\ Become(t, IF h.kind = "bring" THEN RefreshRepository
                         ELSE AfterStash(h, FALSE))
      /\ UNCHANGED <<view, popup, setting, agreed>>

\* getStashEntryMatchingSha: the place of the entry, 0 if it is gone.
PlaceOf(sha) == IF \E i \in DOMAIN git.stash : git.stash[i].sha = sha
                THEN CHOOSE i \in DOMAIN git.stash : git.stash[i].sha = sha ELSE 0

AfterDrop(h) == CASE h.kind = "drop" -> [Idle EXCEPT !.at = "readStash", !.kind = "refresh"]
                  [] h.kind \in {"pop", "bring"} -> RefreshRepository
                  [] OTHER -> AfterStash(h, TRUE)

\* The entry to drop or to pop is looked up, git is told its place.
FindEntry(t) ==
  LET h == task[t]
      i == PlaceOf(h.sha)
  IN  /\ h.at \in {"find", "findToPop"}
      /\ Become(t, IF i = 0 THEN AfterDrop(h)
                   ELSE [h EXCEPT !.at = IF h.at = "find" THEN "drop" ELSE "pop",
                                  !.place = i])
      /\ UNCHANGED <<git, view, popup, setting, agreed>>

\* An entry is given up when a later one of its branch replaces it.
Replaced(sha) ==
  UNION {Range(git.stash[i].files) :
           i \in {j \in DOMAIN git.stash :
                   /\ git.stash[j].sha = sha
                   /\ \E k \in 1 .. j - 1 : git.stash[k].branch = git.stash[j].branch}}

DropEntry(t) ==
  LET h == task[t]
  IN  /\ h.at = "drop"
      /\ \/ /\ h.place \in DOMAIN git.stash
            /\ git' = GitStashDrop(h.place)
            /\ agreed' = IF h.kind \in {"stash", "leave"} THEN agreed \cup Replaced(h.sha)
                         ELSE agreed
         \/ UNCHANGED <<git, agreed>>
      /\ Become(t, AfterDrop(h))
      /\ UNCHANGED <<view, popup, setting>>

\* A checkout that fails is reported; the one that brings changes is tried
\* again with the changes in a stash, once.
CheckoutGit(t) ==
  LET h == task[t]
  IN  /\ h.at \in {"checkout", "checkoutAgain"}
      /\ \/ /\ CanCheckout(h.to)
            /\ git' = GitCheckout(h.to)
            /\ Become(t, IF h.at = "checkoutAgain" THEN [h EXCEPT !.at = "findToPop"]
                         ELSE RefreshRepository)
         \/ /\ ~ CanCheckout(h.to) /\ h.kind = "bring" /\ h.at = "checkout"
            /\ Goto(t, "stageUntracked")
            /\ UNCHANGED git
         \/ Become(t, RefreshRepository) /\ UNCHANGED git
      /\ UNCHANGED <<view, popup, setting, agreed>>

ReadTransientEntry(t) ==
  LET h == task[t]
      e == LastEntry(git.stash, h.to)
  IN  /\ h.at = "readTransient"
      /\ Become(t, IF e = NoEntry THEN RefreshRepository
                   ELSE [h EXCEPT !.sha = e.sha, !.at = "checkoutAgain"])
      /\ UNCHANGED <<git, view, popup, setting, agreed>>

\* Conflicts leave the entry in place, and the app drops it.
DropPopped(h) == [h EXCEPT !.at = "find"]

\* Mutant: whatever exit code 1 stands for.
DropRefused(h) == DropPopped(h)

\* Anything on stderr means that nothing was popped.
PopRefused(h) == RefreshRepository

\* popStashEntry, from the look-up to git's answer.
PopEntry(t) ==
  LET h == task[t]
      i == h.place
  IN  /\ h.at = "pop"
      /\ \/ /\ i \in DOMAIN git.stash /\ CanApply(git.stash[i])
            /\ \/ /\ git' = [GitStashApply(git.stash[i]) EXCEPT !.stash = RemoveAt(@, i)]
                  /\ Become(t, RefreshRepository)
               \/ /\ git' = GitStashApply(git.stash[i])
                  /\ Become(t, DropPopped(h))
         \/ Become(t, PopRefused(h)) /\ UNCHANGED git
      /\ UNCHANGED <<view, popup, setting, agreed>>

-----------------------------------------------------------------------------
(* GitStore.discardChanges.                                                *)

\* The files go to the trash; one that cannot be moved stays, or ends it all
\* when the user wants to be asked.
MoveItemsToTrash(t) ==
  LET h == task[t]
  IN  /\ h.at = "trash"
      /\ \E moved \in SUBSET h.files :
           /\ git' = [git EXCEPT !.work = [f \in File |-> IF f \in moved THEN 0 ELSE @[f]]]
           /\ agreed' = agreed \cup Range(WorkOf(moved))
           /\ \/ Goto(t, "reset")
              \/ moved # h.files /\ Become(t, Idle)
      /\ UNCHANGED <<view, popup, setting>>

\* getIndexChanges, resetPaths, checkoutIndex: what the last commit has comes
\* back; a file that was added is only unstaged.
ResetFiles(files) ==
  [git EXCEPT !.index = Restrict(@, (DOMAIN @) \ files),
              !.work  = [f \in File |-> IF f \in files /\ Tree[f] # 0 THEN Tree[f] ELSE @[f]]]

ResetAndCheckoutIndex(t) ==
  LET h == task[t]
  IN  /\ h.at = "reset"
      /\ \/ git' = ResetFiles(h.files) /\ agreed' = agreed \cup Range(WorkOf(h.files))
         \/ UNCHANGED <<git, agreed>>
      /\ Become(t, RefreshRepository)
      /\ UNCHANGED <<view, popup, setting>>

-----------------------------------------------------------------------------
(* The user: an editor outside of the app, and the checkboxes.             *)

Edit(f) ==
  /\ git' = [git EXCEPT !.made = @ + 1, !.work[f] = git.made + 1]
  /\ agreed' = agreed \cup {git.work[f]}
  /\ UNCHANGED <<view, popup, task, setting>>

SelectFile(f, selection) ==
  /\ popup = NoPopup /\ f \in ShownFiles /\ view.files[f] # selection
  /\ view' = [view EXCEPT !.files[f] = selection]
  /\ UNCHANGED <<git, popup, task, setting, agreed>>

IncludeAllFiles(selection) ==
  /\ popup = NoPopup
  /\ view' = [view EXCEPT !.files = [f \in ShownFiles |-> selection]]
  /\ UNCHANGED <<git, popup, task, setting, agreed>>

-----------------------------------------------------------------------------
\* Files of the last commit have content 1; the branches may differ.  Some
\* files were changed before, which the app shows.
Init ==
  \E head \in Branch, tree \in [Branch -> [File -> {0, 1}]], dirty \in SUBSET File :
    /\ git = [head |-> head, tree |-> tree, index |-> <<>>, stash |-> <<>>,
              work |-> [f \in File |-> IF f \in dirty THEN 2 ELSE tree[head][f]],
              entries |-> 0, made |-> 2, history |-> {1}]
    /\ view = [head |-> head, files |-> [f \in dirty |-> "all"], stash |-> <<>>,
               untracked |-> {f \in dirty : tree[head][f] = 0}]
    /\ popup = NoPopup
    /\ task = [p \in Task \cup Refresher |-> Idle]
    /\ setting \in Setting
    /\ agreed = {0} \cup IF dirty = {} THEN {2} ELSE {}
    /\ bound \in Scenario

Handle(t) ==
  \/ CommitUnstage(t) \/ CommitStage(t) \/ Commit(t)
  \/ ReadLastEntry(t) \/ StageUntracked(t) \/ StashPush(t)
  \/ FindEntry(t) \/ DropEntry(t) \/ CheckoutGit(t)
  \/ ReadTransientEntry(t) \/ PopEntry(t)
  \/ MoveItemsToTrash(t) \/ ResetAndCheckoutIndex(t)

Load(p) ==
  \/ LoadStatusRead(p) \/ LoadStatusApply(p)
  \/ LoadStashEntriesRead(p) \/ LoadStashEntriesApply(p)

Click(t) ==
  \/ \E to \in Branch : CheckoutBranch(t, to)
  \/ CreateStashForCurrentBranch(t) \/ PopStash(t) \/ DropStash(t)
  \/ CommitIncludedChanges(t)
  \/ \E files \in SUBSET File : DiscardChanges(t, files)

Answer(t) ==
  \/ \E strategy \in {"stash", "move"} : SubmitSwitch(t, strategy)
  \/ SubmitOverwrite(t)
  \/ DismissPopup

Select ==
  \/ \E f \in File, s \in {"all", "none", "partial"} : SelectFile(f, s)
  \/ \E s \in {"all", "none"} : IncludeAllFiles(s)

\* One of the bounded steps.
Spend(what) == bound[what] > 0 /\ bound' = [bound EXCEPT ![what] = @ - 1]

Next ==
  \/ Spend("clicks")    /\ \E t \in Task : Click(t)
  \/ Spend("refreshes") /\ \E r \in Refresher : Refresh(r)
  \/ Spend("edits")     /\ \E f \in File : Edit(f)
  \/ Spend("selects")   /\ Select
  \/ UNCHANGED bound    /\ \E t \in Task : Answer(t) \/ Handle(t)
  \/ UNCHANGED bound    /\ \E p \in Task \cup Refresher : Load(p)

Spec == Init /\ [][Next]_vars

-----------------------------------------------------------------------------
Content == (0 - git.made) .. git.made

\* The types of the repository on disk and of what the app shows of it; the
\* files it shows as untracked are among those it shows.
TypeOK ==
  /\ git.head \in Branch /\ git.tree \in [Branch -> [File -> Content]]
  /\ git.work \in [File -> Content]
  /\ DOMAIN git.index \subseteq File /\ Range(git.index) \subseteq Content
  /\ \A i, j \in DOMAIN git.stash : i < j => git.stash[i].sha > git.stash[j].sha
  /\ view.head \in Branch /\ view.untracked \subseteq ShownFiles
  /\ view.files \in [ShownFiles -> {"all", "none", "partial"}] /\ ShownFiles \subseteq File
  /\ popup \in [kind : {"none", "switch", "overwrite"}, to : Branch \cup {NoBranch}]
  /\ setting \in Setting

\* What the user wrote is in the working directory, in a stash entry or in a
\* commit, unless the user gave it up: by writing over it, discarding it,
\* dropping its entry, or stashing over it.  No handler loses work in between,
\* whichever of its steps fails.
NoWorkLost ==
  1 .. git.made \subseteq
    agreed \cup Range(git.work) \cup git.history
    \cup UNION {Range(git.stash[i].files) : i \in DOMAIN git.stash}

\* A commit changes the files that were selected when the button was pressed
\* and no others, whatever a stash or a restore left in the index before.
CommitIsOfSelection ==
  [][\A t \in Task, f \in File :
       task[t].at = "commit" /\ git.tree[git.head][f] # git'.tree[git.head][f]
         => f \in DOMAIN task[t].files]_vars

\* app-store.ts:3695: with changes and an entry, the user is told that the
\* entry will be replaced, before it is.
OverwriteIsConfirmed ==
  \A t \in Task : task[t].at = "drop" /\ task[t].kind \in {"stash", "leave"}
                 => task[t].asked
=============================================================================
