---------------------------- MODULE PartialCommit ----------------------------
(* Choosing lines of a changed file and committing or discarding them: the     *)
(* diff the changes view shows (AppStore.updateChangesWorkingDirectoryDiff),   *)
(* the selection that goes with it, and what git makes of the patch.  The file *)
(* stays the one selected in the list of changes.  A diff is read some time    *)
(* before it is shown, and another for the patch of a commit, while other      *)
(* programs write the file.                                                    *)
EXTENDS PatchFormatter, DiffSelection

CONSTANTS Script,      \* the changes the file may have to begin with or get by an edit
          DiffLoad,        \* bound: diffs being read
          None

LineTypes == {"Context", "Add", "Delete"}
Entries == [type : LineTypes, text : STRING]

\* git diff shows three lines of context: some, which is what the header of a hunk
\* relies on that has nothing but lines added or deleted.
PartialCommitAssumption == ContextLines \in Nat \ {0} /\ Script \subseteq Seq(Entries)

VARIABLES
    disk,       \* what is changed in the file, a script
    listed,     \* the status the app has seen lists the file
    diff,       \* the diff that is shown, or None
    loads,      \* [DiffLoad -> "idle", "asked", or "read" with the diff read]
    selection,  \* the selection of the file
    commit,     \* None, or how far a commit is and what it was given
    chosen,     \* history: the rows the user has chosen
    result      \* history: what git has just made of a patch, or None

vars == <<disk, listed, diff, loads, selection, commit, chosen, result>>

SelectedRows(d, sel) == {r \in Includeable(d) : IsSelected(sel, r)}

Idle == [pc |-> "idle", diff |-> None]

TypeOK ==
    /\ \A n \in DOMAIN disk : disk[n].type \in LineTypes
    /\ listed \in BOOLEAN
    /\ diff # None => listed
    /\ selection \in DiffSelections(Nat)
    /\ chosen \subseteq Nat
    /\ \A l \in DiffLoad : loads[l].pc \in {"idle", "asked", "read"}
    /\ commit # None => commit.pc \in {"stage", "refresh"} /\ commit.selection \in DiffSelections(Nat)

Init ==
    /\ disk \in Script
    /\ listed = FALSE /\ diff = None
    /\ loads = [l \in DiffLoad |-> Idle]
    /\ selection = FromInitialSelection("All")
    /\ commit = None /\ chosen = {} /\ result = None

\* What committing or discarding the chosen entries of a script leaves of it.
Left(s, entries, gone) ==
    LET kept == InOrder({i \in DOMAIN s : i \in entries => s[i].type # gone})
    IN [n \in DOMAIN kept |->
          IF kept[n] \in entries THEN [s[kept[n]] EXCEPT !.type = "Context"] ELSE s[kept[n]]]

-----------------------------------------------------------------------------

\* Another program writes the file.
EditFile ==
    /\ disk' \in {s \in Script : OldText(s) = OldText(disk) /\ s # disk}
    /\ result' = None
    /\ UNCHANGED <<listed, diff, loads, selection, commit, chosen>>

\* updateChangesWorkingDirectoryDiff asks git for the diff of a file that is listed.
LoadDiff(l) ==
    /\ loads[l].pc = "idle"
    /\ loads' = IF listed' THEN [loads EXCEPT ![l].pc = "asked"] ELSE loads

\* updateChangedFiles: a file that is still changed keeps its selection, unless
\* that is partial and is to be cleared.
Refreshed(clearPartialState) ==
    /\ listed' = (Changed(disk) # {})
    /\ diff' = IF listed' THEN diff ELSE None
    /\ selection' = CASE ~listed' \/ ~listed -> FromInitialSelection("All")
                      [] listed' /\ listed /\ clearPartialState
                         /\ SelectionType(selection) = "Partial" ->
                            FromInitialSelection("None")
                      [] OTHER -> selection
    /\ chosen' = IF diff' = None THEN {}
                 ELSE IF selection' = selection THEN chosen
                 ELSE SelectedRows(diff, selection')

\* _loadStatus.
StatusLoaded(l) ==
    /\ Refreshed(FALSE) /\ LoadDiff(l)
    /\ result' = None
    /\ UNCHANGED <<disk, commit>>

\* git reads the file, some time before the app has its answer.
GitDiff(l) ==
    /\ loads[l].pc = "asked"
    /\ loads' = [loads EXCEPT ![l] = [pc |-> "read", diff |-> Diff(disk)]]
    /\ result' = None
    /\ UNCHANGED <<disk, listed, diff, selection, commit, chosen>>

\* The diff is shown, if the file is still listed, whatever has been shown since.
DiffLoaded(l) ==
    /\ loads[l].pc = "read"
    /\ loads' = [loads EXCEPT ![l] = Idle]
    /\ IF listed
         THEN /\ diff' = loads[l].diff
              /\ selection' = WithSelectableLines(selection, Includeable(diff'))
              /\ chosen' = IF diff = diff' THEN chosen ELSE SelectedRows(diff', selection')
         ELSE UNCHANGED <<diff, selection, chosen>>
    /\ result' = None
    /\ UNCHANGED <<disk, listed, commit>>

-----------------------------------------------------------------------------

\* The rows a gesture goes over, from one changed line to another (endSelection,
\* onClickHunk); the rows between may be any.
Gestures(d) ==
    LET lines == Includeable(d)
    IN {from .. to : from \in lines, to \in lines} \ {{}}

\* changeFileLineSelection, which a commit under way disables.
SelectLines(rows, selected) ==
    /\ diff # None /\ commit = None
    /\ selection' = WithRangeSelection(selection, rows, selected)
    /\ chosen' = IF selected THEN chosen \cup (rows \cap Includeable(diff)) ELSE chosen \ rows
    /\ result' = None
    /\ UNCHANGED <<disk, listed, diff, loads, commit>>

\* changeFileIncluded, the checkbox of the file.
IncludeFile(include) ==
    /\ listed /\ commit = None
    /\ selection' = IF include THEN WithSelectAll(selection) ELSE WithSelectNone(selection)
    /\ chosen' = IF include /\ diff # None THEN Includeable(diff) ELSE {}
    /\ result' = None
    /\ UNCHANGED <<disk, listed, diff, loads, commit>>

\* commitIncludedChanges with the selection of this moment.
Commit ==
    /\ listed /\ commit = None /\ SelectionType(selection) # "None"
    /\ commit' = [pc |-> "stage", selection |-> selection, diff |-> diff, chosen |-> chosen]
    /\ result' = None
    /\ UNCHANGED <<disk, listed, diff, loads, selection, chosen>>

\* createCommit: the index is reset to HEAD, and stageFiles adds the file as it
\* is, or has a patch of the lines selected applied (applyPatchToIndex, which
\* reads the diff anew). A patch of nothing is an exception and one that does not
\* apply an error, and there is no commit then.
Stage ==
    /\ commit # None /\ commit.pc = "stage"
    /\ LET all == SelectionType(commit.selection) = "All"
           now == Diff(disk)
           entries == IF all THEN Changed(disk)
                      ELSE EntriesOf(now, SelectedRows(now, commit.selection))
           staged == CASE all -> NewText(disk)
                       [] ~all /\ entries = {} -> Rejected
                       [] OTHER -> Apply(OldText(disk), FormatPatch(now, entries))
           fresh == commit.diff # None /\ commit.diff.script = disk
       IN /\ result' = [kind |-> "commit", fresh |-> fresh, script |-> disk, text |-> staged,
                        entries |-> IF fresh THEN EntriesOf(now, commit.chosen)
                                             ELSE entries]
          /\ IF staged = Rejected
               THEN commit' = None /\ UNCHANGED disk
               ELSE /\ commit' = [commit EXCEPT !.pc = "refresh"]
                    /\ disk' = Left(disk, entries, "Delete")
    /\ UNCHANGED <<listed, diff, loads, selection, chosen>>

\* commitIncludedChanges loads the status and gives up what partial selection is
\* left.
CommitDone(l) ==
    /\ commit # None /\ commit.pc = "refresh"
    /\ commit' = None
    /\ Refreshed(TRUE) /\ LoadDiff(l)
    /\ result' = None
    /\ UNCHANGED disk

\* discardChangesFromSelection, with rows of the diff that is shown. A patch of
\* nothing is not applied.
DiscardLines(rows) ==
    /\ diff # None /\ commit = None
    /\ LET entries == EntriesOf(diff, SelectedRows(diff,
                          WithRangeSelection(WithSelectNone(selection), rows, TRUE)))
           fresh == diff.script = disk
           text == Apply(NewText(disk), FormatPatchToDiscardChanges(diff, entries))
       IN /\ entries # {}
          /\ result' = [kind |-> "discard", fresh |-> fresh, script |-> diff.script, text |-> text,
                        entries |-> EntriesOf(diff, rows)]
          /\ disk' = IF text = Rejected \/ ~fresh THEN disk ELSE Left(disk, entries, "Add")
    /\ UNCHANGED <<listed, diff, loads, selection, commit, chosen>>

-----------------------------------------------------------------------------

\* What the commit or the file should be.
Wanted(r) ==
    Texts(r.script, IF r.kind = "commit" THEN Committed(r.script, r.entries)
                                         ELSE Remaining(r.script, r.entries))

\* A patch that went elsewhere leaves a file or a HEAD we have no script for, so a
\* behaviour ends there.
Known ==
    result # None /\ result.text # Rejected =>
        (result.fresh \/ result.kind = "commit") /\ result.text = Wanted(result)

Next ==
    /\ Known
    /\ \/ EditFile \/ Commit \/ Stage
       \/ \E l \in DiffLoad : StatusLoaded(l) \/ GitDiff(l) \/ DiffLoaded(l) \/ CommitDone(l)
       \/ \E include \in BOOLEAN : IncludeFile(include)
       \/ /\ diff # None
          /\ \E rows \in Gestures(diff) :
                DiscardLines(rows) \/ \E selected \in BOOLEAN : SelectLines(rows, selected)

Spec == Init /\ [][Next]_vars

-----------------------------------------------------------------------------

\* The rows that are selected are those the user has chosen in the diff that is
\* shown, by whatever gestures, and what getSelectionType says of them is so once
\* the diff has said which can be selected.
SelectionIsChosen ==
    /\ diff # None => chosen = SelectedRows(diff, selection)
    /\ selection.selectable # Unknown =>
         LET selected == {r \in selection.selectable : IsSelected(selection, r)}
         IN CASE SelectionType(selection) = "All"  -> selected = selection.selectable
              [] SelectionType(selection) = "None" -> selected = {}
              [] OTHER -> selected # {} /\ selected # selection.selectable

Distinct(text) == \A m, n \in DOMAIN text : text[m] = text[n] => m = n

\* A hunk is written with the line it has when all the changes before it are made.
\* That is its place, and git looks there first, if as many lines were added as
\* deleted by the changes before it that are left out.
InPlace(s, entries) ==
    \A n \in DOMAIN Diff(s).hunks :
        LET h == Diff(s).hunks[n]
            LeftOut(type) == {i \in 1 .. h.first - 1 : i \notin entries /\ s[i].type = type}
        IN Written(h, entries) => Cardinality(LeftOut("Add")) = Cardinality(LeftOut("Delete"))

\* What git holds for the next commit is HEAD with the lines the user has chosen,
\* if the file has not changed since the diff was shown (stageFiles: "set up the
\* index in such a way that it reflects what the user has selected in the app").
IndexReflectsSelection ==
    result # None /\ result.kind = "commit" /\ result.fresh /\ result.entries # {} =>
        result.text = Wanted(result)

\* So it is if no line of the file can be taken for another, or none is out of its
\* place.
StagedIsSelected ==
    /\ result # None /\ result.kind = "commit" /\ result.fresh /\ result.entries # {}
    /\ Distinct(OldText(result.script)) \/ InPlace(result.script, result.entries)
    => result.text = Wanted(result)

\* Likewise what is left of the file when lines are discarded. Lines put back are
\* never lost, and no line of the file that was not to be discarded is.
DiscardedIsSelected ==
    /\ result # None /\ result.kind = "discard" /\ result.fresh
    /\ Distinct(NewText(result.script)) \/ InPlace(result.script, result.entries)
    => result.text = Wanted(result)
=============================================================================
