-------------------------- MODULE CommitSelection --------------------------
(***************************************************************************)
(* The commits selected in the history tab, the files they change and the   *)
(* diff of one of these (ICommitSelection and its handlers in app-store.ts). *)
(* The files and the diff are loaded by git one after the other, while the  *)
(* user selects other commits and files and the list of commits changes.    *)
(***************************************************************************)
EXTENDS Naturals, FiniteSets, Sequences, SequencesExt

CONSTANTS Selection,  \* what can be selected: one commit or several
          Diffable,   \* those of one commit and of adjacent ones
          File,
          Files,      \* [Selection -> the files it changes]
          MaxLoads,   \* bound on the lists of files git is asked for, and on the diffs
          None

ASSUME SelectionAssumption ==
    /\ Diffable \subseteq Selection
    /\ Files \in [Selection -> Seq(File)]
    /\ None \notin Selection /\ None \notin File
    /\ MaxLoads \in Nat

VARIABLES
    shas,        \* the commits selected, None if there are none
    changeset,   \* changesetData: whose files these are, None for no files
    file,        \* the file selected
    diff,        \* None or [shas, file, hide] the diff shown is of
    hide,        \* hideWhitespaceInHistoryDiff
    loads,       \* the commits whose files git is asked for, and the file then selected
    diffs        \* the diffs git is asked for

vars == <<shas, changeset, file, diff, hide, loads, diffs>>

Diff == [shas : Selection, file : File, hide : BOOLEAN]

TypeOK ==
    /\ shas \in Selection \cup {None} /\ changeset \in Selection \cup {None}
    /\ file \in File \cup {None} /\ diff \in Diff \cup {None}
    /\ hide \in BOOLEAN
    /\ loads \subseteq [shas : Diffable, file : File \cup {None}]
    /\ diffs \subseteq Diff
    \* a file is selected among files that are shown
    /\ file # None => changeset # None

Init ==
    /\ shas = None /\ changeset = None /\ file = None /\ diff = None
    /\ hide \in BOOLEAN
    /\ loads = {} /\ diffs = {}

-----------------------------------------------------------------------------

\* What _changeCommitSelection and clearSelectedCommit make of the selection.
Reselect(s) == shas' = s /\ changeset' = None /\ file' = None /\ diff' = None

\* The user selects other commits. Their files are loaded a little later.
ChangeCommitSelection(s) ==
    /\ s # shas
    /\ Reselect(s)
    /\ UNCHANGED <<hide, loads, diffs>>

Load(s, f) ==
    /\ loads' = IF s \in Diffable THEN loads \cup {[shas |-> s, file |-> f]} ELSE loads
    /\ Cardinality(loads') <= MaxLoads

\* _loadChangedFilesForCurrentSelection.
LoadChangedFiles ==
    /\ shas # None
    /\ Load(shas, file)
    /\ UNCHANGED <<shas, changeset, file, diff, hide, diffs>>

\* updateOrSelectFirstCommit: the list has become another, without the commits
\* selected, and s is its first commit.
SelectFirstCommit(s) ==
    /\ Reselect(s)
    /\ Load(s, None)
    /\ UNCHANGED <<hide, diffs>>

ClearSelectedCommit ==
    /\ Reselect(None)
    /\ UNCHANGED <<hide, loads, diffs>>

\* _changeFileSelection: the diff is asked for as the user wants it now.
ChangeFile(f) ==
    /\ file' = f /\ diff' = None
    /\ diffs' = IF shas \in Diffable
                THEN diffs \cup {[shas |-> shas, file |-> f, hide |-> hide']} ELSE diffs
    /\ Cardinality(diffs') <= MaxLoads

ChangeFileSelection(f) ==
    /\ changeset # None /\ f \in Range(Files[changeset])
    /\ UNCHANGED hide
    /\ ChangeFile(f)
    /\ UNCHANGED <<shas, changeset, loads>>

\* _setHideWhitespaceInHistoryDiff.
SetHideWhitespace ==
    /\ hide' = ~hide
    /\ IF file # None THEN ChangeFile(file) ELSE UNCHANGED <<file, diff, diffs>>
    /\ UNCHANGED <<shas, changeset, loads>>

\* The file selected when loading began or else the first of those loaded.
FirstFileOrDefault(l) ==
    IF l.file = None /\ Files[l.shas] # <<>> THEN Files[l.shas][1] ELSE l.file

\* Mutant: what was loaded is not shown, only its first file is.
LoadedFileOnly(l) ==
    /\ l \in loads
    /\ loads' = loads \ {l}
    /\ file' = FirstFileOrDefault(l)
    /\ diff' = None
    /\ UNCHANGED <<shas, changeset, hide, diffs>>

\* _loadChangedFilesForCurrentSelection goes on. It looks whether the selection
\* has changed, but the selection it looks at is the one it began with.
ChangedFilesLoaded(l) ==
    /\ l \in loads
    /\ loads' = loads \ {l}
    /\ changeset' = l.shas
    /\ UNCHANGED hide
    /\ IF FirstFileOrDefault(l) # None THEN ChangeFile(FirstFileOrDefault(l))
       ELSE file' = None /\ diff' = None /\ UNCHANGED diffs
    /\ UNCHANGED shas

\* Mutant: the diff is shown if its commits are still selected.
DiffOfCommits(d) ==
    /\ d \in diffs
    /\ diffs' = diffs \ {d}
    /\ diff' = IF shas = d.shas /\ file # None THEN d ELSE diff
    /\ UNCHANGED <<shas, changeset, file, hide, loads>>

\* _changeFileSelection goes on: the diff is shown if its commits and its file are
\* still selected.
DiffLoaded(d) ==
    /\ d \in diffs
    /\ diffs' = diffs \ {d}
    /\ diff' = IF shas = d.shas /\ file = d.file THEN d ELSE diff
    /\ UNCHANGED <<shas, changeset, file, hide, loads>>

\* git fails, and the error is reported.
LoadFailed(l) ==
    /\ l \in loads
    /\ loads' = loads \ {l}
    /\ UNCHANGED <<shas, changeset, file, diff, hide, diffs>>

DiffFailed(d) ==
    /\ d \in diffs
    /\ diffs' = diffs \ {d}
    /\ UNCHANGED <<shas, changeset, file, diff, hide, loads>>

Next ==
    \/ \E s \in Selection : ChangeCommitSelection(s)
    \/ \E s \in Diffable : SelectFirstCommit(s)
    \/ ClearSelectedCommit \/ LoadChangedFiles \/ SetHideWhitespace
    \/ \E f \in File : ChangeFileSelection(f)
    \/ \E l \in loads : ChangedFilesLoaded(l) \/ LoadFailed(l)
    \/ \E d \in diffs : DiffLoaded(d) \/ DiffFailed(d)

Spec == Init /\ [][Next]_vars

-----------------------------------------------------------------------------

\* In whatever order git answers, the diff shown is of the commits and of the file
\* that are selected.
DiffIsOfSelection == diff # None => diff.shas = shas /\ diff.file = file

\* app-store.ts:1579 says of the files: "The selection could have changed between
\* when we started loading the changed files and we finished." They are shown
\* nevertheless, as the files of the commits selected now.
FilesAreOfSelection == changeset # None => changeset = shas
=============================================================================
