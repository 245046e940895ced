----------------------- MODULE CommitsAndRequests_proofs -----------------------
(*****************************************************************************)
(* For every value of the constants: that the diff shown is of the commits   *)
(* and the file selected; that the lines of a file selected are those the    *)
(* user has chosen, which rests on one law of a DiffSelection,               *)
(* RangeIsSelected; that git makes of the patch of a commit or a discard     *)
(* what those lines say; and that refreshes of the pull requests miss        *)
(* nothing and go on. Each component of MCCommitsAndRequests has an          *)
(* invariant of its own.                                                     *)
(*****************************************************************************)
EXTENDS MCCommitsAndRequests, InOrder_proofs, SequenceTheorems, FiniteSetTheorems,
        WellFoundedInduction, TLAPS

-----------------------------------------------------------------------------
(* The commits selected.                                                     *)

SelectedInv == TypeOK /\ DiffIsOfSelection

\* The file selected when the files of l have been loaded is one of theirs, or
\* the one selected before, or none.
LEMMA FirstFileType ==
    ASSUME NEW l \in [shas : Diffable, file : File \cup {None}]
    PROVE  FirstFileOrDefault(l) \in File \cup {None}
<1>1. Files[l.shas] \in Seq(File)
  BY SelectionAssumption
<1>2. ASSUME Files[l.shas] # <<>> PROVE Files[l.shas][1] \in File
  <2>1. Len(Files[l.shas]) > 0
    BY <1>1, <1>2
  <2> QED BY <1>1, <2>1
<1> QED BY <1>2 DEF FirstFileOrDefault

\* Selecting a file keeps the types, and shows no diff until git has answered.
LEMMA ChangeFileTyped ==
    ASSUME TypeOK, NEW f \in File, hide' \in BOOLEAN, ChangeFile(f)
    PROVE  file' \in File /\ diff' = None /\ diffs' \subseteq Diff
<1>1. ASSUME shas \in Diffable
      PROVE  [shas |-> shas, file |-> f, hide |-> hide'] \in Diff
  BY <1>1, SelectionAssumption DEF Diff
<1> QED BY <1>1 DEF ChangeFile, TypeOK

LEMMA LoadTyped ==
    ASSUME TypeOK, NEW s, NEW f \in File \cup {None}, Load(s, f)
    PROVE  loads' \subseteq [shas : Diffable, file : File \cup {None}]
BY DEF Load, TypeOK

LEMMA SelectedBegins == Init => SelectedInv
BY DEF Init, SelectedInv, TypeOK, DiffIsOfSelection

\* Every step keeps the types and takes the diff away or leaves it with its
\* commits and its file.
LEMMA SelectedNext ==
    ASSUME SelectedInv, [Next]_vars
    PROVE  SelectedInv'
<1> USE DEF SelectedInv
<1>1. ASSUME NEW s \in Selection, ChangeCommitSelection(s) PROVE SelectedInv'
  BY <1>1 DEF ChangeCommitSelection, Reselect, TypeOK, DiffIsOfSelection
<1>2. ASSUME NEW s \in Diffable, SelectFirstCommit(s) PROVE SelectedInv'
  <2>1. loads' \subseteq [shas : Diffable, file : File \cup {None}]
    BY <1>2, LoadTyped DEF SelectFirstCommit
  <2>2. s \in Selection
    BY SelectionAssumption
  <2> QED
    BY <1>2, <2>1, <2>2 DEF SelectFirstCommit, Reselect, TypeOK, DiffIsOfSelection
<1>3. CASE ClearSelectedCommit
  BY <1>3 DEF ClearSelectedCommit, Reselect, TypeOK, DiffIsOfSelection
<1>4. CASE LoadChangedFiles
  <2>1. loads' \subseteq [shas : Diffable, file : File \cup {None}]
    BY <1>4, LoadTyped DEF LoadChangedFiles, TypeOK
  <2> QED BY <1>4, <2>1 DEF LoadChangedFiles, TypeOK, DiffIsOfSelection
<1>5. CASE SetHideWhitespace
  <2>0. hide' \in BOOLEAN
    BY <1>5 DEF SetHideWhitespace, TypeOK
  <2>1. CASE file # None
    <3>1. file \in File /\ ChangeFile(file)
      BY <1>5, <2>1 DEF SetHideWhitespace, TypeOK
    <3>2. file' = file /\ diff' = None /\ diffs' \subseteq Diff
      BY <2>0, <3>1, ChangeFileTyped DEF ChangeFile
    <3> QED
      BY <1>5, <2>0, <3>2 DEF SetHideWhitespace, TypeOK, DiffIsOfSelection
  <2>2. CASE file = None
    BY <1>5, <2>0, <2>2 DEF SetHideWhitespace, TypeOK, DiffIsOfSelection
  <2> QED BY <2>1, <2>2
<1>6. ASSUME NEW f \in File, ChangeFileSelection(f) PROVE SelectedInv'
  <2>1. hide' \in BOOLEAN /\ ChangeFile(f)
    BY <1>6 DEF ChangeFileSelection, TypeOK
  <2>2. file' \in File /\ diff' = None /\ diffs' \subseteq Diff
    BY <2>1, ChangeFileTyped
  <2> QED
    BY <1>6, <2>1, <2>2 DEF ChangeFileSelection, TypeOK, DiffIsOfSelection
<1>7. ASSUME NEW l \in loads, ChangedFilesLoaded(l) PROVE SelectedInv'
  <2> DEFINE f == FirstFileOrDefault(l)
  <2>1. l \in [shas : Diffable, file : File \cup {None}] /\ l.shas \in Selection
    BY SelectionAssumption DEF TypeOK
  <2>2. f \in File \cup {None}
    BY <2>1, FirstFileType
  <2>3. hide' \in BOOLEAN
    BY <1>7 DEF ChangedFilesLoaded, TypeOK
  <2>4. file' \in File \cup {None} /\ diff' = None /\ diffs' \subseteq Diff
    <3>1. CASE f # None
      <4>1. f \in File /\ ChangeFile(f)
        BY <1>7, <2>2, <3>1 DEF ChangedFilesLoaded
      <4> QED BY <2>3, <4>1, ChangeFileTyped
    <3>2. CASE f = None
      BY <1>7, <3>2 DEF ChangedFilesLoaded, TypeOK
    <3> QED BY <3>1, <3>2
  <2>5. changeset' = l.shas /\ changeset' # None
    BY <1>7, <2>1, SelectionAssumption DEF ChangedFilesLoaded
  <2> HIDE DEF f
  <2> QED
    BY <1>7, <2>1, <2>3, <2>4, <2>5
       DEF ChangedFilesLoaded, TypeOK, DiffIsOfSelection
<1>8. ASSUME NEW d \in diffs, DiffLoaded(d) PROVE SelectedInv'
  BY <1>8 DEF DiffLoaded, TypeOK, DiffIsOfSelection
<1>9. ASSUME NEW l \in loads, LoadFailed(l) PROVE SelectedInv'
  BY <1>9 DEF LoadFailed, TypeOK, DiffIsOfSelection
<1>10. ASSUME NEW d \in diffs, DiffFailed(d) PROVE SelectedInv'
  BY <1>10 DEF DiffFailed, TypeOK, DiffIsOfSelection
<1>11. CASE UNCHANGED vars
  BY <1>11 DEF vars, TypeOK, DiffIsOfSelection
<1> QED
  BY <1>1, <1>2, <1>3, <1>4, <1>5, <1>6, <1>7, <1>8, <1>9, <1>10, <1>11 DEF Next

-----------------------------------------------------------------------------
(* The lines selected.                                                       *)

Representation(s) ==
    /\ s = [default |-> s.default, diverging |-> s.diverging, selectable |-> s.selectable]
    /\ s.default \in {"All", "None"}
    /\ s.selectable # Unknown => s.diverging \subseteq s.selectable

\* The diff that is shown is the one that has said which lines can be selected, if
\* any has since the selection began.
SelectableIsShown ==
    fileDiff # None /\ selection.selectable # Unknown
        => selection.selectable = Partial!Includeable(fileDiff)

ChosenIsSelected == fileDiff # None => chosen = Partial!SelectedRows(fileDiff, selection)

ChosenInv == Representation(selection) /\ SelectableIsShown /\ ChosenIsSelected

-----------------------------------------------------------------------------

\* A selection with a type is what the type says.
LEMMA TypeIsSo ==
    ASSUME NEW s, Representation(s), s.selectable # Unknown
    PROVE  LET selected == {r \in s.selectable : Partial!IsSelected(s, r)}
           IN CASE Partial!SelectionType(s) = "All"  -> selected = s.selectable
                [] Partial!SelectionType(s) = "None" -> selected = {}
                [] OTHER -> selected # {} /\ selected # s.selectable
<1> DEFINE selected == {r \in s.selectable : Partial!IsSelected(s, r)}
<1>1. selected = IF s.default = "All" THEN s.selectable \ s.diverging ELSE s.diverging
  BY DEF Representation, Partial!IsSelected
<1>2. CASE s.diverging = {}
  BY <1>1, <1>2 DEF Partial!SelectionType, Representation
<1>3. CASE s.diverging # {} /\ s.selectable = s.diverging
  BY <1>1, <1>3 DEF Partial!SelectionType, Representation
<1>4. CASE s.diverging # {} /\ s.selectable # s.diverging
  <2>1. Partial!SelectionType(s) = "Partial"
    BY <1>4 DEF Partial!SelectionType
  <2>2. selected # {} /\ selected # s.selectable
    BY <1>1, <1>4 DEF Representation
  <2> QED
    BY <2>1, <2>2
<1> QED
  BY <1>2, <1>3, <1>4

\* Of the lines that can be selected, withRangeSelection selects or clears those in
\* the range and no others, whatever the selection is and however it is represented.
LEMMA RangeIsSelected ==
    ASSUME NEW s, Representation(s), NEW lines, NEW selected \in BOOLEAN
    PROVE  LET t == Partial!WithRangeSelection(s, lines, selected)
           IN /\ Representation(t) /\ t.selectable = s.selectable
              /\ \A r : s.selectable = Unknown \/ r \in s.selectable =>
                    (Partial!IsSelected(t, r) <=>
                        IF r \in lines THEN selected ELSE Partial!IsSelected(s, r))
<1> DEFINE t == Partial!WithRangeSelection(s, lines, selected)
           MayBe(r) == s.selectable = Unknown \/ r \in s.selectable
<1>1. CASE Partial!TypeMatches(Partial!SelectionType(s), selected)
  <2>1. t = s
    BY <1>1 DEF Partial!WithRangeSelection, Partial!TypeMatches
  <2>2. \A r : MayBe(r) => (Partial!IsSelected(s, r) <=> selected)
    BY <1>1 DEF Partial!TypeMatches, Partial!SelectionType, Partial!IsSelected, Representation
  <2> QED
    BY <2>1, <2>2
<1>2. CASE /\ ~Partial!TypeMatches(Partial!SelectionType(s), selected)
           /\ Partial!SelectionType(s) = "Partial"
           /\ Partial!TypeMatches(s.default, selected)
  <2>1. t = [s EXCEPT !.diverging = @ \ lines]
    BY <1>2 DEF Partial!WithRangeSelection
  <2>2. /\ t.default = s.default /\ t.selectable = s.selectable
        /\ t.diverging = s.diverging \ lines
        /\ t = [default |-> t.default, diverging |-> t.diverging, selectable |-> t.selectable]
    BY <2>1 DEF Representation
  <2> QED
    BY <1>2, <2>2 DEF Partial!TypeMatches, Partial!IsSelected, Representation
<1>3. CASE /\ ~Partial!TypeMatches(Partial!SelectionType(s), selected)
           /\ Partial!SelectionType(s) = "Partial"
           /\ ~Partial!TypeMatches(s.default, selected)
  <2>1. t = [s EXCEPT !.diverging = @ \cup Partial!Selectable(s, lines)]
    BY <1>3 DEF Partial!WithRangeSelection
  <2>2. /\ t.default = s.default /\ t.selectable = s.selectable
        /\ t.diverging = s.diverging \cup Partial!Selectable(s, lines)
        /\ t = [default |-> t.default, diverging |-> t.diverging, selectable |-> t.selectable]
    BY <2>1 DEF Representation
  <2> QED
    BY <1>3, <2>2 DEF Partial!TypeMatches, Partial!IsSelected, Representation,
       Partial!Selectable
<1>4. CASE /\ ~Partial!TypeMatches(Partial!SelectionType(s), selected)
           /\ Partial!SelectionType(s) # "Partial"
  <2>1. t = [s EXCEPT !.default = Partial!SelectionType(s),
                        !.diverging = Partial!Selectable(s, lines)]
    BY <1>4 DEF Partial!WithRangeSelection
  <2>2. /\ t.default = Partial!SelectionType(s) /\ t.selectable = s.selectable
        /\ t.diverging = Partial!Selectable(s, lines)
        /\ t = [default |-> t.default, diverging |-> t.diverging, selectable |-> t.selectable]
    BY <2>1 DEF Representation
  <2>3. Partial!SelectionType(s) \in {"All", "None"}
    BY <1>4 DEF Partial!SelectionType, Representation
  <2>4. \A r : MayBe(r) => (Partial!IsSelected(s, r) <=> Partial!SelectionType(s) = "All")
    BY <1>4 DEF Partial!SelectionType, Partial!IsSelected, Representation
  <2> QED
    BY <1>4, <2>2, <2>3, <2>4 DEF Partial!TypeMatches, Partial!IsSelected, Representation,
       Partial!Selectable
<1> QED
  BY <1>1, <1>2, <1>3, <1>4

\* The gestures, and what else chooses lines.
LEMMA SelectingIsChoosing ==
    ASSUME ChosenInv, NEW rows, NEW selected \in BOOLEAN, Partial!SelectLines(rows, selected)
    PROVE  ChosenInv'
<1>1. /\ Representation(selection') /\ selection'.selectable = selection.selectable
      /\ \A r : selection.selectable = Unknown \/ r \in selection.selectable =>
           (Partial!IsSelected(selection', r) <=>
              IF r \in rows THEN selected ELSE Partial!IsSelected(selection, r))
  BY RangeIsSelected DEF Partial!SelectLines, ChosenInv
<1>2. /\ fileDiff # None /\ fileDiff' = fileDiff
      /\ chosen' = IF selected THEN chosen \cup (rows \cap Partial!Includeable(fileDiff))
                            ELSE chosen \ rows
  BY DEF Partial!SelectLines
<1>3. chosen = {r \in Partial!Includeable(fileDiff) : Partial!IsSelected(selection, r)}
  BY <1>2 DEF ChosenInv, ChosenIsSelected, Partial!SelectedRows
<1>4. SelectableIsShown'
  BY <1>1, <1>2 DEF ChosenInv, SelectableIsShown
<1>5. chosen' = {r \in Partial!Includeable(fileDiff) : Partial!IsSelected(selection', r)}
  BY <1>1, <1>2, <1>3 DEF ChosenInv, SelectableIsShown
<1> QED
  BY <1>1, <1>2, <1>4, <1>5 DEF ChosenInv, ChosenIsSelected, Partial!SelectedRows

LEMMA IncludingIsChoosing ==
    ASSUME ChosenInv, NEW include \in BOOLEAN, Partial!IncludeFile(include)
    PROVE  ChosenInv'
<1>1. /\ fileDiff' = fileDiff
      /\ selection' = [selection EXCEPT !.default = IF include THEN "All" ELSE "None",
                                        !.diverging = {}]
      /\ chosen' = IF include /\ fileDiff # None THEN Partial!Includeable(fileDiff) ELSE {}
  BY DEF Partial!IncludeFile, Partial!WithSelectAll, Partial!WithSelectNone
<1>2. /\ selection'.default = IF include THEN "All" ELSE "None"
      /\ selection'.diverging = {} /\ selection'.selectable = selection.selectable
      /\ Representation(selection')
  BY <1>1 DEF ChosenInv, Representation
<1> QED
  BY <1>1, <1>2 DEF ChosenInv, SelectableIsShown, ChosenIsSelected, Partial!SelectedRows,
     Partial!IsSelected

\* A diff that comes, whether it is the one that is shown or another.
LEMMA ShowingKeepsChoice ==
    ASSUME ChosenInv, NEW l, Partial!DiffLoaded(l)
    PROVE  ChosenInv'
<1>1. CASE ~listed
  BY <1>1 DEF Partial!DiffLoaded, ChosenInv, SelectableIsShown, ChosenIsSelected,
     Partial!SelectedRows
<1>2. CASE listed
  <2> DEFINE lines == Partial!Includeable(fileDiff')
  <2>1. /\ selection' = [selection EXCEPT !.diverging = @ \cap lines, !.selectable = lines]
        /\ chosen' = IF fileDiff = fileDiff' THEN chosen
                     ELSE Partial!SelectedRows(fileDiff', selection')
    BY <1>2 DEF Partial!DiffLoaded, Partial!WithSelectableLines
  <2>2. /\ selection'.default = selection.default
        /\ selection'.diverging = selection.diverging \cap lines
        /\ selection'.selectable = lines
        /\ Representation(selection')
    BY <2>1 DEF ChosenInv, Representation
  <2>3. Partial!SelectedRows(fileDiff', selection') = Partial!SelectedRows(fileDiff', selection)
    BY <2>2 DEF Partial!SelectedRows, Partial!IsSelected
  <2>4. ChosenIsSelected'
    BY <2>1, <2>3 DEF ChosenInv, ChosenIsSelected
  <2> QED
    BY <2>2, <2>4 DEF ChosenInv, SelectableIsShown
<1> QED
  BY <1>1, <1>2

\* A status, be it one after a commit that gives up what is left of a selection.
LEMMA RefreshKeepsChoice ==
    ASSUME ChosenInv, NEW clear \in BOOLEAN, Partial!Refreshed(clear)
    PROVE  ChosenInv'
<1>1. \A type \in {"All", "None"} :
         /\ Representation(Partial!FromInitialSelection(type))
         /\ Partial!FromInitialSelection(type).selectable = Unknown
  BY DEF Partial!FromInitialSelection, Representation
<1>2. \/ selection' = selection
      \/ \E type \in {"All", "None"} : selection' = Partial!FromInitialSelection(type)
  BY DEF Partial!Refreshed
<1>3. fileDiff' = fileDiff \/ fileDiff' = None
  BY DEF Partial!Refreshed
<1>4. ChosenIsSelected'
  BY DEF Partial!Refreshed, ChosenInv, ChosenIsSelected
<1> QED
  BY <1>1, <1>2, <1>3, <1>4 DEF ChosenInv, SelectableIsShown

LEMMA ChosenBegins ==
    Partial!Init => ChosenInv
BY DEF Partial!Init, ChosenInv, Representation, Partial!FromInitialSelection,
   SelectableIsShown, ChosenIsSelected

\* One step per action.
LEMMA ChosenNext ==
    ASSUME ChosenInv, [Partial!Next]_Partial!vars
    PROVE  ChosenInv'
<1> USE DEF ChosenInv, SelectableIsShown, ChosenIsSelected
<1>1. CASE Partial!EditFile
  BY <1>1 DEF Partial!EditFile
<1>2. CASE Partial!Commit
  BY <1>2 DEF Partial!Commit
<1>3. CASE Partial!Stage
  BY <1>3 DEF Partial!Stage
<1>4. ASSUME NEW l \in DiffLoad, Partial!StatusLoaded(l)
      PROVE  ChosenInv'
  BY <1>4, RefreshKeepsChoice DEF Partial!StatusLoaded
<1>5. ASSUME NEW l \in DiffLoad, Partial!GitDiff(l)
      PROVE  ChosenInv'
  BY <1>5 DEF Partial!GitDiff
<1>6. ASSUME NEW l \in DiffLoad, Partial!DiffLoaded(l)
      PROVE  ChosenInv'
  BY <1>6, ShowingKeepsChoice
<1>7. ASSUME NEW l \in DiffLoad, Partial!CommitDone(l)
      PROVE  ChosenInv'
  BY <1>7, RefreshKeepsChoice DEF Partial!CommitDone
<1>8. ASSUME NEW include \in BOOLEAN, Partial!IncludeFile(include)
      PROVE  ChosenInv'
  BY <1>8, IncludingIsChoosing
<1>9. ASSUME NEW rows, Partial!DiscardLines(rows)
      PROVE  ChosenInv'
  BY <1>9 DEF Partial!DiscardLines
<1>10. ASSUME NEW rows, NEW selected \in BOOLEAN, Partial!SelectLines(rows, selected)
       PROVE  ChosenInv'
  BY <1>10, SelectingIsChoosing
<1>11. CASE UNCHANGED Partial!vars
  BY <1>11 DEF Partial!vars
<1> QED
  BY <1>1, <1>2, <1>3, <1>4, <1>5, <1>6, <1>7, <1>8, <1>9, <1>10, <1>11 DEF Partial!Next

-----------------------------------------------------------------------------
(* The diff and the patch of a file.                                         *)

\* InOrder and ElementsAt are what InOrder_proofs is about.
LEMMA InOrderIsSo ==
    /\ \A S : Partial!InOrder(S) = InOrder(S)
    /\ \A list, places : Partial!ElementsAt(list, places) = ElementsAt(list, places)
<1>1. ASSUME NEW S PROVE Partial!InOrder(S) = InOrder(S)
  <2>1. \A T : Partial!Cardinality(T) = Cardinality(T)
    BY DEF Partial!Cardinality, Cardinality
  <2>2. ASSUME NEW i PROVE Partial!Rank(S, i) = Rank(S, i)
    BY <2>1 DEF Partial!Rank, Rank
  <2>3. ASSUME NEW n
        PROVE  (CHOOSE i \in S : Partial!Rank(S, i) = n) = CHOOSE i \in S : Rank(S, i) = n
    BY <2>2
  <2> QED BY <2>1, <2>3 DEF Partial!InOrder, InOrder
<1>2. ASSUME NEW list, NEW places
      PROVE  Partial!ElementsAt(list, places) = ElementsAt(list, places)
  BY <1>1 DEF Partial!ElementsAt, ElementsAt
<1> QED BY <1>1, <1>2

AnyScript == Seq(Partial!Entries)

\* A script is finite, and so is any part of it.
LEMMA ScriptIs ==
    ASSUME NEW s \in AnyScript
    PROVE  /\ Len(s) \in Nat /\ DOMAIN s = 1 .. Len(s)
           /\ \A i \in DOMAIN s : s[i] \in Partial!Entries
           /\ IsFiniteSet(DOMAIN s)
           /\ \A S \in SUBSET DOMAIN s : IsFiniteSet(S) /\ S \in SUBSET Int
                                         /\ Cardinality(S) \in Nat
<1>1. /\ Len(s) \in Nat /\ DOMAIN s = 1 .. Len(s)
      /\ \A i \in DOMAIN s : s[i] \in Partial!Entries
  BY DEF AnyScript
<1>2. IsFiniteSet(DOMAIN s)
  BY <1>1, FS_Interval
<1>3. ASSUME NEW S \in SUBSET DOMAIN s
      PROVE  IsFiniteSet(S) /\ S \in SUBSET Int /\ Cardinality(S) \in Nat
  <2>1. IsFiniteSet(S)
    BY <1>2, FS_Subset
  <2> QED BY <1>1, <2>1, FS_CardinalityType
<1> QED BY <1>1, <1>2, <1>3

\* The texts of some entries, in their order.
LEMMA TextsAre ==
    ASSUME NEW s \in AnyScript, NEW S \in SUBSET DOMAIN s
    PROVE  Partial!Texts(s, S) = [n \in 1 .. Cardinality(S) |-> s[InOrder(S)[n]].text]
<1>1. S \in SUBSET Int /\ IsFiniteSet(S)
  BY ScriptIs
<1>2. DOMAIN InOrder(S) = 1 .. Cardinality(S)
  BY <1>1, InOrderLength
<1>3. ElementsAt(s, S) = [n \in 1 .. Cardinality(S) |-> s[InOrder(S)[n]]]
  BY <1>2 DEF ElementsAt
<1> QED BY <1>3, InOrderIsSo DEF Partial!Texts

\* The entries of the file when those of D have been dealt with, and the file git
\* has in hand then.
Reached(From, Out, D) == (From \ D) \cup (Out \cap D)

Image(s, S, D) ==
    [n \in 1 .. Cardinality(S) |->
        [text |-> s[InOrder(S)[n]].text, patched |-> InOrder(S)[n] \in D]]

ImageLine == [text : STRING, patched : BOOLEAN]

\* An image is typed, and its lines are those of the entries in their order.
LEMMA ImageIs ==
    ASSUME NEW s \in AnyScript, NEW S \in SUBSET DOMAIN s, NEW D
    PROVE  /\ Image(s, S, D) \in Seq(ImageLine) /\ Len(Image(s, S, D)) = Cardinality(S)
           /\ Partial!Texts(s, S) \in Seq(STRING) /\ Len(Partial!Texts(s, S)) = Cardinality(S)
           /\ \A n \in 1 .. Cardinality(S) :
                 /\ InOrder(S)[n] \in S
                 /\ Image(s, S, D)[n] = [text |-> s[InOrder(S)[n]].text,
                                         patched |-> InOrder(S)[n] \in D]
                 /\ Partial!Texts(s, S)[n] = s[InOrder(S)[n]].text
<1>1. S \in SUBSET Int /\ IsFiniteSet(S) /\ Cardinality(S) \in Nat
  BY ScriptIs
<1>2. InOrder(S) \in [1 .. Cardinality(S) -> S]
  BY <1>1, InOrderIs
<1>3. \A i \in S : s[i].text \in STRING
  BY ScriptIs DEF Partial!Entries
<1>4. \A n \in 1 .. Cardinality(S) :
        InOrder(S)[n] \in S /\ s[InOrder(S)[n]].text \in STRING
  BY <1>2, <1>3
<1>5. Partial!Texts(s, S) = [n \in 1 .. Cardinality(S) |-> s[InOrder(S)[n]].text]
  BY TextsAre
<1>6. /\ Image(s, S, D) \in [1 .. Cardinality(S) -> ImageLine]
      /\ Partial!Texts(s, S) \in [1 .. Cardinality(S) -> STRING]
  BY <1>4, <1>5 DEF Image, ImageLine
<1>7. /\ Image(s, S, D) \in Seq(ImageLine) /\ Len(Image(s, S, D)) = Cardinality(S)
      /\ Partial!Texts(s, S) \in Seq(STRING) /\ Len(Partial!Texts(s, S)) = Cardinality(S)
  BY <1>1, <1>6
<1> QED BY <1>4, <1>5, <1>7 DEF Image

\* The numbers of A come first, then those of B, then those of C.
OneByOne(S, A, B, C) ==
    /\ Cardinality(A) \in Nat /\ Cardinality(B) \in Nat /\ Cardinality(C) \in Nat
    /\ Cardinality(S) = Cardinality(A) + Cardinality(B) + Cardinality(C)
    /\ \A n \in 1 .. Cardinality(A) : InOrder(S)[n] = InOrder(A)[n]
    /\ \A n \in 1 .. Cardinality(B) : InOrder(S)[Cardinality(A) + n] = InOrder(B)[n]
    /\ \A n \in 1 .. Cardinality(C) :
          InOrder(S)[Cardinality(A) + Cardinality(B) + n] = InOrder(C)[n]

\* Three sets of numbers one above the other.
LEMMA InOrderOfThree ==
    ASSUME NEW A \in SUBSET Int, NEW B \in SUBSET Int, NEW C \in SUBSET Int,
           IsFiniteSet(A), IsFiniteSet(B), IsFiniteSet(C),
           \A i \in A, j \in B : i < j, \A i \in A, j \in C : i < j,
           \A i \in B, j \in C : i < j,
           NEW S, S = A \cup B \cup C
    PROVE  OneByOne(S, A, B, C)
<1>1. Cardinality(A) \in Nat /\ Cardinality(B) \in Nat /\ Cardinality(C) \in Nat
  BY FS_CardinalityType
<1>2. /\ IsFiniteSet(A \cup B) /\ Cardinality(A \cup B) = Cardinality(A) + Cardinality(B)
      /\ \A n \in 1 .. Cardinality(A) : InOrder(A \cup B)[n] = InOrder(A)[n]
      /\ \A n \in 1 .. Cardinality(B) : InOrder(A \cup B)[Cardinality(A) + n] = InOrder(B)[n]
  BY InOrderOfUnion
<1>3. PICK AB : AB = A \cup B
  OBVIOUS
<1>4. AB \in SUBSET Int /\ IsFiniteSet(AB) /\ S = AB \cup C
  BY <1>2, <1>3
<1>5. \A i \in AB, j \in C : i < j
  BY <1>3
<1>6. /\ Cardinality(AB \cup C) = Cardinality(AB) + Cardinality(C)
      /\ \A n \in 1 .. Cardinality(AB) : InOrder(AB \cup C)[n] = InOrder(AB)[n]
      /\ \A n \in 1 .. Cardinality(C) : InOrder(AB \cup C)[Cardinality(AB) + n] = InOrder(C)[n]
  BY <1>4, <1>5, InOrderOfUnion
<1>7. /\ \A n \in 1 .. Cardinality(A) : n \in 1 .. Cardinality(AB)
      /\ \A n \in 1 .. Cardinality(B) : Cardinality(A) + n \in 1 .. Cardinality(AB)
  BY <1>1, <1>2, <1>3
<1> QED BY <1>1, <1>2, <1>3, <1>4, <1>6, <1>7 DEF OneByOne

\* A sequence after another.
LEMMA Joined ==
    ASSUME NEW T, NEW x \in Seq(T), NEW y \in Seq(T)
    PROVE  /\ x \o y \in Seq(T) /\ Len(x \o y) = Len(x) + Len(y)
           /\ \A n \in 1 .. Len(x) : (x \o y)[n] = x[n]
           /\ \A n \in 1 .. Len(y) : (x \o y)[Len(x) + n] = y[n]
<1>1. Len(x) \in Nat /\ Len(y) \in Nat
  OBVIOUS
<1>2. /\ x \o y \in Seq(T) /\ Len(x \o y) = Len(x) + Len(y)
      /\ \A n \in 1 .. Len(x) + Len(y) :
            (x \o y)[n] = IF n <= Len(x) THEN x[n] ELSE y[n - Len(x)]
  BY ConcatProperties
<1>3. ASSUME NEW n \in 1 .. Len(x) PROVE (x \o y)[n] = x[n]
  BY <1>1, <1>2
<1>4. ASSUME NEW n \in 1 .. Len(y) PROVE (x \o y)[Len(x) + n] = y[n]
  <2>1. Len(x) + n \in 1 .. Len(x) + Len(y) /\ ~(Len(x) + n <= Len(x)) /\ Len(x) + n - Len(x) = n
    BY <1>1
  <2> QED BY <1>2, <2>1
<1> QED BY <1>2, <1>3, <1>4

\* A third after the two.
LEMMA JoinedThree ==
    ASSUME NEW T, NEW x \in Seq(T), NEW y \in Seq(T), NEW z \in Seq(T)
    PROVE  /\ x \o y \o z \in Seq(T) /\ Len(x \o y \o z) = Len(x) + Len(y) + Len(z)
           /\ \A n \in 1 .. Len(x) : (x \o y \o z)[n] = x[n]
           /\ \A n \in 1 .. Len(y) : (x \o y \o z)[Len(x) + n] = y[n]
           /\ \A n \in 1 .. Len(z) : (x \o y \o z)[Len(x) + Len(y) + n] = z[n]
<1>1. PICK u : u = x \o y
  OBVIOUS
<1>2. /\ u \in Seq(T) /\ Len(u) = Len(x) + Len(y)
      /\ \A n \in 1 .. Len(x) : u[n] = x[n]
      /\ \A n \in 1 .. Len(y) : u[Len(x) + n] = y[n]
  <2>1. /\ x \o y \in Seq(T) /\ Len(x \o y) = Len(x) + Len(y)
        /\ \A n \in 1 .. Len(x) : (x \o y)[n] = x[n]
        /\ \A n \in 1 .. Len(y) : (x \o y)[Len(x) + n] = y[n]
    BY Joined
  <2> QED BY ONLY <1>1, <2>1
<1> u \in Seq(T)
  BY <1>2
<1>3. /\ u \o z \in Seq(T) /\ Len(u \o z) = Len(u) + Len(z)
      /\ \A n \in 1 .. Len(u) : (u \o z)[n] = u[n]
      /\ \A n \in 1 .. Len(z) : (u \o z)[Len(u) + n] = z[n]
  BY ONLY u \in Seq(T), z \in Seq(T), Joined
<1>4. Len(x) \in Nat /\ Len(y) \in Nat /\ Len(z) \in Nat
  OBVIOUS
<1>5. PICK v : v = u \o z
  OBVIOUS
<1>6. /\ v \in Seq(T) /\ Len(v) = Len(x) + Len(y) + Len(z)
      /\ \A n \in 1 .. Len(x) : v[n] = x[n]
      /\ \A n \in 1 .. Len(y) : v[Len(x) + n] = y[n]
      /\ \A n \in 1 .. Len(z) : v[Len(x) + Len(y) + n] = z[n]
  <2>1. /\ \A n \in 1 .. Len(x) : n \in 1 .. Len(u)
        /\ \A n \in 1 .. Len(y) : Len(x) + n \in 1 .. Len(u)
    BY <1>2, <1>4
  <2>2. /\ v \in Seq(T) /\ Len(v) = Len(u) + Len(z)
        /\ \A n \in 1 .. Len(u) : v[n] = u[n]
        /\ \A n \in 1 .. Len(z) : v[Len(u) + n] = z[n]
    BY ONLY <1>3, <1>5
  <2> QED BY <1>2, <1>4, <2>1, <2>2
<1> QED BY <1>1, <1>5, <1>6

\* Lines a + 1 .. a + b of a file replaced.
IsSpliced(T, image, mid, a, b, t) ==
    /\ t \in Seq(T) /\ Len(t) = Len(image) - b + Len(mid)
    /\ \A n \in 1 .. a : t[n] = image[n]
    /\ \A n \in 1 .. Len(mid) : t[a + n] = mid[n]
    /\ \A n \in 1 .. Len(image) - a - b : t[a + Len(mid) + n] = image[a + b + n]

\* What is before and behind the lines that are replaced stays, in its order.
LEMMA Spliced ==
    ASSUME NEW T, NEW image \in Seq(T), NEW mid \in Seq(T), NEW a \in Nat, NEW b \in Nat,
           a + b <= Len(image),
           NEW t, t = SubSeq(image, 1, a) \o mid \o SubSeq(image, a + b + 1, Len(image))
    PROVE  IsSpliced(T, image, mid, a, b, t)
<1> DEFINE low == SubSeq(image, 1, a)
           high == SubSeq(image, a + b + 1, Len(image))
<1>1. Len(image) \in Nat /\ Len(mid) \in Nat
  OBVIOUS
<1>2. low \in Seq(T) /\ Len(low) = a /\ \A n \in 1 .. a : low[n] = image[n]
  BY <1>1
<1>3. /\ high \in Seq(T) /\ Len(high) = Len(image) - a - b
      /\ \A n \in 1 .. Len(image) - a - b : high[n] = image[a + b + n]
  BY <1>1
<1> HIDE DEF low, high
<1>4. t = low \o mid \o high
  BY DEF low, high
<1> low \in Seq(T) /\ high \in Seq(T)
  BY <1>2, <1>3
<1>5. /\ t \in Seq(T) /\ Len(t) = Len(low) + Len(mid) + Len(high)
      /\ \A n \in 1 .. Len(low) : t[n] = low[n]
      /\ \A n \in 1 .. Len(mid) : t[Len(low) + n] = mid[n]
      /\ \A n \in 1 .. Len(high) : t[Len(low) + Len(mid) + n] = high[n]
  <2>1. /\ low \o mid \o high \in Seq(T)
        /\ Len(low \o mid \o high) = Len(low) + Len(mid) + Len(high)
        /\ \A n \in 1 .. Len(low) : (low \o mid \o high)[n] = low[n]
        /\ \A n \in 1 .. Len(mid) : (low \o mid \o high)[Len(low) + n] = mid[n]
        /\ \A n \in 1 .. Len(high) :
              (low \o mid \o high)[Len(low) + Len(mid) + n] = high[n]
    BY ONLY low \in Seq(T), mid \in Seq(T), high \in Seq(T), JoinedThree
  <2> QED BY ONLY <1>4, <2>1
<1>6. Len(t) = Len(image) - b + Len(mid)
  BY ONLY <1>1, <1>2, <1>3, <1>5, a \in Nat, b \in Nat
<1> QED BY ONLY <1>1, <1>2, <1>3, <1>5, <1>6, a \in Nat, b \in Nat
   DEF IsSpliced

-----------------------------------------------------------------------------
(* One hunk applied.                                                         *)

\* A text that has no line twice.
LEMMA DistinctTexts ==
    ASSUME NEW s \in AnyScript, NEW S \in SUBSET DOMAIN s, Partial!Distinct(Partial!Texts(s, S)),
           NEW i \in S, NEW j \in S, s[i].text = s[j].text
    PROVE  i = j
<1>1. S \in SUBSET Int /\ IsFiniteSet(S)
  BY ScriptIs
<1>2. /\ Rank(S, i) \in 1 .. Cardinality(S) /\ InOrder(S)[Rank(S, i)] = i
      /\ Rank(S, j) \in 1 .. Cardinality(S) /\ InOrder(S)[Rank(S, j)] = j
  BY <1>1, RankType, InOrderIs
<1>3. Partial!Texts(s, S) = [n \in 1 .. Cardinality(S) |-> s[InOrder(S)[n]].text]
  BY TextsAre
<1>4. Rank(S, i) = Rank(S, j)
  BY <1>2, <1>3 DEF Partial!Distinct
<1> QED BY <1>2, <1>4

\* The entries of a file that are before a hunk, in it and after it, and the same
\* when the hunk has been dealt with too.
Parts(From, Out, D, first, last) ==
    LET R == Reached(From, Out, D)
        A == {i \in R : i < first}
        B == From \cap (first .. last)
        C == {i \in R : last < i}
        E == D \cup (first .. last)
    IN /\ R = A \cup B \cup C
       /\ Reached(From, Out, E) = A \cup (Out \cap (first .. last)) \cup C
       /\ \A i \in A : i \in E <=> i \in D
       /\ \A i \in B : i \notin D
       /\ \A i \in C : i \notin E /\ i \notin D

\* A hunk behind all of D divides what has been reached into three.
LEMMA ReachedParts ==
    ASSUME NEW s \in AnyScript, NEW From \in SUBSET DOMAIN s, NEW Out \in SUBSET DOMAIN s,
           NEW first \in 1 .. Len(s), NEW last \in first .. Len(s),
           NEW D \in SUBSET DOMAIN s, \A i \in D : i < first
    PROVE  Parts(From, Out, D, first, last)
<1>1. DOMAIN s = 1 .. Len(s) /\ Len(s) \in Nat
  BY ScriptIs
<1>2. \A i \in DOMAIN s : i \in Int /\ (i < first \/ i \in first .. last \/ last < i)
                          /\ (i < first => i \notin first .. last)
                          /\ (last < i => i \notin first .. last /\ ~ (i < first))
  BY <1>1
<1>3. first .. last \in SUBSET DOMAIN s
  BY <1>1
<1>4. first .. last \cap D = {}
  BY <1>2, <1>3
<1> QED BY <1>2, <1>3, <1>4 DEF Reached, Parts

\* The hunk as the patch has it.
HunkOf(s, From, To, Out, h) ==
    [from |-> Partial!StartLine(h, From), to |-> Partial!StartLine(h, To),
     before |-> Partial!Texts(s, From \cap (h.first .. h.last)),
     after |-> Partial!Texts(s, Out \cap (h.first .. h.last))]

Below(S, first) == Cardinality({i \in S : i < first})

\* A hunk that may come next when those of D have been applied: it is behind them, and
\* a hunk that begins after the first line has a line of context.
IsNext(s, From, To, D, h) ==
    /\ h.first \in 1 .. Len(s) /\ h.last \in h.first .. Len(s)
    /\ \A i \in D : i < h.first
    /\ From \cap (h.first .. h.last) = {} => h.first = 1
    /\ To \cap (h.first .. h.last) = {} => h.first = 1

\* The line in the header of a hunk, where it has a line of that file.
LEMMA StartLineIs ==
    ASSUME NEW s \in AnyScript, NEW S \in SUBSET DOMAIN s, NEW h,
           h.first \in 1 .. Len(s), S \cap (h.first .. h.last) = {} => h.first = 1
    PROVE  /\ Below(S, h.first) \in Nat
           /\ Partial!StartLine(h, S) =
                IF S \cap (h.first .. h.last) = {} THEN 0 ELSE Below(S, h.first) + 1
           /\ S \cap (h.first .. h.last) = {} => Below(S, h.first) = 0
<1> DEFINE low == {i \in S : i < h.first}
<1>1. low \in SUBSET DOMAIN s
  OBVIOUS
<1>2. Cardinality(low) \in Nat
  BY <1>1, ScriptIs
<1>3. h.first = 1 => low = {}
  BY ScriptIs
<1>4. h.first = 1 => Cardinality(low) = 0
  BY <1>3, FS_EmptySet
<1>5. Partial!StartLine(h, S) =
        Cardinality(low) + (IF S \cap (h.first .. h.last) # {} THEN 1 ELSE 0)
  <2>1. \A T : Partial!Cardinality(T) = Cardinality(T)
    BY DEF Partial!Cardinality, Cardinality
  <2> QED BY <2>1 DEF Partial!StartLine
<1> HIDE DEF low
<1> QED BY <1>2, <1>4, <1>5 DEF Below, low

\* In the place of the hunk are its lines.
PlaceIs(s, From, To, Out, D, h) ==
    LET R == Reached(From, Out, D)
        B == From \cap (h.first .. h.last)
    IN /\ Below(R, h.first) \in Nat
       /\ Below(R, h.first) + Cardinality(B) <= Cardinality(R)
       /\ \A n \in 1 .. Cardinality(B) : InOrder(R)[Below(R, h.first) + n] = InOrder(B)[n]
       /\ Partial!Fits(Image(s, R, D), HunkOf(s, From, To, Out, h), Below(R, h.first))

\* A hunk fits behind as many lines as there are before it.
LEMMA RightPlace ==
    ASSUME NEW s \in AnyScript, NEW From \in SUBSET DOMAIN s, NEW To \in SUBSET DOMAIN s,
           NEW Out \in SUBSET DOMAIN s, NEW D \in SUBSET DOMAIN s,
           NEW h, IsNext(s, From, To, D, h)
    PROVE  PlaceIs(s, From, To, Out, D, h)
<1>1. PICK first, last : first = h.first /\ last = h.last
  OBVIOUS
<1>2. /\ first \in 1 .. Len(s) /\ last \in first .. Len(s) /\ \A i \in D : i < first
      /\ From \cap (first .. last) = {} => first = 1
  BY <1>1 DEF IsNext
<1>3. PICK R, A, B, C :
         /\ R = Reached(From, Out, D) /\ B = From \cap (first .. last)
         /\ A = {i \in R : i < first} /\ C = {i \in R : last < i}
  OBVIOUS
<1>4. R = A \cup B \cup C /\ \A i \in B : i \notin D
  <2>1. Parts(From, Out, D, first, last)
    BY <1>2, ReachedParts
  <2> QED BY <1>3, <2>1 DEF Parts
<1>5. /\ R \in SUBSET DOMAIN s /\ A \in SUBSET DOMAIN s
      /\ B \in SUBSET DOMAIN s /\ C \in SUBSET DOMAIN s
  BY <1>3 DEF Reached
<1>6. /\ \A i \in A, j \in B : i < j
      /\ \A i \in A, j \in C : i < j
      /\ \A i \in B, j \in C : i < j
  BY <1>2, <1>3, <1>5, ScriptIs
<1>7. /\ A \in SUBSET Int /\ IsFiniteSet(A)
      /\ B \in SUBSET Int /\ IsFiniteSet(B)
      /\ C \in SUBSET Int /\ IsFiniteSet(C)
  BY <1>5, ScriptIs
<1>8. PICK a, b : a = Cardinality(A) /\ b = Cardinality(B)
  OBVIOUS
<1>9. /\ a \in Nat /\ b \in Nat /\ Cardinality(C) \in Nat
      /\ Cardinality(R) = a + b + Cardinality(C)
      /\ \A n \in 1 .. b : InOrder(R)[a + n] = InOrder(B)[n]
  <2>1. OneByOne(R, A, B, C)
    BY <1>4, <1>6, <1>7, InOrderOfThree
  <2> QED BY ONLY <1>8, <2>1 DEF OneByOne
<1>10. PICK image, hunk : image = Image(s, R, D) /\ hunk = HunkOf(s, From, To, Out, h)
  OBVIOUS
<1>11. /\ Len(image) = Cardinality(R)
       /\ \A n \in 1 .. Cardinality(R) :
             image[n] = [text |-> s[InOrder(R)[n]].text, patched |-> InOrder(R)[n] \in D]
  BY <1>5, <1>10, ImageIs
<1>12. hunk.from = Partial!StartLine(h, From) /\ hunk.before = Partial!Texts(s, B)
  BY <1>1, <1>3, <1>10 DEF HunkOf
<1>13. /\ Len(hunk.before) = b /\ DOMAIN hunk.before = 1 .. b
       /\ \A n \in 1 .. b : InOrder(B)[n] \in B /\ hunk.before[n] = s[InOrder(B)[n]].text
  <2>1. /\ Partial!Texts(s, B) \in Seq(STRING) /\ Len(Partial!Texts(s, B)) = b
        /\ \A n \in 1 .. b : InOrder(B)[n] \in B /\ Partial!Texts(s, B)[n] = s[InOrder(B)[n]].text
    BY <1>5, <1>8, ImageIs
  <2> QED BY ONLY <1>12, <2>1
<1>14. a = Below(R, h.first)
  BY <1>1, <1>3, <1>8 DEF Below
<1>15. hunk.from = 0 => a = 0
  <2>1. Partial!StartLine(h, From) = 0 => h.first = 1
    <3>1. /\ Below(From, h.first) \in Nat
          /\ Partial!StartLine(h, From) =
                IF From \cap (h.first .. h.last) = {} THEN 0 ELSE Below(From, h.first) + 1
      BY StartLineIs DEF IsNext
    <3> QED BY ONLY <3>1, <1>1, <1>2
  <2>2. first = 1 => A = {}
    BY <1>3, <1>5, ScriptIs
  <2>3. A = {} => a = 0
    BY <1>8, FS_EmptySet
  <2> QED BY <1>1, <1>12, <2>1, <2>2, <2>3
<1>16. \A n \in 1 .. b : /\ a + n \in 1 .. Cardinality(R)
                         /\ ~ image[a + n].patched /\ image[a + n].text = hunk.before[n]
  <2> TAKE n \in 1 .. b
  <2>1. a + n \in 1 .. Cardinality(R)
    BY ONLY <1>9, n \in 1 .. b
  <2>2. InOrder(R)[a + n] = InOrder(B)[n] /\ InOrder(B)[n] \in B
    BY <1>9, <1>13
  <2>3. image[a + n] = [text |-> s[InOrder(B)[n]].text, patched |-> InOrder(B)[n] \in D]
    BY <1>11, <2>1, <2>2
  <2>4. InOrder(B)[n] \notin D
    BY <1>4, <2>2
  <2>5. image[a + n].patched = (InOrder(B)[n] \in D) /\ image[a + n].text = s[InOrder(B)[n]].text
    BY ONLY <2>3
  <2> QED BY ONLY <1>13, <2>1, <2>4, <2>5, n \in 1 .. b
<1>17. a + b <= Cardinality(R)
  BY ONLY <1>9
<1>18. Partial!Fits(image, hunk, a)
  BY ONLY <1>9, <1>11, <1>13, <1>15, <1>16, <1>17 DEF Partial!Fits
<1> QED BY ONLY <1>1, <1>3, <1>8, <1>9, <1>10, <1>14, <1>17, <1>18 DEF PlaceIs

\* Where all lines differ it fits nowhere else.
LEMMA OnlyPlace ==
    ASSUME NEW s \in AnyScript, NEW From \in SUBSET DOMAIN s, NEW To \in SUBSET DOMAIN s,
           NEW Out \in SUBSET DOMAIN s, NEW D \in SUBSET DOMAIN s,
           NEW h, IsNext(s, From, To, D, h), Partial!Distinct(Partial!Texts(s, From)),
           NEW R, R = Reached(From, Out, D), NEW p,
           p \in Partial!Places(Image(s, R, D), HunkOf(s, From, To, Out, h))
    PROVE  p = Below(R, h.first)
<1>1. PICK first, last, B, b, image, hunk, a :
         /\ first = h.first /\ last = h.last /\ B = From \cap (first .. last)
         /\ b = Cardinality(B) /\ image = Image(s, R, D)
         /\ hunk = HunkOf(s, From, To, Out, h) /\ a = Below(R, first)
  OBVIOUS
<1>2. first \in 1 .. Len(s) /\ (B = {} => first = 1)
  BY <1>1 DEF IsNext
<1>3. /\ a \in Nat /\ a + b <= Cardinality(R)
      /\ \A n \in 1 .. b : InOrder(R)[a + n] = InOrder(B)[n]
  <2>1. PlaceIs(s, From, To, Out, D, h)
    BY RightPlace
  <2> QED BY ONLY <1>1, <2>1, R = Reached(From, Out, D) DEF PlaceIs
<1>4. R \in SUBSET DOMAIN s /\ B \in SUBSET DOMAIN s
  BY <1>1 DEF Reached
<1>5. /\ Len(image) = Cardinality(R)
      /\ \A n \in 1 .. Cardinality(R) :
            /\ InOrder(R)[n] \in R
            /\ image[n] = [text |-> s[InOrder(R)[n]].text, patched |-> InOrder(R)[n] \in D]
  BY <1>1, <1>4, ImageIs
<1>6. hunk.from = Partial!StartLine(h, From) /\ hunk.before = Partial!Texts(s, B)
  BY <1>1 DEF HunkOf
<1>7. /\ Len(hunk.before) = b /\ DOMAIN hunk.before = 1 .. b /\ b \in Nat
      /\ \A n \in 1 .. b : InOrder(B)[n] \in B /\ hunk.before[n] = s[InOrder(B)[n]].text
  <2>1. /\ Partial!Texts(s, B) \in Seq(STRING) /\ Len(Partial!Texts(s, B)) = b
        /\ \A n \in 1 .. b : InOrder(B)[n] \in B /\ Partial!Texts(s, B)[n] = s[InOrder(B)[n]].text
    BY <1>1, <1>4, ImageIs
  <2>2. b \in Nat
    BY <1>1, <1>4, ScriptIs
  <2> QED BY ONLY <1>6, <2>1, <2>2
<1>8. /\ p \in 0 .. Len(image)
      /\ hunk.from = 0 => p = 0
      /\ p + b <= Len(image)
      /\ \A n \in 1 .. b : ~ image[p + n].patched /\ image[p + n].text = hunk.before[n]
  <2>1. p \in Partial!Places(image, hunk)
    BY <1>1
  <2> QED BY ONLY <1>7, <2>1 DEF Partial!Places, Partial!Fits
<1>9. Cardinality(R) \in Nat
  BY <1>4, ScriptIs
<1>10. CASE B = {}
  <2>1. /\ Partial!StartLine(h, From) =
                IF From \cap (h.first .. h.last) = {} THEN 0 ELSE Below(From, h.first) + 1
    BY StartLineIs DEF IsNext
  <2>2. p = 0
    BY ONLY <1>1, <1>6, <1>8, <1>10, <2>1
  <2>3. {i \in R : i < first} = {}
    BY <1>2, <1>4, <1>10, ScriptIs
  <2>4. a = 0
    BY <1>1, <2>3, FS_EmptySet DEF Below
  <2> QED BY <1>1, <2>2, <2>4
<1>11. CASE B # {}
  <2>1. b # 0
    BY <1>1, <1>4, <1>11, ScriptIs, FS_EmptySet
  <2>2. 1 \in 1 .. b /\ p + 1 \in 1 .. Cardinality(R) /\ a + 1 \in 1 .. Cardinality(R)
    BY ONLY <1>3, <1>5, <1>7, <1>8, <1>9, <2>1
  <2>3. PICK e, f : e = InOrder(R)[p + 1] /\ f = InOrder(B)[1]
    OBVIOUS
  <2>4. image[p + 1] = [text |-> s[e].text, patched |-> e \in D] /\ e \in R
    BY <1>5, <2>2, <2>3
  <2>5. image[p + 1].patched = (e \in D) /\ image[p + 1].text = s[e].text
    BY ONLY <2>4
  <2>6. hunk.before[1] = s[f].text /\ f \in B /\ InOrder(R)[a + 1] = f
    BY <1>3, <1>7, <2>2, <2>3
  <2>7. ~ image[p + 1].patched /\ image[p + 1].text = hunk.before[1]
    BY <1>8, <2>2
  <2>8. e \notin D /\ s[e].text = s[f].text
    BY ONLY <2>5, <2>6, <2>7
  <2>9. e \in From /\ f \in From
    BY <1>1, <2>4, <2>6, <2>8 DEF Reached
  <2>10. e = f
    BY <2>8, <2>9, DistinctTexts
  <2>11. \A n \in 1 .. Cardinality(R) : Rank(R, InOrder(R)[n]) = n
    BY <1>4, ScriptIs, InOrderIs
  <2>12. p + 1 = a + 1
    BY ONLY <2>2, <2>3, <2>6, <2>10, <2>11
  <2> QED BY ONLY <1>1, <1>3, <1>8, <1>5, <1>9, <2>12
<1> QED BY <1>10, <1>11

\* The place git takes.
GitFinds(wanted, places) ==
    CHOOSE p \in places : \A q \in places : Partial!Nearer(wanted, p, q)

\* Git finds the right place: it is the only one, or the one where it looks first.
LEMMA PlaceIsFound ==
    ASSUME NEW s \in AnyScript, NEW From \in SUBSET DOMAIN s, NEW To \in SUBSET DOMAIN s,
           NEW Out \in SUBSET DOMAIN s, NEW D \in SUBSET DOMAIN s,
           NEW h, IsNext(s, From, To, D, h),
           NEW R, R = Reached(From, Out, D),
           \/ Partial!Distinct(Partial!Texts(s, From))
           \/ Below(R, h.first) = Below(To, h.first),
           NEW hunk, hunk = HunkOf(s, From, To, Out, h),
           NEW places, places = Partial!Places(Image(s, R, D), hunk),
           NEW wanted, wanted = IF hunk.to = 0 THEN 0 ELSE hunk.to - 1
    PROVE  /\ Below(R, h.first) \in places
           /\ GitFinds(wanted, places) = Below(R, h.first)
<1>1. PICK a : a = Below(R, h.first)
  OBVIOUS
<1>2. a \in Nat /\ a <= Cardinality(R) /\ Partial!Fits(Image(s, R, D), hunk, a)
  <2>1. PlaceIs(s, From, To, Out, D, h)
    BY RightPlace
  <2>2. \A B \in SUBSET DOMAIN s : Cardinality(B) \in Nat
    BY ScriptIs
  <2>3. R \in SUBSET DOMAIN s /\ From \cap (h.first .. h.last) \in SUBSET DOMAIN s
    BY DEF Reached
  <2> QED BY <1>1, <2>1, <2>2, <2>3 DEF PlaceIs
<1>3. Len(Image(s, R, D)) = Cardinality(R) /\ Cardinality(R) \in Nat
  <2>1. R \in SUBSET DOMAIN s
    BY DEF Reached
  <2> QED BY <2>1, ImageIs, ScriptIs
<1>4. a \in places /\ places \in SUBSET Nat
  BY ONLY <1>2, <1>3, places = Partial!Places(Image(s, R, D), hunk) DEF Partial!Places
<1>5. /\ Below(To, h.first) \in Nat
      /\ hunk.to = IF To \cap (h.first .. h.last) = {} THEN 0 ELSE Below(To, h.first) + 1
      /\ To \cap (h.first .. h.last) = {} => Below(To, h.first) = 0
  <2>1. hunk.to = Partial!StartLine(h, To)
    BY DEF HunkOf
  <2> QED BY <2>1, StartLineIs DEF IsNext
<1>6. wanted = Below(To, h.first) /\ wanted \in Nat
  BY ONLY <1>5, wanted = IF hunk.to = 0 THEN 0 ELSE hunk.to - 1
<1>7. CASE Partial!Distinct(Partial!Texts(s, From))
  <2>1. \A p \in places : p = a
    BY <1>1, <1>7, OnlyPlace
  <2>2. places = {a}
    BY <1>4, <2>1
  <2>3. \A q \in places : Partial!Nearer(wanted, a, q)
    BY ONLY <1>2, <1>6, <2>2 DEF Partial!Nearer
  <2> QED BY <1>1, <1>4, <2>1, <2>3 DEF GitFinds
<1>8. CASE a = Below(To, h.first)
  <2>1. \A q \in places : Partial!Nearer(wanted, a, q)
    BY ONLY <1>2, <1>4, <1>6, <1>8 DEF Partial!Nearer
  <2>2. \A p \in places : Partial!Nearer(wanted, p, a) => p = a
    BY ONLY <1>2, <1>4, <1>6, <1>8 DEF Partial!Nearer
  <2> DEFINE best(p) == \A q \in places : Partial!Nearer(wanted, p, q)
  <2>3. \E p \in places : best(p)
    BY <1>4, <2>1
  <2>4. \A p \in places : best(p) => p = a
    BY <1>4, <2>2
  <2> HIDE DEF best
  <2>5. (CHOOSE p \in places : best(p)) = a
    BY <2>3, <2>4
  <2> QED BY <1>1, <1>4, <2>5 DEF best, GitFinds
<1> QED BY <1>1, <1>7, <1>8

\* The hunk applied: git has in hand what it should.
IsApplied(s, From, To, Out, D, h) ==
    LET R == Reached(From, Out, D)
        E == D \cup (h.first .. h.last)
        hunk == HunkOf(s, From, To, Out, h)
    IN /\ Partial!Places(Image(s, R, D), hunk) # {}
       /\ Partial!ApplyHunk(Image(s, R, D), hunk) = Image(s, Reached(From, Out, E), E)

\* Putting the hunk there is dealing with its entries.
LEMMA HunkApplied ==
    ASSUME NEW s \in AnyScript, NEW From \in SUBSET DOMAIN s, NEW To \in SUBSET DOMAIN s,
           NEW Out \in SUBSET DOMAIN s, NEW D \in SUBSET DOMAIN s,
           NEW h, IsNext(s, From, To, D, h),
           \/ Partial!Distinct(Partial!Texts(s, From))
           \/ Below(Reached(From, Out, D), h.first) = Below(To, h.first)
    PROVE  IsApplied(s, From, To, Out, D, h)
<1>1. PICK first, last, hunk, R, A, B, C, O, E, S, image :
         /\ first = h.first /\ last = h.last /\ hunk = HunkOf(s, From, To, Out, h)
         /\ R = Reached(From, Out, D) /\ B = From \cap (first .. last)
         /\ A = {i \in R : i < first} /\ C = {i \in R : last < i}
         /\ O = Out \cap (first .. last) /\ E = D \cup (first .. last)
         /\ S = Reached(From, Out, E) /\ image = Image(s, R, D)
  OBVIOUS
<1>2. /\ first \in 1 .. Len(s) /\ last \in first .. Len(s) /\ \A i \in D : i < first
  BY <1>1 DEF IsNext
<1>3. /\ R = A \cup B \cup C /\ S = A \cup O \cup C
      /\ \A i \in A : i \in E <=> i \in D
      /\ \A i \in O : i \in E
      /\ \A i \in C : i \notin E /\ i \notin D
  <2>1. Parts(From, Out, D, first, last)
    BY <1>2, ReachedParts
  <2> QED BY ONLY <1>1, <2>1 DEF Parts
<1>4. /\ R \in SUBSET DOMAIN s /\ A \in SUBSET DOMAIN s /\ B \in SUBSET DOMAIN s
      /\ C \in SUBSET DOMAIN s /\ O \in SUBSET DOMAIN s /\ S \in SUBSET DOMAIN s
  <2>1. R \in SUBSET DOMAIN s /\ O \in SUBSET DOMAIN s /\ B \in SUBSET DOMAIN s
    BY <1>1 DEF Reached
  <2> QED BY <1>3, <2>1
<1>5. /\ \A i \in A, j \in B : i < j
      /\ \A i \in A, j \in O : i < j
      /\ \A i \in A, j \in C : i < j
      /\ \A i \in B, j \in C : i < j
      /\ \A i \in O, j \in C : i < j
  <2>1. \A i \in DOMAIN s : i \in Int
    BY ScriptIs
  <2> QED BY ONLY <1>1, <1>2, <1>4, <2>1
<1>6. OneByOne(R, A, B, C) /\ OneByOne(S, A, O, C)
  <2>1. /\ A \in SUBSET Int /\ IsFiniteSet(A)
        /\ B \in SUBSET Int /\ IsFiniteSet(B)
        /\ C \in SUBSET Int /\ IsFiniteSet(C)
        /\ O \in SUBSET Int /\ IsFiniteSet(O)
    BY <1>4, ScriptIs
  <2>2. OneByOne(R, A, B, C)
    BY ONLY <1>3, <1>5, <2>1, InOrderOfThree
  <2>3. OneByOne(S, A, O, C)
    BY ONLY <1>3, <1>5, <2>1, InOrderOfThree
  <2> QED BY <2>2, <2>3
<1>7. PICK a, b, c, o :
         a = Cardinality(A) /\ b = Cardinality(B) /\ c = Cardinality(C) /\ o = Cardinality(O)
  OBVIOUS
<1>8. /\ a \in Nat /\ b \in Nat /\ c \in Nat /\ o \in Nat
      /\ Cardinality(R) = a + b + c /\ Cardinality(S) = a + o + c
      /\ \A n \in 1 .. a : InOrder(R)[n] = InOrder(A)[n] /\ InOrder(S)[n] = InOrder(A)[n]
      /\ \A n \in 1 .. o : InOrder(S)[a + n] = InOrder(O)[n]
      /\ \A n \in 1 .. c : /\ InOrder(R)[a + b + n] = InOrder(C)[n]
                           /\ InOrder(S)[a + o + n] = InOrder(C)[n]
  BY ONLY <1>6, <1>7 DEF OneByOne
<1>9. /\ \A n \in 1 .. a : InOrder(A)[n] \in A
      /\ \A n \in 1 .. o : InOrder(O)[n] \in O
      /\ \A n \in 1 .. c : InOrder(C)[n] \in C
  BY <1>4, <1>7, ImageIs
<1>10. a = Below(R, h.first)
  BY <1>1, <1>7 DEF Below
<1>11. PICK places, wanted :
          /\ places = Partial!Places(image, hunk)
          /\ wanted = IF hunk.to = 0 THEN 0 ELSE hunk.to - 1
  OBVIOUS
<1>12. a \in places /\ GitFinds(wanted, places) = a
  <2>1. \/ Partial!Distinct(Partial!Texts(s, From))
        \/ Below(R, h.first) = Below(To, h.first)
    BY <1>1
  <2>2. R = Reached(From, Out, D) /\ hunk = HunkOf(s, From, To, Out, h)
        /\ places = Partial!Places(Image(s, R, D), hunk)
    BY <1>1, <1>11
  <2>3. Below(R, h.first) \in places /\ GitFinds(wanted, places) = Below(R, h.first)
    BY ONLY <1>11, <2>1, <2>2, PlaceIsFound, s \in AnyScript, From \in SUBSET DOMAIN s,
       To \in SUBSET DOMAIN s, Out \in SUBSET DOMAIN s, D \in SUBSET DOMAIN s,
       IsNext(s, From, To, D, h)
  <2> QED BY <1>10, <2>3
<1>13. /\ Len(hunk.before) = b /\ hunk.after = Partial!Texts(s, O)
       /\ Len(hunk.after) = o /\ hunk.after \in Seq(STRING)
       /\ \A n \in 1 .. o : hunk.after[n] = s[InOrder(O)[n]].text
  <2>1. hunk.before = Partial!Texts(s, B) /\ hunk.after = Partial!Texts(s, O)
    BY <1>1 DEF HunkOf
  <2>2. Len(Partial!Texts(s, B)) = b
    BY <1>4, <1>7, ImageIs
  <2>3. /\ Partial!Texts(s, O) \in Seq(STRING) /\ Len(Partial!Texts(s, O)) = o
        /\ \A n \in 1 .. o : Partial!Texts(s, O)[n] = s[InOrder(O)[n]].text
    BY <1>4, <1>7, ImageIs
  <2> QED BY ONLY <2>1, <2>2, <2>3
<1>14. PICK mid, t :
          /\ mid = [n \in DOMAIN hunk.after |-> [text |-> hunk.after[n], patched |-> TRUE]]
          /\ t = Partial!ApplyHunk(image, hunk)
  OBVIOUS
<1>15. t = SubSeq(image, 1, a) \o mid \o SubSeq(image, a + b + 1, Len(image))
  BY ONLY <1>11, <1>12, <1>13, <1>14 DEF Partial!ApplyHunk, GitFinds
<1>16. /\ mid \in Seq(ImageLine) /\ Len(mid) = o
       /\ \A n \in 1 .. o : mid[n] = [text |-> s[InOrder(O)[n]].text, patched |-> TRUE]
  <2>1. DOMAIN hunk.after = 1 .. o /\ \A n \in 1 .. o : hunk.after[n] \in STRING
    BY ONLY <1>13, <1>8
  <2>2. mid \in [1 .. o -> ImageLine]
    BY ONLY <1>14, <2>1 DEF ImageLine
  <2>3. mid \in Seq(ImageLine) /\ Len(mid) = o
    BY ONLY <2>2, <1>8
  <2> QED BY ONLY <1>13, <1>14, <2>1, <2>3
<1>17. /\ image \in Seq(ImageLine) /\ Len(image) = a + b + c
       /\ \A n \in 1 .. a + b + c :
             image[n] = [text |-> s[InOrder(R)[n]].text, patched |-> InOrder(R)[n] \in D]
  BY <1>1, <1>4, <1>8, ImageIs
<1>18. PICK z : z = Image(s, S, E)
  OBVIOUS
<1>19. /\ z \in Seq(ImageLine) /\ Len(z) = a + o + c
       /\ \A n \in 1 .. a + o + c :
             z[n] = [text |-> s[InOrder(S)[n]].text, patched |-> InOrder(S)[n] \in E]
  <2>1. /\ z \in Seq(ImageLine) /\ Len(z) = Cardinality(S)
        /\ \A n \in 1 .. Cardinality(S) :
              z[n] = [text |-> s[InOrder(S)[n]].text, patched |-> InOrder(S)[n] \in E]
    BY <1>4, <1>18, ImageIs
  <2> QED BY ONLY <1>8, <2>1
<1>20. /\ t \in Seq(ImageLine) /\ Len(t) = a + b + c - b + o
       /\ \A n \in 1 .. a : t[n] = image[n]
       /\ \A n \in 1 .. o : t[a + n] = mid[n]
       /\ \A n \in 1 .. a + b + c - a - b : t[a + o + n] = image[a + b + n]
  <2>1. image \in Seq(ImageLine) /\ mid \in Seq(ImageLine) /\ a \in Nat /\ b \in Nat
        /\ a + b <= Len(image)
    BY ONLY <1>8, <1>16, <1>17
  <2>2. IsSpliced(ImageLine, image, mid, a, b, t)
    BY ONLY <1>15, <2>1, Spliced
  <2> QED BY ONLY <1>8, <1>16, <1>17, <2>2 DEF IsSpliced
<1>21. \A n \in 1 .. a : t[n] = z[n]
  <2> TAKE n \in 1 .. a
  <2>1. n \in 1 .. a + b + c /\ n \in 1 .. a + o + c
    BY ONLY <1>8, n \in 1 .. a
  <2>2. InOrder(R)[n] = InOrder(S)[n] /\ (InOrder(R)[n] \in D <=> InOrder(S)[n] \in E)
    BY <1>3, <1>8, <1>9
  <2> QED BY <1>17, <1>19, <1>20, <2>1, <2>2
<1>22. \A n \in 1 .. o : t[a + n] = z[a + n]
  <2> TAKE n \in 1 .. o
  <2>1. a + n \in 1 .. a + o + c
    BY ONLY <1>8, n \in 1 .. o
  <2>2. InOrder(S)[a + n] = InOrder(O)[n] /\ InOrder(S)[a + n] \in E
    BY <1>3, <1>8, <1>9
  <2> QED BY <1>16, <1>19, <1>20, <2>1, <2>2
<1>23. \A n \in 1 .. c : t[a + o + n] = z[a + o + n]
  <2> TAKE n \in 1 .. c
  <2>1. /\ a + o + n \in 1 .. a + o + c /\ a + b + n \in 1 .. a + b + c
        /\ n \in 1 .. a + b + c - a - b
    BY ONLY <1>8, n \in 1 .. c
  <2>2. /\ InOrder(R)[a + b + n] = InOrder(S)[a + o + n]
        /\ InOrder(R)[a + b + n] \notin D /\ InOrder(S)[a + o + n] \notin E
    BY <1>3, <1>8, <1>9
  <2> QED BY <1>17, <1>19, <1>20, <2>1, <2>2
<1>24. \A n \in 1 .. a + o + c : t[n] = z[n]
  <2> TAKE n \in 1 .. a + o + c
  <2>1. CASE n <= a
    BY ONLY <1>8, <1>21, <2>1, n \in 1 .. a + o + c
  <2>2. CASE a < n /\ n <= a + o
    <3>1. n - a \in 1 .. o /\ a + (n - a) = n
      BY ONLY <1>8, <2>2, n \in 1 .. a + o + c
    <3> QED BY <1>22, <3>1
  <2>3. CASE a + o < n
    <3>1. n - a - o \in 1 .. c /\ a + o + (n - a - o) = n
      BY ONLY <1>8, <2>3, n \in 1 .. a + o + c
    <3> QED BY <1>23, <3>1
  <2> QED BY ONLY <1>8, <2>1, <2>2, <2>3, n \in 1 .. a + o + c
<1>25. t = z
  <2>1. Len(t) = a + o + c
    BY ONLY <1>8, <1>20
  <2> QED BY ONLY <1>19, <1>20, <1>24, <2>1
<1> QED BY ONLY <1>1, <1>11, <1>12, <1>14, <1>18, <1>25 DEF IsApplied

\* A set of numbers has a least one.
LEMMA LeastIs ==
    ASSUME NEW S \in SUBSET Nat, S # {}
    PROVE  \E x \in S : \A y \in S : x <= y
<1> DEFINE R == OpToRel(<, Nat)
<1>1. IsWellFoundedOn(R, Nat)
  BY NatLessThanWellFounded, Zenon
<1>2. R = {p \in Nat \X Nat : p[1] < p[2]}
  BY DEF OpToRel
<1> HIDE DEF R
<1>3. PICK x \in S : \A y \in S : ~ (<<y, x>> \in R)
  BY <1>1, WFMin
<1>4. ASSUME NEW y \in S PROVE x <= y
  <2>1. x \in Nat /\ y \in Nat
    OBVIOUS
  <2>2. y < x => <<y, x>> \in R
    BY <1>2, <2>1
  <2> QED BY <1>3, <2>1, <2>2
<1> QED BY <1>4

-----------------------------------------------------------------------------
(* Hunk by hunk.                                                             *)

\* The lines of the first n hunks.
InHunks(w, n) == UNION {w[m].first .. w[m].last : m \in 1 .. n}

\* The hunks of a patch, one behind the other; a hunk that begins after the first line
\* has a line of context; and what the patch changes is in a hunk.
AreHunks(s, From, To, Out, w, N) ==
    /\ \A n \in 1 .. N :
          /\ w[n].first \in 1 .. Len(s) /\ w[n].last \in w[n].first .. Len(s)
          /\ From \cap (w[n].first .. w[n].last) = {} => w[n].first = 1
          /\ To \cap (w[n].first .. w[n].last) = {} => w[n].first = 1
    /\ \A m, n \in 1 .. N : m < n => w[m].last < w[n].first
    /\ \A i \in DOMAIN s : (i \in Out) # (i \in From) =>
          \E n \in 1 .. N : i \in w[n].first .. w[n].last

\* A hunk's turn comes.
TurnIs(s, From, To, Out, w, n, D) ==
    /\ D \in SUBSET DOMAIN s /\ IsNext(s, From, To, D, w[n])
    /\ InHunks(w, n) = D \cup (w[n].first .. w[n].last)
    /\ Below(Reached(From, Out, D), w[n].first) = Below(Out, w[n].first)

\* When the hunks before it have been dealt with, a hunk may come next.
LEMMA TurnComes ==
    ASSUME NEW s \in AnyScript, NEW From \in SUBSET DOMAIN s, NEW To \in SUBSET DOMAIN s,
           NEW Out \in SUBSET DOMAIN s, NEW N \in Nat, NEW w,
           AreHunks(s, From, To, Out, w, N), NEW n \in 1 .. N,
           NEW D, D = InHunks(w, n - 1)
    PROVE  TurnIs(s, From, To, Out, w, n, D)
<1>1. /\ \A k \in 1 .. N : w[k].first \in 1 .. Len(s) /\ w[k].last \in w[k].first .. Len(s)
      /\ \A k, m \in 1 .. N : k < m => w[k].last < w[m].first
      /\ \A i \in DOMAIN s : (i \in Out) # (i \in From) =>
            \E k \in 1 .. N : i \in w[k].first .. w[k].last
      /\ From \cap (w[n].first .. w[n].last) = {} => w[n].first = 1
      /\ To \cap (w[n].first .. w[n].last) = {} => w[n].first = 1
  BY DEF AreHunks
<1>2. DOMAIN s = 1 .. Len(s) /\ Len(s) \in Nat
  BY ScriptIs
<1>3. \A i : i \in D <=> \E m \in 1 .. n - 1 : i \in w[m].first .. w[m].last
  BY DEF InHunks
<1>4. \A m \in 1 .. n - 1 : m \in 1 .. N /\ m < n
  OBVIOUS
<1>5. \A m \in 1 .. n : m \in 1 .. n - 1 \/ m = n
  OBVIOUS
<1>6. ASSUME NEW i \in D PROVE i \in DOMAIN s /\ i < w[n].first
  <2>1. PICK m \in 1 .. n - 1 : i \in w[m].first .. w[m].last
    BY <1>3
  <2>2. m \in 1 .. N /\ m < n
    BY <1>4
  <2>3. PICK first, last, next :
           first = w[m].first /\ last = w[m].last /\ next = w[n].first
    OBVIOUS
  <2>4. /\ first \in 1 .. Len(s) /\ last \in first .. Len(s)
        /\ next \in 1 .. Len(s) /\ last < next
    BY ONLY <1>1, <2>2, <2>3, n \in 1 .. N
  <2>5. i \in first .. last
    BY <2>1, <2>3
  <2>6. i \in DOMAIN s /\ i < next
    BY ONLY <1>2, <2>4, <2>5
  <2> QED BY <2>3, <2>6
<1>7. D \in SUBSET DOMAIN s /\ \A i \in D : i < w[n].first
  BY <1>6
<1>8. InHunks(w, n) = D \cup (w[n].first .. w[n].last)
  <2>1. \A i : i \in InHunks(w, n) <=> \E m \in 1 .. n : i \in w[m].first .. w[m].last
    BY DEF InHunks
  <2>2. \A m \in 1 .. n - 1 : m \in 1 .. n
    OBVIOUS
  <2>3. n \in 1 .. n
    OBVIOUS
  <2> QED BY ONLY <1>3, <1>5, <2>1, <2>2, <2>3
<1>9. {i \in Reached(From, Out, D) : i < w[n].first} = {i \in Out : i < w[n].first}
  <2>1. ASSUME NEW i \in DOMAIN s, i < w[n].first, i \notin D
        PROVE  i \in Out <=> i \in From
    <3>1. ASSUME NEW m \in 1 .. N, i \in w[m].first .. w[m].last PROVE FALSE
      <4>1. m < n \/ m = n \/ n < m
        BY n \in 1 .. N
      <4>2. CASE m < n
        <5>1. m \in 1 .. n - 1
          BY <4>2, n \in 1 .. N
        <5> QED BY <1>3, <2>1, <3>1, <5>1
      <4>3. CASE m = n
        BY ONLY <1>1, <1>2, <2>1, <3>1, <4>3, n \in 1 .. N
      <4>4. CASE n < m
        <5>1. w[n].last < w[m].first
          BY <1>1, <4>4
        <5> QED BY ONLY <1>1, <1>2, <2>1, <3>1, <5>1, n \in 1 .. N
      <4> QED BY <4>1, <4>2, <4>3, <4>4
    <3> QED BY <1>1, <3>1
  <2> QED BY <2>1 DEF Reached
<1> QED BY <1>1, <1>7, <1>8, <1>9 DEF IsNext, Below, TurnIs

\* What git has in hand after each hunk.
ImagesOf(text, patch) ==
    CHOOSE g : g = [n \in 0 .. Len(patch) |->
                      IF n = 0
                        THEN [k \in DOMAIN text |-> [text |-> text[k], patched |-> FALSE]]
                        ELSE Partial!ApplyHunk(g[n - 1], patch[n])]

Outcome(g, patch) ==
    IF \E n \in DOMAIN patch : Partial!Places(g[n - 1], patch[n]) = {} THEN Rejected
    ELSE [n \in DOMAIN g[Len(patch)] |-> g[Len(patch)][n].text]

\* Apply with its local definitions named.
LEMMA ApplyIs ==
    \A text, patch : Partial!Apply(text, patch) = Outcome(ImagesOf(text, patch), patch)
BY DEF Partial!Apply, ImagesOf, Outcome

\* They are what each hunk makes of the one before.
AreImages(text, patch, f, N) == \A n \in 0 .. N : ImagesOf(text, patch)[n] = f[n]

\* A function that satisfies the recursion is the one it defines: else there is a least
\* number where they differ, and it has one before it.
LEMMA ImagesAre ==
    ASSUME NEW text, NEW patch, NEW N \in Nat, Len(patch) = N, NEW f,
           DOMAIN f = 0 .. N, f = [n \in 0 .. N |-> f[n]],
           f[0] = [k \in DOMAIN text |-> [text |-> text[k], patched |-> FALSE]],
           \A n \in 1 .. N : f[n] = Partial!ApplyHunk(f[n - 1], patch[n])
    PROVE  AreImages(text, patch, f, N)
<1> DEFINE base == [k \in DOMAIN text |-> [text |-> text[k], patched |-> FALSE]]
           step(g) == [n \in 0 .. N |->
                         IF n = 0 THEN base ELSE Partial!ApplyHunk(g[n - 1], patch[n])]
<1>1. f = step(f)
  <2>1. \A n \in 0 .. N : n # 0 => n \in 1 .. N
    OBVIOUS
  <2>2. \A n \in 0 .. N : f[n] = IF n = 0 THEN base ELSE Partial!ApplyHunk(f[n - 1], patch[n])
    BY <2>1
  <2> QED BY <2>2
<1>2. ImagesOf(text, patch) = CHOOSE g : g = step(g)
  BY DEF ImagesOf
<1>3. PICK g : g = ImagesOf(text, patch)
  OBVIOUS
<1> HIDE DEF step
<1>4. g = step(g)
  BY <1>1, <1>2, <1>3
<1>5. \A n \in 0 .. N : g[n] = IF n = 0 THEN base ELSE Partial!ApplyHunk(g[n - 1], patch[n])
  BY <1>4 DEF step
<1> DEFINE wrong == {n \in 0 .. N : g[n] # f[n]}
<1>6. CASE wrong # {}
  <2>1. wrong \in SUBSET Nat
    OBVIOUS
  <2>2. PICK n \in wrong : \A m \in wrong : n <= m
    BY <1>6, <2>1, LeastIs
  <2>3. n \in 0 .. N /\ n \in Nat /\ g[n] # f[n]
    OBVIOUS
  <2>4. n # 0
    BY <1>5, <2>3
  <2>5. n - 1 \in 0 .. N /\ n \in 1 .. N /\ ~ (n <= n - 1)
    BY <2>3, <2>4
  <2>6. n - 1 \notin wrong
    BY <2>2, <2>5
  <2>7. g[n - 1] = f[n - 1]
    BY <2>5, <2>6
  <2>8. g[n] = Partial!ApplyHunk(g[n - 1], patch[n])
    BY <1>5, <2>3, <2>4
  <2>9. f[n] = Partial!ApplyHunk(f[n - 1], patch[n])
    BY <2>5
  <2> QED BY <2>3, <2>7, <2>8, <2>9
<1>7. CASE wrong = {}
  BY <1>3, <1>7 DEF AreImages
<1> QED BY <1>6, <1>7

\* The patch applied to the file it is for gives the file it is to give.
LEMMA PatchApplied ==
    ASSUME NEW s \in AnyScript, NEW From \in SUBSET DOMAIN s, NEW To \in SUBSET DOMAIN s,
           NEW Out \in SUBSET DOMAIN s, NEW N \in Nat, NEW w,
           AreHunks(s, From, To, Out, w, N),
           NEW patch, patch = [n \in 1 .. N |-> HunkOf(s, From, To, Out, w[n])],
           \/ Partial!Distinct(Partial!Texts(s, From))
           \/ \A n \in 1 .. N : Below(Out, w[n].first) = Below(To, w[n].first)
    PROVE  Partial!Apply(Partial!Texts(s, From), patch) = Partial!Texts(s, Out)
<1> DEFINE D(n) == InHunks(w, n)
           R(n) == Reached(From, Out, D(n))
           F(n) == Image(s, R(n), D(n))
<1>1. PICK f, text : f = [n \in 0 .. N |-> F(n)] /\ text = Partial!Texts(s, From)
  OBVIOUS
<1>2. /\ Len(patch) = N /\ DOMAIN patch = 1 .. N
      /\ \A n \in 1 .. N : patch[n] = HunkOf(s, From, To, Out, w[n])
  OBVIOUS
<1>3. ASSUME NEW n \in 1 .. N
      PROVE  /\ Partial!Places(f[n - 1], patch[n]) # {}
             /\ f[n] = Partial!ApplyHunk(f[n - 1], patch[n])
  <2>1. PICK E : E = InHunks(w, n - 1)
    OBVIOUS
  <2>2. PICK h : h = w[n]
    OBVIOUS
  <2>3. /\ E \in SUBSET DOMAIN s /\ IsNext(s, From, To, E, w[n])
        /\ InHunks(w, n) = E \cup (w[n].first .. w[n].last)
        /\ Below(Reached(From, Out, E), w[n].first) = Below(Out, w[n].first)
    <3>1. TurnIs(s, From, To, Out, w, n, E)
      BY <2>1, TurnComes
    <3> QED BY <3>1 DEF TurnIs
  <2>4. \/ Partial!Distinct(Partial!Texts(s, From))
        \/ Below(Reached(From, Out, E), h.first) = Below(To, h.first)
    BY <2>2, <2>3
  <2>5. IsApplied(s, From, To, Out, E, h)
    BY <2>2, <2>3, <2>4, HunkApplied
  <2>6. n - 1 \in 0 .. N /\ n \in 0 .. N
    OBVIOUS
  <2>7. /\ f[n - 1] = Image(s, Reached(From, Out, E), E)
        /\ f[n] = Image(s, Reached(From, Out, InHunks(w, n)), InHunks(w, n))
    BY <1>1, <2>1, <2>6
  <2> QED BY ONLY <1>2, <2>2, <2>3, <2>5, <2>7, n \in 1 .. N DEF IsApplied
<1>4. D(0) = {} /\ R(0) = From
  <2>1. D(0) = {}
    BY DEF InHunks
  <2> QED BY <2>1 DEF Reached
<1>5. f[0] = [k \in DOMAIN text |-> [text |-> text[k], patched |-> FALSE]]
  <2>1. f[0] = Image(s, From, {})
    BY ONLY <1>1, <1>4, N \in Nat
  <2>2. text = [n \in 1 .. Cardinality(From) |-> s[InOrder(From)[n]].text]
    BY <1>1, TextsAre
  <2>3. Image(s, From, {}) = [n \in 1 .. Cardinality(From) |->
                                [text |-> s[InOrder(From)[n]].text, patched |-> FALSE]]
    <3>1. \A n : (InOrder(From)[n] \in {}) = FALSE
      OBVIOUS
    <3> QED BY ONLY <3>1 DEF Image
  <2> QED BY ONLY <2>1, <2>2, <2>3
<1>6. PICK g : g = ImagesOf(text, patch)
  OBVIOUS
<1>7. \A n \in 0 .. N : g[n] = f[n]
  <2>1. DOMAIN f = 0 .. N /\ f = [n \in 0 .. N |-> f[n]]
    BY ONLY <1>1
  <2>2. AreImages(text, patch, f, N)
    BY ONLY <1>2, <1>3, <1>5, <2>1, N \in Nat, ImagesAre
  <2> QED BY <1>6, <2>2 DEF AreImages
<1>8. ~ \E n \in DOMAIN patch : Partial!Places(g[n - 1], patch[n]) = {}
  <2>1. \A n \in 1 .. N : n - 1 \in 0 .. N
    OBVIOUS
  <2> QED BY <1>2, <1>3, <1>7, <2>1
<1>9. R(N) = Out
  <2>1. \A i \in D(N) : \E n \in 1 .. N : i \in w[n].first .. w[n].last
    BY DEF InHunks
  <2>2. \A i \in DOMAIN s : (i \in Out) # (i \in From) => i \in D(N)
    BY DEF AreHunks, InHunks
  <2> QED BY <2>2 DEF Reached
<1>10. g[Len(patch)] = Image(s, Out, D(N))
  <2>1. N \in 0 .. N
    OBVIOUS
  <2>2. g[N] = Image(s, R(N), D(N))
    BY <1>1, <1>7, <2>1
  <2> QED BY <1>2, <1>9, <2>2
<1>11. [n \in DOMAIN g[Len(patch)] |-> g[Len(patch)][n].text] = Partial!Texts(s, Out)
  <2>1. PICK Done : Done = D(N)
    OBVIOUS
  <2>2. g[Len(patch)] = [n \in 1 .. Cardinality(Out) |->
                           [text |-> s[InOrder(Out)[n]].text, patched |-> InOrder(Out)[n] \in Done]]
    BY <1>10, <2>1 DEF Image
  <2>3. Partial!Texts(s, Out) = [n \in 1 .. Cardinality(Out) |-> s[InOrder(Out)[n]].text]
    BY TextsAre
  <2> QED BY ONLY <2>2, <2>3
<1>12. Partial!Apply(text, patch) = [n \in DOMAIN g[Len(patch)] |-> g[Len(patch)][n].text]
  <2>1. Partial!Apply(text, patch) = Outcome(g, patch)
    BY ONLY <1>6, ApplyIs
  <2> QED BY ONLY <1>8, <2>1 DEF Outcome
<1> QED BY ONLY <1>1, <1>11, <1>12

-----------------------------------------------------------------------------
(* The hunks of a diff.                                                      *)

ShownLines(s) ==
    {i \in DOMAIN s : (i - ContextLines .. i + ContextLines) \cap Partial!Changed(s) # {}}

Firsts(s) == {i \in ShownLines(s) : i - 1 \notin ShownLines(s)}

LastOf(s, first) ==
    CHOOSE i \in first .. Len(s) : first .. i \subseteq ShownLines(s) /\ i + 1 \notin ShownLines(s)

\* The parts of a diff.
LEMMA DiffConsists ==
    ASSUME NEW s \in AnyScript
    PROVE  /\ Partial!Diff(s).script = s
           /\ DOMAIN Partial!Diff(s).hunks = 1 .. Cardinality(Firsts(s))
           /\ \A n \in 1 .. Cardinality(Firsts(s)) :
                 /\ Partial!Diff(s).hunks[n].first = InOrder(Firsts(s))[n]
                 /\ Partial!Diff(s).hunks[n].last = LastOf(s, InOrder(Firsts(s))[n])
                 /\ Partial!Diff(s).hunks[n].unifiedDiffStart \in Nat
<1>1. PICK F : F = InOrder(Firsts(s))
  OBVIOUS
<1>2. DOMAIN F = 1 .. Cardinality(Firsts(s))
  BY <1>1 DEF InOrder
<1>3. Partial!InOrder(Firsts(s)) = F
  BY <1>1, InOrderIsSo
<1>4. PICK start :
         /\ Partial!Diff(s) =
              [script |-> s,
               hunks |-> [n \in DOMAIN F |-> [first |-> F[n], last |-> LastOf(s, F[n]),
                                              unifiedDiffStart |-> start[n]]]]
         /\ \A n \in DOMAIN F : start[n] \in Nat
  <2> DEFINE before(n) == Partial!Cardinality({i \in ShownLines(s) : i < F[n]})
             begin == [n \in DOMAIN F |-> before(n) + n - 1]
  <2>1. Partial!Diff(s) =
        [script |-> s,
         hunks |-> [n \in DOMAIN F |->
                      [first |-> F[n], last |-> LastOf(s, F[n]), unifiedDiffStart |-> begin[n]]]]
    BY <1>3 DEF Partial!Diff, LastOf, Firsts, ShownLines
  <2>2. \A T : Partial!Cardinality(T) = Cardinality(T)
    BY DEF Partial!Cardinality, Cardinality
  <2>3. ASSUME NEW n \in DOMAIN F PROVE before(n) \in Nat
    <3>1. {i \in ShownLines(s) : i < F[n]} \in SUBSET DOMAIN s
      BY DEF ShownLines
    <3> QED BY <2>2, <3>1, ScriptIs
  <2> HIDE DEF before
  <2>4. \A n \in DOMAIN F : n \in Nat /\ n >= 1
    <3>1. Firsts(s) \in SUBSET DOMAIN s
      BY DEF Firsts, ShownLines
    <3> QED BY <1>2, <3>1, ScriptIs
  <2>5. \A n \in DOMAIN F : begin[n] \in Nat
    BY <2>3, <2>4
  <2> QED BY <2>1, <2>5
<1> QED BY <1>1, <1>2, <1>4

LEMMA ChangedIs ==
    ASSUME NEW s
    PROVE  Partial!Changed(s) \in SUBSET DOMAIN s
BY SMT DEF Partial!Changed

\* A hunk goes on to the last of the entries shown without a gap.
LEMMA LastIs ==
    ASSUME NEW s \in AnyScript, NEW first \in Firsts(s)
    PROVE  /\ LastOf(s, first) \in first .. Len(s)
           /\ first .. LastOf(s, first) \subseteq ShownLines(s)
           /\ LastOf(s, first) + 1 \notin ShownLines(s)
<1>1. PICK S : S = ShownLines(s)
  OBVIOUS
<1>2. S \in SUBSET (1 .. Len(s)) /\ Len(s) \in Nat
  BY <1>1, ScriptIs DEF ShownLines
<1>3. first \in S
  BY <1>1 DEF Firsts
<1> DEFINE ends == {i \in first .. Len(s) : i + 1 \notin S}
<1>4. ends \in SUBSET Nat /\ Len(s) \in ends
  BY <1>2, <1>3
<1>5. PICK last \in ends : \A i \in ends : last <= i
  BY <1>4, LeastIs
<1>6. last \in first .. Len(s) /\ last + 1 \notin S
  OBVIOUS
<1>7. \A i \in first .. last : i \in S
  <2> TAKE i \in first .. last
  <2>1. CASE i = first
    BY <1>3, <2>1
  <2>2. CASE i # first
    <3>1. i - 1 \in first .. Len(s) /\ ~ (last <= i - 1) /\ i - 1 + 1 = i
      BY <1>2, <1>3, <1>6, <2>2
    <3>2. i - 1 \notin ends
      BY <1>5, <3>1
    <3> QED BY <3>1, <3>2
  <2> QED BY <2>1, <2>2
<1>8. \E i \in first .. Len(s) : first .. i \subseteq S /\ i + 1 \notin S
  BY <1>6, <1>7
<1> QED BY <1>1, <1>8 DEF LastOf

\* The hunks are one behind the other, one that begins after the first line begins with
\* a line that does not change, and they have all changes.
DiffHas(s, w, N) ==
    /\ N \in Nat /\ DOMAIN w = 1 .. N
    /\ \A n \in 1 .. N :
          /\ w[n].first \in 1 .. Len(s) /\ w[n].last \in w[n].first .. Len(s)
          /\ w[n].first # 1 => w[n].first \notin Partial!Changed(s)
    /\ \A m, n \in 1 .. N : m < n => w[m].last < w[n].first
    /\ \A i \in Partial!Changed(s) : \E n \in 1 .. N : i \in w[n].first .. w[n].last

\* Every diff of a script is so, with some context shown.
LEMMA DiffIs ==
    ASSUME NEW s \in AnyScript
    PROVE  /\ Partial!Diff(s).script = s
           /\ DiffHas(s, Partial!Diff(s).hunks, Cardinality(Firsts(s)))
<1>1. PICK w, F, S, N : /\ w = Partial!Diff(s).hunks /\ F = Firsts(s) /\ S = ShownLines(s)
                        /\ N = Cardinality(F)
  OBVIOUS
<1>2. /\ Partial!Diff(s).script = s /\ DOMAIN w = 1 .. N
      /\ \A n \in 1 .. N : /\ w[n].first = InOrder(F)[n]
                           /\ w[n].last = LastOf(s, InOrder(F)[n])
  BY <1>1, DiffConsists
<1>3. ContextLines \in Nat \ {0}
  BY PartialAssumed DEF Partial!PartialCommitAssumption
<1>4. DOMAIN s = 1 .. Len(s) /\ Len(s) \in Nat
  BY ScriptIs
<1>5. /\ S \in SUBSET (1 .. Len(s)) /\ F \in SUBSET DOMAIN s
      /\ \A i \in F : i \in S /\ i - 1 \notin S
  BY <1>1, <1>4 DEF Firsts, ShownLines
<1>6. N \in Nat /\ F \in SUBSET Int /\ IsFiniteSet(F)
  BY <1>1, <1>5, ScriptIs
<1>7. /\ InOrder(F) \in [1 .. N -> F]
      /\ \A i \in F : Rank(F, i) \in 1 .. N /\ InOrder(F)[Rank(F, i)] = i
      /\ \A m, n \in 1 .. N : m < n <=> InOrder(F)[m] < InOrder(F)[n]
  BY <1>1, <1>6, InOrderIs, RankType, InOrderIncreases
<1>8. \A n \in 1 .. N :
         /\ w[n].first \in F /\ w[n].last \in w[n].first .. Len(s)
         /\ w[n].first .. w[n].last \subseteq S /\ w[n].last + 1 \notin S
  BY <1>1, <1>2, <1>7, LastIs
<1>9. \A m, n \in 1 .. N : m < n => w[m].last < w[n].first
  <2> TAKE m, n \in 1 .. N
  <2> HAVE m < n
  <2>1. w[m].first < w[n].first
    BY <1>2, <1>7
  <2>2. PICK i, j, k : i = w[m].first /\ j = w[m].last /\ k = w[n].first
    OBVIOUS
  <2>3. i \in 1 .. Len(s) /\ k \in 1 .. Len(s) /\ j \in i .. Len(s)
    BY <1>4, <1>5, <1>8, <2>2
  <2>4. k - 1 \notin S /\ i .. j \subseteq S
    BY <1>5, <1>8, <2>2
  <2>5. ~ (k <= j)
    BY ONLY <1>4, <2>1, <2>2, <2>3, <2>4
  <2> QED BY ONLY <1>4, <2>2, <2>3, <2>5
<1>10. \A i \in F : i # 1 => i \notin Partial!Changed(s)
  <2> TAKE i \in F
  <2> HAVE i # 1
  <2>1. i \in 1 .. Len(s) /\ i - 1 \in DOMAIN s /\ i - 1 \notin S
    BY <1>4, <1>5
  <2>2. (i - 1 - ContextLines .. i - 1 + ContextLines) \cap Partial!Changed(s) = {}
    BY <1>1, <2>1 DEF ShownLines
  <2>3. i \in i - 1 - ContextLines .. i - 1 + ContextLines
    BY ONLY <1>3, <1>4, <2>1
  <2> QED BY <2>2, <2>3
<1>11. \A i \in Partial!Changed(s) : i \in S
  <2> TAKE i \in Partial!Changed(s)
  <2>1. i \in DOMAIN s
    BY ChangedIs
  <2>2. i \in i - ContextLines .. i + ContextLines
    BY ONLY <1>3, <1>4, <2>1
  <2> QED BY <1>1, <2>1, <2>2 DEF ShownLines
<1>12. \A i \in S : \E n \in 1 .. N : i \in w[n].first .. w[n].last
  <2> TAKE i \in S
  <2> DEFINE back == {d \in Nat : d < i /\ i - d .. i \subseteq S}
  <2>0. i \in 1 .. Len(s) /\ i \in Nat
    BY <1>4, <1>5
  <2>1. 0 \in back
    BY <2>0
  <2> DEFINE away == {d \in Nat : d \notin back}
  <2>2. i \in away
    BY <2>0
  <2>3. PICK d \in away : \A e \in away : d <= e
    BY <2>2, LeastIs
  <2>4. d # 0 /\ d \in Nat /\ d <= i
    BY <2>1, <2>2, <2>3
  <2>5. d - 1 \in Nat /\ ~ (d <= d - 1)
    BY <2>4
  <2>6. d - 1 \in back
    BY <2>3, <2>5
  <2>7. i - (d - 1) .. i \subseteq S /\ ~ (d < i /\ i - d .. i \subseteq S)
    BY <2>3, <2>4, <2>6
  <2>8. PICK k : k = i - (d - 1)
    OBVIOUS
  <2>9. k \in 1 .. i /\ k .. i \subseteq S /\ k - 1 = i - d
    BY ONLY <2>0, <2>4, <2>7, <2>8
  <2>10. k - 1 \notin S
    <3> SUFFICES ASSUME k - 1 \in S PROVE FALSE
      OBVIOUS
    <3>1. k - 1 \in 1 .. Len(s)
      BY <1>5
    <3>2. d < i
      BY ONLY <2>0, <2>4, <2>9, <3>1
    <3>3. \A j \in i - d .. i : j = k - 1 \/ j \in k .. i
      BY ONLY <2>0, <2>4, <2>9
    <3>4. i - d .. i \subseteq S
      BY <2>9, <3>3
    <3> QED BY <2>7, <3>2, <3>4
  <2>11. k \in F
    <3>1. k \in S
      BY ONLY <2>0, <2>9
    <3> QED BY <1>1, <2>10, <3>1 DEF Firsts
  <2>12. PICK n \in 1 .. N : w[n].first = k
    BY <1>2, <1>7, <2>11
  <2>13. PICK last : last = w[n].last
    OBVIOUS
  <2>14. last \in k .. Len(s) /\ last + 1 \notin S
    BY <1>8, <2>12, <2>13
  <2>15. ~ (last < i)
    BY ONLY <1>4, <2>0, <2>9, <2>14
  <2>16. i \in k .. last
    BY ONLY <1>4, <2>0, <2>9, <2>14, <2>15
  <2> QED BY <2>12, <2>13, <2>16
<1> QED BY <1>1, <1>2, <1>4, <1>5, <1>6, <1>8, <1>9, <1>10, <1>11, <1>12 DEF DiffHas

\* The lines of a diff that can be selected are the changes.
LEMMA LinesAre ==
    ASSUME NEW s \in AnyScript, NEW d, d = Partial!Diff(s)
    PROVE  /\ \A l \in Partial!Lines(d) : l.entry \in Partial!Changed(s)
           /\ \A i \in Partial!Changed(s) : \E l \in Partial!Lines(d) : l.entry = i
<1>1. PICK w, N : w = d.hunks /\ N = Cardinality(Firsts(s))
  OBVIOUS
<1>2. d.script = s /\ DiffHas(s, w, N)
  BY <1>1, DiffIs
<1>3. /\ DOMAIN w = 1 .. N
      /\ \A n \in 1 .. N : w[n].first \in 1 .. Len(s) /\ w[n].last \in w[n].first .. Len(s)
      /\ \A i \in Partial!Changed(s) : \E n \in 1 .. N : i \in w[n].first .. w[n].last
  BY <1>2 DEF DiffHas
<1>4. Len(s) \in Nat /\ DOMAIN s = 1 .. Len(s)
  BY ScriptIs
<1>5. \A i : i \in Partial!Changed(s) <=> i \in DOMAIN s /\ s[i].type # "Context"
  BY DEF Partial!Changed
<1> DEFINE row(h, i) == h.unifiedDiffStart + 1 + i - h.first
<1>6. \A l : l \in Partial!Lines(d) <=>
         \E n \in 1 .. N : \E i \in w[n].first .. w[n].last :
            s[i].type # "Context" /\ l = [row |-> row(w[n], i), entry |-> i]
  <2> DEFINE Of(h) == {[row |-> row(h, i), entry |-> i] :
                         i \in {j \in h.first .. h.last : s[j].type # "Context"}}
  <2>1. Partial!Lines(d) = UNION {Of(h) : h \in {w[n] : n \in 1 .. N}}
    BY <1>1, <1>2, <1>3 DEF Partial!Lines
  <2> HIDE DEF row
  <2>2. \A h, l : l \in Of(h) <=> \E i \in h.first .. h.last :
            s[i].type # "Context" /\ l = [row |-> row(h, i), entry |-> i]
    OBVIOUS
  <2> HIDE DEF Of
  <2> QED BY ONLY <2>1, <2>2
<1> HIDE DEF row
<1>7. ASSUME NEW l \in Partial!Lines(d) PROVE l.entry \in Partial!Changed(s)
  <2>1. PICK n \in 1 .. N : \E i \in w[n].first .. w[n].last :
            s[i].type # "Context" /\ l = [row |-> row(w[n], i), entry |-> i]
    BY <1>6
  <2>2. PICK i \in w[n].first .. w[n].last :
            s[i].type # "Context" /\ l = [row |-> row(w[n], i), entry |-> i]
    BY <2>1
  <2>3. i \in DOMAIN s
    BY <1>3, <1>4
  <2> QED BY <1>5, <2>2, <2>3
<1>8. ASSUME NEW i \in Partial!Changed(s) PROVE \E l \in Partial!Lines(d) : l.entry = i
  <2>1. PICK n \in 1 .. N : i \in w[n].first .. w[n].last
    BY <1>3
  <2>2. [row |-> row(w[n], i), entry |-> i] \in Partial!Lines(d)
    BY <1>5, <1>6, <2>1
  <2> QED BY <2>2
<1> QED BY <1>7, <1>8

\* What rows select are changes, and all rows select all of them.
LEMMA EntriesAre ==
    ASSUME NEW s \in AnyScript, NEW d, d = Partial!Diff(s), NEW rows
    PROVE  /\ Partial!EntriesOf(d, rows) \in SUBSET Partial!Changed(s)
           /\ Partial!EntriesOf(d, rows) =
                Partial!EntriesOf(d, rows \cap Partial!Includeable(d))
           /\ Partial!EntriesOf(d, Partial!Includeable(d)) = Partial!Changed(s)
BY LinesAre DEF Partial!EntriesOf, Partial!Includeable

\* The patch for some of the changes.
LEMMA PatchIsApplied ==
    ASSUME NEW s \in AnyScript, NEW d, d = Partial!Diff(s),
           NEW picked \in SUBSET Partial!Changed(s), NEW From \in SUBSET DOMAIN s,
           NEW To \in SUBSET DOMAIN s, NEW Out \in SUBSET DOMAIN s,
           \A i \in DOMAIN s : i \notin Partial!Changed(s) => i \in From /\ i \in To,
           \A i \in DOMAIN s : (i \in Out) # (i \in From) => i \in picked,
           \/ Partial!Distinct(Partial!Texts(s, From))
           \/ \A n \in DOMAIN d.hunks : Partial!Written(d.hunks[n], picked) =>
                 Below(Out, d.hunks[n].first) = Below(To, d.hunks[n].first)
    PROVE  Partial!Apply(Partial!Texts(s, From), Partial!Patch(d, picked, From, To, Out))
             = Partial!Texts(s, Out)
<1>1. PICK hunks, M : hunks = d.hunks /\ M = Cardinality(Firsts(s))
  OBVIOUS
<1>2. d.script = s /\ DiffHas(s, hunks, M)
  BY <1>1, DiffIs
<1>3. /\ M \in Nat /\ DOMAIN hunks = 1 .. M
      /\ \A n \in 1 .. M :
            /\ hunks[n].first \in 1 .. Len(s) /\ hunks[n].last \in hunks[n].first .. Len(s)
            /\ hunks[n].first # 1 => hunks[n].first \notin Partial!Changed(s)
      /\ \A m, n \in 1 .. M : m < n => hunks[m].last < hunks[n].first
      /\ \A i \in Partial!Changed(s) : \E n \in 1 .. M : i \in hunks[n].first .. hunks[n].last
  BY <1>2 DEF DiffHas
<1>4. Len(s) \in Nat /\ DOMAIN s = 1 .. Len(s)
  BY ScriptIs
<1>5. PICK W, N, place, w :
         /\ W = {n \in DOMAIN hunks : Partial!Written(hunks[n], picked)} /\ N = Cardinality(W)
         /\ place = InOrder(W) /\ w = ElementsAt(hunks, W)
  OBVIOUS
<1>6. W \in SUBSET (1 .. M) /\ W \in SUBSET Int /\ IsFiniteSet(W) /\ N \in Nat
  <2>1. W \in SUBSET (1 .. M)
    BY <1>3, <1>5
  <2>2. IsFiniteSet(W)
    <3>1. IsFiniteSet(1 .. M)
      BY <1>3, FS_Interval
    <3> QED BY <2>1, <3>1, FS_Subset
  <2> QED BY <1>3, <1>5, <2>1, <2>2, FS_CardinalityType
<1>7. /\ place \in [1 .. N -> W]
      /\ \A k \in W : Rank(W, k) \in 1 .. N /\ place[Rank(W, k)] = k
      /\ \A m, n \in 1 .. N : m < n <=> place[m] < place[n]
  BY <1>5, <1>6, InOrderIs, RankType, InOrderIncreases
<1>8. w = [n \in 1 .. N |-> hunks[place[n]]]
  BY <1>5, <1>7 DEF ElementsAt
<1>9. \A n \in 1 .. N : w[n] = hunks[place[n]] /\ place[n] \in 1 .. M /\ place[n] \in W
  BY <1>6, <1>7, <1>8
<1>10. AreHunks(s, From, To, Out, w, N)
  <2>1. ASSUME NEW n \in 1 .. N
        PROVE  /\ w[n].first \in 1 .. Len(s) /\ w[n].last \in w[n].first .. Len(s)
               /\ From \cap (w[n].first .. w[n].last) = {} => w[n].first = 1
               /\ To \cap (w[n].first .. w[n].last) = {} => w[n].first = 1
    <3>1. PICK first, last : first = w[n].first /\ last = w[n].last
      OBVIOUS
    <3>2. /\ first \in 1 .. Len(s) /\ last \in first .. Len(s)
          /\ first # 1 => first \notin Partial!Changed(s)
      BY <1>3, <1>9, <3>1
    <3>3. first \in first .. last /\ first \in DOMAIN s
      BY ONLY <1>4, <3>2
    <3> QED BY <3>1, <3>2, <3>3
  <2>2. ASSUME NEW m \in 1 .. N, NEW n \in 1 .. N, m < n PROVE w[m].last < w[n].first
    BY <1>3, <1>7, <1>9, <2>2
  <2>3. ASSUME NEW i \in DOMAIN s, (i \in Out) # (i \in From)
        PROVE  \E n \in 1 .. N : i \in w[n].first .. w[n].last
    <3>1. i \in picked
      BY <2>3
    <3>2. PICK k \in 1 .. M : i \in hunks[k].first .. hunks[k].last
      BY <1>3, <3>1
    <3>3. k \in W
      BY <1>3, <1>5, <3>1, <3>2 DEF Partial!Written
    <3> QED BY <1>7, <1>9, <3>2, <3>3
  <2> QED BY <2>1, <2>2, <2>3 DEF AreHunks
<1>11. Partial!Patch(d, picked, From, To, Out) =
          [n \in 1 .. N |-> HunkOf(s, From, To, Out, w[n])]
  <2>1. Partial!ElementsAt(hunks, W) = w
    BY <1>5, InOrderIsSo
  <2>2. DOMAIN w = 1 .. N
    BY <1>8
  <2> QED BY <1>1, <1>2, <1>5, <2>1, <2>2 DEF Partial!Patch, HunkOf
<1>12. \/ Partial!Distinct(Partial!Texts(s, From))
       \/ \A n \in 1 .. N : Below(Out, w[n].first) = Below(To, w[n].first)
  <2>1. \A n \in 1 .. N : /\ place[n] \in DOMAIN d.hunks /\ w[n] = d.hunks[place[n]]
                          /\ Partial!Written(d.hunks[place[n]], picked)
    BY ONLY <1>1, <1>5, <1>9
  <2> QED BY <2>1
<1> QED BY <1>6, <1>10, <1>11, <1>12, PatchApplied

\* As many here and not there as there and not here.
LEMMA Balanced ==
    ASSUME NEW X, NEW Y, IsFiniteSet(X), IsFiniteSet(Y),
           Cardinality(X \ Y) = Cardinality(Y \ X)
    PROVE  Cardinality(X) = Cardinality(Y)
<1> DEFINE K == X \cap Y
<1>1. IsFiniteSet(K) /\ IsFiniteSet(X \ Y) /\ IsFiniteSet(Y \ X)
  <2>1. K \in SUBSET X /\ X \ Y \in SUBSET X /\ Y \ X \in SUBSET Y
    OBVIOUS
  <2> QED BY <2>1, FS_Subset
<1>2. /\ X = K \cup (X \ Y) /\ K \cap (X \ Y) = {}
      /\ Y = K \cup (Y \ X) /\ K \cap (Y \ X) = {}
  OBVIOUS
<1> HIDE DEF K
<1>3. Cardinality(K \cup (X \ Y)) = Cardinality(K) + Cardinality(X \ Y)
  BY <1>1, <1>2, DisjointSum
<1>4. Cardinality(K \cup (Y \ X)) = Cardinality(K) + Cardinality(Y \ X)
  BY <1>1, <1>2, DisjointSum
<1>5. Cardinality(X) = Cardinality(K) + Cardinality(X \ Y)
  BY <1>2, <1>3
<1>6. Cardinality(Y) = Cardinality(K) + Cardinality(Y \ X)
  BY <1>2, <1>4
<1> QED BY <1>5, <1>6

\* Where as many additions as deletions are left out, the lines before a hunk are as many
\* as its header says.
LEMMA InPlaceIs ==
    ASSUME NEW s \in AnyScript, NEW e \in SUBSET Partial!Changed(s), Partial!InPlace(s, e),
           NEW d, d = Partial!Diff(s), NEW n \in DOMAIN d.hunks,
           Partial!Written(d.hunks[n], e), NEW first, first = d.hunks[n].first
    PROVE  /\ Below(Partial!Committed(s, e), first) = Below(Partial!New(s), first)
           /\ Below(Partial!Remaining(s, e), first) = Below(Partial!Old(s), first)
<1> DEFINE LeftOut(type) == {i \in 1 .. first - 1 : i \notin e /\ s[i].type = type}
<1>1. Cardinality(LeftOut("Add")) = Cardinality(LeftOut("Delete"))
  <2>1. \A T : Partial!Cardinality(T) = Cardinality(T)
    BY DEF Partial!Cardinality, Cardinality
  <2> QED BY <2>1 DEF Partial!InPlace
<1>2. /\ DOMAIN s = 1 .. Len(s) /\ Len(s) \in Nat
      /\ \A i \in DOMAIN s : s[i].type \in {"Context", "Add", "Delete"}
  BY ScriptIs DEF Partial!Entries, Partial!LineTypes
<1>3. first \in 1 .. Len(s)
  <2>1. DiffHas(s, d.hunks, Cardinality(Firsts(s)))
    BY DiffIs
  <2> QED BY <2>1 DEF DiffHas
<1>4. \A i \in DOMAIN s : i < first <=> i \in 1 .. first - 1
  BY ONLY <1>2, <1>3
<1>5. \A i \in 1 .. first - 1 : i \in DOMAIN s
  BY ONLY <1>2, <1>3
<1>6. ASSUME NEW X, NEW Y, X \in SUBSET DOMAIN s, Y \in SUBSET DOMAIN s,
             X \ Y = LeftOut("Delete"), Y \ X = LeftOut("Add")
      PROVE  Cardinality(X) = Cardinality(Y)
  <2>1. Cardinality(X \ Y) = Cardinality(Y \ X)
    BY <1>1, <1>6
  <2>2. IsFiniteSet(X) /\ IsFiniteSet(Y)
    BY <1>6, ScriptIs
  <2> QED BY <2>1, <2>2, Balanced
<1>7. ASSUME NEW X, NEW Y, X \in SUBSET DOMAIN s, Y \in SUBSET DOMAIN s,
             X \ Y = LeftOut("Add"), Y \ X = LeftOut("Delete")
      PROVE  Cardinality(X) = Cardinality(Y)
  <2>1. Cardinality(X \ Y) = Cardinality(Y \ X)
    BY <1>1, <1>7
  <2>2. IsFiniteSet(X) /\ IsFiniteSet(Y)
    BY <1>7, ScriptIs
  <2> QED BY <2>1, <2>2, Balanced
<1>8. \A i \in e : i \in DOMAIN s /\ s[i].type # "Context"
  BY DEF Partial!Changed
<1> DEFINE C == {i \in Partial!Committed(s, e) : i < first}
           N == {i \in Partial!New(s) : i < first}
           R == {i \in Partial!Remaining(s, e) : i < first}
           O == {i \in Partial!Old(s) : i < first}
<1>9. /\ C \in SUBSET DOMAIN s /\ N \in SUBSET DOMAIN s
      /\ R \in SUBSET DOMAIN s /\ O \in SUBSET DOMAIN s
  BY DEF Partial!Committed, Partial!New, Partial!Remaining, Partial!Old
<1>10. C \ N = LeftOut("Delete") /\ N \ C = LeftOut("Add")
  BY <1>2, <1>4, <1>5, <1>8 DEF Partial!Committed, Partial!New
<1>11. R \ O = LeftOut("Add") /\ O \ R = LeftOut("Delete")
  BY <1>2, <1>4, <1>5, <1>8 DEF Partial!Remaining, Partial!Old
<1> HIDE DEF C, N, R, O, LeftOut
<1>12. Cardinality(C) = Cardinality(N) /\ Cardinality(R) = Cardinality(O)
  BY <1>6, <1>7, <1>9, <1>10, <1>11
<1> QED BY <1>12 DEF Below, C, N, R, O

\* A commit of some changes.
LEMMA CommitPatchIs ==
    ASSUME NEW s \in AnyScript, NEW d, d = Partial!Diff(s), NEW e \in SUBSET Partial!Changed(s),
           Partial!Distinct(Partial!OldText(s)) \/ Partial!InPlace(s, e)
    PROVE  Partial!Apply(Partial!OldText(s), Partial!FormatPatch(d, e))
             = Partial!Texts(s, Partial!Committed(s, e))
<1>1. PICK From, To, Out : /\ From = Partial!Old(s) /\ To = Partial!New(s)
                           /\ Out = Partial!Committed(s, e)
  OBVIOUS
<1>2. From \in SUBSET DOMAIN s /\ To \in SUBSET DOMAIN s /\ Out \in SUBSET DOMAIN s
  BY <1>1 DEF Partial!Committed, Partial!New, Partial!Old
<1>3. /\ \A i \in DOMAIN s : s[i].type \in {"Context", "Add", "Delete"}
      /\ \A i \in DOMAIN s : i \in Partial!Changed(s) <=> s[i].type # "Context"
  BY ScriptIs DEF Partial!Entries, Partial!LineTypes, Partial!Changed
<1>4. \A i \in DOMAIN s : i \notin Partial!Changed(s) => i \in From /\ i \in To
  BY <1>1, <1>3 DEF Partial!New, Partial!Old
<1>5. \A i \in DOMAIN s : (i \in Out) # (i \in From) => i \in e
  BY <1>1, <1>3 DEF Partial!Committed, Partial!Old
<1>6. \/ Partial!Distinct(Partial!Texts(s, From))
      \/ \A n \in DOMAIN d.hunks : Partial!Written(d.hunks[n], e) =>
            Below(Out, d.hunks[n].first) = Below(To, d.hunks[n].first)
  BY <1>1, InPlaceIs DEF Partial!OldText
<1>7. d.script = s
  BY DiffIs
<1>8. Partial!Apply(Partial!Texts(s, From), Partial!Patch(d, e, From, To, Out))
         = Partial!Texts(s, Out)
  BY <1>2, <1>4, <1>5, <1>6, PatchIsApplied
<1>9. Partial!FormatPatch(d, e) = Partial!Patch(d, e, From, To, Out)
  BY ONLY <1>1, <1>7 DEF Partial!FormatPatch
<1> QED BY ONLY <1>1, <1>8, <1>9 DEF Partial!OldText

\* Some changes discarded.
LEMMA DiscardPatchIs ==
    ASSUME NEW s \in AnyScript, NEW d, d = Partial!Diff(s), NEW e \in SUBSET Partial!Changed(s),
           Partial!Distinct(Partial!NewText(s)) \/ Partial!InPlace(s, e)
    PROVE  Partial!Apply(Partial!NewText(s), Partial!FormatPatchToDiscardChanges(d, e))
             = Partial!Texts(s, Partial!Remaining(s, e))
<1>1. PICK From, To, Out : /\ From = Partial!New(s) /\ To = Partial!Old(s)
                           /\ Out = Partial!Remaining(s, e)
  OBVIOUS
<1>2. From \in SUBSET DOMAIN s /\ To \in SUBSET DOMAIN s /\ Out \in SUBSET DOMAIN s
  BY <1>1 DEF Partial!Remaining, Partial!New, Partial!Old
<1>3. /\ \A i \in DOMAIN s : s[i].type \in {"Context", "Add", "Delete"}
      /\ \A i \in DOMAIN s : i \in Partial!Changed(s) <=> s[i].type # "Context"
  BY ScriptIs DEF Partial!Entries, Partial!LineTypes, Partial!Changed
<1>4. \A i \in DOMAIN s : i \notin Partial!Changed(s) => i \in From /\ i \in To
  BY <1>1, <1>3 DEF Partial!New, Partial!Old
<1>5. \A i \in DOMAIN s : (i \in Out) # (i \in From) => i \in e
  BY <1>1, <1>3 DEF Partial!Remaining, Partial!New
<1>6. \/ Partial!Distinct(Partial!Texts(s, From))
      \/ \A n \in DOMAIN d.hunks : Partial!Written(d.hunks[n], e) =>
            Below(Out, d.hunks[n].first) = Below(To, d.hunks[n].first)
  BY <1>1, InPlaceIs DEF Partial!NewText
<1>7. d.script = s
  BY DiffIs
<1>8. Partial!Apply(Partial!Texts(s, From), Partial!Patch(d, e, From, To, Out))
         = Partial!Texts(s, Out)
  BY <1>2, <1>4, <1>5, <1>6, PatchIsApplied
<1>9. Partial!FormatPatchToDiscardChanges(d, e) = Partial!Patch(d, e, From, To, Out)
  BY ONLY <1>1, <1>7 DEF Partial!FormatPatchToDiscardChanges
<1> QED BY ONLY <1>1, <1>8, <1>9 DEF Partial!NewText

-----------------------------------------------------------------------------
(* What git makes of the lines chosen.                                       *)

AnyDiff == {Partial!Diff(s) : s \in AnyScript}

LoadStates == [pc : {"idle", "asked"}, diff : {None}] \cup [pc : {"read"}, diff : AnyDiff]

\* A commit begins with rows of the diff shown then: all that can be selected, if the
\* file is to go in as a whole.
CommitIsOfChoice ==
    commit # None =>
        /\ commit = [pc |-> commit.pc, selection |-> commit.selection,
                     diff |-> commit.diff, chosen |-> commit.chosen]
        /\ commit.pc = "stage" /\ commit.diff # None =>
             /\ commit.diff \in AnyDiff
             /\ commit.chosen = Partial!SelectedRows(commit.diff, commit.selection)
             /\ Partial!SelectionType(commit.selection) = "All" =>
                   commit.chosen = Partial!Includeable(commit.diff)

PatchInv ==
    /\ ChosenInv
    /\ disk \in AnyScript
    /\ fileDiff # None => fileDiff \in AnyDiff
    /\ diffLoads \in [DiffLoad -> LoadStates]
    /\ CommitIsOfChoice /\ StagedIsSelected /\ DiscardedIsSelected

\* A diff has the script it is of.
LEMMA DiffOfScript ==
    ASSUME NEW d \in AnyDiff
    PROVE  d.script \in AnyScript /\ d = Partial!Diff(d.script)
<1>1. PICK s \in AnyScript : d = Partial!Diff(s)
  BY DEF AnyDiff
<1>2. d.script = s
  BY <1>1, DiffIs
<1> QED BY <1>1, <1>2

\* What is left of a script is one.
LEMMA LeftIsScript ==
    ASSUME NEW s \in AnyScript, NEW entries, NEW gone
    PROVE  Partial!Left(s, entries, gone) \in AnyScript
<1> DEFINE S == {i \in DOMAIN s : i \in entries => s[i].type # gone}
           left == [n \in DOMAIN InOrder(S) |->
                      IF InOrder(S)[n] \in entries
                        THEN [s[InOrder(S)[n]] EXCEPT !.type = "Context"] ELSE s[InOrder(S)[n]]]
<1>1. Partial!Left(s, entries, gone) = left
  BY InOrderIsSo DEF Partial!Left
<1>2. S \in SUBSET Int /\ IsFiniteSet(S) /\ Cardinality(S) \in Nat
  BY ScriptIs
<1>3. \A i \in S : s[i] \in Partial!Entries
  BY ScriptIs
<1> HIDE DEF S
<1>4. DOMAIN InOrder(S) = 1 .. Cardinality(S) /\ \A n \in 1 .. Cardinality(S) : InOrder(S)[n] \in S
  BY <1>2, InOrderLength, InOrderIs
<1>5. \A e \in Partial!Entries : [e EXCEPT !.type = "Context"] \in Partial!Entries
  BY DEF Partial!Entries, Partial!LineTypes
<1>6. left \in [1 .. Cardinality(S) -> Partial!Entries]
  BY <1>3, <1>4, <1>5
<1>7. left \in Seq(Partial!Entries)
  BY <1>2, <1>6, SeqDef, Zenon
<1> QED BY <1>1, <1>7 DEF AnyScript

\* All changes committed are the file as it is.
LEMMA CommittedWhole ==
    ASSUME NEW s \in AnyScript
    PROVE  Partial!Committed(s, Partial!Changed(s)) = Partial!New(s)
<1>1. \A i \in DOMAIN s : s[i].type \in {"Context", "Add", "Delete"}
  BY ScriptIs DEF Partial!Entries, Partial!LineTypes
<1> QED BY <1>1 DEF Partial!Committed, Partial!Changed, Partial!New

\* What a commit is given is what the user has chosen.
LEMMA CommitBegins ==
    ASSUME PatchInv, Partial!Commit
    PROVE  CommitIsOfChoice'
<1>1. CASE fileDiff = None
  BY <1>1 DEF Partial!Commit, CommitIsOfChoice
<1>2. CASE fileDiff # None
  <2>1. /\ fileDiff \in AnyDiff /\ Representation(selection)
        /\ chosen = Partial!SelectedRows(fileDiff, selection)
        /\ selection.selectable # Unknown => selection.selectable = Partial!Includeable(fileDiff)
    BY <1>2 DEF PatchInv, ChosenInv, ChosenIsSelected, SelectableIsShown
  <2>2. ASSUME Partial!SelectionType(selection) = "All"
        PROVE  chosen = Partial!Includeable(fileDiff)
    <3>1. CASE selection.selectable = Unknown
      <4>1. selection.diverging = {} /\ selection.default = "All"
        BY <2>1, <2>2, <3>1 DEF Partial!SelectionType, Representation
      <4> QED BY <2>1, <4>1 DEF Partial!SelectedRows, Partial!IsSelected
    <3>2. CASE selection.selectable # Unknown
      <4>1. {r \in selection.selectable : Partial!IsSelected(selection, r)} = selection.selectable
        BY <2>1, <2>2, <3>2, TypeIsSo
      <4> QED BY <2>1, <3>2, <4>1 DEF Partial!SelectedRows
    <3> QED BY <3>1, <3>2
  <2>3. commit' = [pc |-> "stage", selection |-> selection, diff |-> fileDiff, chosen |-> chosen]
    BY DEF Partial!Commit
  <2> QED BY <2>1, <2>2, <2>3 DEF CommitIsOfChoice
<1> QED BY <1>1, <1>2

\* What is staged.
LEMMA StageStep ==
    ASSUME PatchInv, Partial!Stage
    PROVE  disk' \in AnyScript /\ CommitIsOfChoice' /\ StagedIsSelected' /\ DiscardedIsSelected'
<1> DEFINE all == Partial!SelectionType(commit.selection) = "All"
           now == Partial!Diff(disk)
           entries == IF all THEN Partial!Changed(disk)
                      ELSE Partial!EntriesOf(now, Partial!SelectedRows(now, commit.selection))
           staged == CASE all -> Partial!NewText(disk)
                       [] ~all /\ entries = {} -> Rejected
                       [] OTHER -> Partial!Apply(Partial!OldText(disk),
                                                 Partial!FormatPatch(now, entries))
           fresh == commit.diff # None /\ commit.diff.script = disk
           of == IF fresh THEN Partial!EntriesOf(now, commit.chosen) ELSE entries
<1>1. /\ commit # None /\ commit.pc = "stage"
      /\ result' = [kind |-> "commit", fresh |-> fresh, script |-> disk, text |-> staged,
                    entries |-> of]
      /\ \/ commit' = None /\ disk' = disk
         \/ commit' = [commit EXCEPT !.pc = "refresh"]
            /\ disk' = Partial!Left(disk, entries, "Delete")
  BY DEF Partial!Stage
<1>2. disk \in AnyScript /\ CommitIsOfChoice
  BY DEF PatchInv
<1>3. disk' \in AnyScript
  BY <1>1, <1>2, LeftIsScript
<1>4. CommitIsOfChoice'
  <2>1. CASE commit' = None
    BY <2>1 DEF CommitIsOfChoice
  <2>2. CASE commit' = [commit EXCEPT !.pc = "refresh"]
    BY <1>1, <1>2, <2>2 DEF CommitIsOfChoice
  <2> QED BY <1>1, <2>1, <2>2
<1>5. ASSUME fresh, of # {},
             Partial!Distinct(Partial!OldText(disk)) \/ Partial!InPlace(disk, of)
      PROVE  staged = Partial!Texts(disk, Partial!Committed(disk, of))
  <2>1. /\ commit.diff = now /\ commit.chosen = Partial!SelectedRows(now, commit.selection)
        /\ all => commit.chosen = Partial!Includeable(now)
    BY <1>1, <1>2, <1>5, DiffOfScript DEF CommitIsOfChoice
  <2>2. CASE all
    <3>1. of = Partial!Changed(disk)
      BY <1>2, <1>5, <2>1, <2>2, EntriesAre
    <3> QED BY <1>2, <2>2, <3>1, CommittedWhole DEF Partial!NewText
  <2>3. CASE ~all
    <3>1. of = entries /\ of \in SUBSET Partial!Changed(disk)
      BY <1>2, <1>5, <2>1, <2>3, EntriesAre
    <3>2. staged = Partial!Apply(Partial!OldText(disk), Partial!FormatPatch(now, of))
      BY <1>5, <2>3, <3>1
    <3> QED BY <1>2, <1>5, <3>1, <3>2, CommitPatchIs
  <2> QED BY <2>2, <2>3
<1> HIDE DEF all, now, entries, staged, fresh, of
<1>6. StagedIsSelected'
  BY <1>1, <1>5 DEF StagedIsSelected, Partial!StagedIsSelected, Partial!Wanted
<1>7. DiscardedIsSelected'
  BY <1>1 DEF DiscardedIsSelected, Partial!DiscardedIsSelected
<1> QED BY <1>3, <1>4, <1>6, <1>7

\* What is discarded. The selection made for it has the rows asked for and no others.
LEMMA DiscardStep ==
    ASSUME PatchInv, NEW rows, Partial!DiscardLines(rows)
    PROVE  disk' \in AnyScript /\ StagedIsSelected' /\ DiscardedIsSelected'
<1> DEFINE none == Partial!WithSelectNone(selection)
           only == Partial!WithRangeSelection(none, rows, TRUE)
           entries == Partial!EntriesOf(fileDiff, Partial!SelectedRows(fileDiff, only))
           fresh == fileDiff.script = disk
           of == Partial!EntriesOf(fileDiff, rows)
           text == Partial!Apply(Partial!NewText(disk),
                                 Partial!FormatPatchToDiscardChanges(fileDiff, entries))
<1>1. /\ fileDiff # None
      /\ result' = [kind |-> "discard", fresh |-> fresh, script |-> fileDiff.script,
                    text |-> text, entries |-> of]
      /\ disk' = disk \/ disk' = Partial!Left(disk, entries, "Add")
  BY DEF Partial!DiscardLines
<1>2. /\ disk \in AnyScript /\ fileDiff \in AnyDiff /\ Representation(selection)
      /\ selection.selectable = Unknown \/ selection.selectable = Partial!Includeable(fileDiff)
  BY <1>1 DEF PatchInv, ChosenInv, SelectableIsShown
<1>3. disk' \in AnyScript
  BY <1>1, <1>2, LeftIsScript
<1>4. entries = of /\ of \in SUBSET Partial!Changed(fileDiff.script)
  <2>1. /\ Representation(none) /\ none.selectable = selection.selectable
        /\ \A r : ~Partial!IsSelected(none, r)
    <3>1. none = [selection EXCEPT !.default = "None", !.diverging = {}]
      BY DEF Partial!WithSelectNone
    <3>2. none.default = "None" /\ none.diverging = {} /\ none.selectable = selection.selectable
      BY <1>2, <3>1 DEF Representation
    <3>3. Representation(none)
      BY <1>2, <3>1, <3>2 DEF Representation
    <3>4. ASSUME NEW r PROVE ~Partial!IsSelected(none, r)
      <4>1. (none.default = "All") = FALSE /\ (r \in none.diverging) = FALSE
        BY <3>2
      <4> QED BY <4>1 DEF Partial!IsSelected
    <3> QED BY <3>2, <3>3, <3>4
  <2> HIDE DEF none
  <2>2. \A r : none.selectable = Unknown \/ r \in none.selectable =>
               (Partial!IsSelected(only, r) <=> r \in rows)
    BY <2>1, RangeIsSelected
  <2> HIDE DEF only
  <2>3. Partial!SelectedRows(fileDiff, only) = rows \cap Partial!Includeable(fileDiff)
    BY <1>2, <2>1, <2>2 DEF Partial!SelectedRows
  <2> QED BY <1>2, <2>3, DiffOfScript, EntriesAre
<1>5. ASSUME fresh, Partial!Distinct(Partial!NewText(disk)) \/ Partial!InPlace(disk, of)
      PROVE  text = Partial!Texts(disk, Partial!Remaining(disk, of))
  BY <1>2, <1>4, <1>5, DiffOfScript, DiscardPatchIs
<1> HIDE DEF none, only, entries, fresh, of, text
<1>6. fresh => fileDiff.script = disk
  BY DEF fresh
<1>7. DiscardedIsSelected'
  BY <1>1, <1>5, <1>6 DEF DiscardedIsSelected, Partial!DiscardedIsSelected, Partial!Wanted
<1>8. StagedIsSelected'
  BY <1>1 DEF StagedIsSelected, Partial!StagedIsSelected
<1> QED BY <1>3, <1>7, <1>8

LEMMA PatchBegins == Partial!Init => PatchInv
<1> SUFFICES ASSUME Partial!Init PROVE PatchInv
  OBVIOUS
<1>1. Script \in SUBSET AnyScript
  BY PartialAssumed DEF Partial!PartialCommitAssumption, AnyScript
<1>2. diffLoads \in [DiffLoad -> LoadStates]
  BY DEF Partial!Init, Partial!Idle, LoadStates
<1> QED BY <1>1, <1>2, ChosenBegins
        DEF Partial!Init, PatchInv, CommitIsOfChoice, StagedIsSelected, DiscardedIsSelected,
            Partial!StagedIsSelected, Partial!DiscardedIsSelected

\* One step per action.
LEMMA PatchNext ==
    ASSUME PatchInv, [Partial!Next]_Partial!vars
    PROVE  PatchInv'
<1>1. ChosenInv'
  BY ChosenNext DEF PatchInv
<1>2. result' = None => StagedIsSelected' /\ DiscardedIsSelected'
  BY DEF StagedIsSelected, DiscardedIsSelected, Partial!StagedIsSelected,
         Partial!DiscardedIsSelected
<1>3. commit' = commit => CommitIsOfChoice'
  BY DEF PatchInv, CommitIsOfChoice
<1>4. ASSUME NEW l \in DiffLoad, Partial!LoadDiff(l)
      PROVE  diffLoads' \in [DiffLoad -> LoadStates]
  BY <1>4 DEF PatchInv, Partial!LoadDiff, LoadStates
<1>5. ASSUME NEW clear, Partial!Refreshed(clear)
      PROVE  fileDiff' # None => fileDiff' \in AnyDiff
  BY <1>5 DEF PatchInv, Partial!Refreshed
<1>6. CASE Partial!EditFile
  <2>1. disk' \in AnyScript
    BY <1>6, PartialAssumed DEF Partial!EditFile, Partial!PartialCommitAssumption, AnyScript
  <2> QED BY <1>1, <1>2, <1>3, <1>6, <2>1 DEF PatchInv, Partial!EditFile
<1>7. CASE Partial!Commit
  BY <1>1, <1>2, <1>7, CommitBegins DEF PatchInv, Partial!Commit
<1>8. CASE Partial!Stage
  BY <1>1, <1>8, StageStep DEF PatchInv, Partial!Stage
<1>9. ASSUME NEW l \in DiffLoad, Partial!StatusLoaded(l) PROVE PatchInv'
  BY <1>1, <1>2, <1>3, <1>4, <1>5, <1>9 DEF PatchInv, Partial!StatusLoaded
<1>10. ASSUME NEW l \in DiffLoad, Partial!GitDiff(l) PROVE PatchInv'
  <2>1. Partial!Diff(disk) \in AnyDiff
    BY DEF PatchInv, AnyDiff
  <2>2. diffLoads' \in [DiffLoad -> LoadStates]
    BY <1>10, <2>1 DEF PatchInv, Partial!GitDiff, LoadStates
  <2> QED BY <1>1, <1>2, <1>3, <1>10, <2>2 DEF PatchInv, Partial!GitDiff
<1>11. ASSUME NEW l \in DiffLoad, Partial!DiffLoaded(l) PROVE PatchInv'
  <2>1. diffLoads[l].diff \in AnyDiff
    BY <1>11 DEF PatchInv, Partial!DiffLoaded, LoadStates
  <2>2. diffLoads' \in [DiffLoad -> LoadStates]
    BY <1>11 DEF PatchInv, Partial!DiffLoaded, LoadStates, Partial!Idle
  <2> QED BY <1>1, <1>2, <1>3, <1>11, <2>1, <2>2 DEF PatchInv, Partial!DiffLoaded
<1>12. ASSUME NEW l \in DiffLoad, Partial!CommitDone(l) PROVE PatchInv'
  <2>1. CommitIsOfChoice'
    BY <1>12 DEF Partial!CommitDone, CommitIsOfChoice
  <2> QED BY <1>1, <1>2, <1>4, <1>5, <1>12, <2>1 DEF PatchInv, Partial!CommitDone
<1>13. ASSUME NEW include \in BOOLEAN, Partial!IncludeFile(include) PROVE PatchInv'
  BY <1>1, <1>2, <1>3, <1>13 DEF PatchInv, Partial!IncludeFile
<1>14. ASSUME NEW rows, Partial!DiscardLines(rows) PROVE PatchInv'
  BY <1>1, <1>3, <1>14, DiscardStep DEF PatchInv, Partial!DiscardLines
<1>15. ASSUME NEW rows, NEW selected \in BOOLEAN, Partial!SelectLines(rows, selected)
       PROVE  PatchInv'
  BY <1>1, <1>2, <1>3, <1>15 DEF PatchInv, Partial!SelectLines
<1>16. CASE UNCHANGED Partial!vars
  <2>1. StagedIsSelected' /\ DiscardedIsSelected'
    BY <1>16 DEF Partial!vars, PatchInv, StagedIsSelected, DiscardedIsSelected,
       Partial!StagedIsSelected, Partial!DiscardedIsSelected
  <2> QED BY <1>1, <1>3, <1>16, <2>1 DEF Partial!vars, PatchInv
<1> QED
  BY <1>6, <1>7, <1>8, <1>9, <1>10, <1>11, <1>12, <1>13, <1>14, <1>15, <1>16
     DEF Partial!Next

\* The rows of a diff are counted from 0.
LEMMA RowsAre ==
    ASSUME NEW d \in AnyDiff
    PROVE  Partial!Includeable(d) \in SUBSET Nat
<1>1. PICK s \in AnyScript : d = Partial!Diff(s)
  BY DEF AnyDiff
<1>2. \A n \in DOMAIN d.hunks : d.hunks[n].first \in Nat /\ d.hunks[n].unifiedDiffStart \in Nat
  <2>1. DiffHas(s, d.hunks, Cardinality(Firsts(s)))
    BY <1>1, DiffIs
  <2> QED BY <1>1, <2>1, DiffConsists, ScriptIs DEF DiffHas
<1>3. ASSUME NEW l \in Partial!Lines(d) PROVE l.row \in Nat
  <2>1. PICK n \in DOMAIN d.hunks :
           l \in {[row |-> d.hunks[n].unifiedDiffStart + 1 + i - d.hunks[n].first, entry |-> i] :
                    i \in {j \in d.hunks[n].first .. d.hunks[n].last :
                             d.script[j].type # "Context"}}
    BY DEF Partial!Lines
  <2>2. PICK first, last, start : /\ first = d.hunks[n].first /\ last = d.hunks[n].last
                                  /\ start = d.hunks[n].unifiedDiffStart
    OBVIOUS
  <2>3. first \in Nat /\ start \in Nat
    BY <1>2, <2>2
  <2>4. PICK i \in first .. last : l.row = start + 1 + i - first
    BY <2>1, <2>2
  <2> QED BY ONLY <2>3, <2>4
<1> QED BY <1>3 DEF Partial!Includeable

LinesTyped ==
    /\ listed \in BOOLEAN /\ (fileDiff # None => listed)
    /\ selection \in Partial!DiffSelections(Nat) /\ chosen \in SUBSET Nat
    /\ commit # None => /\ commit.pc \in {"stage", "refresh"}
                        /\ commit.selection \in Partial!DiffSelections(Nat)

\* No operation on a selection selects what is not a row.
LEMMA SelectionTyped ==
    ASSUME NEW s \in Partial!DiffSelections(Nat), NEW rows \in SUBSET Nat,
           NEW selected \in BOOLEAN
    PROVE  /\ Partial!WithRangeSelection(s, rows, selected) \in Partial!DiffSelections(Nat)
           /\ Partial!WithSelectableLines(s, rows) \in Partial!DiffSelections(Nat)
           /\ Partial!WithSelectAll(s) \in Partial!DiffSelections(Nat)
           /\ Partial!WithSelectNone(s) \in Partial!DiffSelections(Nat)
<1>1. Partial!Selectable(s, rows) \in SUBSET Nat
  BY DEF Partial!Selectable
<1>2. Partial!SelectionType(s) \in {"All", "None", "Partial"}
  BY DEF Partial!SelectionType, Partial!DiffSelections
<1>3. Partial!WithRangeSelection(s, rows, selected) \in Partial!DiffSelections(Nat)
  BY <1>1, <1>2 DEF Partial!WithRangeSelection, Partial!DiffSelections
<1> QED
  BY <1>3 DEF Partial!DiffSelections, Partial!WithSelectableLines, Partial!WithSelectAll,
     Partial!WithSelectNone

LEMMA TypedBegins == Partial!Init => LinesTyped
<1>1. Partial!FromInitialSelection("All") \in Partial!DiffSelections(Nat)
  BY DEF Partial!FromInitialSelection, Partial!DiffSelections
<1> QED BY <1>1 DEF Partial!Init, LinesTyped

\* A status gives up a selection or keeps it.
LEMMA RefreshTyped ==
    ASSUME PatchInv, LinesTyped, NEW clear \in BOOLEAN, Partial!Refreshed(clear)
    PROVE  /\ listed' \in BOOLEAN /\ (fileDiff' # None => listed')
           /\ selection' \in Partial!DiffSelections(Nat) /\ chosen' \in SUBSET Nat
<1>1. \A type \in {"All", "None"} :
         Partial!FromInitialSelection(type) \in Partial!DiffSelections(Nat)
  BY DEF Partial!FromInitialSelection, Partial!DiffSelections
<1>2. selection' \in Partial!DiffSelections(Nat)
  BY <1>1 DEF Partial!Refreshed, LinesTyped
<1>3. fileDiff # None => Partial!Includeable(fileDiff) \in SUBSET Nat
  BY RowsAre DEF PatchInv
<1>4. chosen' \in SUBSET Nat
  BY <1>3 DEF Partial!Refreshed, LinesTyped, Partial!SelectedRows
<1> QED BY <1>2, <1>4 DEF Partial!Refreshed

LEMMA TypedNext ==
    ASSUME PatchInv, LinesTyped, [Partial!Next]_Partial!vars
    PROVE  LinesTyped'
<1> USE DEF LinesTyped
<1>1. CASE Partial!EditFile
  BY <1>1 DEF Partial!EditFile
<1>2. CASE Partial!Commit
  BY <1>2 DEF Partial!Commit
<1>3. CASE Partial!Stage
  <2>1. commit # None => commit = [pc |-> commit.pc, selection |-> commit.selection,
                                   diff |-> commit.diff, chosen |-> commit.chosen]
    BY DEF PatchInv, CommitIsOfChoice
  <2>2. commit' = None \/ commit' = [commit EXCEPT !.pc = "refresh"]
    BY <1>3 DEF Partial!Stage
  <2>3. commit # None /\ UNCHANGED <<listed, fileDiff, selection, chosen>>
    BY <1>3 DEF Partial!Stage
  <2> QED BY <2>1, <2>2, <2>3
<1>4. ASSUME NEW l \in DiffLoad, Partial!StatusLoaded(l) PROVE LinesTyped'
  BY <1>4, RefreshTyped DEF Partial!StatusLoaded
<1>5. ASSUME NEW l \in DiffLoad, Partial!GitDiff(l) PROVE LinesTyped'
  BY <1>5 DEF Partial!GitDiff
<1>6. ASSUME NEW l \in DiffLoad, Partial!DiffLoaded(l) PROVE LinesTyped'
  <2>1. CASE ~listed
    BY <1>6, <2>1 DEF Partial!DiffLoaded
  <2>2. CASE listed
    <3>1. diffLoads[l].diff \in AnyDiff
      BY <1>6 DEF PatchInv, Partial!DiffLoaded, LoadStates
    <3>2. /\ fileDiff' = diffLoads[l].diff
          /\ selection' = Partial!WithSelectableLines(selection, Partial!Includeable(fileDiff'))
          /\ chosen' = chosen \/ chosen' = Partial!SelectedRows(fileDiff', selection')
          /\ UNCHANGED <<listed, commit>>
      BY <1>6, <2>2 DEF Partial!DiffLoaded
    <3>3. Partial!Includeable(fileDiff') \in SUBSET Nat
      BY <3>1, <3>2, RowsAre
    <3>4. selection' \in Partial!DiffSelections(Nat)
      BY <3>2, <3>3, SelectionTyped
    <3> QED BY <2>2, <3>2, <3>3, <3>4 DEF Partial!SelectedRows
  <2> QED BY <2>1, <2>2
<1>7. ASSUME NEW l \in DiffLoad, Partial!CommitDone(l) PROVE LinesTyped'
  BY <1>7, RefreshTyped DEF Partial!CommitDone
<1>8. ASSUME NEW include \in BOOLEAN, Partial!IncludeFile(include) PROVE LinesTyped'
  <2>1. fileDiff # None => Partial!Includeable(fileDiff) \in SUBSET Nat
    BY RowsAre DEF PatchInv
  <2>2. selection' \in Partial!DiffSelections(Nat)
    BY <1>8, SelectionTyped DEF Partial!IncludeFile
  <2> QED BY <1>8, <2>1, <2>2 DEF Partial!IncludeFile
<1>9. ASSUME NEW rows, Partial!DiscardLines(rows) PROVE LinesTyped'
  BY <1>9 DEF Partial!DiscardLines
<1>10. ASSUME NEW rows \in Partial!Gestures(fileDiff), NEW selected \in BOOLEAN,
              Partial!SelectLines(rows, selected)
       PROVE  LinesTyped'
  <2>1. fileDiff # None /\ Partial!Includeable(fileDiff) \in SUBSET Nat
    BY <1>10, RowsAre DEF PatchInv, Partial!SelectLines
  <2>2. rows \in SUBSET Nat
    BY <2>1 DEF Partial!Gestures
  <2>3. selection' \in Partial!DiffSelections(Nat)
    BY <1>10, <2>2, SelectionTyped DEF Partial!SelectLines
  <2> QED BY <1>10, <2>1, <2>3 DEF Partial!SelectLines
<1>11. CASE UNCHANGED Partial!vars
  BY <1>11 DEF Partial!vars
<1> QED
  BY <1>1, <1>2, <1>3, <1>4, <1>5, <1>6, <1>7, <1>8, <1>9, <1>10, <1>11 DEF Partial!Next

\* These are the types of the module.
LEMMA LinesAreTyped ==
    ASSUME PatchInv, LinesTyped
    PROVE  Partial!TypeOK
<1>1. disk \in AnyScript /\ diffLoads \in [DiffLoad -> LoadStates]
  BY DEF PatchInv
<1>2. \A n \in DOMAIN disk : disk[n].type \in Partial!LineTypes
  BY <1>1, ScriptIs DEF Partial!Entries
<1>3. \A l \in DiffLoad : diffLoads[l].pc \in {"idle", "asked", "read"}
  BY <1>1 DEF LoadStates
<1> QED BY <1>2, <1>3 DEF LinesTyped, Partial!TypeOK

-----------------------------------------------------------------------------
(* The refreshes of pull requests.                                           *)

PullRequest == [number : Requests!Number, open : BOOLEAN, updated : 0 .. MaxTime]

ListOp == [pc : {"updated", "open"}, got : SUBSET PullRequest, from : Nat]

StoreTyped ==
    /\ github \in [Requests!Number -> [open : BOOLEAN, updated : 0 .. MaxTime]]
    /\ clock \in Requests!Time /\ db \in Requests!PullRequests /\ lastUpdated \in 0 .. MaxTime
    /\ cache \in Requests!Copy /\ shown \in Requests!Copy /\ reader \in Requests!Copy
    /\ shown # None => cache # None
    /\ op # None => \/ op \in [pc : {"begin", "emit"}] \/ op \in ListOp
                    \/ op \in [pc : {"store"}, answer : SUBSET PullRequest]
    /\ unsure \subseteq Requests!Number /\ tied \subseteq Requests!Number

\* What was updated is not in the future, nothing is stored before a first update, and
\* those updated at the same time are known.
Times ==
    /\ lastUpdated <= clock /\ \A n \in Requests!Number : github[n].updated <= clock
    /\ lastUpdated = 0 => \A n \in Requests!Number : db[n] = 0
    /\ \A n \in Requests!Number : github[n].open => github[n].updated > 0
    /\ \A m, n \in Requests!Number :
          m # n /\ github[m].updated > 0 /\ github[m].updated = github[n].updated => m \in tied

\* What a refresh is not to miss.
Sure == Requests!Number \ (unsure \cup tied)

Stored(n) == db[n] = IF github[n].open THEN github[n].updated ELSE 0

\* A pull request is no older than all of an answer.
After(n, answer) == \A p \in answer : p.updated <= github[n].updated

\* What was read is what GitHub has.
IsAsRead(p) == github[p.number].open = p.open /\ github[p.number].updated = p.updated

\* Those before n in a list.
Above(list, key, n) == {m \in list : key[m] > key[n]}

\* The pages read so far: a pull request they do not have is after as many as were
\* received, or what they have of it is unsure.
PagesKnow ==
    op # None /\ op.pc \in {"updated", "open"} =>
      /\ op.from = 0 => op.got = {}
      /\ \A p \in op.got : /\ 0 < p.updated /\ p.updated <= clock
                           /\ p.number \notin unsure => IsAsRead(p)
      /\ op.pc = "updated" =>
           /\ lastUpdated # 0
           /\ \A n \in (Sure \cap Requests!Existing) \ Requests!Read :
                 op.from <= Cardinality(Above(Requests!Existing, Requests!Updated, n))
      /\ op.pc = "open" =>
           /\ lastUpdated = 0
           /\ \A n \in (Requests!Open \ unsure) \ Requests!Read :
                 op.from <= Cardinality(Above(Requests!Open, Requests!Newest, n))

\* The answer that is to be stored was right when GitHub gave it, and what changed since
\* is as new as all of it.
AnswerKnows ==
    op # None /\ op.pc = "store" =>
      /\ \A p \in op.answer : 0 < p.updated /\ p.updated <= clock
      /\ \A n \in Sure :
            \/ After(n, op.answer)
            \/ /\ \A p \in op.answer : p.number = n => IsAsRead(p)
               /\ (\A p \in op.answer : p.number # n) => github[n].updated = 0 \/ Stored(n)

StoreInv == StoreTyped /\ Times /\ PagesKnow /\ AnswerKnows /\ Synced

LEMMA RequestFacts ==
    /\ Count \in Nat /\ MaxTime \in Nat \ {0} /\ PageSize \in Nat \ {0}
    /\ Interval \in Nat /\ Frequency \in Nat /\ MaxTimers \in Nat
    /\ 0 < Frequency /\ Frequency < Interval
    /\ Requests!Number = 1 .. Count /\ Requests!Time = 1 .. MaxTime
    /\ Requests!PullRequests = [Requests!Number -> 0 .. MaxTime]
BY RequestsAssumed, UpdaterAssumed
   DEF Requests!PullRequestAssumption, Requests!UpdaterAssumption, Requests!Number,
       Requests!Time, Requests!PullRequests

\* Of what was answered one is the newest.
LEMMA NewestIs ==
    ASSUME NEW S \in SUBSET Nat, S # {}, NEW m \in Nat, \A x \in S : x <= m
    PROVE  Requests!Max(S) \in S /\ \A x \in S : x <= Requests!Max(S)
<1> DEFINE D == {d \in Nat : m - d \in S}
<1>1. D \in SUBSET Nat /\ D # {}
  <2>1. PICK x \in S : TRUE
    OBVIOUS
  <2>2. m - x \in Nat /\ m - (m - x) = x
    BY <2>1
  <2> QED BY <2>1, <2>2
<1>2. \A d \in Nat : d \in D <=> m - d \in S
  OBVIOUS
<1> HIDE DEF D
<1>3. PICK d \in D : \A e \in D : d <= e
  BY <1>1, LeastIs
<1>4. d \in Nat /\ m - d \in S
  BY <1>1, <1>2, <1>3
<1>5. ASSUME NEW x \in S PROVE m - d >= x
  <2>1. x \in Nat /\ x <= m
    OBVIOUS
  <2>2. m - x \in Nat /\ m - (m - x) = x
    BY <2>1
  <2>3. d <= m - x
    BY <1>2, <1>3, <2>2
  <2> QED BY <1>4, <2>1, <2>3
<1>6. \E x \in S : \A y \in S : x >= y
  BY <1>4, <1>5
<1> QED BY <1>6 DEF Requests!Max

\* Sets of pull requests are finite.
LEMMA NumbersCount ==
    ASSUME NEW S \in SUBSET Requests!Number
    PROVE  IsFiniteSet(S) /\ Cardinality(S) \in Nat
<1>1. IsFiniteSet(Requests!Number)
  BY FS_Interval, RequestFacts
<1> QED BY <1>1, FS_Subset, FS_CardinalityType

LEMMA NumbersGrow ==
    ASSUME NEW T \in SUBSET Requests!Number, NEW S \in SUBSET T
    PROVE  Cardinality(S) <= Cardinality(T)
BY NumbersCount, FS_Subset

LEMMA SameCount ==
    \A S : Requests!Cardinality(S) = Cardinality(S)
BY Zenon DEF Requests!Cardinality, Cardinality

\* A page has what follows the items received: what is neither on it nor among as many as
\* were received before is after all of them.
LEMMA PageIs ==
    ASSUME NEW list \in SUBSET Requests!Number, NEW key \in [Requests!Number -> Nat],
           op.from \in Nat, NEW front \in SUBSET list, NEW page \in SUBSET list,
           Requests!IsPage(page, front, list, key),
           NEW n \in list, n \notin page,
           op.from <= Cardinality(Above(list, key, n)),
           \A m \in list : key[m] = key[n] => m = n
    PROVE  /\ n \notin front
           /\ \A m \in front \cup page : key[m] > key[n]
           /\ op.from + Cardinality(page) <= Cardinality(Above(list, key, n))
<1> DEFINE above == Above(list, key, n)
<1>1. /\ page \subseteq list \ front
      /\ Cardinality(front) <= op.from /\ (Cardinality(front) = op.from \/ front = list)
      /\ \A k \in front, m \in list \ front : key[k] >= key[m]
      /\ \A k \in page, m \in list \ (front \cup page) : key[k] >= key[m]
  BY SameCount DEF Requests!IsPage
<1>2. \A m \in list : key[m] \in Nat /\ (m \in above <=> key[m] > key[n])
  BY DEF Above
<1>3. above \in SUBSET list
  BY DEF Above
<1> HIDE DEF above
<1>4. n \notin front
  <2>1. SUFFICES ASSUME n \in front PROVE FALSE
    OBVIOUS
  <2>2. above \subseteq front \ {n}
    <3>1. SUFFICES ASSUME NEW m \in above PROVE m \in front \ {n}
      OBVIOUS
    <3>2. m \in list /\ key[m] > key[n] /\ key[m] \in Nat /\ key[n] \in Nat
      BY <1>2, <1>3
    <3>3. m # n
      BY <3>2
    <3>4. ~ (key[n] >= key[m])
      BY <3>2
    <3> QED BY <1>1, <2>1, <3>2, <3>3, <3>4
  <2>3. /\ front \ {n} \in SUBSET front /\ front \in SUBSET Requests!Number
        /\ front \ {n} \in SUBSET Requests!Number /\ front # front \ {n}
    BY <2>1
  <2>4. Cardinality(above) <= Cardinality(front \ {n})
    BY <2>2, <2>3, NumbersGrow
  <2>5. /\ Cardinality(front \ {n}) <= Cardinality(front)
        /\ Cardinality(front \ {n}) # Cardinality(front)
        /\ Cardinality(front \ {n}) \in Nat /\ Cardinality(front) \in Nat
    BY <2>3, NumbersCount, FS_Subset
  <2>6. Cardinality(above) \in Nat /\ op.from <= Cardinality(above)
    BY <1>3, NumbersCount DEF above
  <2> QED BY <1>1, <2>4, <2>5, <2>6
<1>5. \A m \in front \cup page : key[m] > key[n]
  <2>1. TAKE m \in front \cup page
  <2>2. m \in list /\ m # n /\ key[m] \in Nat /\ key[n] \in Nat /\ key[m] # key[n]
    BY <1>2, <1>4
  <2>3. key[m] >= key[n]
    BY <1>1, <1>4
  <2> QED BY <2>2, <2>3
<1>6. front \cup page \in SUBSET above
  BY <1>2, <1>5
<1>7. /\ front \in SUBSET Requests!Number /\ page \in SUBSET Requests!Number
      /\ above \in SUBSET Requests!Number
  BY <1>3
<1>8. Cardinality(front \cup page) = Cardinality(front) + Cardinality(page)
  <2>1. /\ IsFiniteSet(front) /\ IsFiniteSet(page) /\ Cardinality(front) \in Nat
        /\ Cardinality(page) \in Nat
    BY <1>7, NumbersCount
  <2>2. front \cap page = {}
    BY <1>1
  <2>3. Cardinality(front \cap page) = 0
    BY <2>2, FS_EmptySet
  <2> QED BY <2>1, <2>3, FS_Union
<1>9. Cardinality(front \cup page) <= Cardinality(above)
  BY <1>6, <1>7, NumbersGrow
<1>10. Cardinality(front) = op.from
  BY <1>1, <1>4
<1> QED BY <1>4, <1>5, <1>8, <1>9, <1>10 DEF above

LEMMA StoreBegins ==
    Requests!Init => StoreInv
<1> SUFFICES ASSUME Requests!Init PROVE StoreInv
  OBVIOUS
<1>1. /\ github = [n \in Requests!Number |-> [open |-> FALSE, updated |-> 0]] /\ clock = 1
      /\ db = [n \in Requests!Number |-> 0] /\ lastUpdated = 0
      /\ cache = None /\ shown = None /\ reader = None /\ op = None
      /\ unsure = {} /\ tied = {}
  BY DEF Requests!Init
<1>2. StoreTyped
  BY <1>1, RequestFacts DEF StoreTyped, Requests!Copy
<1>3. Times
  BY <1>1 DEF Times
<1> QED BY <1>1, <1>2, <1>3 DEF StoreInv, PagesKnow, AnswerKnows, Synced, Requests!Synced

\* An answer is right when GitHub gives it.
LEMMA AnswerIs ==
    ASSUME StoreInv, NEW S \in SUBSET Requests!Number, \A n \in S : github[n].updated > 0
    PROVE  LET a == Requests!Answer(S)
           IN /\ a \in SUBSET PullRequest
              /\ \A p \in a : p.number \in S /\ 0 < p.updated /\ p.updated <= clock /\ IsAsRead(p)
              /\ \A n \in S : \E p \in a : p.number = n
<1> DEFINE P(n) == [number |-> n, open |-> github[n].open, updated |-> github[n].updated]
<1>1. Requests!Answer(S) = {P(n) : n \in S}
  BY DEF Requests!Answer
<1>2. \A n \in S : /\ github[n] \in [open : BOOLEAN, updated : 0 .. MaxTime]
                   /\ github[n].updated > 0 /\ github[n].updated <= clock
  BY DEF StoreInv, StoreTyped, Times
<1>3. \A n \in S : /\ P(n) \in PullRequest
                   /\ P(n).number = n /\ P(n).open = github[n].open
                   /\ P(n).updated = github[n].updated
  BY <1>2, RequestFacts DEF PullRequest
<1> HIDE DEF P
<1> QED BY <1>1, <1>2, <1>3 DEF IsAsRead

\* Only where the refresh is.
LEMMA RefreshMoves ==
    ASSUME StoreInv, UNCHANGED <<github, clock, db, lastUpdated, unsure, tied>>,
           cache' \in Requests!Copy, shown' \in Requests!Copy, reader' \in Requests!Copy,
           shown' # None => cache' # None,
           op' = op \/ op' = None \/ op' \in [pc : {"begin", "emit"}]
    PROVE  StoreInv'
<1>1. StoreTyped'
  BY DEF StoreInv, StoreTyped, ListOp
<1>2. Times' /\ Synced'
  BY DEF StoreInv, Times, Synced, Requests!Synced
<1>3. CASE op' = op
  BY <1>1, <1>2, <1>3
     DEF StoreInv, PagesKnow, AnswerKnows, Stored, After, IsAsRead, Sure, Above,
         Requests!Existing, Requests!Updated, Requests!Open, Requests!Newest, Requests!Read
<1>4. CASE op' # op
  BY <1>1, <1>2, <1>4 DEF StoreInv, PagesKnow, AnswerKnows
<1> QED BY <1>3, <1>4

\* Copies of the table stay copies of it when it changes.
LEMMA OutdatedIs ==
    ASSUME StoreTyped, Requests!CopiesOutdated
    PROVE  /\ cache' \in Requests!Copy /\ shown' \in Requests!Copy /\ reader' \in Requests!Copy
           /\ shown' # None => cache' # None
BY DEF StoreTyped, Requests!Copy, Requests!CopiesOutdated, Requests!Outdated

\* A list is asked for: of what changed since lastUpdated, or of all open ones if there is
\* nothing stored that it could miss.
LEMMA ListingBegins ==
    ASSUME StoreInv, NEW pc \in {"updated", "open"},
           op' = [pc |-> pc, got |-> {}, from |-> 0], UNCHANGED <<github, clock, tied>>,
           cache' \in Requests!Copy, shown' \in Requests!Copy, reader' \in Requests!Copy,
           shown' # None => cache' # None,
           \/ pc = "updated" /\ lastUpdated # 0 /\ UNCHANGED <<db, lastUpdated, unsure>>
           \/ /\ pc = "open" /\ lastUpdated' = 0 /\ unsure' = {}
              /\ db' = [n \in Requests!Number |-> 0]
    PROVE  StoreInv'
<1>1. op' \in ListOp /\ op'.pc = pc /\ op'.got = {} /\ op'.from = 0
  BY DEF ListOp
<1>2. StoreTyped'
  <2>1. db' \in Requests!PullRequests /\ lastUpdated' \in 0 .. MaxTime
    BY RequestFacts DEF StoreInv, StoreTyped
  <2>2. unsure' \subseteq Requests!Number /\ tied' \subseteq Requests!Number
    BY DEF StoreInv, StoreTyped
  <2> QED BY <1>1, <2>1, <2>2 DEF StoreInv, StoreTyped
<1>3. Times'
  BY RequestFacts DEF StoreInv, StoreTyped, Times
<1>4. PagesKnow'
  <2>1. /\ \A n \in (Requests!Existing)' :
              Cardinality(Above(Requests!Existing, Requests!Updated, n))' \in Nat
        /\ \A n \in (Requests!Open)' :
              Cardinality(Above(Requests!Open, Requests!Newest, n))' \in Nat
    BY NumbersCount DEF Above, Requests!Existing, Requests!Open
  <2> QED BY <1>1, <2>1 DEF PagesKnow
<1>5. AnswerKnows'
  BY <1>1 DEF AnswerKnows
<1>6. Synced'
  BY DEF StoreInv, Synced, Requests!Synced
<1> QED BY <1>2, <1>3, <1>4, <1>5, <1>6 DEF StoreInv

\* A page adds what GitHub has now to what was read.
LEMMA PageRead ==
    ASSUME StoreInv, op # None, op.pc \in {"updated", "open"},
           NEW page \in SUBSET Requests!Number, \A n \in page : github[n].updated > 0
    PROVE  LET got == op.got \cup Requests!Answer(page)
           IN /\ got \in SUBSET PullRequest
              /\ \A p \in got : /\ 0 < p.updated /\ p.updated <= clock
                                /\ p.number \notin unsure => IsAsRead(p)
              /\ \A n \in Requests!Read \cup page : \E p \in got : p.number = n
              /\ \A p \in got : p.number \in Requests!Read \cup page
<1>1. op \in ListOp
  BY DEF StoreInv, StoreTyped
<1>2. op.got \in SUBSET PullRequest
  BY <1>1 DEF ListOp
<1>3. \A p \in op.got : /\ 0 < p.updated /\ p.updated <= clock
                        /\ p.number \notin unsure => IsAsRead(p)
  BY DEF StoreInv, PagesKnow
<1>4. LET a == Requests!Answer(page)
      IN /\ a \in SUBSET PullRequest
         /\ \A p \in a : p.number \in page /\ 0 < p.updated /\ p.updated <= clock /\ IsAsRead(p)
         /\ \A n \in page : \E p \in a : p.number = n
  BY AnswerIs
<1>5. /\ \A p \in op.got : p.number \in Requests!Read
      /\ \A n \in Requests!Read : \E p \in op.got : p.number = n
  BY DEF Requests!Read
<1> QED BY ONLY <1>2, <1>3, <1>4, <1>5

\* The answer is complete.
LEMMA AnswerKept ==
    ASSUME StoreInv, NEW answer \in SUBSET PullRequest,
           op' = [pc |-> "store", answer |-> answer],
           UNCHANGED <<github, clock, db, lastUpdated, cache, shown, reader, tied>>,
           unsure' \in SUBSET Requests!Number, unsure \subseteq unsure',
           \A p \in answer : 0 < p.updated /\ p.updated <= clock,
           \A p \in answer : p.number \notin unsure => IsAsRead(p),
           \A n \in Sure \ unsure' : (\A p \in answer : p.number # n) =>
               github[n].updated = 0 \/ Stored(n)
    PROVE  StoreInv'
<1>1. op' \in [pc : {"store"}, answer : SUBSET PullRequest] /\ op'.pc = "store" /\ op'.answer = answer
  OBVIOUS
<1>2. StoreTyped'
  BY <1>1 DEF StoreInv, StoreTyped
<1>3. Times'
  BY DEF StoreInv, Times
<1>4. PagesKnow'
  BY <1>1 DEF PagesKnow
<1>5. AnswerKnows'
  <2>1. Sure' \subseteq Sure \ unsure'
    BY DEF Sure
  <2>2. ASSUME NEW n \in Sure'
        PROVE  /\ \A p \in answer : p.number = n => IsAsRead(p)'
               /\ (\A p \in answer : p.number # n) => (github[n].updated = 0 \/ Stored(n))'
    <3>1. n \in Sure /\ n \notin unsure /\ n \notin unsure'
      BY <2>1 DEF Sure
    <3> QED BY <3>1 DEF IsAsRead, Stored
  <2> QED BY <1>1, <2>2 DEF AnswerKnows
<1>6. Synced'
  BY DEF StoreInv, Synced, Requests!Synced
<1> QED BY <1>2, <1>3, <1>4, <1>5, <1>6 DEF StoreInv

\* Another page is asked for.
LEMMA MoreKept ==
    ASSUME StoreInv, op # None, op.pc \in {"updated", "open"},
           NEW page \in SUBSET Requests!Number, \A n \in page : github[n].updated > 0,
           Requests!AskForMore(page),
           UNCHANGED <<github, clock, db, lastUpdated, cache, shown, reader, unsure, tied>>,
           op.pc = "updated" =>
              \A n \in (Sure \cap Requests!Existing) \ (Requests!Read \cup page) :
                 op.from + Cardinality(page)
                    <= Cardinality(Above(Requests!Existing, Requests!Updated, n)),
           op.pc = "open" =>
              \A n \in (Requests!Open \ unsure) \ (Requests!Read \cup page) :
                 op.from + Cardinality(page)
                    <= Cardinality(Above(Requests!Open, Requests!Newest, n))
    PROVE  StoreInv'
<1> DEFINE got == op.got \cup Requests!Answer(page)
           from == op.from + Cardinality(page)
<1>1. op \in ListOp /\ op.from \in Nat /\ Cardinality(page) \in Nat
  BY NumbersCount DEF StoreInv, StoreTyped, ListOp
<1>2. /\ got \in SUBSET PullRequest
      /\ \A p \in got : /\ 0 < p.updated /\ p.updated <= clock
                        /\ p.number \notin unsure => IsAsRead(p)
      /\ \A n \in Requests!Read \cup page : \E p \in got : p.number = n
      /\ \A p \in got : p.number \in Requests!Read \cup page
  BY PageRead
<1>3. op' = [op EXCEPT !.got = got, !.from = from]
  BY <1>1, SameCount DEF Requests!AskForMore, ListOp
<1>4. from = 0 => got = {}
  <2>1. SUFFICES ASSUME from = 0 PROVE got = {}
    OBVIOUS
  <2>2. op.from = 0 /\ Cardinality(page) = 0
    BY <1>1, <2>1
  <2>3. page = {}
    BY <2>2, NumbersCount, FS_EmptySet
  <2>4. op.got = {} /\ Requests!Read = {}
    BY <2>2 DEF StoreInv, PagesKnow, Requests!Read
  <2> QED BY <1>2, <2>3, <2>4
<1> HIDE DEF got, from
<1>5. from \in Nat
  BY <1>1 DEF from
<1>6. op' \in ListOp /\ op'.pc = op.pc /\ op'.got = got /\ op'.from = from
  BY <1>1, <1>2, <1>3, <1>5 DEF ListOp
<1>7. StoreTyped'
  BY <1>6 DEF StoreInv, StoreTyped
<1>8. Times' /\ Synced'
  BY DEF StoreInv, Times, Synced, Requests!Synced
<1>9. AnswerKnows'
  BY <1>6 DEF AnswerKnows
<1>10. PagesKnow'
  <2>1. (Requests!Read)' = Requests!Read \cup page
    BY <1>2, <1>6 DEF Requests!Read
  <2>2. \A p \in got : 0 < p.updated /\ p.updated <= clock' /\ (p.number \notin unsure' => IsAsRead(p)')
    BY <1>2 DEF IsAsRead
  <2>3. ASSUME op.pc = "updated"
        PROVE  /\ lastUpdated' # 0
               /\ \A n \in ((Sure \cap Requests!Existing) \ Requests!Read)' :
                     from <= Cardinality(Above(Requests!Existing, Requests!Updated, n))'
    BY <2>1, <2>3 DEF from, StoreInv, PagesKnow, Sure, Above, Requests!Existing, Requests!Updated
  <2>4. ASSUME op.pc = "open"
        PROVE  /\ lastUpdated' = 0
               /\ \A n \in ((Requests!Open \ unsure) \ Requests!Read)' :
                     from <= Cardinality(Above(Requests!Open, Requests!Newest, n))'
    BY <2>1, <2>4 DEF from, StoreInv, PagesKnow, Above, Requests!Open, Requests!Newest
  <2> QED BY <1>4, <1>6, <2>2, <2>3, <2>4 DEF PagesKnow
<1> QED BY <1>7, <1>8, <1>9, <1>10 DEF StoreInv

\* An update adds to those before another or leaves them; if it closes a pull request it
\* may take one from those before another in the list of open ones.
LEMMA UpdateStep ==
    ASSUME StoreInv, NEW k \in Requests!Number, NEW open \in BOOLEAN, Requests!Update(k, open)
    PROVE  StoreInv'
<1>1. /\ clock' \in {clock, clock + 1} \cap Requests!Time
      /\ github' = [github EXCEPT ![k] = [open |-> open, updated |-> clock']]
      /\ unsure' = (unsure \ {k})
                     \cup (IF Requests!BetweenPages THEN {k} ELSE {})
                     \cup (IF /\ Requests!BetweenPages
                              /\ op.pc = "open" /\ github[k].open /\ ~ open
                           THEN Requests!Number \ Requests!Read ELSE {})
      /\ UNCHANGED <<db, lastUpdated, cache, shown, reader, op>>
  BY DEF Requests!Update
<1>2. LET others == {m \in Requests!Number \ {k} : github[m].updated = clock'}
      IN tied' = (tied \ {k}) \cup others \cup (IF others = {} THEN {} ELSE {k})
  BY DEF Requests!Update
<1>3. /\ github \in [Requests!Number -> [open : BOOLEAN, updated : 0 .. MaxTime]]
      /\ clock \in 1 .. MaxTime /\ clock' \in 1 .. MaxTime /\ clock <= clock'
      /\ lastUpdated \in 0 .. MaxTime /\ MaxTime \in Nat
  BY <1>1, RequestFacts DEF StoreInv, StoreTyped
<1>4. /\ github' \in [Requests!Number -> [open : BOOLEAN, updated : 0 .. MaxTime]]
      /\ github'[k].open = open /\ github'[k].updated = clock'
      /\ \A m \in Requests!Number : m # k => github'[m] = github[m]
  BY <1>1, <1>3
<1>5. unsure' \subseteq Requests!Number /\ tied' \subseteq Requests!Number
  BY <1>1, <1>2 DEF StoreInv, StoreTyped
<1>6. StoreTyped'
  BY <1>1, <1>3, <1>4, <1>5 DEF StoreInv, StoreTyped
<1>7. \A m \in Requests!Number : github[m].updated <= clock /\ github[m].updated \in 0 .. MaxTime
  BY <1>3 DEF StoreInv, Times
<1>8. lastUpdated <= clock
  BY DEF StoreInv, Times
<1>9. Times'
  <2>1. \A m \in Requests!Number : github'[m].updated <= clock'
    BY <1>3, <1>4, <1>7
  <2>2. \A m \in Requests!Number : github'[m].open => github'[m].updated > 0
    BY <1>3, <1>4 DEF StoreInv, Times
  <2>3. ASSUME NEW m \in Requests!Number, NEW n \in Requests!Number,
               m # n, github'[m].updated > 0, github'[m].updated = github'[n].updated
        PROVE  m \in tied'
    <3>1. CASE m = k
      BY <1>2, <1>4, <2>3, <3>1
    <3>2. CASE n = k
      BY <1>2, <1>4, <2>3, <3>2
    <3>3. CASE m # k /\ n # k
      <4>1. m \in tied
        BY <1>4, <2>3, <3>3 DEF StoreInv, Times
      <4> QED BY <1>2, <3>3, <4>1
    <3> QED BY <3>1, <3>2, <3>3
  <2>4. lastUpdated' <= clock'
    BY <1>1, <1>3, <1>8
  <2> QED BY <1>1, <2>1, <2>2, <2>3, <2>4 DEF StoreInv, Times
<1>10. \A m \in Sure' : m = k \/ m \in Sure
  BY <1>1, <1>2 DEF Sure
<1>11. Synced'
  <2>1. SUFFICES ASSUME lastUpdated # 0, NEW m \in Sure',
                        0 < github'[m].updated, github'[m].updated < lastUpdated
                 PROVE  db[m] = IF github'[m].open THEN github'[m].updated ELSE 0
    BY <1>1 DEF Synced, Requests!Synced, Sure
  <2>2. m # k
    BY <1>3, <1>4, <1>8, <2>1
  <2>3. m \in Sure /\ m \in Requests!Number
    BY <1>10, <2>2 DEF Sure
  <2> QED BY <1>4, <2>1, <2>2, <2>3 DEF StoreInv, Synced, Requests!Synced, Sure
<1>12. AnswerKnows'
  <2>1. SUFFICES ASSUME op # None, op.pc = "store" PROVE AnswerKnows'
    BY <1>1 DEF AnswerKnows
  <2>2. \A p \in op.answer : p.updated \in Nat /\ p.number \in Requests!Number
    BY <2>1, RequestFacts DEF StoreInv, StoreTyped, PullRequest, ListOp
  <2>3. \A p \in op.answer : 0 < p.updated /\ p.updated <= clock
    BY <2>1 DEF StoreInv, AnswerKnows
  <2>4. \A p \in op.answer : 0 < p.updated /\ p.updated <= clock'
    BY <1>3, <2>2, <2>3
  <2>5. After(k, op.answer)'
    BY <1>1, <1>4, <2>4 DEF After
  <2>6. ASSUME NEW m \in Sure, m # k
        PROVE  \/ After(m, op.answer)'
               \/ /\ \A p \in op.answer : p.number = m => IsAsRead(p)'
                  /\ (\A p \in op.answer : p.number # m) => github'[m].updated = 0 \/ Stored(m)'
    <3>1. m \in Requests!Number /\ github'[m] = github[m]
      BY <1>4, <2>6 DEF Sure
    <3>2. \/ After(m, op.answer)
          \/ /\ \A p \in op.answer : p.number = m => IsAsRead(p)
             /\ (\A p \in op.answer : p.number # m) => github[m].updated = 0 \/ Stored(m)
      BY <2>1, <2>6 DEF StoreInv, AnswerKnows
    <3> QED BY <1>1, <3>1, <3>2 DEF After, IsAsRead, Stored
  <2> QED BY <1>1, <1>10, <2>1, <2>4, <2>5, <2>6 DEF AnswerKnows
<1>13. PagesKnow'
  <2>1. SUFFICES ASSUME op # None, op.pc \in {"updated", "open"} PROVE PagesKnow'
    BY <1>1 DEF PagesKnow
  <2>2. op \in ListOp /\ op.from \in Nat /\ op.got \in SUBSET PullRequest
    BY <2>1 DEF StoreInv, StoreTyped, ListOp
  <2>3. (Requests!Read)' = Requests!Read
    BY <1>1 DEF Requests!Read
  <2>4. \A p \in op.got : p.updated \in Nat /\ p.number \in Requests!Number
    BY <2>2, RequestFacts DEF PullRequest
  <2>5. op.from = 0 => op.got = {}
    BY <2>1 DEF StoreInv, PagesKnow
  <2>6. op.from > 0 => k \in unsure' /\ unsure \subseteq unsure'
    BY <1>1, <2>1 DEF Requests!BetweenPages
  <2>7. ASSUME NEW p \in op.got
        PROVE  0 < p.updated /\ p.updated <= clock' /\ (p.number \notin unsure' => IsAsRead(p)')
    <3>1. op.from > 0
      BY <2>2, <2>5, <2>7
    <3>2. 0 < p.updated /\ p.updated <= clock /\ (p.number \notin unsure => IsAsRead(p))
      BY <2>1, <2>7 DEF StoreInv, PagesKnow
    <3>3. p.updated <= clock'
      BY <1>3, <2>4, <3>2
    <3>4. ASSUME p.number \notin unsure' PROVE IsAsRead(p)'
      <4>1. p.number # k /\ p.number \notin unsure /\ p.number \in Requests!Number
        BY <2>4, <2>6, <3>1, <3>4
      <4> QED BY <1>4, <3>2, <4>1 DEF IsAsRead
    <3> QED BY <3>2, <3>3, <3>4
  <2>8. ASSUME NEW list \in SUBSET Requests!Number, NEW key \in [Requests!Number -> Nat],
               NEW new \in SUBSET Requests!Number, NEW newKey \in [Requests!Number -> Nat],
               NEW n \in Requests!Number, n # k, newKey[n] = key[n],
               \A m \in list \ {k} : m \in new /\ newKey[m] = key[m],
               k \in list => k \in new /\ newKey[k] >= key[k],
               op.from <= Cardinality(Above(list, key, n))
        PROVE  op.from <= Cardinality(Above(new, newKey, n))
    <3>1. Above(list, key, n) \in SUBSET Above(new, newKey, n)
      <4>1. SUFFICES ASSUME NEW m \in list, key[m] > key[n] PROVE m \in new /\ newKey[m] > newKey[n]
        BY DEF Above
      <4>2. key[m] \in Nat /\ newKey[m] \in Nat /\ key[n] \in Nat
        OBVIOUS
      <4> QED BY <2>8, <4>1, <4>2
    <3>2. Above(new, newKey, n) \in SUBSET Requests!Number
      BY DEF Above
    <3>3. Above(list, key, n) \in SUBSET Requests!Number
      BY DEF Above
    <3>4. /\ Cardinality(Above(list, key, n)) \in Nat
          /\ Cardinality(Above(new, newKey, n)) \in Nat
          /\ Cardinality(Above(list, key, n)) <= Cardinality(Above(new, newKey, n))
      BY <3>1, <3>2, <3>3, NumbersCount, NumbersGrow
    <3> QED BY <2>2, <2>8, <3>4
  <2>9. ASSUME op.pc = "updated",
               NEW n \in ((Sure \cap Requests!Existing) \ Requests!Read)'
        PROVE  op.from <= Cardinality(Above(Requests!Existing, Requests!Updated, n))'
    <3>1. CASE op.from = 0
      BY <2>2, <3>1, NumbersCount DEF Above, Requests!Existing
    <3>2. CASE op.from # 0
      <4> DEFINE new == (Requests!Existing)'
                 newKey == (Requests!Updated)'
      <4>1. n # k /\ n \in Sure /\ n \in Requests!Number /\ n \notin Requests!Read
        BY <1>10, <2>2, <2>3, <2>6, <2>9, <3>2 DEF Sure
      <4>2. /\ Requests!Existing \in SUBSET Requests!Number
            /\ new \in SUBSET Requests!Number
            /\ Requests!Updated \in [Requests!Number -> Nat]
            /\ newKey \in [Requests!Number -> Nat]
        BY <1>3, <1>4 DEF Requests!Existing, Requests!Updated
      <4>3. newKey[n] = Requests!Updated[n] /\ n \in Requests!Existing
        BY <1>4, <2>9, <4>1 DEF Requests!Existing, Requests!Updated
      <4>4. \A m \in Requests!Existing \ {k} : m \in new /\ newKey[m] = Requests!Updated[m]
        BY <1>4 DEF Requests!Existing, Requests!Updated
      <4>5. k \in new /\ newKey[k] >= Requests!Updated[k]
        BY <1>3, <1>4, <1>7 DEF Requests!Existing, Requests!Updated
      <4>6. op.from <= Cardinality(Above(Requests!Existing, Requests!Updated, n))
        BY <2>1, <2>9, <4>1, <4>3 DEF StoreInv, PagesKnow
      <4>7. Cardinality(Above(Requests!Existing, Requests!Updated, n))'
              = Cardinality(Above(new, newKey, n))
        BY DEF Above
      <4> HIDE DEF new, newKey
      <4>8. op.from <= Cardinality(Above(new, newKey, n))
        BY ONLY <2>8, <4>1, <4>2, <4>3, <4>4, <4>5, <4>6
      <4> QED BY <4>7, <4>8
    <3> QED BY <3>1, <3>2
  <2>10. ASSUME op.pc = "open",
                NEW n \in ((Requests!Open \ unsure) \ Requests!Read)'
         PROVE  op.from <= Cardinality(Above(Requests!Open, Requests!Newest, n))'
    <3>1. CASE op.from = 0
      BY <2>2, <3>1, NumbersCount DEF Above, Requests!Open
    <3>2. CASE op.from # 0
      <4> DEFINE new == (Requests!Open)'
                 key == Requests!Newest
      <4>1. n # k /\ n \in Requests!Number /\ n \notin unsure /\ n \notin Requests!Read
        BY <2>2, <2>3, <2>6, <2>10, <3>2 DEF Requests!Open
      <4>2. /\ Requests!Open \in SUBSET Requests!Number /\ new \in SUBSET Requests!Number
            /\ key \in [Requests!Number -> Nat]
        BY RequestFacts DEF Requests!Open, Requests!Newest
      <4>3. n \in Requests!Open
        BY <1>4, <2>10, <4>1 DEF Requests!Open
      <4>4. \A m \in Requests!Open \ {k} : m \in new
        BY <1>4 DEF Requests!Open
      <4>5. k \in Requests!Open => k \in new
        <5>1. SUFFICES ASSUME github[k].open, ~ open PROVE FALSE
          BY <1>4 DEF Requests!Open
        <5>2. unsure' = (unsure \ {k}) \cup {k} \cup (Requests!Number \ Requests!Read)
          BY <1>1, <2>1, <2>2, <2>10, <3>2, <5>1 DEF Requests!BetweenPages
        <5> QED BY <2>10, <4>1, <5>2
      <4>6. op.from <= Cardinality(Above(Requests!Open, key, n))
        BY <2>1, <2>10, <4>1, <4>3 DEF StoreInv, PagesKnow
      <4>7. Cardinality(Above(Requests!Open, Requests!Newest, n))'
              = Cardinality(Above(new, key, n))
        BY DEF Above, Requests!Newest
      <4>8. \A m \in Requests!Number : key[m] >= key[m]
        BY RequestFacts DEF Requests!Newest
      <4> HIDE DEF new, key
      <4>9. op.from <= Cardinality(Above(new, key, n))
        BY ONLY <2>8, <4>1, <4>2, <4>3, <4>4, <4>5, <4>6, <4>8, k \in Requests!Number
      <4> QED BY <4>7, <4>9
    <3> QED BY <3>1, <3>2
  <2>11. op' = op /\ lastUpdated' = lastUpdated
    BY <1>1
  <2>12. /\ op.pc = "updated" => lastUpdated # 0
         /\ op.pc = "open" => lastUpdated = 0
    BY <2>1 DEF StoreInv, PagesKnow
  <2> QED BY <2>5, <2>7, <2>9, <2>10, <2>11, <2>12 DEF PagesKnow
<1> QED BY <1>6, <1>9, <1>11, <1>12, <1>13 DEF StoreInv

LEMMA GetLastUpdatedStep ==
    ASSUME StoreInv, Requests!GetLastUpdated
    PROVE  StoreInv'
<1> DEFINE pc == IF lastUpdated = 0 THEN "open" ELSE "updated"
<1>1. /\ op' = [pc |-> pc, got |-> {}, from |-> 0]
      /\ unsure' = (IF pc = "open" THEN {} ELSE unsure)
      /\ UNCHANGED <<github, clock, db, lastUpdated, cache, shown, reader, tied>>
  BY DEF Requests!GetLastUpdated, Requests!Listing
<1>2. /\ cache' \in Requests!Copy /\ shown' \in Requests!Copy /\ reader' \in Requests!Copy
      /\ shown' # None => cache' # None
  BY <1>1 DEF StoreInv, StoreTyped
<1>3. \/ pc = "updated" /\ lastUpdated # 0 /\ UNCHANGED <<db, lastUpdated, unsure>>
      \/ /\ pc = "open" /\ lastUpdated' = 0 /\ unsure' = {}
         /\ db' = [n \in Requests!Number |-> 0]
  <2>1. lastUpdated = 0 => db = [n \in Requests!Number |-> 0]
    BY RequestFacts DEF StoreInv, StoreTyped, Times
  <2> QED BY <1>1, <2>1
<1>4. pc \in {"updated", "open"}
  OBVIOUS
<1> HIDE DEF pc
<1> QED BY <1>1, <1>2, <1>3, <1>4, ListingBegins

LEMMA FallBackStep ==
    ASSUME StoreInv, Requests!FallBack
    PROVE  StoreInv'
<1>1. /\ db' = [n \in Requests!Number |-> 0] /\ lastUpdated' = 0
      /\ op' = [pc |-> "open", got |-> {}, from |-> 0] /\ unsure' = {}
      /\ Requests!CopiesOutdated /\ UNCHANGED <<github, clock, tied>>
  BY DEF Requests!FallBack, Requests!Listing
<1>2. StoreTyped
  BY DEF StoreInv
<1> QED BY <1>1, <1>2, OutdatedIs, ListingBegins

\* What the pages of updated ones do not have was stored before, if it is sure.
LEMMA FetchUpdatedStep ==
    ASSUME StoreInv, Requests!FetchUpdatedPullRequests
    PROVE  StoreInv'
<1> DEFINE list == Requests!Existing
           key == Requests!Updated
<1>1. /\ op # None /\ op.pc = "updated"
      /\ UNCHANGED <<github, clock, db, lastUpdated, cache, shown, reader, unsure, tied>>
  BY DEF Requests!FetchUpdatedPullRequests, Requests!history
<1>2. PICK front \in SUBSET list, page \in SUBSET list :
         /\ Requests!IsPage(page, front, list, key)
         /\ IF front \cup page = list \/ \E n \in page : github[n].updated <= lastUpdated
            THEN Requests!Storing({p \in op.got \cup Requests!Answer(page) :
                                      p.updated >= lastUpdated})
            ELSE Requests!AskForMore(page)
  BY Zenon DEF Requests!FetchUpdatedPullRequests
<1>3. \A n \in Requests!Number : github[n].updated \in 0 .. MaxTime /\ github[n].updated \in Nat
  BY RequestFacts DEF StoreInv, StoreTyped
<1>4. /\ list \in SUBSET Requests!Number /\ key \in [Requests!Number -> Nat]
      /\ \A n \in Requests!Number : key[n] = github[n].updated /\ (n \in list <=> github[n].updated > 0)
  BY <1>3 DEF Requests!Existing, Requests!Updated
<1>5. op.from \in Nat /\ lastUpdated # 0 /\ lastUpdated \in Nat
  BY <1>1, RequestFacts DEF StoreInv, StoreTyped, PagesKnow, ListOp
<1>6. \A n \in page : n \in Requests!Number /\ github[n].updated > 0
  BY <1>4
<1>7. \A n \in (Sure \cap list) \ Requests!Read :
         op.from <= Cardinality(Above(list, key, n))
  BY <1>1 DEF StoreInv, PagesKnow
<1>8. ASSUME NEW n \in (Sure \cap list) \ (Requests!Read \cup page)
      PROVE  /\ n \notin front
             /\ \A m \in front \cup page : key[m] > key[n]
             /\ op.from + Cardinality(page) <= Cardinality(Above(list, key, n))
  <2>1. \A m \in list : key[m] = key[n] => m = n
    BY <1>4, <1>8 DEF StoreInv, Times, Sure
  <2>2. op.from <= Cardinality(Above(list, key, n)) /\ n \in list /\ n \notin page
    BY <1>7, <1>8
  <2> HIDE DEF list, key
  <2> QED BY ONLY PageIs, <1>2, <1>4, <1>5, <2>1, <2>2
<1>9. CASE front \cup page = list \/ \E n \in page : github[n].updated <= lastUpdated
  <2> DEFINE got == op.got \cup Requests!Answer(page)
             answer == {p \in got : p.updated >= lastUpdated}
  <2>1. op' = [pc |-> "store", answer |-> answer]
    BY <1>2, <1>9 DEF Requests!Storing
  <2>2. /\ got \in SUBSET PullRequest
        /\ \A p \in got : /\ 0 < p.updated /\ p.updated <= clock
                          /\ p.number \notin unsure => IsAsRead(p)
        /\ \A n \in Requests!Read \cup page : \E p \in got : p.number = n
    BY <1>1, <1>6, PageRead
  <2> HIDE DEF got
  <2>3. \A p \in got : p.updated \in Nat
    BY <2>2, RequestFacts DEF PullRequest
  <2>4. answer \in SUBSET PullRequest /\ \A p \in got : p \in answer <=> p.updated >= lastUpdated
    BY <2>2
  <2>5. answer \subseteq got
    OBVIOUS
  <2> HIDE DEF answer
  <2>6. ASSUME NEW n \in Sure, \A p \in answer : p.number # n
        PROVE  github[n].updated = 0 \/ Stored(n)
    <3>1. n \in Requests!Number /\ n \notin unsure /\ github[n].updated \in Nat
      BY <1>3 DEF Sure
    <3>2. github[n].updated # 0 /\ github[n].updated < lastUpdated => Stored(n)
      BY <1>5, <3>1 DEF StoreInv, Synced, Requests!Synced, Sure, Stored
    <3>3. CASE n \in Requests!Read \cup page
      <4>1. PICK p \in got : p.number = n
        BY <2>2, <3>3
      <4>2. IsAsRead(p) /\ p \notin answer
        BY <2>2, <2>6, <3>1, <4>1
      <4>3. github[n].updated = p.updated /\ ~ (p.updated >= lastUpdated)
        BY <2>4, <4>1, <4>2 DEF IsAsRead
      <4> QED BY <1>5, <3>1, <3>2, <4>3
    <3>4. CASE n \notin Requests!Read \cup page /\ n \in list
      <4>1. n \notin front /\ \A m \in front \cup page : key[m] > key[n]
        BY <1>8, <2>6, <3>4
      <4>2. front \cup page # list
        BY <3>4, <4>1
      <4>3. PICK m \in page : github[m].updated <= lastUpdated
        BY <1>9, <4>2
      <4>4. github[m].updated > github[n].updated /\ github[m].updated \in Nat
        BY <1>3, <1>4, <1>6, <3>1, <4>1, <4>3
      <4>5. github[n].updated < lastUpdated
        BY <1>5, <3>1, <4>3, <4>4
      <4> QED BY <3>2, <4>5
    <3>5. CASE n \notin list
      BY <1>3, <1>4, <3>1, <3>5
    <3> QED BY <3>3, <3>4, <3>5
  <2>7. \A p \in answer : /\ 0 < p.updated /\ p.updated <= clock
                          /\ p.number \notin unsure => IsAsRead(p)
    BY <2>2, <2>5
  <2>8. unsure' \in SUBSET Requests!Number /\ unsure \subseteq unsure'
    BY <1>1 DEF StoreInv, StoreTyped
  <2> QED BY <1>1, <2>1, <2>4, <2>6, <2>7, <2>8, AnswerKept
<1>10. CASE ~ (front \cup page = list \/ \E n \in page : github[n].updated <= lastUpdated)
  <2>1. Requests!AskForMore(page)
    BY <1>2, <1>10
  <2>2. page \in SUBSET Requests!Number
    BY <1>6
  <2>3. \A n \in (Sure \cap Requests!Existing) \ (Requests!Read \cup page) :
           op.from + Cardinality(page) <= Cardinality(Above(Requests!Existing, Requests!Updated, n))
    BY <1>8
  <2>4. op.pc \in {"updated", "open"} /\ op.pc # "open"
    BY <1>1
  <2> HIDE DEF list, key
  <2> QED BY <1>1, <1>6, <2>1, <2>2, <2>3, <2>4, MoreKept
<1> QED BY <1>9, <1>10

\* What the pages of open ones do not have is not open, if it is sure.
LEMMA FetchAllOpenStep ==
    ASSUME StoreInv, Requests!FetchAllOpenPullRequests
    PROVE  StoreInv'
<1> DEFINE list == Requests!Open
           key == Requests!Newest
<1>1. /\ op # None /\ op.pc = "open"
      /\ UNCHANGED <<github, clock, db, lastUpdated, cache, shown, reader, unsure, tied>>
  BY DEF Requests!FetchAllOpenPullRequests, Requests!history
<1>2. PICK front \in SUBSET list, page \in SUBSET list :
         /\ Requests!IsPage(page, front, list, key)
         /\ IF front \cup page = list
            THEN Requests!Storing(op.got \cup Requests!Answer(page))
            ELSE Requests!AskForMore(page)
  BY Zenon DEF Requests!FetchAllOpenPullRequests
<1>3. /\ list \in SUBSET Requests!Number /\ key \in [Requests!Number -> Nat]
      /\ \A n \in Requests!Number : key[n] = n /\ (n \in list <=> github[n].open)
  BY RequestFacts DEF Requests!Open, Requests!Newest
<1>4. op.from \in Nat /\ lastUpdated = 0
  BY <1>1 DEF StoreInv, StoreTyped, PagesKnow, ListOp
<1>5. \A n \in page : n \in Requests!Number /\ github[n].updated > 0
  BY <1>3 DEF StoreInv, Times
<1>6. \A n \in (list \ unsure) \ Requests!Read :
         op.from <= Cardinality(Above(list, key, n))
  BY <1>1 DEF StoreInv, PagesKnow
<1>7. ASSUME NEW n \in (list \ unsure) \ (Requests!Read \cup page)
      PROVE  /\ n \notin front
             /\ op.from + Cardinality(page) <= Cardinality(Above(list, key, n))
  <2>1. \A m \in list : key[m] = key[n] => m = n
    BY <1>3, <1>7
  <2>2. op.from <= Cardinality(Above(list, key, n)) /\ n \in list /\ n \notin page
    BY <1>6, <1>7
  <2> HIDE DEF list, key
  <2> QED BY ONLY PageIs, <1>2, <1>3, <1>4, <2>1, <2>2
<1>8. CASE front \cup page = list
  <2> DEFINE answer == op.got \cup Requests!Answer(page)
  <2>1. op' = [pc |-> "store", answer |-> answer]
    BY <1>2, <1>8 DEF Requests!Storing
  <2>2. /\ answer \in SUBSET PullRequest
        /\ \A p \in answer : /\ 0 < p.updated /\ p.updated <= clock
                             /\ p.number \notin unsure => IsAsRead(p)
        /\ \A n \in Requests!Read \cup page : \E p \in answer : p.number = n
    BY <1>1, <1>5, PageRead
  <2> HIDE DEF answer
  <2>3. ASSUME NEW n \in Sure, \A p \in answer : p.number # n
        PROVE  github[n].updated = 0 \/ Stored(n)
    <3>1. n \in Requests!Number /\ n \notin unsure /\ n \notin Requests!Read \cup page
      BY <2>2, <2>3 DEF Sure
    <3>2. n \notin list
      BY <1>7, <1>8, <3>1
    <3> QED BY <1>3, <1>4, <3>1, <3>2 DEF StoreInv, Times, Stored
  <2>4. unsure' \in SUBSET Requests!Number /\ unsure \subseteq unsure'
    BY <1>1 DEF StoreInv, StoreTyped
  <2> QED BY <1>1, <2>1, <2>2, <2>3, <2>4, AnswerKept
<1>9. CASE front \cup page # list
  <2>1. Requests!AskForMore(page)
    BY <1>2, <1>9
  <2>2. page \in SUBSET Requests!Number
    BY <1>5
  <2>3. \A n \in (Requests!Open \ unsure) \ (Requests!Read \cup page) :
           op.from + Cardinality(page) <= Cardinality(Above(Requests!Open, Requests!Newest, n))
    BY <1>7
  <2>4. op.pc \in {"updated", "open"} /\ op.pc # "updated"
    BY <1>1
  <2> HIDE DEF list, key
  <2> QED BY <1>1, <1>5, <2>1, <2>2, <2>3, <2>4, MoreKept
<1> QED BY <1>8, <1>9

\* What the pages have that came is stored, and the others are unsure.
LEMMA PageRefusedStep ==
    ASSUME StoreInv, Requests!PageRefused
    PROVE  StoreInv'
<1>1. /\ op # None /\ op.pc = "open" /\ op' = [pc |-> "store", answer |-> op.got]
      /\ unsure' = unsure \cup (Requests!Open \ Requests!Read)
      /\ UNCHANGED <<github, clock, db, lastUpdated, cache, shown, reader, tied>>
  BY DEF Requests!PageRefused, Requests!Storing
<1>2. /\ op.got \in SUBSET PullRequest /\ lastUpdated = 0
      /\ \A p \in op.got : /\ 0 < p.updated /\ p.updated <= clock
                           /\ p.number \notin unsure => IsAsRead(p)
  BY <1>1 DEF StoreInv, StoreTyped, ListOp, PagesKnow
<1>3. ASSUME NEW n \in Sure \ unsure', \A p \in op.got : p.number # n
      PROVE  github[n].updated = 0 \/ Stored(n)
  <2>1. n \in Requests!Number /\ ~ github[n].open
    BY <1>1, <1>3 DEF Sure, Requests!Open, Requests!Read
  <2> QED BY <1>2, <2>1 DEF StoreInv, Times, Stored
<1>4. unsure' \in SUBSET Requests!Number /\ unsure \subseteq unsure'
  BY <1>1 DEF StoreInv, StoreTyped, Requests!Open
<1> QED BY <1>1, <1>2, <1>3, <1>4, AnswerKept

\* The newest of an answer is the last update seen: what is older than that has not changed
\* since GitHub gave the answer, if it is sure.
LEMMA StoringStep ==
    ASSUME StoreInv, Requests!StorePullRequests
    PROVE  StoreInv'
<1>1. op # None /\ op.pc = "store" /\ UNCHANGED <<github, clock, unsure, tied>>
  BY DEF Requests!StorePullRequests, Requests!history
<1>2. CASE op' = None /\ UNCHANGED <<db, lastUpdated, cache, shown, reader>>
  BY <1>1, <1>2, RefreshMoves DEF StoreInv, StoreTyped
<1>3. CASE ~Requests!NothingNew(op.answer)
  <2> DEFINE a == op.answer
             U == {p.updated : p \in a}
             m == Requests!Max(U)
             ReadOf(n) == {p \in a : p.number = n}
             Versions(n) == {IF p.open THEN p.updated ELSE 0 : p \in ReadOf(n)}
  <2>1. /\ db' = [n \in Requests!Number |->
                     IF ReadOf(n) = {} THEN db[n] ELSE Requests!Max(Versions(n))]
        /\ lastUpdated' = m /\ op' = [pc |-> "emit"] /\ a # {} /\ Requests!CopiesOutdated
    BY <1>1, <1>3 DEF Requests!StorePullRequests, Requests!NothingNew
  <2>2. a \in SUBSET PullRequest
    BY <1>1 DEF StoreInv, StoreTyped, ListOp
  <2>3. \A p \in a : /\ p.updated \in 0 .. MaxTime /\ p.updated \in Nat
                     /\ p.number \in Requests!Number /\ p.open \in BOOLEAN
    BY <2>2, RequestFacts DEF PullRequest
  <2>4. clock \in 1 .. MaxTime /\ MaxTime \in Nat /\ lastUpdated <= clock /\ lastUpdated \in Nat
    BY RequestFacts DEF StoreInv, StoreTyped, Times
  <2>5. /\ \A p \in a : 0 < p.updated /\ p.updated <= clock
        /\ \A n \in Sure :
              \/ After(n, a)
              \/ /\ \A p \in a : p.number = n => IsAsRead(p)
                 /\ (\A p \in a : p.number # n) => github[n].updated = 0 \/ Stored(n)
    BY <1>1 DEF StoreInv, AnswerKnows
  <2> HIDE DEF a
  <2>6. m \in U /\ \A u \in U : u <= m
    <3>1. U \in SUBSET Nat /\ U # {} /\ clock \in Nat /\ \A u \in U : u <= clock
      BY <2>1, <2>3, <2>4, <2>5
    <3> HIDE DEF U
    <3> QED BY <3>1, NewestIs
  <2>7. /\ m \in 1 .. MaxTime /\ m <= clock /\ \A p \in a : p.updated <= m
        /\ \A n \in Requests!Number : After(n, a) => m <= github[n].updated
    BY <2>3, <2>4, <2>5, <2>6 DEF After
  <2> HIDE DEF m, U
  <2>8. ASSUME NEW n \in Requests!Number, ReadOf(n) # {}
        PROVE  Requests!Max(Versions(n)) \in Versions(n) /\ Versions(n) \subseteq 0 .. MaxTime
    <3>1. Versions(n) # {}
      BY <2>8
    <3>2. \A p \in ReadOf(n) : (IF p.open THEN p.updated ELSE 0) \in 0 .. MaxTime
      BY <2>3, <2>4
    <3>3. \A v \in Versions(n) : v \in 0 .. MaxTime
      BY <3>2
    <3> DEFINE S == Versions(n)
    <3> HIDE DEF S
    <3>4. S # {} /\ \A v \in S : v \in 0 .. MaxTime
      BY <3>1, <3>3 DEF S
    <3>5. S \in SUBSET Nat /\ S # {} /\ MaxTime \in Nat /\ \A v \in S : v <= MaxTime
      BY <2>4, <3>4
    <3>6. Requests!Max(S) \in S
      BY <3>5, NewestIs
    <3> QED BY <3>3, <3>6 DEF S
  <2> HIDE DEF Versions, ReadOf
  <2>9. db \in [Requests!Number -> 0 .. MaxTime]
    BY RequestFacts DEF StoreInv, StoreTyped
  <2>10. db' \in [Requests!Number -> 0 .. MaxTime]
    <3>1. ASSUME NEW n \in Requests!Number PROVE db'[n] \in 0 .. MaxTime
      BY <2>1, <2>8, <2>9
    <3> QED BY <2>1, <3>1
  <2>11. StoreTyped'
    <3>1. op' \in [pc : {"begin", "emit"}]
      BY <2>1
    <3>2. lastUpdated' \in 0 .. MaxTime
      BY <2>1, <2>4, <2>7
    <3>3. db' \in Requests!PullRequests
      BY <2>10, RequestFacts
    <3>4. /\ cache' \in Requests!Copy /\ shown' \in Requests!Copy /\ reader' \in Requests!Copy
          /\ shown' # None => cache' # None
      BY <2>1, OutdatedIs DEF StoreInv
    <3> QED BY <1>1, <3>1, <3>2, <3>3, <3>4 DEF StoreInv, StoreTyped
  <2>12. Times'
    BY <1>1, <2>1, <2>7 DEF StoreInv, Times
  <2>13. PagesKnow' /\ AnswerKnows'
    BY <2>1 DEF PagesKnow, AnswerKnows
  <2>14. Synced'
    <3>1. SUFFICES ASSUME NEW n \in Sure, 0 < github[n].updated, github[n].updated < m
                   PROVE  db'[n] = IF github[n].open THEN github[n].updated ELSE 0
      BY <1>1, <2>1 DEF Synced, Requests!Synced, Sure
    <3>2. n \in Requests!Number /\ github[n].updated \in Nat /\ m \in Nat
      BY <2>7, RequestFacts DEF StoreInv, StoreTyped, Sure
    <3>3. ~After(n, a)
      BY <2>7, <3>1, <3>2
    <3>4. CASE ReadOf(n) # {}
      <4>1. db'[n] \in Versions(n)
        BY <2>1, <2>8, <3>2, <3>4
      <4>2. PICK p \in ReadOf(n) : db'[n] = IF p.open THEN p.updated ELSE 0
        BY <4>1 DEF Versions
      <4>3. p \in a /\ p.number = n
        BY DEF ReadOf
      <4>4. IsAsRead(p)
        BY <2>5, <3>3, <4>3
      <4> QED BY <4>2, <4>3, <4>4 DEF IsAsRead
    <3>5. CASE ReadOf(n) = {}
      <4>1. db'[n] = db[n] /\ \A p \in a : p.number # n
        BY <2>1, <3>2, <3>5 DEF ReadOf
      <4>2. Stored(n)
        BY <2>5, <3>1, <3>2, <3>3, <4>1
      <4> QED BY <4>1, <4>2 DEF Stored
    <3> QED BY <3>4, <3>5
  <2> QED BY <2>11, <2>12, <2>13, <2>14 DEF StoreInv
<1> QED BY <1>2, <1>3 DEF Requests!StorePullRequests

LEMMA RefreshStepKept ==
    ASSUME StoreInv, Requests!RefreshStep
    PROVE  StoreInv'
<1>1. /\ cache \in Requests!Copy /\ shown \in Requests!Copy /\ reader \in Requests!Copy
      /\ shown # None => cache # None
  BY DEF StoreInv, StoreTyped
<1>2. CASE Requests!RefreshFailed
  BY <1>1, <1>2, RefreshMoves DEF Requests!RefreshFailed, Requests!history
<1>3. CASE Requests!EmitPullRequestsChanged
  <2>1. /\ cache' = "current" /\ shown' = "current" /\ op' = None
        /\ UNCHANGED <<github, clock, db, lastUpdated, reader, unsure, tied>>
    BY <1>3 DEF Requests!EmitPullRequestsChanged, Requests!history
  <2>2. cache' \in Requests!Copy /\ shown' \in Requests!Copy /\ (shown' # None => cache' # None)
    BY <1>1, <2>1 DEF Requests!Copy
  <2> QED BY <1>1, <2>1, <2>2, RefreshMoves
<1> QED
  BY <1>2, <1>3, GetLastUpdatedStep, FetchUpdatedStep, FallBackStep, FetchAllOpenStep,
     PageRefusedStep, StoringStep
     DEF Requests!RefreshStep

LEMMA StoreNext ==
    ASSUME StoreInv, [Requests!PullRequestsNext]_requestVars
    PROVE  StoreInv'
<1> USE DEF Requests!history
<1>1. /\ cache \in Requests!Copy /\ shown \in Requests!Copy /\ reader \in Requests!Copy
      /\ shown # None => cache # None
      /\ None \in Requests!Copy /\ "current" \in Requests!Copy
  BY DEF StoreInv, StoreTyped, Requests!Copy
<1>2. CASE UNCHANGED Requests!vars
  BY <1>1, <1>2, RefreshMoves DEF Requests!vars
<1>3. CASE Requests!Refresh
  <2>1. /\ op' \in [pc : {"begin", "emit"}]
        /\ UNCHANGED <<github, clock, db, lastUpdated, cache, shown, reader, unsure, tied>>
    BY <1>3 DEF Requests!Refresh
  <2> QED BY <1>1, <2>1, RefreshMoves
<1>4. CASE Requests!Restart
  BY <1>1, <1>4, RefreshMoves DEF Requests!Restart
<1>5. CASE Requests!ShowCached \/ Requests!GetPullRequestsFor \/ Requests!GotPullRequests
  BY <1>1, <1>5, RefreshMoves
     DEF Requests!ShowCached, Requests!GetPullRequestsFor, Requests!GotPullRequests
<1>6. CASE UNCHANGED requestVars
  BY <1>2, <1>6 DEF requestVars, Requests!vars
<1>7. CASE Requests!PullRequestsNext
  BY <1>2, <1>3, <1>4, <1>5, <1>7, RefreshStepKept, UpdateStep
     DEF Requests!PullRequestsNext, Requests!TickRefreshes, Requests!RefreshPullRequests,
         Requests!UserRefreshes, Requests!RefreshGoesOn, Requests!ProgramRestarts
<1> QED BY <1>6, <1>7

-----------------------------------------------------------------------------
(* The updater of pull requests.                                             *)

UpdaterTyped ==
    /\ running \in BOOLEAN /\ timers \in [0 .. Interval -> Nat]
    /\ calls \in Nat /\ age \in 0 .. Interval

\* The next refresh is under way or due by the time the last one is too old.
NextIsDue ==
    running => calls > 0 \/ \E d \in 0 .. Interval - age : timers[d] > 0

\* Calls return when the refresh they wait for ends, and not before.
CallsWait == calls > 0 => op # None /\ running

\* The timers of an updater go with it.
TimersRun == running \/ \A d \in 0 .. Interval : timers[d] = 0

UpdaterInv == UpdaterTyped /\ NextIsDue /\ CallsWait /\ TimersRun

LEMMA LeftIs ==
    ASSUME UpdaterInv, NEW timeout \in {Interval, Frequency}
    PROVE  /\ Requests!Updater!Left(timeout) \in 0 .. Interval - age
           /\ Requests!Updater!Left(Interval) = Interval - age
BY RequestFacts DEF UpdaterInv, UpdaterTyped, Requests!Updater!Left

\* A timer is added for a time not after the last refresh gets too old.
LEMMA ScheduledIs ==
    ASSUME UpdaterInv, NEW ts \in [0 .. Interval -> Nat], NEW timeout \in {Interval, Frequency},
           NEW n \in Nat
    PROVE  LET s == Requests!Updater!Scheduled(ts, timeout, n)
               l == Requests!Updater!Left(timeout)
           IN /\ s \in [0 .. Interval -> Nat]
              /\ l \in 0 .. Interval - age /\ s[l] = ts[l] + n
              /\ \A d \in 0 .. Interval : s[d] >= ts[d]
<1> DEFINE l == Requests!Updater!Left(timeout)
<1>1. l \in 0 .. Interval - age /\ age \in 0 .. Interval /\ Interval \in Nat
  BY LeftIs, RequestFacts DEF UpdaterInv, UpdaterTyped
<1>2. Requests!Updater!Scheduled(ts, timeout, n) = [ts EXCEPT ![l] = @ + n]
  BY DEF Requests!Updater!Scheduled
<1> HIDE DEF l
<1>3. l \in 0 .. Interval
  BY <1>1
<1>4. /\ [ts EXCEPT ![l] = @ + n] \in [0 .. Interval -> Nat]
      /\ [ts EXCEPT ![l] = @ + n][l] = ts[l] + n
      /\ \A d \in 0 .. Interval : [ts EXCEPT ![l] = @ + n][d] >= ts[d]
  BY <1>3
<1> QED BY <1>1, <1>2, <1>4 DEF l

LEMMA UpdaterBegins ==
    Requests!Updater!Init => UpdaterInv
<1> SUFFICES ASSUME Requests!Updater!Init PROVE UpdaterInv
  OBVIOUS
<1>1. ~running /\ running \in BOOLEAN /\ calls = 0 /\ age = Interval
  BY Zenon DEF Requests!Updater!Init
<1>2. timers = [d \in 0 .. Interval |-> 0]
  BY Zenon DEF Requests!Updater!Init, Requests!Updater!NoTimers
<1>3. UpdaterTyped
  BY <1>1, <1>2, RequestFacts DEF UpdaterTyped
<1> QED BY <1>1, <1>2, <1>3 DEF UpdaterInv, NextIsDue, CallsWait, TimersRun

LEMMA TickStep ==
    ASSUME UpdaterInv, op' # None, Requests!Updater!Tick
    PROVE  UpdaterInv'
<1> DEFINE others == [timers EXCEPT ![0] = @ - 1]
<1>1. /\ timers[0] > 0 /\ calls' = calls + 1 /\ running' = running
      /\ timers' = IF age < Frequency
                   THEN Requests!Updater!Scheduled(others, Interval, 1) ELSE others
      /\ age' = IF op # None THEN age ELSE 0
  BY DEF Requests!Updater!Tick, Requests!Updater!RefreshStore
<1>2. /\ running \in BOOLEAN /\ timers \in [0 .. Interval -> Nat]
      /\ calls \in Nat /\ age \in 0 .. Interval /\ Interval \in Nat
  BY RequestFacts DEF UpdaterInv, UpdaterTyped
<1>3. others \in [0 .. Interval -> Nat]
  BY <1>1, <1>2
<1> HIDE DEF others
<1>4. timers' \in [0 .. Interval -> Nat]
  BY <1>1, <1>3, ScheduledIs
<1>5. running
  BY <1>1, <1>2 DEF UpdaterInv, TimersRun
<1> QED
  BY <1>1, <1>2, <1>4, <1>5 DEF UpdaterInv, UpdaterTyped, NextIsDue, CallsWait, TimersRun

LEMMA RefreshEndsStep ==
    ASSUME UpdaterInv, op' = None, Requests!Updater!RefreshEnds
    PROVE  UpdaterInv'
<1>1. /\ timers' = Requests!Updater!Scheduled(timers, Interval, calls)
      /\ calls' = 0 /\ running' = running /\ age' = age
  BY DEF Requests!Updater!RefreshEnds
<1>2. /\ running \in BOOLEAN /\ timers \in [0 .. Interval -> Nat]
      /\ calls \in Nat /\ age \in 0 .. Interval /\ Interval \in Nat
  BY RequestFacts DEF UpdaterInv, UpdaterTyped
<1> DEFINE l == Requests!Updater!Left(Interval)
<1>3. /\ timers' \in [0 .. Interval -> Nat]
      /\ l \in 0 .. Interval - age /\ timers'[l] = timers[l] + calls
      /\ \A d \in 0 .. Interval : timers'[d] >= timers[d]
  BY <1>1, <1>2, ScheduledIs
<1> HIDE DEF l
<1>4. UpdaterTyped'
  BY <1>1, <1>2, <1>3 DEF UpdaterTyped
<1>5. NextIsDue'
  <2>1. SUFFICES ASSUME running PROVE \E d \in 0 .. Interval - age : timers'[d] > 0
    BY <1>1 DEF NextIsDue
  <2>2. CASE calls > 0
    <3>1. timers[l] \in Nat
      BY <1>2, <1>3
    <3> QED BY <1>2, <1>3, <2>2, <3>1
  <2>3. CASE calls = 0
    <3>1. PICK d \in 0 .. Interval - age : timers[d] > 0
      BY <2>1, <2>3 DEF UpdaterInv, NextIsDue
    <3>2. d \in 0 .. Interval /\ timers[d] \in Nat /\ timers'[d] \in Nat
      BY <1>2, <1>3, <3>1
    <3>3. timers'[d] >= timers[d]
      BY <1>3, <3>2
    <3> QED BY <3>1, <3>2, <3>3
  <2> QED BY <1>2, <2>2, <2>3
<1>6. TimersRun'
  <2>1. SUFFICES ASSUME ~running PROVE \A d \in 0 .. Interval : timers'[d] = 0
    BY <1>1 DEF TimersRun
  <2>2. calls = 0 /\ \A d \in 0 .. Interval : timers[d] = 0
    BY <1>2, <2>1 DEF UpdaterInv, CallsWait, TimersRun
  <2>3. timers' = [timers EXCEPT ![l] = @ + calls]
    BY <1>1 DEF Requests!Updater!Scheduled, l
  <2> QED BY <1>2, <1>3, <2>2, <2>3
<1> QED BY <1>1, <1>4, <1>5, <1>6 DEF UpdaterInv, CallsWait

LEMMA TimePassesStep ==
    ASSUME UpdaterInv, op' = op, Requests!Updater!TimePasses
    PROVE  UpdaterInv'
<1>1. /\ timers[0] = 0
      /\ timers' = [d \in 0 .. Interval |-> IF d < Interval THEN timers[d + 1] ELSE 0]
      /\ age' = IF age < Interval THEN age + 1 ELSE age
      /\ UNCHANGED <<running, calls>>
  BY DEF Requests!Updater!TimePasses
<1>2. /\ running \in BOOLEAN /\ timers \in [0 .. Interval -> Nat]
      /\ calls \in Nat /\ age \in 0 .. Interval /\ Interval \in Nat
  BY RequestFacts DEF UpdaterInv, UpdaterTyped
<1>3. ASSUME NEW d \in 0 .. Interval
      PROVE  /\ d < Interval => d + 1 \in 0 .. Interval /\ timers'[d] = timers[d + 1]
             /\ d = Interval => timers'[d] = 0
  BY <1>1, <1>2
<1>4. timers' \in [0 .. Interval -> Nat]
  <2>1. ASSUME NEW d \in 0 .. Interval PROVE timers'[d] \in Nat
    BY <1>2, <1>3
  <2> QED BY <1>1, <2>1
<1>5. NextIsDue'
  <2>1. SUFFICES ASSUME running, ~ (calls > 0)
                 PROVE  \E d \in 0 .. Interval - age' : timers'[d] > 0
    <3>1. running' = running /\ calls' = calls
      BY <1>1
    <3> QED BY <3>1 DEF NextIsDue
  <2>2. PICK d \in 0 .. Interval - age : timers[d] > 0
    BY <2>1 DEF UpdaterInv, NextIsDue
  <2>3. d # 0 /\ age < Interval /\ d - 1 \in 0 .. Interval /\ d - 1 < Interval
    BY <1>1, <1>2, <2>2
  <2>4. timers'[d - 1] = timers[d] /\ d - 1 \in 0 .. Interval - age'
    BY <1>1, <1>2, <1>3, <2>2, <2>3
  <2> QED BY <2>2, <2>4
<1>6. TimersRun'
  BY <1>1, <1>2, <1>3 DEF UpdaterInv, TimersRun
<1>7. UpdaterTyped'
  BY <1>1, <1>2, <1>4 DEF UpdaterTyped
<1> QED BY <1>1, <1>5, <1>6, <1>7 DEF UpdaterInv, CallsWait

LEMMA StartStep ==
    ASSUME UpdaterInv, op' = op, Requests!Updater!Start
    PROVE  UpdaterInv'
<1> DEFINE none == Requests!Updater!NoTimers
           l == Requests!Updater!Left(Frequency)
<1>1. /\ running' = TRUE /\ calls' = 0 /\ age' = age
      /\ timers' = Requests!Updater!Scheduled(none, Frequency, 1)
  BY DEF Requests!Updater!Start
<1>2. none \in [0 .. Interval -> Nat] /\ \A d \in 0 .. Interval : none[d] = 0
  BY DEF Requests!Updater!NoTimers
<1>3. age \in 0 .. Interval /\ Interval \in Nat
  BY RequestFacts DEF UpdaterInv, UpdaterTyped
<1> HIDE DEF none
<1>4. /\ timers' \in [0 .. Interval -> Nat]
      /\ l \in 0 .. Interval - age /\ timers'[l] = none[l] + 1
  BY <1>1, <1>2, ScheduledIs
<1> HIDE DEF l
<1>5. timers'[l] > 0
  BY <1>2, <1>3, <1>4
<1>6. running' /\ running' \in BOOLEAN
  BY <1>1, Zenon
<1>7. calls' = 0 /\ age' = age
  BY <1>1
<1>8. UpdaterTyped'
  BY <1>3, <1>4, <1>6, <1>7 DEF UpdaterTyped
<1>9. NextIsDue'
  BY <1>4, <1>5, <1>7 DEF NextIsDue
<1> QED BY <1>6, <1>7, <1>8, <1>9 DEF UpdaterInv, CallsWait, TimersRun

LEMMA UpdaterRests ==
    ASSUME UpdaterInv, UNCHANGED <<running, timers, calls, age>>, op # None => op' # None
    PROVE  UpdaterInv'
<1>1. UpdaterTyped' /\ NextIsDue' /\ TimersRun'
  BY DEF UpdaterInv, UpdaterTyped, NextIsDue, TimersRun
<1> QED BY <1>1 DEF UpdaterInv, CallsWait

LEMMA UpdaterNext ==
    ASSUME UpdaterInv, [Requests!PullRequestsNext]_requestVars
    PROVE  UpdaterInv'
<1>1. CASE Requests!TickRefreshes
  <2>1. op' # None /\ Requests!Updater!Tick
    BY <1>1 DEF Requests!TickRefreshes, Requests!Updater!Tick, Requests!Updater!RefreshStore
  <2> QED BY <2>1, TickStep
<1>2. CASE Requests!UserRefreshes
  <2>1. /\ op = None /\ op' # None /\ age' = IF op # None THEN age ELSE 0
        /\ UNCHANGED <<running, timers, calls>>
    BY <1>2 DEF Requests!UserRefreshes, Requests!Refresh, Requests!Updater!UserRefreshes,
                Requests!Updater!RefreshStore
  <2>2. age \in 0 .. Interval /\ Interval \in Nat /\ timers \in [0 .. Interval -> Nat]
    BY RequestFacts DEF UpdaterInv, UpdaterTyped
  <2>3. UpdaterTyped' /\ TimersRun'
    BY <2>1, <2>2 DEF UpdaterInv, UpdaterTyped, TimersRun
  <2>4. NextIsDue'
    BY <2>1, <2>2 DEF UpdaterInv, NextIsDue
  <2> QED BY <2>1, <2>3, <2>4 DEF UpdaterInv, CallsWait
<1>3. CASE Requests!RefreshGoesOn
  <2>1. CASE op' = None
    <3>1. Requests!Updater!RefreshEnds
      BY <1>3, <2>1 DEF Requests!RefreshGoesOn
    <3> QED BY <2>1, <3>1, RefreshEndsStep
  <2>2. CASE op' # None
    BY <1>3, <2>2, UpdaterRests DEF Requests!RefreshGoesOn, Requests!updaterVars
  <2> QED BY <2>1, <2>2
<1>4. CASE Requests!ProgramRestarts
  <2>1. ~running' /\ running' \in BOOLEAN /\ calls' = 0 /\ age' = Interval
    BY <1>4, Zenon DEF Requests!ProgramRestarts
  <2>2. timers' = [d \in 0 .. Interval |-> 0]
    BY <1>4, Zenon DEF Requests!ProgramRestarts, Requests!Updater!NoTimers
  <2>3. UpdaterTyped'
    BY <2>1, <2>2, RequestFacts DEF UpdaterTyped
  <2> QED BY <2>1, <2>2, <2>3 DEF UpdaterInv, NextIsDue, CallsWait, TimersRun
<1>5. ASSUME NEW n \in Requests!Number, NEW open \in BOOLEAN, Requests!Update(n, open),
             UNCHANGED Requests!updaterVars
      PROVE  UpdaterInv'
  BY <1>5, UpdaterRests DEF Requests!Update, Requests!updaterVars
<1>6. CASE /\ Requests!ShowCached \/ Requests!GetPullRequestsFor \/ Requests!GotPullRequests
           /\ UNCHANGED Requests!updaterVars
  BY <1>6, UpdaterRests
     DEF Requests!ShowCached, Requests!GetPullRequestsFor, Requests!GotPullRequests,
         Requests!updaterVars
<1>7. CASE UNCHANGED Requests!vars /\ Requests!Updater!Start
  BY <1>7, StartStep DEF Requests!vars
<1>8. CASE UNCHANGED Requests!vars /\ Requests!Updater!TimePasses
  BY <1>8, TimePassesStep DEF Requests!vars
<1>9. CASE UNCHANGED Requests!vars /\ Requests!Updater!Stop
  <2>1. ~running' /\ running' \in BOOLEAN /\ calls' = 0 /\ age' = age
    BY <1>9, Zenon DEF Requests!Updater!Stop
  <2>2. timers' = [d \in 0 .. Interval |-> 0]
    BY <1>9, Zenon DEF Requests!Updater!Stop, Requests!Updater!NoTimers
  <2>3. UpdaterTyped'
    BY <2>1, <2>2, RequestFacts DEF UpdaterInv, UpdaterTyped
  <2> QED BY <2>1, <2>2, <2>3 DEF UpdaterInv, NextIsDue, CallsWait, TimersRun
<1>10. CASE UNCHANGED requestVars
  BY <1>10, UpdaterRests DEF requestVars
<1>11. CASE Requests!PullRequestsNext
  BY <1>1, <1>2, <1>3, <1>4, <1>5, <1>6, <1>7, <1>8, <1>9, <1>11, Zenon
     DEF Requests!PullRequestsNext
<1> QED BY <1>10, <1>11

-----------------------------------------------------------------------------

\* A step of the whole is one of each component, or leaves it alone.
LEMMA StepsOfComponents ==
    /\ AnyInit => Init /\ Requests!PullRequestsInit /\ Partial!Init
    /\ [AnyNext]_<<part, vars, requestVars, partialVars>> =>
         /\ [Next]_vars
         /\ [Requests!PullRequestsNext]_requestVars
         /\ [Partial!Next]_Partial!vars
<1>1. AnyInit => Init /\ Requests!PullRequestsInit /\ Partial!Init
  BY Zenon DEF AnyInit
<1>2. SUFFICES ASSUME [AnyNext]_<<part, vars, requestVars, partialVars>>
               PROVE  /\ [Next]_vars
                      /\ [Requests!PullRequestsNext]_requestVars
                      /\ [Partial!Next]_Partial!vars
  BY <1>1
<1>3. partialVars' = partialVars => Partial!vars' = Partial!vars
  BY DEF partialVars, Partial!vars
<1>4. CASE UNCHANGED <<part, vars, requestVars, partialVars>>
  BY <1>3, <1>4
<1>5. CASE AnyNext
  BY <1>3, <1>5, Zenon DEF AnyNext
<1> QED BY <1>2, <1>4, <1>5

\* The state of the commits selected stays well typed, and a file is only selected among
\* files that are shown.
THEOREM SelectionTypes == AnySpec => []TypeOK
<1>1. SelectedInv => TypeOK
  BY DEF SelectedInv
<1> QED BY <1>1, SelectedBegins, SelectedNext, StepsOfComponents, PTL DEF AnySpec

\* In whatever order git answers: the diff shown is of the commits and of the file
\* selected, which is what the checks in _changeFileSelection are for.
THEOREM DiffCorrect == AnySpec => []DiffIsOfSelection
<1>1. SelectedInv => DiffIsOfSelection
  BY DEF SelectedInv
<1> QED BY <1>1, SelectedBegins, SelectedNext, StepsOfComponents, PTL DEF AnySpec

\* The lines selected are those the user has chosen in the diff that is shown, and
\* the type of the selection, by which a commit decides whether the file goes in as a
\* whole, in part or not at all, says what they are (DiffSelection,
\* updateChangesWorkingDirectoryDiff, updateChangedFiles).
THEOREM LinesAreChosen == AnySpec => []SelectionIsChosen
<1>1. ChosenInv => SelectionIsChosen
  BY TypeIsSo DEF ChosenInv, ChosenIsSelected, SelectionIsChosen, Partial!SelectionIsChosen
<1> QED BY <1>1, ChosenBegins, ChosenNext, StepsOfComponents, PTL DEF AnySpec

\* A refresh that asks for what was updated since the last one misses nothing, page by page
\* and whatever changes meanwhile, but what is unsure or tied: the time it notes is of an
\* answer that had all else when it was given, and what changed since is newer
\* (fetchAndStorePullRequests, fetchUpdatedPullRequests).
THEOREM NothingIsMissed ==
    AnySpec => []Synced
<1>1. Requests!PullRequestsInit => StoreInv
  BY StoreBegins DEF Requests!PullRequestsInit
<1>2. StoreInv /\ [Requests!PullRequestsNext]_requestVars => StoreInv'
  BY StoreNext
<1>3. StoreInv => Synced
  BY DEF StoreInv
<1> QED BY <1>1, <1>2, <1>3, StepsOfComponents, PTL DEF AnySpec

\* While the updater runs, the next refresh is under way or due by the time the last one is
\* too old, whoever asks for refreshes and wherever they end (PullRequestUpdater.tick).
THEOREM NextRefreshIsDue == AnySpec => []RefreshIsDue
<1>1. Requests!PullRequestsInit => UpdaterInv
  BY UpdaterBegins DEF Requests!PullRequestsInit
<1>2. UpdaterInv /\ [Requests!PullRequestsNext]_requestVars => UpdaterInv'
  BY UpdaterNext
<1>3. UpdaterInv => RefreshIsDue
  <2> SUFFICES ASSUME UpdaterInv PROVE RefreshIsDue
    OBVIOUS
  <2>1. Requests!Updater!Left(Interval) = Interval - age
    BY LeftIs
  <2>2. Interval \in Nat /\ age \in 0 .. Interval
    BY RequestFacts DEF UpdaterInv, UpdaterTyped
  <2>3. ASSUME NEW d \in 0 .. Interval - age
        PROVE  d \in 0 .. Interval /\ d <= Interval - age
    BY <2>2
  <2> QED
    BY <2>1, <2>3
       DEF UpdaterInv, NextIsDue, RefreshIsDue, Requests!RefreshIsDue,
           Requests!Updater!RefreshIsDue
<1> QED BY <1>1, <1>2, <1>3, StepsOfComponents, PTL DEF AnySpec

\* The pull requests stay well typed, and none is shown that the cache has not.
THEOREM RequestTypes ==
    AnySpec => []Requests!TypeOK
<1>1. Requests!PullRequestsInit => StoreInv
  BY StoreBegins DEF Requests!PullRequestsInit
<1>2. StoreInv /\ [Requests!PullRequestsNext]_requestVars => StoreInv'
  BY StoreNext
<1>3. StoreInv => Requests!TypeOK
  BY DEF StoreInv, StoreTyped, ListOp, Requests!TypeOK
<1> QED BY <1>1, <1>2, <1>3, StepsOfComponents, PTL DEF AnySpec

\* The types of all components: the commits selected, the pull requests with the updater,
\* whose calls wait only while the store has a refresh in progress, and the lines selected,
\* which are rows of a diff; a diff is only shown of a file the status lists.
THEOREM AllTypes ==
    AnySpec => []AllTypeOK
<1>1. UpdaterInv => Requests!UpdaterTypeOK
  BY DEF UpdaterInv, UpdaterTyped, CallsWait, Requests!UpdaterTypeOK, Requests!Updater!TypeOK
<1>2. PatchInv /\ LinesTyped => Partial!TypeOK
  BY LinesAreTyped
<1>3. TypeOK /\ Requests!TypeOK /\ UpdaterInv /\ PatchInv /\ LinesTyped => AllTypeOK
  BY <1>1, <1>2 DEF AllTypeOK
<1>4. Requests!PullRequestsInit => UpdaterInv
  BY UpdaterBegins DEF Requests!PullRequestsInit
<1>5. UpdaterInv /\ [Requests!PullRequestsNext]_requestVars => UpdaterInv'
  BY UpdaterNext
<1>6. PatchInv /\ LinesTyped /\ [Partial!Next]_Partial!vars => PatchInv' /\ LinesTyped'
  BY PatchNext, TypedNext
<1>7. Partial!Init => PatchInv /\ LinesTyped
  BY PatchBegins, TypedBegins
<1> QED
  BY <1>3, <1>4, <1>5, <1>6, <1>7, SelectionTypes, RequestTypes, StepsOfComponents, PTL
     DEF AnySpec

\* What git makes of the patch of a commit is HEAD with the lines the user has chosen, for
\* any file, any changes and any choice of them: if the file has not changed since the diff
\* was shown, and no line of it can be taken for another or every hunk is in its place
\* (formatPatch, applyPatchToIndex).
THEOREM CommitHasLinesChosen == AnySpec => []StagedIsSelected
<1>1. PatchInv => StagedIsSelected
  BY DEF PatchInv
<1> QED BY <1>1, PatchBegins, PatchNext, StepsOfComponents, PTL DEF AnySpec

\* Likewise a discard takes away the lines it is for and no others, and loses none that it
\* puts back (formatPatchToDiscardChanges, discardChangesFromSelection).
THEOREM DiscardTakesLinesChosen == AnySpec => []DiscardedIsSelected
<1>1. PatchInv => DiscardedIsSelected
  BY DEF PatchInv
<1> QED BY <1>1, PatchBegins, PatchNext, StepsOfComponents, PTL DEF AnySpec
=============================================================================
