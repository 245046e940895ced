---------------------------- MODULE DiffSelection ----------------------------
(* DiffSelection (models/diff/diff-selection.ts): which lines of a file's diff *)
(* go into the next commit.  A selection says what holds for every line, the   *)
(* lines that diverge from it, and the lines it may be asked about, which are  *)
(* not known before the diff is.                                               *)
EXTENDS Integers, FiniteSets

CONSTANT Unknown    \* no diff has said yet which lines can be selected

DiffSelections(Line) ==
    [default : {"All", "None"}, diverging : SUBSET Line,
     selectable : {Unknown} \cup SUBSET Line]

FromInitialSelection(type) ==
    [default |-> type, diverging |-> {}, selectable |-> Unknown]

SelectionType(s) ==
    IF s.diverging = {} THEN s.default
    ELSE IF s.selectable # Unknown /\ s.selectable = s.diverging
           THEN IF s.default = "All" THEN "None" ELSE "All"
           ELSE "Partial"

IsSelected(s, line) == (s.default = "All") # (line \in s.diverging)

Selectable(s, lines) == IF s.selectable = Unknown THEN lines ELSE lines \cap s.selectable

WithSelectAll(s) == [s EXCEPT !.default = "All", !.diverging = {}]
WithSelectNone(s) == [s EXCEPT !.default = "None", !.diverging = {}]

TypeMatches(type, selected) == type = (IF selected THEN "All" ELSE "None")

\* Lines that do not diverge any more are taken out whether or not they are
\* selectable; a selection of all lines or of none starts anew from that.
WithRangeSelection(s, lines, selected) ==
    CASE TypeMatches(SelectionType(s), selected) -> s
      [] SelectionType(s) = "Partial" /\ TypeMatches(s.default, selected) ->
            [s EXCEPT !.diverging = @ \ lines]
      [] SelectionType(s) = "Partial" /\ ~TypeMatches(s.default, selected) ->
            [s EXCEPT !.diverging = @ \cup Selectable(s, lines)]
      [] OTHER ->
            [s EXCEPT !.default = SelectionType(s), !.diverging = Selectable(s, lines)]

\* Mutant: a line that is no longer one to select goes on diverging.
WithSelectableLinesKept(s, lines) == [s EXCEPT !.selectable = lines]

WithSelectableLines(s, lines) ==
    [s EXCEPT !.diverging = @ \cap lines, !.selectable = lines]
=============================================================================
