--------------------------- MODULE PatchFormatter ---------------------------
(* What becomes of a file's changes when some of them are committed or         *)
(* discarded: patch-formatter.ts turns the diff and the lines selected into a  *)
(* patch, and git applies it.                                                  *)
(*                                                                             *)
(* A script is the file with its changes: each entry a line that is there      *)
(* before and after ("Context"), before only ("Delete") or after only ("Add"). *)
(* The diff is the part of it near the changes, a row for each entry and one   *)
(* for the header of each hunk; rows are counted from 0, headers included,     *)
(* which is how a line is named in a DiffSelection.                            *)
EXTENDS InOrder, Sequences

CONSTANTS ContextLines,   \* lines around a change that git shows (three)
          Rejected        \* the outcome of a patch that does not apply

Changed(s) == {i \in DOMAIN s : s[i].type # "Context"}

\* The entries there are before, and after; and the text of some of them.
Old(s) == {i \in DOMAIN s : s[i].type # "Add"}
New(s) == {i \in DOMAIN s : s[i].type # "Delete"}

Texts(s, entries) ==
    LET kept == ElementsAt(s, entries) IN [n \in DOMAIN kept |-> kept[n].text]

OldText(s) == Texts(s, Old(s))
NewText(s) == Texts(s, New(s))

\* The diff of a script: its hunks, each the entries first .. last, whose header is
\* row unifiedDiffStart. Changes that share context share a hunk.
Diff(s) ==
    LET changed == Changed(s)
        shown == {i \in DOMAIN s : (i - ContextLines .. i + ContextLines) \cap changed # {}}
        firsts == InOrder({i \in shown : i - 1 \notin shown})
        last(first) == CHOOSE i \in first .. Len(s) : first .. i \subseteq shown /\ i + 1 \notin shown
    IN [script |-> s,
        hunks |-> [n \in DOMAIN firsts |->
                     [first |-> firsts[n], last |-> last(firsts[n]),
                      unifiedDiffStart |->
                          Cardinality({i \in shown : i < firsts[n]}) + n - 1]]]

\* The lines of a diff that can be selected (isIncludeableLine), with their rows.
Lines(d) ==
    UNION {{[row |-> h.unifiedDiffStart + 1 + i - h.first, entry |-> i] :
               i \in {j \in h.first .. h.last : d.script[j].type # "Context"}} :
           h \in {d.hunks[n] : n \in DOMAIN d.hunks}}

Includeable(d) == {l.row : l \in Lines(d)}
EntriesOf(d, rows) == {l.entry : l \in {k \in Lines(d) : k.row \in rows}}

\* The line where a hunk starts in the old or new file, or the one before it when
\* the hunk has no line of that file.
StartLine(h, In) ==
    Cardinality({i \in In : i < h.first})
    + (IF In \cap (h.first .. h.last) # {} THEN 1 ELSE 0)

Written(h, chosen) == chosen \cap (h.first .. h.last) # {}

\* A patch for the file of the entries From that is to become that of the entries
\* Out, of the hunks with something chosen. A hunk tells git where it begins in
\* that file and where in the other one the diff is of, as its header in the diff
\* has it.
Patch(d, chosen, From, To, Out) ==
    LET hunks == ElementsAt(d.hunks, {n \in DOMAIN d.hunks : Written(d.hunks[n], chosen)})
    IN [n \in DOMAIN hunks |->
          LET h == hunks[n]
          IN [from |-> StartLine(h, From), to |-> StartLine(h, To),
              before |-> Texts(d.script, From \cap (h.first .. h.last)),
              after |-> Texts(d.script, Out \cap (h.first .. h.last))]]

\* formatPatch: an addition that is not chosen is left out, a deletion that is
\* not chosen is a line that stays. The patch is for the old file.
Committed(s, chosen) ==
    {i \in DOMAIN s : \/ s[i].type = "Context"
                      \/ s[i].type = "Add" /\ i \in chosen
                      \/ s[i].type = "Delete" /\ i \notin chosen}

\* Mutant: a deletion that is not chosen is left out.
FormatPatchWithoutRest(d, chosen) ==
    LET s == d.script
    IN Patch(d, chosen, {i \in Old(s) : s[i].type = "Delete" => i \in chosen}, New(s),
             Committed(s, chosen) \cap New(s))

FormatPatch(d, chosen) ==
    LET s == d.script IN Patch(d, chosen, Old(s), New(s), Committed(s, chosen))

\* formatPatchToDiscardChanges: what is chosen is undone. The patch is for the
\* new file.
Remaining(s, chosen) ==
    {i \in DOMAIN s : \/ s[i].type = "Context"
                      \/ s[i].type = "Add" /\ i \notin chosen
                      \/ s[i].type = "Delete" /\ i \in chosen}

\* Mutant: an addition that is not chosen is left out.
DiscardWithoutRest(d, chosen) ==
    LET s == d.script
    IN Patch(d, chosen, {i \in New(s) : s[i].type = "Add" => i \in chosen}, Old(s),
             Remaining(s, chosen) \cap Old(s))

FormatPatchToDiscardChanges(d, chosen) ==
    LET s == d.script IN Patch(d, chosen, New(s), Old(s), Remaining(s, chosen))

-----------------------------------------------------------------------------

\* git apply --unidiff-zero looks for a hunk at the line it is to have in the
\* result, and if it is not there at ever more distant lines, after and before
\* by turns. Lines an earlier hunk has put there do not count. A hunk from line
\* 0 fits at the beginning only.
Fits(image, hunk, at) ==
    /\ hunk.from = 0 => at = 0
    /\ at + Len(hunk.before) <= Len(image)
    /\ \A n \in DOMAIN hunk.before :
          ~image[at + n].patched /\ image[at + n].text = hunk.before[n]

Places(image, hunk) == {p \in 0 .. Len(image) : Fits(image, hunk, p)}

Nearer(at, p, q) ==
    LET Tried(x) == IF x > at THEN 2 * (x - at) - 1 ELSE 2 * (at - x)
    IN Tried(p) <= Tried(q)

ApplyHunk(image, hunk) ==
    LET wanted == IF hunk.to = 0 THEN 0 ELSE hunk.to - 1
        at == CHOOSE p \in Places(image, hunk) :
                  \A q \in Places(image, hunk) : Nearer(wanted, p, q)
    IN SubSeq(image, 1, at)
       \o [n \in DOMAIN hunk.after |-> [text |-> hunk.after[n], patched |-> TRUE]]
       \o SubSeq(image, at + Len(hunk.before) + 1, Len(image))

\* Hunk by hunk; nothing is written if one fits nowhere.
Apply(text, patch) ==
    LET image[n \in 0 .. Len(patch)] ==
            IF n = 0 THEN [k \in DOMAIN text |-> [text |-> text[k], patched |-> FALSE]]
                     ELSE ApplyHunk(image[n - 1], patch[n])
        result == image[Len(patch)]
    IN IF \E n \in DOMAIN patch : Places(image[n - 1], patch[n]) = {} THEN Rejected
       ELSE [n \in DOMAIN result |-> result[n].text]
=============================================================================
