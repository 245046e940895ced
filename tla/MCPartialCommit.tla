--------------------------- MODULE MCPartialCommit ---------------------------
(* Instances of PartialCommit for TLC. The script of ambiguous changes adds    *)
(* lines before a second hunk, in a file with lines that repeat.               *)
EXTENDS PartialCommit

Entry(type, text) == [type |-> type, text |-> text]

AmbiguousScript ==
    {<<Entry("Add", "b"), Entry("Context", "a"), Entry("Context", "a"), Entry("Context", "a"),
       Entry("Add", "c"), Entry("Context", "a"), Entry("Context", "a")>>}
=============================================================================
