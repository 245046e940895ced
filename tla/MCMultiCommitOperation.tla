----------------------- MODULE MCMultiCommitOperation -----------------------
EXTENDS MultiCommitOperation

\* Every kind on its own, conflicts from outside on their own, and the two
\* together for one kind.
Scenarios == {[kinds |-> AnyKind, starts |-> 1, external |-> 0],
              [kinds |-> {}, starts |-> 0, external |-> 1],
              [kinds |-> {"squash"}, starts |-> 1, external |-> 1]}

\* Two squashes, one after the other.
TwoSquashes == {[kinds |-> {"squash"}, starts |-> 2, external |-> 0]}
=============================================================================
