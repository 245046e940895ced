------------------------------ MODULE InOrder ------------------------------
(* Lists and what is left of them when a test is passed by some elements     *)
(* only, the others keeping their order (Array.filter).                      *)
EXTENDS Integers, FiniteSets

\* How many numbers of a set are at most i.
Rank(S, i) == Cardinality({j \in S : j <= i})

\* The numbers of a finite set from the least to the greatest.
InOrder(S) == [n \in 1 .. Cardinality(S) |-> CHOOSE i \in S : Rank(S, i) = n]

\* The elements of a list at some of its places, in their order.
ElementsAt(list, places) ==
    LET place == InOrder(places) IN [n \in DOMAIN place |-> list[place[n]]]
=============================================================================
