-------------------------------- MODULE Orders --------------------------------
(***************************************************************************)
(* What ORDER BY and Array.filter do, by what they give and not by how     *)
(* they find it.  Neither is recursive, nor does either stand on an        *)
(* operator that has no definition in TLA+, as SortSeq and SelectSeq do:   *)
(* theorems can be used about them.                                        *)
(***************************************************************************)
EXTENDS Integers, FiniteSets

\* How many of the others in S come before x.
Rank(x, S, Before(_, _)) == Cardinality({y \in S \ {x} : Before(y, x)})

\* The elements of S in their order: the n-th is the one that has n - 1 before it.
Ordered(S, Before(_, _)) ==
    [n \in 1..Cardinality(S) |-> CHOOSE x \in S : Rank(x, S, Before) = n - 1]

\* The elements of s to keep, in the order in which s has them.
Filter(s, Keep(_)) ==
    LET kept == Ordered({n \in DOMAIN s : Keep(s[n])}, <)
    IN  [n \in DOMAIN kept |-> s[kept[n]]]
=============================================================================
