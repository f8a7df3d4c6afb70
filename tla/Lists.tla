-------------------------------- MODULE Lists --------------------------------
(***************************************************************************)
(* What the front end's lists go through: Array.prototype.sort, which is    *)
(* stable, and Array.prototype.filter, by their results.  The places of a   *)
(* list are ordered by the sets of places ahead of each.                     *)
(***************************************************************************)
EXTENDS Integers, Sequences, FiniteSets

\* The members of a finite set: the k-th is the one with k - 1 others ahead.
InOrder(ahead) ==
  [k \in 1..Cardinality(DOMAIN ahead) |->
     CHOOSE i \in DOMAIN ahead : Cardinality(ahead[i]) = k - 1]
Listed(s, ahead) == LET place == InOrder(ahead) IN [k \in DOMAIN place |-> s[place[k]]]

\* Places that the comparator does not tell apart keep their order; Before(a, b) is
\* where it is negative.
Ahead(s, i, j, Before(_, _)) == Before(s[i], s[j]) \/ (i < j /\ ~Before(s[j], s[i]))
Sorted(s, Before(_, _)) ==
  Listed(s, [i \in DOMAIN s |-> {j \in DOMAIN s : Ahead(s, j, i, Before)}])
Filtered(s, Test(_)) ==
  LET kept == {i \in DOMAIN s : Test(s[i])}
  IN  Listed(s, [i \in kept |-> {j \in kept : j < i}])
\* The first of some places of a list, sorted.
Foremost(s, some, Before(_, _)) ==
  s[CHOOSE i \in some : \A j \in some \ {i} : Ahead(s, i, j, Before)]
=============================================================================
