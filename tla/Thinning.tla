------------------------------- MODULE Thinning -------------------------------
(***************************************************************************)
(* Lists some elements of which are dropped (Vec::retain(), filtered       *)
(* iterators), by the indexes that are kept.                               *)
(***************************************************************************)
EXTENDS Naturals, Sequences, FiniteSets

(* How many of the first n elements are left when those at the indexes of  *)
(* `keep` are, and the elements that are left.                             *)
KeptOf(n, keep) == Cardinality(keep \cap (1..n))
Kept(its, keep) ==
  [k \in 1..Cardinality(keep) |-> its[CHOOSE i \in keep : KeptOf(i, keep) = k]]
=============================================================================
