------------------------------ MODULE MCUploads ------------------------------
(* Values for the constants of Uploads. *)
EXTENDS Uploads, TLC, FiniteSets

CONSTANTS t1, t2, i1, i2

OneTab == {t1}
TwoTabs == {t1, t2}
OneItem == {i1}
TwoItems == {i1, i2}

(* Bound: requests at once.  With three, two tabs are at work beside an     *)
(* abort; once a lease is lost, two tabs are.                              *)
FewRequests == Cardinality(net) + lapses <= 3

Symmetry == Permutations(Tab) \cup Permutations(Item)
=============================================================================
