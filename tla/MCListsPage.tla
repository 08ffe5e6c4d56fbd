----------------------------- MODULE MCListsPage -----------------------------
(* Instances of ListsPage for TLC.                                         *)
EXTENDS ListsPage, TLC

\* The connections of the browser are interchangeable.
ConnSymmetry == Permutations(Conns)

=============================================================================
