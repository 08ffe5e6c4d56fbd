------------------------------- MODULE MCPanel -------------------------------
(* Instances of Panel for TLC.                                             *)
EXTENDS Panel, TLC

\* The connections of the browser are interchangeable.
ConnSymmetry == Permutations(Conns)

=============================================================================
