--------------------------- MODULE MCDashboardPage ---------------------------
(* Instances of DashboardPage for TLC.                                     *)
EXTENDS DashboardPage
=============================================================================
