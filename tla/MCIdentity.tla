----------------------------- MODULE MCIdentity -----------------------------
(* One address, which a /24 and a /32 cover, and two users who log in from  *)
(* it; the table has the /24 as a captive range when the model starts.      *)
EXTENDS Identity, TLC

CONSTANTS ip1, l1, l2, a1, a2, net24, net32

MCCovers == net24 :> {ip1} @@ net32 :> {ip1}
MCPrefix == net24 :> 24 @@ net32 :> 32
MCInitialTable == <<[cidr |-> net24, group |-> 2, auth |-> "captive"]>>
\* DBAuthenticator answers group 0 for every user; the portal's tests use
\* StaticCredentials, whose users have groups 2 and 4, and no ranges.
MCUserGroup == 1 :> 0 @@ 2 :> 0
MCStaticUserGroup == 1 :> 2 @@ 2 :> 4
MCNoRanges == <<>>
MCRows == {[cidr |-> net32, group |-> 1, auth |-> "none"],
           [cidr |-> net32, group |-> 3, auth |-> "captive"]}
=============================================================================
