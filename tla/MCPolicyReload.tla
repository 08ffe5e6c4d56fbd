--------------------------- MODULE MCPolicyReload ---------------------------
(* A blacklist with a source URL and a whitelist, a domain and its          *)
(* subdomain, both files in use, one category policy, one API reload or     *)
(* download racing the listener.                                            *)
EXTENDS PolicyReload, TLC

CONSTANTS site, sub, tld, lb, lw, api, social, games

MCParents == (site :> <<tld>>) @@ (sub :> <<site, tld>>)
MCListType == (lb :> "black") @@ (lw :> "white")
MCInitialLists ==
    (lb :> [present |-> TRUE, active |-> TRUE, entries |-> {sub}, cats |-> {}])
    @@ (lw :> [present |-> FALSE, active |-> FALSE, entries |-> {}, cats |-> {}])
\* For the run with queries: site has a category, sub is in both files.
MCQueryLists ==
    (lb :> [present |-> TRUE, active |-> TRUE, entries |-> {site}, cats |-> {social}])
    @@ (lw :> [present |-> FALSE, active |-> FALSE, entries |-> {}, cats |-> {}])
MCInitialPolicies == {<<1, social>>}
=============================================================================
