---------------------------- MODULE FilterEngine ----------------------------
(***************************************************************************)
(* The decision procedure of internal/filter: Blacklist.Contains and       *)
(* Engine.EvaluateForGroup, as operators on the in-memory configuration.   *)
(*                                                                         *)
(* A domain is a model value.  Parents[d] lists its parent domains, the    *)
(* nearest first and the top-level domain last, so that the two different  *)
(* walks up the domain tree can be told apart.                             *)
(***************************************************************************)
EXTENDS Integers, Sequences, FiniteSetsExt

CONSTANTS
    Domains,     \* names that lists and queries may contain
    Parents,     \* Parents[d]: "b.c." and "c." for d = "a.b.c."
    Categories,
    NoCategory,  \* a domain missing from the category map
    Groups       \* group identifiers, positive for a real group

ASSUME EngineAssumption ==
    /\ NoCategory \notin Categories
    /\ Groups \subseteq Nat
    /\ DOMAIN Parents = Domains

\* Blacklist.Contains: the name itself or any parent, the top-level domain too.
Contains(S, d) ==
    \/ d \in S
    \/ \E i \in DOMAIN Parents[d] : Parents[d][i] \in S

\* The names under which EvaluateForGroup and findParentCategory look for a
\* category: the name itself, then its parents except the top-level domain.
CategoryPath(d) == <<d>> \o SubSeq(Parents[d], 1, Len(Parents[d]) - 1)

\* The category of the nearest name that has one.
CategoryOf(map, d) ==
    LET path == CategoryPath(d)
        hits == {i \in DOMAIN path : map[path[i]] # NoCategory}
    IN  IF hits = {} THEN NoCategory ELSE map[path[Min(hits)]]

\* The group policy blocks the domain's category; group 0 has no policy.
CategoryBlocked(map, policies, d, g) ==
    /\ g > 0
    /\ CategoryOf(map, d) # NoCategory
    /\ <<g, CategoryOf(map, d)>> \in policies

\* What EvaluateForGroup decides when nothing changes while it runs:
\* the whitelist first, then the blacklist, then the category policy.
Decision(black, white, map, policies, d, g) ==
    IF ~Contains(white, d)
        /\ (Contains(black, d) \/ CategoryBlocked(map, policies, d, g))
    THEN "block" ELSE "allow"
=============================================================================
