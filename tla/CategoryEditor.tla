--------------------------- MODULE CategoryEditor ---------------------------
(***************************************************************************)
(* What an editor of category sets promises: the policy editor of the      *)
(* Groups page and the category editor of the Lists page.  A draft is      *)
(* opened only with what the server stored for that very owner, or with a  *)
(* part of it when the answer broke off; it changes only by the user's     *)
(* toggles; and what the server stores for an owner is a draft of that     *)
(* owner exactly as it stood when it was saved.  Answers may be late or    *)
(* lost; nothing else may happen to the sets.                              *)
(***************************************************************************)
CONSTANTS Owner, Category

VARIABLES stored,    \* what the server stores for each owner
          fetched,   \* answers on their way to the page, whole or broken off
          draft,     \* {what the open editor shows}, {} while it is closed
          sent       \* saves on their way to the server

vars == <<stored, fetched, draft, sent>>

Init ==
  /\ stored \in [Owner -> SUBSET Category]
  /\ fetched = {}
  /\ draft = {}
  /\ sent = {}

\* Answers and saves may be lost at any time.
MayLose == fetched' \subseteq fetched /\ sent' \subseteq sent

Read(o, cats) ==
  /\ fetched' \subseteq fetched \cup
       {[owner |-> o, cats |-> cats, whole |-> cats = stored[o]]}
  /\ UNCHANGED <<stored, draft, sent>>

Open(v) ==
  /\ draft' = {[owner |-> v.owner, cats |-> v.cats]}
  /\ MayLose
  /\ UNCHANGED stored

Toggle(cat) ==
  /\ \E v \in draft :
       draft' = {[owner |-> v.owner,
                  cats |-> IF cat \in v.cats THEN v.cats \ {cat}
                                             ELSE v.cats \cup {cat}]}
  /\ UNCHANGED <<stored, fetched, sent>>

Close ==
  /\ draft' = {}
  /\ MayLose
  /\ UNCHANGED stored

Save ==
  /\ draft # {}
  /\ sent' = sent \cup draft
  /\ UNCHANGED <<stored, fetched, draft>>

Commit(v) ==
  /\ stored' = [stored EXCEPT ![v.owner] = v.cats]
  /\ sent' \subseteq sent
  /\ UNCHANGED <<fetched, draft>>

\* The owner is deleted, its categories with it.
Remove(o) ==
  /\ stored' = [stored EXCEPT ![o] = {}]
  /\ UNCHANGED <<fetched, draft, sent>>

Lose ==
  /\ UNCHANGED <<stored, draft>>
  /\ MayLose

Next ==
  \/ Lose \/ Close \/ Save
  \/ \E cat \in Category : Toggle(cat)
  \/ \E v \in fetched : Open(v)
  \/ \E v \in sent : Commit(v)
  \/ \E o \in Owner : Remove(o)
  \/ \E o \in Owner : \E cats \in SUBSET stored[o] : Read(o, cats)

Spec == Init /\ [][Next]_vars

=============================================================================
