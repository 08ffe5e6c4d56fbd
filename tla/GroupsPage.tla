----------------------------- MODULE GroupsPage -----------------------------
(***************************************************************************)
(* The Groups page (src/web/src/pages/Groups.tsx): the table of groups and *)
(* the editor of the categories a group blocks, with the server's handlers *)
(* behind it.  A handler is two actions: up to its await, and what follows *)
(* once the answer is there ("Ends", the catch branch included).           *)
(*                                                                         *)
(* ui.rows is groups, ui.editing is editingPolicy (0 for null), ui.draft   *)
(* is blockedCats, ui.saving is savingPolicy, ui.known and ui.gone are the *)
(* history of TableEnds.  fetchCategories, which runs once per page, is    *)
(* left out: its answer, the boxes that can be ticked, is there at some    *)
(* time or never, and nothing but toggling reads it.                       *)
(***************************************************************************)
EXTENDS WebClient

CONSTANTS MaxGroups,  \* bound on the ids: the server refuses to create more
          Category

Ids == 1 .. MaxGroups

GroupsMounted ==
  [page |-> "groups", rows |-> {}, editing |-> 0,
   draft |-> {}, saving |-> FALSE, known |-> {}, gone |-> {}]

fetchGroups == Call("groups", 0, {})

\* The page is opened, or left and opened again.
Mount == MountWith(GroupsMounted, fetchGroups)

fetchGroupsEnds(c) == TableEnds(c, "groups")

handleCreate(c) ==
  /\ Free(c)
  /\ net' = Issue(net, c, Call("createGroup", 0, {}))
  /\ UNCHANGED <<ui, db>>

handleCreateEnds(c) ==
  /\ \/ /\ Resolved(c, "createGroup")
        /\ net' = Issue(net, c, fetchGroups)
        /\ ui' = [ui EXCEPT !.known = @ \cup net[c].got]
     \/ Rejected(c, "createGroup") /\ UNCHANGED ui
  /\ UNCHANGED db

\* "editingPolicy === id" after the await is the value at the click.
handleDelete(c, id) ==
  /\ id \in ui.rows /\ Free(c)
  /\ net' = Issue(net, c, Call("deleteGroup", id,
                    IF ui.editing = id THEN {"editor"} ELSE {}))
  /\ UNCHANGED <<ui, db>>

handleDeleteEnds_NoFetch(c) ==
  /\ Resolved(c, "deleteGroup")
  /\ net' = [net EXCEPT ![c] = Idle]
  /\ ui' = [ui EXCEPT !.gone = @ \cup {net[c].id}]
  /\ UNCHANGED db

handleDeleteEnds(c) ==
  /\ \/ /\ Resolved(c, "deleteGroup")
        /\ net' = Issue(net, c, fetchGroups)
        /\ ui' = [ui EXCEPT
                   !.gone = @ \cup {net[c].id},
                   !.editing = IF "editor" \in net[c].arg THEN 0 ELSE @]
     \/ Rejected(c, "deleteGroup") /\ UNCHANGED ui
  /\ UNCHANGED db

openPolicy_EditsAtOnce(c, id) ==
  /\ id \in ui.rows /\ ui.editing # id /\ Free(c)
  /\ net' = Issue(net, c, Call("policy", id, {}))
  /\ ui' = [ui EXCEPT !.editing = id]
  /\ UNCHANGED db

openPolicy(c, id) ==
  /\ id \in ui.rows
  /\ \/ /\ ui.editing = id
        /\ ui' = [ui EXCEPT !.editing = 0]
        /\ UNCHANGED net
     \/ /\ ui.editing # id /\ Free(c)
        /\ net' = Issue(net, c, Call("policy", id, {}))
        /\ UNCHANGED ui
  /\ UNCHANGED db

openPolicyEnds(c) ==
  /\ \/ /\ Resolved(c, "policy")
        /\ net' = [net EXCEPT ![c] = Idle]
        /\ ui' = [ui EXCEPT !.draft = net[c].got, !.editing = net[c].id]
     \/ Rejected(c, "policy") /\ UNCHANGED ui
  /\ UNCHANGED db

\* The editor is drawn under its row, so only for a group in the table.
EditorShown == ui.editing \in ui.rows

toggleCategory(cat) ==
  /\ EditorShown
  /\ ui' = [ui EXCEPT !.draft = IF cat \in @ THEN @ \ {cat} ELSE @ \cup {cat}]
  /\ UNCHANGED <<net, db>>

savePolicy(c) ==
  /\ EditorShown /\ ~ui.saving /\ Free(c)
  /\ net' = Issue(net, c, Call("savePolicy", ui.editing, ui.draft))
  /\ ui' = [ui EXCEPT !.saving = TRUE]
  /\ UNCHANGED db

savePolicyEnds(c) ==
  /\ \/ Resolved(c, "savePolicy") /\ net' = [net EXCEPT ![c] = Idle]
     \/ Rejected(c, "savePolicy")
  /\ ui' = [ui EXCEPT !.saving = FALSE]
  /\ UNCHANGED db

PageStep ==
  /\ ui.page = "groups"
  /\ \/ \E c \in Conns :
          \/ fetchGroupsEnds(c)
          \/ handleCreate(c) \/ handleCreateEnds(c)
          \/ \E id \in Ids : handleDelete(c, id) \/ openPolicy(c, id)
          \/ handleDeleteEnds(c) \/ openPolicyEnds(c)
          \/ savePolicy(c) \/ savePolicyEnds(c)
     \/ \E cat \in Category : toggleCategory(cat)

-----------------------------------------------------------------------------
(* The server.                                                             *)

\* The rows come in the order of their ids.
GroupsUpTo(last) == {id \in db.groups : id <= last}

ListGroups(c) ==
  /\ Serving(c, "groups")
  /\ SettleRows(c, db.groups, {GroupsUpTo(last) : last \in Ids \cup {0}})
  /\ UNCHANGED db

\* Ids are a SERIAL column: never handed out twice.
CreateGroup(c) ==
  LET ok == db.nextGroup \in Ids IN
  /\ Serving(c, "createGroup")
  /\ db' = IF ok THEN [db EXCEPT !.groups = @ \cup {db.nextGroup}, !.nextGroup = @ + 1]
                 ELSE db
  /\ Settle(c, ok, IF ok THEN {db.nextGroup} ELSE {})

\* The policies and the IP ranges of the group go with it (ON DELETE CASCADE).
DeleteGroup(c) ==
  /\ Serving(c, "deleteGroup")
  /\ db' = [db EXCEPT !.groups = @ \ {net[c].id}, !.policies[net[c].id] = {},
                      !.ranges = {r \in @ : r.group # net[c].id}]
  /\ Settle(c, TRUE, {})

\* The rows come in any order, and one that cannot be scanned is skipped.
GetGroupPolicy(c) ==
  /\ Serving(c, "policy")
  /\ SettleRows(c, db.policies[net[c].id], SUBSET db.policies[net[c].id])
  /\ UNCHANGED db

\* One transaction; a category row needs its group (foreign key).
SetGroupPolicy(c) ==
  LET ok == net[c].id \in db.groups \/ net[c].arg = {} IN
  /\ Serving(c, "savePolicy")
  /\ db' = IF ok THEN [db EXCEPT !.policies[net[c].id] = net[c].arg] ELSE db
  /\ Settle(c, ok, {})

ServerStep ==
  /\ \E c \in Conns :
       \/ ListGroups(c) \/ GetGroupPolicy(c)
       \/ CreateGroup(c) \/ DeleteGroup(c) \/ SetGroupPolicy(c)
  /\ UNCHANGED ui

-----------------------------------------------------------------------------
vars == <<ui, net, db>>

Init ==
  /\ ui = GroupsMounted
  /\ \E c \in Conns : net = [[d \in Conns |-> Idle] EXCEPT ![c] = fetchGroups]
  /\ db = [groups |-> {1}, nextGroup |-> 2, policies |-> [i \in Ids |-> {}],
           ranges |-> {}]

Next == PageStep \/ ServerStep \/ Mount

Spec == Init /\ [][Next]_vars

-----------------------------------------------------------------------------
(* The editor of the page as a CategoryEditor.                             *)

Onscreen == ui.page = "groups" /\ ui.editing # 0

Fetched ==
  {[owner |-> net[c].id, cats |-> net[c].got, whole |-> net[c].phase = "done"] :
     c \in {d \in Conns : Resolved(d, "policy")}}

Sent ==
  {[owner |-> net[c].id, cats |-> net[c].arg] :
     c \in {d \in Conns : Serving(d, "savePolicy")}}

Draft == IF Onscreen THEN {[owner |-> ui.editing, cats |-> ui.draft]} ELSE {}

Editor == INSTANCE CategoryEditor
            WITH Owner <- Ids, stored <- db.policies, fetched <- Fetched,
                 draft <- Draft, sent <- Sent

-----------------------------------------------------------------------------
(* Properties.                                                             *)

GroupsTypeOK ==
  /\ ui \in [page : {"groups"}, rows : SUBSET Ids,
             editing : Ids \cup {0}, draft : SUBSET Category,
             saving : BOOLEAN, known : SUBSET Ids, gone : SUBSET Ids]
  /\ db \in [groups : SUBSET Ids, nextGroup : 1 .. MaxGroups + 1,
             policies : [Ids -> SUBSET Category], ranges : {{}}]
  /\ net \in [Conns ->
       [op : {"idle", "groups", "policy", "createGroup",
              "deleteGroup", "savePolicy"},
        id : Ids \cup {0}, arg : SUBSET (Category \cup {"editor"}),
        got : SUBSET (Ids \cup Category),
        phase : {"idle", "sent", "done", "part", "refused"},
        live : BOOLEAN, newest : BOOLEAN]]

\* The policy editor implements CategoryEditor: the categories shown for a
\* group were read for that group, all of them unless the result broke off, and
\* changed only by the user, and what the server stores for a group is a draft
\* of that group as it was saved, whatever the order of the answers of
\* openPolicy and savePolicy and whichever groups were opened, closed or deleted
\* meanwhile (Groups.tsx 76-109, policies.go 16-60).
PolicyEditorRefines == Editor!Spec

\* savingPolicy is TRUE exactly while this page waits for one save, on every
\* path out of savePolicy: the button neither sticks nor lets a second save of
\* the same page overtake the first (Groups.tsx 97-109).
SavingExact ==
  LET waiting == {c \in Conns : net[c].op = "savePolicy" /\ net[c].live} IN
  ui.page = "groups" => Cardinality(waiting) = (IF ui.saving THEN 1 ELSE 0)

=============================================================================
