------------------------------ MODULE ListsPage ------------------------------
(***************************************************************************)
(* The Lists page (src/web/src/pages/Lists.tsx): the table of block lists, *)
(* the editor of the categories of a list, the panel that adds domains to  *)
(* it, and the reload and download buttons, with the server's handlers     *)
(* behind them.  Handlers are split at their await as in GroupsPage.       *)
(*                                                                         *)
(* ui.rows is lists, ui.editing is editingCats and ui.draft listCats,      *)
(* ui.adding is addingDomains (0 for null), ui.busy holds the operations   *)
(* whose flag is set (savingCats, savingDomains, reloading, downloading).  *)
(* ui.text is domainsText: {} when no line of it is a domain, {i} for      *)
(* domains the user typed in the panel of list i.  fetchCategories is left *)
(* out as in GroupsPage.                                                   *)
(***************************************************************************)
EXTENDS WebClient

CONSTANTS MaxLists,   \* bound on the ids: the server refuses to create more
          Category

ASSUME MaxListsAssumption == MaxLists \in Nat \ {0}

Ids == 1 .. MaxLists
BusyOps == {"saveCategories", "addEntries", "reload", "download"}

ListsMounted ==
  [page |-> "lists", rows |-> {}, editing |-> 0, draft |-> {},
   adding |-> 0, text |-> {}, busy |-> {}]

fetchLists == Call("lists", 0, {})

\* The page is opened, or left and opened again.
Mount == MountWith(ListsMounted, fetchLists)

fetchListsEnds(c) ==
  /\ \/ /\ Resolved(c, "lists")
        /\ net' = [net EXCEPT ![c] = Idle]
        /\ ui' = [ui EXCEPT !.rows = net[c].got]
     \/ Rejected(c, "lists") /\ UNCHANGED ui
  /\ UNCHANGED db

handleCreate(c) ==
  /\ Free(c)
  /\ net' = Issue(net, c, Call("createList", 0, {}))
  /\ UNCHANGED <<ui, db>>

handleCreateEnds(c) ==
  /\ \/ Resolved(c, "createList") /\ net' = Issue(net, c, fetchLists)
     \/ Rejected(c, "createList")
  /\ UNCHANGED <<ui, db>>

\* The buttons are disabled while their flag is set.
Start(c, op, id, arg) ==
  /\ Free(c) /\ op \notin ui.busy
  /\ net' = Issue(net, c, Call(op, id, arg))
  /\ ui' = [ui EXCEPT !.busy = @ \cup {op}]
  /\ UNCHANGED db

handleDownload(c) == Start(c, "download", 0, {})

handleDownloadEnds(c) ==
  /\ \/ Resolved(c, "download") /\ net' = Issue(net, c, fetchLists)
     \/ Rejected(c, "download")
  /\ ui' = [ui EXCEPT !.busy = @ \ {"download"}]
  /\ UNCHANGED db

handleReload(c) == Start(c, "reload", 0, {})

handleReloadEnds(c) ==
  /\ \/ Resolved(c, "reload") /\ net' = [net EXCEPT ![c] = Idle]
     \/ Rejected(c, "reload")
  /\ ui' = [ui EXCEPT !.busy = @ \ {"reload"}]
  /\ UNCHANGED db

\* editingCats and addingDomains are compared as they were at the click.
handleDelete(c, id) ==
  /\ id \in ui.rows /\ Free(c)
  /\ net' = Issue(net, c, Call("deleteList", id,
                    (IF ui.editing = id THEN {"editor"} ELSE {}) \cup
                    (IF ui.adding = id THEN {"domains"} ELSE {})))
  /\ UNCHANGED <<ui, db>>

handleDeleteEnds(c) ==
  /\ \/ /\ Resolved(c, "deleteList")
        /\ net' = Issue(net, c, fetchLists)
        /\ ui' = [ui EXCEPT
                   !.editing = IF "editor" \in net[c].arg THEN 0 ELSE @,
                   !.adding = IF "domains" \in net[c].arg THEN 0 ELSE @]
     \/ Rejected(c, "deleteList") /\ UNCHANGED ui
  /\ UNCHANGED db

openCategories_EditsAtOnce(c, id) ==
  /\ id \in ui.rows /\ ui.editing # id /\ Free(c)
  /\ net' = Issue(net, c, Call("categories", id, {}))
  /\ ui' = [ui EXCEPT !.adding = 0, !.editing = id]
  /\ UNCHANGED db

openCategories(c, id) ==
  /\ id \in ui.rows
  /\ \/ /\ ui.editing = id
        /\ ui' = [ui EXCEPT !.editing = 0]
        /\ UNCHANGED net
     \/ /\ ui.editing # id /\ Free(c)
        /\ net' = Issue(net, c, Call("categories", id, {}))
        /\ ui' = [ui EXCEPT !.adding = 0]
  /\ UNCHANGED db

openCategoriesEnds(c) ==
  /\ \/ /\ Resolved(c, "categories")
        /\ net' = [net EXCEPT ![c] = Idle]
        /\ ui' = [ui EXCEPT !.draft = net[c].got, !.editing = net[c].id]
     \/ Rejected(c, "categories") /\ UNCHANGED ui
  /\ UNCHANGED db

\* Both panels are drawn under the row of their list.
EditorShown == ui.editing \in ui.rows
DomainsShown == ui.adding \in ui.rows

toggleListCat(cat) ==
  /\ EditorShown
  /\ ui' = [ui EXCEPT !.draft = IF cat \in @ THEN @ \ {cat} ELSE @ \cup {cat}]
  /\ UNCHANGED <<net, db>>

saveCategories(c) ==
  EditorShown /\ Start(c, "saveCategories", ui.editing, ui.draft)

saveCategoriesEnds(c) ==
  /\ \/ Resolved(c, "saveCategories") /\ net' = [net EXCEPT ![c] = Idle]
     \/ Rejected(c, "saveCategories")
  /\ ui' = [ui EXCEPT !.busy = @ \ {"saveCategories"}]
  /\ UNCHANGED db

openDomains_KeepsText(id) ==
  /\ id \in ui.rows
  /\ ui' = IF ui.adding = id THEN [ui EXCEPT !.adding = 0]
                             ELSE [ui EXCEPT !.editing = 0, !.adding = id]
  /\ UNCHANGED <<net, db>>

openDomains(id) ==
  /\ id \in ui.rows
  /\ ui' = IF ui.adding = id
           THEN [ui EXCEPT !.adding = 0]
           ELSE [ui EXCEPT !.editing = 0, !.text = {}, !.adding = id]
  /\ UNCHANGED <<net, db>>

TypeDomains ==
  /\ DomainsShown
  /\ \E t \in {{}, {ui.adding}} : ui' = [ui EXCEPT !.text = t]
  /\ UNCHANGED <<net, db>>

\* Without a line that is a domain at most a message is shown.
saveDomains(c) ==
  /\ DomainsShown /\ ui.text # {}
  /\ Start(c, "addEntries", ui.adding, ui.text)

saveDomainsEnds_NoFinally(c) ==
  /\ \/ /\ Resolved(c, "addEntries")
        /\ net' = Issue(net, c, fetchLists)
        /\ ui' = [ui EXCEPT !.text = {}, !.adding = 0, !.busy = @ \ {"addEntries"}]
     \/ Rejected(c, "addEntries") /\ UNCHANGED ui
  /\ UNCHANGED db

saveDomainsEnds(c) ==
  /\ \/ /\ Resolved(c, "addEntries")
        /\ net' = Issue(net, c, fetchLists)
        /\ ui' = [ui EXCEPT !.text = {}, !.adding = 0,
                            !.busy = @ \ {"addEntries"}]
     \/ /\ Rejected(c, "addEntries")
        /\ ui' = [ui EXCEPT !.busy = @ \ {"addEntries"}]
  /\ UNCHANGED db

PageStep ==
  \/ \E c \in Conns :
       \/ fetchListsEnds(c)
       \/ handleCreate(c) \/ handleCreateEnds(c)
       \/ handleDownload(c) \/ handleDownloadEnds(c)
       \/ handleReload(c) \/ handleReloadEnds(c)
       \/ \E id \in Ids : handleDelete(c, id) \/ openCategories(c, id)
       \/ handleDeleteEnds(c) \/ openCategoriesEnds(c)
       \/ saveCategories(c) \/ saveCategoriesEnds(c)
       \/ saveDomains(c) \/ saveDomainsEnds(c)
  \/ \E cat \in Category : toggleListCat(cat)
  \/ \E id \in Ids : openDomains(id)
  \/ TypeDomains

-----------------------------------------------------------------------------
(* The server.                                                             *)

\* The rows come in the order of their ids; after any of them the result may
\* break off, and nobody looks at rows.Err.
ListsUpTo(last) == {id \in db.lists : id <= last}

ListBlocklists(c) ==
  /\ Serving(c, "lists")
  /\ \E last \in Ids \cup {0} : Settle(c, TRUE, ListsUpTo(last))
  /\ UNCHANGED db

CreateBlocklist(c) ==
  LET ok == db.nextList \in Ids IN
  /\ Serving(c, "createList")
  /\ db' = IF ok THEN [db EXCEPT !.lists = @ \cup {db.nextList}, !.nextList = @ + 1]
                 ELSE db
  /\ Settle(c, ok, IF ok THEN {db.nextList} ELSE {})

DeleteBlocklist(c) ==
  /\ Serving(c, "deleteList")
  /\ db' = [db EXCEPT !.lists = @ \ {net[c].id}, !.cats[net[c].id] = {}]
  /\ Settle(c, TRUE, {})

GetBlocklistCategories_WrongColumn(c) ==
  /\ Serving(c, "categories")
  /\ Settle(c, TRUE, IF db.cats[net[c].id] = {} THEN {} ELSE {net[c].id})
  /\ UNCHANGED db

\* The rows come in any order, and one that cannot be scanned is skipped.
GetBlocklistCategories(c) ==
  /\ Serving(c, "categories")
  /\ SettleRows(c, db.cats[net[c].id], SUBSET db.cats[net[c].id])
  /\ UNCHANGED db

\* One transaction; a category row needs its list (foreign key).
SetBlocklistCategories(c) ==
  LET ok == net[c].id \in db.lists \/ net[c].arg = {} IN
  /\ Serving(c, "saveCategories")
  /\ db' = IF ok THEN [db EXCEPT !.cats[net[c].id] = net[c].arg] ELSE db
  /\ Settle(c, ok, {})

\* The domains themselves, and what the engine makes of them, are the subject of
\* PolicyReload: of the three calls below db keeps only that a list must exist.
AddEntries(c) ==
  /\ Serving(c, "addEntries")
  /\ Settle(c, net[c].id \in db.lists, {})
  /\ UNCHANGED db

ReloadLists(c) == Serving(c, "reload") /\ Settle(c, TRUE, {}) /\ UNCHANGED db

DownloadLists(c) == Serving(c, "download") /\ Settle(c, TRUE, {}) /\ UNCHANGED db

ServerStep ==
  /\ \E c \in Conns :
       \/ ListBlocklists(c) \/ GetBlocklistCategories(c) \/ CreateBlocklist(c)
       \/ DeleteBlocklist(c) \/ SetBlocklistCategories(c) \/ AddEntries(c)
       \/ ReloadLists(c) \/ DownloadLists(c)
  /\ UNCHANGED ui

-----------------------------------------------------------------------------
vars == <<ui, net, db>>

Init ==
  /\ ui = ListsMounted
  /\ \E c \in Conns : net = [[d \in Conns |-> Idle] EXCEPT ![c] = fetchLists]
  /\ db = [lists |-> {1}, nextList |-> 2, cats |-> [i \in Ids |-> {}]]

Next == PageStep \/ ServerStep \/ Mount

Spec == Init /\ [][Next]_vars

-----------------------------------------------------------------------------
(* The category editor of the page as a CategoryEditor.                    *)

Fetched ==
  {[owner |-> net[c].id, cats |-> net[c].got, whole |-> net[c].phase = "done"] :
     c \in {d \in Conns : Resolved(d, "categories")}}

Sent ==
  {[owner |-> net[c].id, cats |-> net[c].arg] :
     c \in {d \in Conns : Serving(d, "saveCategories")}}

Draft == IF ui.editing = 0 THEN {} ELSE {[owner |-> ui.editing, cats |-> ui.draft]}

Editor == INSTANCE CategoryEditor
            WITH Owner <- Ids, stored <- db.cats, fetched <- Fetched,
                 draft <- Draft, sent <- Sent

-----------------------------------------------------------------------------
(* Properties.                                                             *)

CallOK(call) ==
  /\ DOMAIN call = DOMAIN Idle
  /\ call.op \in {"idle", "lists", "categories", "createList", "deleteList"} \cup BusyOps
  /\ call.phase \in {"idle", "sent", "done", "part", "refused"}
  /\ call.phase = "idle" <=> call.op = "idle"
  /\ call.live \in BOOLEAN /\ call.newest \in BOOLEAN
  /\ call.op \in {"categories", "deleteList", "saveCategories", "addEntries"}
       => call.id \in Ids
  /\ call.op = "saveCategories" => call.arg \subseteq Category
  /\ call.op = "addEntries" => call.arg \subseteq Ids
  /\ call.op = "deleteList" => call.arg \subseteq {"editor", "domains"}
  /\ call.op = "categories" => call.got \subseteq Category
  /\ call.op = "lists" => call.got \subseteq Ids

ListsTypeOK ==
  /\ ui \in [page : {"lists"}, rows : SUBSET Ids,
             editing : Ids \cup {0}, draft : SUBSET Category,
             adding : Ids \cup {0}, text : {{}} \cup {{i} : i \in Ids},
             busy : SUBSET BusyOps]
  /\ db \in [lists : SUBSET Ids, nextList : 1 .. MaxLists + 1,
             cats : [Ids -> SUBSET Category]]
  /\ DOMAIN net = Conns /\ \A c \in Conns : CallOK(net[c])

\* The category editor of a list implements CategoryEditor: the set shown for a
\* list was read for that list, whole unless the result broke off, and changed
\* only by the user, and the server stores for a list only drafts of that list,
\* although the domains panel opens and closes over it while answers are on
\* their way (Lists.tsx 123-167, ranges.go 133-177).
ListEditorRefines == Editor!Spec

\* Each of savingCats, savingDomains, reloading and downloading is TRUE exactly
\* while this page waits for one such call: no path through try, catch and
\* finally leaves a button disabled for ever or lets the operation be started
\* twice (Lists.tsx 78-107, 145-157, 169-194).
BusyExact ==
  \A op \in BusyOps :
    Cardinality({c \in Conns : net[c].op = op /\ net[c].live}) =
      (IF op \in ui.busy THEN 1 ELSE 0)

\* Domains typed in the panel of one list are never sent to another: not when
\* the panel moves to another list, not when a save ends late (Lists.tsx
\* 159-194).
DomainsReachTheirList ==
  \A c \in Conns : net[c].op = "addEntries" => net[c].arg = {net[c].id}

=============================================================================
