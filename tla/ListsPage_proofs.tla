-------------------------- MODULE ListsPage_proofs --------------------------
(***************************************************************************)
(* Proofs about the Lists page, for any number of connections, lists and   *)
(* categories.                                                             *)
(***************************************************************************)
EXTENDS ListsPage, FiniteSetTheorems, TLAPS

\* A well typed call, whose domains were typed for the list they are sent to.
CallGood(call) ==
  CallOK(call) /\ (call.op = "addEntries" => call.arg = {call.id})

\* The inductive invariant, in parts.
NetOK == DOMAIN net = Conns /\ \A c \in Conns : CallGood(net[c])

UiOK ==
  ui \in [page : {"lists"}, rows : SUBSET Ids,
          editing : Ids \cup {0}, draft : SUBSET Category,
          adding : Ids \cup {0}, text : {{}} \cup {{i} : i \in Ids},
          busy : SUBSET BusyOps]

DbOK ==
  db \in [lists : SUBSET Ids, nextList : 1 .. MaxLists + 1,
          cats : [Ids -> SUBSET Category]]

\* The text of an open domains panel was typed in that panel.
TextOK == ui.adding # 0 /\ ui.text # {} => ui.text = {ui.adding}

TypeInv == UiOK /\ DbOK /\ NetOK /\ TextOK

\* What of a call the editor and the flags depend on.
SameCall(x, y) ==
  /\ DOMAIN x = DOMAIN Idle /\ x.newest \in BOOLEAN
  /\ x.op = y.op /\ x.id = y.id /\ x.arg = y.arg /\ x.got = y.got
  /\ x.phase = y.phase /\ x.live = y.live

\* Every call but the one on c stays.
Others(c) ==
  /\ DOMAIN net' = Conns
  /\ \A d \in Conns \ {c} : SameCall(net'[d], net[d])

\* The call on c is given up: forgotten, or no longer waited for.
GivenUp(c) ==
  \/ net'[c] = Idle
  \/ /\ DOMAIN net'[c] = DOMAIN Idle /\ net'[c].newest \in BOOLEAN
     /\ net'[c].op = net[c].op /\ net'[c].id = net[c].id
     /\ net'[c].arg = net[c].arg /\ net'[c].got = net[c].got
     /\ net'[c].phase = net[c].phase /\ net'[c].live = FALSE

\* The server has answered the call on c, if anybody waits for it.
Answered(c, got) ==
  \/ net'[c] = Idle /\ ~net[c].live
  \/ /\ DOMAIN net'[c] = DOMAIN Idle /\ net'[c].newest \in BOOLEAN
     /\ net'[c].op = net[c].op /\ net'[c].id = net[c].id
     /\ net'[c].arg = net[c].arg /\ net'[c].got = got
     /\ net'[c].phase \in {"done", "part", "refused"} /\ net'[c].live = net[c].live

LEMMA IdleDomain ==
  DOMAIN Idle = {"op", "id", "arg", "got", "phase", "live", "newest"}
  BY DEF Idle

LEMMA CallDomain ==
  \A op, id, arg : DOMAIN Call(op, id, arg) = DOMAIN Idle
  BY DEF Call, Idle

LEMMA IssueEffect ==
  ASSUME NetOK, NEW c \in Conns, NEW call, net' = Issue(net, c, call)
  PROVE  Others(c) /\ net'[c] = call
<1>1. DOMAIN net' = Conns /\ net'[c] = call
  BY DEF Issue
<1>2. ASSUME NEW d \in Conns \ {c}
      PROVE  SameCall(net'[d], net[d])
  <2>1. CallGood(net[d])
    BY DEF NetOK
  <2>2. net'[d] = net[d] \/ net'[d] = [net[d] EXCEPT !.newest = FALSE]
    BY DEF Issue
  <2> QED
    BY <2>1, <2>2, IdleDomain DEF CallGood, CallOK, SameCall
<1> QED
  BY <1>1, <1>2 DEF Others

LEMMA ReplaceEffect ==
  ASSUME NetOK, NEW c \in Conns, NEW call, net' = [net EXCEPT ![c] = call]
  PROVE  Others(c) /\ net'[c] = call
  BY DEF NetOK, Others, SameCall, CallGood, CallOK

LEMMA RejectEffect ==
  ASSUME NetOK, NEW c \in Conns, NEW op, Rejected(c, op)
  PROVE  Others(c) /\ GivenUp(c) /\ net[c].op = op /\ net[c].live
<1>1. PICK r \in Remains(c) : net' = [net EXCEPT ![c] = r]
  BY DEF Rejected
<1>2. r = Idle \/ r = [net[c] EXCEPT !.live = FALSE]
  BY DEF Remains
<1>3. Others(c) /\ net'[c] = r
  BY <1>1, ReplaceEffect
<1>4. CallGood(net[c])
  BY DEF NetOK
<1>5. GivenUp(c)
  BY <1>2, <1>3, <1>4, IdleDomain DEF GivenUp, CallGood, CallOK
<1> QED
  BY <1>3, <1>5 DEF Rejected

\* Reply, with one of the outcomes as the phase of the call.
Settled(c, p, got) ==
  /\ p \in {"done", "part", "refused"}
  /\ net' = [net EXCEPT ![c] =
               IF net[c].live THEN [net[c] EXCEPT !.phase = p, !.got = got]
                              ELSE Idle]

LEMMA SettleEffect ==
  ASSUME NetOK, NEW c \in Conns, NEW p, NEW got, Settled(c, p, got)
  PROVE  /\ Others(c) /\ Answered(c, got)
         /\ net'[c] = Idle \/ net'[c].phase = p
<1> DEFINE call == IF net[c].live THEN [net[c] EXCEPT !.phase = p, !.got = got]
                                  ELSE Idle
<1>1. net' = [net EXCEPT ![c] = call]
  BY DEF Settled
<1>2. Others(c) /\ net'[c] = call
  <2> HIDE DEF call
  <2> QED
    BY <1>1, ReplaceEffect
<1>3. CallGood(net[c])
  BY DEF NetOK
<1>4. p \in {"done", "part", "refused"}
  BY DEF Settled
<1>5. Answered(c, got)
  BY <1>2, <1>3, <1>4, IdleDomain DEF Answered, CallGood, CallOK
<1>6. net'[c] = Idle \/ net'[c].phase = p
  BY <1>2, <1>3, IdleDomain DEF CallGood, CallOK
<1> QED
  BY <1>2, <1>5, <1>6

\* Leaving the page: nobody waits for a call any more, saves are on their way.
LEMMA MountEffect ==
  ASSUME NetOK, Mount
  PROVE  \E c \in Conns :
           /\ DOMAIN net' = Conns
           /\ net'[c] = fetchLists
           /\ \A d \in Conns \ {c} : GivenUp(d)
<1>1. PICK c \in Conns : net' = [Abandoned EXCEPT ![c] = fetchLists]
  BY DEF Mount, MountWith
<1>2. DOMAIN net' = Conns /\ net'[c] = fetchLists
  BY <1>1 DEF Abandoned
<1>3. ASSUME NEW d \in Conns \ {c}
      PROVE  GivenUp(d)
  <2>1. CallGood(net[d])
    BY DEF NetOK
  <2>2. net'[d] = Idle \/ net'[d] = [net[d] EXCEPT !.live = FALSE]
    BY <1>1 DEF Abandoned
  <2> QED
    BY <2>1, <2>2, IdleDomain DEF GivenUp, CallGood, CallOK
<1> QED
  BY <1>2, <1>3

\* The types of the calls after a step on c.
LEMMA TypeOfCalls ==
  ASSUME NetOK, NEW c \in Conns, Others(c), CallGood(net'[c])
  PROVE  NetOK'
<1>1. ASSUME NEW d \in Conns \ {c}
      PROVE  CallGood(net'[d])
  <2>1. CallGood(net[d]) /\ SameCall(net'[d], net[d])
    BY DEF NetOK, Others
  <2> QED
    BY <2>1 DEF CallGood, CallOK, SameCall
<1> QED
  BY <1>1 DEF NetOK, Others

LEMMA TypeOfGivenUp ==
  ASSUME NEW c \in Conns, CallGood(net[c]), GivenUp(c)
  PROVE  CallGood(net'[c])
<1>1. CallGood(Idle)
  BY DEF CallGood, CallOK, Idle
<1>2. CASE net'[c] = Idle
  BY <1>1, <1>2
<1>3. CASE net'[c] # Idle
  <2>1. net'[c].live \in BOOLEAN /\ net'[c].newest \in BOOLEAN
    BY <1>3 DEF GivenUp
  <2> QED
    BY <1>3, <2>1 DEF CallGood, CallOK, GivenUp
<1> QED
  BY <1>2, <1>3

LEMMA NewCallOK ==
  /\ CallGood(Idle) /\ CallGood(fetchLists)
  /\ CallGood(Call("createList", 0, {}))
  /\ CallGood(Call("reload", 0, {})) /\ CallGood(Call("download", 0, {}))
  /\ \A id \in Ids : CallGood(Call("categories", id, {}))
  /\ \A id \in Ids, arg \in SUBSET {"editor", "domains"} :
       CallGood(Call("deleteList", id, arg))
  /\ \A id \in Ids, arg \in SUBSET Category :
       CallGood(Call("saveCategories", id, arg))
  /\ \A id \in Ids : CallGood(Call("addEntries", id, {id}))
  BY CallDomain DEF CallGood, CallOK, Call, Idle, fetchLists, Tables, BusyOps

\* An answer of the right type keeps the call well typed.
LEMMA TypeOfAnswered ==
  ASSUME NEW c \in Conns, CallGood(net[c]), net[c].phase = "sent", NEW got,
         Answered(c, got),
         net[c].op = "categories" => got \subseteq Category,
         net[c].op = "lists" => got \subseteq Ids
  PROVE  CallGood(net'[c])
<1>1. CASE net'[c] = Idle
  BY <1>1, NewCallOK
<1>2. CASE net'[c] # Idle
  <2>1. net'[c].live \in BOOLEAN /\ net'[c].newest \in BOOLEAN
    BY <1>2 DEF Answered, CallGood, CallOK
  <2> QED
    BY <1>2, <2>1 DEF CallGood, CallOK, Answered
<1> QED
  BY <1>1, <1>2

\* What a step of the server does to the call it serves.
Serves(c, got) ==
  /\ net[c].phase = "sent" /\ Others(c) /\ Answered(c, got)
  /\ net[c].op = "categories"
       => /\ got \subseteq db.cats[net[c].id] /\ got \subseteq Category
          /\ \/ net'[c] = Idle
             \/ net'[c].phase = "done" <=> got = db.cats[net[c].id]
  /\ net[c].op = "lists" => got \subseteq Ids

\* One of the handlers of the server serves c.
Handled(c) ==
  \/ ListBlocklists(c) \/ GetBlocklistCategories(c) \/ CreateBlocklist(c)
  \/ DeleteBlocklist(c) \/ SetBlocklistCategories(c) \/ AddEntries(c)
  \/ ReloadLists(c) \/ DownloadLists(c)

LEMMA ServerServes ==
  ASSUME TypeInv, NEW c \in Conns, Handled(c)
  PROVE  \E got : Serves(c, got)
<1>a. NetOK /\ DbOK
  BY DEF TypeInv
<1>2. ASSUME NEW op, Serving(c, op), NEW p, NEW got, Settled(c, p, got),
             op = "categories" => /\ got \subseteq db.cats[net[c].id]
                                  /\ got \subseteq Category
                                  /\ p = "done" <=> got = db.cats[net[c].id],
             op = "lists" => got \subseteq Ids
      PROVE  Serves(c, got)
  BY <1>a, <1>2, SettleEffect DEF Serves, Serving
<1>3. CASE ListBlocklists(c)
  <2>1. PICK last \in Ids \cup {0} : Settle(c, TRUE, ListsUpTo(last))
    BY <1>3 DEF ListBlocklists
  <2> DEFINE p == IF TRUE THEN "done" ELSE "refused"
             got == ListsUpTo(last)
  <2>2. got \subseteq Ids
    BY <1>a DEF DbOK, ListsUpTo
  <2>8. Serving(c, "lists")
    BY <1>3 DEF ListBlocklists
  <2>9. Settled(c, p, got)
    BY <2>1 DEF Settle, Settled, Reply
  <2> HIDE DEF p, got
  <2> QED
    BY <2>2, <1>2, <2>8, <2>9
<1>4. CASE GetBlocklistCategories(c)
  <2> DEFINE cats == db.cats[net[c].id]
  <2>1. Serving(c, "categories") /\ net[c].id \in Ids
    BY <1>a, <1>4 DEF NetOK, CallGood, CallOK, GetBlocklistCategories, Serving
  <2>2. cats \subseteq Category
    BY <1>a, <2>1 DEF DbOK
  <2> DEFINE Answer(p, got) == /\ Settled(c, p, got) /\ got \subseteq cats
                               /\ p = "done" <=> got = cats
  <2>3. \E p, got : Answer(p, got)
    <3>1. CASE Reply(c, "done", cats)
      <4>1. Answer("done", cats)
        BY <3>1 DEF Reply, Settled
      <4> HIDE DEF Answer
      <4> QED
        BY <4>1
    <3>2. CASE \E part \in (SUBSET cats) \ {cats} : Reply(c, "part", part)
      <4>1. PICK part \in (SUBSET cats) \ {cats} : Reply(c, "part", part)
        BY <3>2
      <4>2. Answer("part", part)
        BY <4>1 DEF Reply, Settled
      <4> HIDE DEF Answer
      <4> QED
        BY <4>2
    <3> QED
      BY <1>4, <3>1, <3>2 DEF GetBlocklistCategories, SettleRows
  <2>4. PICK p, got : Answer(p, got)
    BY <2>3
  <2> QED
    BY <2>1, <2>2, <2>4, <1>2
<1>5. CASE CreateBlocklist(c)
  <2> DEFINE p == IF db.nextList \in Ids THEN "done" ELSE "refused"
             got == IF db.nextList \in Ids THEN {db.nextList} ELSE {}
  <2>8. Serving(c, "createList")
    BY <1>5 DEF CreateBlocklist
  <2>9. Settled(c, p, got)
    BY <1>5 DEF CreateBlocklist, Settle, Settled, Reply
  <2> HIDE DEF p, got
  <2> QED
    BY <1>2, <2>8, <2>9
<1>6. CASE DeleteBlocklist(c)
  <2> DEFINE p == IF TRUE THEN "done" ELSE "refused"
             got == {}
  <2>8. Serving(c, "deleteList")
    BY <1>6 DEF DeleteBlocklist
  <2>9. Settled(c, p, got)
    BY <1>6 DEF DeleteBlocklist, Settle, Settled, Reply
  <2> HIDE DEF p, got
  <2> QED
    BY <1>2, <2>8, <2>9
<1>7. CASE SetBlocklistCategories(c)
  <2> DEFINE p == IF net[c].id \in db.lists \/ net[c].arg = {} THEN "done" ELSE "refused"
             got == {}
  <2>8. Serving(c, "saveCategories")
    BY <1>7 DEF SetBlocklistCategories
  <2>9. Settled(c, p, got)
    BY <1>7 DEF SetBlocklistCategories, Settle, Settled, Reply
  <2> HIDE DEF p, got
  <2> QED
    BY <1>2, <2>8, <2>9
<1>8. CASE AddEntries(c)
  <2> DEFINE p == IF net[c].id \in db.lists THEN "done" ELSE "refused"
             got == {}
  <2>8. Serving(c, "addEntries")
    BY <1>8 DEF AddEntries
  <2>9. Settled(c, p, got)
    BY <1>8 DEF AddEntries, Settle, Settled, Reply
  <2> HIDE DEF p, got
  <2> QED
    BY <1>2, <2>8, <2>9
<1>9. CASE ReloadLists(c)
  <2> DEFINE p == IF TRUE THEN "done" ELSE "refused"
             got == {}
  <2>8. Serving(c, "reload")
    BY <1>9 DEF ReloadLists
  <2>9. Settled(c, p, got)
    BY <1>9 DEF ReloadLists, Settle, Settled, Reply
  <2> HIDE DEF p, got
  <2> QED
    BY <1>2, <2>8, <2>9
<1>10. CASE DownloadLists(c)
  <2> DEFINE p == IF TRUE THEN "done" ELSE "refused"
             got == {}
  <2>8. Serving(c, "download")
    BY <1>10 DEF DownloadLists
  <2>9. Settled(c, p, got)
    BY <1>10 DEF DownloadLists, Settle, Settled, Reply
  <2> HIDE DEF p, got
  <2> QED
    BY <1>2, <2>8, <2>9
<1> QED
  BY <1>3, <1>4, <1>5, <1>6, <1>7, <1>8, <1>9, <1>10 DEF Handled

LEMMA TypeOfReject ==
  ASSUME NetOK, NEW c \in Conns, NEW op, Rejected(c, op)
  PROVE  NetOK'
<1>1. Others(c) /\ GivenUp(c)
  BY RejectEffect
<1>2. CallGood(net'[c])
  BY <1>1, TypeOfGivenUp DEF NetOK
<1> QED
  BY <1>1, <1>2, TypeOfCalls

LEMMA TypeOfNewCall ==
  ASSUME NetOK, NEW c \in Conns, NEW call, CallGood(call),
         net' = Issue(net, c, call) \/ net' = [net EXCEPT ![c] = call]
  PROVE  NetOK'
  BY IssueEffect, ReplaceEffect, TypeOfCalls

LEMMA NextNetOK == TypeInv /\ [Next]_vars => NetOK'
<1> SUFFICES ASSUME TypeInv, [Next]_vars
             PROVE  NetOK'
  OBVIOUS
<1>a. /\ NetOK
      /\ ui.rows \subseteq Ids /\ ui.draft \subseteq Category
      /\ ui.text # {} /\ ui.adding \in Ids => ui.text = {ui.adding}
  BY DEF TypeInv, UiOK, TextOK, Ids
<1>1. CASE UNCHANGED net
  BY <1>a, <1>1 DEF NetOK
<1>2. CASE Mount
  <2>1. PICK c \in Conns : /\ DOMAIN net' = Conns
                           /\ net'[c] = fetchLists
                           /\ \A d \in Conns \ {c} : GivenUp(d)
    BY <1>a, <1>2, MountEffect
  <2>2. ASSUME NEW d \in Conns
        PROVE  CallGood(net'[d])
    BY <1>a, <2>1, NewCallOK, TypeOfGivenUp DEF NetOK
  <2> QED
    BY <2>1, <2>2 DEF NetOK
<1>3. ASSUME NEW c \in Conns,
             \/ fetchListsEnds(c) \/ handleCreateEnds(c) \/ handleDownloadEnds(c)
             \/ handleReloadEnds(c) \/ handleDeleteEnds(c) \/ openCategoriesEnds(c)
             \/ saveCategoriesEnds(c) \/ saveDomainsEnds(c)
      PROVE  NetOK'
  <2>1. CASE \E op : Rejected(c, op)
    BY <1>a, <2>1, TypeOfReject
  <2>2. CASE net' = Issue(net, c, fetchLists) \/ net' = [net EXCEPT ![c] = Idle]
    BY <1>a, <2>2, NewCallOK, TypeOfNewCall
  <2> QED
    BY <1>3, <2>1, <2>2
       DEF fetchListsEnds, handleCreateEnds, handleDownloadEnds, handleReloadEnds,
           handleDeleteEnds, openCategoriesEnds, saveCategoriesEnds, saveDomainsEnds
<1>4. ASSUME NEW c \in Conns, handleCreate(c) \/ handleDownload(c) \/ handleReload(c)
      PROVE  NetOK'
  BY <1>a, <1>4, NewCallOK, TypeOfNewCall
     DEF handleCreate, handleDownload, handleReload, Start
<1>5. ASSUME NEW c \in Conns, NEW id \in Ids, handleDelete(c, id)
      PROVE  NetOK'
  <2> DEFINE arg == (IF ui.editing = id THEN {"editor"} ELSE {}) \cup
                    (IF ui.adding = id THEN {"domains"} ELSE {})
  <2>1. arg \in SUBSET {"editor", "domains"}
    OBVIOUS
  <2>2. net' = Issue(net, c, Call("deleteList", id, arg))
    BY <1>5 DEF handleDelete
  <2> HIDE DEF arg
  <2> QED
    BY <1>a, <2>1, <2>2, NewCallOK, TypeOfNewCall
<1>6. ASSUME NEW c \in Conns, NEW id \in Ids, openCategories(c, id)
      PROVE  NetOK'
  BY <1>a, <1>1, <1>6, NewCallOK, TypeOfNewCall DEF openCategories
<1>7. ASSUME NEW c \in Conns, saveCategories(c)
      PROVE  NetOK'
  BY <1>a, <1>7, NewCallOK, TypeOfNewCall DEF saveCategories, Start, EditorShown
<1>8. ASSUME NEW c \in Conns, saveDomains(c)
      PROVE  NetOK'
  BY <1>a, <1>8, NewCallOK, TypeOfNewCall DEF saveDomains, Start, DomainsShown
<1>9. CASE ServerStep
  <2>0. PICK c \in Conns : Handled(c)
    BY <1>9 DEF ServerStep, Handled
  <2>1. PICK got : Serves(c, got)
    BY <2>0, ServerServes
  <2>2. CallGood(net'[c])
    BY <1>a, <2>1, TypeOfAnswered DEF NetOK, Serves
  <2> QED
    BY <1>a, <2>1, <2>2, TypeOfCalls DEF Serves
<1>10. CASE \/ \E cat \in Category : toggleListCat(cat)
            \/ \E id \in Ids : openDomains(id)
            \/ TypeDomains \/ UNCHANGED vars
  BY <1>1, <1>10 DEF toggleListCat, openDomains, TypeDomains, vars
<1> QED
  BY <1>2, <1>3, <1>4, <1>5, <1>6, <1>7, <1>8, <1>9, <1>10 DEF Next, PageStep

\* What the page shows keeps its types.
LEMMA NextUiOK == TypeInv /\ [Next]_vars => UiOK'
<1> SUFFICES ASSUME TypeInv, [Next]_vars
             PROVE  UiOK'
  OBVIOUS
<1>a. UiOK /\ NetOK
  BY DEF TypeInv
<1>1. CASE UNCHANGED ui
  BY <1>a, <1>1 DEF UiOK
<1>2. CASE Mount
  BY <1>2 DEF Mount, MountWith, ListsMounted, UiOK
<1>3. ASSUME NEW c \in Conns, fetchListsEnds(c)
      PROVE  UiOK'
  <2>1. CASE Resolved(c, "lists") /\ ui' = [ui EXCEPT !.rows = net[c].got]
    <3>1. net[c].got \subseteq Ids
      BY <1>a, <2>1 DEF NetOK, CallGood, CallOK, Resolved
    <3> QED
      BY <1>a, <2>1, <3>1 DEF UiOK
  <2> QED
    BY <1>1, <1>3, <2>1 DEF fetchListsEnds
<1>4. ASSUME NEW c \in Conns, NEW op \in BusyOps, ui' = [ui EXCEPT !.busy = @ \ {op}]
      PROVE  UiOK'
  BY <1>a, <1>4 DEF UiOK
<1>5. ASSUME NEW c \in Conns, NEW op \in BusyOps, NEW id, NEW arg, Start(c, op, id, arg)
      PROVE  UiOK'
  BY <1>a, <1>5 DEF UiOK, Start
<1>6. ASSUME NEW c \in Conns, handleDeleteEnds(c)
      PROVE  UiOK'
  BY <1>a, <1>1, <1>6 DEF UiOK, handleDeleteEnds
<1>7. ASSUME NEW c \in Conns, NEW id \in Ids, openCategories(c, id)
      PROVE  UiOK'
  BY <1>a, <1>7 DEF UiOK, openCategories
<1>8. ASSUME NEW c \in Conns, openCategoriesEnds(c)
      PROVE  UiOK'
  <2>1. CASE /\ Resolved(c, "categories")
             /\ ui' = [ui EXCEPT !.draft = net[c].got, !.editing = net[c].id]
    <3>1. net[c].got \subseteq Category /\ net[c].id \in Ids
      BY <1>a, <2>1 DEF NetOK, CallGood, CallOK, Resolved
    <3> QED
      BY <1>a, <2>1, <3>1 DEF UiOK
  <2> QED
    BY <1>1, <1>8, <2>1 DEF openCategoriesEnds
<1>9. ASSUME NEW cat \in Category, toggleListCat(cat)
      PROVE  UiOK'
  BY <1>a, <1>9 DEF UiOK, toggleListCat
<1>10. ASSUME NEW id \in Ids, openDomains(id)
       PROVE  UiOK'
  BY <1>a, <1>10 DEF UiOK, openDomains
<1>11. CASE TypeDomains
  <2>1. ui.adding \in Ids
    BY <1>a, <1>11 DEF UiOK, TypeDomains, DomainsShown
  <2> QED
    BY <1>a, <1>11, <2>1 DEF UiOK, TypeDomains
<1>13. ASSUME NEW c \in Conns, saveDomainsEnds(c)
       PROVE  UiOK'
  BY <1>a, <1>13 DEF UiOK, saveDomainsEnds
<1>14. ASSUME NEW c \in Conns,
              \/ handleDownload(c) \/ handleDownloadEnds(c)
              \/ handleReload(c) \/ handleReloadEnds(c)
              \/ saveCategories(c) \/ saveCategoriesEnds(c) \/ saveDomains(c)
       PROVE  UiOK'
  BY <1>4, <1>5, <1>14
     DEF BusyOps, handleDownload, handleDownloadEnds, handleReload, handleReloadEnds,
         saveCategories, saveCategoriesEnds, saveDomains
<1>15. ASSUME NEW c \in Conns, NEW id \in Ids,
              handleCreate(c) \/ handleCreateEnds(c) \/ handleDelete(c, id)
       PROVE  UiOK'
  BY <1>1, <1>15 DEF handleCreate, handleCreateEnds, handleDelete
<1>16. 1 \in Ids
  BY MaxListsAssumption DEF Ids
<1>17. CASE ServerStep \/ UNCHANGED vars
  BY <1>1, <1>17 DEF ServerStep, vars
<1> HIDE DEF UiOK
<1> QED
  BY <1>2, <1>3, <1>6, <1>7, <1>8, <1>9, <1>10, <1>11, <1>13, <1>14,
     <1>15, <1>16, <1>17
     DEF Next, PageStep

LEMMA NextDbOK == TypeInv /\ [Next]_vars => DbOK'
<1> SUFFICES ASSUME TypeInv, [Next]_vars
             PROVE  DbOK'
  OBVIOUS
<1>a. DbOK /\ NetOK
  BY DEF TypeInv
<1>1. CASE UNCHANGED db
  BY <1>a, <1>1 DEF DbOK
<1>2. ASSUME NEW c \in Conns, CreateBlocklist(c)
      PROVE  DbOK'
  <2>1. CASE db.nextList \in Ids
    <3>1. db' = [db EXCEPT !.lists = @ \cup {db.nextList}, !.nextList = @ + 1]
      BY <1>2, <2>1 DEF CreateBlocklist
    <3>2. db.nextList + 1 \in 1 .. MaxLists + 1
      BY <2>1, MaxListsAssumption DEF Ids
    <3> QED
      BY <1>a, <2>1, <3>1, <3>2 DEF DbOK
  <2>2. CASE db.nextList \notin Ids
    BY <1>1, <1>2, <2>2 DEF CreateBlocklist
  <2> QED
    BY <2>1, <2>2
<1>3. ASSUME NEW c \in Conns, DeleteBlocklist(c)
      PROVE  DbOK'
  BY <1>a, <1>3 DEF DbOK, DeleteBlocklist
<1>4. ASSUME NEW c \in Conns, SetBlocklistCategories(c)
      PROVE  DbOK'
  <2>1. net[c].arg \subseteq Category
    BY <1>a, <1>4 DEF NetOK, CallGood, CallOK, SetBlocklistCategories, Serving
  <2> QED
    BY <1>a, <1>4, <2>1 DEF DbOK, SetBlocklistCategories
<1>5. CASE ServerStep
  BY <1>1, <1>2, <1>3, <1>4, <1>5
     DEF ServerStep, ListBlocklists, GetBlocklistCategories, AddEntries, ReloadLists,
         DownloadLists
<1>6. CASE Mount \/ PageStep \/ UNCHANGED vars
  BY <1>1, <1>6
     DEF Mount, MountWith, PageStep, fetchListsEnds, handleCreate, handleCreateEnds,
         handleDownload, handleDownloadEnds, handleReload, handleReloadEnds,
         handleDelete, handleDeleteEnds, openCategories, openCategoriesEnds,
         saveCategories, saveCategoriesEnds, saveDomains, saveDomainsEnds, Start,
         toggleListCat, openDomains, TypeDomains, vars
<1> QED
  BY <1>5, <1>6 DEF Next

LEMMA NextTextOK == TypeInv /\ [Next]_vars => TextOK'
<1> SUFFICES ASSUME TypeInv, [Next]_vars
             PROVE  TextOK'
  OBVIOUS
<1>a. UiOK /\ TextOK
  BY DEF TypeInv
<1>1. CASE ui'.adding = 0 \/ ui'.text = {} \/ (ui'.adding = ui.adding /\ ui'.text = ui.text)
  BY <1>a, <1>1 DEF TextOK
<1>2. CASE TypeDomains
  BY <1>a, <1>2 DEF TextOK, UiOK, TypeDomains
<1>3. CASE Mount
  BY <1>1, <1>3 DEF Mount, MountWith, ListsMounted
<1>4. CASE ServerStep \/ UNCHANGED vars
  BY <1>1, <1>4 DEF ServerStep, vars
<1>5. ASSUME NEW c \in Conns, handleDeleteEnds(c) \/ saveDomainsEnds(c)
      PROVE  TextOK'
  BY <1>a, <1>1, <1>5 DEF UiOK, handleDeleteEnds, saveDomainsEnds
<1>6. ASSUME NEW c \in Conns,
             \/ fetchListsEnds(c) \/ handleCreate(c) \/ handleCreateEnds(c)
             \/ handleDownload(c) \/ handleDownloadEnds(c)
             \/ handleReload(c) \/ handleReloadEnds(c)
             \/ openCategoriesEnds(c)
             \/ saveCategories(c) \/ saveCategoriesEnds(c) \/ saveDomains(c)
      PROVE  TextOK'
  BY <1>a, <1>1, <1>6
     DEF UiOK, fetchListsEnds, handleCreate, handleCreateEnds, handleDownload,
         handleDownloadEnds, handleReload, handleReloadEnds, openCategoriesEnds,
         saveCategories, saveCategoriesEnds, saveDomains, Start
<1>7. ASSUME NEW c \in Conns, NEW id \in Ids, handleDelete(c, id) \/ openCategories(c, id)
      PROVE  TextOK'
  BY <1>a, <1>1, <1>7 DEF UiOK, handleDelete, openCategories
<1>8. ASSUME NEW id \in Ids, openDomains(id)
      PROVE  TextOK'
  BY <1>a, <1>1, <1>8 DEF UiOK, openDomains
<1>9. ASSUME NEW cat \in Category, toggleListCat(cat)
      PROVE  TextOK'
  BY <1>a, <1>1, <1>9 DEF UiOK, toggleListCat
<1> HIDE DEF TextOK
<1> QED
  BY <1>2, <1>3, <1>4, <1>5, <1>6, <1>7, <1>8, <1>9 DEF Next, PageStep

LEMMA InitTypeInv == Init => TypeInv
<1> SUFFICES ASSUME Init
             PROVE  TypeInv
  OBVIOUS
<1>1. UiOK /\ TextOK
  BY DEF Init, ListsMounted, UiOK, TextOK
<1>2. DbOK
  BY MaxListsAssumption DEF Init, DbOK, Ids
<1>3. NetOK
  <2>1. PICK c \in Conns : net = [[d \in Conns |-> Idle] EXCEPT ![c] = fetchLists]
    BY DEF Init
  <2>2. DOMAIN net = Conns /\ \A d \in Conns : net[d] = Idle \/ net[d] = fetchLists
    BY <2>1
  <2> QED
    BY <2>2, NewCallOK DEF NetOK
<1> QED
  BY <1>1, <1>2, <1>3 DEF TypeInv

LEMMA TypeInvHolds == Spec => []TypeInv
<1>1. TypeInv /\ [Next]_vars => TypeInv'
  BY NextNetOK, NextUiOK, NextDbOK, NextTextOK DEF TypeInv
<1> QED
  BY InitTypeInv, <1>1, PTL DEF Spec

\* Page, calls and rows keep their types whatever the order of clicks, answers
\* and failures: what is read for one table never lands in another (Lists.tsx
\* 46-194).
THEOREM TypeCorrect == Spec => []ListsTypeOK
<1>1. TypeInv => ListsTypeOK
  BY DEF TypeInv, UiOK, DbOK, NetOK, CallGood, ListsTypeOK
<1> QED
  BY TypeInvHolds, <1>1, PTL

\* Domains typed for one list are never sent to another (Lists.tsx 159-194).
THEOREM DomainsNeverStray == Spec => []DomainsReachTheirList
<1>1. TypeInv => DomainsReachTheirList
  BY DEF TypeInv, NetOK, CallGood, DomainsReachTheirList
<1> QED
  BY TypeInvHolds, <1>1, PTL

-----------------------------------------------------------------------------
(* The flags of the buttons.                                               *)

Waits(c, op) == net[c].op = op /\ net[c].live

\* BusyExact without counting.
BusyInv ==
  \A op \in BusyOps :
    /\ op \in ui.busy <=> \E c \in Conns : Waits(c, op)
    /\ \A c, d \in Conns : Waits(c, op) /\ Waits(d, op) => c = d

\* A step on c that neither starts nor ends a wait of a button.
LEMMA BusyKept ==
  ASSUME BusyInv, NEW c \in Conns, Others(c), ui'.busy = ui.busy,
         \A op \in BusyOps : Waits(c, op)' <=> Waits(c, op)
  PROVE  BusyInv'
<1>1. \A op \in BusyOps, d \in Conns : Waits(d, op)' <=> Waits(d, op)
  BY DEF Others, SameCall, Waits
<1> QED
  BY <1>1 DEF BusyInv

\* A step on c that starts waiting for op, which no button waited for.
LEMMA BusyStarted ==
  ASSUME BusyInv, NEW c \in Conns, NEW op \in BusyOps, Others(c),
         op \notin ui.busy, ui'.busy = ui.busy \cup {op}, Waits(c, op)',
         \A o \in BusyOps : ~Waits(c, o)
  PROVE  BusyInv'
<1>1. \A o \in BusyOps, d \in Conns \ {c} : Waits(d, o)' <=> Waits(d, o)
  BY DEF Others, SameCall, Waits
<1>2. \A o \in BusyOps \ {op} : ~Waits(c, o)'
  BY DEF Waits
<1> QED
  BY <1>1, <1>2 DEF BusyInv

\* A step on c that ends the wait for op.
LEMMA BusyEnded ==
  ASSUME BusyInv, NEW c \in Conns, NEW op \in BusyOps, Others(c),
         Waits(c, op), ui'.busy = ui.busy \ {op},
         \A o \in BusyOps : ~Waits(c, o)'
  PROVE  BusyInv'
<1>1. \A o \in BusyOps, d \in Conns \ {c} : Waits(d, o)' <=> Waits(d, o)
  BY DEF Others, SameCall, Waits
<1>2. \A o \in BusyOps \ {op} : ~Waits(c, o)
  BY DEF Waits
<1> QED
  BY <1>1, <1>2 DEF BusyInv

LEMMA NewCallsWait ==
  /\ \A op \in BusyOps : fetchLists.op # op /\ Idle.op # op
  /\ \A op, id, arg : Call(op, id, arg).op = op /\ Call(op, id, arg).live = TRUE
  BY DEF BusyOps, fetchLists, Call, Idle

LEMMA NextBusyInv == TypeInv /\ BusyInv /\ [Next]_vars => BusyInv'
<1> SUFFICES ASSUME TypeInv, BusyInv, [Next]_vars
             PROVE  BusyInv'
  OBVIOUS
<1>a. NetOK /\ UiOK
  BY DEF TypeInv
<1>1. CASE UNCHANGED net /\ ui'.busy = ui.busy
  BY <1>1 DEF BusyInv, Waits
<1>2. CASE Mount
  <2>1. PICK c \in Conns : /\ DOMAIN net' = Conns
                           /\ net'[c] = fetchLists
                           /\ \A d \in Conns \ {c} : GivenUp(d)
    BY <1>a, <1>2, MountEffect
  <2>2. ui'.busy = {}
    BY <1>2 DEF Mount, MountWith, ListsMounted
  <2>3. \A op \in BusyOps, d \in Conns : ~Waits(d, op)'
    BY <2>1, NewCallsWait DEF Waits, GivenUp, Idle
  <2> QED
    BY <2>2, <2>3 DEF BusyInv
\* A call that ends: the promise rejects, the page goes on, or fetches the lists.
<1>3. ASSUME NEW c \in Conns, NEW op, Resolved(c, op) \/ Rejected(c, op),
             \/ Rejected(c, op)
             \/ net' = Issue(net, c, fetchLists) \/ net' = [net EXCEPT ![c] = Idle]
      PROVE  Others(c) /\ Waits(c, op) /\ \A o \in BusyOps : ~Waits(c, o)'
  <2>1. Waits(c, op)
    BY <1>3 DEF Resolved, Rejected, Waits
  <2>2. CASE Rejected(c, op)
    <3>1. Others(c) /\ GivenUp(c)
      BY <1>a, <2>2, RejectEffect
    <3> QED
      BY <2>1, <3>1, NewCallsWait DEF GivenUp, Waits
  <2>3. CASE net' = Issue(net, c, fetchLists)
    BY <1>a, <2>1, <2>3, IssueEffect, NewCallsWait DEF Waits
  <2>4. CASE net' = [net EXCEPT ![c] = Idle]
    BY <1>a, <2>1, <2>4, ReplaceEffect, NewCallsWait DEF Waits
  <2> QED
    BY <1>3, <2>2, <2>3, <2>4
<1>4. ASSUME NEW c \in Conns,
             \/ fetchListsEnds(c) \/ handleCreateEnds(c)
             \/ handleDeleteEnds(c) \/ openCategoriesEnds(c)
      PROVE  BusyInv'
  <2>1. PICK op \in {"lists", "createList", "deleteList", "categories"} :
          /\ Resolved(c, op) \/ Rejected(c, op)
          /\ \/ Rejected(c, op)
             \/ net' = Issue(net, c, fetchLists) \/ net' = [net EXCEPT ![c] = Idle]
    BY <1>4 DEF fetchListsEnds, handleCreateEnds, handleDeleteEnds, openCategoriesEnds
  <2>2. ui'.busy = ui.busy
    BY <1>a, <1>4
       DEF UiOK, fetchListsEnds, handleCreateEnds, handleDeleteEnds, openCategoriesEnds
  <2>3. Others(c) /\ Waits(c, op) /\ \A o \in BusyOps : ~Waits(c, o)'
    BY <1>3, <2>1
  <2>4. \A o \in BusyOps : ~Waits(c, o)
    BY <2>3 DEF Waits, BusyOps
  <2> QED
    BY <2>2, <2>3, <2>4, BusyKept
<1>5. ASSUME NEW c \in Conns,
             \/ handleDownloadEnds(c) \/ handleReloadEnds(c)
             \/ saveCategoriesEnds(c) \/ saveDomainsEnds(c)
      PROVE  BusyInv'
  <2>1. PICK op \in BusyOps :
          /\ Resolved(c, op) \/ Rejected(c, op)
          /\ \/ Rejected(c, op)
             \/ net' = Issue(net, c, fetchLists) \/ net' = [net EXCEPT ![c] = Idle]
          /\ ui'.busy = ui.busy \ {op}
    BY <1>a, <1>5
       DEF UiOK, BusyOps, handleDownloadEnds, handleReloadEnds, saveCategoriesEnds,
           saveDomainsEnds
  <2>2. Others(c) /\ Waits(c, op) /\ \A o \in BusyOps : ~Waits(c, o)'
    BY <1>3, <2>1
  <2> QED
    BY <2>1, <2>2, BusyEnded
\* A call that is issued on a free connection.
<1>6. ASSUME NEW c \in Conns, Free(c)
      PROVE  \A o \in BusyOps : ~Waits(c, o)
  BY <1>a, <1>6 DEF NetOK, CallGood, CallOK, Free, Waits, BusyOps
<1>7. ASSUME NEW c \in Conns, NEW op \in BusyOps, NEW id, NEW arg, Start(c, op, id, arg)
      PROVE  BusyInv'
  <2> DEFINE call == Call(op, id, arg)
  <2>1. Free(c) /\ op \notin ui.busy /\ ui'.busy = ui.busy \cup {op}
    BY <1>a, <1>7 DEF Start, UiOK
  <2>2. Others(c) /\ net'[c] = call
    <3>1. net' = Issue(net, c, call)
      BY <1>7 DEF Start
    <3> HIDE DEF call
    <3> QED
      BY <1>a, <3>1, IssueEffect
  <2>3. Waits(c, op)'
    BY <2>2, NewCallsWait DEF Waits
  <2> QED
    BY <1>6, <2>1, <2>2, <2>3, BusyStarted
<1>8. ASSUME NEW c \in Conns,
             \/ handleDownload(c) \/ handleReload(c) \/ saveCategories(c)
             \/ saveDomains(c)
      PROVE  BusyInv'
  BY <1>7, <1>8 DEF BusyOps, handleDownload, handleReload, saveCategories, saveDomains
<1>9. ASSUME NEW c \in Conns, Free(c), NEW op, op \notin BusyOps, NEW id, NEW arg,
             net' = Issue(net, c, Call(op, id, arg)), ui'.busy = ui.busy
      PROVE  BusyInv'
  <2> DEFINE call == Call(op, id, arg)
  <2>1. Others(c) /\ net'[c] = call
    <3>1. net' = Issue(net, c, call)
      BY <1>9
    <3> HIDE DEF call
    <3> QED
      BY <1>a, <3>1, IssueEffect
  <2>2. \A o \in BusyOps : ~Waits(c, o)'
    BY <1>9, <2>1, NewCallsWait DEF Waits
  <2> QED
    BY <1>6, <1>9, <2>1, <2>2, BusyKept
<1>10. ASSUME NEW c \in Conns, NEW id \in Ids,
              handleCreate(c) \/ handleDelete(c, id) \/ openCategories(c, id)
       PROVE  BusyInv'
  BY <1>a, <1>1, <1>9, <1>10
     DEF UiOK, BusyOps, handleCreate, handleDelete, openCategories
<1>11. CASE ServerStep
  <2>0. PICK c \in Conns : Handled(c)
    BY <1>11 DEF ServerStep, Handled
  <2>1. PICK got : Serves(c, got)
    BY <2>0, ServerServes
  <2>2. Others(c) /\ Answered(c, got)
    BY <2>1 DEF Serves
  <2>3. \A op \in BusyOps : Waits(c, op)' <=> Waits(c, op)
    BY <2>2, NewCallsWait DEF Answered, Waits
  <2>4. ui'.busy = ui.busy
    BY <1>11 DEF ServerStep
  <2> QED
    BY <2>2, <2>3, <2>4, BusyKept
<1>12. CASE \/ \E cat \in Category : toggleListCat(cat)
            \/ \E id \in Ids : openDomains(id)
            \/ TypeDomains \/ UNCHANGED vars
  BY <1>a, <1>1, <1>12
     DEF UiOK, toggleListCat, openDomains, TypeDomains, vars
<1>13. 1 \in Ids
  BY MaxListsAssumption DEF Ids
<1> QED
  BY <1>2, <1>4, <1>5, <1>8, <1>10, <1>11, <1>12, <1>13 DEF Next, PageStep

LEMMA BusyCounts == BusyInv => BusyExact
<1> SUFFICES ASSUME BusyInv, NEW op \in BusyOps
             PROVE  Cardinality({c \in Conns : net[c].op = op /\ net[c].live}) =
                      (IF op \in ui.busy THEN 1 ELSE 0)
  BY DEF BusyExact
<1> DEFINE W == {c \in Conns : net[c].op = op /\ net[c].live}
<1>1. CASE op \in ui.busy
  <2>1. PICK c \in Conns : W = {c}
    BY <1>1 DEF BusyInv, Waits
  <2> QED
    BY <1>1, <2>1, FS_Singleton
<1>2. CASE op \notin ui.busy
  <2>1. W = {}
    BY <1>2 DEF BusyInv, Waits
  <2> QED
    BY <1>2, <2>1, FS_EmptySet
<1> QED
  BY <1>1, <1>2

\* Each button is disabled exactly while its page waits for one such call
\* (Lists.tsx 78-107, 145-157, 169-194).
THEOREM FlagsExact == Spec => []BusyExact
<1>1. Init => BusyInv
  <2> SUFFICES ASSUME Init
               PROVE  BusyInv
    OBVIOUS
  <2>1. PICK c \in Conns : net = [[d \in Conns |-> Idle] EXCEPT ![c] = fetchLists]
    BY DEF Init
  <2>2. \A op \in BusyOps, d \in Conns : ~Waits(d, op)
    BY <2>1, NewCallsWait DEF Waits
  <2> QED
    BY <2>2 DEF Init, ListsMounted, BusyInv
<1> QED
  BY <1>1, NextBusyInv, TypeInvHolds, BusyCounts, PTL DEF Spec

-----------------------------------------------------------------------------
(* The category editor implements CategoryEditor.                          *)

\* The answers, and the saves, on their way after a step on c.
LEMMA FetchedStep ==
  ASSUME NetOK, NEW c \in Conns, Others(c)
  PROVE  /\ ~Resolved(c, "categories")' => Fetched' \subseteq Fetched
         /\ ~Resolved(c, "categories") => Fetched \subseteq Fetched'
         /\ Fetched' \subseteq Fetched \cup
                {[owner |-> net'[c].id, cats |-> net'[c].got,
                  whole |-> net'[c].phase = "done"]}
<1>1. \A d \in Conns \ {c} :
        /\ Resolved(d, "categories")' <=> Resolved(d, "categories")
        /\ net'[d].id = net[d].id /\ net'[d].got = net[d].got
        /\ net'[d].phase = net[d].phase
  BY DEF Others, SameCall, Resolved
<1> QED
  BY <1>1 DEF Fetched

LEMMA SentStep ==
  ASSUME NetOK, NEW c \in Conns, Others(c)
  PROVE  /\ ~Serving(c, "saveCategories")' => Sent' \subseteq Sent
         /\ ~Serving(c, "saveCategories") => Sent \subseteq Sent'
         /\ Serving(c, "saveCategories")' /\ ~Serving(c, "saveCategories")
              => Sent' = Sent \cup {[owner |-> net'[c].id, cats |-> net'[c].arg]}
         /\ net'[c].id = net[c].id /\ net'[c].arg = net[c].arg
              /\ Serving(c, "saveCategories") => Sent' \subseteq Sent
<1>1. \A d \in Conns \ {c} :
        /\ Serving(d, "saveCategories")' <=> Serving(d, "saveCategories")
        /\ net'[d].id = net[d].id /\ net'[d].arg = net[d].arg
  BY DEF Others, SameCall, Serving
<1> QED
  BY <1>1 DEF Sent

\* A step on c that the editor does not see.
Aside(c) ==
  /\ Others(c)
  /\ ~Resolved(c, "categories") /\ ~Resolved(c, "categories")'
  /\ ~Serving(c, "saveCategories") /\ ~Serving(c, "saveCategories")'

LEMMA AsideUnseen ==
  ASSUME NetOK, NEW c \in Conns, Aside(c)
  PROVE  Fetched' = Fetched /\ Sent' = Sent
<1>1. Fetched' \subseteq Fetched /\ Fetched \subseteq Fetched'
  BY FetchedStep DEF Aside
<1>2. Sent' \subseteq Sent /\ Sent \subseteq Sent'
  BY SentStep DEF Aside
<1> QED
  BY <1>1, <1>2

LEMMA NetUnseen ==
  ASSUME UNCHANGED net
  PROVE  Fetched' = Fetched /\ Sent' = Sent
  BY DEF Fetched, Sent, Resolved, Serving

\* Steps of the page that open, change or save nothing in the editor.
LEMMA LoseOrClose ==
  ASSUME Fetched' \subseteq Fetched, Sent' \subseteq Sent, UNCHANGED db,
         ui'.editing = 0 \/ (ui'.editing = ui.editing /\ ui'.draft = ui.draft)
  PROVE  Editor!Next
<1>1. CASE ui'.editing = 0
  <2>1. Draft' = {}
    BY <1>1 DEF Draft
  <2>2. Editor!Close
    BY <2>1 DEF Editor!Close, Editor!MayLose
  <2> QED
    BY <2>2 DEF Editor!Next
<1>2. CASE ui'.editing = ui.editing /\ ui'.draft = ui.draft
  <2>1. Draft' = Draft
    BY <1>2 DEF Draft
  <2>2. Editor!Lose
    BY <2>1 DEF Editor!Lose, Editor!MayLose
  <2> QED
    BY <2>2 DEF Editor!Next
<1> QED
  BY <1>1, <1>2

LEMMA EditorPage ==
  ASSUME TypeInv, PageStep \/ Mount
  PROVE  Editor!Next
<1>a. NetOK /\ UiOK
  BY DEF TypeInv
<1>1. CASE Mount
  <2>1. PICK c \in Conns : /\ DOMAIN net' = Conns
                           /\ net'[c] = fetchLists
                           /\ \A d \in Conns \ {c} : GivenUp(d)
    BY <1>a, <1>1, MountEffect
  <2>2. \A d \in Conns : ~Resolved(d, "categories")'
    BY <2>1 DEF Resolved, GivenUp, fetchLists, Call, Idle
  <2>3. \A d \in Conns : Serving(d, "saveCategories")' =>
          /\ Serving(d, "saveCategories")
          /\ net'[d].id = net[d].id /\ net'[d].arg = net[d].arg
    BY <2>1 DEF Serving, GivenUp, fetchLists, Call, Idle
  <2>4. Fetched' \subseteq Fetched /\ Sent' \subseteq Sent
    BY <2>2, <2>3 DEF Fetched, Sent
  <2>5. ui'.editing = 0 /\ UNCHANGED db
    BY <1>1 DEF Mount, MountWith, ListsMounted
  <2> QED
    BY <2>4, <2>5, LoseOrClose
\* A call ends that is none of the editor's.
<1>2. ASSUME NEW c \in Conns,
             NEW op \in {"lists", "createList", "deleteList", "download", "reload",
                         "addEntries"},
             \/ Rejected(c, op)
             \/ Resolved(c, op) /\ net' = Issue(net, c, fetchLists)
             \/ Resolved(c, op) /\ net' = [net EXCEPT ![c] = Idle]
      PROVE  Aside(c)
  <2>1. net[c].op = op
    BY <1>2 DEF Resolved, Rejected
  <2>2. /\ Others(c)
        /\ net'[c] = fetchLists \/ net'[c] = Idle \/ net'[c].op = op
    <3>1. CASE Rejected(c, op)
      BY <1>a, <2>1, <3>1, RejectEffect DEF GivenUp
    <3>2. CASE net' = Issue(net, c, fetchLists)
      BY <1>a, <3>2, IssueEffect
    <3>3. CASE net' = [net EXCEPT ![c] = Idle]
      BY <1>a, <3>3, ReplaceEffect
    <3> QED
      BY <1>2, <3>1, <3>2, <3>3
  <2> QED
    BY <2>1, <2>2 DEF Aside, Resolved, Serving, fetchLists, Call, Idle
<1>3. ASSUME NEW c \in Conns,
             \/ fetchListsEnds(c) \/ handleCreateEnds(c) \/ handleDeleteEnds(c)
             \/ handleDownloadEnds(c) \/ handleReloadEnds(c) \/ saveDomainsEnds(c)
      PROVE  Editor!Next
  <2>1. Aside(c)
    BY <1>2, <1>3
       DEF fetchListsEnds, handleCreateEnds, handleDeleteEnds, handleDownloadEnds,
           handleReloadEnds, saveDomainsEnds
  <2>2. /\ UNCHANGED db
        /\ ui'.editing = 0 \/ (ui'.editing = ui.editing /\ ui'.draft = ui.draft)
    BY <1>a, <1>3
       DEF UiOK, fetchListsEnds, handleCreateEnds, handleDeleteEnds,
           handleDownloadEnds, handleReloadEnds, saveDomainsEnds
  <2> QED
    BY <1>a, <2>1, <2>2, AsideUnseen, LoseOrClose
<1>4. ASSUME NEW c \in Conns, saveCategoriesEnds(c)
      PROVE  Editor!Next
  <2>1. /\ Others(c) /\ net[c].op = "saveCategories"
        /\ \/ net'[c] = Idle
           \/ /\ net'[c].op = net[c].op
              /\ net'[c].id = net[c].id /\ net'[c].arg = net[c].arg
              /\ net'[c].phase = net[c].phase
    <3>1. CASE Rejected(c, "saveCategories")
      BY <1>a, <3>1, RejectEffect DEF GivenUp
    <3>2. CASE Resolved(c, "saveCategories") /\ net' = [net EXCEPT ![c] = Idle]
      BY <1>a, <3>2, ReplaceEffect DEF Resolved
    <3> QED
      BY <1>4, <3>1, <3>2 DEF saveCategoriesEnds
  <2>2. Fetched' \subseteq Fetched
    BY <1>a, <2>1, FetchedStep DEF Resolved, Idle
  <2>3. Sent' \subseteq Sent
    BY <1>a, <2>1, SentStep DEF Serving, Idle
  <2>4. UNCHANGED db /\ ui'.editing = ui.editing /\ ui'.draft = ui.draft
    BY <1>a, <1>4 DEF UiOK, saveCategoriesEnds
  <2> QED
    BY <2>2, <2>3, <2>4, LoseOrClose
<1>5. ASSUME NEW c \in Conns, openCategoriesEnds(c)
      PROVE  Editor!Next
  <2>1. CASE Rejected(c, "categories") /\ UNCHANGED ui
    <3>1. Others(c) /\ GivenUp(c) /\ net[c].op = "categories"
      BY <1>a, <2>1, RejectEffect
    <3>2. ~Resolved(c, "categories")' /\ ~Serving(c, "saveCategories")'
      BY <3>1 DEF GivenUp, Resolved, Serving, Idle
    <3>3. Fetched' \subseteq Fetched /\ Sent' \subseteq Sent
      BY <1>a, <3>1, <3>2, FetchedStep, SentStep
    <3> QED
      BY <1>5, <2>1, <3>3, LoseOrClose DEF openCategoriesEnds
  <2>2. CASE /\ Resolved(c, "categories")
             /\ net' = [net EXCEPT ![c] = Idle]
             /\ ui' = [ui EXCEPT !.draft = net[c].got, !.editing = net[c].id]
    <3> DEFINE v == [owner |-> net[c].id, cats |-> net[c].got,
                     whole |-> net[c].phase = "done"]
    <3>1. v \in Fetched
      BY <2>2 DEF Fetched
    <3>2. net[c].id \in Ids
      BY <1>a, <2>2 DEF NetOK, CallGood, CallOK, Resolved
    <3>3. ui'.editing = net[c].id /\ ui'.draft = net[c].got
      BY <1>a, <2>2 DEF UiOK
    <3>4. Draft' = {[owner |-> v.owner, cats |-> v.cats]}
      BY <3>2, <3>3 DEF Draft, Ids
    <3>5. Others(c) /\ ~Resolved(c, "categories")' /\ ~Serving(c, "saveCategories")'
      <4>1. Others(c) /\ net'[c] = Idle
        BY <1>a, <2>2, ReplaceEffect
      <4> QED
        BY <4>1 DEF Resolved, Serving, Idle
    <3>6. Fetched' \subseteq Fetched /\ Sent' \subseteq Sent
      BY <1>a, <3>5, FetchedStep, SentStep
    <3>7. Editor!Open(v)
      BY <1>5, <3>4, <3>6 DEF Editor!Open, Editor!MayLose, openCategoriesEnds
    <3> HIDE DEF v
    <3> QED
      BY <3>1, <3>7 DEF Editor!Next
  <2> QED
    BY <1>5, <2>1, <2>2 DEF openCategoriesEnds
\* A call is issued that is not a save of the editor.
<1>6. ASSUME NEW c \in Conns, Free(c),
             NEW op, op # "saveCategories", NEW id, NEW arg,
             net' = Issue(net, c, Call(op, id, arg))
      PROVE  Aside(c)
  <2> DEFINE call == Call(op, id, arg)
  <2>1. Others(c) /\ net'[c] = call
    <3>1. net' = Issue(net, c, call)
      BY <1>6
    <3> HIDE DEF call
    <3> QED
      BY <1>a, <3>1, IssueEffect
  <2>2. net'[c].op = op /\ net'[c].phase = "sent"
    BY <2>1 DEF Call
  <2> QED
    BY <1>6, <2>1, <2>2 DEF Aside, Free, Resolved, Serving
<1>7. ASSUME NEW c \in Conns, NEW id \in Ids,
             \/ handleCreate(c) \/ handleDelete(c, id) \/ handleDownload(c)
             \/ handleReload(c) \/ saveDomains(c)
      PROVE  Editor!Next
  <2>1. Aside(c)
    BY <1>6, <1>7
       DEF handleCreate, handleDelete, handleDownload, handleReload, saveDomains, Start
  <2>2. UNCHANGED db /\ ui'.editing = ui.editing /\ ui'.draft = ui.draft
    BY <1>a, <1>7
       DEF UiOK, handleCreate, handleDelete, handleDownload, handleReload, saveDomains,
           Start
  <2> QED
    BY <1>a, <2>1, <2>2, AsideUnseen, LoseOrClose
<1>8. ASSUME NEW c \in Conns, NEW id \in Ids, openCategories(c, id)
      PROVE  Editor!Next
  <2>1. UNCHANGED net \/ Aside(c)
    BY <1>6, <1>8 DEF openCategories
  <2>2. /\ UNCHANGED db
        /\ ui'.editing = 0 \/ (ui'.editing = ui.editing /\ ui'.draft = ui.draft)
    BY <1>a, <1>8 DEF UiOK, openCategories
  <2> QED
    BY <1>a, <2>1, <2>2, AsideUnseen, NetUnseen, LoseOrClose
<1>9. ASSUME NEW c \in Conns, saveCategories(c)
      PROVE  Editor!Next
  <2> DEFINE call == Call("saveCategories", ui.editing, ui.draft)
  <2>1. Others(c) /\ net'[c] = call
    <3>1. net' = Issue(net, c, call)
      BY <1>9 DEF saveCategories, Start
    <3> HIDE DEF call
    <3> QED
      BY <1>a, <3>1, IssueEffect
  <2>2. /\ net'[c].op = "saveCategories" /\ net'[c].phase = "sent"
        /\ net'[c].id = ui.editing /\ net'[c].arg = ui.draft
    BY <2>1 DEF Call
  <2>3. /\ ~Serving(c, "saveCategories") /\ Serving(c, "saveCategories")'
        /\ ~Resolved(c, "categories") /\ ~Resolved(c, "categories")'
    BY <1>9, <2>2 DEF saveCategories, Start, Free, Serving, Resolved
  <2>4. Draft = {[owner |-> ui.editing, cats |-> ui.draft]} /\ Draft' = Draft
    BY <1>a, <1>9 DEF UiOK, Draft, saveCategories, EditorShown, Start, Ids
  <2>5. Sent' = Sent \cup Draft
    BY <1>a, <2>1, <2>2, <2>3, <2>4, SentStep
  <2>6. Fetched' = Fetched
    BY <1>a, <2>1, <2>3, FetchedStep
  <2>7. Editor!Save
    BY <1>9, <2>4, <2>5, <2>6 DEF Editor!Save, saveCategories, Start
  <2> QED
    BY <2>7 DEF Editor!Next
<1>10. ASSUME NEW cat \in Category, toggleListCat(cat)
       PROVE  Editor!Next
  <2> DEFINE v == [owner |-> ui.editing, cats |-> ui.draft]
             d == IF cat \in ui.draft THEN ui.draft \ {cat} ELSE ui.draft \cup {cat}
  <2>1. ui.editing # 0 /\ ui'.editing = ui.editing /\ ui'.draft = d
    BY <1>a, <1>10 DEF UiOK, toggleListCat, EditorShown, Ids
  <2>2. Draft = {v} /\ Draft' = {[owner |-> ui.editing, cats |-> d]}
    BY <2>1 DEF Draft
  <2>3. v.owner = ui.editing /\ v.cats = ui.draft
    OBVIOUS
  <2>4. Draft' = {[owner |-> v.owner,
                   cats |-> IF cat \in v.cats THEN v.cats \ {cat}
                                              ELSE v.cats \cup {cat}]}
    BY <2>2, <2>3
  <2>5. Fetched' = Fetched /\ Sent' = Sent /\ db' = db
    BY <1>10, NetUnseen DEF toggleListCat
  <2>6. Editor!Toggle(cat)
    <3> HIDE DEF v, d
    <3> QED
      BY <2>2, <2>4, <2>5 DEF Editor!Toggle
  <2> QED
    BY <2>6 DEF Editor!Next
<1>11. CASE TypeDomains \/ \E id \in Ids : openDomains(id)
  <2>1. UNCHANGED net /\ UNCHANGED db
    BY <1>11 DEF TypeDomains, openDomains
  <2>2. ui'.editing = 0 \/ (ui'.editing = ui.editing /\ ui'.draft = ui.draft)
    BY <1>a, <1>11 DEF UiOK, TypeDomains, openDomains
  <2> QED
    BY <2>1, <2>2, NetUnseen, LoseOrClose
<1>12. 1 \in Ids
  BY MaxListsAssumption DEF Ids
<1> QED
  BY <1>1, <1>3, <1>4, <1>5, <1>7, <1>8, <1>9, <1>10, <1>11, <1>12 DEF PageStep

LEMMA EditorServer ==
  ASSUME TypeInv, ServerStep
  PROVE  Editor!Next
<1>a. NetOK /\ DbOK
  BY DEF TypeInv
<1>1. PICK c \in Conns : Handled(c)
  BY DEF ServerStep, Handled
<1>2. PICK got : Serves(c, got)
  BY <1>1, ServerServes
<1>3. Others(c) /\ Answered(c, got) /\ net[c].phase = "sent"
  BY <1>2 DEF Serves
<1>4. Draft' = Draft
  BY DEF ServerStep, Draft
<1>5. ASSUME net[c].op # "categories", net[c].op # "saveCategories"
      PROVE  Fetched' = Fetched /\ Sent' = Sent
  BY <1>a, <1>3, <1>5, AsideUnseen DEF Aside, Answered, Resolved, Serving, Idle
<1>6. CASE \/ ListBlocklists(c) \/ CreateBlocklist(c) \/ AddEntries(c)
           \/ ReloadLists(c) \/ DownloadLists(c)
  <2>1. net[c].op # "categories" /\ net[c].op # "saveCategories"
    BY <1>6
       DEF ListBlocklists, CreateBlocklist, AddEntries, ReloadLists, DownloadLists,
           Serving
  <2>2. db.cats' = db.cats
    BY <1>a, <1>6
       DEF DbOK, ListBlocklists, CreateBlocklist, AddEntries, ReloadLists, DownloadLists
  <2>3. Editor!Lose
    BY <1>4, <1>5, <2>1, <2>2 DEF Editor!Lose, Editor!MayLose
  <2> QED
    BY <2>3 DEF Editor!Next
<1>7. CASE GetBlocklistCategories(c)
  <2>1. net[c].op = "categories" /\ net[c].id \in Ids /\ UNCHANGED db
    BY <1>a, <1>7 DEF NetOK, CallGood, CallOK, GetBlocklistCategories, Serving
  <2>2. /\ got \in SUBSET db.cats[net[c].id]
        /\ net'[c] = Idle \/ (net'[c].phase = "done" <=> got = db.cats[net[c].id])
    BY <1>2, <2>1 DEF Serves
  <2>3. Sent' = Sent
    <3>1. ~Serving(c, "saveCategories") /\ ~Serving(c, "saveCategories")'
      BY <1>3, <2>1 DEF Answered, Serving, Idle
    <3>2. Sent' \subseteq Sent /\ Sent \subseteq Sent'
      BY <1>a, <1>3, <3>1, SentStep
    <3> QED
      BY <3>2
  <2>4. Fetched' \subseteq Fetched \cup
          {[owner |-> net[c].id, cats |-> got, whole |-> got = db.cats[net[c].id]]}
    <3>1. CASE net'[c] = Idle
      <4>1. ~Resolved(c, "categories")'
        BY <3>1 DEF Resolved, Idle
      <4> QED
        BY <1>a, <1>3, <4>1, FetchedStep
    <3>2. CASE /\ net'[c] # Idle
               /\ net'[c].id = net[c].id /\ net'[c].got = got
      <4>1. (net'[c].phase = "done") = (got = db.cats[net[c].id])
        BY <2>2, <3>2
      <4> QED
        BY <1>a, <1>3, <3>2, <4>1, FetchedStep
    <3> QED
      BY <1>3, <3>1, <3>2 DEF Answered
  <2>5. Editor!Read(net[c].id, got)
    BY <1>4, <2>1, <2>3, <2>4 DEF Editor!Read
  <2> QED
    BY <2>1, <2>2, <2>5 DEF Editor!Next
<1>8. CASE DeleteBlocklist(c)
  <2>1. net[c].op = "deleteList" /\ net[c].id \in Ids
    BY <1>a, <1>8 DEF NetOK, CallGood, CallOK, DeleteBlocklist, Serving
  <2>2. db.cats' = [db.cats EXCEPT ![net[c].id] = {}]
    BY <1>a, <1>8 DEF DbOK, DeleteBlocklist
  <2>3. Editor!Remove(net[c].id)
    BY <1>4, <1>5, <2>1, <2>2 DEF Editor!Remove
  <2> QED
    BY <2>1, <2>3 DEF Editor!Next
<1>9. CASE SetBlocklistCategories(c)
  <2> DEFINE v == [owner |-> net[c].id, cats |-> net[c].arg]
  <2>1. Serving(c, "saveCategories") /\ net[c].op = "saveCategories"
    BY <1>9 DEF SetBlocklistCategories, Serving
  <2>2. Fetched' = Fetched
    BY <1>a, <1>3, <2>1, FetchedStep DEF Answered, Resolved, Idle
  <2>3. Sent' \subseteq Sent
    <3>1. ~Serving(c, "saveCategories")'
      BY <1>3 DEF Answered, Serving, Idle
    <3> QED
      BY <1>a, <1>3, <3>1, SentStep
  <2>4. v \in Sent
    BY <2>1 DEF Sent
  <2>5. CASE db' = db
    <3>1. Editor!Lose
      BY <1>4, <2>2, <2>3, <2>5 DEF Editor!Lose, Editor!MayLose
    <3> QED
      BY <3>1 DEF Editor!Next
  <2>6. CASE db' = [db EXCEPT !.cats[net[c].id] = net[c].arg]
    <3>1. db.cats' = [db.cats EXCEPT ![v.owner] = v.cats]
      BY <1>a, <2>6 DEF DbOK
    <3>2. Editor!Commit(v)
      BY <1>4, <2>2, <2>3, <3>1 DEF Editor!Commit
    <3> HIDE DEF v
    <3> QED
      BY <2>4, <3>2 DEF Editor!Next
  <2> QED
    BY <1>9, <2>5, <2>6 DEF SetBlocklistCategories
<1> QED
  BY <1>1, <1>6, <1>7, <1>8, <1>9 DEF Handled

\* For any number of connections, lists and categories, the category editor of
\* the page with the handlers behind it implements CategoryEditor (Lists.tsx
\* 123-167, handlers.go 607-622, 723-770).
THEOREM ListEditorCorrect == Spec => ListEditorRefines
<1>1. Init => Editor!Init
  <2> SUFFICES ASSUME Init
               PROVE  Editor!Init
    OBVIOUS
  <2>1. PICK c \in Conns : net = [[d \in Conns |-> Idle] EXCEPT ![c] = fetchLists]
    BY DEF Init
  <2>2. \A d \in Conns : net[d] = Idle \/ net[d] = fetchLists
    BY <2>1
  <2>3. \A d \in Conns : ~Resolved(d, "categories") /\ ~Serving(d, "saveCategories")
    BY <2>2 DEF Resolved, Serving, fetchLists, Call, Idle
  <2>4. Fetched = {} /\ Sent = {}
    BY <2>3 DEF Fetched, Sent
  <2>5. Draft = {}
    BY DEF Init, Draft, ListsMounted
  <2>6. db.cats \in [Ids -> SUBSET Category]
    BY DEF Init
  <2> QED
    BY <2>4, <2>5, <2>6 DEF Editor!Init
<1>2. TypeInv /\ [Next]_vars => [Editor!Next]_(Editor!vars)
  <2> SUFFICES ASSUME TypeInv, [Next]_vars
               PROVE  [Editor!Next]_(Editor!vars)
    OBVIOUS
  <2>1. CASE Next
    BY <2>1, EditorPage, EditorServer DEF Next
  <2>2. CASE UNCHANGED vars
    BY <2>2, NetUnseen DEF vars, Editor!vars, Draft
  <2> QED
    BY <2>1, <2>2
<1> QED
  BY <1>1, <1>2, TypeInvHolds, PTL DEF Spec, ListEditorRefines, Editor!Spec

=============================================================================
