---------------------------- MODULE Panel_proofs ----------------------------
(***************************************************************************)
(* Proofs about the dashboard for any number of connections, groups,       *)
(* ranges, users, filters and log entries: the types, the rows the tables  *)
(* show, the group a range lands in, the query of the log, the flag of the *)
(* policy editor, and that this editor implements CategoryEditor.          *)
(***************************************************************************)
EXTENDS Panel, FiniteSetTheorems, TLAPS

\* Every page has the operators of WebClient for its own; here they are once.
Client == INSTANCE WebClient

-----------------------------------------------------------------------------
(* The inductive invariant.                                                *)

Ids == Groups!Ids

DbOK(b) ==
  /\ b \in [groups : SUBSET Ids, nextGroup : 1 .. MaxGroups + 1,
            policies : [Ids -> SUBSET Category],
            ranges : SUBSET RangeRows, nextRange : 1 .. MaxRanges + 1,
            users : SUBSET Names]
  /\ 1 < b.nextGroup
  /\ \A i \in b.groups : i < b.nextGroup
  /\ \A r \in b.ranges : r.id < b.nextRange

CallFields == {"op", "id", "arg", "got", "phase", "live", "newest"}

Ops == {"idle", "poll", "logs", "users", "groups", "ranges", "policy", "createUser",
        "createGroup", "createRange", "deleteGroup", "savePolicy"}

\* The calls that are answered with the rows of a query, which may break off.
RowOps == {"users", "groups", "ranges", "policy"}

\* A well typed call.
CallOK(call) ==
  /\ DOMAIN call = CallFields
  /\ call.op \in Ops
  /\ call.phase \in {"idle", "sent", "done", "part", "refused"}
  /\ call.phase = "part" => call.op \in RowOps
  /\ call.phase = "idle" <=> call.op = "idle"
  /\ call.live \in BOOLEAN /\ call.newest \in BOOLEAN
  /\ call.op \in {"policy", "deleteGroup", "savePolicy"} => call.id \in Ids
  /\ call.op = "savePolicy" => call.arg \subseteq Category
  /\ call.op = "policy" => call.got \subseteq Category
  /\ call.op = "createUser" => call.arg \subseteq Names
  /\ call.op = "users" => call.got \subseteq Names
  /\ call.op \in {"groups", "createGroup"} => call.got \subseteq Ids
  /\ call.op \in {"ranges", "createRange"} => call.got \subseteq RangeRows
  /\ call.op = "createRange" => call.arg.group \in Ids
  /\ call.op = "logs" => /\ call.arg \subseteq Filters
                         /\ call.id \in 0 .. MaxLogged
                         /\ call.got \subseteq 0 .. MaxLogged

\* The range goes to the group that was shown, or no group was shown.
AsShown(arg) == arg.shown \in {arg.group, 0}

\* What a call says of the rows b: ids it names were handed out, what it was
\* told is done is done, and a range that is to land in a group that was not
\* shown names a group that is gone.
Meant(call, b) ==
  /\ call.op = "deleteGroup" =>
       /\ call.id < b.nextGroup
       /\ call.phase = "done" => call.id \notin b.groups
  /\ call.op \in {"groups", "createGroup"} => \A i \in call.got : i < b.nextGroup
  /\ call.op = "createUser" /\ call.phase = "done" => call.arg \subseteq b.users
  /\ call.op = "createRange" =>
       /\ call.arg.group < b.nextGroup
       /\ \A r \in call.got : r.id < b.nextRange
       /\ call.phase = "sent" => AsShown(call.arg) \/ call.arg.group \notin b.groups
       /\ call.phase = "done" => AsShown(call.arg)

Good(call, b) == CallOK(call) /\ Meant(call, b)

NetOK == DOMAIN net = Conns /\ \A c \in Conns : Good(net[c], db)

DashboardUi == [page : {"dashboard"}, metrics : BOOLEAN, error : BOOLEAN]
LogsUi == [page : {"logs"}, filter : Filters, offset : 0 .. MaxLogged,
           total : 0 .. MaxLogged, data : [filter : Filters, offset : 0 .. MaxLogged]]
UsersUi == [page : {"users"}, rows : SUBSET Names, known : SUBSET Names, gone : {{}}]
GroupsUi == [page : {"groups"}, rows : SUBSET Ids,
             editing : Ids \cup {0}, draft : SUBSET Category, saving : BOOLEAN,
             known : SUBSET Ids, gone : SUBSET Ids]
RangesUi == [page : {"ranges"}, rows : SUBSET RangeRows, groups : SUBSET Ids,
             groupId : Ids, known : SUBSET RangeRows, gone : {{}}]

UiOK(u) ==
  u \in DashboardUi \/ u \in LogsUi \/ u \in UsersUi \/ u \in GroupsUi \/ u \in RangesUi

\* What the mounted page u holds of the rows b: ids that were handed out; users
\* that exist; no group that is gone has come back; groupId is 1 until there are
\* options, and when it is none of them, its group is gone.
Shown(u, b) ==
  /\ u.page = "users" => u.known \subseteq b.users
  /\ u.page = "groups" =>
       /\ \A i \in u.rows \cup u.known \cup u.gone : i < b.nextGroup
       /\ u.gone \cap b.groups = {}
  /\ u.page = "ranges" =>
       /\ \A r \in u.known : r.id < b.nextRange
       /\ \A i \in u.groups : i < b.nextGroup
       /\ u.groupId < b.nextGroup
       /\ u.groups = {} => u.groupId = 1
       /\ u.groups = {} \/ u.groupId \in u.groups \/ u.groupId \notin b.groups

\* Polls do not outlive the start page.
Polls == \A c \in Conns : net[c].op = "poll" => ui.page = "dashboard"

TypeInv == DbOK(db) /\ NetOK /\ UiOK(ui) /\ Shown(ui, db) /\ Polls

-----------------------------------------------------------------------------
(* The rows only grow old: ids are not handed out again, users stay.       *)

Grows(a, b) ==
  /\ a.nextGroup <= b.nextGroup /\ a.nextRange <= b.nextRange
  /\ a.users \subseteq b.users
  /\ \A i \in b.groups : i < a.nextGroup => i \in a.groups
  /\ \A r \in b.ranges : r.id < a.nextRange => r \in a.ranges

LEMMA DbInts ==
  ASSUME NEW b, DbOK(b)
  PROVE  /\ b.nextGroup \in Nat /\ b.nextRange \in Nat
         /\ b.groups \subseteq Ids /\ b.ranges \subseteq RangeRows
  BY PanelAssumption DEF DbOK

LEMMA IdsNat == Ids \subseteq Nat /\ (\A r \in RangeRows : r.id \in Nat) /\ 1 \in Ids /\ 0 \notin Ids
  BY PanelAssumption DEF Ids, Groups!Ids, RangeRows

LEMMA GrowsMeant ==
  ASSUME NEW a, NEW b, DbOK(a), DbOK(b), Grows(a, b), NEW call, Good(call, a)
  PROVE  Good(call, b)
<1>1. /\ a.nextGroup \in Nat /\ b.nextGroup \in Nat /\ a.nextGroup <= b.nextGroup
      /\ a.nextRange \in Nat /\ b.nextRange \in Nat /\ a.nextRange <= b.nextRange
      /\ \A i \in b.groups : i < a.nextGroup => i \in a.groups
      /\ a.users \subseteq b.users
  BY DbInts DEF Grows
<1>2. \A i \in Ids : i < a.nextGroup => i < b.nextGroup
  BY <1>1, IdsNat
<1>3. \A r \in RangeRows : r.id < a.nextRange => r.id < b.nextRange
  BY <1>1, IdsNat
<1>4. CASE call.op = "deleteGroup"
  BY <1>1, <1>2, <1>4 DEF Good, CallOK, Meant
<1>5. CASE call.op \in {"groups", "createGroup"}
  BY <1>2, <1>5 DEF Good, CallOK, Meant
<1>6. CASE call.op = "createUser"
  BY <1>1, <1>6 DEF Good, CallOK, Meant
<1>7. CASE call.op = "createRange"
  BY <1>1, <1>2, <1>3, <1>7 DEF Good, CallOK, Meant
<1> QED
  BY <1>4, <1>5, <1>6, <1>7 DEF Good, CallOK, Meant

LEMMA GrowsShown ==
  ASSUME NEW a, NEW b, DbOK(a), DbOK(b), Grows(a, b), NEW u, UiOK(u), Shown(u, a)
  PROVE  Shown(u, b)
<1>1. /\ a.nextGroup \in Nat /\ b.nextGroup \in Nat /\ a.nextGroup <= b.nextGroup
      /\ a.nextRange \in Nat /\ b.nextRange \in Nat /\ a.nextRange <= b.nextRange
      /\ \A i \in b.groups : i < a.nextGroup => i \in a.groups
      /\ a.users \subseteq b.users
  BY DbInts DEF Grows
<1>2. \A i \in Ids : i < a.nextGroup => i < b.nextGroup
  BY <1>1, IdsNat
<1>3. \A r \in RangeRows : r.id < a.nextRange => r.id < b.nextRange
  BY <1>1, IdsNat
<1>4. CASE u \in UsersUi
  BY <1>1, <1>4 DEF Shown, UsersUi
<1>5. CASE u \in GroupsUi
  BY <1>1, <1>2, <1>5 DEF Shown, GroupsUi
<1>6. CASE u \in RangesUi
  BY <1>1, <1>2, <1>3, <1>6 DEF Shown, RangesUi
<1>7. CASE u \in DashboardUi \/ u \in LogsUi
  BY <1>7 DEF Shown, DashboardUi, LogsUi
<1> QED
  BY <1>4, <1>5, <1>6, <1>7 DEF UiOK

-----------------------------------------------------------------------------
(* What a step does to the connections.                                    *)

\* x is the call y, but perhaps no longer the newest.
SameCall(x, y) ==
  /\ DOMAIN x = CallFields /\ x.newest \in BOOLEAN /\ (x.newest => y.newest)
  /\ x.op = y.op /\ x.id = y.id /\ x.arg = y.arg /\ x.got = y.got
  /\ x.phase = y.phase /\ x.live = y.live

\* Every call but the one on c stays.
Others(c) ==
  /\ DOMAIN net' = Conns
  /\ \A d \in Conns \ {c} : SameCall(net'[d], net[d])

\* A call is issued on c, and no older one of its kind is the newest any more.
Issued(c, call) ==
  /\ Others(c) /\ net'[c] = call
  /\ \A d \in Conns \ {c} : net'[d].op = call.op => ~net'[d].newest

\* The call on c is given up: forgotten or, if it is on its way and no GET, no
\* longer waited for.
GivenUp(c) ==
  \/ net'[c] = Client!Idle
  \/ /\ DOMAIN net'[c] = CallFields /\ net'[c].newest \in BOOLEAN
     /\ net'[c].op = net[c].op /\ net'[c].id = net[c].id
     /\ net'[c].arg = net[c].arg /\ net'[c].got = net[c].got
     /\ net'[c].phase = net[c].phase /\ net'[c].phase = "sent"
     /\ net'[c].live = FALSE /\ net[c].op \notin Client!Reads

\* The server has answered the call on c, if anybody waits for it.
Answered(c, p, got) ==
  \/ net'[c] = Client!Idle /\ ~net[c].live
  \/ /\ DOMAIN net'[c] = CallFields /\ net'[c].newest = net[c].newest
     /\ net'[c].op = net[c].op /\ net'[c].id = net[c].id
     /\ net'[c].arg = net[c].arg /\ net'[c].got = got
     /\ net'[c].phase = p /\ net'[c].live = net[c].live

LEMMA IdleCall ==
  /\ DOMAIN Client!Idle = CallFields
  /\ \A op, id, arg : DOMAIN Client!Call(op, id, arg) = CallFields
  BY DEF Client!Idle, Client!Call, CallFields

LEMMA IssueEffect ==
  ASSUME NetOK, NEW c \in Conns, NEW call, net' = Client!Issue(net, c, call)
  PROVE  Issued(c, call)
<1>1. DOMAIN net' = Conns /\ net'[c] = call
  BY DEF Client!Issue
<1>2. ASSUME NEW d \in Conns \ {c}
      PROVE  SameCall(net'[d], net[d]) /\ (net'[d].op = call.op => ~net'[d].newest)
  <2>1. CallOK(net[d])
    BY DEF NetOK, Good
  <2>2. CASE net[d].op = call.op
    <3>1. net'[d] = [net[d] EXCEPT !.newest = FALSE]
      BY <2>2 DEF Client!Issue
    <3> QED
      BY <2>1, <3>1 DEF CallOK, SameCall, CallFields
  <2>3. CASE net[d].op # call.op
    <3>1. net'[d] = net[d]
      BY <2>3 DEF Client!Issue
    <3> QED
      BY <2>1, <2>3, <3>1 DEF CallOK, SameCall
  <2> QED
    BY <2>2, <2>3
<1> QED
  BY <1>1, <1>2 DEF Issued, Others

LEMMA ReplaceEffect ==
  ASSUME NetOK, NEW c \in Conns, NEW call, net' = [net EXCEPT ![c] = call]
  PROVE  Others(c) /\ net'[c] = call
  BY DEF NetOK, Others, SameCall, Good, CallOK

LEMMA RejectEffect ==
  ASSUME NetOK, NEW c \in Conns, NEW op, Client!Rejected(c, op)
  PROVE  Others(c) /\ GivenUp(c) /\ net[c].op = op /\ net[c].live
<1>1. PICK r \in Client!Remains(c) : net' = [net EXCEPT ![c] = r]
  BY DEF Client!Rejected
<1>2. \/ r = Client!Idle
      \/ /\ r = [net[c] EXCEPT !.live = FALSE]
         /\ net[c].phase = "sent" /\ net[c].op \notin Client!Reads
  BY DEF Client!Remains
<1>3. Others(c) /\ net'[c] = r
  BY <1>1, ReplaceEffect
<1>4. CallOK(net[c])
  BY DEF NetOK, Good
<1>5. r = Client!Idle => GivenUp(c)
  BY <1>3 DEF GivenUp
<1>6. ASSUME r = [net[c] EXCEPT !.live = FALSE],
             net[c].phase = "sent", net[c].op \notin Client!Reads
      PROVE  GivenUp(c)
  BY <1>3, <1>4, <1>6 DEF GivenUp, CallOK, CallFields
<1>7. net[c].op = op /\ net[c].live
  BY DEF Client!Rejected
<1> QED
  BY <1>2, <1>3, <1>5, <1>6, <1>7

\* Reply, with one of the outcomes as the phase of the call.
Settled(c, p, got) ==
  /\ p \in {"done", "part", "refused"}
  /\ net' = [net EXCEPT ![c] =
               IF net[c].live THEN [net[c] EXCEPT !.phase = p, !.got = got]
                              ELSE Client!Idle]

LEMMA SettleEffect ==
  ASSUME NetOK, NEW c \in Conns, NEW p, NEW got, Settled(c, p, got)
  PROVE  Others(c) /\ Answered(c, p, got)
<1> DEFINE call == IF net[c].live THEN [net[c] EXCEPT !.phase = p, !.got = got]
                                  ELSE Client!Idle
<1>1. net' = [net EXCEPT ![c] = call]
  BY DEF Settled
<1>2. Others(c) /\ net'[c] = call
  <2> HIDE DEF call
  <2> QED
    BY <1>1, ReplaceEffect
<1>3. CallOK(net[c])
  BY DEF NetOK, Good
<1>4. Answered(c, p, got)
  BY <1>2, <1>3 DEF Answered, CallOK, CallFields
<1> QED
  BY <1>2, <1>4

\* SettleRows: the answer is whole, or it is a part and breaks off.
RowsSettled(c, rows, parts) ==
  \/ Settled(c, "done", rows)
  \/ \E part \in parts \ {rows} : Settled(c, "part", part)

\* The page is left: nobody waits for a call any more, and what was sent to
\* change the server is on its way.
LEMMA MountEffect ==
  ASSUME NetOK, NEW u, NEW call, Client!MountWith(u, call)
  PROVE  /\ ui' = u /\ db' = db
         /\ \E c \in Conns : /\ DOMAIN net' = Conns /\ net'[c] = call
                             /\ \A d \in Conns \ {c} : GivenUp(d)
<1>1. PICK c \in Conns : net' = [Client!Abandoned EXCEPT ![c] = call]
  BY DEF Client!MountWith
<1>2. DOMAIN net' = Conns /\ net'[c] = call
  BY <1>1 DEF Client!Abandoned
<1>3. ASSUME NEW d \in Conns \ {c}
      PROVE  GivenUp(d)
  <2>1. CallOK(net[d])
    BY DEF NetOK, Good
  <2>2. CASE net[d].phase = "sent" /\ net[d].op \notin Client!Reads
    <3>1. net'[d] = [net[d] EXCEPT !.live = FALSE]
      BY <1>1, <2>2 DEF Client!Abandoned
    <3> QED
      BY <2>1, <2>2, <3>1 DEF GivenUp, CallOK, CallFields
  <2>3. CASE ~(net[d].phase = "sent" /\ net[d].op \notin Client!Reads)
    <3>1. net'[d] = Client!Idle
      BY <1>1, <2>3 DEF Client!Abandoned
    <3> QED
      BY <3>1 DEF GivenUp
  <2> QED
    BY <2>2, <2>3
<1> QED
  BY <1>2, <1>3 DEF Client!MountWith

-----------------------------------------------------------------------------
(* The calls stay well formed.                                             *)

LEMMA SameGood ==
  ASSUME NEW x, NEW y, SameCall(x, y), NEW b, Good(y, b)
  PROVE  Good(x, b)
<1>1. CallOK(x)
  BY DEF Good, CallOK, SameCall
<1>2. Meant(x, b)
  BY DEF Good, Meant, SameCall
<1> QED
  BY <1>1, <1>2 DEF Good

\* A step on c that leaves a well formed call there.
LEMMA NetStep ==
  ASSUME NetOK, NEW c \in Conns, Others(c), Good(net'[c], db'),
         DbOK(db), DbOK(db'), Grows(db, db')
  PROVE  NetOK'
<1>1. ASSUME NEW d \in Conns \ {c}
      PROVE  Good(net'[d], db')
  <2>1. Good(net[d], db) /\ SameCall(net'[d], net[d])
    BY DEF NetOK, Others
  <2>2. Good(net[d], db')
    BY <2>1, GrowsMeant
  <2> QED
    BY <2>1, <2>2, SameGood
<1> QED
  BY <1>1 DEF NetOK, Others

LEMMA GrowsSelf ==
  ASSUME NEW b, DbOK(b)
  PROVE  Grows(b, b)
  BY DbInts DEF Grows

LEMMA IdleGood ==
  ASSUME NEW b PROVE Good(Client!Idle, b)
<1>1. CallOK(Client!Idle)
  BY IdleCall DEF CallOK, Client!Idle, Ops
<1> QED
  BY <1>1 DEF Good, Meant, Client!Idle

LEMMA GivenUpGood ==
  ASSUME NEW c \in Conns, NEW b, Good(net[c], b), GivenUp(c)
  PROVE  Good(net'[c], b)
<1>1. CASE net'[c] = Client!Idle
  BY <1>1, IdleGood
<1>2. CASE net'[c] # Client!Idle
  <2>1. CallOK(net'[c])
    <3>1. net'[c].live \in BOOLEAN /\ net'[c].newest \in BOOLEAN
      BY <1>2 DEF GivenUp
    <3> QED
      BY <1>2, <3>1 DEF Good, CallOK, GivenUp
  <2>2. Meant(net'[c], b)
    BY <1>2 DEF Good, Meant, GivenUp
  <2> QED
    BY <2>1, <2>2 DEF Good
<1> QED
  BY <1>1, <1>2

\* The calls that the pages issue.
LEMMA NewGood ==
  ASSUME NEW b
  PROVE  /\ Good(Client!Call("poll", 0, {}), b)
         /\ Good(Client!Call("users", 0, {}), b)
         /\ Good(Client!Call("groups", 0, {}), b)
         /\ Good(Client!Call("ranges", 0, {}), b)
         /\ Good(Client!Call("createGroup", 0, {}), b)
         /\ \A filter \in Filters, offset \in 0 .. MaxLogged :
              Good(Client!Call("logs", offset, {filter}), b)
         /\ \A name \in Names : Good(Client!Call("createUser", 0, {name}), b)
         /\ \A id \in Ids : Good(Client!Call("policy", id, {}), b)
         /\ \A id \in Ids : \A arg : id < b.nextGroup => Good(Client!Call("deleteGroup", id, arg), b)
         /\ \A id \in Ids, arg \in SUBSET Category : Good(Client!Call("savePolicy", id, arg), b)
         /\ \A arg : /\ arg.group \in Ids /\ arg.group < b.nextGroup
                     /\ AsShown(arg) \/ arg.group \notin b.groups
                     => Good(Client!Call("createRange", 0, arg), b)
<1> DEFINE Fresh(op, id, arg) == Client!Call(op, id, arg)
<1>1. \A op, id, arg :
        /\ DOMAIN Fresh(op, id, arg) = CallFields /\ Fresh(op, id, arg).op = op
        /\ Fresh(op, id, arg).id = id /\ Fresh(op, id, arg).arg = arg
        /\ Fresh(op, id, arg).got = {} /\ Fresh(op, id, arg).phase = "sent"
        /\ Fresh(op, id, arg).live \in BOOLEAN /\ Fresh(op, id, arg).newest \in BOOLEAN
  BY IdleCall DEF Client!Call
<1> HIDE DEF Fresh
<1>2. /\ Good(Fresh("poll", 0, {}), b) /\ Good(Fresh("users", 0, {}), b)
      /\ Good(Fresh("groups", 0, {}), b) /\ Good(Fresh("ranges", 0, {}), b)
      /\ Good(Fresh("createGroup", 0, {}), b)
  BY <1>1 DEF Good, CallOK, Meant, Ops
<1>3. \A filter \in Filters, offset \in 0 .. MaxLogged : Good(Fresh("logs", offset, {filter}), b)
  BY <1>1 DEF Good, CallOK, Meant, Ops
<1>4. \A name \in Names : Good(Fresh("createUser", 0, {name}), b)
  BY <1>1 DEF Good, CallOK, Meant, Ops
<1>5. \A id \in Ids : Good(Fresh("policy", id, {}), b)
  BY <1>1 DEF Good, CallOK, Meant, Ops
<1>6. \A id \in Ids : \A arg : id < b.nextGroup => Good(Fresh("deleteGroup", id, arg), b)
  BY <1>1 DEF Good, CallOK, Meant, Ops
<1>7. \A id \in Ids, arg \in SUBSET Category : Good(Fresh("savePolicy", id, arg), b)
  BY <1>1 DEF Good, CallOK, Meant, Ops
<1>8. ASSUME NEW arg, arg.group \in Ids, arg.group < b.nextGroup,
             AsShown(arg) \/ arg.group \notin b.groups
      PROVE  Good(Fresh("createRange", 0, arg), b)
  BY <1>1, <1>8 DEF Good, CallOK, Meant, Ops
<1> QED
  BY <1>2, <1>3, <1>4, <1>5, <1>6, <1>7, <1>8 DEF Fresh

-----------------------------------------------------------------------------
(* The server.                                                             *)

\* The outcome p and the answer got of a call, over the rows b it leaves.
Result(call, p, got, b) ==
  /\ call.op = "policy" => got \subseteq Category
  /\ call.op = "logs" => got \subseteq 0 .. MaxLogged
  /\ p = "part" => call.op \in RowOps
  /\ call.op = "users" => got \subseteq b.users /\ (p = "done" => got = b.users)
  /\ call.op = "groups" => got \subseteq b.groups /\ (p = "done" => got = b.groups)
  /\ call.op = "ranges" => got \subseteq b.ranges /\ (p = "done" => got = b.ranges)
  /\ call.op = "createGroup" => got \subseteq Ids /\ \A i \in got : i < b.nextGroup
  /\ call.op = "createUser" /\ p = "done" => call.arg \subseteq b.users
  /\ call.op = "deleteGroup" => call.id \notin b.groups
  /\ call.op = "createRange" =>
       /\ got \subseteq RangeRows /\ \A r \in got : r.id < b.nextRange
       /\ p = "done" => AsShown(call.arg)

\* A handler of the server has run for the call on c.
Served(c, p, got) ==
  /\ net[c].phase = "sent" /\ p \in {"done", "part", "refused"}
  /\ Others(c) /\ Answered(c, p, got)
  /\ DbOK(db') /\ Grows(db, db')
  /\ Result(net[c], p, got, db')
  /\ ui' = ui

LEMMA ServedBy ==
  ASSUME NetOK, NEW c \in Conns, net[c].phase = "sent", NEW p, NEW got, Settled(c, p, got),
         DbOK(db'), Grows(db, db'), Result(net[c], p, got, db'), ui' = ui
  PROVE  \E q, result : Served(c, q, result)
<1>1. Others(c) /\ Answered(c, p, got)
  BY SettleEffect
<1>2. Served(c, p, got)
  BY <1>1 DEF Served, Settled
<1> QED
  BY <1>2

LEMMA RowsServed ==
  ASSUME NetOK, NEW c \in Conns, net[c].phase = "sent", NEW rows, NEW parts,
         RowsSettled(c, rows, parts), DbOK(db), db' = db, ui' = ui,
         Result(net[c], "done", rows, db),
         \A part \in parts : Result(net[c], "part", part, db)
  PROVE  \E q, result : Served(c, q, result)
<1>1. CASE Settled(c, "done", rows)
  BY <1>1, ServedBy, GrowsSelf
<1>2. ASSUME NEW part \in parts, Settled(c, "part", part)
      PROVE  \E q, result : Served(c, q, result)
  BY <1>2, ServedBy, GrowsSelf
<1> QED
  BY <1>1, <1>2 DEF RowsSettled

LEMMA ServedGood ==
  ASSUME NetOK, DbOK(db), NEW c \in Conns, NEW p, NEW got, Served(c, p, got)
  PROVE  Good(net'[c], db')
<1>1. Good(net[c], db')
  BY GrowsMeant DEF Served, NetOK
<1>2. CASE net'[c] = Client!Idle
  BY <1>2, IdleGood
<1>3. CASE net'[c] # Client!Idle
  <2> DEFINE old == net[c]
             new == net'[c]
             b == db'
  <2>1. /\ DOMAIN new = CallFields /\ new.newest = old.newest
        /\ new.op = old.op /\ new.id = old.id /\ new.arg = old.arg /\ new.got = got
        /\ new.phase = p /\ new.live = old.live
    BY <1>3 DEF Served, Answered
  <2>2. /\ Good(old, b) /\ Result(old, p, got, b) /\ p \in {"done", "part", "refused"}
        /\ old.phase = "sent"
    BY <1>1 DEF Served
  <2>3. b.users \subseteq Names /\ b.groups \subseteq Ids /\ b.ranges \subseteq RangeRows
        /\ \A i \in b.groups : i < b.nextGroup
    BY DEF Served, DbOK
  <2> HIDE DEF old, new, b
  <2>4. new.live \in BOOLEAN /\ new.newest \in BOOLEAN
    BY <2>1, <2>2 DEF Good, CallOK
  <2>5. CallOK(new)
    BY <2>1, <2>2, <2>3, <2>4 DEF Good, CallOK, Result
  <2>6. Meant(new, b)
    BY <2>1, <2>2, <2>3 DEF Good, Meant, Result
  <2> QED
    BY <2>5, <2>6 DEF Good, new, b
<1> QED
  BY <1>2, <1>3

\* The handlers of the server, page by page.
LEMMA GroupsServer ==
  ASSUME TypeInv, Groups!ServerStep
  PROVE  \E c \in Conns : \E p, got : Served(c, p, got)
<1> USE DEF TypeInv
<1>1. ui' = ui
  BY DEF Groups!ServerStep
<1>2. DbOK(db) /\ Grows(db, db)
  BY GrowsSelf
<1>3. ASSUME NEW c \in Conns, Groups!ListGroups(c)
      PROVE  \E p, got : Served(c, p, got)
  <2> DEFINE parts == {Groups!GroupsUpTo(last) : last \in Groups!Ids \cup {0}}
  <2>1. /\ net[c].op = "groups" /\ net[c].phase = "sent" /\ db' = db
        /\ RowsSettled(c, db.groups, parts)
    BY <1>3 DEF Groups!ListGroups, Groups!Serving, Groups!SettleRows, Groups!Reply,
                Groups!Idle, RowsSettled, Settled, Client!Idle
  <2>2. \A part \in parts : part \subseteq db.groups
    BY DEF Groups!GroupsUpTo
  <2> HIDE DEF parts
  <2>3. /\ Result(net[c], "done", db.groups, db)
        /\ \A part \in parts : Result(net[c], "part", part, db)
    BY <2>1, <2>2 DEF Result, RowOps
  <2> QED
    BY <1>1, <1>2, <2>1, <2>3, RowsServed
<1>4. ASSUME NEW c \in Conns, Groups!GetGroupPolicy(c)
      PROVE  \E p, got : Served(c, p, got)
  <2> DEFINE cats == db.policies[net[c].id]
             parts == SUBSET cats
  <2>1. /\ net[c].op = "policy" /\ net[c].phase = "sent" /\ db' = db
        /\ RowsSettled(c, cats, parts)
    BY <1>4 DEF Groups!GetGroupPolicy, Groups!Serving, Groups!SettleRows, Groups!Reply,
                Groups!Idle, RowsSettled, Settled, Client!Idle
  <2>2. net[c].id \in Ids
    BY <2>1 DEF NetOK, Good, CallOK
  <2>3. cats \subseteq Category /\ \A part \in parts : part \subseteq Category
    BY <2>2 DEF DbOK
  <2> HIDE DEF cats, parts
  <2>4. /\ Result(net[c], "done", cats, db)
        /\ \A part \in parts : Result(net[c], "part", part, db)
    BY <2>1, <2>3 DEF Result, RowOps
  <2> QED
    BY <1>1, <1>2, <2>1, <2>4, RowsServed
<1>5. ASSUME NEW c \in Conns, Groups!CreateGroup(c)
      PROVE  \E p, got : Served(c, p, got)
  <2>1. net[c].op = "createGroup" /\ net[c].phase = "sent"
    BY <1>5 DEF Groups!CreateGroup, Groups!Serving
  <2>2. CASE db.nextGroup \in Ids
    <3> DEFINE got == {db.nextGroup}
    <3>1. /\ db' = [db EXCEPT !.groups = @ \cup {db.nextGroup}, !.nextGroup = @ + 1]
          /\ Settled(c, "done", got)
      BY <1>5, <2>2 DEF Groups!CreateGroup, Groups!Settle, Groups!Reply, Groups!Idle, Settled, Client!Idle, Ids
    <3>2. /\ db'.groups = db.groups \cup {db.nextGroup}
          /\ db'.nextGroup = db.nextGroup + 1
          /\ db'.nextRange = db.nextRange
          /\ db'.users = db.users /\ db'.ranges = db.ranges
      BY <1>2, <3>1 DEF DbOK
    <3>3. db.nextGroup \in Nat /\ db.nextRange \in Nat /\ db.nextGroup \in 1 .. MaxGroups
      BY <1>2, <2>2, DbInts DEF Ids, Groups!Ids
    <3>4. \A i \in db'.groups : i < db'.nextGroup
      <4>1. \A i \in db.groups : i \in Nat /\ i < db.nextGroup
        BY <1>2, IdsNat DEF DbOK
      <4> QED
        BY <3>2, <3>3, <4>1
    <3>5. db.nextGroup + 1 \in 1 .. MaxGroups + 1 /\ 1 < db.nextGroup + 1
      BY <3>3, PanelAssumption
    <3>6. DbOK(db')
      BY <1>2, <2>2, <3>1, <3>2, <3>4, <3>5 DEF DbOK
    <3>7. Grows(db, db')
      BY <3>2, <3>3 DEF Grows
    <3>8. Result(net[c], "done", got, db')
      BY <2>1, <2>2, <3>2, <3>3 DEF Result
    <3> QED
      BY <1>1, <2>1, <3>1, <3>6, <3>7, <3>8, ServedBy
  <2>3. CASE db.nextGroup \notin Ids
    <3>1. db' = db /\ Settled(c, "refused", {})
      BY <1>5, <2>3 DEF Groups!CreateGroup, Groups!Settle, Groups!Reply, Groups!Idle, Settled, Client!Idle, Ids
    <3>2. Result(net[c], "refused", {}, db)
      BY <2>1 DEF Result
    <3> QED
      BY <1>1, <1>2, <2>1, <3>1, <3>2, ServedBy
  <2> QED
    BY <2>2, <2>3
<1>6. ASSUME NEW c \in Conns, Groups!DeleteGroup(c)
      PROVE  \E p, got : Served(c, p, got)
  <2>1. /\ net[c].op = "deleteGroup" /\ net[c].phase = "sent"
        /\ db' = [db EXCEPT !.groups = @ \ {net[c].id}, !.policies[net[c].id] = {},
                            !.ranges = {r \in @ : r.group # net[c].id}]
        /\ Settled(c, "done", {})
    BY <1>6 DEF Groups!DeleteGroup, Groups!Serving, Groups!Settle, Groups!Reply, Groups!Idle, Settled,
                Client!Idle
  <2>2. net[c].id \in Ids
    BY <2>1 DEF NetOK, Good, CallOK
  <2>3. DbOK(db')
    BY <1>2, <2>1, <2>2 DEF DbOK
  <2>4. /\ db'.groups = db.groups \ {net[c].id} /\ db'.ranges \subseteq db.ranges
        /\ db'.nextGroup = db.nextGroup /\ db'.nextRange = db.nextRange
        /\ db'.users = db.users
    BY <1>2, <2>1 DEF DbOK
  <2>5. Grows(db, db')
    BY <1>2, <2>4, DbInts DEF Grows
  <2>6. Result(net[c], "done", {}, db')
    BY <2>1, <2>4 DEF Result
  <2> QED
    BY <1>1, <2>1, <2>3, <2>5, <2>6, ServedBy
<1>7. ASSUME NEW c \in Conns, Groups!SetGroupPolicy(c)
      PROVE  \E p, got : Served(c, p, got)
  <2>1. net[c].op = "savePolicy" /\ net[c].phase = "sent"
    BY <1>7 DEF Groups!SetGroupPolicy, Groups!Serving
  <2>2. net[c].id \in Ids /\ net[c].arg \subseteq Category
    BY <2>1 DEF NetOK, Good, CallOK
  <2>3. \E p \in {"done", "refused"} : Settled(c, p, {})
    <3> DEFINE p == IF net[c].id \in db.groups \/ net[c].arg = {} THEN "done" ELSE "refused"
    <3>1. Settled(c, p, {})
      BY <1>7 DEF Groups!SetGroupPolicy, Groups!Settle, Groups!Reply, Groups!Idle, Settled, Client!Idle
    <3> QED
      BY <3>1
  <2>4. db' = db \/ db' = [db EXCEPT !.policies[net[c].id] = net[c].arg]
    BY <1>7 DEF Groups!SetGroupPolicy
  <2>5. DbOK(db')
    BY <1>2, <2>2, <2>4 DEF DbOK
  <2>6. Grows(db, db')
    <3>1. /\ db'.groups = db.groups /\ db'.ranges = db.ranges /\ db'.users = db.users
          /\ db'.nextGroup = db.nextGroup /\ db'.nextRange = db.nextRange
      BY <1>2, <2>4 DEF DbOK
    <3> QED
      BY <1>2, <3>1, DbInts DEF Grows
  <2>7. \A p \in {"done", "refused"} : Result(net[c], p, {}, db')
    BY <2>1 DEF Result
  <2> QED
    BY <1>1, <2>1, <2>3, <2>5, <2>6, <2>7, ServedBy
<1> QED
  BY <1>3, <1>4, <1>5, <1>6, <1>7 DEF Groups!ServerStep

LEMMA UsersServer ==
  ASSUME TypeInv, Users!ServerStep
  PROVE  \E c \in Conns : \E p, got : Served(c, p, got)
<1> USE DEF TypeInv
<1>1. ui' = ui
  BY DEF Users!ServerStep
<1>2. DbOK(db) /\ Grows(db, db)
  BY GrowsSelf
<1>3. ASSUME NEW c \in Conns, Users!ListUsers(c)
      PROVE  \E p, got : Served(c, p, got)
  <2> DEFINE parts == SUBSET db.users
  <2>1. /\ net[c].op = "users" /\ net[c].phase = "sent" /\ db' = db
        /\ RowsSettled(c, db.users, parts)
    BY <1>3 DEF Users!ListUsers, Users!Serving, Users!SettleRows, Users!Reply,
                Users!Idle, RowsSettled, Settled, Client!Idle
  <2>2. \A part \in parts : part \subseteq db.users
    OBVIOUS
  <2> HIDE DEF parts
  <2>3. /\ Result(net[c], "done", db.users, db)
        /\ \A part \in parts : Result(net[c], "part", part, db)
    BY <2>1, <2>2 DEF Result, RowOps
  <2> QED
    BY <1>1, <1>2, <2>1, <2>3, RowsServed
<1>4. ASSUME NEW c \in Conns, Users!CreateUser(c)
      PROVE  \E p, got : Served(c, p, got)
  <2>1. /\ net[c].op = "createUser" /\ net[c].phase = "sent"
        /\ db' = [db EXCEPT !.users = @ \cup net[c].arg]
    BY <1>4 DEF Users!CreateUser, Users!Serving
  <2>2. \E p \in {"done", "refused"} : Settled(c, p, {})
    <3> DEFINE p == IF net[c].arg \cap db.users = {} THEN "done" ELSE "refused"
    <3>1. Settled(c, p, {})
      BY <1>4 DEF Users!CreateUser, Users!Settle, Users!Reply, Users!Idle, Settled, Client!Idle
    <3> QED
      BY <3>1
  <2>3. net[c].arg \subseteq Names
    BY <2>1 DEF NetOK, Good, CallOK
  <2>4. /\ db'.users = db.users \cup net[c].arg
        /\ db'.groups = db.groups /\ db'.ranges = db.ranges
        /\ db'.nextGroup = db.nextGroup /\ db'.nextRange = db.nextRange
    BY <1>2, <2>1 DEF DbOK
  <2>5. DbOK(db')
    BY <1>2, <2>1, <2>3, <2>4 DEF DbOK
  <2>6. Grows(db, db')
    BY <1>2, <2>4, DbInts DEF Grows
  <2>7. \A p \in {"done", "refused"} : Result(net[c], p, {}, db')
    BY <2>1, <2>4 DEF Result
  <2> QED
    BY <1>1, <2>1, <2>2, <2>5, <2>6, <2>7, ServedBy
<1> QED
  BY <1>3, <1>4 DEF Users!ServerStep

LEMMA RangesServer ==
  ASSUME TypeInv, Ranges!ServerStep
  PROVE  \E c \in Conns : \E p, got : Served(c, p, got)
<1> USE DEF TypeInv
<1>1. ui' = ui
  BY DEF Ranges!ServerStep
<1>2. DbOK(db) /\ Grows(db, db)
  BY GrowsSelf
<1>3. ASSUME NEW c \in Conns, Ranges!ListRanges(c)
      PROVE  \E p, got : Served(c, p, got)
  <2> DEFINE parts == {Ranges!RangesUpTo(last) : last \in 0 .. MaxRanges}
  <2>1. /\ net[c].op = "ranges" /\ net[c].phase = "sent" /\ db' = db
        /\ RowsSettled(c, db.ranges, parts)
    BY <1>3 DEF Ranges!ListRanges, Ranges!Serving, Ranges!SettleRows, Ranges!Reply,
                Ranges!Idle, RowsSettled, Settled, Client!Idle
  <2>2. \A part \in parts : part \subseteq db.ranges
    BY DEF Ranges!RangesUpTo
  <2> HIDE DEF parts
  <2>3. /\ Result(net[c], "done", db.ranges, db)
        /\ \A part \in parts : Result(net[c], "part", part, db)
    BY <2>1, <2>2 DEF Result, RowOps
  <2> QED
    BY <1>1, <1>2, <2>1, <2>3, RowsServed
<1>4. ASSUME NEW c \in Conns, Ranges!CreateRange(c)
      PROVE  \E p, got : Served(c, p, got)
  <2> DEFINE range == [id |-> db.nextRange, group |-> net[c].arg.group]
             ok == range.group \in db.groups /\ db.nextRange <= MaxRanges
  <2>1. net[c].op = "createRange" /\ net[c].phase = "sent"
    BY <1>4 DEF Ranges!CreateRange, Ranges!Serving
  <2>2. /\ net[c].arg.group \in Ids
        /\ AsShown(net[c].arg) \/ net[c].arg.group \notin db.groups
    BY <2>1 DEF NetOK, Good, CallOK, Meant
  <2>3. CASE ok
    <3>1. /\ db' = [db EXCEPT !.ranges = @ \cup {range}, !.nextRange = @ + 1]
          /\ Settled(c, "done", {range})
      BY <1>4, <2>3 DEF Ranges!CreateRange, Ranges!Settle, Ranges!Reply, Ranges!Idle, Settled, Client!Idle
    <3>2. AsShown(net[c].arg)
      BY <2>2, <2>3
    <3>3. /\ db.nextGroup \in Nat /\ db.nextRange \in Nat
          /\ db.nextRange \in 1 .. MaxRanges /\ db.nextRange + 1 \in 1 .. MaxRanges + 1
      BY <1>2, <2>3, DbInts, PanelAssumption DEF DbOK
    <3>4. range \in RangeRows /\ range.id = db.nextRange
      BY <2>2, <3>3 DEF RangeRows, Ids
    <3> HIDE DEF range
    <3>5. /\ db'.ranges = db.ranges \cup {range} /\ db'.nextRange = db.nextRange + 1
          /\ db'.groups = db.groups /\ db'.nextGroup = db.nextGroup
          /\ db'.users = db.users
      BY <1>2, <3>1 DEF DbOK
    <3>6. \A r \in db'.ranges : r.id < db'.nextRange
      BY <1>2, <3>3, <3>4, <3>5, IdsNat DEF DbOK
    <3>7. DbOK(db')
      BY <1>2, <3>1, <3>3, <3>4, <3>5, <3>6 DEF DbOK
    <3>8. Grows(db, db')
      BY <3>3, <3>4, <3>5 DEF Grows
    <3>9. Result(net[c], "done", {range}, db')
      BY <2>1, <3>2, <3>3, <3>4, <3>5 DEF Result
    <3> QED
      BY <1>1, <2>1, <3>1, <3>7, <3>8, <3>9, ServedBy
  <2>4. CASE ~ok
    <3>1. db' = db /\ Settled(c, "refused", {})
      BY <1>4, <2>4 DEF Ranges!CreateRange, Ranges!Settle, Ranges!Reply, Ranges!Idle, Settled, Client!Idle
    <3>2. Result(net[c], "refused", {}, db)
      BY <2>1 DEF Result
    <3> QED
      BY <1>1, <1>2, <2>1, <3>1, <3>2, ServedBy
  <2> QED
    BY <2>3, <2>4
<1> QED
  BY <1>3, <1>4 DEF Ranges!ServerStep

LEMMA LogsServer ==
  ASSUME TypeInv, Logs!ServerStep
  PROVE  \E c \in Conns : \E p, got : Served(c, p, got)
<1> USE DEF TypeInv
<1>1. PICK c \in Conns : Logs!GetLogs(c)
  BY DEF Logs!ServerStep
<1>2. PICK total \in 0 .. MaxLogged : Logs!Settle(c, TRUE, {total})
  BY <1>1 DEF Logs!GetLogs
<1>3. Settled(c, "done", {total})
  BY <1>2 DEF Logs!Settle, Logs!Reply, Logs!Idle, Settled, Client!Idle
<1>4. net[c].op = "logs" /\ net[c].phase = "sent" /\ db' = db /\ ui' = ui
  BY <1>1 DEF Logs!GetLogs, Logs!Serving, Logs!ServerStep
<1>5. Result(net[c], "done", {total}, db)
  BY <1>4 DEF Result
<1> QED
  BY <1>3, <1>4, <1>5, ServedBy, GrowsSelf

\* One of the two routes of a poll has answered.
Polled(c) ==
  /\ Others(c) /\ Good(net'[c], db) /\ UNCHANGED <<ui, db>>
  /\ net[c].op = "poll" /\ net'[c].op = "poll"

LEMMA DashboardServer ==
  ASSUME TypeInv, Dashboard!ServerStep
  PROVE  \E c \in Conns : Polled(c)
<1> USE DEF TypeInv
<1>1. PICK c \in Conns, route \in Dashboard!Routes : Dashboard!Answer(c, route)
  BY DEF Dashboard!ServerStep
<1> DEFINE arg == net[c].arg \cup {route}
           p == IF arg = Dashboard!Routes THEN "done" ELSE "sent"
           call == [net[c] EXCEPT !.arg = arg, !.phase = p]
<1>2. /\ net' = [net EXCEPT ![c].arg = arg, ![c].phase = p]
      /\ net[c].op = "poll" /\ UNCHANGED <<ui, db>>
  BY <1>1 DEF Dashboard!Answer, Dashboard!Serving
<1>3. p \in {"done", "sent"}
  OBVIOUS
<1>4. Good(net[c], db)
  BY DEF NetOK
<1> HIDE DEF arg, p
<1>5. net' = [net EXCEPT ![c] = call]
  BY <1>2, <1>4 DEF Good, CallOK, CallFields
<1>6. /\ DOMAIN call = CallFields /\ call.op = net[c].op /\ call.phase = p
      /\ call.live = net[c].live /\ call.newest = net[c].newest
  BY <1>4 DEF Good, CallOK, CallFields
<1> HIDE DEF call
<1>7. Others(c) /\ net'[c] = call
  BY <1>5, ReplaceEffect
<1>8. Good(call, db)
  <2>1. call.live \in BOOLEAN /\ call.newest \in BOOLEAN
    BY <1>4, <1>6 DEF Good, CallOK
  <2> QED
    BY <1>2, <1>3, <1>6, <2>1 DEF Good, CallOK, Meant, Ops
<1> QED
  BY <1>2, <1>6, <1>7, <1>8 DEF Polled

LEMMA ServerServes ==
  ASSUME TypeInv, ServerStep
  PROVE  \E c \in Conns : Polled(c) \/ \E p, got : Served(c, p, got)
  BY DashboardServer, LogsServer, UsersServer, GroupsServer, RangesServer DEF ServerStep

-----------------------------------------------------------------------------
(* The pages.                                                              *)

\* The promise of the call on c is settled, and nothing is issued for it.
Ended(c, op) == net[c].op = op /\ net[c].live /\ Others(c) /\ GivenUp(c)

LEMMA DashboardClient ==
  ASSUME NetOK, NEW c \in Conns
  PROVE  /\ \A op : Dashboard!Rejected(c, op) => Ended(c, op)
         /\ \A op : Dashboard!Resolved(c, op) /\ net' = [net EXCEPT ![c] = Dashboard!Idle] => Ended(c, op)
         /\ \A call : net' = Dashboard!Issue(net, c, call) => Issued(c, call)
<1>1. ASSUME NEW op, Dashboard!Rejected(c, op) PROVE Ended(c, op)
  <2>1. Client!Rejected(c, op)
    BY <1>1 DEF Dashboard!Rejected, Dashboard!Remains, Dashboard!Reads, Dashboard!Tables, Dashboard!Idle,
                Client!Rejected, Client!Remains, Client!Reads, Client!Tables, Client!Idle
  <2> QED
    BY <2>1, RejectEffect DEF Ended
<1>2. ASSUME NEW op, Dashboard!Resolved(c, op), net' = [net EXCEPT ![c] = Dashboard!Idle]
      PROVE  Ended(c, op)
  <2>1. net[c].op = op /\ net[c].live
    BY <1>2 DEF Dashboard!Resolved
  <2>2. net' = [net EXCEPT ![c] = Client!Idle]
    BY <1>2 DEF Dashboard!Idle, Client!Idle
  <2>3. Others(c) /\ net'[c] = Client!Idle
    BY <2>2, ReplaceEffect
  <2> QED
    BY <2>1, <2>3 DEF Ended, GivenUp
<1>3. ASSUME NEW call, net' = Dashboard!Issue(net, c, call) PROVE Issued(c, call)
  <2>1. net' = Client!Issue(net, c, call)
    BY <1>3 DEF Dashboard!Issue, Client!Issue
  <2> QED
    BY <2>1, IssueEffect
<1> QED
  BY <1>1, <1>2, <1>3

LEMMA LogsClient ==
  ASSUME NetOK, NEW c \in Conns
  PROVE  /\ \A op : Logs!Rejected(c, op) => Ended(c, op)
         /\ \A op : Logs!Resolved(c, op) /\ net' = [net EXCEPT ![c] = Logs!Idle] => Ended(c, op)
         /\ \A call : net' = Logs!Issue(net, c, call) => Issued(c, call)
<1>1. ASSUME NEW op, Logs!Rejected(c, op) PROVE Ended(c, op)
  <2>1. Client!Rejected(c, op)
    BY <1>1 DEF Logs!Rejected, Logs!Remains, Logs!Reads, Logs!Tables, Logs!Idle,
                Client!Rejected, Client!Remains, Client!Reads, Client!Tables, Client!Idle
  <2> QED
    BY <2>1, RejectEffect DEF Ended
<1>2. ASSUME NEW op, Logs!Resolved(c, op), net' = [net EXCEPT ![c] = Logs!Idle]
      PROVE  Ended(c, op)
  <2>1. net[c].op = op /\ net[c].live
    BY <1>2 DEF Logs!Resolved
  <2>2. net' = [net EXCEPT ![c] = Client!Idle]
    BY <1>2 DEF Logs!Idle, Client!Idle
  <2>3. Others(c) /\ net'[c] = Client!Idle
    BY <2>2, ReplaceEffect
  <2> QED
    BY <2>1, <2>3 DEF Ended, GivenUp
<1>3. ASSUME NEW call, net' = Logs!Issue(net, c, call) PROVE Issued(c, call)
  <2>1. net' = Client!Issue(net, c, call)
    BY <1>3 DEF Logs!Issue, Client!Issue
  <2> QED
    BY <2>1, IssueEffect
<1> QED
  BY <1>1, <1>2, <1>3

LEMMA UsersClient ==
  ASSUME NetOK, NEW c \in Conns
  PROVE  /\ \A op : Users!Rejected(c, op) => Ended(c, op)
         /\ \A op : Users!Resolved(c, op) /\ net' = [net EXCEPT ![c] = Users!Idle] => Ended(c, op)
         /\ \A call : net' = Users!Issue(net, c, call) => Issued(c, call)
<1>1. ASSUME NEW op, Users!Rejected(c, op) PROVE Ended(c, op)
  <2>1. Client!Rejected(c, op)
    BY <1>1 DEF Users!Rejected, Users!Remains, Users!Reads, Users!Tables, Users!Idle,
                Client!Rejected, Client!Remains, Client!Reads, Client!Tables, Client!Idle
  <2> QED
    BY <2>1, RejectEffect DEF Ended
<1>2. ASSUME NEW op, Users!Resolved(c, op), net' = [net EXCEPT ![c] = Users!Idle]
      PROVE  Ended(c, op)
  <2>1. net[c].op = op /\ net[c].live
    BY <1>2 DEF Users!Resolved
  <2>2. net' = [net EXCEPT ![c] = Client!Idle]
    BY <1>2 DEF Users!Idle, Client!Idle
  <2>3. Others(c) /\ net'[c] = Client!Idle
    BY <2>2, ReplaceEffect
  <2> QED
    BY <2>1, <2>3 DEF Ended, GivenUp
<1>3. ASSUME NEW call, net' = Users!Issue(net, c, call) PROVE Issued(c, call)
  <2>1. net' = Client!Issue(net, c, call)
    BY <1>3 DEF Users!Issue, Client!Issue
  <2> QED
    BY <2>1, IssueEffect
<1> QED
  BY <1>1, <1>2, <1>3

LEMMA GroupsClient ==
  ASSUME NetOK, NEW c \in Conns
  PROVE  /\ \A op : Groups!Rejected(c, op) => Ended(c, op)
         /\ \A op : Groups!Resolved(c, op) /\ net' = [net EXCEPT ![c] = Groups!Idle] => Ended(c, op)
         /\ \A call : net' = Groups!Issue(net, c, call) => Issued(c, call)
<1>1. ASSUME NEW op, Groups!Rejected(c, op) PROVE Ended(c, op)
  <2>1. Client!Rejected(c, op)
    BY <1>1 DEF Groups!Rejected, Groups!Remains, Groups!Reads, Groups!Tables, Groups!Idle,
                Client!Rejected, Client!Remains, Client!Reads, Client!Tables, Client!Idle
  <2> QED
    BY <2>1, RejectEffect DEF Ended
<1>2. ASSUME NEW op, Groups!Resolved(c, op), net' = [net EXCEPT ![c] = Groups!Idle]
      PROVE  Ended(c, op)
  <2>1. net[c].op = op /\ net[c].live
    BY <1>2 DEF Groups!Resolved
  <2>2. net' = [net EXCEPT ![c] = Client!Idle]
    BY <1>2 DEF Groups!Idle, Client!Idle
  <2>3. Others(c) /\ net'[c] = Client!Idle
    BY <2>2, ReplaceEffect
  <2> QED
    BY <2>1, <2>3 DEF Ended, GivenUp
<1>3. ASSUME NEW call, net' = Groups!Issue(net, c, call) PROVE Issued(c, call)
  <2>1. net' = Client!Issue(net, c, call)
    BY <1>3 DEF Groups!Issue, Client!Issue
  <2> QED
    BY <2>1, IssueEffect
<1> QED
  BY <1>1, <1>2, <1>3

LEMMA RangesClient ==
  ASSUME NetOK, NEW c \in Conns
  PROVE  /\ \A op : Ranges!Rejected(c, op) => Ended(c, op)
         /\ \A op : Ranges!Resolved(c, op) /\ net' = [net EXCEPT ![c] = Ranges!Idle] => Ended(c, op)
         /\ \A call : net' = Ranges!Issue(net, c, call) => Issued(c, call)
<1>1. ASSUME NEW op, Ranges!Rejected(c, op) PROVE Ended(c, op)
  <2>1. Client!Rejected(c, op)
    BY <1>1 DEF Ranges!Rejected, Ranges!Remains, Ranges!Reads, Ranges!Tables, Ranges!Idle,
                Client!Rejected, Client!Remains, Client!Reads, Client!Tables, Client!Idle
  <2> QED
    BY <2>1, RejectEffect DEF Ended
<1>2. ASSUME NEW op, Ranges!Resolved(c, op), net' = [net EXCEPT ![c] = Ranges!Idle]
      PROVE  Ended(c, op)
  <2>1. net[c].op = op /\ net[c].live
    BY <1>2 DEF Ranges!Resolved
  <2>2. net' = [net EXCEPT ![c] = Client!Idle]
    BY <1>2 DEF Ranges!Idle, Client!Idle
  <2>3. Others(c) /\ net'[c] = Client!Idle
    BY <2>2, ReplaceEffect
  <2> QED
    BY <2>1, <2>3 DEF Ended, GivenUp
<1>3. ASSUME NEW call, net' = Ranges!Issue(net, c, call) PROVE Issued(c, call)
  <2>1. net' = Client!Issue(net, c, call)
    BY <1>3 DEF Ranges!Issue, Client!Issue
  <2> QED
    BY <2>1, IssueEffect
<1> QED
  BY <1>1, <1>2, <1>3

LEMMA NewCalls ==
  \A op, id, arg :
    /\ Dashboard!Call(op, id, arg) = Client!Call(op, id, arg)
    /\ Logs!Call(op, id, arg) = Client!Call(op, id, arg)
    /\ Users!Call(op, id, arg) = Client!Call(op, id, arg)
    /\ Groups!Call(op, id, arg) = Client!Call(op, id, arg)
    /\ Ranges!Call(op, id, arg) = Client!Call(op, id, arg)
  BY DEF Client!Call, Dashboard!Call, Logs!Call, Users!Call, Groups!Call, Ranges!Call,
         Client!Tables, Dashboard!Tables, Logs!Tables, Users!Tables, Groups!Tables,
         Ranges!Tables

LEMMA CallOp ==
  \A op, id, arg :
    Client!Call(op, id, arg).op = op /\ Client!Call(op, id, arg).phase = "sent"
  BY DEF Client!Call

LEMMA FreeIdle ==
  ASSUME NetOK, NEW c \in Conns, net[c].phase = "idle"
  PROVE  net[c].op = "idle"
  BY DEF NetOK, Good, CallOK

\* The mounted page has ended or issued a call, or left the connections alone.
Moved(ops) ==
  /\ db' = db /\ ui'.page = ui.page
  /\ \/ net' = net
     \/ \E c \in Conns, op \in ops : Ended(c, op)
     \/ \E c \in Conns : \E call :
          /\ Issued(c, call) /\ Good(call, db)
          /\ call.phase = "sent" /\ call.op \in ops /\ net[c].op \in ops \cup {"idle"}

LEMMA MovedNet ==
  ASSUME TypeInv, NEW ops, Moved(ops)
  PROVE  NetOK'
<1> USE DEF TypeInv
<1>1. Grows(db, db') /\ DbOK(db') /\ db' = db
  BY GrowsSelf DEF Moved
<1>2. CASE net' = net
  BY <1>1, <1>2 DEF NetOK
<1>3. ASSUME NEW c \in Conns, NEW op \in ops, Ended(c, op) PROVE NetOK'
  <2>1. Good(net'[c], db)
    BY <1>3, GivenUpGood DEF Ended, NetOK
  <2> QED
    BY <1>1, <1>3, <2>1, NetStep DEF Ended
<1>4. ASSUME NEW c \in Conns, NEW call, Issued(c, call), Good(call, db) PROVE NetOK'
  BY <1>1, <1>4, NetStep DEF Issued
<1> QED
  BY <1>2, <1>3, <1>4 DEF Moved

LEMMA MovedPolls ==
  ASSUME TypeInv, NEW ops, Moved(ops), "poll" \in ops => ui.page = "dashboard"
  PROVE  Polls'
<1> USE DEF TypeInv
<1>1. CASE net' = net
  BY <1>1 DEF Moved, Polls
<1>2. ASSUME NEW c \in Conns, Others(c), net'[c].op = "poll" => ui.page = "dashboard"
      PROVE  Polls'
  BY <1>2 DEF Moved, Polls, Others, SameCall
<1>3. ASSUME NEW c \in Conns, NEW op \in ops, Ended(c, op) PROVE Polls'
  BY <1>2, <1>3 DEF Ended, GivenUp, Client!Idle
<1>4. ASSUME NEW c \in Conns, NEW call, Issued(c, call), call.op \in ops PROVE Polls'
  BY <1>2, <1>4 DEF Issued
<1> QED
  BY <1>1, <1>3, <1>4 DEF Moved

-----------------------------------------------------------------------------
(* The steps of the pages.                                                 *)

PageGood(ops) == Moved(ops) /\ UiOK(ui') /\ Shown(ui', db)

LEMMA MovedQuietly ==
  ASSUME net' = net, db' = db, ui'.page = ui.page, NEW ops PROVE Moved(ops)
  BY DEF Moved

LEMMA MovedEnded ==
  ASSUME NEW c \in Conns, NEW op, NEW ops, op \in ops, Ended(c, op),
         db' = db, ui'.page = ui.page
  PROVE  Moved(ops)
  BY DEF Moved

LEMMA MovedIssued ==
  ASSUME NEW c \in Conns, NEW ops, NEW call, Issued(c, call), Good(call, db),
         call.phase = "sent", call.op \in ops,
         net[c].op \in ops \cup {"idle"}, db' = db, ui'.page = ui.page
  PROVE  Moved(ops)
  BY DEF Moved

LEMMA DashboardMoves ==
  ASSUME TypeInv, Dashboard!PageStep
  PROVE  ui.page = "dashboard" /\ PageGood({"poll"})
<1> USE DEF TypeInv
<1>1. PICK c \in Conns : \/ Dashboard!Interval(c) \/ Dashboard!fetchDataDone(c)
                         \/ Dashboard!fetchDataFailed(c)
  BY DEF Dashboard!PageStep
<1>2. ui.page = "dashboard"
  BY <1>1 DEF Dashboard!Interval, Dashboard!fetchDataDone, Dashboard!fetchDataFailed,
              Dashboard!Resolved, Dashboard!Rejected, Polls
<1>3. ui \in DashboardUi
  BY <1>2 DEF UiOK, LogsUi, UsersUi, GroupsUi, RangesUi
<1>4. /\ ui' = ui \/ ui' = [ui EXCEPT !.metrics = TRUE] \/ ui' = [ui EXCEPT !.error = TRUE]
      /\ db' = db
  BY <1>1 DEF Dashboard!Interval, Dashboard!fetchDataDone, Dashboard!fetchDataFailed
<1>5. ui' \in DashboardUi /\ ui'.page = "dashboard"
  BY <1>3, <1>4 DEF DashboardUi
<1>6. UiOK(ui') /\ Shown(ui', db)
  BY <1>5 DEF UiOK, Shown
<1>7. CASE Dashboard!Interval(c)
  <2>1. Issued(c, Client!Call("poll", 0, {}))
    BY <1>7, DashboardClient, NewCalls DEF Dashboard!Interval, Dashboard!fetchData
  <2>2. net[c].op = "idle"
    BY <1>7, FreeIdle DEF Dashboard!Interval, Dashboard!Free
  <2> QED
    BY <1>2, <1>4, <1>5, <1>6, <2>1, <2>2, NewGood, CallOp, MovedIssued DEF PageGood
<1>8. CASE Dashboard!fetchDataDone(c) \/ Dashboard!fetchDataFailed(c)
  <2>1. Ended(c, "poll")
    BY <1>8, DashboardClient DEF Dashboard!fetchDataDone, Dashboard!fetchDataFailed
  <2> QED
    BY <1>2, <1>4, <1>5, <1>6, <2>1, MovedEnded DEF PageGood
<1> QED
  BY <1>1, <1>7, <1>8

LEMMA LogsMoves ==
  ASSUME TypeInv, Logs!PageStep
  PROVE  ui.page = "logs" /\ PageGood({"logs"})
<1> USE DEF TypeInv
<1>1. ui.page = "logs"
  BY DEF Logs!PageStep
<1>2. ui \in LogsUi
  BY <1>1 DEF UiOK, DashboardUi, UsersUi, GroupsUi, RangesUi
<1>3. ASSUME NEW c \in Conns, NEW filter \in Filters, NEW offset \in 0 .. MaxLogged,
             Logs!Query(c, filter, offset)
      PROVE  PageGood({"logs"})
  <2> DEFINE call == Client!Call("logs", offset, {filter})
  <2>1. /\ ui' = [ui EXCEPT !.filter = filter, !.offset = offset]
        /\ db' = db
    BY <1>3 DEF Logs!Query
  <2>2. ui' \in LogsUi /\ ui'.page = "logs"
    BY <1>2, <2>1 DEF LogsUi
  <2>3. Issued(c, call)
    BY <1>3, LogsClient, NewCalls DEF Logs!Query, Logs!fetchLogs
  <2>4. net[c].op = "idle"
    BY <1>3, FreeIdle DEF Logs!Query, Logs!Free
  <2>5. Good(call, db) /\ call.phase = "sent" /\ call.op = "logs"
    BY NewGood, CallOp
  <2> HIDE DEF call
  <2>6. Moved({"logs"})
    BY <1>1, <2>1, <2>2, <2>3, <2>4, <2>5, MovedIssued
  <2> QED
    BY <2>2, <2>6 DEF PageGood, UiOK, Shown
<1>4. /\ ui.offset \in 0 .. MaxLogged /\ ui.filter \in Filters
      /\ ui.total \in 0 .. MaxLogged
  BY <1>2 DEF LogsUi
<1>5. ASSUME NEW c \in Conns, \E filter \in Filters : Logs!SetFilter(c, filter)
      PROVE  PageGood({"logs"})
  BY <1>3, <1>5, PanelAssumption DEF Logs!SetFilter
<1>6. ASSUME NEW c \in Conns, Logs!Search(c) PROVE PageGood({"logs"})
  BY <1>3, <1>4, <1>6 DEF Logs!Search
<1>7. ASSUME NEW c \in Conns, Logs!Previous(c) PROVE PageGood({"logs"})
  <2> DEFINE offset == IF ui.offset > Limit THEN ui.offset - Limit ELSE 0
  <2>1. offset \in 0 .. MaxLogged
    BY <1>4, PanelAssumption
  <2>2. Logs!Query(c, ui.filter, offset)
    BY <1>7 DEF Logs!Previous
  <2> HIDE DEF offset
  <2> QED
    BY <1>3, <1>4, <2>1, <2>2
<1>8. ASSUME NEW c \in Conns, Logs!NextPage(c) PROVE PageGood({"logs"})
  <2>1. ui.offset + Limit < ui.total /\ Logs!Query(c, ui.filter, ui.offset + Limit)
    BY <1>8 DEF Logs!NextPage
  <2>2. ui.offset + Limit \in 0 .. MaxLogged
    BY <1>4, <2>1, PanelAssumption
  <2> QED
    BY <1>3, <1>4, <2>1, <2>2
<1>9. ASSUME NEW c \in Conns, Logs!fetchLogsEnds(c) PROVE PageGood({"logs"})
  <2>1. Ended(c, "logs") /\ db' = db
    BY <1>9, LogsClient DEF Logs!fetchLogsEnds
  <2>2. /\ net[c].arg \subseteq Filters /\ net[c].id \in 0 .. MaxLogged
        /\ net[c].got \subseteq 0 .. MaxLogged
    BY <2>1 DEF Ended, NetOK, Good, CallOK
  <2>3. ui' \in LogsUi /\ ui'.page = "logs"
    <3>1. CASE ui' = ui
      BY <1>1, <1>2, <3>1
    <3>2. CASE \E filter \in net[c].arg, total \in net[c].got :
                 ui' = [ui EXCEPT !.total = total,
                          !.data = [filter |-> filter, offset |-> net[c].id]]
      <4>1. PICK filter \in net[c].arg, total \in net[c].got :
               ui' = [ui EXCEPT !.total = total,
                        !.data = [filter |-> filter, offset |-> net[c].id]]
        BY <3>2
      <4> DEFINE data == [filter |-> filter, offset |-> net[c].id]
      <4>2. total \in 0 .. MaxLogged /\ data \in [filter : Filters, offset : 0 .. MaxLogged]
        BY <2>2
      <4>3. ui' = [ui EXCEPT !.total = total, !.data = data]
        BY <4>1
      <4> HIDE DEF data
      <4> QED
        BY <1>2, <4>2, <4>3 DEF LogsUi
    <3> QED
      BY <1>9, <3>1, <3>2 DEF Logs!fetchLogsEnds
  <2>4. Moved({"logs"})
    BY <1>1, <2>1, <2>3, MovedEnded
  <2> QED
    BY <2>3, <2>4 DEF PageGood, UiOK, Shown
<1> QED
  BY <1>1, <1>5, <1>6, <1>7, <1>8, <1>9 DEF Logs!PageStep

LEMMA UsersMoves ==
  ASSUME TypeInv, Users!PageStep
  PROVE  ui.page = "users" /\ PageGood({"users", "createUser"})
<1> USE DEF TypeInv
<1>1. ui.page = "users"
  BY DEF Users!PageStep
<1>2. ui \in UsersUi
  BY <1>1 DEF UiOK, DashboardUi, LogsUi, GroupsUi, RangesUi
<1>3. ASSUME NEW c \in Conns, Users!fetchUsersEnds(c)
      PROVE  PageGood({"users", "createUser"})
  <2>1. Ended(c, "users") /\ db' = db
    BY <1>3, UsersClient DEF Users!fetchUsersEnds, Users!TableEnds
  <2>2. net[c].got \subseteq Names
    BY <2>1 DEF Ended, NetOK, Good, CallOK
  <2>3. \/ ui' = ui
        \/ ui' = [ui EXCEPT !.rows = net[c].got,
                            !.known = IF net[c].newest THEN {} ELSE @,
                            !.gone = IF net[c].newest THEN {} ELSE @]
    BY <1>3 DEF Users!fetchUsersEnds, Users!TableEnds
  <2>4. ui' \in UsersUi /\ ui'.page = "users" /\ (ui'.known = {} \/ ui'.known = ui.known)
    BY <1>1, <1>2, <2>2, <2>3 DEF UsersUi
  <2>5. Moved({"users", "createUser"})
    BY <1>1, <2>1, <2>4, MovedEnded
  <2> QED
    BY <1>1, <2>4, <2>5 DEF PageGood, UiOK, Shown
<1>4. ASSUME NEW c \in Conns, NEW name \in Names, Users!handleCreate(c, name)
      PROVE  PageGood({"users", "createUser"})
  <2> DEFINE call == Client!Call("createUser", 0, {name})
  <2>1. Issued(c, call) /\ db' = db /\ ui' = ui
    BY <1>4, UsersClient, NewCalls DEF Users!handleCreate
  <2>2. net[c].op = "idle"
    BY <1>4, FreeIdle DEF Users!handleCreate, Users!Free
  <2>3. Good(call, db) /\ call.phase = "sent" /\ call.op = "createUser"
    BY NewGood, CallOp
  <2> HIDE DEF call
  <2>4. Moved({"users", "createUser"})
    BY <2>1, <2>2, <2>3, MovedIssued
  <2> QED
    BY <2>1, <2>4 DEF PageGood
<1>5. ASSUME NEW c \in Conns, Users!handleCreateEnds(c)
      PROVE  PageGood({"users", "createUser"})
  <2>1. CASE Users!Rejected(c, "createUser") /\ UNCHANGED ui
    BY <1>5, <2>1, UsersClient, MovedEnded DEF Users!handleCreateEnds, PageGood
  <2>2. CASE /\ Users!Resolved(c, "createUser")
             /\ net' = Users!Issue(net, c, Users!fetchUsers)
             /\ ui' = [ui EXCEPT !.known = @ \cup net[c].arg]
    <3>1. Issued(c, Client!Call("users", 0, {})) /\ db' = db
      BY <1>5, <2>2, UsersClient, NewCalls DEF Users!handleCreateEnds, Users!fetchUsers
    <3>2. net[c].op = "createUser" /\ net[c].phase = "done"
      BY <2>2 DEF Users!Resolved, NetOK, Good, CallOK, RowOps
    <3>3. net[c].arg \subseteq Names /\ net[c].arg \subseteq db.users
      BY <3>2 DEF NetOK, Good, CallOK, Meant
    <3>4. ui' \in UsersUi /\ ui'.page = "users" /\ ui'.known = ui.known \cup net[c].arg
      BY <1>2, <2>2, <3>3 DEF UsersUi
    <3>5. Moved({"users", "createUser"})
      BY <1>1, <3>1, <3>2, <3>4, NewGood, CallOp, MovedIssued
    <3> QED
      BY <1>1, <3>3, <3>4, <3>5 DEF PageGood, UiOK, Shown
  <2> QED
    BY <1>5, <2>1, <2>2 DEF Users!handleCreateEnds
<1> QED
  BY <1>1, <1>3, <1>4, <1>5 DEF Users!PageStep

GroupsOps == {"groups", "createGroup", "deleteGroup", "policy", "savePolicy"}

LEMMA GroupsMoves ==
  ASSUME TypeInv, Groups!PageStep
  PROVE  ui.page = "groups" /\ PageGood(GroupsOps)
<1> USE DEF TypeInv
<1>1. ui.page = "groups"
  BY DEF Groups!PageStep
<1>2. ui \in GroupsUi
  BY <1>1 DEF UiOK, DashboardUi, LogsUi, UsersUi, RangesUi
<1>3. /\ ui.gone \cap db.groups = {}
      /\ \A i \in ui.rows \cup ui.known \cup ui.gone : i < db.nextGroup
  BY <1>1 DEF Shown
\* A step that leaves the table and its history alone.
<1>4. ASSUME Moved(GroupsOps), ui' \in GroupsUi,
             ui'.rows = ui.rows, ui'.known = ui.known, ui'.gone = ui.gone
      PROVE  PageGood(GroupsOps)
  <2>1. ui'.page = "groups"
    BY <1>4 DEF GroupsUi
  <2> QED
    BY <1>3, <1>4, <2>1 DEF PageGood, UiOK, Shown
<1>5. ASSUME NEW c \in Conns, Groups!fetchGroupsEnds(c) PROVE PageGood(GroupsOps)
  <2>1. Ended(c, "groups") /\ db' = db
    BY <1>5, GroupsClient DEF Groups!fetchGroupsEnds, Groups!TableEnds
  <2>2. net[c].got \subseteq Ids /\ \A i \in net[c].got : i < db.nextGroup
    BY <2>1 DEF Ended, NetOK, Good, CallOK, Meant
  <2>3. \/ ui' = ui
        \/ ui' = [ui EXCEPT !.rows = net[c].got,
                            !.known = IF net[c].newest THEN {} ELSE @,
                            !.gone = IF net[c].newest THEN {} ELSE @]
    BY <1>5 DEF Groups!fetchGroupsEnds, Groups!TableEnds
  <2>4. /\ ui' \in GroupsUi /\ ui'.page = "groups"
        /\ ui'.known = {} \/ ui'.known = ui.known
        /\ ui'.gone = {} \/ ui'.gone = ui.gone
        /\ ui'.rows = net[c].got \/ ui'.rows = ui.rows
    BY <1>1, <1>2, <2>2, <2>3 DEF GroupsUi
  <2>5. Moved(GroupsOps)
    BY <1>1, <2>1, <2>4, MovedEnded DEF GroupsOps
  <2> QED
    BY <1>3, <2>2, <2>4, <2>5 DEF PageGood, UiOK, Shown
<1>6. ASSUME NEW c \in Conns, Groups!handleCreate(c) PROVE PageGood(GroupsOps)
  <2>1. Issued(c, Client!Call("createGroup", 0, {})) /\ db' = db /\ ui' = ui
    BY <1>6, GroupsClient, NewCalls DEF Groups!handleCreate
  <2>2. net[c].op = "idle"
    BY <1>6, FreeIdle DEF Groups!handleCreate, Groups!Free
  <2>3. Moved(GroupsOps)
    BY <2>1, <2>2, NewGood, CallOp, MovedIssued DEF GroupsOps
  <2> QED
    BY <2>1, <2>3 DEF PageGood
<1>7. ASSUME NEW c \in Conns, Groups!handleCreateEnds(c) PROVE PageGood(GroupsOps)
  <2>1. CASE Groups!Rejected(c, "createGroup") /\ UNCHANGED ui
    BY <1>7, <2>1, GroupsClient, MovedEnded DEF Groups!handleCreateEnds, PageGood, GroupsOps
  <2>2. CASE /\ Groups!Resolved(c, "createGroup")
             /\ net' = Groups!Issue(net, c, Groups!fetchGroups)
             /\ ui' = [ui EXCEPT !.known = @ \cup net[c].got]
    <3>1. Issued(c, Client!Call("groups", 0, {})) /\ db' = db
      BY <1>7, <2>2, GroupsClient, NewCalls DEF Groups!handleCreateEnds, Groups!fetchGroups
    <3>2. net[c].op = "createGroup"
      BY <2>2 DEF Groups!Resolved
    <3>3. net[c].got \subseteq Ids /\ \A i \in net[c].got : i < db.nextGroup
      BY <3>2 DEF NetOK, Good, CallOK, Meant
    <3>4. /\ ui' \in GroupsUi /\ ui'.page = "groups" /\ ui'.known = ui.known \cup net[c].got
          /\ ui'.rows = ui.rows /\ ui'.gone = ui.gone
      BY <1>2, <2>2, <3>3 DEF GroupsUi
    <3>5. Moved(GroupsOps)
      <4> DEFINE call == Client!Call("groups", 0, {})
      <4>1. Issued(c, call) /\ Good(call, db) /\ call.phase = "sent" /\ call.op = "groups"
        BY <3>1, NewGood, CallOp
      <4> HIDE DEF call
      <4> QED
        BY <1>1, <3>1, <3>2, <3>4, <4>1, MovedIssued DEF GroupsOps
    <3> QED
      BY <1>3, <3>3, <3>4, <3>5 DEF PageGood, UiOK, Shown
  <2> QED
    BY <1>7, <2>1, <2>2 DEF Groups!handleCreateEnds
<1>8. ASSUME NEW c \in Conns, NEW id \in Ids, Groups!handleDelete(c, id)
      PROVE  PageGood(GroupsOps)
  <2> DEFINE arg == IF ui.editing = id THEN {"editor"} ELSE {}
             call == Client!Call("deleteGroup", id, arg)
  <2>1. Issued(c, call) /\ db' = db /\ ui' = ui /\ id \in ui.rows
    BY <1>8, GroupsClient, NewCalls DEF Groups!handleDelete
  <2>2. net[c].op = "idle"
    BY <1>8, FreeIdle DEF Groups!handleDelete, Groups!Free
  <2>3. id < db.nextGroup
    BY <1>3, <2>1
  <2>4. Good(call, db) /\ call.phase = "sent" /\ call.op = "deleteGroup"
    BY <2>3, NewGood, CallOp
  <2> HIDE DEF call
  <2>5. Moved(GroupsOps)
    BY <2>1, <2>2, <2>4, MovedIssued DEF GroupsOps
  <2> QED
    BY <2>1, <2>5 DEF PageGood
<1>9. ASSUME NEW c \in Conns, Groups!handleDeleteEnds(c) PROVE PageGood(GroupsOps)
  <2>1. CASE Groups!Rejected(c, "deleteGroup") /\ UNCHANGED ui
    BY <1>9, <2>1, GroupsClient, MovedEnded DEF Groups!handleDeleteEnds, PageGood, GroupsOps
  <2>2. CASE /\ Groups!Resolved(c, "deleteGroup")
             /\ net' = Groups!Issue(net, c, Groups!fetchGroups)
             /\ ui' = [ui EXCEPT !.gone = @ \cup {net[c].id},
                                 !.editing = IF "editor" \in net[c].arg THEN 0 ELSE @]
    <3>1. Issued(c, Client!Call("groups", 0, {})) /\ db' = db
      BY <1>9, <2>2, GroupsClient, NewCalls DEF Groups!handleDeleteEnds, Groups!fetchGroups
    <3>2. net[c].op = "deleteGroup" /\ net[c].phase = "done"
      BY <2>2 DEF Groups!Resolved, NetOK, Good, CallOK, RowOps
    <3>3. net[c].id \in Ids /\ net[c].id < db.nextGroup /\ net[c].id \notin db.groups
      BY <3>2 DEF NetOK, Good, CallOK, Meant
    <3>4. /\ ui' \in GroupsUi /\ ui'.page = "groups" /\ ui'.gone = ui.gone \cup {net[c].id}
          /\ ui'.rows = ui.rows /\ ui'.known = ui.known
      BY <1>2, <2>2, <3>3 DEF GroupsUi
    <3>5. Moved(GroupsOps)
      <4> DEFINE call == Client!Call("groups", 0, {})
      <4>1. Issued(c, call) /\ Good(call, db) /\ call.phase = "sent" /\ call.op = "groups"
        BY <3>1, NewGood, CallOp
      <4> HIDE DEF call
      <4> QED
        BY <1>1, <3>1, <3>2, <3>4, <4>1, MovedIssued DEF GroupsOps
    <3> QED
      BY <1>3, <3>3, <3>4, <3>5 DEF PageGood, UiOK, Shown
  <2> QED
    BY <1>9, <2>1, <2>2 DEF Groups!handleDeleteEnds
<1>10. ASSUME NEW c \in Conns, NEW id \in Ids, Groups!openPolicy(c, id)
       PROVE  PageGood(GroupsOps)
  <2>1. CASE ui' = [ui EXCEPT !.editing = 0] /\ net' = net
    <3>1. /\ ui' \in GroupsUi /\ ui'.page = ui.page
          /\ ui'.rows = ui.rows /\ ui'.known = ui.known /\ ui'.gone = ui.gone
      BY <1>2, <2>1 DEF GroupsUi
    <3> QED
      BY <1>4, <1>10, <2>1, <3>1, MovedQuietly DEF Groups!openPolicy
  <2>2. CASE /\ Groups!Free(c) /\ ui' = ui
             /\ net' = Groups!Issue(net, c, Groups!Call("policy", id, {}))
    <3>1. Issued(c, Client!Call("policy", id, {})) /\ db' = db
      BY <1>10, <2>2, GroupsClient, NewCalls DEF Groups!openPolicy
    <3>2. net[c].op = "idle"
      BY <2>2, FreeIdle DEF Groups!Free
    <3>3. Moved(GroupsOps)
      BY <2>2, <3>1, <3>2, NewGood, CallOp, MovedIssued DEF GroupsOps
    <3> QED
      BY <2>2, <3>3 DEF PageGood
  <2> QED
    BY <1>10, <2>1, <2>2 DEF Groups!openPolicy
<1>11. ASSUME NEW c \in Conns, Groups!openPolicyEnds(c) PROVE PageGood(GroupsOps)
  <2>1. Ended(c, "policy") /\ db' = db
    BY <1>11, GroupsClient DEF Groups!openPolicyEnds
  <2>2. net[c].got \subseteq Category /\ net[c].id \in Ids
    BY <2>1 DEF Ended, NetOK, Good, CallOK
  <2>3. ui' = ui \/ ui' = [ui EXCEPT !.draft = net[c].got, !.editing = net[c].id]
    BY <1>11 DEF Groups!openPolicyEnds
  <2>4. /\ ui' \in GroupsUi /\ ui'.page = ui.page
        /\ ui'.rows = ui.rows /\ ui'.known = ui.known /\ ui'.gone = ui.gone
    BY <1>2, <2>2, <2>3 DEF GroupsUi
  <2> QED
    BY <1>4, <2>1, <2>4, MovedEnded DEF GroupsOps
<1>12. ASSUME NEW c \in Conns, Groups!savePolicy(c) PROVE PageGood(GroupsOps)
  <2> DEFINE call == Client!Call("savePolicy", ui.editing, ui.draft)
  <2>1. Issued(c, call) /\ db' = db /\ ui.editing \in ui.rows
    BY <1>12, GroupsClient, NewCalls DEF Groups!savePolicy, Groups!EditorShown
  <2>2. net[c].op = "idle"
    BY <1>12, FreeIdle DEF Groups!savePolicy, Groups!Free
  <2>3. Good(call, db) /\ call.phase = "sent" /\ call.op = "savePolicy"
    <3>1. ui.editing \in Ids /\ ui.draft \in SUBSET Category
      BY <1>2, <2>1 DEF GroupsUi
    <3> QED
      BY <3>1, NewGood, CallOp
  <2> HIDE DEF call
  <2>4. ui' = [ui EXCEPT !.saving = TRUE]
    BY <1>12 DEF Groups!savePolicy
  <2>5. /\ ui' \in GroupsUi /\ ui'.page = ui.page
        /\ ui'.rows = ui.rows /\ ui'.known = ui.known /\ ui'.gone = ui.gone
    BY <1>2, <2>4 DEF GroupsUi
  <2> QED
    BY <1>4, <2>1, <2>2, <2>3, <2>5, MovedIssued DEF GroupsOps
<1>13. ASSUME NEW c \in Conns, Groups!savePolicyEnds(c) PROVE PageGood(GroupsOps)
  <2>1. Ended(c, "savePolicy") /\ db' = db
    BY <1>13, GroupsClient DEF Groups!savePolicyEnds
  <2>2. ui' = [ui EXCEPT !.saving = FALSE]
    BY <1>13 DEF Groups!savePolicyEnds
  <2>3. /\ ui' \in GroupsUi /\ ui'.page = ui.page
        /\ ui'.rows = ui.rows /\ ui'.known = ui.known /\ ui'.gone = ui.gone
    BY <1>2, <2>2 DEF GroupsUi
  <2> QED
    BY <1>4, <2>1, <2>3, MovedEnded DEF GroupsOps
<1>14. ASSUME NEW cat \in Category, Groups!toggleCategory(cat) PROVE PageGood(GroupsOps)
  <2>1. /\ ui' = [ui EXCEPT !.draft = IF cat \in @ THEN @ \ {cat} ELSE @ \cup {cat}]
        /\ net' = net /\ db' = db
    BY <1>14 DEF Groups!toggleCategory
  <2>2. /\ ui' \in GroupsUi /\ ui'.page = ui.page
        /\ ui'.rows = ui.rows /\ ui'.known = ui.known /\ ui'.gone = ui.gone
    BY <1>2, <2>1 DEF GroupsUi
  <2> QED
    BY <1>4, <2>1, <2>2, MovedQuietly
<1> QED
  BY <1>1, <1>5, <1>6, <1>7, <1>8, <1>9, <1>10, <1>11, <1>12, <1>13, <1>14
     DEF Groups!PageStep, Ids

LEMMA RangesMoves ==
  ASSUME TypeInv, Ranges!PageStep
  PROVE  ui.page = "ranges" /\ PageGood({"ranges", "createRange"})
<1> USE DEF TypeInv
<1> DEFINE ops == {"ranges", "createRange"}
<1>1. ui.page = "ranges"
  BY DEF Ranges!PageStep
<1>2. ui \in RangesUi
  BY <1>1 DEF UiOK, DashboardUi, LogsUi, UsersUi, GroupsUi
<1>3. /\ \A r \in ui.known : r.id < db.nextRange
      /\ \A i \in ui.groups : i < db.nextGroup
      /\ ui.groupId < db.nextGroup
      /\ ui.groups = {} => ui.groupId = 1
      /\ ui.groups = {} \/ ui.groupId \in ui.groups \/ ui.groupId \notin db.groups
  BY <1>1 DEF Shown
<1>4. ASSUME NEW c \in Conns, Ranges!fetchRangesEnds(c) PROVE PageGood(ops)
  <2>1. Ended(c, "ranges") /\ db' = db
    BY <1>4, RangesClient DEF Ranges!fetchRangesEnds, Ranges!TableEnds
  <2>2. net[c].got \subseteq RangeRows
    BY <2>1 DEF Ended, NetOK, Good, CallOK
  <2>3. \/ ui' = ui
        \/ ui' = [ui EXCEPT !.rows = net[c].got,
                            !.known = IF net[c].newest THEN {} ELSE @,
                            !.gone = IF net[c].newest THEN {} ELSE @]
    BY <1>4 DEF Ranges!fetchRangesEnds, Ranges!TableEnds
  <2>4. /\ ui' \in RangesUi /\ ui'.page = "ranges"
        /\ ui'.known = {} \/ ui'.known = ui.known
        /\ ui'.groups = ui.groups /\ ui'.groupId = ui.groupId
    BY <1>1, <1>2, <2>2, <2>3 DEF RangesUi
  <2>5. Moved(ops)
    BY <1>1, <2>1, <2>4, MovedEnded
  <2> QED
    BY <1>3, <2>4, <2>5 DEF PageGood, UiOK, Shown
<1>5. ASSUME NEW c \in Conns, Ranges!handleCreate(c) PROVE PageGood(ops)
  <2> DEFINE arg == [group |-> ui.groupId, shown |-> Ranges!ShownGroup]
             call == Client!Call("createRange", 0, arg)
  <2>1. Issued(c, call) /\ db' = db /\ ui' = ui
    BY <1>5, RangesClient, NewCalls DEF Ranges!handleCreate
  <2>2. net[c].op = "idle"
    BY <1>5, FreeIdle DEF Ranges!handleCreate, Ranges!Free
  <2>3. arg.group = ui.groupId /\ arg.shown = Ranges!ShownGroup
    OBVIOUS
  <2>4. AsShown(arg) \/ arg.group \notin db.groups
    <3>1. ui.groups = {} => Ranges!ShownGroup = 0
      BY DEF Ranges!ShownGroup
    <3>2. ui.groupId \in ui.groups => Ranges!ShownGroup = ui.groupId
      BY DEF Ranges!ShownGroup
    <3> QED
      BY <1>3, <2>3, <3>1, <3>2 DEF AsShown
  <2>5. arg.group \in Ids /\ arg.group < db.nextGroup
    BY <1>2, <1>3, <2>3 DEF RangesUi
  <2> HIDE DEF arg
  <2>6. Good(call, db) /\ call.phase = "sent" /\ call.op = "createRange"
    BY <2>4, <2>5, NewGood, CallOp
  <2> HIDE DEF call
  <2>7. Moved(ops)
    BY <2>1, <2>2, <2>6, MovedIssued
  <2> QED
    BY <2>1, <2>7 DEF PageGood
<1>6. ASSUME NEW c \in Conns, Ranges!handleCreateEnds(c) PROVE PageGood(ops)
  <2>1. CASE Ranges!Rejected(c, "createRange") /\ UNCHANGED ui
    BY <1>6, <2>1, RangesClient, MovedEnded DEF Ranges!handleCreateEnds, PageGood
  <2>2. CASE /\ Ranges!Resolved(c, "createRange")
             /\ net' = Ranges!Issue(net, c, Ranges!fetchRanges)
             /\ ui' = [ui EXCEPT !.known = @ \cup net[c].got]
    <3>1. Issued(c, Client!Call("ranges", 0, {})) /\ db' = db
      BY <1>6, <2>2, RangesClient, NewCalls DEF Ranges!handleCreateEnds, Ranges!fetchRanges
    <3>2. net[c].op = "createRange"
      BY <2>2 DEF Ranges!Resolved
    <3>3. net[c].got \subseteq RangeRows /\ \A r \in net[c].got : r.id < db.nextRange
      BY <3>2 DEF NetOK, Good, CallOK, Meant
    <3>4. /\ ui' \in RangesUi /\ ui'.page = "ranges" /\ ui'.known = ui.known \cup net[c].got
          /\ ui'.groups = ui.groups /\ ui'.groupId = ui.groupId
      BY <1>2, <2>2, <3>3 DEF RangesUi
    <3>5. Moved(ops)
      BY <1>1, <3>1, <3>2, <3>4, NewGood, CallOp, MovedIssued
    <3> QED
      BY <1>3, <3>3, <3>4, <3>5 DEF PageGood, UiOK, Shown
  <2> QED
    BY <1>6, <2>1, <2>2 DEF Ranges!handleCreateEnds
<1>7. ASSUME NEW g \in ui.groups, Ranges!setGroupId(g) PROVE PageGood(ops)
  <2>1. ui' = [ui EXCEPT !.groupId = g] /\ net' = net /\ db' = db
    BY <1>7 DEF Ranges!setGroupId
  <2>2. /\ ui' \in RangesUi /\ ui'.page = "ranges" /\ ui'.known = ui.known
        /\ ui'.groups = ui.groups /\ ui'.groupId = g
    BY <1>2, <2>1 DEF RangesUi
  <2> QED
    BY <1>1, <1>3, <2>1, <2>2, MovedQuietly DEF PageGood, UiOK, Shown
<1>8. ASSUME Ranges!fetchGroups PROVE PageGood(ops)
  <2>1. PICK last \in db.groups :
          ui' = [ui EXCEPT !.groups = {g \in db.groups : g <= last}]
    BY <1>8 DEF Ranges!fetchGroups
  <2> DEFINE options == {g \in db.groups : g <= last}
  <2>2. net' = net /\ db' = db /\ ui.groups = {}
    BY <1>8 DEF Ranges!fetchGroups
  <2>3. db.groups \subseteq Ids /\ \A i \in db.groups : i < db.nextGroup
    BY DEF DbOK
  <2>a. last \in Nat /\ 1 <= last
    BY <2>3, PanelAssumption DEF Ids, Groups!Ids
  <2>4. options \subseteq Ids /\ options # {} /\ \A i \in options : i < db.nextGroup
    <3>1. last \in options
      BY <2>a
    <3> QED
      BY <2>3, <3>1
\* The first option has the least id, and no id is less than 1.
  <2>5. 1 \in options \/ 1 \notin db.groups
    BY <2>a
  <2> HIDE DEF options
  <2>6. /\ ui' \in RangesUi /\ ui'.page = "ranges" /\ ui'.known = ui.known
        /\ ui'.groups = options /\ ui'.groupId = ui.groupId
    BY <1>2, <2>1, <2>4 DEF RangesUi, options
  <2>7. ui.groupId = 1
    BY <1>2, <1>3, <2>2 DEF Shown, RangesUi
  <2> QED
    BY <1>1, <1>3, <2>2, <2>4, <2>5, <2>6, <2>7, MovedQuietly DEF PageGood, UiOK, Shown
<1> QED
  BY <1>1, <1>4, <1>5, <1>6, <1>7, <1>8 DEF Ranges!PageStep

-----------------------------------------------------------------------------
(* A page is mounted.                                                      *)

Fresh(u, call) ==
  \/ u = Dashboard!DashboardMounted /\ call = Client!Call("poll", 0, {})
  \/ u = Logs!LogsMounted /\ call = Client!Call("logs", 0, {NoFilter})
  \/ u = Users!UsersMounted /\ call = Client!Call("users", 0, {})
  \/ u = Groups!GroupsMounted /\ call = Client!Call("groups", 0, {})
  \/ u = Ranges!RangesMounted /\ call = Client!Call("ranges", 0, {})

\* The page has just been mounted, its effect has issued its call on c, and all
\* that was under way has been given up.
Mounted(c) ==
  /\ db' = db /\ DOMAIN net' = Conns /\ Fresh(ui', net'[c])
  /\ \A d \in Conns \ {c} : GivenUp(d)

LEMMA MountMounts ==
  ASSUME NetOK, Navigate
  PROVE  \E c \in Conns : Mounted(c)
<1>1. \E u, call : Fresh(u, call) /\ Client!MountWith(u, call)
  <2>1. CASE Dashboard!Mount
    <3> DEFINE u == Dashboard!DashboardMounted
               call == Client!Call("poll", 0, {})
    <3>1. Fresh(u, call)
      BY DEF Fresh
    <3>2. Client!MountWith(u, call)
      <4>1. call = Dashboard!fetchData
        BY NewCalls DEF Dashboard!fetchData
      <4> HIDE DEF u, call
      <4>2. Dashboard!MountWith(u, call)
        BY <2>1, <4>1 DEF Dashboard!Mount, u
      <4> QED
        BY <4>2 DEF Dashboard!MountWith, Client!MountWith, Dashboard!Abandoned,
             Client!Abandoned, Dashboard!Reads, Client!Reads, Dashboard!Tables,
             Client!Tables, Dashboard!Idle, Client!Idle
    <3> QED
      BY <3>1, <3>2
  <2>2. CASE Logs!Mount
    <3> DEFINE u == Logs!LogsMounted
               call == Client!Call("logs", 0, {NoFilter})
    <3>1. Fresh(u, call)
      BY DEF Fresh
    <3>2. Client!MountWith(u, call)
      <4>1. call = Logs!fetchLogs(NoFilter, 0)
        BY NewCalls DEF Logs!fetchLogs
      <4> HIDE DEF u, call
      <4>2. Logs!MountWith(u, call)
        BY <2>2, <4>1 DEF Logs!Mount, u
      <4> QED
        BY <4>2 DEF Logs!MountWith, Client!MountWith, Logs!Abandoned, Client!Abandoned,
             Logs!Reads, Client!Reads, Logs!Tables, Client!Tables, Logs!Idle, Client!Idle
    <3> QED
      BY <3>1, <3>2
  <2>3. CASE Users!Mount
    <3> DEFINE u == Users!UsersMounted
               call == Client!Call("users", 0, {})
    <3>1. Fresh(u, call)
      BY DEF Fresh
    <3>2. Client!MountWith(u, call)
      <4>1. call = Users!fetchUsers
        BY NewCalls DEF Users!fetchUsers
      <4> HIDE DEF u, call
      <4>2. Users!MountWith(u, call)
        BY <2>3, <4>1 DEF Users!Mount, u
      <4> QED
        BY <4>2 DEF Users!MountWith, Client!MountWith, Users!Abandoned, Client!Abandoned,
             Users!Reads, Client!Reads, Users!Tables, Client!Tables, Users!Idle, Client!Idle
    <3> QED
      BY <3>1, <3>2
  <2>4. CASE Groups!Mount
    <3> DEFINE u == Groups!GroupsMounted
               call == Client!Call("groups", 0, {})
    <3>1. Fresh(u, call)
      BY DEF Fresh
    <3>2. Client!MountWith(u, call)
      <4>1. call = Groups!fetchGroups
        BY NewCalls DEF Groups!fetchGroups
      <4> HIDE DEF u, call
      <4>2. Groups!MountWith(u, call)
        BY <2>4, <4>1 DEF Groups!Mount, u
      <4> QED
        BY <4>2 DEF Groups!MountWith, Client!MountWith, Groups!Abandoned, Client!Abandoned,
             Groups!Reads, Client!Reads, Groups!Tables, Client!Tables, Groups!Idle, Client!Idle
    <3> QED
      BY <3>1, <3>2
  <2>5. CASE Ranges!Mount
    <3> DEFINE u == Ranges!RangesMounted
               call == Client!Call("ranges", 0, {})
    <3>1. Fresh(u, call)
      BY DEF Fresh
    <3>2. Client!MountWith(u, call)
      <4>1. call = Ranges!fetchRanges
        BY NewCalls DEF Ranges!fetchRanges
      <4> HIDE DEF u, call
      <4>2. Ranges!MountWith(u, call)
        BY <2>5, <4>1 DEF Ranges!Mount, u
      <4> QED
        BY <4>2 DEF Ranges!MountWith, Client!MountWith, Ranges!Abandoned, Client!Abandoned,
             Ranges!Reads, Client!Reads, Ranges!Tables, Client!Tables, Ranges!Idle, Client!Idle
    <3> QED
      BY <3>1, <3>2
  <2> QED
    BY <2>1, <2>2, <2>3, <2>4, <2>5 DEF Navigate
<1>2. PICK u, call : Fresh(u, call) /\ Client!MountWith(u, call)
  BY <1>1
<1>3. /\ ui' = u /\ db' = db
      /\ \E c \in Conns : /\ DOMAIN net' = Conns /\ net'[c] = call
                          /\ \A d \in Conns \ {c} : GivenUp(d)
  BY <1>2, MountEffect
<1> QED
  BY <1>2, <1>3 DEF Mounted

\* What is true of every page that has just been mounted.
LEMMA FreshGood ==
  ASSUME NEW b, DbOK(b), NEW u, NEW call, Fresh(u, call)
  PROVE  /\ Good(call, b) /\ UiOK(u) /\ Shown(u, b) /\ (call.op = "poll" => u.page = "dashboard")
         /\ u.page = "groups" => ~u.saving /\ u.editing = 0
         /\ u.page = "logs" => u.filter = NoFilter /\ u.offset = 0
         /\ call.phase = "sent"
         /\ call.op \in {"poll", "logs", "users", "groups", "ranges"}
         /\ call.op = "logs" => call.arg = {NoFilter} /\ call.id = 0
<1>1. Good(call, b)
  BY NewGood, PanelAssumption DEF Fresh
<1>2. \A op, id, arg : /\ Client!Call(op, id, arg).op = op /\ Client!Call(op, id, arg).id = id
                       /\ Client!Call(op, id, arg).arg = arg
                       /\ Client!Call(op, id, arg).phase = "sent"
  BY DEF Client!Call
<1>3. /\ call.phase = "sent" /\ call.op \in {"poll", "logs", "users", "groups", "ranges"}
      /\ call.op = "logs" => call.arg = {NoFilter} /\ call.id = 0
  BY <1>2 DEF Fresh
<1>4. b.nextGroup \in Nat /\ 1 < b.nextGroup
  BY DbInts DEF DbOK
<1>5. CASE u = Dashboard!DashboardMounted /\ call = Client!Call("poll", 0, {})
  BY <1>1, <1>3, <1>5 DEF UiOK, Shown, DashboardUi, Dashboard!DashboardMounted
<1>6. CASE u = Logs!LogsMounted /\ call = Client!Call("logs", 0, {NoFilter})
  <2>1. u \in LogsUi
    BY <1>6, PanelAssumption DEF LogsUi, Logs!LogsMounted
  <2> QED
    BY <1>1, <1>2, <1>3, <1>6, <2>1 DEF UiOK, Shown, Logs!LogsMounted
<1>7. CASE u = Users!UsersMounted /\ call = Client!Call("users", 0, {})
  BY <1>1, <1>2, <1>3, <1>7 DEF UiOK, Shown, UsersUi, Users!UsersMounted
<1>8. CASE u = Groups!GroupsMounted /\ call = Client!Call("groups", 0, {})
  BY <1>1, <1>2, <1>3, <1>8 DEF UiOK, Shown, GroupsUi, Groups!GroupsMounted
<1>9. CASE u = Ranges!RangesMounted /\ call = Client!Call("ranges", 0, {})
  BY <1>1, <1>2, <1>3, <1>4, <1>9, IdsNat DEF UiOK, Shown, RangesUi, Ranges!RangesMounted
<1> QED
  BY <1>5, <1>6, <1>7, <1>8, <1>9 DEF Fresh

-----------------------------------------------------------------------------
(* The types, and what the calls and the pages hold of the rows.           *)

\* The steps of the dashboard, by what they do.
LEMMA Steps ==
  ASSUME TypeInv, [Next]_vars
  PROVE  \/ \E c \in Conns : Mounted(c)
         \/ \E c \in Conns : Polled(c) \/ \E p, got : Served(c, p, got)
         \/ PageStep
         \/ UNCHANGED vars
  BY MountMounts, ServerServes DEF TypeInv, Next

LEMMA PageMoves ==
  ASSUME TypeInv, PageStep
  PROVE  \E ops : PageGood(ops) /\ ("poll" \in ops => ui.page = "dashboard")
  BY DashboardMoves, LogsMoves, UsersMoves, GroupsMoves, RangesMoves DEF PageStep, GroupsOps

LEMMA NextTypeInv == TypeInv /\ [Next]_vars => TypeInv'
<1> SUFFICES ASSUME TypeInv, [Next]_vars PROVE TypeInv'
  OBVIOUS
<1>1. ASSUME NEW c \in Conns, Mounted(c) PROVE TypeInv'
  <2>1. /\ db' = db /\ DOMAIN net' = Conns /\ Fresh(ui', net'[c])
        /\ \A d \in Conns \ {c} : GivenUp(d)
    BY <1>1 DEF Mounted
  <2>2. DbOK(db')
    BY <2>1 DEF TypeInv
  <2>3. /\ Good(net'[c], db') /\ UiOK(ui') /\ Shown(ui', db')
        /\ net'[c].op = "poll" => ui'.page = "dashboard"
    BY <2>1, <2>2, FreshGood
  <2>4. NetOK'
    <3>1. ASSUME NEW d \in Conns \ {c} PROVE Good(net'[d], db')
      BY <2>1, GivenUpGood DEF TypeInv, NetOK
    <3> QED
      BY <2>1, <2>3, <3>1 DEF NetOK
  <2>5. Polls'
    <3>1. ASSUME NEW d \in Conns \ {c} PROVE net'[d].op # "poll"
      BY <2>1 DEF GivenUp, Client!Idle, Client!Reads
    <3> QED
      BY <2>3, <3>1 DEF Polls
  <2> QED
    BY <2>2, <2>3, <2>4, <2>5 DEF TypeInv
<1>2. ASSUME NEW c \in Conns, NEW p, NEW got, Served(c, p, got) PROVE TypeInv'
  <2>1. DbOK(db') /\ Grows(db, db') /\ ui' = ui /\ Others(c)
    BY <1>2 DEF Served
  <2>2. NetOK'
    BY <1>2, <2>1, ServedGood, NetStep DEF TypeInv
  <2>3. UiOK(ui') /\ Shown(ui', db')
    BY <2>1, GrowsShown DEF TypeInv
  <2>4. net'[c].op = net[c].op \/ net'[c].op = "idle"
    BY <1>2 DEF Served, Answered, Client!Idle
  <2>5. Polls'
    BY <2>1, <2>4 DEF TypeInv, Polls, Others, SameCall
  <2> QED
    BY <2>1, <2>2, <2>3, <2>5 DEF TypeInv
<1>3. ASSUME NEW c \in Conns, Polled(c) PROVE TypeInv'
  <2>1. /\ db' = db /\ ui' = ui /\ Others(c) /\ Good(net'[c], db)
        /\ net[c].op = "poll"
    BY <1>3 DEF Polled
  <2>2. NetOK'
    BY <2>1, GrowsSelf, NetStep DEF TypeInv
  <2>3. Polls'
    BY <2>1 DEF TypeInv, Polls, Others, SameCall
  <2> QED
    BY <2>1, <2>2, <2>3 DEF TypeInv
<1>4. CASE PageStep
  <2>1. PICK ops : PageGood(ops) /\ ("poll" \in ops => ui.page = "dashboard")
    BY <1>4, PageMoves
  <2>2. db' = db /\ Moved(ops) /\ UiOK(ui') /\ Shown(ui', db)
    BY <2>1 DEF PageGood, Moved
  <2> QED
    BY <2>1, <2>2, MovedNet, MovedPolls DEF TypeInv
<1>5. CASE UNCHANGED vars
  BY <1>5 DEF vars, TypeInv, NetOK, Polls
<1> QED
  BY <1>1, <1>2, <1>3, <1>4, <1>5, Steps

LEMMA InitTypeInv == Init => TypeInv
<1> SUFFICES ASSUME Init PROVE TypeInv
  OBVIOUS
<1>1. DbOK(db)
  <2>1. 2 \in 1 .. MaxGroups + 1 /\ 1 \in 1 .. MaxRanges + 1 /\ {1} \subseteq Ids
    BY PanelAssumption DEF Ids, Groups!Ids
  <2> QED
    BY <2>1 DEF Init, DbOK, Ids, Groups!Ids
<1>2. PICK c \in Conns :
        net = [[d \in Conns |-> Dashboard!Idle] EXCEPT ![c] = Dashboard!fetchData]
  BY DEF Init
<1>3. \A d \in Conns : net[d] = Client!Idle \/ net[d] = Client!Call("poll", 0, {})
  BY <1>2, NewCalls DEF Dashboard!Idle, Dashboard!fetchData, Client!Idle
<1>4. NetOK
  BY <1>2, <1>3, IdleGood, NewGood DEF NetOK
<1>5. UiOK(ui) /\ Shown(ui, db) /\ ui.page = "dashboard"
  BY DEF Init, Dashboard!DashboardMounted, UiOK, Shown, DashboardUi
<1> QED
  BY <1>1, <1>4, <1>5 DEF TypeInv, Polls

LEMMA TypeInvHolds == Spec => []TypeInv
  BY InitTypeInv, NextTypeInv, PTL DEF Spec

\* Every page, every call's effect on it and every row of the server keeps its
\* type, whichever pages are mounted and left while calls are under way
\* (App.tsx, MainLayout.tsx, client.ts).
THEOREM TypeCorrect == Spec => []PanelTypeOK
<1>1. TypeInv => PanelTypeOK
  <2> SUFFICES ASSUME TypeInv PROVE PanelTypeOK
    OBVIOUS
  <2> USE DEF TypeInv, Ids
  <2>1. db \in [groups : SUBSET Ids, nextGroup : 1 .. MaxGroups + 1,
                policies : [Ids -> SUBSET Category],
                ranges : SUBSET RangeRows, nextRange : 1 .. MaxRanges + 1,
                users : SUBSET Names]
    BY DEF DbOK
  <2>2. CASE ui \in DashboardUi
    <3>1. ui.page = "dashboard"
      BY <2>2 DEF DashboardUi
    <3> QED
      BY <2>1, <2>2, <3>1 DEF PanelTypeOK, DashboardUi
  <2>3. CASE ui \in LogsUi
    <3>1. ui.page = "logs"
      BY <2>3 DEF LogsUi
    <3> QED
      BY <2>1, <2>3, <3>1 DEF PanelTypeOK, LogsUi
  <2>4. CASE ui \in UsersUi
    <3>1. ui.page = "users"
      BY <2>4 DEF UsersUi
    <3> QED
      BY <2>1, <2>4, <3>1 DEF PanelTypeOK, UsersUi
  <2>5. CASE ui \in GroupsUi
    <3>1. ui.page = "groups"
      BY <2>5 DEF GroupsUi
    <3> QED
      BY <2>1, <2>5, <3>1 DEF PanelTypeOK, GroupsUi
  <2>6. CASE ui \in RangesUi
    <3>1. ui.page = "ranges"
      BY <2>6 DEF RangesUi
    <3> QED
      BY <2>1, <2>6, <3>1 DEF PanelTypeOK, RangesUi
  <2> QED
    BY <2>2, <2>3, <2>4, <2>5, <2>6 DEF UiOK
<1> QED
  BY <1>1, TypeInvHolds, PTL

\* A range never lands in another group than the one the user saw selected,
\* however groups are deleted meanwhile (Ranges.tsx 26, 54-66, 95-103).
THEOREM RangesLandAsShown == Spec => []RangeAsShown
<1>1. TypeInv => RangeAsShown
  BY DEF TypeInv, NetOK, Good, Meant, AsShown, RangeAsShown, Ranges!RangeAsShown
<1> QED
  BY <1>1, TypeInvHolds, PTL

-----------------------------------------------------------------------------
(* The query of the log.                                                   *)

\* The call asks for what is set on the page u, if it is its newest fetch.
Asks(call, u) ==
  u.page = "logs" /\ call.op = "logs" /\ call.newest =>
    call.arg = {u.filter} /\ call.id = u.offset

AsksInv == \A c \in Conns : Asks(net[c], ui)

LEMMA NextAsksInv == TypeInv /\ AsksInv /\ [Next]_vars => AsksInv'
<1> SUFFICES ASSUME TypeInv, AsksInv, [Next]_vars PROVE AsksInv'
  OBVIOUS
<1>1. NetOK
  BY DEF TypeInv
\* A step on c that leaves the query of the page alone.
<1>2. ASSUME NEW c \in Conns, Others(c), Asks(net'[c], ui'),
             ui'.page = "logs" => /\ ui.page = "logs"
                                  /\ ui'.filter = ui.filter /\ ui'.offset = ui.offset
      PROVE  AsksInv'
  <2>1. ASSUME NEW d \in Conns \ {c} PROVE Asks(net'[d], ui')
    BY <1>2 DEF AsksInv, Asks, Others, SameCall
  <2> QED
    BY <1>2, <2>1 DEF AsksInv
<1>3. ASSUME NEW c \in Conns, Mounted(c) PROVE AsksInv'
  <2>1. Fresh(ui', net'[c]) /\ DbOK(db)
    BY <1>3 DEF Mounted, TypeInv
  <2>2. Asks(net'[c], ui')
    BY <2>1, FreshGood DEF Asks
  <2>3. ASSUME NEW d \in Conns \ {c} PROVE Asks(net'[d], ui')
    <3>1. net'[d].op # "logs"
      BY <1>3 DEF Mounted, GivenUp, Client!Idle, Client!Reads, Client!Tables
    <3> QED
      BY <3>1 DEF Asks
  <2> QED
    BY <2>2, <2>3 DEF AsksInv
<1>4. ASSUME NEW c \in Conns, Polled(c) PROVE AsksInv'
  <2>1. Others(c) /\ ui' = ui /\ net'[c].op = "poll"
    BY <1>4 DEF Polled
  <2> QED
    BY <1>2, <2>1 DEF Asks
<1>5. ASSUME NEW c \in Conns, NEW p, NEW got, Served(c, p, got) PROVE AsksInv'
  <2>1. Others(c) /\ ui' = ui /\ Answered(c, p, got)
    BY <1>5 DEF Served
  <2>2. Asks(net'[c], ui)
    <3>1. CASE net'[c] = Client!Idle
      BY <3>1 DEF Asks, Client!Idle
    <3>2. CASE net'[c] # Client!Idle
      BY <2>1, <3>2 DEF AsksInv, Asks, Answered
    <3> QED
      BY <3>1, <3>2
  <2> QED
    BY <1>2, <2>1, <2>2
<1>6. ASSUME NEW c \in Conns, NEW filter, NEW offset, Logs!Query(c, filter, offset), ui \in LogsUi
      PROVE  AsksInv'
  <2> DEFINE call == Client!Call("logs", offset, {filter})
  <2>1. Issued(c, call)
    BY <1>1, <1>6, LogsClient, NewCalls DEF Logs!Query, Logs!fetchLogs
  <2>2. ui'.filter = filter /\ ui'.offset = offset
    BY <1>6 DEF Logs!Query, LogsUi
  <2>3. call.op = "logs" /\ call.arg = {filter} /\ call.id = offset
    BY DEF Client!Call
  <2> HIDE DEF call
  <2>4. Asks(net'[c], ui')
    BY <2>1, <2>2, <2>3 DEF Issued, Asks
  <2>5. ASSUME NEW d \in Conns \ {c} PROVE Asks(net'[d], ui')
    BY <2>1, <2>3 DEF Issued, Asks
  <2> QED
    BY <2>4, <2>5 DEF AsksInv
<1>7. CASE Logs!PageStep
  <2>1. ui.page = "logs"
    BY <1>7 DEF Logs!PageStep
  <2>2. ui \in LogsUi
    BY <2>1 DEF TypeInv, UiOK, DashboardUi, UsersUi, GroupsUi, RangesUi
  <2>3. PICK c \in Conns :
          \/ \E filter, offset : Logs!Query(c, filter, offset)
          \/ Logs!fetchLogsEnds(c)
    BY <1>7 DEF Logs!PageStep, Logs!SetFilter, Logs!Search, Logs!Previous, Logs!NextPage
  <2>4. CASE Logs!fetchLogsEnds(c)
    <3>1. Ended(c, "logs")
      BY <1>1, <2>4, LogsClient DEF Logs!fetchLogsEnds
    <3>2. ui'.filter = ui.filter /\ ui'.offset = ui.offset
      BY <2>2, <2>4 DEF Logs!fetchLogsEnds, LogsUi
    <3>3. Others(c) /\ net'[c].op # "logs"
      BY <3>1 DEF Ended, GivenUp, Client!Idle, Client!Reads, Client!Tables
    <3> QED
      BY <1>2, <2>1, <3>2, <3>3 DEF Asks
  <2> QED
    BY <1>6, <2>2, <2>3, <2>4
<1>8. CASE PageStep /\ ~Logs!PageStep
  <2>1. ui.page # "logs" /\ ui'.page = ui.page
    BY <1>8, DashboardMoves, UsersMoves, GroupsMoves, RangesMoves
       DEF PageStep, PageGood, Moved
  <2> QED
    BY <2>1 DEF AsksInv, Asks
<1>9. CASE UNCHANGED vars
  BY <1>9 DEF vars, AsksInv
<1> QED
  BY <1>3, <1>4, <1>5, <1>7, <1>8, <1>9, Steps

\* For any filters, page size and log, the newest fetch of the Logs page asks
\* for the filters and the offset that are set (Logs.tsx 98-100, 121-151,
\* 202-213).
THEOREM LogFollowsItsFields == Spec => []LogsAskWhatIsSet
<1>1. Init => AsksInv
  BY DEF Init, AsksInv, Asks, Dashboard!DashboardMounted
<1>2. AsksInv => LogsAskWhatIsSet
  BY DEF AsksInv, Asks, LogsAskWhatIsSet, Logs!LogsAskWhatIsSet
<1> QED
  BY <1>1, <1>2, TypeInvHolds, NextAsksInv, PTL DEF Spec

-----------------------------------------------------------------------------
(* The tables.                                                             *)

\* The call is the newest fetch of the table op, and answered in full or with a
\* part of the rows.
Answers(call, op) == call.op = op /\ call.newest /\ call.phase \in {"done", "part"}

\* What the call says of the rows b agrees with what the page u was told.
Agrees(call, u, b) ==
  /\ u.page = "users" /\ Answers(call, "users") /\ call.phase = "done" =>
       u.known \cap b.users \subseteq call.got
  /\ u.page = "groups" /\ Answers(call, "groups") =>
       /\ call.phase = "done" => u.known \cap b.groups \subseteq call.got
       /\ u.gone \cap call.got = {}
  /\ u.page = "ranges" /\ Answers(call, "ranges") /\ call.phase = "done" =>
       u.known \cap b.ranges \subseteq call.got

AgreesInv == \A c \in Conns : Agrees(net[c], ui, db)

LEMMA SentAgrees ==
  ASSUME NEW call, NEW u, NEW b, call.phase \notin {"done", "part"} PROVE Agrees(call, u, b)
  BY DEF Agrees, Answers

\* Of the rows a page was told of, none appears later: ids are not handed out again.
LEMMA GrowsAgrees ==
  ASSUME NEW a, NEW b, DbOK(a), DbOK(b), Grows(a, b), NEW u, UiOK(u), Shown(u, a),
         NEW x, NEW y, SameCall(x, y), Agrees(y, u, a)
  PROVE  Agrees(x, u, b)
<1>1. \A op : Answers(x, op) => Answers(y, op)
  BY DEF SameCall, Answers
<1>2. x.got = y.got /\ x.phase = y.phase
  BY DEF SameCall
<1>3. u.page = "users" => u.known \cap b.users \subseteq u.known \cap a.users
  BY DEF Shown
<1>4. u.page = "groups" => u.known \cap b.groups \subseteq u.known \cap a.groups
  BY DEF Shown, Grows
<1>5. u.page = "ranges" => u.known \cap b.ranges \subseteq u.known \cap a.ranges
  BY DEF Shown, Grows
<1> QED
  BY <1>1, <1>2, <1>3, <1>4, <1>5 DEF Agrees

\* A page step keeps or clears what the page was told, or fetches the table.
Told == /\ ui'.known = ui.known \/ ui'.known = {}
        /\ ui'.gone = ui.gone \/ ui'.gone = {}

Refetched(op) == \E c \in Conns : Issued(c, Client!Call(op, 0, {}))

LEMMA UsersTold ==
  ASSUME TypeInv, Users!PageStep PROVE Told \/ Refetched("users")
<1>1. NetOK
  BY DEF TypeInv
<1>2. ui \in UsersUi
  BY DEF TypeInv, Users!PageStep, UiOK, DashboardUi, LogsUi, GroupsUi, RangesUi
<1>3. PICK c \in Conns : \/ Users!fetchUsersEnds(c) \/ Users!handleCreateEnds(c)
                         \/ \E username \in Names : Users!handleCreate(c, username)
  BY DEF Users!PageStep
<1>4. CASE Users!fetchUsersEnds(c)
  <2>1. \/ ui' = ui
        \/ ui' = [ui EXCEPT !.rows = net[c].got,
                            !.known = IF net[c].newest THEN {} ELSE @,
                            !.gone = IF net[c].newest THEN {} ELSE @]
    BY <1>4 DEF Users!fetchUsersEnds, Users!TableEnds
  <2> QED
    BY <1>2, <2>1 DEF Told, UsersUi
<1>5. CASE Users!handleCreateEnds(c)
  <2>1. UNCHANGED ui \/ net' = Users!Issue(net, c, Users!fetchUsers)
    BY <1>5 DEF Users!handleCreateEnds
  <2> QED
    BY <1>1, <2>1, UsersClient, NewCalls DEF Told, Refetched, Users!fetchUsers
<1>6. CASE \E username \in Names : Users!handleCreate(c, username)
  BY <1>6 DEF Told, Users!handleCreate
<1> QED
  BY <1>3, <1>4, <1>5, <1>6

LEMMA RangesTold ==
  ASSUME TypeInv, Ranges!PageStep PROVE Told \/ Refetched("ranges")
<1>1. NetOK
  BY DEF TypeInv
<1>2. ui \in RangesUi
  BY DEF TypeInv, Ranges!PageStep, UiOK, DashboardUi, LogsUi, GroupsUi, UsersUi
<1>3. ASSUME NEW c \in Conns, Ranges!fetchRangesEnds(c) PROVE Told
  <2>1. \/ ui' = ui
        \/ ui' = [ui EXCEPT !.rows = net[c].got,
                            !.known = IF net[c].newest THEN {} ELSE @,
                            !.gone = IF net[c].newest THEN {} ELSE @]
    BY <1>3 DEF Ranges!fetchRangesEnds, Ranges!TableEnds
  <2> QED
    BY <1>2, <2>1 DEF Told, RangesUi
<1>4. ASSUME NEW c \in Conns, Ranges!handleCreateEnds(c) PROVE Told \/ Refetched("ranges")
  <2>1. UNCHANGED ui \/ net' = Ranges!Issue(net, c, Ranges!fetchRanges)
    BY <1>4 DEF Ranges!handleCreateEnds
  <2> QED
    BY <1>1, <2>1, RangesClient, NewCalls DEF Told, Refetched, Ranges!fetchRanges
<1>5. ASSUME NEW c \in Conns, Ranges!handleCreate(c) PROVE Told
  BY <1>5 DEF Told, Ranges!handleCreate
<1>6. ASSUME Ranges!fetchGroups \/ \E g \in ui.groups : Ranges!setGroupId(g) PROVE Told
  BY <1>2, <1>6 DEF Told, Ranges!fetchGroups, Ranges!setGroupId, RangesUi
<1> QED
  BY <1>3, <1>4, <1>5, <1>6 DEF Ranges!PageStep

LEMMA GroupsTold ==
  ASSUME TypeInv, Groups!PageStep PROVE Told \/ Refetched("groups")
<1>1. NetOK
  BY DEF TypeInv
<1>2. ui \in GroupsUi
  BY DEF TypeInv, Groups!PageStep, UiOK, DashboardUi, LogsUi, RangesUi, UsersUi
<1>3. ASSUME NEW c \in Conns, Groups!fetchGroupsEnds(c) PROVE Told
  <2>1. \/ ui' = ui
        \/ ui' = [ui EXCEPT !.rows = net[c].got,
                            !.known = IF net[c].newest THEN {} ELSE @,
                            !.gone = IF net[c].newest THEN {} ELSE @]
    BY <1>3 DEF Groups!fetchGroupsEnds, Groups!TableEnds
  <2> QED
    BY <1>2, <2>1 DEF Told, GroupsUi
<1>4. ASSUME NEW c \in Conns, Groups!handleCreateEnds(c) \/ Groups!handleDeleteEnds(c)
      PROVE  Told \/ Refetched("groups")
  <2>1. UNCHANGED ui \/ net' = Groups!Issue(net, c, Groups!fetchGroups)
    BY <1>4 DEF Groups!handleCreateEnds, Groups!handleDeleteEnds
  <2> QED
    BY <1>1, <2>1, GroupsClient, NewCalls DEF Told, Refetched, Groups!fetchGroups
<1>5. ASSUME NEW c \in Conns, NEW id \in Ids,
             Groups!handleCreate(c) \/ Groups!handleDelete(c, id)
      PROVE  Told
  BY <1>5 DEF Told, Groups!handleCreate, Groups!handleDelete
<1>6. ASSUME NEW c \in Conns, NEW id \in Ids, Groups!openPolicy(c, id) \/ Groups!openPolicyEnds(c)
      PROVE  Told
  BY <1>2, <1>6 DEF Told, Groups!openPolicy, Groups!openPolicyEnds, GroupsUi
<1>7. ASSUME NEW c \in Conns, Groups!savePolicy(c) \/ Groups!savePolicyEnds(c) PROVE Told
  BY <1>2, <1>7 DEF Told, Groups!savePolicy, Groups!savePolicyEnds, GroupsUi
<1>8. ASSUME \E cat \in Category : Groups!toggleCategory(cat)
      PROVE  Told
  BY <1>2, <1>8 DEF Told, Groups!toggleCategory, GroupsUi
<1> QED
  BY <1>3, <1>4, <1>5, <1>6, <1>7, <1>8, IdsNat DEF Groups!PageStep, Ids

LEMMA NextAgreesInv == TypeInv /\ AgreesInv /\ [Next]_vars => AgreesInv'
<1> SUFFICES ASSUME TypeInv, AgreesInv, [Next]_vars PROVE AgreesInv'
  OBVIOUS
<1>1. NetOK /\ DbOK(db) /\ UiOK(ui) /\ Shown(ui, db)
  BY DEF TypeInv
<1>2. ASSUME NEW c \in Conns, Mounted(c) PROVE AgreesInv'
  <2>1. Fresh(ui', net'[c])
    BY <1>2 DEF Mounted
  <2>2. net'[c].phase \notin {"done", "part"}
    BY <1>1, <2>1, FreshGood
  <2>3. \A d \in Conns \ {c} : net'[d].phase \notin {"done", "part"}
    BY <1>2 DEF Mounted, GivenUp, Client!Idle
  <2> QED
    BY <2>2, <2>3, SentAgrees DEF AgreesInv
<1>3. ASSUME NEW c \in Conns, Others(c), DbOK(db'), Grows(db, db'), ui' = ui,
             Agrees(net'[c], ui, db')
      PROVE  AgreesInv'
  <2>1. ASSUME NEW d \in Conns \ {c} PROVE Agrees(net'[d], ui, db')
    BY <1>1, <1>3, GrowsAgrees DEF AgreesInv, Others
  <2> QED
    BY <1>3, <2>1 DEF AgreesInv
<1>4. ASSUME NEW c \in Conns, Polled(c) PROVE AgreesInv'
  <2>1. Others(c) /\ ui' = ui /\ db' = db /\ net'[c].op = "poll"
    BY <1>4 DEF Polled
  <2> QED
    BY <1>1, <1>3, <2>1, GrowsSelf DEF Agrees, Answers
<1>5. ASSUME NEW c \in Conns, NEW p, NEW got, Served(c, p, got) PROVE AgreesInv'
  <2>1. /\ Others(c) /\ ui' = ui /\ Answered(c, p, got) /\ DbOK(db') /\ Grows(db, db')
        /\ Result(net[c], p, got, db')
    BY <1>5 DEF Served
  <2>2. Shown(ui, db')
    BY <1>1, <2>1, GrowsShown
  <2>3. Agrees(net'[c], ui, db')
    <3>1. CASE net'[c] = Client!Idle
      BY <3>1, SentAgrees DEF Client!Idle
    <3>2. CASE net'[c] # Client!Idle
      <4>1. net'[c].op = net[c].op /\ net'[c].got = got /\ net'[c].phase = p
        BY <2>1, <3>2 DEF Answered
      <4> QED
        BY <2>1, <2>2, <4>1 DEF Agrees, Answers, Result, Shown
    <3> QED
      BY <3>1, <3>2
  <2> QED
    BY <1>3, <2>1, <2>3
\* The page keeps or clears what it was told.
<1>6. ASSUME NEW ops, Moved(ops), Told PROVE AgreesInv'
  <2>1. db' = db /\ ui'.page = ui.page
    BY <1>6 DEF Moved
  <2>2. ASSUME NEW x, NEW y, SameCall(x, y) \/ x = y, Agrees(y, ui, db)
        PROVE  Agrees(x, ui', db')
    <3>1. /\ x.op = y.op /\ (x.newest => y.newest) /\ x.phase = y.phase
          /\ x.got = y.got
      BY <2>2 DEF SameCall
    <3>2. \A op : Answers(x, op) => Answers(y, op)
      BY <3>1 DEF Answers
    <3> QED
      BY <1>6, <2>1, <2>2, <3>1, <3>2 DEF Agrees, Told
  <2>3. CASE net' = net
    BY <2>2, <2>3 DEF AgreesInv
  <2>4. ASSUME NEW c \in Conns, Others(c), net'[c].phase \notin {"done", "part"}
        PROVE  AgreesInv'
    BY <2>2, <2>4, SentAgrees DEF AgreesInv, Others
  <2>5. ASSUME NEW c \in Conns, NEW op \in ops, Ended(c, op) PROVE AgreesInv'
    <3>1. net'[c].phase \notin {"done", "part"}
      BY <2>5 DEF Ended, GivenUp, Client!Idle
    <3> QED
      BY <2>4, <2>5, <3>1 DEF Ended
  <2>6. ASSUME NEW c \in Conns, NEW call, Issued(c, call), call.phase = "sent" PROVE AgreesInv'
    BY <2>4, <2>6 DEF Issued
  <2> QED
    BY <1>6, <2>3, <2>5, <2>6 DEF Moved
\* The table is fetched: no older fetch is the newest, and the new one is on its way.
<1>7. ASSUME NEW op \in {"users", "groups", "ranges"}, ui'.page = op, Refetched(op)
      PROVE  AgreesInv'
  <2> DEFINE call == Client!Call(op, 0, {})
  <2>1. PICK c \in Conns : Issued(c, call)
    BY <1>7 DEF Refetched
  <2>2. call.phase = "sent" /\ call.op = op
    BY CallOp
  <2> HIDE DEF call
  <2>3. net'[c].phase \notin {"done", "part"}
    BY <2>1, <2>2 DEF Issued
  <2>4. \A d \in Conns \ {c} : net'[d].op = op => ~net'[d].newest
    BY <2>1, <2>2 DEF Issued
  <2>5. ASSUME NEW d \in Conns \ {c} PROVE Agrees(net'[d], ui', db')
    BY <1>7, <2>4 DEF Agrees, Answers
  <2> QED
    BY <2>3, <2>5, SentAgrees DEF AgreesInv
<1>8. CASE Users!PageStep
  BY <1>6, <1>7, <1>8, UsersMoves, UsersTold DEF PageGood, Moved
<1>9. CASE Groups!PageStep
  BY <1>6, <1>7, <1>9, GroupsMoves, GroupsTold DEF PageGood, Moved
<1>10. CASE Ranges!PageStep
  BY <1>6, <1>7, <1>10, RangesMoves, RangesTold DEF PageGood, Moved
<1>11. CASE Dashboard!PageStep \/ Logs!PageStep
  <2>1. ui'.page \in {"dashboard", "logs"}
    BY <1>11, DashboardMoves, LogsMoves DEF PageGood, Moved
  <2> QED
    BY <2>1 DEF AgreesInv, Agrees
<1>12. CASE UNCHANGED vars
  BY <1>12 DEF vars, AgreesInv
<1> QED
  BY <1>2, <1>4, <1>5, <1>8, <1>9, <1>10, <1>11, <1>12, Steps DEF PageStep

\* For any number of rows and of calls under way, the newest fetch of a table
\* brings every row whose creation was confirmed, unless its answer broke off,
\* and in no case one whose removal was (Users.tsx 34-47, Groups.tsx 49-74,
\* Ranges.tsx 54-66, groups.go 22-30, admin.go 67-76, ranges.go 36-44).
THEOREM TablesUpToDate == Spec => []TablesShowConfirmed
<1>1. Init => AgreesInv
  BY DEF Init, AgreesInv, Agrees, Dashboard!DashboardMounted
<1>2. TypeInv /\ AgreesInv => TablesShowConfirmed
  <2> SUFFICES ASSUME TypeInv, AgreesInv, NEW c \in Conns,
                      ui.page \in {"users", "groups", "ranges"}, Answers(net[c], ui.page)
               PROVE  /\ net[c].phase = "done" => ui.known \cap Stored \subseteq net[c].got
                      /\ ui.gone \cap net[c].got = {}
    BY DEF TablesShowConfirmed, Answers
  <2>1. CASE ui.page = "users"
    <3>1. ui.gone = {}
      BY <2>1 DEF TypeInv, UiOK, DashboardUi, LogsUi, UsersUi, GroupsUi, RangesUi
    <3> QED
      BY <2>1, <3>1 DEF AgreesInv, Agrees, Stored
  <2>2. CASE ui.page = "groups"
    BY <2>2 DEF AgreesInv, Agrees, Stored
  <2>3. CASE ui.page = "ranges"
    <3>1. ui.gone = {}
      BY <2>3 DEF TypeInv, UiOK, DashboardUi, LogsUi, UsersUi, GroupsUi, RangesUi
    <3> QED
      BY <2>3, <3>1 DEF AgreesInv, Agrees, Stored
  <2> QED
    BY <2>1, <2>2, <2>3
<1> QED
  BY <1>1, <1>2, TypeInvHolds, NextAgreesInv, PTL DEF Spec

-----------------------------------------------------------------------------
(* The flag of the policy editor.                                          *)

Waits(call) == call.op = "savePolicy" /\ call.live

\* One save is waited for while the flag is set, none otherwise.
SavingInv ==
  ui.page = "groups" =>
    /\ ui.saving => \E c \in Conns : \A d \in Conns : Waits(net[d]) <=> d = c
    /\ ~ui.saving => \A d \in Conns : ~Waits(net[d])

WaitsKept == \A d \in Conns : Waits(net'[d]) <=> Waits(net[d])

LEMMA OthersWait ==
  ASSUME NEW c \in Conns, Others(c)
  PROVE  \A d \in Conns \ {c} : Waits(net'[d]) <=> Waits(net[d])
  BY DEF Others, SameCall, Waits

LEMMA EndedWaits ==
  ASSUME NEW c \in Conns, NEW op, Ended(c, op)
  PROVE  /\ ~Waits(net'[c]) /\ \A d \in Conns \ {c} : Waits(net'[d]) <=> Waits(net[d])
         /\ op # "savePolicy" => WaitsKept
<1>1. \A d \in Conns \ {c} : Waits(net'[d]) <=> Waits(net[d])
  BY OthersWait DEF Ended
<1>2. ~Waits(net'[c])
  BY DEF Ended, GivenUp, Waits, Client!Idle
<1>3. op # "savePolicy" => ~Waits(net[c])
  BY DEF Ended, Waits
<1> QED
  BY <1>1, <1>2, <1>3 DEF WaitsKept

LEMMA IssuedWaits ==
  ASSUME NEW c \in Conns, NEW call, Issued(c, call), net[c].op # "savePolicy"
  PROVE  /\ \A d \in Conns \ {c} : Waits(net'[d]) <=> Waits(net[d])
         /\ call.op # "savePolicy" => WaitsKept
<1>1. \A d \in Conns \ {c} : Waits(net'[d]) <=> Waits(net[d])
  BY OthersWait DEF Issued
<1>2. ~Waits(net[c])
  BY DEF Waits
<1>3. call.op # "savePolicy" => ~Waits(net'[c])
  BY DEF Issued, Waits
<1> QED
  BY <1>1, <1>2, <1>3 DEF WaitsKept

\* The connections are left alone, or a call that is no save ends or is issued.
Quiet ==
  \/ net' = net
  \/ \E c \in Conns : \E op : op # "savePolicy" /\ Ended(c, op)
  \/ \E c \in Conns : \E call :
       /\ Issued(c, call) /\ call.phase = "sent" /\ call.op # "savePolicy"
       /\ net[c].op # "savePolicy"

LEMMA QuietEnded ==
  ASSUME NEW c \in Conns, NEW op, op # "savePolicy", Ended(c, op) PROVE Quiet
  BY DEF Quiet

LEMMA QuietIssued ==
  ASSUME NEW c \in Conns, NEW call, Issued(c, call), call.phase = "sent",
         call.op # "savePolicy", net[c].op # "savePolicy"
  PROVE  Quiet
  BY DEF Quiet

LEMMA QuietWaits == Quiet => WaitsKept
<1>1. net' = net => WaitsKept
  BY DEF WaitsKept
<1> QED
  BY <1>1, EndedWaits, IssuedWaits DEF Quiet

\* The steps of the page that are no part of a save.
LEMMA GroupsQuiet ==
  ASSUME TypeInv, Groups!PageStep
  PROVE  \/ Quiet /\ ui'.saving = ui.saving
         \/ \E c \in Conns : Groups!savePolicy(c) \/ Groups!savePolicyEnds(c)
<1>1. NetOK
  BY DEF TypeInv
<1>2. ui \in GroupsUi
  BY DEF TypeInv, Groups!PageStep, UiOK, DashboardUi, LogsUi, RangesUi, UsersUi
<1> DEFINE Goal == Quiet /\ ui'.saving = ui.saving
<1>3. ASSUME NEW c \in Conns, Groups!fetchGroupsEnds(c) PROVE Goal
  <2>1. Ended(c, "groups")
    BY <1>1, <1>3, GroupsClient DEF Groups!fetchGroupsEnds, Groups!TableEnds
  <2>2. ui'.saving = ui.saving
    BY <1>2, <1>3 DEF Groups!fetchGroupsEnds, Groups!TableEnds, GroupsUi
  <2> QED
    BY <2>1, <2>2, QuietEnded
<1>4. ASSUME NEW c \in Conns, Groups!handleCreateEnds(c) \/ Groups!handleDeleteEnds(c)
      PROVE  Goal
  <2>1. ui'.saving = ui.saving
    BY <1>2, <1>4 DEF Groups!handleCreateEnds, Groups!handleDeleteEnds, GroupsUi
  <2>2. CASE Ended(c, "createGroup") \/ Ended(c, "deleteGroup")
    BY <2>1, <2>2, QuietEnded
  <2>3. CASE /\ Groups!Resolved(c, "createGroup") \/ Groups!Resolved(c, "deleteGroup")
             /\ net' = Groups!Issue(net, c, Groups!fetchGroups)
    <3> DEFINE call == Client!Call("groups", 0, {})
    <3>1. Issued(c, call)
      BY <1>1, <2>3, GroupsClient, NewCalls DEF Groups!fetchGroups
    <3>2. call.op = "groups" /\ call.phase = "sent"
      BY CallOp
    <3>3. net[c].op # "savePolicy"
      BY <2>3 DEF Groups!Resolved
    <3> HIDE DEF call
    <3> QED
      BY <2>1, <3>1, <3>2, <3>3, QuietIssued
  <2> QED
    BY <1>1, <1>4, <2>2, <2>3, GroupsClient DEF Groups!handleCreateEnds, Groups!handleDeleteEnds
\* A call that is no save is issued on a free connection.
<1>5. ASSUME NEW c \in Conns, NEW op, NEW id, NEW arg, op # "savePolicy", Groups!Free(c),
             net' = Groups!Issue(net, c, Groups!Call(op, id, arg)), ui' = ui
      PROVE  Goal
  <2> DEFINE call == Client!Call(op, id, arg)
  <2>1. Issued(c, call)
    BY <1>1, <1>5, GroupsClient, NewCalls
  <2>2. call.op = op /\ call.phase = "sent"
    BY CallOp
  <2>3. net[c].op # "savePolicy"
    BY <1>1, <1>5, FreeIdle DEF Groups!Free
  <2> HIDE DEF call
  <2> QED
    BY <1>5, <2>1, <2>2, <2>3, QuietIssued
<1>6. ASSUME NEW c \in Conns, NEW id \in Ids,
             Groups!handleCreate(c) \/ Groups!handleDelete(c, id)
      PROVE  Goal
  <2> HIDE DEF Goal
  <2> QED
    BY <1>5, <1>6 DEF Groups!handleCreate, Groups!handleDelete
<1>7. ASSUME NEW c \in Conns, NEW id \in Ids, Groups!openPolicy(c, id) PROVE Goal
  <2>1. CASE ui' = [ui EXCEPT !.editing = 0] /\ net' = net
    BY <1>2, <2>1 DEF Quiet, GroupsUi
  <2> HIDE DEF Goal
  <2> QED
    BY <1>5, <1>7, <2>1 DEF Groups!openPolicy
<1>8. ASSUME NEW c \in Conns, Groups!openPolicyEnds(c) PROVE Goal
  <2>1. Ended(c, "policy")
    BY <1>1, <1>8, GroupsClient DEF Groups!openPolicyEnds
  <2>2. ui'.saving = ui.saving
    BY <1>2, <1>8 DEF Groups!openPolicyEnds, GroupsUi
  <2> QED
    BY <2>1, <2>2, QuietEnded
<1>9. ASSUME \E cat \in Category : Groups!toggleCategory(cat)
      PROVE  Goal
  BY <1>2, <1>9 DEF Quiet, Groups!toggleCategory, GroupsUi
<1> HIDE DEF Goal
<1>10. Goal \/ \E c \in Conns : Groups!savePolicy(c) \/ Groups!savePolicyEnds(c)
  BY <1>3, <1>4, <1>6, <1>7, <1>8, <1>9, IdsNat DEF Groups!PageStep, Ids
<1> QED
  BY <1>10 DEF Goal

LEMMA NextSavingInv == TypeInv /\ SavingInv /\ [Next]_vars => SavingInv'
<1> SUFFICES ASSUME TypeInv, SavingInv, [Next]_vars PROVE SavingInv'
  OBVIOUS
<1>1. NetOK /\ DbOK(db)
  BY DEF TypeInv
<1>2. ASSUME WaitsKept, ui'.page = ui.page, ui'.saving = ui.saving PROVE SavingInv'
  BY <1>2 DEF SavingInv, WaitsKept
<1>3. ASSUME NEW c \in Conns, Mounted(c) PROVE SavingInv'
  <2>1. Fresh(ui', net'[c])
    BY <1>3 DEF Mounted
  <2>2. /\ ui'.page = "groups" => ~ui'.saving
        /\ net'[c].op # "savePolicy"
    BY <1>1, <2>1, FreshGood
  <2>3. \A d \in Conns \ {c} : ~Waits(net'[d])
    BY <1>3 DEF Mounted, GivenUp, Waits, Client!Idle
  <2> QED
    BY <2>2, <2>3 DEF SavingInv, Waits
<1>4. ASSUME NEW c \in Conns, Polled(c) PROVE SavingInv'
  <2>1. Others(c) /\ ui' = ui /\ net[c].op = "poll" /\ net'[c].op = "poll"
    BY <1>4 DEF Polled
  <2>2. WaitsKept
    BY <2>1, OthersWait DEF WaitsKept, Waits
  <2> QED
    BY <1>2, <2>1, <2>2
<1>5. ASSUME NEW c \in Conns, NEW p, NEW got, Served(c, p, got) PROVE SavingInv'
  <2>1. Others(c) /\ ui' = ui /\ Answered(c, p, got)
    BY <1>5 DEF Served
  <2>2. Waits(net'[c]) <=> Waits(net[c])
    <3>1. CASE net'[c] = Client!Idle /\ ~net[c].live
      BY <3>1 DEF Waits, Client!Idle
    <3>2. CASE net'[c].op = net[c].op /\ net'[c].live = net[c].live
      BY <3>2 DEF Waits
    <3> QED
      BY <2>1, <3>1, <3>2 DEF Answered
  <2>3. WaitsKept
    BY <2>1, <2>2, OthersWait DEF WaitsKept
  <2> QED
    BY <1>2, <2>1, <2>3
<1>6. CASE Groups!PageStep
  <2>1. ui.page = "groups" /\ ui'.page = ui.page
    BY <1>6, GroupsMoves DEF PageGood, Moved
  <2>2. ui \in GroupsUi
    BY <2>1 DEF TypeInv, UiOK, DashboardUi, LogsUi, RangesUi, UsersUi
  <2>3. ASSUME NEW c \in Conns, Groups!savePolicy(c) PROVE SavingInv'
    <3> DEFINE call == Client!Call("savePolicy", ui.editing, ui.draft)
    <3>1. Issued(c, call)
      BY <1>1, <2>3, GroupsClient, NewCalls DEF Groups!savePolicy
    <3>2. call.op = "savePolicy" /\ call.live
      BY DEF Client!Call
    <3>3. net[c].op # "savePolicy"
      BY <1>1, <2>3, FreeIdle DEF Groups!savePolicy, Groups!Free
    <3>4. ~ui.saving /\ ui'.saving
      BY <2>2, <2>3 DEF Groups!savePolicy, GroupsUi
    <3> HIDE DEF call
    <3>5. /\ \A d \in Conns \ {c} : Waits(net'[d]) <=> Waits(net[d])
          /\ Waits(net'[c])
      BY <3>1, <3>2, <3>3, IssuedWaits DEF Issued, Waits
    <3>6. \A d \in Conns : Waits(net'[d]) <=> d = c
      BY <2>1, <3>4, <3>5 DEF SavingInv
    <3> QED
      BY <3>4, <3>6 DEF SavingInv
  <2>4. ASSUME NEW c \in Conns, Groups!savePolicyEnds(c) PROVE SavingInv'
    <3>1. Ended(c, "savePolicy")
      BY <1>1, <2>4, GroupsClient DEF Groups!savePolicyEnds
    <3>2. ~ui'.saving
      BY <2>2, <2>4 DEF Groups!savePolicyEnds, GroupsUi
    <3>3. Waits(net[c])
      BY <3>1 DEF Ended, Waits
    <3>4. \A d \in Conns \ {c} : ~Waits(net[d])
      BY <2>1, <3>3 DEF SavingInv
    <3>5. \A d \in Conns : ~Waits(net'[d])
      BY <3>1, <3>4, EndedWaits
    <3> QED
      BY <3>2, <3>5 DEF SavingInv
  <2> QED
    BY <1>2, <1>6, <2>1, <2>3, <2>4, GroupsQuiet, QuietWaits
<1>7. CASE PageStep /\ ~Groups!PageStep
  <2>1. ui'.page # "groups"
    BY <1>7, DashboardMoves, LogsMoves, UsersMoves, RangesMoves
       DEF PageStep, PageGood, Moved
  <2> QED
    BY <2>1 DEF SavingInv
<1>8. CASE UNCHANGED vars
  BY <1>8 DEF vars, SavingInv
<1> QED
  BY <1>3, <1>4, <1>5, <1>6, <1>7, <1>8, Steps

LEMMA CardinalityOfPage == \A S : Groups!Cardinality(S) = Cardinality(S)
  BY DEF Groups!Cardinality, Cardinality

\* For any number of connections, savingPolicy is set exactly while the page
\* waits for one save, also when the page is left and opened again meanwhile
\* (Groups.tsx 97-109).
THEOREM SavingFlagExact == Spec => []SavingExact
<1>1. Init => SavingInv
  BY DEF Init, SavingInv, Dashboard!DashboardMounted
<1>2. TypeInv /\ SavingInv => SavingExact
  <2> SUFFICES ASSUME TypeInv, SavingInv, ui.page = "groups"
               PROVE  Cardinality({c \in Conns : net[c].op = "savePolicy" /\ net[c].live})
                        = (IF ui.saving THEN 1 ELSE 0)
    BY CardinalityOfPage DEF SavingExact, Groups!SavingExact
  <2> DEFINE waiting == {c \in Conns : net[c].op = "savePolicy" /\ net[c].live}
  <2>1. CASE ui.saving
    <3>1. PICK c \in Conns : \A d \in Conns : Waits(net[d]) <=> d = c
      BY <2>1 DEF SavingInv
    <3>2. waiting = {c}
      BY <3>1 DEF Waits
    <3> QED
      BY <2>1, <3>2, FS_Singleton
  <2>2. CASE ~ui.saving
    <3>1. waiting = {}
      BY <2>2 DEF SavingInv, Waits
    <3> QED
      BY <2>2, <3>1, FS_EmptySet
  <2> QED
    BY <2>1, <2>2
<1> QED
  BY <1>1, <1>2, TypeInvHolds, NextSavingInv, PTL DEF Spec

-----------------------------------------------------------------------------
(* The policy editor implements CategoryEditor.                            *)

\* The answer to openPolicy is there, and a save is on its way to the server.
Fetches(call) ==
  call.op = "policy" /\ call.live /\ call.phase \in {"done", "part"}
Saves(call) == call.op = "savePolicy" /\ call.phase = "sent"

LEMMA EditorView ==
  /\ Groups!Fetched = {[owner |-> net[c].id, cats |-> net[c].got,
                         whole |-> net[c].phase = "done"] :
                         c \in {d \in Conns : Fetches(net[d])}}
  /\ Groups!Sent = {[owner |-> net[c].id, cats |-> net[c].arg] :
                      c \in {d \in Conns : Saves(net[d])}}
  /\ Groups!Fetched' = {[owner |-> net'[c].id, cats |-> net'[c].got,
                          whole |-> net'[c].phase = "done"] :
                          c \in {d \in Conns : Fetches(net'[d])}}
  /\ Groups!Sent' = {[owner |-> net'[c].id, cats |-> net'[c].arg] :
                       c \in {d \in Conns : Saves(net'[d])}}
  BY DEF Groups!Fetched, Groups!Sent, Groups!Resolved, Groups!Serving, Fetches, Saves

\* Of the call y at most x is left for the editor to see.
Left(x, y) ==
  /\ Fetches(x) => Fetches(y) /\ x.id = y.id /\ x.got = y.got /\ x.phase = y.phase
  /\ Saves(x) => Saves(y) /\ x.id = y.id /\ x.arg = y.arg

LEMMA SameLeft ==
  ASSUME NEW x, NEW y, SameCall(x, y) PROVE Left(x, y) /\ Left(y, x)
  BY DEF SameCall, Left, Fetches, Saves

LEMMA NothingNew ==
  ASSUME \A c \in Conns : Left(net'[c], net[c])
  PROVE  Groups!Fetched' \subseteq Groups!Fetched /\ Groups!Sent' \subseteq Groups!Sent
  BY EditorView DEF Left

LEMMA NothingLost ==
  ASSUME \A c \in Conns : Left(net[c], net'[c])
  PROVE  Groups!Fetched \subseteq Groups!Fetched' /\ Groups!Sent \subseteq Groups!Sent'
  BY EditorView DEF Left

LEMMA GivenUpLeft ==
  ASSUME NEW c, GivenUp(c) PROVE Left(net'[c], net[c])
<1>1. CASE net'[c] = Client!Idle
  BY <1>1 DEF Left, Fetches, Saves, Client!Idle
<1>2. CASE net'[c] # Client!Idle
  BY <1>2 DEF GivenUp, Left, Fetches, Saves
<1> QED
  BY <1>1, <1>2

LEMMA QuietLoses ==
  ASSUME Quiet \/ \E c \in Conns : Ended(c, "savePolicy")
  PROVE  Groups!Fetched' \subseteq Groups!Fetched /\ Groups!Sent' \subseteq Groups!Sent
<1>1. CASE net' = net
  <2>1. \A c \in Conns : Left(net'[c], net[c])
    BY <1>1 DEF Left
  <2> QED
    BY <2>1, NothingNew
<1>2. ASSUME NEW c \in Conns, Others(c), Left(net'[c], net[c])
      PROVE  Groups!Fetched' \subseteq Groups!Fetched /\ Groups!Sent' \subseteq Groups!Sent
  BY <1>2, SameLeft, NothingNew DEF Others
<1>3. ASSUME NEW c \in Conns, NEW op, Ended(c, op)
      PROVE  Groups!Fetched' \subseteq Groups!Fetched /\ Groups!Sent' \subseteq Groups!Sent
  BY <1>2, <1>3, GivenUpLeft DEF Ended
<1>4. ASSUME NEW c \in Conns, NEW call, Issued(c, call), call.phase = "sent",
             call.op # "savePolicy"
      PROVE  Groups!Fetched' \subseteq Groups!Fetched /\ Groups!Sent' \subseteq Groups!Sent
  <2>1. Left(net'[c], net[c])
    BY <1>4 DEF Issued, Left, Fetches, Saves
  <2> QED
    BY <1>2, <1>4, <2>1 DEF Issued
<1> QED
  BY <1>1, <1>3, <1>4 DEF Quiet

LEMMA LoseOrClose ==
  ASSUME Groups!Fetched' \subseteq Groups!Fetched, Groups!Sent' \subseteq Groups!Sent,
         db'.policies = db.policies, Groups!Draft' = {} \/ Groups!Draft' = Groups!Draft
  PROVE  Groups!Editor!Next
<1>1. CASE Groups!Draft' = {}
  <2>1. Groups!Editor!Close
    BY <1>1 DEF Groups!Editor!Close, Groups!Editor!MayLose
  <2> QED
    BY <2>1 DEF Groups!Editor!Next
<1>2. CASE Groups!Draft' = Groups!Draft
  <2>1. Groups!Editor!Lose
    BY <1>2 DEF Groups!Editor!Lose, Groups!Editor!MayLose
  <2> QED
    BY <2>1 DEF Groups!Editor!Next
<1> QED
  BY <1>1, <1>2

LEMMA EditorMount ==
  ASSUME TypeInv, NEW c \in Conns, Mounted(c) PROVE Groups!Editor!Next
<1>1. Fresh(ui', net'[c]) /\ DbOK(db) /\ db' = db
  BY DEF Mounted, TypeInv
<1>2. /\ ui'.page = "groups" => ui'.editing = 0
      /\ net'[c].phase = "sent" /\ net'[c].op # "savePolicy"
  BY <1>1, FreshGood
<1>3. Groups!Draft' = {}
  BY <1>2 DEF Groups!Draft, Groups!Onscreen
<1>4. Left(net'[c], net[c])
  BY <1>2 DEF Left, Fetches, Saves
<1>5. \A d \in Conns : Left(net'[d], net[d])
  BY <1>4, GivenUpLeft DEF Mounted
<1> QED
  BY <1>1, <1>3, <1>5, NothingNew, LoseOrClose

\* A page without the editor.
LEMMA EditorElsewhere ==
  ASSUME TypeInv, PageStep, ~Groups!PageStep PROVE Groups!Editor!Next
<1>1. \E ops : Moved(ops) /\ "savePolicy" \notin ops /\ ui.page # "groups"
  BY DashboardMoves, LogsMoves, UsersMoves, RangesMoves DEF PageStep, PageGood
<1>2. PICK ops : Moved(ops) /\ "savePolicy" \notin ops
  BY <1>1
<1>3. Quiet
  BY <1>2 DEF Moved, Quiet
<1>4. Groups!Draft' = {} /\ db' = db
  BY <1>1 DEF Moved, Groups!Draft, Groups!Onscreen
<1> QED
  BY <1>3, <1>4, QuietLoses, LoseOrClose

LEMMA EditorPage ==
  ASSUME TypeInv, Groups!PageStep PROVE Groups!Editor!Next
<1>1. NetOK /\ ui.page = "groups"
  BY DEF TypeInv, Groups!PageStep
<1>2. ui \in GroupsUi
  BY <1>1 DEF TypeInv, UiOK, DashboardUi, LogsUi, RangesUi, UsersUi
<1>3. db' = db /\ ui'.page = "groups"
  BY <1>1, GroupsMoves DEF PageGood, Moved
\* The editor is closed, or shows what it showed.
<1>4. ASSUME Quiet \/ \E c \in Conns : Ended(c, "savePolicy"),
             ui'.editing = 0 \/ (ui'.editing = ui.editing /\ ui'.draft = ui.draft)
      PROVE  Groups!Editor!Next
  <2>1. Groups!Draft' = {} \/ Groups!Draft' = Groups!Draft
    BY <1>1, <1>3, <1>4 DEF Groups!Draft, Groups!Onscreen
  <2> QED
    BY <1>3, <1>4, <2>1, QuietLoses, LoseOrClose
<1>5. ASSUME NEW c \in Conns, Groups!savePolicy(c) PROVE Groups!Editor!Next
  <2> DEFINE call == Client!Call("savePolicy", ui.editing, ui.draft)
  <2>1. Issued(c, call) /\ ui.editing \in ui.rows
    BY <1>1, <1>5, GroupsClient, NewCalls DEF Groups!savePolicy, Groups!EditorShown
  <2>2. /\ call.op = "savePolicy" /\ call.phase = "sent"
        /\ call.id = ui.editing /\ call.arg = ui.draft
    BY DEF Client!Call
  <2>3. net[c].op = "idle"
    BY <1>1, <1>5, FreeIdle DEF Groups!savePolicy, Groups!Free
  <2> HIDE DEF call
  <2>4. /\ Saves(net'[c]) /\ net'[c].id = ui.editing /\ net'[c].arg = ui.draft
        /\ ~Fetches(net'[c]) /\ ~Fetches(net[c]) /\ ~Saves(net[c])
    BY <2>1, <2>2, <2>3 DEF Issued, Saves, Fetches
  <2>5. \A d \in Conns \ {c} : Left(net'[d], net[d]) /\ Left(net[d], net'[d])
    BY <2>1, SameLeft DEF Issued, Others
  <2>6. Groups!Fetched' = Groups!Fetched
    <3>1. Groups!Fetched' \subseteq Groups!Fetched
      BY <2>4, <2>5, EditorView DEF Left
    <3>2. Groups!Fetched \subseteq Groups!Fetched'
      BY <2>4, <2>5, EditorView DEF Left
    <3> QED
      BY <3>1, <3>2
  <2>7. Groups!Draft = {[owner |-> ui.editing, cats |-> ui.draft]}
    <3>1. ui.editing # 0
      BY <1>2, <2>1, IdsNat DEF GroupsUi
    <3> QED
      BY <1>1, <3>1 DEF Groups!Draft, Groups!Onscreen
  <2>8. Groups!Sent' = Groups!Sent \cup Groups!Draft
    <3>1. Groups!Sent' \subseteq Groups!Sent \cup Groups!Draft
      BY <2>4, <2>5, <2>7, EditorView DEF Left
    <3>2. Groups!Sent \subseteq Groups!Sent'
      BY <2>4, <2>5, EditorView DEF Left
    <3>3. Groups!Draft \subseteq Groups!Sent'
      BY <2>4, <2>7, EditorView
    <3> QED
      BY <3>1, <3>2, <3>3
  <2>9. Groups!Draft' = Groups!Draft
    <3>1. ui'.editing = ui.editing /\ ui'.draft = ui.draft
      BY <1>2, <1>5 DEF Groups!savePolicy, GroupsUi
    <3> QED
      BY <1>1, <1>3, <3>1 DEF Groups!Draft, Groups!Onscreen
  <2>10. Groups!Draft # {}
    BY <2>7
  <2>11. Groups!Editor!Save
    BY <1>3, <2>6, <2>8, <2>9, <2>10 DEF Groups!Editor!Save
  <2> QED
    BY <2>11 DEF Groups!Editor!Next
<1>6. ASSUME NEW c \in Conns, Groups!savePolicyEnds(c) PROVE Groups!Editor!Next
  <2>1. Ended(c, "savePolicy")
    BY <1>1, <1>6, GroupsClient DEF Groups!savePolicyEnds
  <2>2. ui'.editing = ui.editing /\ ui'.draft = ui.draft
    BY <1>2, <1>6 DEF Groups!savePolicyEnds, GroupsUi
  <2> QED
    BY <1>4, <2>1, <2>2
<1>7. ASSUME NEW c \in Conns, Groups!openPolicyEnds(c) PROVE Groups!Editor!Next
  <2>1. Ended(c, "policy")
    BY <1>1, <1>7, GroupsClient DEF Groups!openPolicyEnds
  <2>2. Groups!Fetched' \subseteq Groups!Fetched /\ Groups!Sent' \subseteq Groups!Sent
    BY <2>1, QuietEnded, QuietLoses
  <2>3. CASE ui' = ui
    BY <1>4, <2>1, <2>3, QuietEnded
  <2>4. CASE /\ Groups!Resolved(c, "policy")
             /\ ui' = [ui EXCEPT !.draft = net[c].got, !.editing = net[c].id]
    <3> DEFINE v == [owner |-> net[c].id, cats |-> net[c].got,
                     whole |-> net[c].phase = "done"]
    <3>1. v \in Groups!Fetched
      BY <2>4 DEF Groups!Fetched
    <3>2. net[c].id \in Ids
      BY <1>1, <2>1 DEF Ended, NetOK, Good, CallOK
    <3>3. ui'.editing = net[c].id /\ ui'.draft = net[c].got /\ ui'.editing # 0
      BY <1>2, <2>4, <3>2, IdsNat DEF GroupsUi
    <3>4. Groups!Draft' = {[owner |-> v.owner, cats |-> v.cats]}
      BY <1>3, <3>3 DEF Groups!Draft, Groups!Onscreen
    <3> HIDE DEF v
    <3>5. Groups!Editor!Open(v)
      BY <1>3, <2>2, <3>4 DEF Groups!Editor!Open, Groups!Editor!MayLose
    <3> QED
      BY <3>1, <3>5 DEF Groups!Editor!Next
  <2> QED
    BY <1>7, <2>3, <2>4 DEF Groups!openPolicyEnds
<1>8. ASSUME NEW cat \in Category, Groups!toggleCategory(cat) PROVE Groups!Editor!Next
  <2> DEFINE v == [owner |-> ui.editing, cats |-> ui.draft]
             d == IF cat \in ui.draft THEN ui.draft \ {cat} ELSE ui.draft \cup {cat}
  <2>1. /\ ui.editing # 0 /\ ui'.editing = ui.editing /\ ui'.draft = d
        /\ net' = net
    BY <1>2, <1>8, IdsNat DEF Groups!toggleCategory, Groups!EditorShown, GroupsUi
  <2>2. Groups!Draft = {v} /\ Groups!Draft' = {[owner |-> ui.editing, cats |-> d]}
    BY <1>1, <1>3, <2>1 DEF Groups!Draft, Groups!Onscreen
  <2>3. Groups!Draft' = {[owner |-> v.owner,
                          cats |-> IF cat \in v.cats THEN v.cats \ {cat}
                                                     ELSE v.cats \cup {cat}]}
    BY <2>2
  <2>4. Groups!Fetched' = Groups!Fetched /\ Groups!Sent' = Groups!Sent
    BY <2>1, EditorView
  <2> HIDE DEF v, d
  <2>5. Groups!Editor!Toggle(cat)
    BY <1>3, <2>2, <2>3, <2>4 DEF Groups!Editor!Toggle
  <2> QED
    BY <2>5 DEF Groups!Editor!Next
<1>9. ASSUME NEW c \in Conns, NEW id \in Ids,
             \/ Groups!fetchGroupsEnds(c) \/ Groups!handleCreate(c)
             \/ Groups!handleCreateEnds(c) \/ Groups!handleDelete(c, id)
             \/ Groups!handleDeleteEnds(c) \/ Groups!openPolicy(c, id)
      PROVE  ui'.editing = 0 \/ (ui'.editing = ui.editing /\ ui'.draft = ui.draft)
  BY <1>2, <1>9 DEF Groups!fetchGroupsEnds, Groups!TableEnds, Groups!handleCreate,
     Groups!handleCreateEnds, Groups!handleDelete, Groups!handleDeleteEnds, Groups!openPolicy,
     GroupsUi
<1>11. CASE Quiet
  <2>1. \/ ui'.editing = 0 \/ (ui'.editing = ui.editing /\ ui'.draft = ui.draft)
        \/ \E c \in Conns : \/ Groups!savePolicy(c) \/ Groups!savePolicyEnds(c)
                            \/ Groups!openPolicyEnds(c)
        \/ \E cat \in Category : Groups!toggleCategory(cat)
    BY <1>9, IdsNat DEF Groups!PageStep, Ids
  <2> QED
    BY <1>4, <1>5, <1>6, <1>7, <1>8, <1>11, <2>1
<1> QED
  BY <1>5, <1>6, <1>11, GroupsQuiet

\* The server answers a call the editor does not see.
LEMMA Unseen ==
  ASSUME NetOK, NEW c \in Conns, NEW p, NEW got, Settled(c, p, got),
         net[c].op \notin {"policy", "savePolicy"}
  PROVE  Groups!Fetched' = Groups!Fetched /\ Groups!Sent' = Groups!Sent
<1>1. Others(c) /\ Answered(c, p, got)
  BY SettleEffect
<1>2. Left(net'[c], net[c]) /\ Left(net[c], net'[c])
  BY <1>1 DEF Answered, Left, Fetches, Saves, Client!Idle
<1>3. \A d \in Conns : Left(net'[d], net[d]) /\ Left(net[d], net'[d])
  BY <1>1, <1>2, SameLeft DEF Others
<1>4. Groups!Fetched' \subseteq Groups!Fetched /\ Groups!Sent' \subseteq Groups!Sent
  BY <1>3, NothingNew
<1>5. Groups!Fetched \subseteq Groups!Fetched' /\ Groups!Sent \subseteq Groups!Sent'
  BY <1>3, NothingLost
<1> QED
  BY <1>4, <1>5

LEMMA DraftKept == ui' = ui => Groups!Draft' = Groups!Draft
  BY DEF Groups!Draft, Groups!Onscreen

LEMMA UnseenLoses ==
  ASSUME NetOK, NEW c \in Conns, NEW p, NEW got, Settled(c, p, got),
         net[c].op \notin {"policy", "savePolicy"}, ui' = ui, db'.policies = db.policies
  PROVE  Groups!Editor!Next
<1>1. Groups!Fetched' = Groups!Fetched /\ Groups!Sent' = Groups!Sent
  BY Unseen
<1> QED
  BY <1>1, DraftKept, LoseOrClose

\* The handlers of the other pages leave the policies alone.
LEMMA EditorOtherServers ==
  ASSUME TypeInv, Dashboard!ServerStep \/ Logs!ServerStep \/ Users!ServerStep \/ Ranges!ServerStep
  PROVE  Groups!Editor!Next
<1>1. NetOK /\ DbOK(db)
  BY DEF TypeInv
<1>2. CASE Dashboard!ServerStep
  <2>1. PICK c \in Conns : Polled(c)
    BY <1>2, DashboardServer
  <2>2. Others(c) /\ net'[c].op = "poll" /\ ui' = ui /\ db' = db
    BY <2>1 DEF Polled
  <2>3. Left(net'[c], net[c])
    BY <2>2 DEF Left, Fetches, Saves
  <2>4. \A d \in Conns : Left(net'[d], net[d])
    BY <2>2, <2>3, SameLeft DEF Others
  <2> QED
    BY <2>2, <2>4, NothingNew, DraftKept, LoseOrClose
<1>3. CASE Logs!ServerStep
  <2>1. PICK c \in Conns : Logs!GetLogs(c)
    BY <1>3 DEF Logs!ServerStep
  <2>2. PICK total \in 0 .. MaxLogged : Logs!Settle(c, TRUE, {total})
    BY <2>1 DEF Logs!GetLogs
  <2>3. Settled(c, "done", {total})
    BY <2>2 DEF Logs!Settle, Logs!Reply, Logs!Idle, Settled, Client!Idle
  <2>4. net[c].op = "logs" /\ db' = db /\ ui' = ui
    BY <1>3, <2>1 DEF Logs!GetLogs, Logs!Serving, Logs!ServerStep
  <2> QED
    BY <1>1, <2>3, <2>4, UnseenLoses
<1>4. CASE Users!ServerStep
  <2>1. PICK c \in Conns : Users!ListUsers(c) \/ Users!CreateUser(c)
    BY <1>4 DEF Users!ServerStep
  <2>2. \E p, got : Settled(c, p, got)
    <3>1. CASE Users!ListUsers(c)
      <4>1. RowsSettled(c, db.users, SUBSET db.users)
        BY <3>1 DEF Users!ListUsers, Users!SettleRows, Users!Reply, Users!Idle, RowsSettled,
                    Settled, Client!Idle
      <4> QED
        BY <4>1 DEF RowsSettled
    <3>2. CASE Users!CreateUser(c)
      <4> DEFINE ok == net[c].arg \cap db.users = {}
                 p == IF ok THEN "done" ELSE "refused"
                 got == {}
      <4>1. Settled(c, p, got)
        BY <3>2 DEF Users!CreateUser, Users!Settle, Users!Reply, Users!Idle, Settled, Client!Idle
      <4> QED
        BY <4>1
    <3> QED
      BY <2>1, <3>1, <3>2
  <2>4. net[c].op \in {"users", "createUser"} /\ ui' = ui
    BY <1>4, <2>1 DEF Users!ListUsers, Users!CreateUser, Users!Serving, Users!ServerStep
  <2>5. db'.policies = db.policies
    BY <1>1, <2>1 DEF Users!ListUsers, Users!CreateUser, DbOK
  <2> QED
    BY <1>1, <2>2, <2>4, <2>5, UnseenLoses
<1>5. CASE Ranges!ServerStep
  <2>1. PICK c \in Conns : Ranges!ListRanges(c) \/ Ranges!CreateRange(c)
    BY <1>5 DEF Ranges!ServerStep
  <2>2. \E p, got : Settled(c, p, got)
    <3>1. CASE Ranges!ListRanges(c)
      <4>1. RowsSettled(c, db.ranges, {Ranges!RangesUpTo(last) : last \in 0 .. MaxRanges})
        BY <3>1 DEF Ranges!ListRanges, Ranges!SettleRows, Ranges!Reply, Ranges!Idle, RowsSettled,
                    Settled, Client!Idle
      <4> QED
        BY <4>1 DEF RowsSettled
    <3>2. CASE Ranges!CreateRange(c)
      <4> DEFINE ok == net[c].arg.group \in db.groups /\ db.nextRange <= MaxRanges
                 p == IF ok THEN "done" ELSE "refused"
                 got == IF ok THEN {[id |-> db.nextRange, group |-> net[c].arg.group]} ELSE {}
      <4>1. Settled(c, p, got)
        BY <3>2 DEF Ranges!CreateRange, Ranges!Settle, Ranges!Reply, Ranges!Idle, Settled, Client!Idle
      <4> QED
        BY <4>1
    <3> QED
      BY <2>1, <3>1, <3>2
  <2>4. net[c].op \in {"ranges", "createRange"} /\ ui' = ui
    BY <1>5, <2>1 DEF Ranges!ListRanges, Ranges!CreateRange, Ranges!Serving, Ranges!ServerStep
  <2>5. db'.policies = db.policies
    BY <1>1, <2>1 DEF Ranges!ListRanges, Ranges!CreateRange, DbOK
  <2> QED
    BY <1>1, <2>2, <2>4, <2>5, UnseenLoses
<1> QED
  BY <1>2, <1>3, <1>4, <1>5

LEMMA EditorServer ==
  ASSUME TypeInv, Groups!ServerStep
  PROVE  Groups!Editor!Next
<1>1. NetOK /\ DbOK(db)
  BY DEF TypeInv
<1>2. Groups!Draft' = Groups!Draft /\ ui' = ui
  BY DraftKept DEF Groups!ServerStep
<1>3. ASSUME NEW c \in Conns, Groups!ListGroups(c) PROVE Groups!Editor!Next
  <2>1. /\ net[c].op = "groups" /\ db' = db
        /\ RowsSettled(c, db.groups, {Groups!GroupsUpTo(last) : last \in Groups!Ids \cup {0}})
    BY <1>3 DEF Groups!ListGroups, Groups!Serving, Groups!SettleRows, Groups!Reply,
                Groups!Idle, RowsSettled, Settled, Client!Idle
  <2>2. \E p, got : Settled(c, p, got)
    BY <2>1 DEF RowsSettled
  <2> QED
    BY <1>1, <1>2, <2>1, <2>2, UnseenLoses
<1>4. ASSUME NEW c \in Conns, Groups!CreateGroup(c) PROVE Groups!Editor!Next
  <2>1. net[c].op = "createGroup"
    BY <1>4 DEF Groups!CreateGroup, Groups!Serving
  <2>2. \E p, got : Settled(c, p, got)
    <3> DEFINE ok == db.nextGroup \in Groups!Ids
               got == IF ok THEN {db.nextGroup} ELSE {}
               p == IF ok THEN "done" ELSE "refused"
    <3>1. Settled(c, p, got)
      BY <1>4 DEF Groups!CreateGroup, Groups!Settle, Groups!Reply, Groups!Idle, Settled, Client!Idle
    <3> QED
      BY <3>1
  <2>3. db'.policies = db.policies
    BY <1>1, <1>4 DEF Groups!CreateGroup, DbOK
  <2> QED
    BY <1>1, <1>2, <2>1, <2>2, <2>3, UnseenLoses
<1>5. ASSUME NEW c \in Conns, Groups!DeleteGroup(c) PROVE Groups!Editor!Next
  <2>1. /\ net[c].op = "deleteGroup" /\ Settled(c, "done", {})
        /\ db' = [db EXCEPT !.groups = @ \ {net[c].id}, !.policies[net[c].id] = {},
                            !.ranges = {r \in @ : r.group # net[c].id}]
    BY <1>5 DEF Groups!DeleteGroup, Groups!Serving, Groups!Settle, Groups!Reply, Groups!Idle, Settled,
                Client!Idle
  <2>2. net[c].id \in Ids
    BY <1>1, <2>1 DEF NetOK, Good, CallOK
  <2>3. db'.policies = [db.policies EXCEPT ![net[c].id] = {}]
    BY <1>1, <2>1 DEF DbOK
  <2>4. Groups!Fetched' = Groups!Fetched /\ Groups!Sent' = Groups!Sent
    BY <1>1, <2>1, Unseen
  <2>5. Groups!Editor!Remove(net[c].id)
    BY <1>2, <2>3, <2>4 DEF Groups!Editor!Remove
  <2> QED
    BY <2>2, <2>5 DEF Groups!Editor!Next, Ids
<1>6. ASSUME NEW c \in Conns, Groups!GetGroupPolicy(c) PROVE Groups!Editor!Next
  <2> DEFINE cats == db.policies[net[c].id]
             Answer(p, got) == /\ Settled(c, p, got) /\ got \in SUBSET cats
                               /\ p = "done" <=> got = cats
  <2>1. net[c].op = "policy" /\ db' = db /\ RowsSettled(c, cats, SUBSET cats)
    BY <1>6 DEF Groups!GetGroupPolicy, Groups!Serving, Groups!SettleRows, Groups!Reply,
                Groups!Idle, RowsSettled, Settled, Client!Idle
  <2>2. net[c].id \in Ids
    BY <1>1, <2>1 DEF NetOK, Good, CallOK
  <2>a. \E p, got : Answer(p, got)
    <3>1. CASE Settled(c, "done", cats)
      <4>1. Answer("done", cats)
        BY <3>1
      <4> HIDE DEF Answer
      <4> QED
        BY <4>1
    <3>2. ASSUME NEW part \in (SUBSET cats) \ {cats}, Settled(c, "part", part)
          PROVE  \E p, got : Answer(p, got)
      <4>1. Answer("part", part)
        BY <3>2
      <4> HIDE DEF Answer
      <4> QED
        BY <4>1
    <3> QED
      BY <2>1, <3>1, <3>2 DEF RowsSettled
  <2>b. PICK p, got : Answer(p, got)
    BY <2>a
  <2> DEFINE v == [owner |-> net[c].id, cats |-> got, whole |-> got = cats]
  <2>3. /\ Others(c) /\ Answered(c, p, got) /\ got \in SUBSET cats
        /\ (p = "done") = (got = cats)
    BY <1>1, <2>b, SettleEffect
  <2> HIDE DEF Answer, cats
  <2>4. \A d \in Conns \ {c} : Left(net'[d], net[d]) /\ Left(net[d], net'[d])
    BY <2>3, SameLeft DEF Others
  <2>5. /\ ~Saves(net[c]) /\ ~Saves(net'[c])
        /\ Fetches(net'[c]) => /\ net'[c].id = net[c].id /\ net'[c].got = got
                               /\ (net'[c].phase = "done") = (got = cats)
    BY <2>1, <2>3 DEF Answered, Saves, Fetches, Client!Idle
  <2>6. Groups!Fetched' \subseteq Groups!Fetched \cup {v}
    BY <2>4, <2>5, EditorView DEF Left
  <2>7. Groups!Sent' = Groups!Sent
    <3>1. Groups!Sent' \subseteq Groups!Sent
      BY <2>4, <2>5, EditorView DEF Left
    <3>2. Groups!Sent \subseteq Groups!Sent'
      BY <2>4, <2>5, EditorView DEF Left
    <3> QED
      BY <3>1, <3>2
  <2>8. Groups!Editor!Read(net[c].id, got)
    BY <1>2, <2>1, <2>6, <2>7 DEF Groups!Editor!Read, cats
  <2> QED
    BY <2>2, <2>3, <2>8 DEF Groups!Editor!Next, Ids, cats
<1>7. ASSUME NEW c \in Conns, Groups!SetGroupPolicy(c) PROVE Groups!Editor!Next
  <2> DEFINE v == [owner |-> net[c].id, cats |-> net[c].arg]
  <2>1. net[c].op = "savePolicy" /\ Saves(net[c])
    BY <1>7 DEF Groups!SetGroupPolicy, Groups!Serving, Saves
  <2>2. \E p : Settled(c, p, {})
    <3> DEFINE p == IF net[c].id \in db.groups \/ net[c].arg = {} THEN "done" ELSE "refused"
    <3>1. Settled(c, p, {})
      BY <1>7 DEF Groups!SetGroupPolicy, Groups!Settle, Groups!Reply, Groups!Idle, Settled, Client!Idle
    <3> QED
      BY <3>1
  <2>3. PICK p : Settled(c, p, {})
    BY <2>2
  <2>4. Others(c) /\ Answered(c, p, {}) /\ p # "sent"
    BY <1>1, <2>3, SettleEffect DEF Settled
  <2>5. ~Saves(net'[c]) /\ ~Fetches(net'[c]) /\ ~Fetches(net[c])
    BY <2>1, <2>4 DEF Answered, Saves, Fetches, Client!Idle
  <2>6. \A d \in Conns \ {c} : Left(net'[d], net[d]) /\ Left(net[d], net'[d])
    BY <2>4, SameLeft DEF Others
  <2>7. Groups!Sent' \subseteq Groups!Sent
    BY <2>5, <2>6, EditorView DEF Left
  <2>8. Groups!Fetched' = Groups!Fetched
    <3>1. Groups!Fetched' \subseteq Groups!Fetched
      BY <2>5, <2>6, EditorView DEF Left
    <3>2. Groups!Fetched \subseteq Groups!Fetched'
      BY <2>5, <2>6, EditorView DEF Left
    <3> QED
      BY <3>1, <3>2
  <2>9. v \in Groups!Sent
    BY <2>1, EditorView
  <2>10. CASE db' = db
    BY <1>2, <2>7, <2>8, <2>10, LoseOrClose
  <2>11. CASE db' = [db EXCEPT !.policies[net[c].id] = net[c].arg]
    <3>1. db'.policies = [db.policies EXCEPT ![v.owner] = v.cats]
      BY <1>1, <2>11 DEF DbOK
    <3> HIDE DEF v
    <3>2. Groups!Editor!Commit(v)
      BY <1>2, <2>7, <2>8, <3>1 DEF Groups!Editor!Commit
    <3> QED
      BY <2>9, <3>2 DEF Groups!Editor!Next
  <2> QED
    BY <1>7, <2>10, <2>11 DEF Groups!SetGroupPolicy
<1> QED
  BY <1>3, <1>4, <1>5, <1>6, <1>7 DEF Groups!ServerStep

\* For any number of connections, groups and categories, and whichever pages are
\* mounted meanwhile, the policy editor with the handlers behind it implements
\* CategoryEditor (Groups.tsx 76-109, handlers.go 564-577, 674-693, policies.go
\* 37-60).
THEOREM PolicyEditorCorrect == Spec => PolicyEditorRefines
<1>1. Init => Groups!Editor!Init
  <2> SUFFICES ASSUME Init
               PROVE  Groups!Editor!Init
    OBVIOUS
  <2>1. PICK c \in Conns :
          net = [[d \in Conns |-> Dashboard!Idle] EXCEPT ![c] = Dashboard!fetchData]
    BY DEF Init
  <2>2. \A d \in Conns : net[d] = Client!Idle \/ net[d] = Client!Call("poll", 0, {})
    BY <2>1, NewCalls DEF Dashboard!Idle, Dashboard!fetchData, Client!Idle
  <2>3. \A d \in Conns : ~Fetches(net[d]) /\ ~Saves(net[d])
    BY <2>2, CallOp DEF Fetches, Saves, Client!Idle
  <2>4. Groups!Fetched = {} /\ Groups!Sent = {}
    BY <2>3, EditorView
  <2>5. Groups!Draft = {}
    BY DEF Init, Groups!Draft, Groups!Onscreen, Dashboard!DashboardMounted
  <2>6. db.policies \in [Groups!Ids -> SUBSET Category]
    BY DEF Init, Groups!Ids
  <2> QED
    BY <2>4, <2>5, <2>6 DEF Groups!Editor!Init
<1>2. TypeInv /\ [Next]_vars => [Groups!Editor!Next]_(Groups!Editor!vars)
  <2> SUFFICES ASSUME TypeInv, [Next]_vars
               PROVE  [Groups!Editor!Next]_(Groups!Editor!vars)
    OBVIOUS
  <2>1. CASE Navigate
    BY <2>1, MountMounts, EditorMount DEF TypeInv
  <2>2. CASE PageStep
    BY <2>2, EditorPage, EditorElsewhere
  <2>3. CASE ServerStep
    BY <2>3, EditorServer, EditorOtherServers DEF ServerStep
  <2>4. CASE UNCHANGED vars
    <3>1. net' = net /\ ui' = ui /\ db' = db
      BY <2>4 DEF vars
    <3>2. Groups!Fetched' = Groups!Fetched /\ Groups!Sent' = Groups!Sent
      BY <3>1, EditorView
    <3> QED
      BY <3>1, <3>2, DraftKept DEF Groups!Editor!vars
  <2> QED
    BY <2>1, <2>2, <2>3, <2>4 DEF Next
<1> QED
  BY <1>1, <1>2, TypeInvHolds, PTL
     DEF Spec, PolicyEditorRefines, Groups!PolicyEditorRefines, Groups!Editor!Spec

=============================================================================
