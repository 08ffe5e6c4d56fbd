-------------------------------- MODULE Panel --------------------------------
(***************************************************************************)
(* The dashboard as the router of src/web/src/App.tsx composes it: one     *)
(* page is mounted at a time, the links of MainLayout.tsx replace it, and  *)
(* calls that were sent before still reach the server.  The pages share    *)
(* the server: a group deleted on the Groups page is gone for the Ranges   *)
(* page.  The Lists page shares no rows with the others and has a          *)
(* specification of its own, as has the session (AdminSession).            *)
(***************************************************************************)
EXTENDS Naturals, FiniteSets

CONSTANTS Conns, MaxGroups, Category, Names, MaxRanges,
          Filters, NoFilter, Limit, MaxLogged

ASSUME PanelAssumption ==
  /\ MaxGroups \in Nat \ {0}
  /\ MaxRanges \in Nat /\ MaxLogged \in Nat /\ Limit \in Nat
  /\ NoFilter \in Filters

VARIABLES ui, net, db

Dashboard == INSTANCE DashboardPage
Logs == INSTANCE LogsPage
Users == INSTANCE UsersPage
Groups == INSTANCE GroupsPage
Ranges == INSTANCE RangesPage

vars == <<ui, net, db>>

Init ==
  /\ ui = Dashboard!DashboardMounted
  /\ \E c \in Conns :
       net = [[d \in Conns |-> Dashboard!Idle] EXCEPT ![c] = Dashboard!fetchData]
  /\ db = [groups |-> {1}, nextGroup |-> 2,
           policies |-> [i \in 1 .. MaxGroups |-> {}],
           ranges |-> {}, nextRange |-> 1, users |-> {}]

\* A link of the navigation bar.
Navigate ==
  Dashboard!Mount \/ Logs!Mount \/ Users!Mount \/ Groups!Mount \/ Ranges!Mount

PageStep ==
  \/ Dashboard!PageStep \/ Logs!PageStep \/ Users!PageStep
  \/ Groups!PageStep \/ Ranges!PageStep

ServerStep ==
  \/ Dashboard!ServerStep \/ Logs!ServerStep \/ Users!ServerStep
  \/ Groups!ServerStep \/ Ranges!ServerStep

Next == Navigate \/ PageStep \/ ServerStep

Spec == Init /\ [][Next]_vars

-----------------------------------------------------------------------------
(* Properties.                                                             *)

RangeRows == [id : 1 .. MaxRanges, group : Groups!Ids]

\* The types of the state of each page and of the rows of the server.
PanelTypeOK ==
  /\ CASE ui.page = "dashboard" ->
            ui \in [page : {"dashboard"}, metrics : BOOLEAN, error : BOOLEAN]
       [] ui.page = "logs" ->
            ui \in [page : {"logs"}, filter : Filters, offset : 0 .. MaxLogged,
                    total : 0 .. MaxLogged,
                    data : [filter : Filters, offset : 0 .. MaxLogged]]
       [] ui.page = "users" ->
            ui \in [page : {"users"}, rows : SUBSET Names, known : SUBSET Names,
                    gone : {{}}]
       [] ui.page = "groups" ->
            ui \in [page : {"groups"}, rows : SUBSET Groups!Ids,
                    editing : Groups!Ids \cup {0}, draft : SUBSET Category,
                    saving : BOOLEAN, known : SUBSET Groups!Ids,
                    gone : SUBSET Groups!Ids]
       [] ui.page = "ranges" ->
            ui \in [page : {"ranges"}, rows : SUBSET RangeRows,
                    groups : SUBSET Groups!Ids, groupId : Groups!Ids,
                    known : SUBSET RangeRows, gone : {{}}]
  /\ db \in [groups : SUBSET Groups!Ids, nextGroup : 1 .. MaxGroups + 1,
             policies : [Groups!Ids -> SUBSET Category],
             ranges : SUBSET RangeRows, nextRange : 1 .. MaxRanges + 1,
             users : SUBSET Names]

\* Groups.tsx 76-109: see GroupsPage.
PolicyEditorRefines == Groups!PolicyEditorRefines

\* Groups.tsx 97-109: see GroupsPage.
SavingExact == Groups!SavingExact

\* Ranges.tsx 54-66: see RangesPage.
RangeAsShown == Ranges!RangeAsShown

\* Logs.tsx 98-100: see LogsPage.
LogsAskWhatIsSet == Logs!LogsAskWhatIsSet

\* The rows of the table that is mounted, as the server has them.
Stored ==
  CASE ui.page = "users" -> db.users
    [] ui.page = "groups" -> db.groups
    [] ui.page = "ranges" -> db.ranges

\* A whole answer to the newest fetch of a table holds every row whose creation
\* was confirmed on that page and the server still has, and no answer, whole or
\* broken off, shows a row whose removal was: handleCreate and handleDelete fetch
\* after their await, never before (Users.tsx 34-47, Groups.tsx 49-74, Ranges.tsx
\* 54-66).  A broken-off answer may lack confirmed rows, since the store does not
\* look at rows.Err (groups.go 22-30, admin.go 67-76, ranges.go 36-44).
TablesShowConfirmed ==
  \A c \in Conns :
    ui.page \in {"users", "groups", "ranges"} /\ net[c].op = ui.page /\ net[c].newest
    => /\ net[c].phase = "done" => ui.known \cap Stored \subseteq net[c].got
       /\ net[c].phase \in {"done", "part"} => ui.gone \cap net[c].got = {}

=============================================================================
