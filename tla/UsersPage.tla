------------------------------ MODULE UsersPage ------------------------------
(***************************************************************************)
(* The Users page (src/web/src/pages/Users.tsx): the table of dashboard    *)
(* users and the form that creates one.  Nothing keeps the form from being *)
(* submitted again while a creation is in flight; the server refuses a     *)
(* user name it already has.                                               *)
(***************************************************************************)
EXTENDS WebClient

CONSTANT Names   \* the user names that are typed

UsersMounted == [page |-> "users", rows |-> {}, known |-> {}, gone |-> {}]

fetchUsers == Call("users", 0, {})

Mount == MountWith(UsersMounted, fetchUsers)

fetchUsersEnds(c) == TableEnds(c, "users")

handleCreate(c, username) ==
  /\ Free(c)
  /\ net' = Issue(net, c, Call("createUser", 0, {username}))
  /\ UNCHANGED <<ui, db>>

handleCreateEnds(c) ==
  /\ \/ /\ Resolved(c, "createUser")
        /\ net' = Issue(net, c, fetchUsers)
        /\ ui' = [ui EXCEPT !.known = @ \cup net[c].arg]
     \/ Rejected(c, "createUser") /\ UNCHANGED ui
  /\ UNCHANGED db

PageStep ==
  /\ ui.page = "users"
  /\ \E c \in Conns :
       \/ fetchUsersEnds(c) \/ handleCreateEnds(c)
       \/ \E username \in Names : handleCreate(c, username)

-----------------------------------------------------------------------------
(* The server.                                                             *)

\* The order of creation is not kept, so any part stands for the first rows.
ListUsers(c) ==
  /\ Serving(c, "users")
  /\ SettleRows(c, db.users, SUBSET db.users)
  /\ UNCHANGED db

CreateUser(c) ==
  /\ Serving(c, "createUser")
  /\ db' = [db EXCEPT !.users = @ \cup net[c].arg]
  /\ Settle(c, net[c].arg \cap db.users = {}, {})

ServerStep == (\E c \in Conns : ListUsers(c) \/ CreateUser(c)) /\ UNCHANGED ui

=============================================================================
