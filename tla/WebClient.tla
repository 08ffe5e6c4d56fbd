----------------------------- MODULE WebClient -----------------------------
(***************************************************************************)
(* What every page of the dashboard (src/web/src/pages) is built on: the   *)
(* calls it has in flight through api/client.ts, and the state of the one  *)
(* component React keeps mounted.                                          *)
(*                                                                         *)
(*   ui   the useState values of the mounted page; they are lost when the  *)
(*        page is left                                                     *)
(*   net  the call each connection of the browser carries                  *)
(*   db   the rows the server stores                                       *)
(*                                                                         *)
(* A call is served once, at any moment after it was sent, and answered at *)
(* any later moment, in no particular order.  The client may also see it   *)
(* fail at any moment; a call it gave up, or whose page was left, may      *)
(* still be on its way to the server ("live" is FALSE then).  "newest" is  *)
(* history, kept for the fetches of a table: none was issued later.        *)
(*                                                                         *)
(* Left out of ui: the message line with its timers, which no handler      *)
(* reads, and the text fields of the forms, which the user may fill in at  *)
(* any time before submitting.                                             *)
(***************************************************************************)
EXTENDS Naturals, FiniteSets

CONSTANT Conns   \* connections of the browser: bounds the calls in flight

VARIABLES ui, net, db

\* The GET routes.  A GET nobody waits for any more has no effect.
Tables == {"users", "groups", "ranges", "logs"}
Reads == Tables \cup {"lists", "policy", "categories", "poll"}

Idle ==
  [op |-> "idle", id |-> 0, arg |-> {}, got |-> {}, phase |-> "idle",
   live |-> FALSE, newest |-> FALSE]

\* api.get, api.post, api.put, api.delete.
Call(op, id, arg) ==
  [op |-> op, id |-> id, arg |-> arg, got |-> {}, phase |-> "sent",
   live |-> TRUE, newest |-> op \in Tables]

Free(c) == net[c].phase = "idle"

\* The connections n after call has been issued on connection c.
Issue(n, c, call) ==
  [d \in Conns |->
     IF d = c THEN call
     ELSE IF n[d].op = call.op THEN [n[d] EXCEPT !.newest = FALSE]
     ELSE n[d]]

\* The server finishes call c with the answer got.
Reply(c, phase, got) ==
  net' = [net EXCEPT ![c] =
            IF net[c].live THEN [net[c] EXCEPT !.phase = phase, !.got = got]
                           ELSE Idle]

\* The server accepts call c with the answer got, or refuses it.
Settle(c, ok, got) == Reply(c, IF ok THEN "done" ELSE "refused", got)

\* The server answers call c with the rows of a query.  The store never looks at
\* rows.Err: a result that breaks off is answered like a whole one, with one of
\* parts.  Only the history tells the two apart ("part").
SettleRows(c, rows, parts) ==
  \/ Reply(c, "done", rows)
  \/ \E part \in parts \ {rows} : Reply(c, "part", part)

Serving(c, op) == net[c].op = op /\ net[c].phase = "sent"

\* The promise of call c resolves.
Resolved(c, op) ==
  net[c].op = op /\ net[c].live /\ net[c].phase \in {"done", "part"}

\* What stays of call c once the client has seen it fail.
Remains(c) ==
  IF net[c].phase = "sent" /\ net[c].op \notin Reads
  THEN {Idle, [net[c] EXCEPT !.live = FALSE]}
  ELSE {Idle}

\* The promise of call c rejects: refused, or the connection broke.
Rejected(c, op) ==
  /\ net[c].op = op /\ net[c].live
  /\ \E r \in Remains(c) : net' = [net EXCEPT ![c] = r]

\* The connections once the mounted page is left: nobody waits any more, but
\* what was sent and changes the server is not called back.
Abandoned ==
  [c \in Conns |->
     IF net[c].phase = "sent" /\ net[c].op \notin Reads
     THEN [net[c] EXCEPT !.live = FALSE]
     ELSE Idle]

\* The fetch of a table ends; on an error the table stays as it is.  ui.known and
\* ui.gone are history: rows whose creation, and whose removal, the server
\* confirmed, until the newest fetch is answered.
TableEnds(c, op) ==
  /\ \/ /\ Resolved(c, op)
        /\ net' = [net EXCEPT ![c] = Idle]
        /\ ui' = [ui EXCEPT !.rows = net[c].got,
                            !.known = IF net[c].newest THEN {} ELSE @,
                            !.gone = IF net[c].newest THEN {} ELSE @]
     \/ Rejected(c, op) /\ UNCHANGED ui
  /\ UNCHANGED db

\* The next page u is mounted, and its effect issues the call.
MountWith(u, call) ==
  /\ ui' = u
  /\ \E c \in Conns :
       /\ Abandoned[c].phase = "idle"
       /\ net' = [Abandoned EXCEPT ![c] = call]
  /\ UNCHANGED db

=============================================================================
