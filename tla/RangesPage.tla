----------------------------- MODULE RangesPage -----------------------------
(***************************************************************************)
(* The IP ranges page (src/web/src/pages/Ranges.tsx): the table of ranges  *)
(* and the form that assigns a range to a group.  ui.groupId is 1 until    *)
(* the user picks a group from the groups fetched when the page was        *)
(* mounted; the groups themselves may be deleted meanwhile.                *)
(***************************************************************************)
EXTENDS WebClient, FiniteSetsExt

CONSTANT MaxRanges   \* bound on the ids: the server refuses to create more

RangesMounted ==
  [page |-> "ranges", rows |-> {}, groups |-> {}, groupId |-> 1,
   known |-> {}, gone |-> {}]

fetchRanges == Call("ranges", 0, {})

Mount == MountWith(RangesMounted, fetchRanges)

fetchRangesEnds(c) == TableEnds(c, "ranges")

\* The groups arrive some time, or never, all of them or, when the result breaks
\* off, those with the least ids.  They are not fetched again, so a late answer
\* is as out of date as an early one: the call is left out of net.
fetchGroups ==
  /\ ui.groups = {}
  /\ \E last \in db.groups :
       ui' = [ui EXCEPT !.groups = {g \in db.groups : g <= last}]
  /\ UNCHANGED <<net, db>>

\* What the select shows: the option of groupId, the first one when there is no
\* such option, and nothing when there are no options.
ShownGroup ==
  IF ui.groupId \in ui.groups THEN ui.groupId
  ELSE IF ui.groups # {} THEN Min(ui.groups) ELSE 0

setGroupId(g) ==
  /\ g \in ui.groups \ {ShownGroup}
  /\ ui' = [ui EXCEPT !.groupId = g]
  /\ UNCHANGED <<net, db>>

\* "shown" is history: the group the user saw selected.
handleCreate(c) ==
  /\ Free(c)
  /\ net' = Issue(net, c, Call("createRange", 0,
                    [group |-> ui.groupId, shown |-> ShownGroup]))
  /\ UNCHANGED <<ui, db>>

handleCreateEnds(c) ==
  /\ \/ /\ Resolved(c, "createRange")
        /\ net' = Issue(net, c, fetchRanges)
        /\ ui' = [ui EXCEPT !.known = @ \cup net[c].got]
     \/ Rejected(c, "createRange") /\ UNCHANGED ui
  /\ UNCHANGED db

PageStep ==
  /\ ui.page = "ranges"
  /\ \/ \E c \in Conns :
          fetchRangesEnds(c) \/ handleCreate(c) \/ handleCreateEnds(c)
     \/ \E g \in ui.groups : setGroupId(g)
     \/ fetchGroups

-----------------------------------------------------------------------------
(* The server.                                                             *)

\* The rows come in the order of their ids.
RangesUpTo(last) == {r \in db.ranges : r.id <= last}

ListRanges(c) ==
  /\ Serving(c, "ranges")
  /\ SettleRows(c, db.ranges, {RangesUpTo(last) : last \in 0 .. MaxRanges})
  /\ UNCHANGED db

CreateRange_NoForeignKey(c) ==
  LET range == [id |-> db.nextRange, group |-> net[c].arg.group] IN
  /\ Serving(c, "createRange") /\ db.nextRange <= MaxRanges
  /\ db' = [db EXCEPT !.ranges = @ \cup {range}, !.nextRange = @ + 1]
  /\ Settle(c, TRUE, {range})

\* A range needs its group (foreign key).
CreateRange(c) ==
  LET range == [id |-> db.nextRange, group |-> net[c].arg.group]
      ok == range.group \in db.groups /\ db.nextRange <= MaxRanges IN
  /\ Serving(c, "createRange")
  /\ db' = IF ok THEN [db EXCEPT !.ranges = @ \cup {range}, !.nextRange = @ + 1]
                 ELSE db
  /\ Settle(c, ok, IF ok THEN {range} ELSE {})

ServerStep == (\E c \in Conns : ListRanges(c) \/ CreateRange(c)) /\ UNCHANGED ui

-----------------------------------------------------------------------------
\* A range never lands in another group than the one the user saw selected, even
\* when group 1, the initial groupId, was deleted and the select shows another:
\* the only group sent unseen is the one sent before any option arrived
\* (Ranges.tsx 26, 54-66, 95-103).
RangeAsShown ==
  \A c \in Conns :
    net[c].op = "createRange" /\ net[c].phase = "done" =>
      net[c].arg.shown \in {net[c].arg.group, 0}

=============================================================================
