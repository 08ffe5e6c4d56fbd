------------------------------ MODULE LogsPage ------------------------------
(***************************************************************************)
(* The Logs page (src/web/src/pages/Logs.tsx): one page of the query log   *)
(* under filters.  Every change of a filter or of the offset fetches; the  *)
(* answers may come back in any order.  ui.filter stands for the five      *)
(* filter fields together, ui.data for the query whose rows are shown.     *)
(***************************************************************************)
EXTENDS WebClient

CONSTANTS Filters,     \* settings of the filter fields
          NoFilter,    \* all of them empty
          Limit,       \* entries on a page (limit)
          MaxLogged    \* bound on the entries a filter matches

LogsMounted ==
  [page |-> "logs", filter |-> NoFilter, offset |-> 0, total |-> 0,
   data |-> [filter |-> NoFilter, offset |-> 0]]

fetchLogs(filter, offset) == Call("logs", offset, {filter})

Mount == MountWith(LogsMounted, fetchLogs(NoFilter, 0))

\* What useEffect does after the filters or the offset were set.
Query(c, filter, offset) ==
  /\ Free(c)
  /\ ui' = [ui EXCEPT !.filter = filter, !.offset = offset]
  /\ net' = Issue(net, c, fetchLogs(filter, offset))
  /\ UNCHANGED db

SetFilter_NotADependency(c, filter) ==
  /\ filter # ui.filter
  /\ ui' = [ui EXCEPT !.filter = filter, !.offset = 0]
  /\ UNCHANGED <<net, db>>

\* A filter field is changed: back to the first page.
SetFilter(c, filter) == filter # ui.filter /\ Query(c, filter, 0)

\* The "Buscar" button.
Search(c) == Query(c, ui.filter, ui.offset)

\* The "Anterior" and "Próxima" buttons.
Previous(c) ==
  /\ ui.offset # 0
  /\ Query(c, ui.filter, IF ui.offset > Limit THEN ui.offset - Limit ELSE 0)

NextPage_NeverDisabled(c) == Query(c, ui.filter, ui.offset + Limit)

NextPage(c) ==
  /\ ui.offset + Limit < ui.total
  /\ Query(c, ui.filter, ui.offset + Limit)

fetchLogsEnds(c) ==
  /\ \/ /\ Resolved(c, "logs")
        /\ net' = [net EXCEPT ![c] = Idle]
        /\ \E filter \in net[c].arg, total \in net[c].got :
             ui' = [ui EXCEPT !.total = total,
                      !.data = [filter |-> filter, offset |-> net[c].id]]
     \/ Rejected(c, "logs") /\ UNCHANGED ui
  /\ UNCHANGED db

PageStep ==
  /\ ui.page = "logs"
  /\ \E c \in Conns :
       \/ \E filter \in Filters : SetFilter(c, filter)
       \/ Search(c) \/ Previous(c) \/ NextPage(c) \/ fetchLogsEnds(c)

\* The server counts what matches at the time; the log is written all the while.
GetLogs(c) ==
  /\ Serving(c, "logs")
  /\ \E total \in 0 .. MaxLogged : Settle(c, TRUE, {total})
  /\ UNCHANGED db

ServerStep == (\E c \in Conns : GetLogs(c)) /\ UNCHANGED ui

-----------------------------------------------------------------------------
\* The newest fetch in flight always asks for the filters and the page that are
\* set on the screen, so once it is answered the rows are the ones asked for:
\* no change of a filter or of the page goes without its own fetch (Logs.tsx
\* 98-100, 121-151, 202-213).
LogsAskWhatIsSet ==
  ui.page = "logs" =>
    \A c \in Conns :
      net[c].op = "logs" /\ net[c].newest =>
        net[c].arg = {ui.filter} /\ net[c].id = ui.offset

=============================================================================
