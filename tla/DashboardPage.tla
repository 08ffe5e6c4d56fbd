---------------------------- MODULE DashboardPage ----------------------------
(***************************************************************************)
(* The start page (src/web/src/pages/Dashboard.tsx): it polls two routes   *)
(* when it is mounted and every five seconds as long as it is, whether or  *)
(* not the last poll was answered.  A poll is one call that is done when   *)
(* both routes have answered (Promise.all); call.arg holds the routes that *)
(* have.                                                                   *)
(***************************************************************************)
EXTENDS WebClient

Routes == {"metrics", "dashboard"}

DashboardMounted == [page |-> "dashboard", metrics |-> FALSE, error |-> FALSE]

fetchData == Call("poll", 0, {})

Mount == MountWith(DashboardMounted, fetchData)

\* setInterval(fetchData, 5000).
Interval(c) ==
  /\ ui.page = "dashboard" /\ Free(c)
  /\ net' = Issue(net, c, fetchData)
  /\ UNCHANGED <<ui, db>>

fetchDataDone(c) ==
  /\ Resolved(c, "poll")
  /\ net' = [net EXCEPT ![c] = Idle]
  /\ ui' = [ui EXCEPT !.metrics = TRUE]
  /\ UNCHANGED db

\* The first of the two routes to fail fails the poll.
fetchDataFailed(c) ==
  /\ Rejected(c, "poll")
  /\ ui' = [ui EXCEPT !.error = TRUE]
  /\ UNCHANGED db

PageStep ==
  \E c \in Conns : Interval(c) \/ fetchDataDone(c) \/ fetchDataFailed(c)

\* GetMetrics or GetDashboardStats answers.
Answer(c, route) ==
  LET routes == net[c].arg \cup {route} IN
  /\ Serving(c, "poll") /\ route \notin net[c].arg
  /\ net' = [net EXCEPT ![c].arg = routes,
                        ![c].phase = IF routes = Routes THEN "done" ELSE "sent"]
  /\ UNCHANGED <<ui, db>>

ServerStep == \E c \in Conns, route \in Routes : Answer(c, route)

\* What is drawn: an error hides everything, nothing before the first answer.
StatsShown == ~ui.error /\ ui.metrics

-----------------------------------------------------------------------------
vars == <<ui, net, db>>

Init ==
  /\ ui = DashboardMounted
  /\ \E c \in Conns : net = [[d \in Conns |-> Idle] EXCEPT ![c] = fetchData]
  /\ db = {}

Next == PageStep \/ ServerStep

\* The interval keeps firing, and an answered poll is not for ever pushed aside
\* by others that fail.
Fairness ==
  /\ WF_vars(\E c \in Conns : Interval(c))
  /\ \A c \in Conns :
       /\ \A route \in Routes : WF_vars(Answer(c, route))
       /\ SF_vars(fetchDataDone(c))

Spec == Init /\ [][Next]_vars /\ Fairness

\* The start page shows the metrics "em tempo real (atualiza a cada 5 segundos)"
\* (README.md 263): as long as polls keep being answered it shows them again and
\* again, also after a poll has failed.
RealTime ==
  []<>(\E c \in Conns : Resolved(c, "poll")) => []<>StatsShown

=============================================================================
