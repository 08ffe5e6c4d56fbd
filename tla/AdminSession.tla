---------------------------- MODULE AdminSession ----------------------------
(***************************************************************************)
(* The session of a dashboard administrator in one tab of the browser: the *)
(* token in localStorage, the interceptors of src/web/src/api/client.ts,   *)
(* the login form, the protected routes and the logout button, and the     *)
(* middleware of the server that accepts or refuses a token.  The other    *)
(* tabs share localStorage: they may store a new token or remove the one   *)
(* that is there at any time.                                              *)
(*                                                                         *)
(* Tokens are numbered as they are issued; each lives an hour, so they     *)
(* expire in that order and "expired" is the last one that has.  0 is no   *)
(* token.  A call is a request of the mounted page or, while the token is  *)
(* refreshed for it, the refresh; call.first is history: the token the     *)
(* request was refused with.                                               *)
(*                                                                         *)
(* "start" is the start page of the panel, whose interval sends requests   *)
(* by itself; "page" is any of the others, which send only what the user   *)
(* or their mounting asks for.                                             *)
(***************************************************************************)
EXTENDS Naturals, FiniteSets

CONSTANTS Slots,       \* requests the tab may have in flight
          MaxTokens    \* bound on the tokens: the server refuses to sign more

ASSUME MaxTokensAssumption == MaxTokens \in Nat

VARIABLES token,      \* localStorage.getItem('token')
          issued,     \* tokens the server has signed
          expired,    \* tokens that have expired
          tab,        \* the state of the tab
          calls       \* its requests

vars == <<token, issued, expired, tab, calls>>

PanelPages == {"start", "page"}

Valid(t) == expired < t

Quiet ==
  [stage |-> "idle", token |-> 0, first |-> 0, retry |-> FALSE,
   answer |-> "none", new |-> 0]

\* The request interceptor: the token in storage goes with every request.
Request(tok, retry) ==
  [stage |-> "request", token |-> tok, first |-> 0, retry |-> retry,
   answer |-> "none", new |-> 0]

\* A page load: all that the scripts of the tab held is gone.  The login page is
\* shown for its own address and, by ProtectedRoute, for want of a token.
Loaded(page) ==
  [page |-> page, loading |-> FALSE, refreshing |-> FALSE, leaving |-> FALSE]

SetCall(s, call) == calls' = [calls EXCEPT ![s] = call]

-----------------------------------------------------------------------------
(* The user.                                                               *)

\* Login.tsx: the button is disabled while the form waits.
handleSubmit ==
  /\ tab.page = "login" /\ ~tab.loading
  /\ tab' = [tab EXCEPT !.loading = TRUE]
  /\ UNCHANGED <<token, issued, expired, calls>>

handleSubmitEnds ==
  /\ tab.page = "login" /\ tab.loading
  /\ \/ /\ issued < MaxTokens
        /\ issued' = issued + 1
        /\ token' = issued + 1
        /\ tab' = [tab EXCEPT !.loading = FALSE, !.page = "start"]
     \/ /\ tab' = [tab EXCEPT !.loading = FALSE]
        /\ UNCHANGED <<token, issued>>
  /\ UNCHANGED <<expired, calls>>

\* The router shows the login page; what is in flight stays in flight.
handleLogout ==
  /\ tab.page \in PanelPages
  /\ token' = 0
  /\ tab' = [tab EXCEPT !.page = "login"]
  /\ UNCHANGED <<issued, expired, calls>>

\* A link of the layout leads to another page of the panel; requests in flight
\* stay in flight.  Whether the router renders ProtectedRoute again, which sends
\* the user to the login page for want of a token, is left open.
Navigate ==
  /\ tab.page \in PanelPages
  /\ \E page \in PanelPages \cup {"login"} :
       /\ page = "login" => token = 0
       /\ tab' = [tab EXCEPT !.page = page]
  /\ UNCHANGED <<token, issued, expired, calls>>

\* The user opens or reloads a page.
Open ==
  /\ \E page \in PanelPages \cup {"login"} :
       tab' = Loaded(IF token = 0 THEN "login" ELSE page)
  /\ calls' = [s \in Slots |-> Quiet]
  /\ UNCHANGED <<token, issued, expired>>

\* Another tab logs in or refreshes; another tab logs out or is thrown out.
LoginElsewhere ==
  /\ issued < MaxTokens
  /\ issued' = issued + 1
  /\ token' = issued + 1
  /\ UNCHANGED <<expired, tab, calls>>

LogoutElsewhere ==
  /\ token # 0
  /\ token' = 0
  /\ UNCHANGED <<issued, expired, tab, calls>>

-----------------------------------------------------------------------------
(* The interceptors.                                                       *)

\* The mounted page sends a request.
Send(s) ==
  /\ tab.page \in PanelPages /\ calls[s].stage = "idle"
  /\ SetCall(s, Request(token, FALSE))
  /\ UNCHANGED <<token, issued, expired, tab>>

\* The request ends in anything but a 401, or in a 401 after its retry.
Finish(s) ==
  /\ calls[s].stage = "request"
  /\ calls[s].answer = "401" => calls[s].retry
  /\ SetCall(s, Quiet)
  /\ UNCHANGED <<token, issued, expired, tab>>

Expel_KeepsRefreshing(s) ==
  /\ token' = 0
  /\ SetCall(s, Quiet)
  /\ tab' = [tab EXCEPT !.leaving = TRUE]

Expel_NoRedirect(s) ==
  /\ token' = 0
  /\ SetCall(s, Quiet)
  /\ tab' = [tab EXCEPT !.refreshing = FALSE]

\* The token is removed and the browser is sent to the login page; the scripts
\* of the tab run on until the page is unloaded.
Expel(s) ==
  /\ token' = 0
  /\ SetCall(s, Quiet)
  /\ tab' = [tab EXCEPT !.refreshing = FALSE, !.leaving = TRUE]

\* A 401 while another request refreshes the token.
RefusedWhileRefreshing(s) ==
  /\ token' = 0
  /\ SetCall(s, Quiet)
  /\ tab' = [tab EXCEPT !.leaving = TRUE]

StartRefresh_NoRetryMark(s) ==
  /\ token # 0
  /\ tab' = [tab EXCEPT !.refreshing = TRUE]
  /\ SetCall(s, [stage |-> "refresh", token |-> token,
                 first |-> calls[s].token, retry |-> FALSE,
                 answer |-> "none", new |-> 0])
  /\ UNCHANGED token

\* The first 401: the token now in storage is refreshed, if there is one.
StartRefresh(s) ==
  IF token = 0
  THEN Expel(s)
  ELSE /\ tab' = [tab EXCEPT !.refreshing = TRUE]
       /\ SetCall(s, [stage |-> "refresh", token |-> token,
                         first |-> calls[s].token, retry |-> TRUE,
                         answer |-> "none", new |-> 0])
       /\ UNCHANGED token

OnUnauthorized(s) ==
  /\ calls[s].stage = "request" /\ calls[s].answer = "401"
  /\ ~calls[s].retry
  /\ IF tab.refreshing THEN RefusedWhileRefreshing(s)
                          ELSE StartRefresh(s)
  /\ UNCHANGED <<issued, expired>>

\* The new token is stored and the request is sent again with it.
OnRefreshed(s) ==
  /\ calls[s].stage = "refresh" /\ calls[s].answer = "ok"
  /\ token' = calls[s].new
  /\ tab' = [tab EXCEPT !.refreshing = FALSE]
  /\ SetCall(s, Request(calls[s].new, TRUE))
  /\ UNCHANGED <<issued, expired>>

\* Refused, or the connection broke.
OnRefreshFailed(s) ==
  /\ calls[s].stage = "refresh"
  /\ Expel(s)
  /\ UNCHANGED <<issued, expired>>

Unload ==
  /\ tab.leaving
  /\ tab' = Loaded("login")
  /\ calls' = [s \in Slots |-> Quiet]
  /\ UNCHANGED <<token, issued, expired>>

-----------------------------------------------------------------------------
(* The server.                                                             *)

\* A request passes the middleware or is refused.
AuthMiddleware(s) ==
  /\ calls[s].stage = "request" /\ calls[s].answer = "none"
  /\ SetCall(s, [calls[s] EXCEPT
                      !.answer = IF Valid(calls[s].token) THEN "ok" ELSE "401"])
  /\ UNCHANGED <<token, issued, expired, tab>>

RefreshToken_NoMiddleware(s) ==
  /\ calls[s].stage = "refresh" /\ calls[s].answer = "none"
  /\ issued < MaxTokens
  /\ issued' = issued + 1
  /\ SetCall(s, [calls[s] EXCEPT !.answer = "ok", !.new = issued + 1])
  /\ UNCHANGED <<token, expired, tab>>

\* The refresh sits behind the same middleware.
RefreshToken(s) ==
  LET ok == Valid(calls[s].token) /\ issued < MaxTokens IN
  /\ calls[s].stage = "refresh" /\ calls[s].answer = "none"
  /\ issued' = IF ok THEN issued + 1 ELSE issued
  /\ SetCall(s, [calls[s] EXCEPT !.answer = IF ok THEN "ok" ELSE "401",
                                       !.new = IF ok THEN issued + 1 ELSE 0])
  /\ UNCHANGED <<token, expired, tab>>

\* An hour after it was issued the oldest living token expires.
Expire ==
  /\ expired < issued
  /\ expired' = expired + 1
  /\ UNCHANGED <<token, issued, tab, calls>>

-----------------------------------------------------------------------------
Init ==
  /\ token = 0 /\ issued = 0 /\ expired = 0
  /\ tab = Loaded("login")
  /\ calls = [s \in Slots |-> Quiet]

Next ==
  \/ handleSubmit \/ handleSubmitEnds \/ handleLogout \/ Navigate
  \/ Open \/ Unload \/ LoginElsewhere \/ LogoutElsewhere \/ Expire
  \/ \E s \in Slots :
       \/ Send(s) \/ Finish(s) \/ OnUnauthorized(s)
       \/ OnRefreshed(s) \/ OnRefreshFailed(s)
       \/ AuthMiddleware(s) \/ RefreshToken(s)

\* The start page sends requests when it is mounted and every five seconds after
\* that; the other pages need not send any.  Not all requests are lost or cut off
\* by a reload, and the scripts of a tab run.
Fairness ==
  /\ SF_vars(\E s \in Slots : tab.page = "start" /\ Send(s))
  /\ SF_vars(\E s \in Slots : AuthMiddleware(s))
  /\ SF_vars(\E s \in Slots : Finish(s))
  /\ SF_vars(\E s \in Slots : OnUnauthorized(s))
  /\ SF_vars(\E s \in Slots : OnRefreshed(s) \/ OnRefreshFailed(s))
  /\ SF_vars(Unload)

Spec == Init /\ [][Next]_vars /\ Fairness

-----------------------------------------------------------------------------
(* Properties.                                                             *)

Tokens == 0 .. MaxTokens

\* The calls a tab may hold once n tokens have been issued.
CallSet(n) ==
  [stage : {"idle", "request", "refresh"}, token : 0 .. n, first : 0 .. n,
   retry : BOOLEAN, answer : {"none", "ok", "401"}, new : 0 .. n]

Tabs == [page : PanelPages \cup {"login"}, loading : BOOLEAN, refreshing : BOOLEAN,
         leaving : BOOLEAN]

SessionTypeOK ==
  /\ issued \in Tokens /\ token \in 0 .. issued /\ expired \in 0 .. issued
  /\ tab \in Tabs
  /\ calls \in [Slots -> CallSet(issued)]
  /\ \A s \in Slots : calls[s].stage = "refresh" => calls[s].retry

\* isRefreshing is TRUE exactly while one refresh is unanswered, on
\* every way out of the interceptor: a flag left behind would make the next 401
\* throw the user out, a flag dropped early would let two refreshes run
\* (client.ts 24-54).
RefreshingExact ==
  Cardinality({s \in Slots : calls[s].stage = "refresh"}) =
    (IF tab.refreshing THEN 1 ELSE 0)

\* A refresh is granted only with another token than the one the request was
\* refused with: what the interceptor can rescue is a session that was meanwhile
\* renewed by a login elsewhere, never its own (client.ts
\* 36-47, handlers.go 113-183).
RefreshNeedsNewerToken ==
  \A s \in Slots :
    calls[s].stage = "refresh" /\ calls[s].answer = "ok" =>
      calls[s].first < calls[s].token

\* A tab that shows the panel without a valid token in storage does not go on
\* doing so, as long as the user comes back to the start page again and again or
\* stays there: it ends on the login page unless a valid token turns up,
\* whichever tab logged out or let the session expire (client.ts 24-54,
\* Dashboard.tsx 105-106).  A tab left on another page sends nothing and stays.
SessionEnds ==
  (tab.page \in PanelPages /\ ~Valid(token))
    ~> (tab.page = "login" \/ Valid(token) \/ [](tab.page = "page"))

\* "Handle 401 and auto-refresh token" (client.ts 16): the refresh of a session
\* the server has refused is granted.
AutoRefresh ==
  \A s \in Slots :
    calls[s].stage = "refresh" => calls[s].answer # "401"

=============================================================================
