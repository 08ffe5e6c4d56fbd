------------------------- MODULE AdminSession_proofs -------------------------
(***************************************************************************)
(* Proofs about AdminSession, for any number of requests in flight and of  *)
(* tokens.                                                                 *)
(***************************************************************************)
EXTENDS AdminSession, FiniteSetTheorems, TLAPS

Refreshing(s) == calls[s].stage = "refresh"

\* A request was refused for good reason: its token had expired, and so had the
\* one a refresh was started for.
RefusedWasExpired ==
  \A s \in Slots :
    /\ calls[s].stage = "request" /\ calls[s].answer = "401"
         => calls[s].token <= expired
    /\ Refreshing(s) => calls[s].first <= expired

\* Without cardinalities: one refresh while the flag is set, none otherwise.
OneRefresh ==
  /\ \A s, t \in Slots : Refreshing(s) /\ Refreshing(t) => s = t
  /\ tab.refreshing <=> \E s \in Slots : Refreshing(s)

IInv ==
  /\ SessionTypeOK
  /\ RefusedWasExpired
  /\ RefreshNeedsNewerToken
  /\ OneRefresh

USE MaxTokensAssumption

LEMMA InitIInv == Init => IInv
  BY DEF Init, IInv, SessionTypeOK, RefusedWasExpired, RefreshNeedsNewerToken,
         OneRefresh, Refreshing, Tokens, Tabs, PanelPages, CallSet, Loaded, Quiet

LEMMA CallSetGrows ==
  ASSUME NEW m \in Nat, NEW n \in Nat, m <= n
  PROVE  CallSet(m) \subseteq CallSet(n)
  BY DEF CallSet

LEMMA NextType == SessionTypeOK /\ [Next]_vars => SessionTypeOK'
<1> SUFFICES ASSUME SessionTypeOK, [Next]_vars
             PROVE  SessionTypeOK'
  OBVIOUS
<1> USE DEF SessionTypeOK, Tokens, Tabs, PanelPages, CallSet, Quiet, Request, Loaded, SetCall
<1>1. CASE handleSubmit
  BY <1>1 DEF handleSubmit
<1>2. CASE handleSubmitEnds
  <2>1. tab' \in Tabs
    BY <1>2 DEF handleSubmitEnds
  <2>2. issued' \in 0 .. MaxTokens /\ token' \in 0 .. issued' /\ issued <= issued'
    BY <1>2 DEF handleSubmitEnds
  <2>3. CallSet(issued) \subseteq CallSet(issued')
    BY <2>2, CallSetGrows
  <2> HIDE DEF Tabs, CallSet
  <2> QED
    BY <1>2, <2>1, <2>2, <2>3 DEF handleSubmitEnds
<1>3. CASE handleLogout
  BY <1>3 DEF handleLogout
<1>4. CASE Open
  BY <1>4 DEF Open
<1>5. CASE Unload
  BY <1>5 DEF Unload
<1>6. CASE LoginElsewhere
  BY <1>6 DEF LoginElsewhere
<1>7. CASE LogoutElsewhere
  BY <1>7 DEF LogoutElsewhere
<1>8. CASE Expire
  BY <1>8 DEF Expire
<1>9. ASSUME NEW s \in Slots, Send(s)
      PROVE  SessionTypeOK'
  BY <1>9 DEF Send
<1>10. ASSUME NEW s \in Slots, Finish(s)
       PROVE  SessionTypeOK'
  BY <1>10 DEF Finish
<1>11. ASSUME NEW s \in Slots, OnUnauthorized(s)
       PROVE  SessionTypeOK'
  <2>1. tab' \in Tabs
    BY <1>11 DEF OnUnauthorized, RefusedWhileRefreshing, StartRefresh, Expel
  <2>2. token' \in 0 .. issued /\ UNCHANGED <<issued, expired>>
    BY <1>11 DEF OnUnauthorized, RefusedWhileRefreshing, StartRefresh, Expel
  <2>3. PICK call : /\ calls' = [calls EXCEPT ![s] = call]
                    /\ call \in CallSet(issued)
                    /\ call.stage = "refresh" => call.retry
    <3>1. calls[s].token \in 0 .. issued
      OBVIOUS
    <3>2. CASE SetCall(s, Quiet)
      <4>1. Quiet \in CallSet(issued) /\ Quiet.stage # "refresh"
        OBVIOUS
      <4> HIDE DEF CallSet, Quiet
      <4> QED
        BY <3>2, <4>1
    <3>3. CASE SetCall(s, [stage |-> "refresh", token |-> token,
                           first |-> calls[s].token, retry |-> TRUE,
                           answer |-> "none", new |-> 0])
      <4> DEFINE call == [stage |-> "refresh", token |-> token,
                          first |-> calls[s].token, retry |-> TRUE,
                          answer |-> "none", new |-> 0]
      <4>1. call \in CallSet(issued) /\ call.retry
        BY <3>1
      <4>2. calls' = [calls EXCEPT ![s] = call]
        BY <3>3
      <4> HIDE DEF CallSet, call
      <4> QED
        BY <4>1, <4>2
    <3> HIDE DEF SetCall, CallSet, Quiet
    <3> QED
      BY <1>11, <3>2, <3>3
         DEF OnUnauthorized, RefusedWhileRefreshing, StartRefresh, Expel
  <2> HIDE DEF Tabs, CallSet
  <2> QED
    BY <2>1, <2>2, <2>3
<1>12. ASSUME NEW s \in Slots, OnRefreshed(s)
       PROVE  SessionTypeOK'
  <2>1. calls[s].new \in 0 .. issued
    OBVIOUS
  <2>2. tab' \in Tabs
    BY <1>12 DEF OnRefreshed
  <2>3. Request(calls[s].new, TRUE) \in CallSet(issued)
    BY <2>1
  <2>4. calls' \in [Slots -> CallSet(issued)]
    <3> HIDE DEF CallSet, Request
    <3> QED
      BY <1>12, <2>3 DEF OnRefreshed
  <2>5. \A t \in Slots : calls'[t].stage = "refresh" => calls'[t].retry
    BY <1>12 DEF OnRefreshed
  <2> HIDE DEF Tabs, CallSet
  <2> QED
    BY <1>12, <2>1, <2>2, <2>4, <2>5 DEF OnRefreshed
<1>13. ASSUME NEW s \in Slots, OnRefreshFailed(s)
       PROVE  SessionTypeOK'
  <2>1. tab' \in Tabs
    BY <1>13 DEF OnRefreshFailed, Expel
  <2>2. calls' \in [Slots -> CallSet(issued)]
    BY <1>13 DEF OnRefreshFailed, Expel
  <2>3. \A t \in Slots : calls'[t].stage = "refresh" => calls'[t].retry
    BY <1>13 DEF OnRefreshFailed, Expel
  <2> HIDE DEF Tabs, CallSet
  <2> QED
    BY <1>13, <2>1, <2>2, <2>3 DEF OnRefreshFailed, Expel
<1>14. ASSUME NEW s \in Slots, AuthMiddleware(s)
       PROVE  SessionTypeOK'
  BY <1>14 DEF AuthMiddleware
<1>15. ASSUME NEW s \in Slots, RefreshToken(s)
       PROVE  SessionTypeOK'
  <2> DEFINE ok == Valid(calls[s].token) /\ issued < MaxTokens
             a == IF ok THEN "ok" ELSE "401"
             k == IF ok THEN issued + 1 ELSE 0
             call == [calls[s] EXCEPT !.answer = a, !.new = k]
  <2>1. issued' \in 0 .. MaxTokens /\ issued <= issued' /\ k \in 0 .. issued'
    BY <1>15 DEF RefreshToken
  <2>2. CallSet(issued) \subseteq CallSet(issued')
    BY <2>1, CallSetGrows
  <2>3. calls[s] \in CallSet(issued')
    BY <2>2
  <2>4. a \in {"none", "ok", "401"}
    OBVIOUS
  <2>5. call \in CallSet(issued') /\ call.retry = calls[s].retry
    <3> HIDE DEF a, k
    <3> QED
      BY <2>1, <2>3, <2>4
  <2>6. calls' = [calls EXCEPT ![s] = call] /\ calls[s].stage = "refresh"
    BY <1>15 DEF RefreshToken
  <2>7. /\ calls' \in [Slots -> CallSet(issued')]
        /\ \A t \in Slots : calls'[t].stage = "refresh" => calls'[t].retry
    <3> HIDE DEF call, CallSet
    <3> QED
      BY <2>2, <2>5, <2>6
  <2> HIDE DEF Tabs, CallSet
  <2> QED
    BY <1>15, <2>1, <2>7 DEF RefreshToken
<1>16. CASE Navigate
  BY <1>16 DEF Navigate
<1>17. CASE UNCHANGED vars
  BY <1>17 DEF vars
<1> QED
  BY <1>1, <1>2, <1>3, <1>4, <1>5, <1>6, <1>7, <1>8, <1>9, <1>10, <1>11, <1>12,
     <1>13, <1>14, <1>15, <1>16, <1>17 DEF Next

\* The token of a refused request, and of the request a refresh is for, has
\* expired; so a refresh that is granted was sent with a newer one.
LEMMA NextExpired ==
  SessionTypeOK /\ RefusedWasExpired /\ RefreshNeedsNewerToken /\ [Next]_vars
    => RefusedWasExpired' /\ RefreshNeedsNewerToken'
<1> SUFFICES ASSUME SessionTypeOK, RefusedWasExpired, RefreshNeedsNewerToken,
                    [Next]_vars
             PROVE  RefusedWasExpired' /\ RefreshNeedsNewerToken'
  OBVIOUS
<1> USE DEF RefusedWasExpired, RefreshNeedsNewerToken, Refreshing, SetCall
<1>a. /\ issued \in Nat /\ expired \in Nat
      /\ calls = [t \in Slots |-> calls[t]]
      /\ \A t \in Slots : calls[t].token \in Nat /\ calls[t].first \in Nat
  BY DEF SessionTypeOK, Tokens, CallSet
<1>1. CASE UNCHANGED <<calls, expired>>
  BY <1>1
<1>2. CASE calls' = [s \in Slots |-> Quiet] /\ UNCHANGED expired
  BY <1>2 DEF Quiet
<1>3. CASE Expire
  BY <1>3, <1>a DEF Expire
<1>4. ASSUME NEW s \in Slots, SetCall(s, Quiet), UNCHANGED expired
      PROVE  RefusedWasExpired' /\ RefreshNeedsNewerToken'
  BY <1>4, <1>a DEF Quiet
<1>5. ASSUME NEW s \in Slots, NEW t, NEW r, SetCall(s, Request(t, r)),
             UNCHANGED expired
      PROVE  RefusedWasExpired' /\ RefreshNeedsNewerToken'
  BY <1>5, <1>a DEF Request
<1>6. ASSUME NEW s \in Slots, OnUnauthorized(s)
      PROVE  RefusedWasExpired' /\ RefreshNeedsNewerToken'
  <2>1. CASE SetCall(s, Quiet)
    BY <1>6, <2>1, <1>4 DEF OnUnauthorized
  <2>2. CASE SetCall(s, [stage |-> "refresh", token |-> token,
                         first |-> calls[s].token, retry |-> TRUE,
                         answer |-> "none", new |-> 0])
    BY <1>6, <2>2, <1>a DEF OnUnauthorized
  <2> QED
    BY <1>6, <2>1, <2>2
       DEF OnUnauthorized, RefusedWhileRefreshing, StartRefresh, Expel
<1>7. ASSUME NEW s \in Slots, AuthMiddleware(s)
      PROVE  RefusedWasExpired' /\ RefreshNeedsNewerToken'
  <2> DEFINE a == IF Valid(calls[s].token) THEN "ok" ELSE "401"
  <2>1. a = "401" => calls[s].token <= expired
    BY <1>a DEF Valid
  <2>2. /\ calls' = [calls EXCEPT ![s] = [calls[s] EXCEPT !.answer = a]]
        /\ calls[s].stage = "request" /\ UNCHANGED expired
    BY <1>7 DEF AuthMiddleware
  <2> HIDE DEF a
  <2>3. calls[s] \in CallSet(issued)
    BY DEF SessionTypeOK
  <2>4. /\ calls'[s].stage = "request" /\ calls'[s].answer = a
        /\ calls'[s].token = calls[s].token
    BY <2>2, <2>3, <1>a DEF CallSet
  <2>5. \A t \in Slots \ {s} : calls'[t] = calls[t]
    BY <2>2, <1>a
  <2> QED
    BY <2>1, <2>2, <2>4, <2>5
<1>8. ASSUME NEW s \in Slots, RefreshToken(s)
      PROVE  RefusedWasExpired' /\ RefreshNeedsNewerToken'
  <2> DEFINE ok == Valid(calls[s].token) /\ issued < MaxTokens
             a == IF ok THEN "ok" ELSE "401"
             k == IF ok THEN issued + 1 ELSE 0
  <2>1. a = "ok" => calls[s].first < calls[s].token
    BY <1>8, <1>a DEF Valid, RefreshToken
  <2>2. /\ calls' = [calls EXCEPT ![s] = [calls[s] EXCEPT !.answer = a, !.new = k]]
        /\ calls[s].stage = "refresh" /\ UNCHANGED expired
    BY <1>8 DEF RefreshToken
  <2> HIDE DEF a, k
  <2>3. calls[s] \in CallSet(issued)
    BY DEF SessionTypeOK
  <2>4. /\ calls'[s].stage = "refresh" /\ calls'[s].answer = a
        /\ calls'[s].token = calls[s].token /\ calls'[s].first = calls[s].first
    BY <2>2, <2>3, <1>a DEF CallSet
  <2>5. \A t \in Slots \ {s} : calls'[t] = calls[t]
    BY <2>2, <1>a
  <2> QED
    BY <2>1, <2>2, <2>4, <2>5
<1>9. ASSUME NEW s \in Slots, Send(s) \/ Finish(s) \/ OnRefreshed(s) \/ OnRefreshFailed(s)
      PROVE  RefusedWasExpired' /\ RefreshNeedsNewerToken'
  <2> HIDE DEF RefusedWasExpired, RefreshNeedsNewerToken, SetCall
  <2> QED
    BY <1>4, <1>5, <1>9 DEF Send, Finish, OnRefreshed, OnRefreshFailed, Expel
<1>10. CASE UNCHANGED vars \/ handleSubmit \/ handleSubmitEnds \/ handleLogout \/ Navigate
            \/ LoginElsewhere \/ LogoutElsewhere
  <2> HIDE DEF RefusedWasExpired, RefreshNeedsNewerToken
  <2> QED
    BY <1>1, <1>10 DEF vars, handleSubmit, handleSubmitEnds, handleLogout, Navigate,
                       LoginElsewhere, LogoutElsewhere
<1>11. CASE Open \/ Unload
  <2> HIDE DEF RefusedWasExpired, RefreshNeedsNewerToken
  <2> QED
    BY <1>2, <1>11 DEF Open, Unload
<1> HIDE DEF RefusedWasExpired, RefreshNeedsNewerToken
<1> QED
  BY <1>3, <1>6, <1>7, <1>8, <1>9, <1>10, <1>11 DEF Next

LEMMA NextOneRefresh ==
  SessionTypeOK /\ OneRefresh /\ [Next]_vars => OneRefresh'
<1> SUFFICES ASSUME SessionTypeOK, OneRefresh, [Next]_vars
             PROVE  OneRefresh'
  OBVIOUS
<1>a. calls = [t \in Slots |-> calls[t]] /\ tab \in Tabs
  BY DEF SessionTypeOK
<1> USE DEF OneRefresh, Refreshing
<1>1. ASSUME UNCHANGED calls, tab'.refreshing = tab.refreshing
      PROVE  OneRefresh'
  BY <1>1
<1>2. ASSUME NEW p, tab' = Loaded(p), calls' = [s \in Slots |-> Quiet]
      PROVE  OneRefresh'
  BY <1>2 DEF Loaded, Quiet
<1>3. ASSUME NEW s \in Slots, NEW call, SetCall(s, call),
             call.stage # "refresh", ~Refreshing(s),
             tab'.refreshing = tab.refreshing
      PROVE  OneRefresh'
  <2>1. /\ calls'[s] = call
        /\ \A t \in Slots \ {s} : calls'[t] = calls[t]
    BY <1>3, <1>a DEF SetCall
  <2> QED
    BY <1>3, <2>1
<1>4. ASSUME NEW s \in Slots, NEW call, SetCall(s, call),
             call.stage # "refresh", Refreshing(s), tab'.refreshing = FALSE
      PROVE  OneRefresh'
  <2>1. /\ calls'[s] = call
        /\ \A t \in Slots \ {s} : calls'[t] = calls[t]
    BY <1>4, <1>a DEF SetCall
  <2> QED
    BY <1>4, <2>1
<1>5. ASSUME NEW s \in Slots, NEW call, SetCall(s, call),
             call.stage = calls[s].stage, UNCHANGED tab
      PROVE  OneRefresh'
  <2>1. /\ calls'[s] = call
        /\ \A t \in Slots \ {s} : calls'[t] = calls[t]
    BY <1>5, <1>a DEF SetCall
  <2> QED
    BY <1>5, <2>1
<1>6. ASSUME NEW s \in Slots, OnUnauthorized(s)
      PROVE  OneRefresh'
  <2>1. ~Refreshing(s)
    BY <1>6 DEF OnUnauthorized
  <2>2. CASE tab.refreshing
    <3>1. SetCall(s, Quiet) /\ tab'.refreshing = tab.refreshing
      BY <1>6, <2>2, <1>a DEF OnUnauthorized, RefusedWhileRefreshing, Tabs
    <3>2. Quiet.stage # "refresh"
      BY DEF Quiet
    <3> HIDE DEF OneRefresh, Refreshing
    <3> QED
      BY <2>1, <3>1, <3>2, <1>3
  <2>3. CASE ~tab.refreshing /\ token = 0
    <3>1. SetCall(s, Quiet) /\ tab'.refreshing = tab.refreshing
      BY <1>6, <2>3, <1>a DEF OnUnauthorized, StartRefresh, Expel, Tabs
    <3>2. Quiet.stage # "refresh"
      BY DEF Quiet
    <3> HIDE DEF OneRefresh, Refreshing
    <3> QED
      BY <2>1, <3>1, <3>2, <1>3
  <2>4. CASE ~tab.refreshing /\ token # 0
    <3>1. tab'.refreshing = TRUE
      BY <1>6, <2>4, <1>a DEF OnUnauthorized, StartRefresh, Tabs
    <3>2. /\ calls'[s].stage = "refresh"
          /\ \A t \in Slots \ {s} : calls'[t] = calls[t]
      BY <1>6, <2>4, <1>a DEF OnUnauthorized, StartRefresh, SetCall
    <3> QED
      BY <2>4, <3>1, <3>2
  <2> QED
    BY <2>2, <2>3, <2>4
<1>7. ASSUME NEW s \in Slots, OnRefreshed(s) \/ OnRefreshFailed(s)
      PROVE  OneRefresh'
  <2>1. Refreshing(s) /\ tab'.refreshing = FALSE
    BY <1>7, <1>a DEF OnRefreshed, OnRefreshFailed, Expel, Tabs
  <2>2. PICK call : SetCall(s, call) /\ call.stage # "refresh"
    BY <1>7 DEF OnRefreshed, OnRefreshFailed, Expel, Quiet, Request
  <2> HIDE DEF OneRefresh, Refreshing
  <2> QED
    BY <2>1, <2>2, <1>4
<1>8. ASSUME NEW s \in Slots, Send(s) \/ Finish(s)
      PROVE  OneRefresh'
  <2>1. ~Refreshing(s) /\ UNCHANGED tab
    BY <1>8 DEF Send, Finish
  <2>2. PICK call : SetCall(s, call) /\ call.stage # "refresh"
    BY <1>8 DEF Send, Finish, Quiet, Request
  <2> HIDE DEF OneRefresh, Refreshing
  <2> QED
    BY <2>1, <2>2, <1>3
<1>9. ASSUME NEW s \in Slots, AuthMiddleware(s) \/ RefreshToken(s)
      PROVE  OneRefresh'
  <2>1. calls[s] \in CallSet(issued) /\ UNCHANGED tab
    BY <1>9 DEF SessionTypeOK, AuthMiddleware, RefreshToken
  <2>2. PICK call : SetCall(s, call) /\ call.stage = calls[s].stage
    <3>1. CASE AuthMiddleware(s)
      <4> DEFINE a == IF Valid(calls[s].token) THEN "ok" ELSE "401"
                 call == [calls[s] EXCEPT !.answer = a]
      <4>1. SetCall(s, call)
        BY <3>1 DEF AuthMiddleware
      <4>2. call.stage = calls[s].stage
        <5> HIDE DEF a
        <5> QED
          BY <2>1 DEF CallSet
      <4> HIDE DEF call
      <4> QED
        BY <4>1, <4>2
    <3>2. CASE RefreshToken(s)
      <4> DEFINE ok == Valid(calls[s].token) /\ issued < MaxTokens
                 a == IF ok THEN "ok" ELSE "401"
                 k == IF ok THEN issued + 1 ELSE 0
                 call == [calls[s] EXCEPT !.answer = a, !.new = k]
      <4>1. SetCall(s, call)
        BY <3>2 DEF RefreshToken
      <4>2. call.stage = calls[s].stage
        <5> HIDE DEF a, k
        <5> QED
          BY <2>1 DEF CallSet
      <4> HIDE DEF call
      <4> QED
        BY <4>1, <4>2
    <3> QED
      BY <1>9, <3>1, <3>2
  <2> HIDE DEF OneRefresh, Refreshing
  <2> QED
    BY <2>1, <2>2, <1>5
<1>10. CASE UNCHANGED vars \/ handleSubmit \/ handleSubmitEnds \/ handleLogout \/ Navigate
            \/ LoginElsewhere \/ LogoutElsewhere \/ Expire
  <2>1. UNCHANGED calls /\ tab'.refreshing = tab.refreshing
    BY <1>10, <1>a DEF vars, handleSubmit, handleSubmitEnds, handleLogout, Navigate,
                       LoginElsewhere, LogoutElsewhere, Expire, Tabs
  <2> QED
    BY <2>1, <1>1
<1>11. CASE Open \/ Unload
  BY <1>2, <1>11 DEF Open, Unload
<1> HIDE DEF OneRefresh, Refreshing
<1> QED
  BY <1>6, <1>7, <1>8, <1>9, <1>10, <1>11 DEF Next

\* Counting the refreshes of OneRefresh.
LEMMA OneRefreshCounts == SessionTypeOK /\ OneRefresh => RefreshingExact
<1> SUFFICES ASSUME SessionTypeOK, OneRefresh
             PROVE  RefreshingExact
  OBVIOUS
<1> DEFINE R == {s \in Slots : calls[s].stage = "refresh"}
<1>1. CASE tab.refreshing
  <2>1. PICK s \in Slots : R = {s}
    BY <1>1 DEF OneRefresh, Refreshing
  <2> QED
    BY <1>1, <2>1, FS_Singleton DEF RefreshingExact
<1>2. CASE ~tab.refreshing
  <2>1. R = {}
    BY <1>2 DEF OneRefresh, Refreshing
  <2> QED
    BY <1>2, <2>1, FS_EmptySet DEF RefreshingExact
<1> QED
  BY <1>1, <1>2

LEMMA IInvHolds == Spec => []IInv
<1>1. IInv /\ [Next]_vars => IInv'
  BY NextType, NextExpired, NextOneRefresh DEF IInv
<1> QED
  BY InitIInv, <1>1, PTL DEF Spec

\* Tokens, tab and calls keep their types in every step of interceptors, login
\* form, other tabs and server (client.ts, Login.tsx, handlers.go 113-185).
THEOREM TypeCorrect == Spec => []SessionTypeOK
<1>1. IInv => SessionTypeOK
  BY DEF IInv
<1> QED
  BY IInvHolds, <1>1, PTL

\* Whatever the number of requests refused together, the flag isRefreshing is
\* set exactly while one of them is being refreshed (client.ts 24-54).
THEOREM AtMostOneRefresh == Spec => []RefreshingExact
<1>1. IInv => RefreshingExact
  BY OneRefreshCounts DEF IInv
<1> QED
  BY IInvHolds, <1>1, PTL

\* The interceptor never refreshes the session it was refused in: a refresh that
\* is granted used a token newer than the refused one (client.ts 36-47,
\* handlers.go 113-185).
THEOREM OnlyNewerTokensRefresh == Spec => []RefreshNeedsNewerToken
<1>1. IInv => RefreshNeedsNewerToken
  BY DEF IInv
<1> QED
  BY IInvHolds, <1>1, PTL

=============================================================================
