--------------------------- MODULE Identity_proofs ---------------------------
(***************************************************************************)
(* Proofs about Identity for every set of addresses, ranges, users and     *)
(* requests, every TTL and every initial table: access through a captive   *)
(* range needs a login, sessions carry the group of their address, the     *)
(* resolver holds the rows of ip_ranges, and live sessions are kept.       *)
(***************************************************************************)
EXTENDS Identity, FiniteSetTheorems, TLAPS

-----------------------------------------------------------------------------
(* The first range that contains an address.                               *)

LEMMA LeastNat ==
    ASSUME NEW S, S \subseteq Nat, S # {}
    PROVE  \E x \in S : \A y \in S : x <= y
<1> DEFINE R == OpToRel(<, Nat)
<1>1. IsWellFoundedOn(R, Nat)
  BY NatLessThanWellFounded
<1>2. \A x, y \in Nat : x < y => <<x, y>> \in R
  BY DEF OpToRel
<1> HIDE DEF R
<1>3. PICK x \in S : \A y \in S : ~(<<y, x>> \in R)
  BY <1>1, WFMin
<1>4. ASSUME NEW y \in S PROVE x <= y
  <2>1. x \in Nat /\ y \in Nat
    OBVIOUS
  <2>2. ~(y < x)
    BY <1>2, <1>3, <2>1
  <2> QED
    BY <2>1, <2>2
<1> QED
  BY <1>4

Least(i, S) == i \in S /\ \A j \in S : i <= j

LEMMA FirstIndex ==
    ASSUME NEW rs \in Seq(AllRows), NEW ip, Matches(rs, ip) # {}
    PROVE  \E i : Least(i, Matches(rs, ip)) /\ FirstMatch(rs, ip) = rs[i] /\ i \in DOMAIN rs
<1> DEFINE M == Matches(rs, ip)
<1>1. M \subseteq DOMAIN rs /\ M \subseteq Nat
  BY DEF Matches
<1>2. \E i \in M : \A j \in M : i <= j
  BY <1>1, LeastNat
<1> DEFINE i == CHOOSE k \in M : \A j \in M : k <= j
<1>3. FirstMatch(rs, ip) = rs[i]
  BY DEF FirstMatch
<1> HIDE DEF M
<1>4. i \in M /\ \A j \in M : i <= j
  BY <1>2
<1> QED
  BY <1>1, <1>3, <1>4 DEF Least, M

LEMMA FirstIsRow ==
    ASSUME NEW rs \in Seq(AllRows), NEW ip, Matches(rs, ip) # {}
    PROVE  FirstMatch(rs, ip) \in AllRows
  BY FirstIndex

\* A range appended by the API changes nothing for an address that has one.
LEMMA AppendKeepsFirst ==
    ASSUME NEW rs \in Seq(AllRows), NEW row \in AllRows, NEW ip, Matches(rs, ip) # {}
    PROVE  /\ Matches(Append(rs, row), ip) # {}
           /\ FirstMatch(Append(rs, row), ip) = FirstMatch(rs, ip)
<1> DEFINE as == Append(rs, row)
           n == Len(rs)
<1>1. as \in Seq(AllRows) /\ DOMAIN rs = 1 .. n /\ n \in Nat
  OBVIOUS
<1>9. \A j \in 1 .. n : j \in DOMAIN as /\ as[j] = rs[j]
  OBVIOUS
<1>10. \A j \in DOMAIN as : j \in 1 .. n + 1
  OBVIOUS
<1>11. \A j, k \in Nat : k \in 1 .. n /\ j <= k /\ j \in 1 .. n + 1 => j \in 1 .. n
  OBVIOUS
<1> HIDE DEF as, n
<1>2. PICK i : Least(i, Matches(rs, ip)) /\ FirstMatch(rs, ip) = rs[i] /\ i \in DOMAIN rs
  BY FirstIndex
<1>3. /\ \A j \in Matches(rs, ip) : j \in Matches(as, ip) /\ j \in 1 .. n
      /\ \A j \in Matches(as, ip) : j \in 1 .. n + 1
      /\ \A j \in Matches(as, ip) : j \in 1 .. n => j \in Matches(rs, ip)
  BY <1>1, <1>9, <1>10, Zenon DEF Matches
<1>4. Matches(as, ip) # {}
  BY <1>3
<1>5. PICK k : Least(k, Matches(as, ip)) /\ FirstMatch(as, ip) = as[k] /\ k \in DOMAIN as
  BY <1>1, <1>4, FirstIndex
<1>6. k <= i /\ k \in 1 .. n + 1 /\ i \in 1 .. n
  BY <1>2, <1>3, <1>5 DEF Least
<1>7. k \in Matches(rs, ip)
  <2>1. k \in 1 .. n
    BY <1>6, <1>11
  <2> QED
    BY <1>3, <1>5, <2>1 DEF Least
<1>8. k = i
  BY <1>2, <1>6, <1>7 DEF Least
<1> QED
  BY <1>1, <1>2, <1>4, <1>5, <1>8, <1>9 DEF as

-----------------------------------------------------------------------------
(* Start-up.                                                               *)

LEMMA ListedFinite ==
    ASSUME NEW t \in Seq(AllRows \cup {None}), NEW last \in 0 .. Len(t)
    PROVE  /\ IsFiniteSet(Listed(t, last)) /\ Cardinality(Listed(t, last)) \in Nat
           /\ \A id \in Listed(t, last) : id \in DOMAIN t /\ t[id] \in AllRows
<1>1. IsFiniteSet(1 .. last)
  BY FS_Interval
<1>2. Listed(t, last) \in SUBSET (1 .. last)
  BY DEF Listed
<1>3. IsFiniteSet(Listed(t, last))
  BY <1>1, <1>2, FS_Subset
<1> QED
  BY <1>3, FS_CardinalityType DEF Listed

\* The sort returns every listed row, and only those.
LEMMA SortedRows ==
    ASSUME NEW t \in Seq(AllRows \cup {None}), NEW last \in 0 .. Len(t),
           NEW rs \in SortedBySpecificity(t, Listed(t, last))
    PROVE  rs \in Seq(AllRows) /\ Elements(rs) = {t[id] : id \in Listed(t, last)}
<1> DEFINE ids == Listed(t, last)
           n == Cardinality(ids)
<1>1. PICK o \in [1 .. n -> ids] :
            /\ \A i, j \in 1 .. n : i # j => o[i] # o[j]
            /\ rs = [i \in 1 .. n |-> t[o[i]]]
  BY DEF SortedBySpecificity
<1>2. IsFiniteSet(ids) /\ n \in Nat /\ \A id \in ids : t[id] \in AllRows
  BY ListedFinite
<1> HIDE DEF ids, n
<1>3. rs \in Seq(AllRows) /\ DOMAIN rs = 1 .. n
  BY <1>1, <1>2
<1>4. o \in Injection(1 .. n, ids)
  BY <1>1 DEF Injection, IsInjective
<1>5. Cardinality(1 .. n) = n
  BY <1>2, FS_Interval
<1>6. o \in Surjection(1 .. n, ids)
  BY <1>2, <1>4, <1>5, FS_Injection DEF n
<1>7. \A id \in ids : \E i \in 1 .. n : o[i] = id
  BY <1>6 DEF Surjection
<1>8. Elements(rs) = {t[id] : id \in ids}
  BY <1>1, <1>3, <1>7 DEF Elements
<1> QED
  BY <1>3, <1>8 DEF ids

LEMMA BootsOK ==
    ASSUME NEW t \in Seq(AllRows \cup {None}), NEW b \in Boots(t)
    PROVE  /\ b.online \in BOOLEAN /\ b.stale \in BOOLEAN /\ b.ranges \in Seq(AllRows)
           /\ b.stale = FALSE => Elements(b.ranges) = Elements(t) \ {None}
<1> DEFINE Good == /\ b.online \in BOOLEAN /\ b.stale \in BOOLEAN /\ b.ranges \in Seq(AllRows)
                   /\ b.stale = FALSE => Elements(b.ranges) = Elements(t) \ {None}
<1>1. ASSUME NEW rs \in SortedBySpecificity(t, Listed(t, Len(t))),
             b = [online |-> TRUE, ranges |-> rs, stale |-> FALSE]
      PROVE  Good
  <2>1. Len(t) \in 0 .. Len(t) /\ DOMAIN t = 1 .. Len(t)
    OBVIOUS
  <2>2. rs \in Seq(AllRows) /\ Elements(rs) = {t[id] : id \in Listed(t, Len(t))}
    BY <2>1, SortedRows
  <2>3. {t[id] : id \in Listed(t, Len(t))} = Elements(t) \ {None}
    BY <2>1 DEF Listed, Elements
  <2>4. b.online = TRUE /\ b.stale = FALSE /\ b.ranges = rs
    BY <1>1
  <2> QED
    BY <2>2, <2>3, <2>4
<1>2. ASSUME NEW last \in 0 .. Len(t), NEW rs \in SortedBySpecificity(t, Listed(t, last)),
             b = [online |-> TRUE, ranges |-> rs, stale |-> TRUE]
      PROVE  Good
  <2>1. rs \in Seq(AllRows)
    BY SortedRows
  <2> QED
    BY <1>2, <2>1
<1>3. ASSUME b = [online |-> FALSE, ranges |-> <<>>, stale |-> TRUE]
      PROVE  Good
  BY <1>3
<1> HIDE DEF Good
<1>4. \/ \E rs \in SortedBySpecificity(t, Listed(t, Len(t))) :
            b = [online |-> TRUE, ranges |-> rs, stale |-> FALSE]
      \/ \E last \in 0 .. Len(t) : \E rs \in SortedBySpecificity(t, Listed(t, last)) :
            b = [online |-> TRUE, ranges |-> rs, stale |-> TRUE]
      \/ b = [online |-> FALSE, ranges |-> <<>>, stale |-> TRUE]
  BY Zenon DEF Boots
<1>5. Good
  BY <1>1, <1>2, <1>3, <1>4, Zenon
<1> QED
  BY <1>5 DEF Good

-----------------------------------------------------------------------------
(* The types.                                                              *)

\* A login about to add its session took the expiry at an earlier time.
Timely ==
    \A l \in Logins : login[l].at = "add" => login[l].session.expiresAt <= now + TTL

LEMMA LoginShape ==
    ASSUME TypeOK, NEW l \in Logins
    PROVE  /\ login[l].at = "valid" => login[l].ip \in IPs /\ login[l].user \in Users
           /\ login[l].at = "add" => login[l].ip \in IPs /\ login[l].session \in Sessions
  BY DEF TypeOK, LoginStates, NoLogin

LEMMA GroupInGroups ==
    ASSUME TypeOK, NEW ip PROVE GetRangeGroupID(ip) \in Groups
<1>1. CASE Matches(ranges, ip) = {}
  BY <1>1, IdentityAssumption DEF GetRangeGroupID
<1>2. CASE Matches(ranges, ip) # {}
  BY <1>2, FirstIsRow DEF GetRangeGroupID, TypeOK, AllRows
<1> QED
  BY <1>1, <1>2

\* The fallback to the user's own group is never taken.
LEMMA LoginGroupIsRangeGroup ==
    ASSUME TypeOK, NEW ip, NEW u PROVE LoginGroup(ip, u) = GetRangeGroupID(ip)
  BY GroupInGroups, IdentityAssumption DEF LoginGroup

\* What FindGroup leaves in the login.
LEMMA FindGroupEffect ==
    ASSUME TypeOK, NEW l \in Logins, FindGroup(l)
    PROVE  /\ login[l].ip \in IPs /\ login[l].user \in Users
           /\ login' \in [Logins -> LoginStates]
           /\ \A k \in Logins : k # l => login'[k] = login[k]
           /\ login'[l].at = "add" /\ login'[l].ip = login[l].ip
           /\ login'[l].session.user = login[l].user
           /\ login'[l].session.group = GetRangeGroupID(login[l].ip)
           /\ login'[l].session.expiresAt = now + TTL
<1> DEFINE s == [user |-> login[l].user, group |-> GetRangeGroupID(login[l].ip),
                 expiresAt |-> now + TTL]
           r == [at |-> "add", ip |-> login[l].ip, session |-> s]
<1>1. login[l].at = "valid" /\ login' = [login EXCEPT ![l] = r]
  BY LoginGroupIsRangeGroup DEF FindGroup
<1>2. login[l].ip \in IPs /\ login[l].user \in Users
  BY <1>1, LoginShape
<1>3. now + TTL \in 0 .. MaxNow + TTL
  BY IdentityAssumption DEF TypeOK
<1>4. s \in Sessions
  BY <1>2, <1>3, GroupInGroups DEF Sessions
<1>5. r \in LoginStates
  <2> HIDE DEF s
  <2> QED
    BY <1>2, <1>4 DEF LoginStates
<1>6. /\ r.at = "add" /\ r.ip = login[l].ip /\ r.session.user = login[l].user
      /\ r.session.group = GetRangeGroupID(login[l].ip)
      /\ r.session.expiresAt = now + TTL
  OBVIOUS
<1> HIDE DEF r
<1> QED
  BY <1>1, <1>2, <1>5, <1>6 DEF TypeOK

LEMMA AddSessionEffect ==
    ASSUME TypeOK, NEW l \in Logins, AddSession(l)
    PROVE  /\ login[l].at = "add" /\ login[l].ip \in IPs /\ login[l].session \in Sessions
           /\ login' \in [Logins -> LoginStates]
           /\ \A k \in Logins : k # l => login'[k] = login[k]
           /\ login'[l].at = "idle"
           /\ sessions' \in [IPs -> Sessions \cup {None}]
           /\ \A ip \in IPs : sessions'[ip] = IF ip = login[l].ip THEN login[l].session
                                              ELSE sessions[ip]
<1>1. /\ login[l].at = "add" /\ login' = [login EXCEPT ![l] = NoLogin]
      /\ sessions' = [sessions EXCEPT ![login[l].ip] = login[l].session]
  BY DEF AddSession
<1>2. login[l].ip \in IPs /\ login[l].session \in Sessions
  BY <1>1, LoginShape
<1>3. NoLogin \in LoginStates /\ NoLogin.at = "idle"
  BY DEF LoginStates, NoLogin
<1> QED
  BY <1>1, <1>2, <1>3 DEF TypeOK

LEMMA AuthenticateEffect ==
    ASSUME TypeOK, NEW l \in Logins, NEW ip \in IPs, NEW u \in Users, Authenticate(l, ip, u)
    PROVE  /\ login' \in [Logins -> LoginStates]
           /\ \A k \in Logins : k # l => login'[k] = login[k]
           /\ login'[l].at = "valid" /\ login'[l].ip = ip /\ login'[l].user = u
<1> DEFINE r == [at |-> "valid", ip |-> ip, user |-> u]
<1>1. login' = [login EXCEPT ![l] = r]
  BY DEF Authenticate
<1>2. r \in LoginStates /\ r.at = "valid" /\ r.ip = ip /\ r.user = u
  BY DEF LoginStates
<1> HIDE DEF r
<1> QED
  BY <1>1, <1>2 DEF TypeOK

\* What the table and the requests become.
LEMMA TableEffect ==
    ASSUME TypeOK
    PROVE  /\ \A row \in AllRows : Append(table, row) \in Seq(AllRows \cup {None})
           /\ \A id \in DOMAIN table, row \in AllRows :
                [table EXCEPT ![id] = row] \in Seq(AllRows \cup {None})
           /\ \A ids : [id \in DOMAIN table |-> IF id \in ids THEN None ELSE table[id]]
                            \in Seq(AllRows \cup {None})
<1>1. table \in Seq(AllRows \cup {None}) /\ DOMAIN table = 1 .. Len(table) /\ Len(table) \in Nat
  BY DEF TypeOK
<1>2. ASSUME NEW row \in AllRows PROVE Append(table, row) \in Seq(AllRows \cup {None})
  BY <1>1
<1>3. ASSUME NEW id \in DOMAIN table, NEW row \in AllRows
      PROVE  [table EXCEPT ![id] = row] \in Seq(AllRows \cup {None})
  BY <1>1
<1>4. ASSUME NEW ids
      PROVE  [id \in DOMAIN table |-> IF id \in ids THEN None ELSE table[id]]
                            \in Seq(AllRows \cup {None})
  BY <1>1
<1> QED
  BY <1>2, <1>3, <1>4

LEMMA NextTypeOK == TypeOK /\ Timely /\ [Next]_vars => TypeOK' /\ Timely'
<1> SUFFICES ASSUME TypeOK, Timely, [Next]_vars PROVE TypeOK' /\ Timely'
  OBVIOUS
<1>0. TTL \in Nat /\ now \in Nat /\ Rows \subseteq AllRows
  BY IdentityAssumption DEF TypeOK
<1>1. ASSUME NEW l \in Logins, NEW ip \in IPs, NEW u \in Users, Authenticate(l, ip, u)
      PROVE  TypeOK' /\ Timely'
  <2>1. /\ UNCHANGED <<now, table, changes, online, ranges, sessions, request, boots, stale>>
        /\ granted' = granted \cup {<<ip, u>>}
    BY <1>1 DEF Authenticate, database
  <2>2. TypeOK'
    BY <1>1, <2>1, AuthenticateEffect DEF TypeOK
  <2>3. Timely'
    BY <1>1, <2>1, AuthenticateEffect DEF Timely
  <2> QED
    BY <2>2, <2>3
<1>2. ASSUME NEW l \in Logins, FindGroup(l) PROVE TypeOK' /\ Timely'
  <2>1. UNCHANGED <<now, table, changes, online, ranges, sessions, request, boots, stale,
                    granted>>
    BY <1>2 DEF FindGroup, database
  <2>2. TypeOK'
    BY <1>2, <2>1, FindGroupEffect DEF TypeOK
  <2>3. Timely'
    BY <1>0, <1>2, <2>1, FindGroupEffect DEF Timely
  <2> QED
    BY <2>2, <2>3
<1>3. ASSUME NEW l \in Logins, AddSession(l) PROVE TypeOK' /\ Timely'
  <2>1. UNCHANGED <<now, table, changes, online, ranges, request, boots, stale, granted>>
    BY <1>3 DEF AddSession, database
  <2>2. ASSUME NEW ip \in IPs, sessions'[ip] # None
        PROVE  sessions'[ip].expiresAt <= now + TTL
    BY <1>3, <2>2, AddSessionEffect DEF TypeOK, Timely
  <2>3. TypeOK'
    BY <1>3, <2>1, <2>2, AddSessionEffect DEF TypeOK
  <2>4. Timely'
    BY <1>3, <2>1, AddSessionEffect DEF Timely
  <2> QED
    BY <2>3, <2>4
<1>4. ASSUME NEW a \in Requests, NEW row \in Rows, CreateIPRange(a, row)
      PROVE  TypeOK' /\ Timely'
  <2>1. /\ UNCHANGED <<now, online, ranges, sessions, login, boots, stale, granted>>
        /\ changes < MaxChanges /\ changes' = changes + 1
        /\ table' = Append(table, row) /\ request' = [request EXCEPT ![a] = row]
    BY <1>4 DEF CreateIPRange, Change
  <2>2. changes' \in 0 .. MaxChanges
    BY <2>1, IdentityAssumption DEF TypeOK
  <2>3. table' \in Seq(AllRows \cup {None}) /\ request' \in [Requests -> AllRows \cup {None}]
    BY <1>0, <2>1, TableEffect DEF TypeOK
  <2> QED
    BY <2>1, <2>2, <2>3 DEF TypeOK, Timely
<1>5. ASSUME NEW a \in Requests, AddRange(a) PROVE TypeOK' /\ Timely'
  <2>1. /\ UNCHANGED <<now, table, changes, online, sessions, login, boots, stale, granted>>
        /\ request[a] # None /\ ranges' = Append(ranges, request[a])
        /\ request' = [request EXCEPT ![a] = None]
    BY <1>5 DEF AddRange, database
  <2>2. request[a] \in AllRows
    BY <2>1 DEF TypeOK
  <2>3. ranges' \in Seq(AllRows) /\ request' \in [Requests -> AllRows \cup {None}]
    BY <2>1, <2>2 DEF TypeOK
  <2> QED
    BY <2>1, <2>3 DEF TypeOK, Timely
<1>6. ASSUME UNCHANGED <<now, online, ranges, sessions, login, request, boots, granted>>,
             Change, stale' = TRUE, table' \in Seq(AllRows \cup {None})
      PROVE  TypeOK' /\ Timely'
  <2>1. changes' \in 0 .. MaxChanges
    BY <1>6, IdentityAssumption DEF TypeOK, Change
  <2> QED
    BY <1>6, <2>1 DEF TypeOK, Timely
<1>7. ASSUME NEW id \in DOMAIN table, NEW row \in Rows, UpdateIPRange(id, row)
      PROVE  TypeOK' /\ Timely'
  <2>1. table' \in Seq(AllRows \cup {None})
    BY <1>0, <1>7, TableEffect DEF UpdateIPRange
  <2> QED
    BY <1>6, <1>7, <2>1 DEF UpdateIPRange
<1>8. ASSUME NEW ids, DeleteIPRanges(ids) PROVE TypeOK' /\ Timely'
  <2>1. table' \in Seq(AllRows \cup {None})
    BY <1>8, TableEffect DEF DeleteIPRanges
  <2> QED
    BY <1>6, <1>8, <2>1 DEF DeleteIPRanges
<1>9. CASE EvictExpiredSessions
  <2>1. /\ UNCHANGED <<now, table, changes, online, ranges, login, request, boots, stale,
                       granted>>
        /\ sessions' = [ip \in IPs |-> IF sessions[ip] # None /\ now > sessions[ip].expiresAt
                                       THEN None ELSE sessions[ip]]
    BY <1>9 DEF EvictExpiredSessions, database
  <2>2. sessions' \in [IPs -> Sessions \cup {None}]
    BY <2>1 DEF TypeOK
  <2>3. \A ip \in IPs : sessions'[ip] # None => sessions'[ip].expiresAt <= now + TTL
    BY <2>1 DEF TypeOK
  <2> QED
    BY <2>1, <2>2, <2>3 DEF TypeOK, Timely
<1>10. CASE Restart
  <2>1. /\ UNCHANGED <<now, table, changes>> /\ boots' = 1 - boots
        /\ sessions' = [ip \in IPs |-> None] /\ login' = [l \in Logins |-> NoLogin]
        /\ request' = [a \in Requests |-> None] /\ granted' = {}
    BY <1>10 DEF Restart, database
  <2>2. PICK b \in Boots(table) : online' = b.online /\ ranges' = b.ranges /\ stale' = b.stale
    BY <1>10 DEF Restart
  <2>3. online' \in BOOLEAN /\ ranges' \in Seq(AllRows) /\ stale' \in BOOLEAN
    BY <2>2, BootsOK DEF TypeOK
  <2>4. boots' \in 0 .. 1
    BY <2>1 DEF TypeOK
  <2>5. NoLogin \in LoginStates /\ NoLogin.at = "idle"
    BY DEF LoginStates, NoLogin
  <2>6. TypeOK'
    BY <2>1, <2>3, <2>4, <2>5 DEF TypeOK
  <2>7. Timely'
    BY <2>1, <2>5 DEF Timely
  <2> QED
    BY <2>6, <2>7
<1>11. CASE Tick
  <2>1. /\ UNCHANGED <<table, changes, online, ranges, sessions, login, request, boots,
                       stale, granted>>
        /\ now' = now + 1 /\ now < MaxNow
    BY <1>11 DEF Tick, database
  <2>2. now' \in 0 .. MaxNow
    BY <1>0, <2>1, IdentityAssumption
  <2>3. ASSUME NEW ip \in IPs, sessions[ip] # None
        PROVE  sessions[ip].expiresAt <= now + 1 + TTL
    <3>1. sessions[ip].expiresAt \in Nat /\ sessions[ip].expiresAt <= now + TTL
      BY <1>0, <2>3, IdentityAssumption DEF TypeOK, Sessions
    <3> QED
      BY <1>0, <3>1
  <2>4. ASSUME NEW l \in Logins, login[l].at = "add"
        PROVE  login[l].session.expiresAt <= now + 1 + TTL
    <3>1. login[l].session \in Sessions
      BY <2>4, LoginShape
    <3>2. login[l].session.expiresAt \in Nat /\ login[l].session.expiresAt <= now + TTL
      BY <1>0, <2>4, <3>1, IdentityAssumption DEF Timely, Sessions
    <3> QED
      BY <1>0, <3>2
  <2>5. TypeOK'
    BY <2>1, <2>2, <2>3 DEF TypeOK
  <2> QED
    BY <2>1, <2>4, <2>5 DEF Timely
<1>12. CASE UNCHANGED vars
  BY <1>12 DEF vars, database, TypeOK, Timely
<1> QED
  BY <1>1, <1>2, <1>3, <1>4, <1>5, <1>7, <1>8, <1>9, <1>10, <1>11, <1>12 DEF Next

LEMMA InitTypes == Init => TypeOK /\ Timely
<1> SUFFICES ASSUME Init PROVE TypeOK /\ Timely
  OBVIOUS
<1>1. InitialTable \in Seq(AllRows \cup {None})
  BY IdentityAssumption
<1>2. PICK b \in Boots(InitialTable) : online = b.online /\ ranges = b.ranges /\ stale = b.stale
  BY DEF Init
<1>3. online \in BOOLEAN /\ ranges \in Seq(AllRows) /\ stale \in BOOLEAN
  BY <1>1, <1>2, BootsOK
<1>4. NoLogin \in LoginStates /\ NoLogin.at = "idle"
  BY DEF LoginStates, NoLogin
<1>5. 0 \in 0 .. MaxNow /\ 0 \in 0 .. MaxChanges
  BY IdentityAssumption
<1> QED
  BY <1>1, <1>3, <1>4, <1>5 DEF Init, TypeOK, Timely

LEMMA TypesHold == Spec => [](TypeOK /\ Timely)
  BY InitTypes, NextTypeOK, PTL DEF Spec

\* The state keeps its shape, and no session outlives one TTL, although the
\* expiry is taken before the session is added.
THEOREM TypeCorrect == Spec => []TypeOK
  BY TypesHold, PTL

-----------------------------------------------------------------------------
(* Access through a captive range.                                         *)

\* Behind every session, and every login on its way to one, there is a
\* validated login of that user from that address.
LoggedIn ==
    /\ \A ip \in IPs : sessions[ip] # None => <<ip, sessions[ip].user>> \in granted
    /\ \A l \in Logins :
        /\ login[l].at = "valid" => <<login[l].ip, login[l].user>> \in granted
        /\ login[l].at = "add" => <<login[l].ip, login[l].session.user>> \in granted

\* The steps that leave the sessions and the logins alone.
LEMMA OtherSteps ==
    ASSUME [Next]_vars
    PROVE  \/ \E l \in Logins, ip \in IPs, u \in Users : Authenticate(l, ip, u)
           \/ \E l \in Logins : FindGroup(l) \/ AddSession(l)
           \/ EvictExpiredSessions
           \/ Restart
           \/ UNCHANGED <<sessions, login, granted, boots>>
<1>1. ASSUME NEW a \in Requests, NEW row \in Rows, CreateIPRange(a, row)
      PROVE  UNCHANGED <<sessions, login, granted, boots>>
  BY <1>1 DEF CreateIPRange
<1>2. ASSUME NEW a \in Requests, AddRange(a)
      PROVE  UNCHANGED <<sessions, login, granted, boots>>
  BY <1>2 DEF AddRange
<1>3. ASSUME NEW id \in DOMAIN table, NEW row \in Rows, UpdateIPRange(id, row)
      PROVE  UNCHANGED <<sessions, login, granted, boots>>
  BY <1>3 DEF UpdateIPRange
<1>4. ASSUME NEW ids, DeleteIPRanges(ids)
      PROVE  UNCHANGED <<sessions, login, granted, boots>>
  BY <1>4 DEF DeleteIPRanges
<1>5. Tick \/ UNCHANGED vars => UNCHANGED <<sessions, login, granted, boots>>
  BY DEF Tick, vars
<1> QED
  BY <1>1, <1>2, <1>3, <1>4, <1>5 DEF Next

LEMMA EvictEffect ==
    ASSUME EvictExpiredSessions
    PROVE  /\ UNCHANGED <<now, ranges, login, granted, boots>>
           /\ \A ip \in IPs : \/ sessions'[ip] = sessions[ip]
                              \/ sessions'[ip] = None /\ now > sessions[ip].expiresAt
  BY DEF EvictExpiredSessions

LEMMA RestartEffect ==
    ASSUME Restart
    PROVE  /\ \A ip \in IPs : sessions'[ip] = None
           /\ \A l \in Logins : login'[l].at = "idle"
           /\ \A a \in Requests : request'[a] = None
           /\ boots' = 1 - boots
  BY DEF Restart, NoLogin

LEMMA NextLoggedIn == TypeOK /\ LoggedIn /\ [Next]_vars => LoggedIn'
<1> SUFFICES ASSUME TypeOK, LoggedIn, [Next]_vars PROVE LoggedIn'
  OBVIOUS
<1>1. ASSUME NEW l \in Logins, NEW ip \in IPs, NEW u \in Users, Authenticate(l, ip, u)
      PROVE  LoggedIn'
  <2>1. sessions' = sessions /\ granted' = granted \cup {<<ip, u>>}
    BY <1>1 DEF Authenticate
  <2>2. /\ \A k \in Logins : k # l => login'[k] = login[k]
        /\ login'[l].at = "valid" /\ <<login'[l].ip, login'[l].user>> = <<ip, u>>
    BY <1>1, AuthenticateEffect
  <2> QED
    BY <2>1, <2>2 DEF LoggedIn
<1>2. ASSUME NEW l \in Logins, FindGroup(l) PROVE LoggedIn'
  <2>1. UNCHANGED <<sessions, granted>> /\ login[l].at = "valid"
    BY <1>2 DEF FindGroup
  <2>2. /\ \A k \in Logins : k # l => login'[k] = login[k]
        /\ login'[l].at = "add" /\ login'[l].ip = login[l].ip
        /\ login'[l].session.user = login[l].user
    BY <1>2, FindGroupEffect
  <2> QED
    BY <2>1, <2>2 DEF LoggedIn
<1>3. ASSUME NEW l \in Logins, AddSession(l) PROVE LoggedIn'
  <2>1. granted' = granted
    BY <1>3 DEF AddSession
  <2>2. /\ \A k \in Logins : k # l => login'[k] = login[k]
        /\ login[l].at = "add" /\ login'[l].at = "idle"
        /\ \A ip \in IPs : sessions'[ip] = IF ip = login[l].ip THEN login[l].session
                                           ELSE sessions[ip]
    BY <1>3, AddSessionEffect
  <2>3. \A ip \in IPs : sessions'[ip] # None => <<ip, sessions'[ip].user>> \in granted
    BY <2>2 DEF LoggedIn
  <2> QED
    BY <2>1, <2>2, <2>3 DEF LoggedIn
<1>4. CASE EvictExpiredSessions
  BY <1>4, EvictEffect DEF LoggedIn
<1>5. CASE Restart
  BY <1>5, RestartEffect DEF LoggedIn
<1>6. CASE UNCHANGED <<sessions, login, granted, boots>>
  BY <1>6 DEF LoggedIn
<1> QED
  BY <1>1, <1>2, <1>3, <1>4, <1>5, <1>6, OtherSteps

\* An address whose range demands a login gets through only as a user who has
\* logged in from it since start-up, and for at most one TTL (resolver.go,
\* Resolve; server.go, handleAuth).
THEOREM LoginRequired == Spec => []AccessNeedsLogin
<1>1. Init => LoggedIn
  BY DEF Init, LoggedIn, NoLogin
<1>2. TypeOK /\ LoggedIn => AccessNeedsLogin
  <2> SUFFICES ASSUME TypeOK, LoggedIn, NEW ip \in IPs, Matches(ranges, ip) # {},
                      FirstMatch(ranges, ip).auth = "captive", Resolve(ip).auth = "none"
               PROVE  /\ <<ip, Resolve(ip).user>> \in granted
                      /\ sessions[ip].expiresAt \in now + 1 .. now + TTL
    BY DEF AccessNeedsLogin
  <2>1. Live(ip)
    BY DEF Resolve
  <2>2. Resolve(ip).user = sessions[ip].user
    BY <2>1 DEF Resolve
  <2>3. sessions[ip] # None /\ now < sessions[ip].expiresAt
    BY <2>1 DEF Live
  <2>4. /\ sessions[ip].expiresAt \in Nat /\ sessions[ip].expiresAt <= now + TTL
        /\ now \in Nat /\ TTL \in Nat
    BY <2>3, IdentityAssumption DEF TypeOK, Sessions
  <2> QED
    BY <2>2, <2>3, <2>4 DEF LoggedIn
<1> QED
  BY <1>1, <1>2, TypesHold, NextLoggedIn, PTL DEF Spec

-----------------------------------------------------------------------------
(* The group of a session.                                                 *)

Fits(ip, g) == g \in {GetRangeGroupID(ip), DefaultGroup}

Grouped ==
    /\ \A ip \in IPs : sessions[ip] # None => Fits(ip, sessions[ip].group)
    /\ \A l \in Logins : login[l].at = "add" => Fits(login[l].ip, login[l].session.group)

\* While the process lives, ranges are only appended: a group that fitted fits.
LEMMA FitsStays ==
    ASSUME TypeOK, [Next]_vars, ~Restart, NEW ip, NEW g, Fits(ip, g)
    PROVE  Fits(ip, g)'
<1>1. ASSUME NEW a \in Requests, AddRange(a) PROVE Fits(ip, g)'
  <2>1. request[a] \in AllRows /\ ranges' = Append(ranges, request[a])
    BY <1>1 DEF AddRange, TypeOK
  <2>2. CASE Matches(ranges, ip) # {}
    <3>1. Matches(ranges', ip) # {} /\ FirstMatch(ranges', ip) = FirstMatch(ranges, ip)
      BY <2>1, <2>2, AppendKeepsFirst DEF TypeOK
    <3> QED
      BY <2>2, <3>1 DEF Fits, GetRangeGroupID
  <2>3. CASE Matches(ranges, ip) = {}
    BY <2>3 DEF Fits, GetRangeGroupID
  <2> QED
    BY <2>2, <2>3
<1>2. ranges' = ranges => Fits(ip, g)'
  BY DEF Fits, GetRangeGroupID, FirstMatch, Matches
<1>3. ASSUME NEW a \in Requests, NEW row \in Rows, CreateIPRange(a, row)
      PROVE  ranges' = ranges
  BY <1>3 DEF CreateIPRange
<1>4. ASSUME NEW id \in DOMAIN table, NEW row \in Rows, UpdateIPRange(id, row)
      PROVE  ranges' = ranges
  BY <1>4 DEF UpdateIPRange
<1>5. ASSUME NEW ids, DeleteIPRanges(ids) PROVE ranges' = ranges
  BY <1>5 DEF DeleteIPRanges
<1>6. ASSUME NEW l \in Logins, FindGroup(l) \/ AddSession(l) PROVE ranges' = ranges
  BY <1>6 DEF FindGroup, AddSession
<1>7. ASSUME NEW l \in Logins, NEW i \in IPs, NEW u \in Users, Authenticate(l, i, u)
      PROVE  ranges' = ranges
  BY <1>7 DEF Authenticate
<1>8. EvictExpiredSessions \/ Tick \/ UNCHANGED vars => ranges' = ranges
  BY DEF EvictExpiredSessions, Tick, vars
<1> QED
  BY <1>1, <1>2, <1>3, <1>4, <1>5, <1>6, <1>7, <1>8 DEF Next

LEMMA NextGrouped == TypeOK /\ Grouped /\ [Next]_vars => Grouped'
<1> SUFFICES ASSUME TypeOK, Grouped, [Next]_vars PROVE Grouped'
  OBVIOUS
<1>1. CASE Restart
  BY <1>1, RestartEffect DEF Grouped
<1>2. CASE ~Restart
  <2>0. \A ip, g : Fits(ip, g) => Fits(ip, g)'
    BY <1>2, FitsStays
  <2>1. ASSUME NEW l \in Logins, NEW i \in IPs, NEW u \in Users, Authenticate(l, i, u)
        PROVE  Grouped'
    <3>1. sessions' = sessions
      BY <2>1 DEF Authenticate
    <3>2. /\ \A k \in Logins : k # l => login'[k] = login[k]
          /\ login'[l].at = "valid"
      BY <2>1, AuthenticateEffect
    <3> QED
      BY <2>0, <3>1, <3>2 DEF Grouped
  <2>2. ASSUME NEW l \in Logins, FindGroup(l) PROVE Grouped'
    <3>1. sessions' = sessions /\ ranges' = ranges
      BY <2>2 DEF FindGroup
    <3>2. /\ \A k \in Logins : k # l => login'[k] = login[k]
          /\ login'[l].ip = login[l].ip
          /\ login'[l].session.group = GetRangeGroupID(login[l].ip)
      BY <2>2, FindGroupEffect
    <3>3. Fits(login[l].ip, GetRangeGroupID(login[l].ip))
      BY DEF Fits
    <3> QED
      BY <2>0, <3>1, <3>2, <3>3 DEF Grouped
  <2>3. ASSUME NEW l \in Logins, AddSession(l) PROVE Grouped'
    <3>1. /\ \A k \in Logins : k # l => login'[k] = login[k]
          /\ login[l].at = "add" /\ login'[l].at = "idle"
          /\ \A ip \in IPs : sessions'[ip] = IF ip = login[l].ip THEN login[l].session
                                             ELSE sessions[ip]
      BY <2>3, AddSessionEffect
    <3> QED
      BY <2>0, <3>1 DEF Grouped
  <2>4. CASE EvictExpiredSessions
    BY <2>0, <2>4, EvictEffect DEF Grouped
  <2>5. CASE UNCHANGED <<sessions, login, granted, boots>>
    BY <2>0, <2>5 DEF Grouped
  <2> QED
    BY <1>2, <2>1, <2>2, <2>3, <2>4, <2>5, OtherSteps
<1> QED
  BY <1>1, <1>2

\* A session has the group that the ranges give its address, or the default
\* group, although the login reads the ranges before it adds the session.
THEOREM GroupOfSession == Spec => []SessionGroup
<1>1. Init => Grouped
  BY DEF Init, Grouped, NoLogin
<1>2. Grouped => SessionGroup
  BY DEF Grouped, Fits, SessionGroup
<1> QED
  BY <1>1, <1>2, TypesHold, NextGrouped, PTL DEF Spec

-----------------------------------------------------------------------------
(* The rows of ip_ranges and the resolver's ranges.                        *)

\* The rows committed by CreateRange requests that have still to append them.
Pending == {request[a] : a \in Requests} \ {None}

\* RangesApplied alone is not inductive: while requests stand between commit and
\* append, the resolver lacks just the rows that they hold.
Applied == ~stale => Elements(ranges) \cup Pending = Elements(table) \ {None}

LEMMA ElementsAppend ==
    ASSUME NEW S, NEW s \in Seq(S), NEW e \in S
    PROVE  Elements(Append(s, e)) = Elements(s) \cup {e}
<1> DEFINE as == Append(s, e)
           n == Len(s)
<1>1. n \in Nat /\ DOMAIN s = 1 .. n /\ DOMAIN as = 1 .. n + 1
  <2>1. as \in Seq(S) /\ Len(as) = n + 1
    OBVIOUS
  <2> HIDE DEF as
  <2> QED
    BY <2>1
<1>2. as[n + 1] = e /\ \A i \in 1 .. n : as[i] = s[i]
  OBVIOUS
<1> HIDE DEF as, n
<1>3. \A i : i \in 1 .. n + 1 <=> i \in 1 .. n \/ i = n + 1
  BY <1>1
<1>4. Elements(as) = Elements(s) \cup {e}
  <2>1. ASSUME NEW x \in Elements(as) PROVE x \in Elements(s) \cup {e}
    <3>1. PICK i \in 1 .. n + 1 : x = as[i]
      BY <1>1 DEF Elements
    <3>2. i \in 1 .. n => x = s[i] /\ i \in DOMAIN s
      BY <1>1, <1>2, <3>1
    <3> QED
      BY <1>2, <1>3, <3>1, <3>2 DEF Elements
  <2>2. ASSUME NEW x \in Elements(s) PROVE x \in Elements(as)
    <3>1. PICK i \in 1 .. n : x = s[i]
      BY <1>1 DEF Elements
    <3>2. i \in DOMAIN as /\ x = as[i]
      BY <1>1, <1>2, <1>3, <3>1
    <3> QED
      BY <3>2 DEF Elements
  <2>3. n + 1 \in DOMAIN as
    BY <1>1
  <2>4. e \in Elements(as)
    BY <1>2, <2>3 DEF Elements
  <2> QED
    BY <2>1, <2>2, <2>4
<1> QED
  BY <1>4 DEF as

LEMMA BootApplies ==
    ASSUME NEW b \in Boots(table), table \in Seq(AllRows \cup {None}),
           stale' = b.stale, ranges' = b.ranges, table' = table,
           \A a \in Requests : request'[a] = None
    PROVE  Applied'
<1>1. Pending' = {}
  BY DEF Pending
<1>2. b.stale \in BOOLEAN /\ (b.stale = FALSE => Elements(b.ranges) = Elements(table) \ {None})
  BY BootsOK
<1>3. CASE b.stale = FALSE
  BY <1>1, <1>2, <1>3 DEF Applied
<1>4. CASE b.stale = TRUE
  BY <1>4 DEF Applied
<1> QED
  BY <1>2, <1>3, <1>4

LEMMA NextApplied == TypeOK /\ Applied /\ [Next]_vars => Applied'
<1> SUFFICES ASSUME TypeOK, Applied, [Next]_vars PROVE Applied'
  OBVIOUS
<1>1. ASSUME NEW a \in Requests, NEW row \in Rows, CreateIPRange(a, row)
      PROVE  Applied'
  <2>1. row \in AllRows /\ row # None
    BY IdentityAssumption
  <2>2. /\ request[a] = None /\ request \in [Requests -> AllRows \cup {None}]
        /\ request' = [request EXCEPT ![a] = row]
        /\ stale' = stale /\ ranges' = ranges /\ table' = Append(table, row)
    BY <1>1 DEF CreateIPRange, TypeOK
  <2>3. Pending' = Pending \cup {row}
    BY <2>1, <2>2 DEF Pending
  <2>4. Elements(table') = Elements(table) \cup {row}
    BY <2>1, <2>2, ElementsAppend DEF TypeOK
  <2> QED
    BY <2>1, <2>2, <2>3, <2>4 DEF Applied
<1>2. ASSUME NEW a \in Requests, AddRange(a) PROVE Applied'
  <2>1. /\ request[a] # None /\ request \in [Requests -> AllRows \cup {None}]
        /\ request' = [request EXCEPT ![a] = None]
        /\ stale' = stale /\ ranges' = Append(ranges, request[a]) /\ table' = table
    BY <1>2 DEF AddRange, TypeOK, database
  <2>2. Pending = Pending' \cup {request[a]}
    BY <2>1 DEF Pending
  <2>3. Elements(ranges') = Elements(ranges) \cup {request[a]}
    BY <2>1, ElementsAppend DEF TypeOK
  <2> QED
    BY <2>1, <2>2, <2>3 DEF Applied
<1>3. ASSUME NEW id \in DOMAIN table, NEW row \in Rows, UpdateIPRange(id, row)
      PROVE  Applied'
  BY <1>3 DEF UpdateIPRange, Applied
<1>4. ASSUME NEW ids, DeleteIPRanges(ids) PROVE Applied'
  BY <1>4 DEF DeleteIPRanges, Applied
<1>5. CASE Restart
  <2>1. PICK b \in Boots(table) : ranges' = b.ranges /\ stale' = b.stale
    BY <1>5 DEF Restart
  <2>2. table' = table /\ \A a \in Requests : request'[a] = None
    BY <1>5 DEF Restart, database
  <2> QED
    BY <2>1, <2>2, BootApplies DEF TypeOK
<1>6. UNCHANGED <<stale, ranges, table, request>> => Applied'
  BY DEF Applied, Pending
<1>7. ASSUME NEW l \in Logins, NEW ip \in IPs, NEW u \in Users, Authenticate(l, ip, u)
      PROVE  UNCHANGED <<stale, ranges, table, request>>
  BY <1>7 DEF Authenticate, database
<1>8. ASSUME NEW l \in Logins, FindGroup(l) \/ AddSession(l)
      PROVE  UNCHANGED <<stale, ranges, table, request>>
  BY <1>8 DEF FindGroup, AddSession, database
<1>9. EvictExpiredSessions \/ Tick \/ UNCHANGED vars
        => UNCHANGED <<stale, ranges, table, request>>
  BY DEF EvictExpiredSessions, Tick, vars, database
<1> QED
  BY <1>1, <1>2, <1>3, <1>4, <1>5, <1>6, <1>7, <1>8, <1>9 DEF Next

\* Unless rows were changed or deleted behind its back, the resolver holds the
\* rows of ip_ranges whenever no request stands between commit and append, for
\* any number of concurrent requests and crashes (resolver.go, AddRange;
\* handlers.go, CreateRange).
THEOREM RangesFollowTable == Spec => []RangesApplied
<1>1. Init => Applied
  <2> SUFFICES ASSUME Init PROVE Applied
    OBVIOUS
  <2>1. PICK b \in Boots(table) : ranges = b.ranges /\ stale = b.stale
    BY DEF Init
  <2>2. table \in Seq(AllRows \cup {None}) /\ Pending = {}
    <3>1. table \in Seq(AllRows)
      BY IdentityAssumption DEF Init
    <3>2. \A i \in 1 .. Len(table) : table[i] \in AllRows
      BY <3>1
    <3> QED
      BY <3>1, <3>2 DEF Init, Pending
  <2>3. b.stale \in BOOLEAN /\ (b.stale = FALSE => Elements(b.ranges) = Elements(table) \ {None})
    BY <2>2, BootsOK
  <2>4. CASE b.stale = FALSE
    BY <2>1, <2>2, <2>3, <2>4 DEF Applied
  <2>5. CASE b.stale = TRUE
    BY <2>1, <2>5 DEF Applied
  <2> QED
    BY <2>3, <2>4, <2>5
<1>2. Applied => RangesApplied
  <2> SUFFICES ASSUME Applied, ~stale, \A a \in Requests : request[a] = None
               PROVE  Elements(ranges) = Elements(table) \ {None}
    BY DEF RangesApplied
  <2>1. Pending = {}
    BY DEF Pending
  <2> QED
    BY <2>1 DEF Applied
<1> QED
  BY <1>1, <1>2, TypesHold, NextApplied, PTL DEF Spec

-----------------------------------------------------------------------------
(* Live sessions.                                                          *)

\* Login l takes its turn at address ip after the session it adds has expired.
HeldUp(l, ip) ==
    /\ login[l].at = "add" /\ login[l].ip = ip
    /\ login[l].session.expiresAt <= now
    /\ login'[l] = NoLogin

LEMMA LiveStays ==
    ASSUME TypeOK, [Next]_vars, boots' = boots, NEW ip \in IPs,
           sessions[ip] # None, now' < sessions[ip].expiresAt
    PROVE  Live(ip)' \/ \E l \in Logins : HeldUp(l, ip)
<1>0. now \in Nat /\ sessions[ip].expiresAt \in Nat
  BY IdentityAssumption DEF TypeOK, Sessions
<1>1. sessions'[ip] = sessions[ip] => Live(ip)'
  BY DEF Live
<1>2. ASSUME NEW l \in Logins, FindGroup(l) PROVE sessions'[ip] = sessions[ip]
  BY <1>2 DEF FindGroup
<1>3. ASSUME NEW l \in Logins, AddSession(l)
      PROVE  Live(ip)' \/ \E k \in Logins : HeldUp(k, ip)
  <2>1. /\ login[l].at = "add" /\ login[l].session \in Sessions
        /\ sessions'[ip] = IF ip = login[l].ip THEN login[l].session ELSE sessions[ip]
    BY <1>3, AddSessionEffect
  <2>2. login'[l] = NoLogin /\ now' = now
    BY <1>3 DEF AddSession, TypeOK
  <2>3. login[l].session # None /\ login[l].session.expiresAt \in Int
    BY <2>1, IdentityAssumption, NilAssumption DEF Sessions
  <2>4. CASE ip = login[l].ip /\ now < login[l].session.expiresAt
    BY <2>1, <2>2, <2>3, <2>4 DEF Live
  <2>5. CASE ip = login[l].ip /\ login[l].session.expiresAt <= now
    BY <2>1, <2>2, <2>5 DEF HeldUp
  <2> QED
    BY <1>0, <1>1, <2>1, <2>3, <2>4, <2>5
<1>4. ASSUME NEW l \in Logins, NEW i \in IPs, NEW u \in Users, Authenticate(l, i, u)
      PROVE  sessions'[ip] = sessions[ip]
  BY <1>4 DEF Authenticate
<1>5. CASE EvictExpiredSessions
  BY <1>0, <1>1, <1>5, EvictEffect
<1>6. ~Restart
  BY RestartEffect DEF TypeOK
<1>7. CASE UNCHANGED <<sessions, login, granted, boots>>
  BY <1>1, <1>7
<1> QED
  BY <1>1, <1>2, <1>3, <1>4, <1>5, <1>6, <1>7, OtherSteps

\* An address stays logged in until its session expires, whatever the evictor and
\* other logins do: only a restart ends a live session early, or a login held up
\* for a whole TTL (resolver.go, AddSession and EvictExpiredSessions; server.go,
\* handleAuth).
THEOREM SessionsSurvive == Spec => LiveSessionsKept
<1>1. TypeOK /\ [Next]_vars
        => [boots' = boots =>
             \A ip \in IPs : sessions[ip] # None /\ now' < sessions[ip].expiresAt =>
                \/ Live(ip)'
                \/ \E l \in Logins : /\ login[l].at = "add" /\ login[l].ip = ip
                                     /\ login[l].session.expiresAt <= now
                                     /\ login'[l] = NoLogin]_vars
  BY LiveStays DEF HeldUp
<1> QED
  BY <1>1, TypesHold, PTL DEF Spec, LiveSessionsKept

=============================================================================
