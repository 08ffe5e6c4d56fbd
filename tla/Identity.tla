------------------------------ MODULE Identity ------------------------------
(***************************************************************************)
(* Who a client is (internal/identity) and how it logs in at the captive   *)
(* portal (internal/captive): the resolver's sessions and IP ranges behind *)
(* one RWMutex, portal logins that read it, let go of it and write it      *)
(* later, admin API calls that change ip_ranges and then the resolver, the *)
(* session evictor, the passing of time, and restarts, which load the      *)
(* ranges again and lose every session.                                    *)
(*                                                                         *)
(* A row is [cidr, group, auth]: Covers[cidr] are the addresses the CIDR   *)
(* contains and Prefix[cidr] the length of its mask.                       *)
(***************************************************************************)
EXTENDS Integers, Sequences, FiniteSets

CONSTANTS
    IPs,            \* client addresses
    CIDRs, Covers, Prefix,
    Groups,         \* ids of groups
    DefaultGroup,   \* NewResolver(1)
    Users,
    UserGroup,      \* UserInfo.GroupID: 0 for every user of the database
    Logins,         \* concurrent POST /auth requests at the portal
    Requests,       \* concurrent POST /ranges requests at the API
    Rows,           \* rows that API requests carry
    InitialTable,   \* ip_ranges when the process starts
    TTL,            \* sessionTTL
    MaxNow,         \* bound: clock
    MaxChanges,     \* bound: committed changes of ip_ranges
    None            \* nil; a deleted row

Auths == {"none", "captive"}
AllRows == [cidr : CIDRs, group : Groups, auth : Auths]

ASSUME IdentityAssumption ==
    /\ Covers \in [CIDRs -> SUBSET IPs]
    /\ Prefix \in [CIDRs -> Nat]
    /\ Groups \subseteq Nat \ {0} /\ DefaultGroup \in Groups
    /\ Users \subseteq Nat \ {0}
    /\ UserGroup \in [Users -> Nat]
    /\ Rows \subseteq AllRows
    /\ InitialTable \in Seq(AllRows)
    /\ None \notin AllRows
    /\ TTL \in Nat /\ MaxNow \in Nat /\ MaxChanges \in Nat

VARIABLES
    now,       \* time.Now()
    table,     \* ip_ranges: id -> row, or None once deleted
    changes,   \* committed changes
    online,    \* the database answered at start-up: API and DB logins exist
    ranges,    \* Resolver.ranges
    sessions,  \* Resolver.sessions: ip -> [user, group, expiresAt] or None
    login,     \* login[l]: where portal request l is
    request,   \* request[a]: the row that API request a has still to append
    boots,     \* history: the number of restarts, modulo 2
    stale,     \* history: ip_ranges changed, or was not read, behind the memory
    granted    \* history: <<ip, user>> of every login validated since start-up

database == <<table, changes>>
vars == <<now, database, online, ranges, sessions, login, request, boots, stale,
          granted>>

Sessions == [user : Users, group : Groups, expiresAt : 0 .. MaxNow + TTL]
ASSUME NilAssumption == None \notin Sessions

NoLogin == [at |-> "idle"]
LoginStates ==
    {NoLogin} \cup [at : {"valid"}, ip : IPs, user : Users]
              \cup [at : {"add"}, ip : IPs, session : Sessions]

\* The shape of the state.  No session outlives one TTL from now.
TypeOK ==
    /\ now \in 0 .. MaxNow
    /\ table \in Seq(AllRows \cup {None})
    /\ changes \in 0 .. MaxChanges
    /\ online \in BOOLEAN
    /\ ranges \in Seq(AllRows)
    /\ sessions \in [IPs -> Sessions \cup {None}]
    /\ \A ip \in IPs : sessions[ip] # None => sessions[ip].expiresAt <= now + TTL
    /\ login \in [Logins -> LoginStates]
    /\ request \in [Requests -> AllRows \cup {None}]
    /\ boots \in 0 .. 1
    /\ stale \in BOOLEAN
    /\ granted \subseteq IPs \X Users

-----------------------------------------------------------------------------
(* Looking up an address.                                                  *)

Elements(s) == {s[i] : i \in DOMAIN s}

Matches(rs, ip) == {i \in DOMAIN rs : ip \in Covers[rs[i].cidr]}

\* The loop over r.ranges stops at the first range that contains the address.
FirstMatch(rs, ip) == rs[CHOOSE i \in Matches(rs, ip) : \A j \in Matches(rs, ip) : i <= j]

\* GetRangeGroupID: the default group, never 0, when no range matches.
GetRangeGroupID(ip) ==
    IF Matches(ranges, ip) = {} THEN DefaultGroup ELSE FirstMatch(ranges, ip).group

\* handleAuth's group of a login: the user's own only as the fallback for 0.
LoginGroup(ip, u) ==
    IF GetRangeGroupID(ip) = 0 THEN UserGroup[u] ELSE GetRangeGroupID(ip)

\* Variant of Live that forgets the expiry.
Live_Forever(ip) == sessions[ip] # None

Live(ip) == sessions[ip] # None /\ now < sessions[ip].expiresAt

\* Resolve: the session if it is live, then the first range, then the default.
Resolve(ip) ==
    IF Live(ip) THEN [user |-> sessions[ip].user, group |-> sessions[ip].group,
                      auth |-> "none"]
    ELSE IF Matches(ranges, ip) # {}
    THEN [user |-> 0, group |-> FirstMatch(ranges, ip).group,
          auth |-> FirstMatch(ranges, ip).auth]
    ELSE [user |-> 0, group |-> DefaultGroup, auth |-> "none"]

-----------------------------------------------------------------------------
(* Start-up.                                                               *)

\* The ids that ListIPRanges returns of a table: those up to `last'; rows.Err is
\* not looked at, so that a result may break off before the last row.
Listed(t, last) == {id \in 1 .. last : t[id] # None}

\* sort.Slice by mask length, longest first; it is not stable.
SortedBySpecificity(t, ids) ==
    {[i \in 1 .. Cardinality(ids) |-> t[order[i]]] :
        order \in {o \in [1 .. Cardinality(ids) -> ids] :
            /\ \A i, j \in 1 .. Cardinality(ids) : i # j => o[i] # o[j]
            /\ \A i \in 1 .. Cardinality(ids) - 1 :
                Prefix[t[o[i]].cidr] >= Prefix[t[o[i + 1]].cidr]}}

\* What start-up leaves in the resolver: the sorted ranges, as many as were
\* read, or none when the query or the connection failed.
Boots(t) ==
    {[online |-> TRUE, ranges |-> rs, stale |-> FALSE] :
        rs \in SortedBySpecificity(t, Listed(t, Len(t)))}
    \cup (UNION {{[online |-> TRUE, ranges |-> rs, stale |-> TRUE] :
        rs \in SortedBySpecificity(t, Listed(t, last))} : last \in 0 .. Len(t)})
    \cup {[online |-> FALSE, ranges |-> <<>>, stale |-> TRUE]}

Init ==
    /\ now = 0
    /\ table = InitialTable
    /\ changes = 0
    /\ \E b \in Boots(table) :
        online = b.online /\ ranges = b.ranges /\ stale = b.stale
    /\ sessions = [ip \in IPs |-> None]
    /\ login = [l \in Logins |-> NoLogin]
    /\ request = [a \in Requests |-> None]
    /\ boots = 0
    /\ granted = {}

\* The process ends at any point and is started again: sessions and requests in
\* flight are gone, and the ranges are read anew.
Restart ==
    /\ boots' = 1 - boots
    /\ \E b \in Boots(table) :
        online' = b.online /\ ranges' = b.ranges /\ stale' = b.stale
    /\ sessions' = [ip \in IPs |-> None]
    /\ login' = [l \in Logins |-> NoLogin]
    /\ request' = [a \in Requests |-> None]
    /\ granted' = {}
    /\ UNCHANGED <<now, database>>

-----------------------------------------------------------------------------
(* handleAuth.  A login that is refused changes nothing.                   *)

\* The database knows the user, it is active and the password is right.
Authenticate(l, ip, u) ==
    /\ login[l] = NoLogin
    /\ online
    /\ login' = [login EXCEPT ![l] = [at |-> "valid", ip |-> ip, user |-> u]]
    /\ granted' = granted \cup {<<ip, u>>}
    /\ UNCHANGED <<now, database, online, ranges, sessions, request, boots, stale>>

\* The group under the read lock, then the expiry; the session is not yet added.
FindGroup(l) ==
    /\ login[l].at = "valid"
    /\ login' = [login EXCEPT ![l] =
            [at |-> "add", ip |-> login[l].ip,
             session |-> [user |-> login[l].user,
                          group |-> LoginGroup(login[l].ip, login[l].user),
                          expiresAt |-> now + TTL]]]
    /\ UNCHANGED <<now, database, online, ranges, sessions, request, boots, stale,
                   granted>>

\* Variant of AddSession that counts the TTL from the expiry the address had.
AddSession_Extends(l) ==
    /\ login[l].at = "add"
    /\ LET old == sessions[login[l].ip]
           new == login[l].session
       IN  sessions' = [sessions EXCEPT ![login[l].ip] =
                IF old = None \/ old.expiresAt + TTL > MaxNow + TTL THEN new
                ELSE [new EXCEPT !.expiresAt = old.expiresAt + TTL]]
    /\ login' = [login EXCEPT ![l] = NoLogin]
    /\ UNCHANGED <<now, database, online, ranges, request, boots, stale, granted>>

\* AddSession replaces whatever session the address had.
AddSession(l) ==
    /\ login[l].at = "add"
    /\ sessions' = [sessions EXCEPT ![login[l].ip] = login[l].session]
    /\ login' = [login EXCEPT ![l] = NoLogin]
    /\ UNCHANGED <<now, database, online, ranges, request, boots, stale, granted>>

\* Variant of EvictExpiredSessions with the comparison the wrong way round.
EvictExpiredSessions_Backwards ==
    /\ \E ip \in IPs : sessions[ip] # None /\ now < sessions[ip].expiresAt
    /\ sessions' = [ip \in IPs |->
            IF sessions[ip] # None /\ now < sessions[ip].expiresAt
            THEN None ELSE sessions[ip]]
    /\ UNCHANGED <<now, database, online, ranges, login, request, boots, stale,
                   granted>>

\* Variant of EvictExpiredSessions that leaves a session one TTL of grace.
EvictExpiredSessions_Grace ==
    /\ \E ip \in IPs : sessions[ip] # None /\ now > sessions[ip].expiresAt + TTL
    /\ sessions' = [ip \in IPs |->
            IF sessions[ip] # None /\ now > sessions[ip].expiresAt + TTL
            THEN None ELSE sessions[ip]]
    /\ UNCHANGED <<now, database, online, ranges, login, request, boots, stale,
                   granted>>

\* The evictor's ticker, every minute.
EvictExpiredSessions ==
    /\ \E ip \in IPs : sessions[ip] # None /\ now > sessions[ip].expiresAt
    /\ sessions' = [ip \in IPs |->
            IF sessions[ip] # None /\ now > sessions[ip].expiresAt
            THEN None ELSE sessions[ip]]
    /\ UNCHANGED <<now, database, online, ranges, login, request, boots, stale,
                   granted>>

-----------------------------------------------------------------------------
(* The admin API.                                                          *)

Change ==
    /\ online
    /\ changes < MaxChanges
    /\ changes' = changes + 1

\* CreateRange: the row is committed first ...
CreateIPRange(a, row) ==
    /\ request[a] = None
    /\ Change
    /\ table' = Append(table, row)
    /\ request' = [request EXCEPT ![a] = row]
    /\ UNCHANGED <<now, online, ranges, sessions, login, boots, stale, granted>>

\* Variant of AddRange that puts the new range before the others.
AddRange_First(a) ==
    /\ request[a] # None
    /\ ranges' = <<request[a]>> \o ranges
    /\ request' = [request EXCEPT ![a] = None]
    /\ UNCHANGED <<now, database, online, sessions, login, boots, stale, granted>>

\* Variant of AddRange that replaces the others.
AddRange_Replaces(a) ==
    /\ request[a] # None
    /\ ranges' = <<request[a]>>
    /\ request' = [request EXCEPT ![a] = None]
    /\ UNCHANGED <<now, database, online, sessions, login, boots, stale, granted>>

\* ... and appended to the resolver's ranges afterwards.
AddRange(a) ==
    /\ request[a] # None
    /\ ranges' = Append(ranges, request[a])
    /\ request' = [request EXCEPT ![a] = None]
    /\ UNCHANGED <<now, database, online, sessions, login, boots, stale, granted>>

\* PUT and DELETE /ranges/{id}, and DELETE /groups/{id} by its cascade, change
\* the table only: nobody calls LoadRanges.
UpdateIPRange(id, row) ==
    /\ Change
    /\ table[id] # None
    /\ table' = [table EXCEPT ![id] = row]
    /\ stale' = TRUE
    /\ UNCHANGED <<now, online, ranges, sessions, login, request, boots, granted>>

DeleteIPRanges(ids) ==
    /\ Change
    /\ table' = [id \in DOMAIN table |-> IF id \in ids THEN None ELSE table[id]]
    /\ stale' = TRUE
    /\ UNCHANGED <<now, online, ranges, sessions, login, request, boots, granted>>

OfGroup(g) == {id \in DOMAIN table : table[id] # None /\ table[id].group = g}

Tick ==
    /\ now < MaxNow
    /\ now' = now + 1
    /\ UNCHANGED <<database, online, ranges, sessions, login, request, boots, stale,
                   granted>>

-----------------------------------------------------------------------------

Next ==
    \/ \E l \in Logins, ip \in IPs, u \in Users : Authenticate(l, ip, u)
    \/ \E l \in Logins : FindGroup(l) \/ AddSession(l)
    \/ \E a \in Requests, row \in Rows : CreateIPRange(a, row)
    \/ \E a \in Requests : AddRange(a)
    \/ \E id \in DOMAIN table, row \in Rows : UpdateIPRange(id, row)
    \/ \E id \in DOMAIN table : DeleteIPRanges({id})
    \/ \E g \in Groups : DeleteIPRanges(OfGroup(g))
    \/ EvictExpiredSessions
    \/ Restart
    \/ Tick

\* The evictor's ticker keeps firing; nothing else has to happen.
Fairness == WF_vars(EvictExpiredSessions)

Spec == Init /\ [][Next]_vars /\ Fairness

-----------------------------------------------------------------------------

\* RF05.4, RF05.5: a client whose range demands a login gets through only as a
\* user who has logged in from its address since start-up, and for at most one
\* TTL, however logins for one address overlap.
AccessNeedsLogin ==
    \A ip \in IPs :
        /\ Matches(ranges, ip) # {}
        /\ FirstMatch(ranges, ip).auth = "captive"
        /\ Resolve(ip).auth = "none"
        => /\ <<ip, Resolve(ip).user>> \in granted
           /\ sessions[ip].expiresAt \in now + 1 .. now + TTL

\* A session carries the group that the ranges give its address now, or the
\* default group when the address had no range at login, although the login read
\* the group and let go of the lock before it added the session.  For an address
\* without a range that is what the code does, not what the portal means to do: see
\* UserGroupWithoutRange, which fails.
SessionGroup ==
    \A ip \in IPs : sessions[ip] # None =>
        sessions[ip].group \in {GetRangeGroupID(ip), DefaultGroup}

\* Unless rows were changed or deleted behind its back, the resolver holds the
\* rows of ip_ranges whenever no request stands between commit and append, with
\* concurrent requests and with a crash between the two.
RangesApplied ==
    ~stale /\ (\A a \in Requests : request[a] = None) =>
        Elements(ranges) = Elements(table) \ {None}

\* RF05.5: an address that has logged in stays logged in until its session
\* expires: the evictor leaves a live session alone, and a login of another user,
\* which replaces it, leaves a live one in its place.  There are two exceptions: a
\* restart, and a login that was held up for a whole TTL between taking its
\* expiry and adding its session, which is expired when it replaces the live one.
LiveSessionsKept ==
    [][boots' = boots =>
        \A ip \in IPs : sessions[ip] # None /\ now' < sessions[ip].expiresAt =>
            \/ Live(ip)'
            \/ \E l \in Logins : /\ login[l].at = "add" /\ login[l].ip = ip
                                 /\ login[l].session.expiresAt <= now
                                 /\ login'[l] = NoLogin]_vars

\* RF05.5: a session past its time is removed or replaced.
ExpiredSessionsLeave ==
    \A ip \in IPs :
        (sessions[ip] # None /\ now > sessions[ip].expiresAt)
            ~> (sessions[ip] = None \/ now <= sessions[ip].expiresAt)

\* internal/identity/resolver.go: GetRangeGroupID "Returns 0 if no range matches",
\* and handleAuth then takes the user's own group, as TestAuthSuccess expects of a
\* resolver without ranges ("Expected group 2 after login").
UserGroupWithoutRange ==
    \A l \in Logins :
        login[l].at = "add" /\ Matches(ranges, login[l].ip) = {} =>
            login[l].session.group = UserGroup[login[l].session.user]

\* cmd/dnsfilter/main.go: "Sort by prefix length (most specific first) so /32
\* matches before /24".
MostSpecificFirst ==
    \A ip \in IPs : \A i \in Matches(ranges, ip) :
        Prefix[FirstMatch(ranges, ip).cidr] >= Prefix[ranges[i].cidr]
=============================================================================
