------------------------------ MODULE DnsCache ------------------------------
(***************************************************************************)
(* The two-level answer cache of internal/cache: an in-memory L1 map       *)
(* behind an RWMutex and an optional Redis L2, as DNS handler threads use  *)
(* it (ServeDNS steps 4 to 6: Get, on a miss the upstream, then Set), with *)
(* Invalidate (DELETE /cache/{domain}), the eviction loop, the passing of  *)
(* time and Redis failures.  L2 outlives the process: the model may start  *)
(* with an answer that an earlier life of the process left in Redis.       *)
(*                                                                         *)
(* An answer is [id, qtype, ttl, stored, promoted]: stored is the time of  *)
(* its first Set and promoted tells whether it has come back from Redis;   *)
(* the last two are history and no guard reads them.                       *)
(***************************************************************************)
EXTENDS Integers, FiniteSets

CONSTANTS
    Threads,        \* handler goroutines
    Names, Types,   \* domain names (lower case) and query types
    Known,          \* types with an entry in dns.TypeToString
    TTLs,           \* TTLs upstream answers may carry
    Floor, Ceiling, \* ttlFloor, ttlCeil
    MaxNow,         \* bound: clock
    MaxGets,        \* bound: calls of Get
    None            \* nil

ASSUME CacheAssumption ==
    /\ Known \subseteq Types
    /\ TTLs \subseteq Nat
    /\ Floor \in Nat /\ Ceiling \in Nat
    /\ MaxNow \in Nat /\ MaxGets \in Nat

\* No name in dns.TypeToString is empty.
ASSUME TypeNameAssumption == "" \notin Known

VARIABLES
    now,       \* time.Now()
    entries,   \* L1: key -> [msg, expiresAt] or None
    attached,  \* c.l2 # nil: Redis answered the ping at start-up
    redis,     \* L2: key -> [msg, expiresAt] or None
    thread,    \* thread[t]: where t is, the question, what it holds
    hits, misses,
    gets,      \* history: Gets begun
    purged     \* history: ids that were stored when Invalidate removed their name

vars == <<now, entries, attached, redis, thread, hits, misses, gets, purged>>

\* Variant of key that forgets the query type.
Key_NameOnly(n, q) == <<n, "">>

\* key: the lower-case name and dns.TypeToString, which is empty for every
\* type it does not know.
Key(n, q) == <<n, IF q \in Known THEN q ELSE "">>

Keys == Names \X (Known \cup {""})
Ids == 0 .. MaxGets
Answers == [id : Ids, qtype : Types, ttl : TTLs, stored : 0 .. MaxNow,
            promoted : BOOLEAN]
Stored == [msg : Answers, expiresAt : Nat]

AtMost(a, b) == IF a < b THEN a ELSE b
AtLeast(a, b) == IF a > b THEN a ELSE b

\* Variant of Lifetime without the upper clamp.
Lifetime_NoCeiling(msg) == AtLeast(Floor, AtMost(msg.ttl, 3600))

\* extractTTL: at most an hour, at least the floor, and then at most the
\* ceiling, which wins when the two contradict each other.
Lifetime(msg) == AtMost(Ceiling, AtLeast(Floor, AtMost(msg.ttl, 3600)))

\* When a key written to Redis expires: an expiration of 0 is none (go-redis),
\* that is, it does not expire while the model's clock runs.
RedisExpiry(written, msg) ==
    IF Lifetime(msg) = 0 THEN MaxNow + 1 ELSE written + Lifetime(msg)

\* A thread: its place, its question, the L1 pointer it read and the answer it
\* holds, with the time at which it took a hit.
Idle == [at |-> "idle"]
Busy == [at : {"check", "redisGet", "missed", "setL1", "setL2", "hit"},
         name : Names, qtype : Types, read : Stored \cup {None},
         msg : Answers \cup {None}, hit : BOOLEAN, time : 0 .. MaxNow,
         id : Ids, purged : SUBSET Ids]

\* The shape of the state; every L1 entry expires within its clamped lifetime.
TypeOK ==
    /\ now \in 0 .. MaxNow
    /\ entries \in [Keys -> Stored \cup {None}]
    /\ \A k \in Keys : entries[k] # None =>
            entries[k].expiresAt <= now + Ceiling
    /\ attached \in BOOLEAN
    /\ redis \in [Keys -> Stored \cup {None}]
    /\ thread \in [Threads -> {Idle} \cup Busy]
    /\ hits \in Nat /\ misses \in Nat /\ gets \in 0 .. MaxGets
    /\ purged \subseteq Ids

Empty == [k \in Keys |-> None]

\* An answer stored just before the process was started again.
LeftOver(q, ttl) ==
    LET m == [id |-> 0, qtype |-> q, ttl |-> ttl, stored |-> 0, promoted |-> FALSE]
    IN  [msg |-> m, expiresAt |-> RedisExpiry(0, m)]

\* What Redis may still hold when the process starts: nothing, or one answer.
LeftOvers ==
    {[Empty EXCEPT ![Key(n, q)] = LeftOver(q, ttl)] :
        n \in Names, q \in Types, ttl \in TTLs}

Init ==
    /\ now = 0
    /\ entries = Empty
    /\ attached \in BOOLEAN
    /\ redis \in {Empty} \cup LeftOvers
    /\ redis # Empty => attached
    /\ thread = [t \in Threads |-> Idle]
    /\ hits = 0 /\ misses = 0 /\ gets = 0
    /\ purged = {}

-----------------------------------------------------------------------------
(* Get.                                                                    *)

\* L1 lookup under the read lock: the thread leaves with the entry's pointer.
Get(t, n, q) ==
    /\ thread[t] = Idle
    /\ gets < MaxGets
    /\ gets' = gets + 1
    /\ thread' = [thread EXCEPT ![t] =
            [at |-> "check", name |-> n, qtype |-> q, read |-> entries[Key(n, q)],
             msg |-> None, hit |-> FALSE, time |-> 0, id |-> gets + 1,
             purged |-> purged]]
    /\ UNCHANGED <<now, entries, attached, redis, hits, misses, purged>>

\* Variant of CheckL1 that serves whatever it found.
CheckL1_NoExpiry(t) ==
    /\ thread[t].at = "check"
    /\ LET e == thread[t].read
       IN  IF e # None
           THEN /\ hits' = hits + 1
                /\ misses' = misses
                /\ thread' = [thread EXCEPT ![t].at = "hit", ![t].msg = e.msg,
                                            ![t].time = now, ![t].read = None]
           ELSE /\ thread' = [thread EXCEPT
                        ![t].at = IF attached THEN "redisGet" ELSE "missed",
                        ![t].read = None]
                /\ misses' = IF attached THEN misses ELSE misses + 1
                /\ hits' = hits
    /\ UNCHANGED <<now, entries, attached, redis, gets, purged>>

\* Outside the lock: a found entry that has not expired is a hit; without
\* Redis everything else is a miss.
CheckL1(t) ==
    /\ thread[t].at = "check"
    /\ LET e == thread[t].read
       IN  IF e # None /\ now < e.expiresAt
           THEN /\ hits' = hits + 1
                /\ misses' = misses
                /\ thread' = [thread EXCEPT ![t].at = "hit", ![t].msg = e.msg,
                                            ![t].time = now, ![t].read = None]
           ELSE /\ thread' = [thread EXCEPT
                        ![t].at = IF attached THEN "redisGet" ELSE "missed",
                        ![t].read = None]
                /\ misses' = IF attached THEN misses ELSE misses + 1
                /\ hits' = hits
    /\ UNCHANGED <<now, entries, attached, redis, gets, purged>>

\* Variant of RedisHit that counts the hit twice: here and again in Finish.
RedisHit_CountsAgain(t) ==
    /\ thread[t].at = "redisGet"
    /\ LET e == redis[Key(thread[t].name, thread[t].qtype)]
       IN  /\ e # None
           /\ now < e.expiresAt
           /\ thread' = [thread EXCEPT ![t].at = "setL1", ![t].hit = TRUE,
                                       ![t].time = now,
                                       ![t].msg = [e.msg EXCEPT !.promoted = TRUE]]
    /\ hits' = hits + 1
    /\ UNCHANGED <<now, entries, attached, redis, misses, gets, purged>>

\* Redis has the key: the answer is promoted by a Set of its own.
RedisHit(t) ==
    /\ thread[t].at = "redisGet"
    /\ LET e == redis[Key(thread[t].name, thread[t].qtype)]
       IN  /\ e # None
           /\ now < e.expiresAt
           /\ thread' = [thread EXCEPT ![t].at = "setL1", ![t].hit = TRUE,
                                       ![t].time = now,
                                       ![t].msg = [e.msg EXCEPT !.promoted = TRUE]]
    /\ UNCHANGED <<now, entries, attached, redis, hits, misses, gets, purged>>

\* Redis does not have it, is down, or does not answer within 500 ms.
RedisMiss(t) ==
    /\ thread[t].at = "redisGet"
    /\ misses' = misses + 1
    /\ thread' = [thread EXCEPT ![t].at = "missed"]
    /\ UNCHANGED <<now, entries, attached, redis, hits, gets, purged>>

\* The upstream answers (external); its id is that of the Get that asked.
Upstream(t, ttl) ==
    /\ thread[t].at = "missed"
    /\ thread' = [thread EXCEPT ![t].at = "setL1",
            ![t].msg = [id |-> thread[t].id, qtype |-> thread[t].qtype,
                        ttl |-> ttl, stored |-> now, promoted |-> FALSE]]
    /\ UNCHANGED <<now, entries, attached, redis, hits, misses, gets, purged>>

\* The upstream fails, or answers without records: nothing is stored.
UpstreamEmpty(t) ==
    /\ thread[t].at = "missed"
    /\ thread' = [thread EXCEPT ![t] = Idle]
    /\ UNCHANGED <<now, entries, attached, redis, hits, misses, gets, purged>>

-----------------------------------------------------------------------------
(* Set: L1 under the write lock, then Redis, with no lock over the two.    *)

SetL1(t) ==
    /\ thread[t].at = "setL1"
    /\ LET m == IF thread[t].msg.promoted THEN thread[t].msg
                ELSE [thread[t].msg EXCEPT !.stored = now]
       IN  /\ entries' = [entries EXCEPT ![Key(thread[t].name, thread[t].qtype)] =
                             [msg |-> m, expiresAt |-> now + Lifetime(m)]]
           /\ thread' = [thread EXCEPT ![t].at = "setL2", ![t].msg = m]
    /\ UNCHANGED <<now, attached, redis, hits, misses, gets, purged>>

\* Set is done: a promotion returns to Get, which counts and serves the hit.
Finish(t) ==
    IF thread[t].hit
    THEN hits' = hits + 1 /\ thread' = [thread EXCEPT ![t].at = "hit"]
    ELSE hits' = hits /\ thread' = [thread EXCEPT ![t] = Idle]

\* Write-through, when Redis is attached and takes the write.  The lifetime is
\* counted again from the moment of this write, for a promoted answer too.
SetL2(t) ==
    /\ thread[t].at = "setL2"
    /\ attached
    /\ redis' = [redis EXCEPT ![Key(thread[t].name, thread[t].qtype)] =
                    [msg |-> thread[t].msg,
                     expiresAt |-> RedisExpiry(now, thread[t].msg)]]
    /\ Finish(t)
    /\ UNCHANGED <<now, entries, attached, misses, gets, purged>>

\* No Redis, or the write is lost.
SkipL2(t) ==
    /\ thread[t].at = "setL2"
    /\ Finish(t)
    /\ UNCHANGED <<now, entries, attached, redis, misses, gets, purged>>

\* The hit is written to the client.
Serve(t) ==
    /\ thread[t].at = "hit"
    /\ thread' = [thread EXCEPT ![t] = Idle]
    /\ UNCHANGED <<now, entries, attached, redis, hits, misses, gets, purged>>

-----------------------------------------------------------------------------

\* The ids stored under a name, except those a thread is storing right now.
IdsOf(n) ==
    {e.msg.id : e \in {s \in {entries[k] : k \in {j \in Keys : j[1] = n}}
                            \cup {redis[k] : k \in {j \in Keys : j[1] = n}} : s # None}}
    \ {thread[t].msg.id : t \in {u \in Threads : thread[u].at \in {"setL1", "setL2"}}}

\* Variant of Invalidate that misses the types without a name in TypeToString.
Invalidate_KnownOnly(n) ==
    /\ entries' = [k \in Keys |-> IF k[1] = n /\ k[2] # "" THEN None ELSE entries[k]]
    /\ purged' = purged \cup IdsOf(n)
    /\ UNCHANGED <<now, attached, redis, thread, hits, misses, gets>>

\* Invalidate: every L1 key of the name, under the write lock.
Invalidate(n) ==
    /\ entries' = [k \in Keys |-> IF k[1] = n THEN None ELSE entries[k]]
    /\ purged' = purged \cup IdsOf(n)
    /\ UNCHANGED <<now, attached, redis, thread, hits, misses, gets>>

\* Variant of Evict with the comparison the wrong way round.
Evict_Backwards ==
    /\ \E k \in Keys : entries[k] # None /\ now < entries[k].expiresAt
    /\ entries' = [k \in Keys |-> IF entries[k] # None /\ now < entries[k].expiresAt
                                  THEN None ELSE entries[k]]
    /\ UNCHANGED <<now, attached, redis, thread, hits, misses, gets, purged>>

\* evictLoop, every 30 seconds: entries past their time.
Evict ==
    /\ \E k \in Keys : entries[k] # None /\ now > entries[k].expiresAt
    /\ entries' = [k \in Keys |-> IF entries[k] # None /\ now > entries[k].expiresAt
                                  THEN None ELSE entries[k]]
    /\ UNCHANGED <<now, attached, redis, thread, hits, misses, gets, purged>>

Tick ==
    /\ now < MaxNow
    /\ now' = now + 1
    /\ UNCHANGED <<entries, attached, redis, thread, hits, misses, gets, purged>>

-----------------------------------------------------------------------------

Step(t) ==
    \/ CheckL1(t)
    \/ RedisHit(t)
    \/ RedisMiss(t)
    \/ \E ttl \in TTLs : Upstream(t, ttl)
    \/ UpstreamEmpty(t)
    \/ SetL1(t)
    \/ SetL2(t)
    \/ SkipL2(t)
    \/ Serve(t)

Next ==
    \/ \E t \in Threads : Step(t) \/ \E n \in Names, q \in Types : Get(t, n, q)
    \/ \E n \in Names : Invalidate(n)
    \/ Evict
    \/ Tick

\* The eviction goroutine's ticker keeps firing; nothing else has to happen.
Fairness == WF_vars(Evict)

Spec == Init /\ [][Next]_vars /\ Fairness

-----------------------------------------------------------------------------

\* Every Get is counted once, as a hit or as a miss, however the lookups, the
\* promotions and their Sets interleave (RF02.5: the dashboard's hit ratio).
CountersExact ==
    LET counting == {t \in Threads : \/ thread[t].at \in {"check", "redisGet"}
                                     \/ /\ thread[t].at \in {"setL1", "setL2"}
                                        /\ thread[t].hit}
    IN  hits + misses + Cardinality(counting) = gets

\* An answer that came straight from an upstream is served only within its TTL,
\* clamped to floor and ceiling, of the moment it was stored (RF02.3), although
\* the entry is read under the lock and its expiry is looked at later.
FirstHandWithinTTL ==
    \A t \in Threads :
        thread[t].at = "hit" /\ ~thread[t].msg.promoted =>
            thread[t].time < thread[t].msg.stored + Lifetime(thread[t].msg)

\* A question of a type that dns.TypeToString knows is never answered with
\* records of another type, whether from L1 or by promotion from Redis.
TypesNeverMixed ==
    \A t \in Threads :
        thread[t].at = "hit" /\ thread[t].qtype \in Known =>
            thread[t].msg.qtype = thread[t].qtype

\* Without Redis, what Invalidate removed does not come back: a Get that begins
\* later never serves an answer that was stored under the name.
InvalidateSticksL1 ==
    ~attached => \A t \in Threads :
        thread[t].at = "hit" => thread[t].msg.id \notin thread[t].purged

\* internal/cache/cache.go: the eviction loop "Prevents unbounded memory growth
\* from stale entries".  An entry past its time is removed or replaced.
ExpiredIsEvicted ==
    \A k \in Keys :
        (entries[k] # None /\ now > entries[k].expiresAt)
            ~> (entries[k] = None \/ now <= entries[k].expiresAt)

\* internal/cache/cache.go: "Invalidate removes a specific domain from cache
\* (RF02.4). Removes all query types for that domain."
InvalidateRemoves ==
    \A t \in Threads :
        thread[t].at = "hit" => thread[t].msg.id \notin thread[t].purged

\* docs/REQUIREMENTS.md, RF02.3: respect the TTL of the record, within floor and
\* ceiling, for every answer the cache serves.
ServedWithinTTL ==
    \A t \in Threads :
        thread[t].at = "hit" =>
            thread[t].time < thread[t].msg.stored + Lifetime(thread[t].msg)
=============================================================================
