--------------------------- MODULE DnsCache_proofs ---------------------------
(***************************************************************************)
(* Proofs about DnsCache for every set of handler goroutines, names, types *)
(* and TTLs and for every floor and ceiling: the types, one count per Get, *)
(* the TTL of answers that did not come back from Redis, no answer of      *)
(* another type, and, without Redis, invalidation that holds.              *)
(***************************************************************************)
EXTENDS DnsCache, FiniteSetTheorems, TLAPS

-----------------------------------------------------------------------------
(* What each step does to the thread that takes it.                        *)

Shapes == [Threads -> {Idle} \cup Busy]

Others(t) == \A u \in Threads : u # t => thread'[u] = thread[u]

\* t goes on with the question it has.
Keeps(t) ==
    /\ thread'[t].name = thread[t].name
    /\ thread'[t].qtype = thread[t].qtype
    /\ thread'[t].id = thread[t].id
    /\ thread'[t].purged = thread[t].purged

LEMMA IsBusy ==
    ASSUME NEW t \in Threads, thread \in Shapes, thread[t].at # "idle"
    PROVE  thread[t] \in Busy
  BY DEF Shapes, Idle

LEMMA GetEffect ==
    ASSUME NEW t \in Threads, NEW n \in Names, NEW q \in Types, TypeOK, Get(t, n, q)
    PROVE  /\ Others(t) /\ thread' \in Shapes /\ thread[t].at = "idle"
           /\ thread'[t].at = "check" /\ thread'[t].name = n /\ thread'[t].qtype = q
           /\ thread'[t].read = entries[Key(n, q)] /\ thread'[t].hit = FALSE
           /\ thread'[t].id = gets + 1 /\ thread'[t].purged = purged
<1> DEFINE r == [at |-> "check", name |-> n, qtype |-> q, read |-> entries[Key(n, q)],
                 msg |-> None, hit |-> FALSE, time |-> 0, id |-> gets + 1,
                 purged |-> purged]
<1>1. thread' = [thread EXCEPT ![t] = r] /\ gets < MaxGets /\ thread[t] = Idle
  BY DEF Get
<1>2. Key(n, q) \in Keys
  BY DEF Key, Keys
<1>3. entries[Key(n, q)] \in Stored \cup {None} /\ gets + 1 \in Ids /\ 0 \in 0 .. MaxNow
  BY <1>1, <1>2, CacheAssumption DEF TypeOK, Ids
<1>4. r \in Busy
  BY <1>3 DEF Busy, TypeOK
<1>5. thread \in Shapes
  BY DEF TypeOK, Shapes
<1> HIDE DEF r
<1>6. Others(t) /\ thread' \in Shapes /\ thread'[t] = r
  BY <1>1, <1>4, <1>5 DEF Others, Shapes
<1> QED
  BY <1>1, <1>6 DEF r, Idle

LEMMA CheckEffect ==
    ASSUME NEW t \in Threads, TypeOK, CheckL1(t)
    PROVE  /\ Others(t) /\ Keeps(t) /\ thread' \in Shapes
           /\ thread'[t].hit = thread[t].hit
           /\ \/ /\ thread[t].read # None /\ now < thread[t].read.expiresAt
                 /\ thread'[t].at = "hit" /\ thread'[t].time = now
                 /\ thread'[t].msg = thread[t].read.msg
                 /\ hits' = hits + 1 /\ misses' = misses
              \/ attached /\ thread'[t].at = "redisGet" /\ UNCHANGED <<hits, misses>>
              \/ ~attached /\ thread'[t].at = "missed" /\ misses' = misses + 1 /\ hits' = hits
<1>1. thread[t] \in Busy /\ thread \in Shapes
  BY IsBusy DEF CheckL1, TypeOK, Shapes
<1>2. CASE thread[t].read # None /\ now < thread[t].read.expiresAt
  <2>1. /\ thread' = [thread EXCEPT ![t].at = "hit", ![t].msg = thread[t].read.msg,
                                    ![t].time = now, ![t].read = None]
        /\ hits' = hits + 1 /\ misses' = misses
    BY <1>2 DEF CheckL1
  <2>2. Others(t) /\ Keeps(t)
    BY <1>1, <2>1 DEF Others, Keeps, Busy, Shapes
  <2>3. thread' \in Shapes
    BY <1>1, <1>2, <2>1 DEF Busy, Shapes, Stored, TypeOK
  <2>4. /\ thread'[t].at = "hit" /\ thread'[t].time = now
        /\ thread'[t].msg = thread[t].read.msg /\ thread'[t].hit = thread[t].hit
    BY <1>1, <2>1 DEF Busy, Shapes
  <2> QED
    BY <1>2, <2>1, <2>2, <2>3, <2>4
<1>3. CASE ~ (thread[t].read # None /\ now < thread[t].read.expiresAt)
  <2> DEFINE to == IF attached THEN "redisGet" ELSE "missed"
  <2>1. /\ thread' = [thread EXCEPT ![t].at = to, ![t].read = None]
        /\ misses' = IF attached THEN misses ELSE misses + 1
        /\ hits' = hits
    BY <1>3 DEF CheckL1
  <2>2. to \in {"redisGet", "missed"}
    OBVIOUS
  <2>3. Others(t) /\ Keeps(t) /\ thread'[t].hit = thread[t].hit /\ thread'[t].at = to
    BY <1>1, <2>1 DEF Others, Keeps, Busy, Shapes
  <2>4. thread' \in Shapes
    <3> HIDE DEF to
    <3> QED
      BY <1>1, <2>1, <2>2 DEF Busy, Shapes
  <2> QED
    BY <2>1, <2>3, <2>4
<1> QED
  BY <1>2, <1>3

LEMMA RedisHitEffect ==
    ASSUME NEW t \in Threads, TypeOK, RedisHit(t),
           NEW e, e = redis[Key(thread[t].name, thread[t].qtype)]
    PROVE  /\ Others(t) /\ Keeps(t) /\ thread' \in Shapes
           /\ e \in Stored /\ e # None
           /\ thread'[t].at = "setL1" /\ thread'[t].hit = TRUE
           /\ thread'[t].msg \in Answers
           /\ thread'[t].msg.promoted = TRUE /\ thread'[t].msg.qtype = e.msg.qtype
<1> DEFINE m == [e.msg EXCEPT !.promoted = TRUE]
<1>1. thread[t] \in Busy /\ thread \in Shapes
  BY IsBusy DEF RedisHit, TypeOK, Shapes
<1>2. Key(thread[t].name, thread[t].qtype) \in Keys
  BY <1>1 DEF Key, Keys, Busy
<1>3. e \in Stored /\ e # None
  BY <1>2 DEF TypeOK, RedisHit
<1>4. m \in Answers /\ m.promoted = TRUE /\ m.qtype = e.msg.qtype
  BY <1>3 DEF Stored, Answers
<1>5. thread' = [thread EXCEPT ![t].at = "setL1", ![t].hit = TRUE, ![t].time = now,
                               ![t].msg = m]
  BY DEF RedisHit
<1> HIDE DEF m
<1>6. Others(t) /\ Keeps(t)
  BY <1>1, <1>5 DEF Others, Keeps, Busy, Shapes
<1>7. thread'[t].at = "setL1" /\ thread'[t].hit = TRUE /\ thread'[t].msg = m
  BY <1>1, <1>5 DEF Busy, Shapes
<1>8. thread' \in Shapes
  BY <1>1, <1>4, <1>5 DEF Busy, Shapes, TypeOK
<1> QED
  BY <1>3, <1>4, <1>6, <1>7, <1>8

LEMMA RedisMissEffect ==
    ASSUME NEW t \in Threads, TypeOK, RedisMiss(t)
    PROVE  /\ Others(t) /\ Keeps(t) /\ thread' \in Shapes
           /\ thread'[t].at = "missed" /\ thread'[t].hit = thread[t].hit
<1>1. thread[t] \in Busy /\ thread \in Shapes
  BY IsBusy DEF RedisMiss, TypeOK, Shapes
<1>2. thread' = [thread EXCEPT ![t].at = "missed"]
  BY DEF RedisMiss
<1> QED
  BY <1>1, <1>2 DEF Others, Keeps, Busy, Shapes

LEMMA UpstreamEffect ==
    ASSUME NEW t \in Threads, NEW ttl \in TTLs, TypeOK, Upstream(t, ttl)
    PROVE  /\ Others(t) /\ Keeps(t) /\ thread' \in Shapes
           /\ thread'[t].at = "setL1" /\ thread'[t].hit = thread[t].hit
           /\ thread'[t].msg \in Answers /\ thread'[t].msg.id = thread[t].id
           /\ thread'[t].msg.qtype = thread[t].qtype
<1> DEFINE m == [id |-> thread[t].id, qtype |-> thread[t].qtype, ttl |-> ttl,
                 stored |-> now, promoted |-> FALSE]
<1>1. thread[t] \in Busy /\ thread \in Shapes
  BY IsBusy DEF Upstream, TypeOK, Shapes
<1>2. m \in Answers /\ m.id = thread[t].id /\ m.qtype = thread[t].qtype
  BY <1>1 DEF Answers, Busy, TypeOK
<1>3. thread' = [thread EXCEPT ![t].at = "setL1", ![t].msg = m]
  BY DEF Upstream
<1> HIDE DEF m
<1>4. Others(t) /\ Keeps(t)
  BY <1>1, <1>3 DEF Others, Keeps, Busy, Shapes
<1>5. thread'[t].at = "setL1" /\ thread'[t].hit = thread[t].hit /\ thread'[t].msg = m
  BY <1>1, <1>3 DEF Busy, Shapes
<1>6. thread' \in Shapes
  BY <1>1, <1>2, <1>3 DEF Busy, Shapes
<1> QED
  BY <1>2, <1>4, <1>5, <1>6

\* The answer that Set stores.
ToStore(t) ==
    IF thread[t].msg.promoted THEN thread[t].msg ELSE [thread[t].msg EXCEPT !.stored = now]

LEMMA SetL1Effect ==
    ASSUME NEW t \in Threads, TypeOK, SetL1(t), thread[t].msg \in Answers
    PROVE  /\ Others(t) /\ Keeps(t) /\ thread' \in Shapes
           /\ thread'[t].at = "setL2" /\ thread'[t].hit = thread[t].hit
           /\ thread'[t].msg = ToStore(t)
           /\ Key(thread[t].name, thread[t].qtype) \in Keys
           /\ entries' = [entries EXCEPT ![Key(thread[t].name, thread[t].qtype)] =
                             [msg |-> ToStore(t), expiresAt |-> now + Lifetime(ToStore(t))]]
           /\ ToStore(t) \in Answers
           /\ ToStore(t).id = thread[t].msg.id
           /\ ToStore(t).qtype = thread[t].msg.qtype
           /\ ToStore(t).promoted = thread[t].msg.promoted
           /\ ~ToStore(t).promoted => ToStore(t).stored = now
<1>1. thread[t] \in Busy /\ thread \in Shapes
  BY IsBusy DEF SetL1, TypeOK, Shapes
<1>2. Key(thread[t].name, thread[t].qtype) \in Keys
  BY <1>1 DEF Key, Keys, Busy
<1>3. /\ ToStore(t) \in Answers /\ ToStore(t).id = thread[t].msg.id
      /\ ToStore(t).qtype = thread[t].msg.qtype
      /\ ToStore(t).promoted = thread[t].msg.promoted
      /\ ~ToStore(t).promoted => ToStore(t).stored = now
  BY DEF ToStore, Answers, TypeOK
<1>4. /\ thread' = [thread EXCEPT ![t].at = "setL2", ![t].msg = ToStore(t)]
      /\ entries' = [entries EXCEPT ![Key(thread[t].name, thread[t].qtype)] =
                        [msg |-> ToStore(t), expiresAt |-> now + Lifetime(ToStore(t))]]
  BY DEF SetL1, ToStore
<1>5. Others(t) /\ Keeps(t)
  BY <1>1, <1>4 DEF Others, Keeps, Busy, Shapes
<1>6. /\ thread'[t].at = "setL2" /\ thread'[t].hit = thread[t].hit
      /\ thread'[t].msg = ToStore(t)
  BY <1>1, <1>4 DEF Busy, Shapes
<1>7. thread' \in Shapes
  BY <1>1, <1>3, <1>4 DEF Busy, Shapes
<1> QED
  BY <1>2, <1>3, <1>4, <1>5, <1>6, <1>7

LEMMA FinishEffect ==
    ASSUME NEW t \in Threads, TypeOK, thread[t].at = "setL2", Finish(t)
    PROVE  /\ Others(t) /\ thread' \in Shapes
           /\ \/ /\ Keeps(t) /\ thread[t].hit = TRUE /\ hits' = hits + 1
                 /\ thread'[t].at = "hit" /\ thread'[t].msg = thread[t].msg
              \/ thread[t].hit = FALSE /\ hits' = hits /\ thread'[t].at = "idle"
<1>1. thread[t] \in Busy /\ thread \in Shapes
  BY IsBusy DEF TypeOK, Shapes
<1>2. thread[t].hit \in BOOLEAN
  BY <1>1 DEF Busy
<1>3. CASE thread[t].hit = TRUE
  <2>1. thread' = [thread EXCEPT ![t].at = "hit"] /\ hits' = hits + 1
    BY <1>3 DEF Finish
  <2> QED
    BY <1>1, <1>3, <2>1 DEF Others, Keeps, Busy, Shapes
<1>4. CASE thread[t].hit = FALSE
  <2>1. thread' = [thread EXCEPT ![t] = Idle] /\ hits' = hits
    BY <1>4 DEF Finish
  <2> QED
    BY <1>1, <1>4, <2>1 DEF Others, Shapes, Idle
<1> QED
  BY <1>2, <1>3, <1>4

LEMMA IdleEffect ==
    ASSUME NEW t \in Threads, TypeOK, UpstreamEmpty(t) \/ Serve(t)
    PROVE  Others(t) /\ thread' \in Shapes /\ thread'[t].at = "idle"
<1>1. thread' = [thread EXCEPT ![t] = Idle]
  BY DEF UpstreamEmpty, Serve
<1> QED
  BY <1>1 DEF Others, Shapes, Idle, TypeOK

-----------------------------------------------------------------------------
(* The types.                                                              *)

\* A thread that stores or serves has an answer; it has counted no hit while
\* it still looks, and what it promotes is marked.
Carries(r) ==
    /\ r.at \in {"setL1", "setL2", "hit"} => r.msg \in Answers
    /\ r.at \in {"check", "redisGet", "missed"} => r.hit = FALSE
    /\ r.at \in {"setL1", "setL2"} /\ r.hit = TRUE => r.msg.promoted = TRUE

Carried == \A t \in Threads : Carries(thread[t])

LEMMA LifetimeRange ==
    ASSUME NEW m \in Answers
    PROVE  Lifetime(m) \in Nat /\ Lifetime(m) <= Ceiling
<1>1. m.ttl \in Nat /\ Floor \in Nat /\ Ceiling \in Nat
  BY CacheAssumption DEF Answers
<1>2. AtMost(m.ttl, 3600) \in Nat
  BY <1>1 DEF AtMost
<1>3. AtLeast(Floor, AtMost(m.ttl, 3600)) \in Nat
  BY <1>1, <1>2 DEF AtLeast
<1> QED
  BY <1>1, <1>3 DEF Lifetime, AtMost

LEMMA RedisExpiryType ==
    ASSUME NEW m \in Answers, NEW written \in Nat PROVE RedisExpiry(written, m) \in Nat
  BY LifetimeRange, CacheAssumption DEF RedisExpiry

\* An entry that Set writes in L1.
LEMMA WriteOK ==
    ASSUME NEW f \in [Keys -> Stored \cup {None}], NEW k \in Keys, NEW m \in Answers,
           now \in 0 .. MaxNow
    PROVE  /\ [f EXCEPT ![k] = [msg |-> m, expiresAt |-> now + Lifetime(m)]]
                \in [Keys -> Stored \cup {None}]
           /\ now + Lifetime(m) <= now + Ceiling
<1>1. Lifetime(m) \in Nat /\ Lifetime(m) <= Ceiling
  BY LifetimeRange
<1>2. [msg |-> m, expiresAt |-> now + Lifetime(m)] \in Stored
  BY <1>1, CacheAssumption DEF Stored
<1> QED
  BY <1>1, <1>2, CacheAssumption

LEMMA NextCarried == TypeOK /\ Carried /\ [Next]_vars => Carried' /\ (thread \in Shapes)'
<1> SUFFICES ASSUME TypeOK, Carried, [Next]_vars PROVE Carried' /\ thread' \in Shapes
  OBVIOUS
<1>1. ASSUME NEW t \in Threads, Others(t), thread' \in Shapes, Carries(thread'[t])
      PROVE  Carried' /\ thread' \in Shapes
  BY <1>1 DEF Carried, Others
<1>2. ASSUME NEW t \in Threads, NEW n \in Names, NEW q \in Types, Get(t, n, q)
      PROVE  Carried' /\ thread' \in Shapes
  <2>1. Carries(thread'[t])
    BY <1>2, GetEffect DEF Carries
  <2> QED
    BY <1>1, <1>2, <2>1, GetEffect
<1>3. ASSUME NEW t \in Threads, CheckL1(t) PROVE Carried' /\ thread' \in Shapes
  <2>1. thread[t].hit = FALSE
    BY <1>3 DEF Carried, Carries, CheckL1
  <2>2. thread[t] \in Busy
    BY <1>3, IsBusy DEF CheckL1, TypeOK, Shapes
  <2>3. thread[t].read # None => thread[t].read.msg \in Answers
    BY <2>2 DEF Busy, Stored
  <2>4. Carries(thread'[t])
    BY <1>3, <2>1, <2>3, CheckEffect DEF Carries
  <2> QED
    BY <1>1, <1>3, <2>4, CheckEffect
<1>4. ASSUME NEW t \in Threads, RedisHit(t) PROVE Carried' /\ thread' \in Shapes
  <2>1. Carries(thread'[t])
    BY <1>4, RedisHitEffect DEF Carries
  <2> QED
    BY <1>1, <1>4, <2>1, RedisHitEffect
<1>5. ASSUME NEW t \in Threads, RedisMiss(t) PROVE Carried' /\ thread' \in Shapes
  <2>1. Carries(thread'[t])
    BY <1>5, RedisMissEffect DEF Carries, Carried, RedisMiss
  <2> QED
    BY <1>1, <1>5, <2>1, RedisMissEffect
<1>6. ASSUME NEW t \in Threads, NEW ttl \in TTLs, Upstream(t, ttl)
      PROVE  Carried' /\ thread' \in Shapes
  <2>1. Carries(thread'[t])
    BY <1>6, UpstreamEffect DEF Carries, Carried, Upstream
  <2> QED
    BY <1>1, <1>6, <2>1, UpstreamEffect
<1>7. ASSUME NEW t \in Threads, UpstreamEmpty(t) \/ Serve(t)
      PROVE  Carried' /\ thread' \in Shapes
  <2>1. Carries(thread'[t])
    BY <1>7, IdleEffect DEF Carries
  <2> QED
    BY <1>1, <1>7, <2>1, IdleEffect
<1>8. ASSUME NEW t \in Threads, SetL1(t) PROVE Carried' /\ thread' \in Shapes
  <2>1. thread[t].msg \in Answers /\ (thread[t].hit = TRUE => thread[t].msg.promoted = TRUE)
    BY <1>8 DEF Carried, Carries, SetL1
  <2>2. Carries(thread'[t])
    BY <1>8, <2>1, SetL1Effect DEF Carries
  <2> QED
    BY <1>1, <1>8, <2>1, <2>2, SetL1Effect
<1>9. ASSUME NEW t \in Threads, SetL2(t) \/ SkipL2(t) PROVE Carried' /\ thread' \in Shapes
  <2>1. thread[t].at = "setL2" /\ Finish(t)
    BY <1>9 DEF SetL2, SkipL2
  <2>2. Carries(thread'[t])
    BY <2>1, FinishEffect DEF Carries, Carried
  <2> QED
    BY <1>1, <2>1, <2>2, FinishEffect
<1>10. CASE UNCHANGED thread
  BY <1>10 DEF Carried, TypeOK, Shapes
<1>11. ASSUME NEW n \in Names, Invalidate(n) PROVE UNCHANGED thread
  BY <1>11 DEF Invalidate
<1>12. Evict \/ Tick \/ UNCHANGED vars => UNCHANGED thread
  BY DEF Evict, Tick, vars
<1> QED
  BY <1>2, <1>3, <1>4, <1>5, <1>6, <1>7, <1>8, <1>9, <1>10, <1>11, <1>12 DEF Next, Step

\* What each kind of step does to the two maps.
LEMMA NextMaps ==
    TypeOK /\ Carried /\ [Next]_vars =>
        /\ (entries \in [Keys -> Stored \cup {None}])'
        /\ (\A k \in Keys : entries[k] # None => entries[k].expiresAt <= now + Ceiling)'
        /\ (redis \in [Keys -> Stored \cup {None}])'
<1> DEFINE Limited == \A k \in Keys : entries[k] # None => entries[k].expiresAt <= now + Ceiling
           Maps == /\ entries \in [Keys -> Stored \cup {None}]
                   /\ redis \in [Keys -> Stored \cup {None}]
<1> SUFFICES ASSUME TypeOK, Carried, [Next]_vars PROVE Maps' /\ Limited'
  OBVIOUS
<1>0. Maps /\ Limited /\ now \in 0 .. MaxNow
  BY DEF TypeOK
<1>1. ASSUME NEW t \in Threads, SetL1(t) PROVE Maps' /\ Limited'
  <2> DEFINE k == Key(thread[t].name, thread[t].qtype)
             m == ToStore(t)
  <2>1. thread[t].msg \in Answers
    BY <1>1 DEF Carried, Carries, SetL1
  <2>2. /\ entries' = [entries EXCEPT ![k] = [msg |-> m, expiresAt |-> now + Lifetime(m)]]
        /\ k \in Keys /\ m \in Answers /\ now' = now /\ redis' = redis
    BY <1>1, <2>1, SetL1Effect DEF SetL1
  <2> HIDE DEF k, m
  <2>3. Maps' /\ now + Lifetime(m) <= now + Ceiling
    BY <1>0, <2>2, WriteOK
  <2>4. \A j \in Keys : entries'[j] = IF j = k
                 THEN [msg |-> m, expiresAt |-> now + Lifetime(m)] ELSE entries[j]
    BY <1>0, <2>2
  <2> QED
    BY <1>0, <2>2, <2>3, <2>4
<1>2. ASSUME NEW t \in Threads, SetL2(t) PROVE Maps' /\ Limited'
  <2> DEFINE k == Key(thread[t].name, thread[t].qtype)
             m == thread[t].msg
  <2>1. m \in Answers /\ thread[t] \in Busy
    BY <1>2, IsBusy DEF Carried, Carries, SetL2, TypeOK, Shapes
  <2>2. k \in Keys
    BY <2>1 DEF Key, Keys, Busy
  <2>3. /\ redis' = [redis EXCEPT ![k] = [msg |-> m, expiresAt |-> RedisExpiry(now, m)]]
        /\ now' = now /\ entries' = entries
    BY <1>2 DEF SetL2
  <2> HIDE DEF k, m
  <2>4. RedisExpiry(now, m) \in Nat
    BY <1>0, <2>1, RedisExpiryType
  <2>5. [msg |-> m, expiresAt |-> RedisExpiry(now, m)] \in Stored
    BY <2>1, <2>4 DEF Stored
  <2> QED
    BY <1>0, <2>2, <2>3, <2>5
<1>3. ASSUME \A k \in Keys : entries'[k] = None \/ entries'[k] = entries[k],
             entries' \in [Keys -> Stored \cup {None}], now' = now, redis' = redis
      PROVE  Maps' /\ Limited'
  BY <1>0, <1>3
<1>4. ASSUME NEW n \in Names, Invalidate(n) PROVE Maps' /\ Limited'
  <2>1. /\ entries' = [k \in Keys |-> IF k[1] = n THEN None ELSE entries[k]]
        /\ now' = now /\ redis' = redis
    BY <1>4 DEF Invalidate
  <2> QED
    BY <1>0, <1>3, <2>1
<1>5. CASE Evict
  <2>1. /\ entries' = [k \in Keys |-> IF entries[k] # None /\ now > entries[k].expiresAt
                                      THEN None ELSE entries[k]]
        /\ now' = now /\ redis' = redis
    BY <1>5 DEF Evict
  <2> QED
    BY <1>0, <1>3, <2>1
<1>6. CASE Tick
  <2>1. now' = now + 1 /\ entries' = entries /\ redis' = redis
    BY <1>6 DEF Tick
  <2>2. \A k \in Keys : entries[k] # None => entries[k].expiresAt \in Nat
    BY <1>0 DEF Stored
  <2> QED
    BY <1>0, <2>1, <2>2, CacheAssumption
<1>7. CASE UNCHANGED <<entries, now, redis>>
  BY <1>0, <1>7
<1>8. ASSUME NEW t \in Threads,
             \/ CheckL1(t) \/ RedisHit(t) \/ RedisMiss(t) \/ \E ttl \in TTLs : Upstream(t, ttl)
             \/ UpstreamEmpty(t) \/ SkipL2(t) \/ Serve(t)
             \/ \E n \in Names, q \in Types : Get(t, n, q)
      PROVE  UNCHANGED <<entries, now, redis>>
  BY <1>8 DEF CheckL1, RedisHit, RedisMiss, Upstream, UpstreamEmpty, SkipL2, Serve, Get
<1>9. UNCHANGED vars => UNCHANGED <<entries, now, redis>>
  BY DEF vars
<1> HIDE DEF Maps, Limited
<1> QED
  BY <1>1, <1>2, <1>4, <1>5, <1>6, <1>7, <1>8, <1>9 DEF Next, Step

LEMMA NextTypeOK == TypeOK /\ Carried /\ [Next]_vars => TypeOK'
<1> SUFFICES ASSUME TypeOK, Carried, [Next]_vars PROVE TypeOK'
  OBVIOUS
<1>1. now' \in 0 .. MaxNow /\ attached' \in BOOLEAN
  <2>1. Tick \/ now' = now
    BY DEF Next, Step, CheckL1, RedisHit, RedisMiss, Upstream, UpstreamEmpty, SetL1,
           SetL2, SkipL2, Serve, Get, Invalidate, Evict, vars
  <2>2. attached' = attached
    BY DEF Next, Step, CheckL1, RedisHit, RedisMiss, Upstream, UpstreamEmpty, SetL1,
           SetL2, SkipL2, Serve, Get, Invalidate, Evict, Tick, vars
  <2>3. now' = now => now' \in 0 .. MaxNow
    BY DEF TypeOK
  <2>4. Tick => now' \in 0 .. MaxNow
    BY CacheAssumption DEF Tick, TypeOK
  <2> QED
    BY <2>1, <2>2, <2>3, <2>4 DEF TypeOK
<1>2. hits' \in Nat /\ misses' \in Nat
  <2>1. (hits' = hits \/ hits' = hits + 1) /\ (misses' = misses \/ misses' = misses + 1)
    BY DEF Next, Step, CheckL1, RedisHit, RedisMiss, Upstream, UpstreamEmpty, SetL1,
           SetL2, SkipL2, Finish, Serve, Get, Invalidate, Evict, Tick, vars
  <2> QED
    BY <2>1 DEF TypeOK
<1>3. gets' \in 0 .. MaxGets
  <2>1. gets' = gets \/ (gets < MaxGets /\ gets' = gets + 1)
    BY DEF Next, Step, CheckL1, RedisHit, RedisMiss, Upstream, UpstreamEmpty, SetL1,
           SetL2, SkipL2, Serve, Get, Invalidate, Evict, Tick, vars
  <2> QED
    BY <2>1, CacheAssumption DEF TypeOK
<1>4. purged' \subseteq Ids
  <2>1. purged' = purged \/ \E n \in Names : purged' = purged \cup IdsOf(n)
    BY DEF Next, Step, CheckL1, RedisHit, RedisMiss, Upstream, UpstreamEmpty, SetL1,
           SetL2, SkipL2, Serve, Get, Invalidate, Evict, Tick, vars
  <2>2. ASSUME NEW n \in Names PROVE IdsOf(n) \subseteq Ids
    BY DEF IdsOf, TypeOK, Stored, Answers
  <2> QED
    BY <2>1, <2>2 DEF TypeOK
<1> HIDE DEF Next
<1> QED
  BY <1>1, <1>2, <1>3, <1>4, NextCarried, NextMaps DEF TypeOK, Shapes

LEMMA InitTypes == Init => TypeOK /\ Carried
<1> SUFFICES ASSUME Init PROVE TypeOK /\ Carried
  OBVIOUS
<1>1. Empty \in [Keys -> Stored \cup {None}]
  BY DEF Empty
<1>2. ASSUME NEW n \in Names, NEW q \in Types, NEW ttl \in TTLs
      PROVE  LeftOver(q, ttl) \in Stored
  <2> DEFINE m == [id |-> 0, qtype |-> q, ttl |-> ttl, stored |-> 0, promoted |-> FALSE]
  <2>1. m \in Answers
    BY CacheAssumption DEF Answers, Ids
  <2>2. LeftOver(q, ttl) = [msg |-> m, expiresAt |-> RedisExpiry(0, m)]
    BY DEF LeftOver
  <2> HIDE DEF m
  <2> QED
    BY <2>1, <2>2, RedisExpiryType DEF Stored
<1>3. redis \in [Keys -> Stored \cup {None}]
  BY <1>1, <1>2 DEF Init, LeftOvers
<1>4. Carried
  BY DEF Init, Carried, Carries, Idle
<1> QED
  BY <1>1, <1>3, <1>4, CacheAssumption DEF Init, TypeOK, Empty

LEMMA TypesHold == Spec => [](TypeOK /\ Carried)
<1>1. TypeOK /\ Carried /\ [Next]_vars => TypeOK' /\ Carried'
  BY NextTypeOK, NextCarried
<1> QED
  BY InitTypes, <1>1, PTL DEF Spec

\* L1, Redis and the threads keep their types, and no L1 entry outlives the ceiling.
THEOREM TypeCorrect == Spec => []TypeOK
  BY TypesHold, PTL

-----------------------------------------------------------------------------
(* Hits and misses.                                                        *)

\* A thread inside Get that has not counted yet.
Counts(r) ==
    \/ r.at \in {"check", "redisGet"}
    \/ r.at \in {"setL1", "setL2"} /\ r.hit

Uncounted == {t \in Threads : Counts(thread[t])}

\* No assumption says that there are finitely many handler goroutines: only
\* those inside Get have to be finitely many.
CountInv == IsFiniteSet(Uncounted) /\ hits + misses + Cardinality(Uncounted) = gets

LEMMA UncountedSame ==
    ASSUME NEW t \in Threads, Others(t), Counts(thread'[t]) <=> Counts(thread[t])
    PROVE  Uncounted' = Uncounted
  BY DEF Uncounted, Others

LEMMA UncountedMore ==
    ASSUME NEW t \in Threads, Others(t), ~Counts(thread[t]), Counts(thread'[t]),
           IsFiniteSet(Uncounted)
    PROVE  /\ IsFiniteSet(Uncounted')
           /\ Cardinality(Uncounted') = Cardinality(Uncounted) + 1
<1>1. Uncounted' = Uncounted \cup {t} /\ t \notin Uncounted
  BY DEF Uncounted, Others
<1> QED
  BY <1>1, FS_AddElement

LEMMA UncountedLess ==
    ASSUME NEW t \in Threads, Others(t), Counts(thread[t]), ~Counts(thread'[t]),
           IsFiniteSet(Uncounted)
    PROVE  /\ IsFiniteSet(Uncounted')
           /\ Cardinality(Uncounted') = Cardinality(Uncounted) - 1
<1>1. Uncounted' = Uncounted \ {t} /\ t \in Uncounted
  BY DEF Uncounted, Others
<1> QED
  BY <1>1, FS_RemoveElement

LEMMA NextCount == TypeOK /\ Carried /\ CountInv /\ [Next]_vars => CountInv'
<1> SUFFICES ASSUME TypeOK, Carried, CountInv, [Next]_vars PROVE CountInv'
  OBVIOUS
<1>0. /\ IsFiniteSet(Uncounted) /\ hits + misses + Cardinality(Uncounted) = gets
      /\ Cardinality(Uncounted) \in Nat /\ hits \in Nat /\ misses \in Nat /\ gets \in Nat
  BY FS_CardinalityType DEF CountInv, TypeOK
\* The three ways a step can go.
<1>1. ASSUME Uncounted' = Uncounted, UNCHANGED <<hits, misses, gets>> PROVE CountInv'
  BY <1>0, <1>1 DEF CountInv
<1>2. ASSUME NEW t \in Threads, Others(t), Counts(thread[t]), ~Counts(thread'[t]),
             gets' = gets,
             \/ hits' = hits + 1 /\ misses' = misses
             \/ misses' = misses + 1 /\ hits' = hits
      PROVE  CountInv'
  <2>1. IsFiniteSet(Uncounted') /\ Cardinality(Uncounted') = Cardinality(Uncounted) - 1
    BY <1>0, <1>2, UncountedLess
  <2>2. hits' + misses' + Cardinality(Uncounted') = gets'
    BY <1>0, <1>2, <2>1
  <2> QED
    BY <2>1, <2>2 DEF CountInv
<1>3. ASSUME NEW t \in Threads, NEW n \in Names, NEW q \in Types, Get(t, n, q)
      PROVE  CountInv'
  <2>1. ~Counts(thread[t]) /\ Counts(thread'[t]) /\ Others(t)
    BY <1>3, GetEffect DEF Counts
  <2>2. IsFiniteSet(Uncounted') /\ Cardinality(Uncounted') = Cardinality(Uncounted) + 1
    BY <1>0, <2>1, UncountedMore
  <2>3. gets' = gets + 1 /\ hits' = hits /\ misses' = misses
    BY <1>3 DEF Get
  <2> QED
    BY <1>0, <2>2, <2>3 DEF CountInv
<1>4. ASSUME NEW t \in Threads, CheckL1(t) PROVE CountInv'
  <2>1. Counts(thread[t]) /\ gets' = gets
    BY <1>4 DEF Counts, CheckL1
  <2>2. Others(t)
    BY <1>4, CheckEffect
  <2>3. CASE thread'[t].at \in {"hit", "missed"}
    <3>1. ~Counts(thread'[t])
      BY <2>3 DEF Counts
    <3>2. \/ hits' = hits + 1 /\ misses' = misses
          \/ misses' = misses + 1 /\ hits' = hits
      BY <1>4, <2>3, CheckEffect
    <3> QED
      BY <1>0, <1>2, <2>1, <2>2, <3>1, <3>2
  <2>4. CASE thread'[t].at = "redisGet" /\ UNCHANGED <<hits, misses>>
    <3>1. Counts(thread'[t])
      BY <2>4 DEF Counts
    <3> QED
      BY <1>1, <2>1, <2>2, <2>4, <3>1, UncountedSame
  <2> QED
    BY <1>4, <2>3, <2>4, CheckEffect
<1>5. ASSUME NEW t \in Threads, RedisHit(t) PROVE CountInv'
  <2>1. Counts(thread[t]) /\ UNCHANGED <<hits, misses, gets>>
    BY <1>5 DEF Counts, RedisHit
  <2>2. Counts(thread'[t]) /\ Others(t)
    BY <1>5, RedisHitEffect DEF Counts
  <2> QED
    BY <1>1, <2>1, <2>2, UncountedSame
<1>6. ASSUME NEW t \in Threads, RedisMiss(t) PROVE CountInv'
  <2>1. Counts(thread[t]) /\ gets' = gets /\ hits' = hits /\ misses' = misses + 1
    BY <1>6 DEF Counts, RedisMiss
  <2>2. ~Counts(thread'[t]) /\ Others(t)
    BY <1>6, RedisMissEffect DEF Counts
  <2> QED
    BY <1>0, <1>2, <2>1, <2>2
<1>7. ASSUME NEW t \in Threads, NEW ttl \in TTLs, Upstream(t, ttl) PROVE CountInv'
  <2>1. ~Counts(thread[t]) /\ UNCHANGED <<hits, misses, gets>> /\ thread[t].hit = FALSE
    BY <1>7 DEF Counts, Upstream, Carried, Carries
  <2>2. ~Counts(thread'[t]) /\ Others(t)
    BY <1>7, <2>1, UpstreamEffect DEF Counts
  <2> QED
    BY <1>1, <2>1, <2>2, UncountedSame
<1>8. ASSUME NEW t \in Threads, UpstreamEmpty(t) \/ Serve(t) PROVE CountInv'
  <2>1. ~Counts(thread[t]) /\ UNCHANGED <<hits, misses, gets>>
    BY <1>8 DEF Counts, UpstreamEmpty, Serve
  <2>2. ~Counts(thread'[t]) /\ Others(t)
    BY <1>8, <2>1, IdleEffect DEF Counts
  <2> QED
    BY <1>1, <2>1, <2>2, UncountedSame
<1>9. ASSUME NEW t \in Threads, SetL1(t) PROVE CountInv'
  <2>1. thread[t].msg \in Answers /\ thread[t].at = "setL1" /\ UNCHANGED <<hits, misses, gets>>
    BY <1>9 DEF SetL1, Carried, Carries
  <2>2. Others(t) /\ thread'[t].at = "setL2" /\ thread'[t].hit = thread[t].hit
    BY <1>9, <2>1, SetL1Effect
  <2>3. Counts(thread'[t]) <=> Counts(thread[t])
    BY <2>1, <2>2 DEF Counts
  <2> QED
    BY <1>1, <2>1, <2>2, <2>3, UncountedSame
<1>10. ASSUME NEW t \in Threads, SetL2(t) \/ SkipL2(t) PROVE CountInv'
  <2>1. thread[t].at = "setL2" /\ Finish(t) /\ gets' = gets /\ misses' = misses
    BY <1>10 DEF SetL2, SkipL2
  <2>2. Others(t)
    BY <2>1, FinishEffect
  <2>3. CASE thread[t].hit = TRUE
    <3>1. thread'[t].at = "hit" /\ hits' = hits + 1
      BY <2>1, <2>3, FinishEffect
    <3>2. Counts(thread[t]) /\ ~Counts(thread'[t])
      BY <2>1, <2>3, <3>1 DEF Counts
    <3> QED
      BY <1>0, <1>2, <2>1, <2>2, <3>1, <3>2
  <2>4. CASE thread[t].hit = FALSE
    <3>1. thread'[t].at = "idle" /\ hits' = hits
      BY <2>1, <2>4, FinishEffect
    <3>2. ~Counts(thread[t]) /\ ~Counts(thread'[t])
      BY <2>1, <2>4, <3>1 DEF Counts
    <3> QED
      BY <1>1, <2>1, <2>2, <3>1, <3>2, UncountedSame
  <2> QED
    BY <2>1, <2>3, <2>4, FinishEffect
<1>11. CASE UNCHANGED <<thread, hits, misses, gets>>
  BY <1>1, <1>11 DEF Uncounted
<1>12. ASSUME NEW n \in Names, Invalidate(n) PROVE UNCHANGED <<thread, hits, misses, gets>>
  BY <1>12 DEF Invalidate
<1>13. Evict \/ Tick \/ UNCHANGED vars => UNCHANGED <<thread, hits, misses, gets>>
  BY DEF Evict, Tick, vars
<1> QED
  BY <1>3, <1>4, <1>5, <1>6, <1>7, <1>8, <1>9, <1>10, <1>11, <1>12, <1>13 DEF Next, Step

\* Every Get is counted exactly once, as a hit or as a miss, with any number of
\* goroutines inside Get and Set (cache.go, Get).
THEOREM EveryGetCounted == Spec => []CountersExact
<1>1. Init => CountInv
  <2> SUFFICES ASSUME Init PROVE CountInv
    OBVIOUS
  <2>1. Uncounted = {}
    BY DEF Init, Uncounted, Counts, Idle
  <2> QED
    BY <2>1, FS_EmptySet DEF Init, CountInv
<1>2. CountInv => CountersExact
  BY DEF CountInv, CountersExact, Uncounted, Counts
<1> QED
  BY <1>1, <1>2, TypesHold, NextCount, PTL DEF Spec

-----------------------------------------------------------------------------
(* Answers within their TTL.                                               *)

\* An entry that did not come back from Redis expires one lifetime after it
\* was stored; Set writes both under one lock.
InTime(e) ==
    e # None /\ ~e.msg.promoted => e.expiresAt <= e.msg.stored + Lifetime(e.msg)

OnTime(r) ==
    /\ r.at = "check" => InTime(r.read)
    /\ r.at = "hit" /\ ~r.msg.promoted => r.time < r.msg.stored + Lifetime(r.msg)

Timed == (\A k \in Keys : InTime(entries[k])) /\ (\A t \in Threads : OnTime(thread[t]))

\* A step leaves L1 alone, writes one entry as Set does, or removes entries.
LEMMA EntriesStep ==
    ASSUME TypeOK, Carried, [Next]_vars
    PROVE  \/ \A k \in Keys : entries'[k] = None \/ entries'[k] = entries[k]
           \/ \E t \in Threads : SetL1(t)
<1>1. ASSUME NEW t \in Threads, Step(t), ~SetL1(t) PROVE entries' = entries
  BY <1>1 DEF Step, CheckL1, RedisHit, RedisMiss, Upstream, UpstreamEmpty, SetL2,
              SkipL2, Serve
<1>2. ASSUME NEW t \in Threads, NEW n \in Names, NEW q \in Types, Get(t, n, q)
      PROVE  entries' = entries
  BY <1>2 DEF Get
<1>3. ASSUME NEW n \in Names, Invalidate(n)
      PROVE  \A k \in Keys : entries'[k] = None \/ entries'[k] = entries[k]
  BY <1>3 DEF Invalidate
<1>4. Evict => \A k \in Keys : entries'[k] = None \/ entries'[k] = entries[k]
  BY DEF Evict
<1>5. Tick \/ UNCHANGED vars => entries' = entries
  BY DEF Tick, vars
<1> QED
  BY <1>1, <1>2, <1>3, <1>4, <1>5 DEF Next

LEMMA NextTimed == TypeOK /\ Carried /\ Timed /\ [Next]_vars => Timed'
<1> SUFFICES ASSUME TypeOK, Carried, Timed, [Next]_vars PROVE Timed'
  OBVIOUS
<1>1. ASSUME NEW j \in Keys PROVE InTime(entries'[j])
  <2>1. ASSUME NEW t \in Threads, SetL1(t) PROVE InTime(entries'[j])
    <3> DEFINE k == Key(thread[t].name, thread[t].qtype)
               m == ToStore(t)
    <3>1. thread[t].msg \in Answers
      BY <2>1 DEF Carried, Carries, SetL1
    <3>2. /\ entries' = [entries EXCEPT ![k] = [msg |-> m, expiresAt |-> now + Lifetime(m)]]
          /\ k \in Keys /\ m \in Answers /\ (~m.promoted => m.stored = now)
      BY <2>1, <3>1, SetL1Effect
    <3> HIDE DEF k, m
    <3>3. CASE j = k
      <4>1. Lifetime(m) \in Nat /\ now \in Nat
        BY <3>2, LifetimeRange DEF TypeOK
      <4>2. entries'[j] = [msg |-> m, expiresAt |-> now + Lifetime(m)]
        BY <3>2, <3>3 DEF TypeOK
      <4> QED
        BY <3>2, <4>1, <4>2 DEF InTime
    <3>4. CASE j # k
      BY <3>2, <3>4 DEF Timed, TypeOK
    <3> QED
      BY <3>3, <3>4
  <2>2. CASE entries'[j] = None \/ entries'[j] = entries[j]
    BY <2>2 DEF Timed, InTime
  <2> QED
    BY <2>1, <2>2, EntriesStep
<1>2. ASSUME NEW t \in Threads, Others(t), OnTime(thread'[t])
      PROVE  \A u \in Threads : OnTime(thread'[u])
  BY <1>2 DEF Timed, Others
<1>3. ASSUME NEW t \in Threads, NEW n \in Names, NEW q \in Types, Get(t, n, q)
      PROVE  \A u \in Threads : OnTime(thread'[u])
  <2>1. Key(n, q) \in Keys
    BY DEF Key, Keys
  <2>2. InTime(entries[Key(n, q)])
    BY <2>1 DEF Timed
  <2>3. thread'[t].at = "check" /\ thread'[t].read = entries[Key(n, q)] /\ Others(t)
    BY <1>3, GetEffect
  <2>4. OnTime(thread'[t])
    BY <2>2, <2>3 DEF OnTime
  <2> QED
    BY <1>2, <2>3, <2>4
<1>4. ASSUME NEW t \in Threads, CheckL1(t) PROVE \A u \in Threads : OnTime(thread'[u])
  <2>1. InTime(thread[t].read) /\ thread[t] \in Busy
    BY <1>4, IsBusy DEF Timed, OnTime, CheckL1, TypeOK, Shapes
  <2>2. CASE thread'[t].at # "hit"
    <3>1. thread'[t].at # "check"
      BY <1>4, <2>2, CheckEffect
    <3> QED
      BY <1>2, <1>4, <2>2, <3>1, CheckEffect DEF OnTime
  <2>3. CASE thread'[t].at = "hit"
    <3> DEFINE e == thread[t].read
    <3>1. /\ e # None /\ now < e.expiresAt
          /\ thread'[t].time = now /\ thread'[t].msg = e.msg
      BY <1>4, <2>3, CheckEffect
    <3>2. e \in Stored
      BY <2>1, <3>1 DEF Busy
    <3> HIDE DEF e
    <3>3. e.expiresAt \in Nat /\ e.msg \in Answers /\ e.msg.stored \in Nat
      BY <3>2 DEF Stored, Answers
    <3>4. Lifetime(e.msg) \in Nat /\ now \in Nat
      BY <3>3, LifetimeRange DEF TypeOK
    <3>5. InTime(e)
      BY <2>1 DEF e
    <3>6. ~e.msg.promoted => now < e.msg.stored + Lifetime(e.msg)
      BY <3>1, <3>3, <3>4, <3>5 DEF InTime
    <3>7. OnTime(thread'[t])
      BY <2>3, <3>1, <3>6 DEF OnTime
    <3> QED
      BY <1>2, <1>4, <3>7, CheckEffect
  <2> QED
    BY <2>2, <2>3
<1>5. ASSUME NEW t \in Threads, Others(t), thread'[t].at \notin {"check", "hit"}
      PROVE  \A u \in Threads : OnTime(thread'[u])
  BY <1>2, <1>5 DEF OnTime
<1>6. ASSUME NEW t \in Threads, RedisHit(t) \/ RedisMiss(t) \/ UpstreamEmpty(t) \/ Serve(t)
      PROVE  \A u \in Threads : OnTime(thread'[u])
  BY <1>5, <1>6, RedisHitEffect, RedisMissEffect, IdleEffect
<1>7. ASSUME NEW t \in Threads, NEW ttl \in TTLs, Upstream(t, ttl)
      PROVE  \A u \in Threads : OnTime(thread'[u])
  BY <1>5, <1>7, UpstreamEffect
<1>8. ASSUME NEW t \in Threads, SetL1(t) PROVE \A u \in Threads : OnTime(thread'[u])
  <2>1. thread[t].msg \in Answers
    BY <1>8 DEF Carried, Carries, SetL1
  <2> QED
    BY <1>5, <1>8, <2>1, SetL1Effect
<1>9. ASSUME NEW t \in Threads, SetL2(t) \/ SkipL2(t)
      PROVE  \A u \in Threads : OnTime(thread'[u])
  <2>1. thread[t].at = "setL2" /\ Finish(t)
    BY <1>9 DEF SetL2, SkipL2
  <2>2. CASE thread[t].hit = TRUE
    <3>1. thread[t].msg.promoted = TRUE
      BY <2>1, <2>2 DEF Carried, Carries
    <3>2. Others(t) /\ thread'[t].at = "hit" /\ thread'[t].msg = thread[t].msg
      BY <2>1, <2>2, FinishEffect
    <3> QED
      BY <1>2, <3>1, <3>2 DEF OnTime
  <2>3. CASE thread[t].hit = FALSE
    BY <1>5, <2>1, <2>3, FinishEffect
  <2> QED
    BY <2>1, <2>2, <2>3, FinishEffect
<1>10. ASSUME UNCHANGED thread PROVE \A u \in Threads : OnTime(thread'[u])
  BY <1>10 DEF Timed
<1>11. ASSUME NEW n \in Names, Invalidate(n) PROVE UNCHANGED thread
  BY <1>11 DEF Invalidate
<1>12. Evict \/ Tick \/ UNCHANGED vars => UNCHANGED thread
  BY DEF Evict, Tick, vars
<1>13. ASSUME NEW t \in Threads, Step(t) PROVE \A u \in Threads : OnTime(thread'[u])
  BY <1>4, <1>6, <1>7, <1>8, <1>9, <1>13 DEF Step
<1>14. \A u \in Threads : OnTime(thread'[u])
  BY <1>3, <1>10, <1>11, <1>12, <1>13 DEF Next
<1> QED
  BY <1>1, <1>14 DEF Timed

\* A hit that never went through Redis is served within its clamped TTL of the
\* moment it was stored, although the expiry is looked at after the lock is
\* released (cache.go, Get and Set).
THEOREM ServedInTime == Spec => []FirstHandWithinTTL
<1>1. Init => Timed
  <2> SUFFICES ASSUME Init PROVE Timed
    OBVIOUS
  <2>1. \A k \in Keys : entries[k] = None
    BY DEF Init, Empty
  <2>2. \A t \in Threads : thread[t].at = "idle"
    BY DEF Init, Idle
  <2> QED
    BY <2>1, <2>2 DEF Timed, InTime, OnTime
<1>2. Timed => FirstHandWithinTTL
  BY DEF Timed, OnTime, FirstHandWithinTTL
<1> QED
  BY <1>1, <1>2, TypesHold, NextTimed, PTL DEF Spec

-----------------------------------------------------------------------------
(* Answers of the type asked for.                                          *)

\* Under a key with the name of a type there are only answers of that type;
\* the types without a name share one key.
OfType(k, e) == e # None /\ k[2] \in Known => e.msg.qtype = k[2]

Answering(r) ==
    r.at # "idle" /\ r.qtype \in Known =>
        /\ r.at = "check" /\ r.read # None => r.read.msg.qtype = r.qtype
        /\ r.at \in {"setL1", "setL2", "hit"} => r.msg.qtype = r.qtype

Typed ==
    /\ \A k \in Keys : OfType(k, entries[k]) /\ OfType(k, redis[k])
    /\ \A t \in Threads : Answering(thread[t])

\* What a question of a known type finds, or stores, under its key.
LEMMA KnownKey ==
    ASSUME NEW n \in Names, NEW q \in Types
    PROVE  /\ Key(n, q) \in Keys
           /\ q \in Known => Key(n, q)[2] = q
           /\ q \notin Known => Key(n, q)[2] \notin Known
  BY TypeNameAssumption, Zenon DEF Key, Keys

\* Redis changes only by SetL2.
LEMMA RedisStep ==
    ASSUME [Next]_vars PROVE redis' = redis \/ \E t \in Threads : SetL2(t)
<1>1. ASSUME NEW t \in Threads, Step(t), ~SetL2(t) PROVE redis' = redis
  BY <1>1 DEF Step, CheckL1, RedisHit, RedisMiss, Upstream, UpstreamEmpty, SetL1,
              SkipL2, Serve
<1>2. ASSUME NEW t \in Threads, NEW n \in Names, NEW q \in Types, Get(t, n, q)
      PROVE  redis' = redis
  BY <1>2 DEF Get
<1>3. ASSUME NEW n \in Names, Invalidate(n) PROVE redis' = redis
  BY <1>3 DEF Invalidate
<1>4. Evict \/ Tick \/ UNCHANGED vars => redis' = redis
  BY DEF Evict, Tick, vars
<1> QED
  BY <1>1, <1>2, <1>3, <1>4 DEF Next

\* The entry that t writes fits its key.
LEMMA WrittenOfType ==
    ASSUME NEW t \in Threads, thread[t] \in Busy, NEW e, e.msg.qtype = thread[t].msg.qtype,
           Answering(thread[t]), thread[t].at \in {"setL1", "setL2"}
    PROVE  OfType(Key(thread[t].name, thread[t].qtype), e)
<1>1. thread[t].name \in Names /\ thread[t].qtype \in Types
  BY DEF Busy
<1>2. CASE thread[t].qtype \in Known
  <2>1. Key(thread[t].name, thread[t].qtype)[2] = thread[t].qtype
    BY <1>1, <1>2, KnownKey
  <2>2. thread[t].msg.qtype = thread[t].qtype
    BY <1>2 DEF Answering
  <2> QED
    BY <2>1, <2>2 DEF OfType
<1>3. CASE thread[t].qtype \notin Known
  <2>1. Key(thread[t].name, thread[t].qtype)[2] \notin Known
    BY <1>1, <1>3, KnownKey
  <2> QED
    BY <2>1 DEF OfType
<1> QED
  BY <1>2, <1>3

LEMMA NextTyped == TypeOK /\ Carried /\ Typed /\ [Next]_vars => Typed'
<1> SUFFICES ASSUME TypeOK, Carried, Typed, [Next]_vars PROVE Typed'
  OBVIOUS
<1>0. entries \in [Keys -> Stored \cup {None}] /\ redis \in [Keys -> Stored \cup {None}]
  BY DEF TypeOK
<1>1. ASSUME NEW j \in Keys PROVE OfType(j, entries'[j])
  <2>1. ASSUME NEW t \in Threads, SetL1(t) PROVE OfType(j, entries'[j])
    <3> DEFINE k == Key(thread[t].name, thread[t].qtype)
               m == ToStore(t)
               e == [msg |-> m, expiresAt |-> now + Lifetime(m)]
    <3>1. thread[t].msg \in Answers /\ thread[t] \in Busy /\ Answering(thread[t])
      BY <2>1, IsBusy DEF Carried, Carries, SetL1, TypeOK, Shapes, Typed
    <3>2. entries' = [entries EXCEPT ![k] = e] /\ k \in Keys /\ m.qtype = thread[t].msg.qtype
      BY <2>1, <3>1, SetL1Effect
    <3>3. e.msg.qtype = thread[t].msg.qtype
      BY <3>2
    <3> HIDE DEF e
    <3>4. OfType(k, e)
      BY <2>1, <3>1, <3>3, WrittenOfType DEF SetL1
    <3> HIDE DEF k, m
    <3>5. entries'[j] = IF j = k THEN e ELSE entries[j]
      BY <1>0, <3>2
    <3> QED
      BY <3>4, <3>5 DEF Typed
  <2>2. CASE entries'[j] = None \/ entries'[j] = entries[j]
    BY <2>2 DEF Typed, OfType
  <2> QED
    BY <2>1, <2>2, EntriesStep
<1>2. ASSUME NEW j \in Keys PROVE OfType(j, redis'[j])
  <2>1. ASSUME NEW t \in Threads, SetL2(t) PROVE OfType(j, redis'[j])
    <3> DEFINE k == Key(thread[t].name, thread[t].qtype)
               e == [msg |-> thread[t].msg, expiresAt |-> RedisExpiry(now, thread[t].msg)]
    <3>1. thread[t] \in Busy /\ Answering(thread[t])
      BY <2>1, IsBusy DEF SetL2, TypeOK, Shapes, Typed
    <3>2. k \in Keys
      BY <3>1, KnownKey DEF Busy
    <3>3. redis' = [redis EXCEPT ![k] = e] /\ e.msg.qtype = thread[t].msg.qtype
      BY <2>1 DEF SetL2
    <3> HIDE DEF e
    <3>4. OfType(k, e)
      BY <2>1, <3>1, <3>3, WrittenOfType DEF SetL2
    <3> HIDE DEF k
    <3>5. redis'[j] = IF j = k THEN e ELSE redis[j]
      BY <1>0, <3>2, <3>3
    <3> QED
      BY <3>4, <3>5 DEF Typed
  <2>2. CASE redis' = redis
    BY <2>2 DEF Typed
  <2> QED
    BY <2>1, <2>2, RedisStep
<1>3. ASSUME NEW t \in Threads, Others(t), Answering(thread'[t])
      PROVE  \A u \in Threads : Answering(thread'[u])
  BY <1>3 DEF Typed, Others
<1>4. ASSUME NEW t \in Threads, NEW n \in Names, NEW q \in Types, Get(t, n, q)
      PROVE  \A u \in Threads : Answering(thread'[u])
  <2>1. Key(n, q) \in Keys /\ (q \in Known => Key(n, q)[2] = q)
    BY KnownKey
  <2>2. OfType(Key(n, q), entries[Key(n, q)])
    BY <2>1 DEF Typed
  <2>3. q \in Known /\ entries[Key(n, q)] # None => entries[Key(n, q)].msg.qtype = q
    BY <2>1, <2>2 DEF OfType
  <2> DEFINE e == entries[Key(n, q)]
  <2>4. Others(t) /\ thread'[t].at = "check" /\ thread'[t].read = e
    BY <1>4, GetEffect
  <2>5. thread'[t].qtype = q
    BY <1>4 DEF Get, TypeOK
  <2> HIDE DEF e
  <2>6. Answering(thread'[t])
    BY <2>3, <2>4, <2>5 DEF Answering, e
  <2> QED
    BY <1>3, <2>4, <2>6
<1>5. ASSUME NEW t \in Threads, CheckL1(t) PROVE \A u \in Threads : Answering(thread'[u])
  <2>1. thread[t].at = "check" /\ Answering(thread[t])
    BY <1>5 DEF CheckL1, Typed
  <2>2. Answering(thread'[t])
    BY <1>5, <2>1, CheckEffect DEF Answering, Keeps
  <2> QED
    BY <1>3, <1>5, <2>2, CheckEffect
<1>6. ASSUME NEW t \in Threads, RedisHit(t) PROVE \A u \in Threads : Answering(thread'[u])
  <2> DEFINE k == Key(thread[t].name, thread[t].qtype)
             e == redis[k]
  <2>1. thread[t].name \in Names /\ thread[t].qtype \in Types
    BY <1>6, IsBusy DEF RedisHit, TypeOK, Shapes, Busy
  <2>2. k \in Keys /\ (thread[t].qtype \in Known => k[2] = thread[t].qtype)
    BY <2>1, KnownKey
  <2>3. /\ Others(t) /\ Keeps(t) /\ e # None /\ thread'[t].at = "setL1"
        /\ thread'[t].msg.qtype = e.msg.qtype
    BY <1>6, RedisHitEffect
  <2>4. OfType(k, e)
    BY <2>2 DEF Typed
  <2>5. thread[t].qtype \in Known => e.msg.qtype = thread[t].qtype
    BY <2>2, <2>3, <2>4 DEF OfType
  <2>6. Answering(thread'[t])
    BY <2>3, <2>5 DEF Answering, Keeps
  <2> QED
    BY <1>3, <2>3, <2>6
<1>7. ASSUME NEW t \in Threads, RedisMiss(t) \/ UpstreamEmpty(t) \/ Serve(t)
      PROVE  \A u \in Threads : Answering(thread'[u])
  <2>1. thread'[t].at \in {"idle", "missed"} /\ Others(t)
    BY <1>7, RedisMissEffect, IdleEffect
  <2> QED
    BY <1>3, <2>1 DEF Answering
<1>8. ASSUME NEW t \in Threads, NEW ttl \in TTLs, Upstream(t, ttl)
      PROVE  \A u \in Threads : Answering(thread'[u])
  <2>1. Answering(thread'[t])
    BY <1>8, UpstreamEffect DEF Answering, Keeps
  <2> QED
    BY <1>3, <1>8, <2>1, UpstreamEffect
<1>9. ASSUME NEW t \in Threads, SetL1(t) PROVE \A u \in Threads : Answering(thread'[u])
  <2>1. thread[t].msg \in Answers /\ thread[t].at = "setL1" /\ Answering(thread[t])
    BY <1>9 DEF Carried, Carries, SetL1, Typed
  <2>2. /\ Others(t) /\ Keeps(t) /\ thread'[t].at = "setL2"
        /\ thread'[t].msg.qtype = thread[t].msg.qtype
    BY <1>9, <2>1, SetL1Effect
  <2>3. Answering(thread'[t])
    BY <2>1, <2>2 DEF Answering, Keeps
  <2> QED
    BY <1>3, <2>2, <2>3
<1>10. ASSUME NEW t \in Threads, SetL2(t) \/ SkipL2(t)
       PROVE  \A u \in Threads : Answering(thread'[u])
  <2>1. thread[t].at = "setL2" /\ Finish(t) /\ Answering(thread[t])
    BY <1>10 DEF SetL2, SkipL2, Typed
  <2>2. Answering(thread'[t])
    BY <2>1, FinishEffect DEF Answering, Keeps
  <2> QED
    BY <1>3, <2>1, <2>2, FinishEffect
<1>11. ASSUME UNCHANGED thread PROVE \A u \in Threads : Answering(thread'[u])
  BY <1>11 DEF Typed
<1>12. ASSUME NEW n \in Names, Invalidate(n) PROVE UNCHANGED thread
  BY <1>12 DEF Invalidate
<1>13. Evict \/ Tick \/ UNCHANGED vars => UNCHANGED thread
  BY DEF Evict, Tick, vars
<1>14. ASSUME NEW t \in Threads, Step(t) PROVE \A u \in Threads : Answering(thread'[u])
  BY <1>5, <1>6, <1>7, <1>8, <1>9, <1>10, <1>14 DEF Step
<1>15. \A u \in Threads : Answering(thread'[u])
  BY <1>4, <1>11, <1>12, <1>13, <1>14 DEF Next
<1> QED
  BY <1>1, <1>2, <1>15 DEF Typed

\* A question of a type that dns.TypeToString knows is never answered with
\* another type's records, from L1 or by promotion from Redis (cache.go, key).
THEOREM AnswersOfTheType == Spec => []TypesNeverMixed
<1>1. Init => Typed
  <2> SUFFICES ASSUME Init PROVE Typed
    OBVIOUS
  <2>1. \A t \in Threads : Answering(thread[t])
    BY DEF Init, Idle, Answering
  <2>2. ASSUME NEW j \in Keys PROVE OfType(j, Empty[j])
    BY DEF Empty, OfType
  <2>3. ASSUME NEW n \in Names, NEW q \in Types, NEW ttl \in TTLs, NEW j \in Keys
        PROVE  OfType(j, [Empty EXCEPT ![Key(n, q)] = LeftOver(q, ttl)][j])
    <3>1. LeftOver(q, ttl).msg.qtype = q
      BY DEF LeftOver
    <3> HIDE DEF LeftOver
    <3>2. /\ Key(n, q) \in Keys /\ (q \in Known => Key(n, q)[2] = q)
          /\ q \notin Known => Key(n, q)[2] \notin Known
      BY KnownKey
    <3>3. OfType(Key(n, q), LeftOver(q, ttl))
      BY <3>1, <3>2 DEF OfType
    <3>4. [Empty EXCEPT ![Key(n, q)] = LeftOver(q, ttl)][j]
            = IF j = Key(n, q) THEN LeftOver(q, ttl) ELSE Empty[j]
      BY DEF Empty
    <3> QED
      BY <2>2, <3>3, <3>4
  <2>4. \A j \in Keys : OfType(j, redis[j])
    <3>1. CASE redis = Empty
      BY <2>2, <3>1
    <3>2. CASE redis \in LeftOvers
      <4>1. PICK n \in Names, q \in Types, ttl \in TTLs :
                redis = [Empty EXCEPT ![Key(n, q)] = LeftOver(q, ttl)]
        BY <3>2, SMT DEF LeftOvers
      <4> QED
        BY <2>3, <4>1, Zenon
    <3> QED
      BY <3>1, <3>2 DEF Init
  <2> QED
    BY <2>1, <2>2, <2>4 DEF Init, Typed
<1>2. Typed => TypesNeverMixed
  BY DEF Typed, Answering, TypesNeverMixed
<1> QED
  BY <1>1, <1>2, TypesHold, NextTyped, PTL DEF Spec

-----------------------------------------------------------------------------
(* Invalidation without Redis.                                             *)

\* Nothing comes from Redis,
NoRedis ==
    /\ \A k \in Keys : redis[k] = None
    /\ \A t \in Threads : thread[t].at # "redisGet"

\* so that what a thread stores is the answer to its own Get.
OwnAnswer ==
    \A t \in Threads : thread[t].at \in {"setL1", "setL2"} =>
        thread[t].hit = FALSE /\ thread[t].msg.id = thread[t].id

\* Gets are numbered as they begin.
Begun ==
    /\ \A t \in Threads : thread[t].at # "idle" => thread[t].id <= gets
    /\ \A k \in Keys : entries[k] # None => entries[k].msg.id <= gets
    /\ \A i \in purged : i <= gets
    /\ \A t, u \in Threads : t # u /\ thread[t].at # "idle" /\ thread[u].at # "idle" =>
            thread[t].id # thread[u].id

\* An answer is stored under one name, and not before its thread stores it.
OneName ==
    /\ \A j, k \in Keys : /\ entries[j] # None /\ entries[k] # None
                          /\ entries[j].msg.id = entries[k].msg.id
                          => j[1] = k[1]
    /\ \A t \in Threads : thread[t].at \in {"check", "missed", "setL1"} =>
            \A k \in Keys : entries[k] # None => entries[k].msg.id # thread[t].id

\* What was removed is neither in L1 nor about to be stored.
Unpurged ==
    /\ \A k \in Keys : entries[k] # None => entries[k].msg.id \notin purged
    /\ \A t \in Threads : thread[t].at \in {"check", "missed", "setL1", "setL2"} =>
            thread[t].id \notin purged

\* What a thread has found was not removed before its Get began.
FoundUnpurged ==
    \A t \in Threads :
        /\ thread[t].at = "check" /\ thread[t].read # None =>
                thread[t].read.msg.id \notin thread[t].purged
        /\ thread[t].at = "hit" => thread[t].msg.id \notin thread[t].purged

Alone == NoRedis /\ OwnAnswer /\ Begun /\ OneName /\ Unpurged /\ FoundUnpurged

LEMMA IdTypes ==
    ASSUME TypeOK
    PROVE  /\ gets \in Nat
           /\ \A t \in Threads : thread[t].at # "idle" => thread[t].id \in Nat
           /\ \A k \in Keys : entries[k] # None => entries[k].msg.id \in Nat
           /\ \A i \in purged : i \in Nat
<1>1. gets \in Nat /\ \A i \in purged : i \in Nat
  BY DEF TypeOK, Ids
<1>2. ASSUME NEW t \in Threads, thread[t].at # "idle" PROVE thread[t].id \in Nat
  BY <1>2, IsBusy DEF TypeOK, Shapes, Busy, Ids
<1>3. ASSUME NEW k \in Keys, entries[k] # None PROVE entries[k].msg.id \in Nat
  BY <1>3 DEF TypeOK, Stored, Answers, Ids
<1> QED
  BY <1>1, <1>2, <1>3

\* A thread moves on without touching the cache.
LEMMA AloneMove ==
    ASSUME Alone, NEW t \in Threads, Others(t), UNCHANGED <<entries, redis, gets, purged>>,
           thread'[t].at \in {"missed", "setL1", "hit", "idle"},
           thread'[t].at # "idle" => thread[t].at # "idle" /\ thread'[t].id = thread[t].id,
           thread'[t].at = "setL1" => /\ thread'[t].hit = FALSE
                                      /\ thread'[t].msg.id = thread'[t].id,
           thread'[t].at \in {"missed", "setL1"} => thread[t].at \in {"check", "missed"},
           thread'[t].at = "hit" => thread'[t].msg.id \notin thread'[t].purged
    PROVE  Alone'
<1>1. NoRedis'
  BY DEF Alone, NoRedis, Others
<1>2. OwnAnswer'
  BY DEF Alone, OwnAnswer, Others
<1>3. Begun'
  <2>1. \A u \in Threads : thread'[u].at # "idle" =>
                thread[u].at # "idle" /\ thread'[u].id = thread[u].id
    BY DEF Others
  <2> QED
    BY <2>1 DEF Alone, Begun
<1>4. OneName'
  BY DEF Alone, OneName, Others
<1>5. Unpurged'
  BY DEF Alone, Unpurged, Others
<1>6. FoundUnpurged'
  BY DEF Alone, FoundUnpurged, Others
<1> QED
  BY <1>1, <1>2, <1>3, <1>4, <1>5, <1>6 DEF Alone

LEMMA AloneGet ==
    ASSUME TypeOK, Alone, NEW t \in Threads, NEW n \in Names, NEW q \in Types, Get(t, n, q)
    PROVE  Alone'
<1> DEFINE e == entries[Key(n, q)]
<1>1. /\ Others(t) /\ thread'[t].at = "check" /\ thread[t].at = "idle"
      /\ thread'[t].read = e /\ thread'[t].id = gets + 1 /\ thread'[t].purged = purged
  BY GetEffect
<1>2. UNCHANGED <<entries, redis, purged>> /\ gets' = gets + 1
  BY DEF Get
<1>3. Key(n, q) \in Keys
  BY KnownKey
<1>4. e # None => e.msg.id \notin purged
  BY <1>3 DEF Alone, Unpurged
<1> HIDE DEF e
<1>5. NoRedis' /\ OwnAnswer'
  BY <1>1, <1>2 DEF Alone, NoRedis, OwnAnswer, Others
<1>6. /\ gets + 1 > gets
      /\ \A u \in Threads : thread[u].at # "idle" => thread[u].id < gets + 1
      /\ \A k \in Keys : entries[k] # None => entries[k].msg.id < gets + 1
      /\ \A i \in purged : i < gets + 1
  BY IdTypes DEF Alone, Begun
<1>7. Begun'
  <2>1. \A u \in Threads : thread'[u].at # "idle" => thread'[u].id <= gets + 1
    BY <1>1, <1>6, IdTypes DEF Others
  <2>2. \A k \in Keys : entries[k] # None => entries[k].msg.id <= gets + 1
    BY <1>6, IdTypes
  <2>3. \A i \in purged : i <= gets + 1
    BY <1>6, IdTypes
  <2>4. ASSUME NEW v \in Threads, NEW u \in Threads, v # u, thread'[v].at # "idle",
               thread'[u].at # "idle"
        PROVE  thread'[v].id # thread'[u].id
    <3>1. CASE v # t /\ u # t
      BY <1>1, <2>4, <3>1 DEF Others, Alone, Begun
    <3>2. CASE v = t \/ u = t
      BY <1>1, <1>6, <2>4, <3>2, IdTypes DEF Others
    <3> QED
      BY <3>1, <3>2
  <2> QED
    BY <1>2, <2>1, <2>2, <2>3, <2>4 DEF Begun
<1>8. \A k \in Keys : entries[k] # None => entries[k].msg.id # gets + 1
  BY <1>6, IdTypes
<1>9. OneName'
  BY <1>1, <1>2, <1>8 DEF Alone, OneName, Others
<1>10. gets + 1 \notin purged
  BY <1>6, IdTypes
<1>11. Unpurged'
  BY <1>1, <1>2, <1>10 DEF Alone, Unpurged, Others
<1>12. FoundUnpurged'
  BY <1>1, <1>4 DEF Alone, FoundUnpurged, Others
<1> QED
  BY <1>5, <1>7, <1>9, <1>11, <1>12 DEF Alone

LEMMA AloneCheck ==
    ASSUME TypeOK, Alone, ~attached, NEW t \in Threads, CheckL1(t)
    PROVE  Alone'
<1>1. thread[t].at = "check" /\ UNCHANGED <<entries, redis, gets, purged>>
  BY DEF CheckL1
<1>2. Others(t) /\ Keeps(t)
  BY CheckEffect
<1>3. \/ thread'[t].at = "missed"
      \/ /\ thread'[t].at = "hit" /\ thread[t].read # None
         /\ thread'[t].msg = thread[t].read.msg
  BY CheckEffect
<1>4. thread'[t].at = "hit" => thread'[t].msg.id \notin thread'[t].purged
  BY <1>1, <1>2, <1>3 DEF Alone, FoundUnpurged, Keeps
<1> QED
  BY <1>1, <1>2, <1>3, <1>4, AloneMove DEF Keeps

LEMMA AloneUpstream ==
    ASSUME TypeOK, Carried, Alone, NEW t \in Threads, NEW ttl \in TTLs, Upstream(t, ttl)
    PROVE  Alone'
<1>1. /\ thread[t].at = "missed" /\ UNCHANGED <<entries, redis, gets, purged>>
      /\ thread[t].hit = FALSE
  BY DEF Upstream, Carried, Carries
<1>2. Others(t) /\ Keeps(t)
  BY UpstreamEffect
<1>3. thread'[t].at = "setL1" /\ thread'[t].hit = FALSE /\ thread'[t].msg.id = thread[t].id
  BY <1>1, UpstreamEffect
<1> QED
  BY <1>1, <1>2, <1>3, AloneMove DEF Keeps

LEMMA AloneIdle ==
    ASSUME TypeOK, Alone, NEW t \in Threads, UpstreamEmpty(t) \/ Serve(t) \/ SkipL2(t)
    PROVE  Alone'
<1>1. UNCHANGED <<entries, redis, gets, purged>>
  BY DEF UpstreamEmpty, Serve, SkipL2
<1>2. CASE UpstreamEmpty(t) \/ Serve(t)
  <2>1. Others(t) /\ thread'[t].at = "idle"
    BY <1>2, IdleEffect
  <2> QED
    BY <1>1, <2>1, AloneMove
<1>3. CASE SkipL2(t)
  <2>1. thread[t].at = "setL2" /\ Finish(t) /\ thread[t].hit = FALSE
    BY <1>3 DEF SkipL2, Alone, OwnAnswer
  <2>2. Others(t) /\ thread'[t].at = "idle"
    BY <2>1, FinishEffect
  <2> QED
    BY <1>1, <2>2, AloneMove
<1> QED
  BY <1>2, <1>3

LEMMA AloneSetL1 ==
    ASSUME TypeOK, Carried, Alone, NEW t \in Threads, SetL1(t)
    PROVE  Alone'
<1> DEFINE k == Key(thread[t].name, thread[t].qtype)
           m == ToStore(t)
           e == [msg |-> m, expiresAt |-> now + Lifetime(m)]
           i == thread[t].id
<1>1. /\ thread[t].at = "setL1" /\ thread[t].msg \in Answers
      /\ thread[t].hit = FALSE /\ thread[t].msg.id = i
      /\ UNCHANGED <<redis, gets, purged>>
  BY DEF SetL1, Carried, Carries, Alone, OwnAnswer
<1>2. /\ Others(t) /\ thread'[t].at = "setL2" /\ thread'[t].hit = FALSE
      /\ thread'[t].msg = m /\ m.id = i /\ k \in Keys
      /\ entries' = [entries EXCEPT ![k] = e]
  BY <1>1, SetL1Effect
<1>3. thread'[t].id = i
  BY <1>1, SetL1Effect DEF Keeps
<1>4. e.msg.id = i
  BY <1>2
<1>5. /\ i <= gets /\ i \notin purged
      /\ \A j \in Keys : entries[j] # None => entries[j].msg.id # i
  BY <1>1 DEF Alone, Begun, Unpurged, OneName
<1>6. \A u \in Threads : u # t /\ thread[u].at # "idle" => thread[u].id # i
  BY <1>1 DEF Alone, Begun
<1> HIDE DEF k, m, e, i
<1>7. \A j \in Keys : entries'[j] = IF j = k THEN e ELSE entries[j]
  BY <1>2 DEF TypeOK
<1>8. NoRedis' /\ OwnAnswer'
  BY <1>1, <1>2, <1>3 DEF Alone, NoRedis, OwnAnswer, Others
<1>9. Begun'
  <2>1. \A u \in Threads : thread'[u].at # "idle" =>
                thread[u].at # "idle" /\ thread'[u].id = thread[u].id
    BY <1>1, <1>2, <1>3 DEF Others, i
  <2>2. \A j \in Keys : entries'[j] # None => entries'[j].msg.id <= gets
    BY <1>4, <1>5, <1>7 DEF Alone, Begun
  <2> QED
    BY <1>1, <2>1, <2>2 DEF Alone, Begun
<1>10. OneName'
  <2>1. ASSUME NEW j \in Keys, NEW l \in Keys, entries'[j] # None, entries'[l] # None,
               entries'[j].msg.id = entries'[l].msg.id
        PROVE  j[1] = l[1]
    <3>1. CASE j = k \/ l = k
      BY <1>4, <1>5, <1>7, <2>1, <3>1
    <3>2. CASE j # k /\ l # k
      BY <1>7, <2>1, <3>2 DEF Alone, OneName
    <3> QED
      BY <3>1, <3>2
  <2>2. ASSUME NEW u \in Threads, thread'[u].at \in {"check", "missed", "setL1"},
               NEW j \in Keys, entries'[j] # None
        PROVE  entries'[j].msg.id # thread'[u].id
    <3>1. u # t /\ thread'[u] = thread[u]
      BY <1>2, <2>2 DEF Others
    <3>2. CASE j = k
      BY <1>4, <1>6, <1>7, <2>2, <3>1, <3>2
    <3>3. CASE j # k
      BY <1>7, <2>2, <3>1, <3>3 DEF Alone, OneName
    <3> QED
      BY <3>2, <3>3
  <2> QED
    BY <2>1, <2>2 DEF OneName
<1>11. Unpurged'
  <2>1. \A j \in Keys : entries'[j] # None => entries'[j].msg.id \notin purged
    BY <1>4, <1>5, <1>7 DEF Alone, Unpurged
  <2>2. \A u \in Threads : thread'[u].at \in {"check", "missed", "setL1", "setL2"} =>
            thread'[u].id \notin purged
    BY <1>2, <1>3, <1>5 DEF Alone, Unpurged, Others
  <2> QED
    BY <1>1, <2>1, <2>2 DEF Unpurged
<1>12. FoundUnpurged'
  BY <1>2 DEF Alone, FoundUnpurged, Others
<1> QED
  BY <1>8, <1>9, <1>10, <1>11, <1>12 DEF Alone

\* Without Redis the ids that Invalidate records are in L1 under the name, and
\* no thread is storing them.
LEMMA IdsInL1 ==
    ASSUME NEW n \in Names, NEW i \in IdsOf(n), NoRedis
    PROVE  /\ \E k \in Keys : k[1] = n /\ entries[k] # None /\ entries[k].msg.id = i
           /\ \A t \in Threads : thread[t].at \in {"setL1", "setL2"} => thread[t].msg.id # i
<1>1. \E s \in {entries[k] : k \in {j \in Keys : j[1] = n}}
                \cup {redis[k] : k \in {j \in Keys : j[1] = n}} : s # None /\ s.msg.id = i
  BY DEF IdsOf
<1>2. \E k \in Keys : k[1] = n /\ entries[k] # None /\ entries[k].msg.id = i
  BY <1>1 DEF NoRedis
<1>3. \A t \in Threads : thread[t].at \in {"setL1", "setL2"} => thread[t].msg.id # i
  BY DEF IdsOf
<1> QED
  BY <1>2, <1>3

LEMMA AloneInvalidate ==
    ASSUME TypeOK, Alone, NEW n \in Names, Invalidate(n)
    PROVE  Alone'
<1>1. /\ UNCHANGED <<redis, thread, gets>> /\ purged' = purged \cup IdsOf(n)
      /\ \A k \in Keys : entries'[k] = IF k[1] = n THEN None ELSE entries[k]
  BY DEF Invalidate
<1>2. NoRedis' /\ OwnAnswer'
  BY <1>1 DEF Alone, NoRedis, OwnAnswer
<1>3. Begun'
  <2>1. ASSUME NEW i \in IdsOf(n) PROVE i <= gets
    BY IdsInL1 DEF Alone, Begun
  <2> QED
    BY <1>1, <2>1 DEF Alone, Begun
<1>4. OneName'
  BY <1>1 DEF Alone, OneName
<1>5. Unpurged'
  <2>1. ASSUME NEW k \in Keys, entries'[k] # None PROVE entries'[k].msg.id \notin purged'
    <3>1. k[1] # n /\ entries'[k] = entries[k] /\ entries[k] # None
      BY <1>1, <2>1
    <3>2. entries[k].msg.id \notin IdsOf(n)
      BY <3>1, IdsInL1 DEF Alone, OneName
    <3> QED
      BY <1>1, <3>1, <3>2 DEF Alone, Unpurged
  <2>2. ASSUME NEW t \in Threads, thread[t].at \in {"check", "missed", "setL1", "setL2"}
        PROVE  thread[t].id \notin purged'
    <3>1. thread[t].id \notin IdsOf(n)
      BY <2>2, IdsInL1 DEF Alone, OneName, OwnAnswer
    <3> QED
      BY <1>1, <2>2, <3>1 DEF Alone, Unpurged
  <2> QED
    BY <1>1, <2>1, <2>2 DEF Unpurged
<1>6. FoundUnpurged'
  BY <1>1 DEF Alone, FoundUnpurged
<1> QED
  BY <1>2, <1>3, <1>4, <1>5, <1>6 DEF Alone

LEMMA NextAlone ==
    TypeOK /\ Carried /\ (~attached => Alone) /\ [Next]_vars => (~attached => Alone)'
<1> SUFFICES ASSUME TypeOK, Carried, ~attached => Alone, [Next]_vars, ~attached'
             PROVE  Alone'
  OBVIOUS
<1>1. attached' = attached
  BY DEF Next, Step, CheckL1, RedisHit, RedisMiss, Upstream, UpstreamEmpty, SetL1,
         SetL2, SkipL2, Serve, Get, Invalidate, Evict, Tick, vars
<1>2. Alone /\ ~attached
  BY <1>1
<1>3. ASSUME NEW t \in Threads, RedisHit(t) \/ RedisMiss(t) \/ SetL2(t) PROVE FALSE
  BY <1>2, <1>3 DEF RedisHit, RedisMiss, SetL2, Alone, NoRedis
<1>4. ASSUME NEW t \in Threads, Step(t) PROVE Alone'
  BY <1>2, <1>3, <1>4, AloneCheck, AloneUpstream, AloneIdle, AloneSetL1 DEF Step
<1>5. ASSUME NEW t \in Threads, NEW n \in Names, NEW q \in Types, Get(t, n, q) PROVE Alone'
  BY <1>2, <1>5, AloneGet
<1>6. ASSUME NEW n \in Names, Invalidate(n) PROVE Alone'
  BY <1>2, <1>6, AloneInvalidate
<1>7. CASE Evict
  <2>1. /\ UNCHANGED <<redis, thread, gets, purged>>
        /\ \A k \in Keys : entries'[k] = None \/ entries'[k] = entries[k]
    BY <1>7 DEF Evict
  <2>2. NoRedis' /\ OwnAnswer'
    BY <1>2, <2>1 DEF Alone, NoRedis, OwnAnswer
  <2>3. Begun'
    BY <1>2, <2>1 DEF Alone, Begun
  <2>4. OneName'
    BY <1>2, <2>1 DEF Alone, OneName
  <2>5. Unpurged' /\ FoundUnpurged'
    BY <1>2, <2>1 DEF Alone, Unpurged, FoundUnpurged
  <2> QED
    BY <2>2, <2>3, <2>4, <2>5 DEF Alone
<1>8. CASE Tick \/ UNCHANGED vars
  <2>1. UNCHANGED <<redis, thread, gets, purged, entries>>
    BY <1>8 DEF Tick, vars
  <2> QED
    BY <1>2, <2>1 DEF Alone, NoRedis, OwnAnswer, Begun, OneName, Unpurged, FoundUnpurged
<1> QED
  BY <1>4, <1>5, <1>6, <1>7, <1>8 DEF Next

\* Without Redis no Get that begins after an Invalidate serves an answer that
\* was then stored under the name: neither a pointer read before nor a Set in
\* flight brings it back to such a Get (cache.go, Invalidate).
THEOREM InvalidateHolds == Spec => []InvalidateSticksL1
<1>1. Init => (~attached => Alone)
  <2> SUFFICES ASSUME Init, ~attached PROVE Alone
    OBVIOUS
  <2>1. /\ \A k \in Keys : entries[k] = None /\ redis[k] = None
        /\ \A t \in Threads : thread[t].at = "idle"
        /\ purged = {}
    BY DEF Init, Empty, Idle
  <2> QED
    BY <2>1 DEF Alone, NoRedis, OwnAnswer, Begun, OneName, Unpurged, FoundUnpurged
<1>2. (~attached => Alone) => InvalidateSticksL1
  BY DEF Alone, FoundUnpurged, InvalidateSticksL1
<1> QED
  BY <1>1, <1>2, TypesHold, NextAlone, PTL DEF Spec
=============================================================================
