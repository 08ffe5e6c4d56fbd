------------------------ MODULE PolicyReload_proofs ------------------------
(***************************************************************************)
(* Proofs about PolicyReload for every set of lists, domains, files and    *)
(* API calls: the types, and that covered changes reach the memory.        *)
(***************************************************************************)
EXTENDS PolicyReload, TLAPS

Black == Entries(lists, "black")
White == Entries(lists, "white")

\* The last load of the listener is still the contents of the tables.
Fresh == covered /\ pending = 0

\* While everything is covered no API call holds a snapshot it will write.
OnlyListener == covered => \A a \in ApiCalls : stage[a] \in {"idle", "fetch"}

\* How far a fresh reload has brought the memory, by the listener's stage.
Loaded ==
    /\ stage[Listener] \in {"clearBlack", "clearWhite"} =>
          addBlack[Listener] = Black /\ addWhite[Listener] = White
    /\ stage[Listener] = "clearWhite" => blacklist = {}
    /\ stage[Listener] = "addBlack" =>
          /\ blacklist \cup addBlack[Listener] = Black
          /\ whitelist = {} /\ addWhite[Listener] = White
    /\ stage[Listener] = "addWhite" =>
          /\ blacklist = Black
          /\ whitelist \cup addWhite[Listener] = White
    /\ stage[Listener] = "fileBlack" =>
          /\ blacklist \cup addBlack[Listener] = Black \cup FileBlack
          /\ whitelist = White
    /\ stage[Listener] = "fileWhite" =>
          /\ blacklist = Black \cup FileBlack
          /\ whitelist \cup addWhite[Listener] = White \cup FileWhite
    /\ stage[Listener] \in {"categories", "policies", "idle"} => ListsInSync
    /\ stage[Listener] \in {"policies", "idle"} =>
          domainCategories \in CategoryMaps(lists)
    /\ stage[Listener] = "idle" => groupPolicies = policies

Progress == OnlyListener /\ (Fresh => Loaded)

IInv == TypeOK /\ Progress

-----------------------------------------------------------------------------

\* The entries of well-formed tables are domains.
LEMMA EntriesType ==
    ASSUME NEW ls \in [Lists -> ListStates], NEW t
    PROVE  Entries(ls, t) \subseteq Domains
BY DEF Entries, ListStates

LEMMA InitIInv == Init => IInv
<1> SUFFICES ASSUME Init PROVE IInv
  OBVIOUS
<1> USE ReloadAssumption DEF Init
<1>1. TypeOK
  <2>1. blacklist \subseteq Domains /\ whitelist \subseteq Domains
    BY EntriesType DEF InSync, ListsInSync
  <2>2. domainCategories \in [Domains -> Categories \cup {NoCategory}]
    BY DEF InSync, CategoryMaps
  <2>3. /\ stage \in [Reloaders -> Stages]
        /\ addBlack \in [Reloaders -> SUBSET Domains]
        /\ addWhite \in [Reloaders -> SUBSET Domains]
        /\ queue \in [Fetchers -> SUBSET External]
    BY DEF Stages
  <2>4. /\ lists \in [Lists -> ListStates] /\ policies \subseteq Groups \X Categories
        /\ groupPolicies \subseteq Groups \X Categories
    BY DEF InSync
  <2>5. changes \in 0 .. MaxChanges /\ pending \in 0 .. 2 * changes
    OBVIOUS
  <2>6. subscribed \in BOOLEAN /\ disturbed \in BOOLEAN /\ covered \in BOOLEAN
    BY Zenon
  <2> QED
    BY <2>1, <2>2, <2>3, <2>4, <2>5, <2>6 DEF TypeOK, Queries
<1>2. Progress
  BY DEF Progress, OnlyListener, Fresh, Loaded, InSync, Reloaders
<1> QED
  BY <1>1, <1>2 DEF IInv

-----------------------------------------------------------------------------
(* Commits.                                                                *)

\* A commit keeps the counters in range ...
LEMMA CommitTypes ==
    ASSUME TypeOK, NEW n \in 0 .. 2, Commit(n),
           lists' \in [Lists -> ListStates],
           policies' \subseteq Groups \X Categories,
           queue' \in [Fetchers -> SUBSET External]
    PROVE  TypeOK'
<1>1. changes' \in 0 .. MaxChanges /\ pending' \in 0 .. 2 * changes'
      /\ (~subscribed' => pending' = 0)
  BY ReloadAssumption DEF TypeOK, Commit
<1>2. covered' \in BOOLEAN
  BY DEF Commit
<1> QED
  BY <1>1, <1>2 DEF TypeOK, Commit, memory, reload, asking

\* ... and leaves no freshness behind: it is announced, or it is not covered.
LEMMA CommitProgress ==
    ASSUME TypeOK, Progress, NEW n \in 0 .. 2, Commit(n)
    PROVE  Progress'
<1>1. ~Fresh'
  <2> SUFFICES ASSUME covered', pending' = 0 PROVE FALSE
    BY DEF Fresh
  <2>1. subscribed /\ n > 0
    BY Zenon DEF Commit
  <2>2. pending' = pending + n
    BY <2>1 DEF Commit
  <2> QED
    BY <2>1, <2>2 DEF TypeOK
<1>2. OnlyListener'
  BY DEF Progress, OnlyListener, Commit, reload
<1> QED
  BY <1>1, <1>2 DEF Progress

LEMMA ChangeTablesIInv == IInv /\ ChangeTables => IInv'
<1> SUFFICES ASSUME IInv, ChangeTables PROVE IInv'
  OBVIOUS
<1> USE DEF IInv
<1>1. ASSUME NEW l \in Lists, InsertBlocklist(l) PROVE IInv'
  <2>1. lists' \in [Lists -> ListStates]
    BY <1>1 DEF InsertBlocklist, TypeOK, ListStates
  <2> QED
    BY <1>1, <2>1, CommitTypes, CommitProgress DEF InsertBlocklist, TypeOK
<1>2. ASSUME NEW l \in Lists, NEW d \in Domains, InsertBlocklistEntries(l, {d})
      PROVE  IInv'
  <2>1. lists' \in [Lists -> ListStates]
    BY <1>2 DEF InsertBlocklistEntries, TypeOK, ListStates
  <2> QED
    BY <1>2, <2>1, CommitTypes, CommitProgress DEF InsertBlocklistEntries, TypeOK
<1>3. ASSUME NEW l \in Lists, NEW act \in BOOLEAN, UpdateBlocklist(l, act)
      PROVE  IInv'
  <2>1. lists' \in [Lists -> ListStates]
    BY <1>3 DEF UpdateBlocklist, TypeOK, ListStates
  <2> QED
    BY <1>3, <2>1, CommitTypes, CommitProgress DEF UpdateBlocklist, TypeOK
<1>4. ASSUME NEW l \in Lists, DeleteBlocklist(l) PROVE IInv'
  <2>1. lists' \in [Lists -> ListStates]
    BY <1>4 DEF DeleteBlocklist, TypeOK, ListStates
  <2> QED
    BY <1>4, <2>1, CommitTypes, CommitProgress DEF DeleteBlocklist, TypeOK
<1>5. ASSUME NEW l \in Lists, NEW cs \in SUBSET Categories,
             SetBlocklistCategories(l, cs)
      PROVE  IInv'
  <2>1. lists' \in [Lists -> ListStates]
    BY <1>5 DEF SetBlocklistCategories, TypeOK, ListStates
  <2> QED
    BY <1>5, <2>1, CommitTypes, CommitProgress DEF SetBlocklistCategories, TypeOK
<1>6. ASSUME NEW g \in Groups, NEW cs \in SUBSET Categories, SetGroupPolicy(g, cs)
      PROVE  IInv'
  <2>1. policies' \subseteq Groups \X Categories
    BY <1>6 DEF SetGroupPolicy, TypeOK
  <2> QED
    BY <1>6, <2>1, CommitTypes, CommitProgress DEF SetGroupPolicy, TypeOK
<1>7. ASSUME NEW g \in Groups, DeleteGroup(g)
      PROVE  IInv'
  <2>1. policies' \subseteq Groups \X Categories
    BY <1>7 DEF DeleteGroup, TypeOK
  <2> QED
    BY <1>7, <2>1, CommitTypes, CommitProgress DEF DeleteGroup, TypeOK
<1>8. CASE ChangeRange
  BY <1>8, CommitTypes, CommitProgress DEF ChangeRange, TypeOK
<1> QED
  BY <1>1, <1>2, <1>3, <1>4, <1>5, <1>6, <1>7, <1>8 DEF ChangeTables

LEMMA FetchIInv == IInv /\ Fetch => IInv'
<1> SUFFICES ASSUME IInv, Fetch PROVE IInv'
  OBVIOUS
<1> USE DEF IInv
<1>1. CASE StartUpdate
  <2>1. queue' \in [Fetchers -> SUBSET External]
    BY <1>1 DEF StartUpdate, TypeOK, ToFetch, Fetchers
  <2> QED
    BY <1>1, <2>1 DEF StartUpdate, TypeOK, Progress, OnlyListener, Fresh, Loaded,
                      Black, White, ListsInSync, database, session, memory,
                      reload, asking
<1>2. ASSUME NEW a \in ApiCalls, StartDownload(a) PROVE IInv'
  <2>1. queue' \in [Fetchers -> SUBSET External]
    BY <1>2 DEF StartDownload, TypeOK, ToFetch, Fetchers
  <2>2. stage' \in [Reloaders -> Stages] /\ stage'[Listener] = stage[Listener]
    BY <1>2, ReloadAssumption DEF StartDownload, TypeOK, Stages, Reloaders
  <2>3. TypeOK'
    BY <1>2, <2>1, <2>2 DEF StartDownload, TypeOK, database, session, memory, asking
  <2>4. OnlyListener'
    BY <1>2 DEF StartDownload, TypeOK, Progress, OnlyListener, Reloaders
  <2>5. Fresh' => Loaded'
    BY <1>2, <2>2 DEF StartDownload, Progress, Fresh, Loaded, Black, White,
                      ListsInSync, database, session, memory
  <2> QED
    BY <2>3, <2>4, <2>5 DEF Progress
<1>3. ASSUME NEW f \in Fetchers, NEW l \in queue[f],
             NEW ds \in (SUBSET Domains) \ {{}}, FetchList(f, l, ds)
      PROVE  IInv'
  <2>1. l \in Lists
    BY ReloadAssumption DEF TypeOK
  <2>2. lists' \in [Lists -> ListStates]
    BY <1>3, <2>1 DEF FetchList, TypeOK, ListStates
  <2>3. queue' \in [Fetchers -> SUBSET External]
    BY <1>3 DEF FetchList, TypeOK
  <2> QED
    BY <1>3, <2>2, <2>3, CommitTypes, CommitProgress DEF FetchList, TypeOK
<1>4. ASSUME NEW f \in Fetchers, NEW l \in queue[f], FetchFails(f, l) PROVE IInv'
  <2>1. queue' \in [Fetchers -> SUBSET External]
    BY <1>4 DEF FetchFails, TypeOK
  <2> QED
    BY <1>4, <2>1 DEF FetchFails, TypeOK, Progress, OnlyListener, Fresh, Loaded,
                      Black, White, ListsInSync, database, session, memory,
                      reload, asking
<1> QED
  BY <1>1, <1>2, <1>3, <1>4 DEF Fetch

-----------------------------------------------------------------------------
(* The session and the snapshots.                                          *)

LEMMA SessionIInv == IInv /\ (Subscribe \/ ConnectionLost) => IInv'
<1> SUFFICES ASSUME IInv, Subscribe \/ ConnectionLost PROVE IInv'
  OBVIOUS
<1> USE DEF IInv
<1>1. CASE Subscribe
  BY <1>1 DEF Subscribe, TypeOK, Progress, OnlyListener, Fresh, Loaded, Black,
              White, ListsInSync, database, memory, reload, asking
<1>2. CASE ConnectionLost
  <2>1. covered' \in BOOLEAN /\ (covered' => Fresh)
    BY <1>2, Zenon DEF ConnectionLost, Fresh
  <2>2. TypeOK'
    <3>1. pending' = 0 /\ pending' \in 0 .. 2 * changes'
      BY <1>2 DEF ConnectionLost, TypeOK, database
    <3>2. subscribed' \in BOOLEAN
      BY <1>2, Zenon DEF ConnectionLost
    <3> QED
      BY <1>2, <2>1, <3>1, <3>2 DEF ConnectionLost, TypeOK, database, memory, reload, asking
  <2>3. OnlyListener'
    BY <1>2, <2>1 DEF ConnectionLost, Progress, OnlyListener, Fresh, reload
  <2>4. Fresh' => Loaded'
    BY <1>2, <2>1 DEF ConnectionLost, Progress, Fresh, Loaded, Black, White,
                      ListsInSync, database, memory, reload
  <2> QED
    BY <2>2, <2>3, <2>4 DEF Progress
<1> QED
  BY <1>1, <1>2

\* A snapshot has the types of the reload's variables.
LEMMA SnapshotTypes ==
    ASSUME TypeOK, NEW r \in Reloaders, TakeSnapshot(r)
    PROVE  /\ stage' \in [Reloaders -> Stages]
           /\ addBlack' \in [Reloaders -> SUBSET Domains]
           /\ addWhite' \in [Reloaders -> SUBSET Domains]
<1>1. Entries(lists, "black") \subseteq Domains /\ Entries(lists, "white") \subseteq Domains
  BY EntriesType DEF TypeOK
<1> QED
  BY <1>1 DEF TakeSnapshot, TypeOK, Stages

LEMMA NotifiedIInv == IInv /\ (Notified \/ NotifiedInVain) => IInv'
<1> SUFFICES ASSUME IInv, Notified \/ NotifiedInVain PROVE IInv'
  OBVIOUS
<1> USE DEF IInv
<1>0. Listener \in Reloaders /\ Listener \notin ApiCalls
  BY ReloadAssumption DEF Reloaders
<1>1. CASE Notified
  <2>1. /\ stage' \in [Reloaders -> Stages]
        /\ addBlack' \in [Reloaders -> SUBSET Domains]
        /\ addWhite' \in [Reloaders -> SUBSET Domains]
    BY <1>0, <1>1, SnapshotTypes DEF Notified
  <2>2. pending' \in 0 .. 2 * changes' /\ (~subscribed' => pending' = 0)
    BY <1>1 DEF Notified, TypeOK, database
  <2>3. covered' \in BOOLEAN
    BY <1>1, Zenon DEF Notified
  <2>4. TypeOK'
    BY <1>1, <2>1, <2>2, <2>3 DEF Notified, TypeOK, database, memory, asking
  <2>5. covered' => \A a \in ApiCalls : stage[a] \in {"idle", "fetch"}
    BY <1>1, Zenon DEF Notified
  <2>6. OnlyListener'
    BY <1>0, <1>1, <2>5 DEF Notified, TakeSnapshot, OnlyListener, TypeOK, Reloaders
  <2>7. /\ stage'[Listener] = "clearBlack"
        /\ addBlack'[Listener] = Black' /\ addWhite'[Listener] = White'
    BY <1>0, <1>1 DEF Notified, TakeSnapshot, TypeOK, Black, White, database
  <2>8. Loaded'
    BY <2>7 DEF Loaded
  <2> QED
    BY <2>4, <2>6, <2>8 DEF Progress
<1>2. CASE NotifiedInVain
  <2>1. TypeOK'
    <3>1. pending' \in 0 .. 2 * changes' /\ (~subscribed' => pending' = 0)
      BY <1>2 DEF NotifiedInVain, TypeOK, database
    <3>2. covered' \in BOOLEAN
      BY <1>2, Zenon DEF NotifiedInVain
    <3> QED
      BY <1>2, <3>1, <3>2 DEF NotifiedInVain, TypeOK, database, memory, reload, asking
  <2>2. ~covered'
    BY <1>2, Zenon DEF NotifiedInVain
  <2> QED
    BY <2>1, <2>2 DEF Progress, OnlyListener, Fresh
<1> QED
  BY <1>1, <1>2

LEMMA ApiReloadIInv ==
    ASSUME IInv, NEW a \in ApiCalls, ApiReload(a) \/ ApiReloadFails(a)
    PROVE  IInv'
<1> USE DEF IInv
<1>0. a \in Reloaders /\ Listener \in Reloaders /\ Listener # a
  BY ReloadAssumption DEF Reloaders
<1>1. CASE ApiReload(a)
  <2>1. /\ stage' \in [Reloaders -> Stages]
        /\ addBlack' \in [Reloaders -> SUBSET Domains]
        /\ addWhite' \in [Reloaders -> SUBSET Domains]
    BY <1>0, <1>1, SnapshotTypes DEF ApiReload
  <2>2. ~covered' /\ covered' \in BOOLEAN
    BY <1>1, Zenon DEF ApiReload
  <2>3. TypeOK'
    BY <1>1, <2>1, <2>2 DEF ApiReload, TypeOK, database, session, memory, asking
  <2> QED
    BY <2>2, <2>3 DEF Progress, OnlyListener, Fresh
<1>2. CASE ApiReloadFails(a)
  <2>1. stage' \in [Reloaders -> Stages] /\ stage'[Listener] = stage[Listener]
    BY <1>0, <1>2 DEF ApiReloadFails, TypeOK, Stages
  <2>2. TypeOK'
    BY <1>2, <2>1 DEF ApiReloadFails, TypeOK, database, session, memory, asking
  <2>3. OnlyListener'
    BY <1>2 DEF ApiReloadFails, TypeOK, Progress, OnlyListener, Reloaders
  <2>4. Fresh' => Loaded'
    BY <1>2, <2>1 DEF ApiReloadFails, Progress, Fresh, Loaded, Black, White,
                      ListsInSync, database, session, memory
  <2> QED
    BY <2>2, <2>3, <2>4 DEF Progress
<1> QED
  BY <1>1, <1>2

-----------------------------------------------------------------------------
(* The steps that write the memory.                                        *)

\* They keep the types, whoever takes them.
LEMMA ApplyTypes ==
    ASSUME TypeOK, NEW r \in Reloaders, ApplyStep(r)
    PROVE  TypeOK'
<1> USE DEF TypeOK
<1>0. disturbed' \in BOOLEAN
  BY Zenon DEF ApplyStep
<1>1. UNCHANGED <<database, session, queue, query>> /\ Apply(r)
  BY DEF ApplyStep
<1>2. CASE ClearBlack(r) \/ ClearWhite(r)
  BY <1>0, <1>1, <1>2 DEF ClearBlack, ClearWhite, Stages, database, session
<1>3. ASSUME NEW d \in Domains, AddBlack(r, d) \/ AddWhite(r, d) PROVE TypeOK'
  BY <1>0, <1>1, <1>3 DEF AddBlack, AddWhite, database, session
<1>4. CASE EndOfLoop(r)
  <2>1. /\ stage' \in [Reloaders -> Stages]
        /\ addBlack' \in [Reloaders -> SUBSET Domains]
        /\ addWhite' \in [Reloaders -> SUBSET Domains]
    BY <1>4, ReloadAssumption DEF EndOfLoop, Stages
  <2> QED
    BY <1>0, <1>1, <1>4, <2>1 DEF EndOfLoop, memory, database, session
<1>5. CASE ReloadCategories(r)
  <2>1. domainCategories' \in [Domains -> Categories \cup {NoCategory}]
    BY <1>5 DEF ReloadCategories, CategoryMaps, PartialCategoryMaps
  <2>2. covered' \in BOOLEAN
    BY <1>5 DEF ReloadCategories
  <2> QED
    BY <1>0, <1>1, <1>5, <2>1, <2>2 DEF ReloadCategories, Stages, database, session
<1>6. CASE ReloadPolicies(r)
  <2>1. groupPolicies' \subseteq Groups \X Categories /\ covered' \in BOOLEAN
    BY <1>6 DEF ReloadPolicies
  <2> QED
    BY <1>0, <1>1, <1>6, <2>1 DEF ReloadPolicies, Stages, database, session
<1> QED
  BY <1>1, <1>2, <1>3, <1>4, <1>5, <1>6 DEF Apply

\* An API call writes the memory only when nothing is covered any more.
LEMMA ApiApplyProgress ==
    ASSUME IInv, NEW a \in ApiCalls, ApplyStep(a)
    PROVE  Progress'
<1>1. stage[a] \notin {"idle", "fetch"}
  BY DEF ApplyStep, Apply, ClearBlack, ClearWhite, AddBlack, AddWhite, EndOfLoop,
         ReloadCategories, ReloadPolicies
<1>2. ~covered
  BY <1>1 DEF IInv, Progress, OnlyListener
<1>3. covered' => covered
  BY DEF ApplyStep, Apply, ClearBlack, ClearWhite, AddBlack, AddWhite, EndOfLoop,
         ReloadCategories, ReloadPolicies
<1> QED
  BY <1>2, <1>3 DEF Progress, OnlyListener, Fresh

\* The listener brings the memory one stage further.
LEMMA ListenerApplyProgress ==
    ASSUME IInv, ApplyStep(Listener)
    PROVE  Progress'
<1> USE DEF IInv
<1>0. /\ Listener \in Reloaders /\ Listener \notin ApiCalls
      /\ Apply(Listener) /\ UNCHANGED <<lists, policies, pending>>
      /\ UNCHANGED <<Black, White>>
  BY ReloadAssumption DEF ApplyStep, Reloaders, database, session, Black, White
<1>1. covered' => covered
  BY <1>0 DEF Apply, ClearBlack, ClearWhite, AddBlack, AddWhite, EndOfLoop,
              ReloadCategories, ReloadPolicies
<1>2. \A a \in ApiCalls : stage'[a] = stage[a]
  BY <1>0 DEF Apply, ClearBlack, ClearWhite, AddBlack, AddWhite, EndOfLoop,
              ReloadCategories, ReloadPolicies, TypeOK, Reloaders
<1>3. OnlyListener'
  BY <1>1, <1>2 DEF Progress, OnlyListener
<1>4. SUFFICES ASSUME Fresh' PROVE Loaded'
  BY <1>3 DEF Progress
<1>5. Fresh /\ Loaded
  BY <1>0, <1>1, <1>4 DEF Fresh, Progress
<1>6. CASE ClearBlack(Listener)
  BY <1>0, <1>5, <1>6 DEF ClearBlack, Loaded, TypeOK
<1>7. CASE ClearWhite(Listener)
  BY <1>0, <1>5, <1>7 DEF ClearWhite, Loaded, TypeOK
<1>8. ASSUME NEW d \in Domains, AddBlack(Listener, d) PROVE Loaded'
  BY <1>0, <1>5, <1>8 DEF AddBlack, Loaded, TypeOK
<1>9. ASSUME NEW d \in Domains, AddWhite(Listener, d) PROVE Loaded'
  BY <1>0, <1>5, <1>9 DEF AddWhite, Loaded, TypeOK
<1>10. CASE EndOfLoop(Listener)
  BY <1>0, <1>5, <1>10 DEF EndOfLoop, Loaded, TypeOK, ListsInSync, Black, White, memory
<1>11. CASE ReloadCategories(Listener)
  <2>1. domainCategories' \in CategoryMaps(lists)
    BY <1>4, <1>11 DEF ReloadCategories, Fresh
  <2>2. ListsInSync'
    BY <1>0, <1>5, <1>11 DEF ReloadCategories, Loaded, ListsInSync
  <2>3. stage'[Listener] = "policies"
    BY <1>0, <1>11 DEF ReloadCategories, TypeOK
  <2> QED
    BY <1>0, <2>1, <2>2, <2>3 DEF Loaded
<1>12. CASE ReloadPolicies(Listener)
  <2>1. groupPolicies' = policies
    BY <1>4, <1>12 DEF ReloadPolicies, Fresh
  <2>2. ListsInSync' /\ domainCategories' \in CategoryMaps(lists')
    BY <1>0, <1>5, <1>12 DEF ReloadPolicies, Loaded, ListsInSync
  <2>3. stage'[Listener] = "idle"
    BY <1>0, <1>12 DEF ReloadPolicies, TypeOK
  <2> QED
    BY <1>0, <2>1, <2>2, <2>3 DEF Loaded
<1> QED
  BY <1>0, <1>6, <1>7, <1>8, <1>9, <1>10, <1>11, <1>12 DEF Apply

-----------------------------------------------------------------------------
(* Queries read the configuration and change nothing of it.                *)

LEMMA QueryIInv ==
    ASSUME IInv, Evaluate \/ (\E d \in Asked, g \in Groups : Ask(d, g))
    PROVE  IInv'
<1> USE DEF IInv
<1>1. query' \in Queries /\ disturbed' \in BOOLEAN
  <2>1. CASE Evaluate
    <3>1. query.at # "none" /\ query \in Queries
      BY <2>1 DEF Evaluate, CheckWhite, CheckBlack, CheckCategory, TypeOK
    <3>2. query \in [at : {"white", "black", "category", "done"}, domain : Asked,
                      group : Groups, verdict : {"allow", "block"}]
      BY <3>1 DEF Queries, NoQuery
    <3>3. query' \in Queries
      <4>1. CASE CheckWhite
        BY <3>2, <4>1 DEF CheckWhite, Queries
      <4>2. CASE CheckBlack
        BY <3>2, <4>2 DEF CheckBlack, Queries
      <4>3. CASE CheckCategory
        BY <3>2, <4>3 DEF CheckCategory, Queries
      <4> QED
        BY <2>1, <4>1, <4>2, <4>3 DEF Evaluate
    <3>4. disturbed' \in BOOLEAN
      BY <2>1 DEF Evaluate, CheckWhite, CheckBlack, CheckCategory, TypeOK
    <3> QED
      BY <3>3, <3>4
  <2>2. ASSUME NEW d \in Asked, NEW g \in Groups, Ask(d, g)
        PROVE  query' \in Queries /\ disturbed' \in BOOLEAN
    <3>1. query' \in Queries
      BY <2>2 DEF Ask, Queries
    <3>2. disturbed' \in BOOLEAN
      BY <2>2, Zenon DEF Ask
    <3> QED
      BY <3>1, <3>2
  <2> QED
    BY <2>1, <2>2
<1>2. UNCHANGED <<database, session, memory, reload, queue, covered>>
  BY DEF Evaluate, CheckWhite, CheckBlack, CheckCategory, Ask
<1> QED
  BY <1>1, <1>2 DEF TypeOK, Progress, OnlyListener, Fresh, Loaded, Black, White,
                    ListsInSync, database, session, memory, reload

-----------------------------------------------------------------------------

THEOREM Invariance == Spec => []IInv
<1>1. IInv /\ [Next]_vars => IInv'
  <2> SUFFICES ASSUME IInv, [Next]_vars PROVE IInv'
    OBVIOUS
  <2>1. CASE ChangeTables
    BY <2>1, ChangeTablesIInv
  <2>2. CASE Fetch
    BY <2>2, FetchIInv
  <2>3. CASE Subscribe \/ ConnectionLost
    BY <2>3, SessionIInv
  <2>4. CASE Notified \/ NotifiedInVain
    BY <2>4, NotifiedIInv
  <2>5. CASE ApplyStep(Listener)
    BY <2>5, ApplyTypes, ListenerApplyProgress DEF IInv, Reloaders
  <2>6. ASSUME NEW a \in ApiCalls, ApiReload(a) \/ ApiReloadFails(a) PROVE IInv'
    BY <2>6, ApiReloadIInv
  <2>7. ASSUME NEW a \in ApiCalls, ApplyStep(a) PROVE IInv'
    BY <2>7, ApplyTypes, ApiApplyProgress DEF IInv, Reloaders
  <2>8. CASE Evaluate \/ \E d \in Asked, g \in Groups : Ask(d, g)
    BY <2>8, QueryIInv
  <2>9. CASE UNCHANGED vars
    BY <2>9 DEF IInv, TypeOK, Progress, OnlyListener, Fresh, Loaded, Black, White,
                ListsInSync, vars, database, session, memory, reload, asking
  <2> QED
    BY <2>1, <2>2, <2>3, <2>4, <2>5, <2>6, <2>7, <2>8, <2>9 DEF Next, ListenerStep
<1> QED
  BY InitIInv, <1>1, PTL DEF Spec

\* Every variable of the reload keeps its type, and undelivered notifications
\* exist only for an established session and are bounded by the commits.
THEOREM TypeCorrect == Spec => []TypeOK
<1>1. IInv => TypeOK
  BY DEF IInv
<1> QED
  BY Invariance, <1>1, PTL

\* Covered changes reach the memory: for any number of lists, domains, API
\* calls and commits, an idle listener with nothing pending has left the
\* memory equal to the tables and the files.
THEOREM CoveredChangesArrive == Spec => []CoveredIsInSync
<1>1. IInv => CoveredIsInSync
  BY DEF IInv, Progress, Fresh, Loaded, CoveredIsInSync, InSync
<1> QED
  BY Invariance, <1>1, PTL

-----------------------------------------------------------------------------
(* Lists deleted while a download of them is under way.                    *)

\* Whoever writes a list's row, its entries or its categories finds the list
\* present, or makes it present; only the deletion leaves it absent.
LEMMA NextDeleted ==
    IInv /\ DeletedStaysEmpty /\ [Next]_vars => DeletedStaysEmpty'
<1> SUFFICES ASSUME IInv, DeletedStaysEmpty, [Next]_vars PROVE DeletedStaysEmpty'
  OBVIOUS
<1>1. lists \in [Lists -> ListStates] /\ queue \in [Fetchers -> SUBSET External]
  BY DEF IInv, TypeOK
<1>2. ASSUME NEW k \in Lists, NEW s \in ListStates, lists' = [lists EXCEPT ![k] = s],
             ~s.present => s.entries = {} /\ s.cats = {}
      PROVE  DeletedStaysEmpty'
  BY <1>1, <1>2 DEF DeletedStaysEmpty
<1>3. CASE lists' = lists
  BY <1>3 DEF DeletedStaysEmpty
<1>4. CASE ChangeTables
  <2>1. ASSUME NEW l \in Lists, InsertBlocklist(l) PROVE DeletedStaysEmpty'
    <3> DEFINE s == [present |-> TRUE, active |-> TRUE, entries |-> {}, cats |-> {}]
    <3>1. s \in ListStates /\ s.present
      BY DEF ListStates
    <3> QED
      BY <1>2, <2>1, <3>1 DEF InsertBlocklist
  <2>2. ASSUME NEW l \in Lists, NEW d \in Domains, InsertBlocklistEntries(l, {d})
        PROVE  DeletedStaysEmpty'
    BY <1>1, <2>2 DEF InsertBlocklistEntries, DeletedStaysEmpty, ListStates
  <2>3. ASSUME NEW l \in Lists, NEW active \in BOOLEAN, UpdateBlocklist(l, active)
        PROVE  DeletedStaysEmpty'
    BY <1>1, <2>3 DEF UpdateBlocklist, DeletedStaysEmpty, ListStates
  <2>4. ASSUME NEW l \in Lists, DeleteBlocklist(l) PROVE DeletedStaysEmpty'
    BY <1>1, <2>4 DEF DeleteBlocklist, DeletedStaysEmpty
  <2>5. ASSUME NEW l \in Lists, NEW cs \in SUBSET Categories,
               SetBlocklistCategories(l, cs)
        PROVE  DeletedStaysEmpty'
    BY <1>1, <2>5 DEF SetBlocklistCategories, DeletedStaysEmpty, ListStates
  <2>6. ASSUME NEW g, NEW cs, SetGroupPolicy(g, cs) \/ DeleteGroup(g) \/ ChangeRange
        PROVE  DeletedStaysEmpty'
    BY <1>3, <2>6 DEF SetGroupPolicy, DeleteGroup, ChangeRange
  <2> QED
    BY <1>4, <2>1, <2>2, <2>3, <2>4, <2>5, <2>6 DEF ChangeTables
<1>5. CASE Fetch
  <2>1. ASSUME NEW f \in Fetchers, NEW l \in queue[f],
               NEW ds \in (SUBSET Domains) \ {{}}, FetchList(f, l, ds)
        PROVE  DeletedStaysEmpty'
    <3>1. l \in Lists
      BY <1>1, ReloadAssumption
    <3> QED
      BY <1>1, <2>1, <3>1 DEF FetchList, DeletedStaysEmpty, ListStates
  <2>2. CASE UNCHANGED lists
    BY <1>3, <2>2
  <2> QED
    BY <1>5, <2>1, <2>2 DEF Fetch, StartUpdate, StartDownload, FetchFails, database
<1>6. CASE Subscribe \/ ConnectionLost \/ Notified \/ NotifiedInVain
  BY <1>3, <1>6 DEF Subscribe, ConnectionLost, Notified, NotifiedInVain, database
<1>7. ASSUME NEW r, ApiReload(r) \/ ApiReloadFails(r) \/ ApplyStep(r)
      PROVE  DeletedStaysEmpty'
  BY <1>3, <1>7 DEF ApiReload, ApiReloadFails, ApplyStep, database
<1>8. ASSUME NEW d, NEW g, Ask(d, g) \/ Evaluate PROVE DeletedStaysEmpty'
  BY <1>3, <1>8 DEF Ask, Evaluate, CheckWhite, CheckBlack, CheckCategory, database
<1>9. CASE UNCHANGED vars
  BY <1>3, <1>9 DEF vars, database
<1> QED
  BY <1>4, <1>5, <1>6, <1>7, <1>8, <1>9 DEF Next, ListenerStep

\* A deleted list stays empty, for any number of lists and of downloads that
\* selected it before: the transaction of a late download finds no list to refer
\* to and is rolled back (updater.go, migration 003).
THEOREM DeletedListsStayEmpty == Spec => []DeletedStaysEmpty
<1>1. Init => DeletedStaysEmpty
  BY ReloadAssumption DEF Init, DeletedStaysEmpty
<1> QED
  BY <1>1, Invariance, NextDeleted, PTL DEF Spec

-----------------------------------------------------------------------------
(* The verdict of an evaluation that no reload disturbed.                  *)

\* What the look-ups made so far have found still holds, unless a reload wrote
\* the memory after them.
Judged ==
    /\ query.at \in {"white", "black", "category"} => query.verdict = "allow"
    /\ ~disturbed /\ query.at \in {"black", "category"} =>
          ~Contains(whitelist, query.domain)
    /\ ~disturbed /\ query.at = "category" => ~Contains(blacklist, query.domain)
    /\ UndisturbedVerdict

\* Every step but those of a query leaves it alone, and the memory with it or
\* records the disturbance.
LEMMA OtherStepsDisturb ==
    ASSUME [Next]_vars
    PROVE  \/ Evaluate
           \/ \E d \in Asked, g \in Groups : Ask(d, g)
           \/ query' = query /\ (disturbed' \/ (~disturbed /\ UNCHANGED memory))
<1>1. ASSUME NEW r, ApplyStep(r)
      PROVE  query' = query /\ (disturbed' \/ (~disturbed /\ UNCHANGED memory))
  <2>1. query' = query
    BY <1>1 DEF ApplyStep
  <2>2. disturbed' = (disturbed \/ memory' # memory)
    BY <1>1 DEF ApplyStep
  <2> QED
    BY <2>1, <2>2, Zenon
<1>2. ASSUME NEW n, Commit(n) PROVE UNCHANGED <<query, memory, disturbed>>
  BY <1>2 DEF Commit, asking
<1>3. CASE ChangeTables
  BY <1>2, <1>3 DEF ChangeTables, InsertBlocklist, InsertBlocklistEntries, UpdateBlocklist,
        DeleteBlocklist, SetBlocklistCategories, SetGroupPolicy, DeleteGroup, ChangeRange
<1>4. CASE Fetch
  BY <1>2, <1>4 DEF Fetch, StartUpdate, StartDownload, FetchList, FetchFails, asking
<1>5. CASE Subscribe \/ ConnectionLost \/ Notified \/ NotifiedInVain
  BY <1>5 DEF Subscribe, ConnectionLost, Notified, NotifiedInVain, asking
<1>6. CASE \E a \in ApiCalls : ApiReload(a) \/ ApiReloadFails(a)
  BY <1>6 DEF ApiReload, ApiReloadFails, asking
<1>7. CASE UNCHANGED vars
  BY <1>7 DEF vars, asking
<1> QED
  BY <1>1, <1>3, <1>4, <1>5, <1>6, <1>7 DEF Next, ListenerStep

LEMMA NextJudged == IInv /\ Judged /\ [Next]_vars => Judged'
<1> SUFFICES ASSUME IInv, Judged, [Next]_vars PROVE Judged'
  OBVIOUS
<1>1. query \in Queries
  BY DEF IInv, TypeOK
<1>2. query.at # "none" => query \in [at : {"white", "black", "category", "done"},
                                      domain : Asked, group : Groups,
                                      verdict : {"allow", "block"}]
  BY <1>1 DEF Queries, NoQuery
<1>3. CASE Evaluate
  <2>1. UNCHANGED <<blacklist, whitelist, domainCategories, groupPolicies, disturbed>>
    BY <1>3 DEF Evaluate, CheckWhite, CheckBlack, CheckCategory, memory
  <2>2. CASE CheckWhite
    <3>1. /\ query'.domain = query.domain /\ query'.group = query.group
          /\ query'.verdict = "allow"
      BY <1>2, <2>2 DEF CheckWhite, Judged
    <3>2. CASE Contains(whitelist, query.domain)
      <4>1. query'.at = "done"
        BY <1>2, <2>2, <3>2 DEF CheckWhite
      <4> QED
        BY <2>1, <3>1, <3>2, <4>1 DEF Judged, UndisturbedVerdict, Decision
    <3>3. CASE ~Contains(whitelist, query.domain)
      <4>1. query'.at = "black"
        BY <1>2, <2>2, <3>3 DEF CheckWhite
      <4> QED
        BY <2>1, <3>1, <3>3, <4>1 DEF Judged, UndisturbedVerdict
    <3> QED
      BY <3>2, <3>3
  <2>3. CASE CheckBlack
    <3>1. query'.domain = query.domain /\ query'.group = query.group
      BY <1>2, <2>3 DEF CheckBlack
    <3>2. CASE Contains(blacklist, query.domain)
      <4>1. query'.at = "done" /\ query'.verdict = "block"
        BY <1>2, <2>3, <3>2 DEF CheckBlack
      <4>2. ~disturbed => ~Contains(whitelist, query.domain)
        BY <2>3 DEF CheckBlack, Judged
      <4> QED
        BY <2>1, <3>1, <3>2, <4>1, <4>2 DEF Judged, UndisturbedVerdict, Decision
    <3>3. CASE ~Contains(blacklist, query.domain)
      <4>1. query'.at = "category" /\ query'.verdict = query.verdict
        BY <1>2, <2>3, <3>3 DEF CheckBlack
      <4> QED
        BY <2>1, <2>3, <3>1, <3>3, <4>1 DEF Judged, UndisturbedVerdict, CheckBlack
    <3> QED
      BY <3>2, <3>3
  <2>4. CASE CheckCategory
    <3> DEFINE blocked == CategoryBlocked(domainCategories, groupPolicies,
                                          query.domain, query.group)
    <3>1. /\ query'.domain = query.domain /\ query'.group = query.group
          /\ query'.at = "done" /\ query'.verdict = IF blocked THEN "block" ELSE "allow"
      BY <1>2, <2>4 DEF CheckCategory
    <3>2. ~disturbed => ~Contains(whitelist, query.domain) /\ ~Contains(blacklist, query.domain)
      BY <2>4 DEF CheckCategory, Judged
    <3> QED
      BY <2>1, <3>1, <3>2 DEF Judged, UndisturbedVerdict, Decision
  <2> QED
    BY <1>3, <2>2, <2>3, <2>4 DEF Evaluate
<1>4. ASSUME NEW d \in Asked, NEW g \in Groups, Ask(d, g) PROVE Judged'
  BY <1>4 DEF Ask, Judged, UndisturbedVerdict
<1>5. CASE query' = query /\ disturbed'
  BY <1>5 DEF Judged, UndisturbedVerdict
<1>6. CASE query' = query /\ ~disturbed /\ UNCHANGED memory
  BY <1>6 DEF Judged, UndisturbedVerdict, memory
<1> QED
  BY <1>3, <1>4, <1>5, <1>6, OtherStepsDisturb

\* An evaluation during which no reload wrote the memory answers what one look
\* at the whole memory decides: whitelist, then blacklist, then category policy
\* (engine.go, EvaluateForGroup).
THEOREM UndisturbedIsAtomic == Spec => []UndisturbedVerdict
<1>1. Init => Judged
  BY DEF Init, Judged, UndisturbedVerdict, NoQuery
<1>2. Judged => UndisturbedVerdict
  BY DEF Judged
<1> QED
  BY <1>1, <1>2, Invariance, NextJudged, PTL DEF Spec
=============================================================================
