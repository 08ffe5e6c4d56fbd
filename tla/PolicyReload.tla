---------------------------- MODULE PolicyReload ----------------------------
(***************************************************************************)
(* Hot reload of the filtering policy (RF03.9): the tables blocklists,     *)
(* blocklist_entries, blocklist_categories and policies in PostgreSQL, the *)
(* NOTIFY triggers of migration 007, the LISTEN goroutine of               *)
(* internal/store/notify.go with the callback that cmd/dnsfilter/main.go   *)
(* gives it, the admin API calls that change the tables or reload the      *)
(* lists themselves, the external list updater, and DNS queries that are   *)
(* evaluated meanwhile.                                                    *)
(*                                                                         *)
(* A reload is not atomic: it loads a snapshot, clears the blacklist,      *)
(* clears the whitelist and adds the domains one by one, each step under a *)
(* lock of its own.  Boot is over when the model starts, so the memory     *)
(* agrees with the database.                                               *)
(***************************************************************************)
EXTENDS FilterEngine

CONSTANTS
    Lists,          \* rows of blocklists
    ListType,       \* ListType[l]: "black" or "white"
    External,       \* lists with a source_url
    FileBlack,      \* domains of blocklist.txt
    FileWhite,      \* domains of allowlist.txt
    ApiCalls,       \* concurrent reload or download requests
    Listener,       \* the LISTEN goroutine
    Updater,        \* the list updater goroutine
    InitialLists,   \* contents of the tables when the model starts
    InitialPolicies,
    Asked,          \* domains that queries ask for
    MaxChanges      \* bound: committed transactions

ListStates == [present : BOOLEAN, active : BOOLEAN,
               entries : SUBSET Domains, cats : SUBSET Categories]

ASSUME ReloadAssumption ==
    /\ ListType \in [Lists -> {"black", "white"}]
    /\ External \subseteq Lists
    /\ FileBlack \subseteq Domains /\ FileWhite \subseteq Domains
    /\ Listener \notin ApiCalls /\ Updater \notin ApiCalls /\ Listener # Updater
    /\ InitialLists \in [Lists -> ListStates]
    /\ \A l \in Lists : ~InitialLists[l].present =>
          InitialLists[l].entries = {} /\ InitialLists[l].cats = {}
    /\ InitialPolicies \subseteq Groups \X Categories
    /\ Asked \subseteq Domains
    /\ MaxChanges \in Nat

VARIABLES
    lists,             \* blocklists, blocklist_entries, blocklist_categories
    policies,          \* policies: {<<group, category>>}
    changes,           \* transactions committed so far
    subscribed,        \* the LISTEN session is established
    pending,           \* notifications the session has not yet delivered
    blacklist,         \* the in-memory lists ...
    whitelist,
    domainCategories,  \* ... and the engine's two maps
    groupPolicies,
    stage,             \* stage[r]: where reloader r is
    addBlack,          \* addBlack[r], addWhite[r]: domains r has still to add
    addWhite,
    queue,             \* queue[f]: external lists f has still to fetch
    query,             \* the query under evaluation
    disturbed,         \* the memory changed since that query began
    covered            \* history: see below

database == <<lists, policies, changes>>
session  == <<subscribed, pending>>
memory   == <<blacklist, whitelist, domainCategories, groupPolicies>>
reload   == <<stage, addBlack, addWhite>>
asking   == <<query, disturbed>>
vars == <<database, session, memory, reload, queue, asking, covered>>

Reloaders == {Listener} \cup ApiCalls
Fetchers == {Updater} \cup ApiCalls
Stages == {"idle", "fetch", "clearBlack", "clearWhite", "addBlack", "addWhite",
           "fileBlack", "fileWhite", "categories", "policies"}

-----------------------------------------------------------------------------
(* What the store's queries return.                                        *)

\* LoadActiveBlocklistEntries: domains of active lists without a category.
Entries(ls, type) ==
    UNION {ls[l].entries : l \in {k \in Lists : /\ ListType[k] = type
                                                /\ ls[k].present /\ ls[k].active
                                                /\ ls[k].cats = {}}}

\* LoadCategoryDomains: the categories that active lists give to a domain.
CategoriesOf(ls, d) ==
    UNION {ls[l].cats : l \in {k \in Lists : /\ ls[k].present /\ ls[k].active
                                             /\ d \in ls[k].entries}}

\* Engine.LoadCategories keeps one category per domain: the one that the random
\* iteration order of a Go map comes to last.
CategoryMaps(ls) ==
    {m \in [Domains -> Categories \cup {NoCategory}] :
        \A d \in Domains : IF CategoriesOf(ls, d) = {} THEN m[d] = NoCategory
                                                      ELSE m[d] \in CategoriesOf(ls, d)}

\* The rows of a result that broke off before its end: LoadCategoryDomains and
\* LoadGroupPolicies never look at rows.Err.
PartialCategoryMaps(ls) ==
    {m \in [Domains -> Categories \cup {NoCategory}] :
        \A d \in Domains : m[d] \in CategoriesOf(ls, d) \cup {NoCategory}}

ListsInSync ==
    /\ blacklist = Entries(lists, "black") \cup FileBlack
    /\ whitelist = Entries(lists, "white") \cup FileWhite

InSync ==
    /\ ListsInSync
    /\ domainCategories \in CategoryMaps(lists)
    /\ groupPolicies = policies

-----------------------------------------------------------------------------

NoQuery == [at |-> "none"]
Queries == {NoQuery} \cup [at : {"white", "black", "category", "done"},
                           domain : Asked, group : Groups,
                           verdict : {"allow", "block"}]

TypeOK ==
    /\ lists \in [Lists -> ListStates]
    /\ policies \subseteq Groups \X Categories
    /\ changes \in 0 .. MaxChanges
    /\ subscribed \in BOOLEAN
    /\ pending \in 0 .. 2 * changes
    /\ ~subscribed => pending = 0
    /\ blacklist \subseteq Domains
    /\ whitelist \subseteq Domains
    /\ domainCategories \in [Domains -> Categories \cup {NoCategory}]
    /\ groupPolicies \subseteq Groups \X Categories
    /\ stage \in [Reloaders -> Stages]
    /\ addBlack \in [Reloaders -> SUBSET Domains]
    /\ addWhite \in [Reloaders -> SUBSET Domains]
    /\ queue \in [Fetchers -> SUBSET External]
    /\ query \in Queries
    /\ disturbed \in BOOLEAN
    /\ covered \in BOOLEAN

Init ==
    /\ lists = InitialLists
    /\ policies = InitialPolicies
    /\ changes = 0
    /\ subscribed \in BOOLEAN
    /\ pending = 0
    /\ InSync
    /\ stage = [r \in Reloaders |-> "idle"]
    /\ addBlack = [r \in Reloaders |-> {}]
    /\ addWhite = [r \in Reloaders |-> {}]
    /\ queue = [f \in Fetchers |-> {}]
    /\ query = NoQuery
    /\ disturbed = FALSE
    /\ covered = TRUE

-----------------------------------------------------------------------------
(* Transactions.  A commit announces each changed table that has a trigger *)
(* to a subscribed session.  `covered' records that every commit since the *)
(* listener's last full load has been announced, that no load has failed   *)
(* since, and that nobody but the listener has written the memory.         *)

\* Variant of Commit whose notifications wait for a session that is not there.
Commit_Always(notifications) ==
    /\ changes < MaxChanges
    /\ changes' = changes + 1
    /\ pending' = pending + notifications
    /\ covered' = (covered /\ notifications > 0)
    /\ UNCHANGED <<subscribed, memory, reload, asking>>

Commit(notifications) ==
    /\ changes < MaxChanges
    /\ changes' = changes + 1
    /\ pending' = IF subscribed THEN pending + notifications ELSE pending
    /\ covered' = (covered /\ subscribed /\ notifications > 0)
    /\ UNCHANGED <<subscribed, memory, reload, asking>>

\* POST /lists: a new list is active and empty, and its id is new to everyone.
InsertBlocklist(l) ==
    /\ ~lists[l].present
    /\ \A f \in Fetchers : l \notin queue[f]
    /\ lists' = [lists EXCEPT ![l] =
            [present |-> TRUE, active |-> TRUE, entries |-> {}, cats |-> {}]]
    /\ Commit(1)
    /\ UNCHANGED <<policies, queue>>

\* POST /lists/{id}/entries: entries, then the list's domain count.
InsertBlocklistEntries(l, ds) ==
    /\ lists[l].present
    /\ lists' = [lists EXCEPT ![l].entries = @ \cup ds]
    /\ Commit(2)
    /\ UNCHANGED <<policies, queue>>

\* PUT /lists/{id}
UpdateBlocklist(l, active) ==
    /\ lists[l].present
    /\ lists' = [lists EXCEPT ![l].active = active]
    /\ Commit(1)
    /\ UNCHANGED <<policies, queue>>

\* DELETE /lists/{id}: the category rows go with it (ON DELETE CASCADE).
DeleteBlocklist(l) ==
    /\ lists[l].present
    /\ lists' = [lists EXCEPT ![l] =
            [present |-> FALSE, active |-> FALSE, entries |-> {}, cats |-> {}]]
    /\ Commit(2)
    /\ UNCHANGED <<policies, queue>>

\* PUT /lists/{id}/categories: blocklist_categories has no trigger.
SetBlocklistCategories(l, cs) ==
    /\ lists[l].present
    /\ lists' = [lists EXCEPT ![l].cats = cs]
    /\ Commit(0)
    /\ UNCHANGED <<policies, queue>>

\* PUT /groups/{id}/policy
SetGroupPolicy(g, cs) ==
    /\ policies' = {p \in policies : p[1] # g} \cup ({g} \X cs)
    /\ Commit(1)
    /\ UNCHANGED <<lists, queue>>

\* DELETE /groups/{id}: policies and ip_ranges follow (ON DELETE CASCADE), and
\* both have the trigger.  A later group, which is inserted without any
\* announcement, may take the name g in the model.
DeleteGroup(g) ==
    /\ policies' = {p \in policies : p[1] # g}
    /\ Commit(2)
    /\ UNCHANGED <<lists, queue>>

\* POST, PUT or DELETE /ranges: ip_ranges has the trigger too, and its
\* notification reloads the policy although nothing of it has changed.
ChangeRange ==
    /\ Commit(1)
    /\ UNCHANGED <<lists, policies, queue>>

ChangeTables ==
    \/ \E l \in Lists :
        \/ InsertBlocklist(l)
        \/ \E d \in Domains : InsertBlocklistEntries(l, {d})
        \/ \E active \in BOOLEAN : UpdateBlocklist(l, active)
        \/ DeleteBlocklist(l)
        \/ \E cs \in SUBSET Categories : SetBlocklistCategories(l, cs)
    \/ \E g \in Groups, cs \in SUBSET Categories : g > 0 /\ SetGroupPolicy(g, cs)
    \/ \E g \in Groups : g > 0 /\ DeleteGroup(g)
    \/ ChangeRange

-----------------------------------------------------------------------------
(* External lists: the updater's ticker and POST /lists/download fetch the *)
(* active external lists one after the other.                              *)

ToFetch == {l \in External : lists[l].present /\ lists[l].active}

StartUpdate ==
    /\ queue[Updater] = {}
    /\ queue' = [queue EXCEPT ![Updater] = ToFetch]
    /\ UNCHANGED <<database, session, memory, reload, asking, covered>>

\* With no list to fetch the request returns at once, without a reload.
StartDownload(a) ==
    /\ stage[a] = "idle"
    /\ ToFetch # {}
    /\ queue' = [queue EXCEPT ![a] = ToFetch]
    /\ stage' = [stage EXCEPT ![a] = "fetch"]
    /\ UNCHANGED <<database, session, memory, addBlack, addWhite, asking, covered>>

\* Variant of FetchList over tables without the foreign key.
FetchList_NoForeignKey(f, l, ds) ==
    /\ l \in queue[f]
    /\ queue' = [queue EXCEPT ![f] = @ \ {l}]
    /\ lists' = [lists EXCEPT ![l].entries = ds]
    /\ Commit(2)
    /\ UNCHANGED policies

\* One transaction replaces the entries by what the URL returned.  The list
\* may have been deleted since it was selected: the inserts then fail and the
\* transaction is rolled back.
FetchList(f, l, ds) ==
    /\ l \in queue[f]
    /\ lists[l].present
    /\ queue' = [queue EXCEPT ![f] = @ \ {l}]
    /\ lists' = [lists EXCEPT ![l].entries = ds]
    /\ Commit(2)
    /\ UNCHANGED policies

\* Download error, empty download, or a transaction that did not commit.
FetchFails(f, l) ==
    /\ l \in queue[f]
    /\ queue' = [queue EXCEPT ![f] = @ \ {l}]
    /\ UNCHANGED <<database, session, memory, reload, asking, covered>>

Fetch ==
    \/ StartUpdate
    \/ \E a \in ApiCalls : StartDownload(a)
    \/ \E f \in Fetchers : \E l \in queue[f] :
        \/ \E ds \in (SUBSET Domains) \ {{}} : FetchList(f, l, ds)
        \/ FetchFails(f, l)

-----------------------------------------------------------------------------
(* The LISTEN session.                                                     *)

Subscribe ==
    /\ ~subscribed
    /\ subscribed' = TRUE
    /\ UNCHANGED <<database, pending, memory, reload, queue, asking, covered>>

\* WaitForNotification fails: what was not delivered is lost, and listen is
\* called again after the backoff, without a reload.
ConnectionLost ==
    /\ subscribed
    /\ stage[Listener] = "idle"
    /\ subscribed' = FALSE
    /\ pending' = 0
    /\ covered' = (covered /\ pending = 0)
    /\ UNCHANGED <<database, memory, reload, queue, asking>>

\* A reloader takes a snapshot of the active entries.
TakeSnapshot(r) ==
    /\ stage' = [stage EXCEPT ![r] = "clearBlack"]
    /\ addBlack' = [addBlack EXCEPT ![r] = Entries(lists, "black")]
    /\ addWhite' = [addWhite EXCEPT ![r] = Entries(lists, "white")]

\* A notification arrives and the callback loads the entries.
Notified ==
    /\ stage[Listener] = "idle"
    /\ pending > 0
    /\ pending' = pending - 1
    /\ TakeSnapshot(Listener)
    /\ covered' = \A a \in ApiCalls : stage[a] \in {"idle", "fetch"}
    /\ UNCHANGED <<database, subscribed, memory, queue, asking>>

\* Variant of NotifiedInVain that ignores the error and goes on with nothing.
NotifiedInVain_Proceeds ==
    /\ stage[Listener] = "idle"
    /\ pending > 0
    /\ pending' = pending - 1
    /\ stage' = [stage EXCEPT ![Listener] = "clearBlack"]
    /\ UNCHANGED <<database, subscribed, memory, addBlack, addWhite, queue,
                   asking, covered>>

\* The load fails: the callback returns and the notification is gone.
NotifiedInVain ==
    /\ stage[Listener] = "idle"
    /\ pending > 0
    /\ pending' = pending - 1
    /\ covered' = FALSE
    /\ UNCHANGED <<database, subscribed, memory, reload, queue, asking>>

\* POST /lists/reload, or the end of POST /lists/download.
ApiReload(a) ==
    /\ \/ stage[a] = "idle"
       \/ stage[a] = "fetch" /\ queue[a] = {}
    /\ TakeSnapshot(a)
    /\ covered' = FALSE
    /\ UNCHANGED <<database, session, memory, queue, asking>>

\* Its load fails: the request ends.
ApiReloadFails(a) ==
    /\ stage[a] = "fetch"
    /\ queue[a] = {}
    /\ stage' = [stage EXCEPT ![a] = "idle"]
    /\ UNCHANGED <<database, session, memory, addBlack, addWhite, queue, asking,
                   covered>>

-----------------------------------------------------------------------------
(* The steps of a reload that write the memory.                            *)

ClearBlack(r) ==
    /\ stage[r] = "clearBlack"
    /\ blacklist' = {}
    /\ stage' = [stage EXCEPT ![r] = "clearWhite"]
    /\ UNCHANGED <<whitelist, domainCategories, groupPolicies, addBlack, addWhite,
                   covered>>

ClearWhite(r) ==
    /\ stage[r] = "clearWhite"
    /\ whitelist' = {}
    /\ stage' = [stage EXCEPT ![r] = "addBlack"]
    /\ UNCHANGED <<blacklist, domainCategories, groupPolicies, addBlack, addWhite,
                   covered>>

\* One iteration of a loop over blackDomains, or over blocklist.txt.
AddBlack(r, d) ==
    /\ stage[r] \in {"addBlack", "fileBlack"}
    /\ d \in addBlack[r]
    /\ blacklist' = blacklist \cup {d}
    /\ addBlack' = [addBlack EXCEPT ![r] = @ \ {d}]
    /\ UNCHANGED <<whitelist, domainCategories, groupPolicies, stage, addWhite,
                   covered>>

\* One iteration of a loop over whiteDomains, or over allowlist.txt.
AddWhite(r, d) ==
    /\ stage[r] \in {"addWhite", "fileWhite"}
    /\ d \in addWhite[r]
    /\ whitelist' = whitelist \cup {d}
    /\ addWhite' = [addWhite EXCEPT ![r] = @ \ {d}]
    /\ UNCHANGED <<blacklist, domainCategories, groupPolicies, stage, addBlack,
                   covered>>

\* Variant of EndOfLoop whose callback does not add the files again.
EndOfLoop_NoFiles(r) ==
    /\ \/ /\ stage[r] = "addBlack" /\ addBlack[r] = {}
          /\ stage' = [stage EXCEPT ![r] = "addWhite"]
       \/ /\ stage[r] = "addWhite" /\ addWhite[r] = {}
          /\ stage' = [stage EXCEPT ![r] = IF r = Listener THEN "categories" ELSE "idle"]
    /\ UNCHANGED <<memory, addBlack, addWhite, covered>>

\* The end of each loop.  An API reload ends after the database's entries;
\* the listener's callback goes on with the files, the categories and the policies.
EndOfLoop(r) ==
    /\ \/ /\ stage[r] = "addBlack" /\ addBlack[r] = {}
          /\ stage' = [stage EXCEPT ![r] = "addWhite"]
          /\ UNCHANGED <<addBlack, addWhite>>
       \/ /\ stage[r] = "addWhite" /\ addWhite[r] = {}
          /\ stage' = [stage EXCEPT ![r] = IF r = Listener THEN "fileBlack" ELSE "idle"]
          /\ addBlack' = [addBlack EXCEPT ![r] = IF r = Listener THEN FileBlack ELSE {}]
          /\ UNCHANGED addWhite
       \/ /\ stage[r] = "fileBlack" /\ addBlack[r] = {}
          /\ stage' = [stage EXCEPT ![r] = "fileWhite"]
          /\ addWhite' = [addWhite EXCEPT ![r] = FileWhite]
          /\ UNCHANGED addBlack
       \/ /\ stage[r] = "fileWhite" /\ addWhite[r] = {}
          /\ stage' = [stage EXCEPT ![r] = "categories"]
          /\ UNCHANGED <<addBlack, addWhite>>
    /\ UNCHANGED <<memory, covered>>

\* LoadCategoryDomains, then LoadCategories under the engine's lock unless the
\* load failed.  Only this goroutine writes the map, so load and swap are one step.
ReloadCategories(r) ==
    /\ stage[r] = "categories"
    /\ \/ domainCategories' \in CategoryMaps(lists) /\ UNCHANGED covered
       \/ domainCategories' \in PartialCategoryMaps(lists) /\ covered' = FALSE
       \/ UNCHANGED domainCategories /\ covered' = FALSE
    /\ stage' = [stage EXCEPT ![r] = "policies"]
    /\ UNCHANGED <<blacklist, whitelist, groupPolicies, addBlack, addWhite>>

\* LoadGroupPolicies, then LoadPolicies, likewise; the reload is over.
ReloadPolicies(r) ==
    /\ stage[r] = "policies"
    /\ \/ groupPolicies' = policies /\ UNCHANGED covered
       \/ groupPolicies' \in SUBSET policies /\ covered' = FALSE
       \/ UNCHANGED groupPolicies /\ covered' = FALSE
    /\ stage' = [stage EXCEPT ![r] = "idle"]
    /\ UNCHANGED <<blacklist, whitelist, domainCategories, addBlack, addWhite>>

Apply(r) ==
    \/ ClearBlack(r)
    \/ ClearWhite(r)
    \/ \E d \in Domains : AddBlack(r, d) \/ AddWhite(r, d)
    \/ EndOfLoop(r)
    \/ ReloadCategories(r)
    \/ ReloadPolicies(r)

ApplyStep(r) ==
    /\ Apply(r)
    /\ disturbed' = (disturbed \/ memory' # memory)
    /\ UNCHANGED <<database, session, queue, query>>

-----------------------------------------------------------------------------
(* EvaluateForGroup: the whitelist, the blacklist and the two maps are read *)
(* one after the other, each under a lock of its own.                       *)

Ask(d, g) ==
    /\ query.at \in {"none", "done"}
    /\ query' = [at |-> "white", domain |-> d, group |-> g, verdict |-> "allow"]
    /\ disturbed' = FALSE
    /\ UNCHANGED <<database, session, memory, reload, queue, covered>>

\* Variant of CheckWhite that looks at the blacklist before the whitelist.
CheckWhite_BlackFirst ==
    /\ query.at = "white"
    /\ query' = IF Contains(blacklist, query.domain)
                THEN [query EXCEPT !.at = "done", !.verdict = "block"]
                ELSE [query EXCEPT !.at = IF Contains(whitelist, query.domain)
                                          THEN "done" ELSE "black"]
    /\ UNCHANGED <<database, session, memory, reload, queue, disturbed, covered>>

CheckWhite ==
    /\ query.at = "white"
    /\ query' = [query EXCEPT !.at = IF Contains(whitelist, query.domain)
                                     THEN "done" ELSE "black"]
    /\ UNCHANGED <<database, session, memory, reload, queue, disturbed, covered>>

CheckBlack ==
    /\ query.at = "black"
    /\ query' = IF Contains(blacklist, query.domain)
                THEN [query EXCEPT !.at = "done", !.verdict = "block"]
                ELSE [query EXCEPT !.at = "category"]
    /\ UNCHANGED <<database, session, memory, reload, queue, disturbed, covered>>

CheckCategory ==
    /\ query.at = "category"
    /\ query' = [query EXCEPT !.at = "done",
            !.verdict = IF CategoryBlocked(domainCategories, groupPolicies,
                                           query.domain, query.group)
                        THEN "block" ELSE "allow"]
    /\ UNCHANGED <<database, session, memory, reload, queue, disturbed, covered>>

Evaluate == CheckWhite \/ CheckBlack \/ CheckCategory

-----------------------------------------------------------------------------

ListenerStep == Notified \/ NotifiedInVain \/ ApplyStep(Listener)

Next ==
    \/ ChangeTables
    \/ Fetch
    \/ Subscribe
    \/ ConnectionLost
    \/ ListenerStep
    \/ \E a \in ApiCalls : ApiReload(a) \/ ApiReloadFails(a) \/ ApplyStep(a)
    \/ \E d \in Asked, g \in Groups : Ask(d, g)
    \/ Evaluate

\* The listener goroutine runs while it has a notification or a reload to work
\* on, and an evaluation is never blocked.  Nothing else has to happen.
Fairness ==
    /\ WF_vars(ListenerStep)
    /\ WF_vars(Evaluate)

Spec == Init /\ [][Next]_vars

FairSpec == Spec /\ Fairness

-----------------------------------------------------------------------------

\* When every commit has been announced, every load has succeeded and only the
\* listener has written the memory, then the lists, categories and policies in
\* memory are those of the database as soon as no notification is pending and
\* the callback is idle, however commits and reload steps interleaved: a commit
\* in the middle of a reload is picked up by the reload of its own notification.
CoveredIsInSync ==
    covered /\ pending = 0 /\ stage[Listener] = "idle" => InSync

\* A deleted list is gone for good: a download that selected it before it was
\* deleted brings neither entries nor categories of it back into the tables
\* (internal/filter/updater.go 93-130, migrations/003: REFERENCES blocklists).
DeletedStaysEmpty ==
    \A l \in Lists : ~lists[l].present => lists[l].entries = {} /\ lists[l].cats = {}

\* An evaluation during which no reload wrote the memory gives the answer of
\* one look at it: whitelist before blacklist before category policy (RF03.5).
UndisturbedVerdict ==
    query.at = "done" /\ ~disturbed =>
        query.verdict = Decision(blacklist, whitelist, domainCategories,
                                 groupPolicies, query.domain, query.group)

\* If from some time on nothing goes uncovered, the memory ends up and stays
\* equal to the database: no commit is forgotten and no reload gets stuck.
EventuallyInSync == <>[]covered => <>[]InSync

\* internal/filter/engine.go: "Whitelist always takes priority over blacklist
\* (RF03.5)".  A domain of allowlist.txt, which never changes, is never blocked.
WhitelistPriority ==
    query.at = "done" /\ query.verdict = "block" => ~Contains(FileWhite, query.domain)

\* RF03.9: a change of the lists reaches the memory by LISTEN/NOTIFY, without a
\* restart.  With the session up, nothing pending and nobody reloading, the
\* memory is what the tables say.
QuietIsInSync ==
    subscribed /\ pending = 0 /\ (\A r \in Reloaders : stage[r] = "idle") => InSync
=============================================================================
