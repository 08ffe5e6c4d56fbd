# Verification of dns-filter

TLA+ models of the DNS filter in this repository: a DNS server that decides for
each query who asks (identity), whether the name is allowed (policy), answers it
from a cache or an upstream, and logs it; with an admin API, a captive portal,
PostgreSQL behind it and Redis as an optional second cache level. The models
follow the Go code of the server and the TypeScript code of its dashboard; every
definition that translates code is listed with its lines under `map` in
`PROJECT.json`.

## 1. The system

| Part | State | Operations | Talks to |
|---|---|---|---|
| Query handler (`internal/dns/handler.go`) | two atomic counters | `ServeDNS`: identity, portal redirect, policy, cache, upstream, log | all below, one goroutine per query |
| DNS server, process (`internal/dns/server.go`, `cmd/dnsfilter/main.go`) | two listeners, shutdown goroutine | `Start`, `Shutdown`, signal handling | log, portal, listeners |
| Query log (`internal/logging/pipeline.go`) | buffered channel, batch, `dropped` | `Send`, `consume`, `flush`, `Stop` | handlers, PostgreSQL |
| Policy engine (`internal/filter/engine.go`, `blacklist.go`) | blacklist, whitelist, category map, group policies, each behind a lock | `EvaluateForGroup`, `Add`, `Clear`, `LoadCategories`, `LoadPolicies` | handlers, reloaders |
| Hot reload (`internal/store/notify.go`, callback in `main.go`) | LISTEN session, steps of a reload | subscribe, wait, reload, reconnect | tables, policy engine |
| Policy tables (`internal/store`, migrations 002, 003, 007) | lists, entries, categories, policies, triggers | one transaction per API call | API, updater, NOTIFY |
| List updater (`internal/filter/updater.go`) | lists still to fetch | select, fetch, replace entries | tables |
| Cache (`internal/cache`) | L1 map, Redis, hit and miss counters | `Get`, `Set`, `Invalidate`, eviction | handlers, API |
| Identity (`internal/identity`) | sessions, ordered ranges | `Resolve`, `GetRangeGroupID`, `AddSession`, `AddRange`, eviction | handlers, portal, API |
| Captive portal (`internal/captive`) | logins in progress | `handleAuth` | identity, users |
| REST API (`internal/api`) | JWT secret, rate limiters | CRUD, reload, download, invalidate, login, refresh | everything |
| Dashboard pages (`web/src/pages`) | the `useState` values of the mounted page, calls in flight | one handler per button, each with an `await` in its middle | API |
| Router, layout (`web/src/App.tsx`, `layouts/MainLayout.tsx`) | which page is mounted | navigation, logout | pages |
| Dashboard session (`web/src/api/client.ts`, `pages/Login.tsx`) | token in local storage, `isRefreshing` | interceptors, login, refresh, expulsion | API, the browser's other tabs |

What is hard here: handlers run concurrently with each other and with everything
else; almost no operation that touches two pieces of state holds one lock over
both (log send and channel close, the two lists of a reload, L1 and Redis, group
lookup and session insert, table commit and in-memory append); notifications and
Redis replies get lost; sessions and ranges do not survive a restart in the form
they had, while Redis does; the shutdown is a chain of waits. In the dashboard
everything that happens after an `await` uses what was set before it: answers are
late, lost or in another order, the user opens another editor or leaves the page
meanwhile, a request that was given up may still reach the server, and the other
tabs share the token.

What makes each part correct:

- log: what the channel accepted reaches `flush` once, in order, also at `Stop`;
  `Send` never blocks; the drop count is not exaggerated;
- shutdown: the process ends, and ends with its queries answered and logged;
- policy: whitelist before blacklist before category, also during a reload; the
  memory follows the tables;
- cache: no answer past its TTL, no answer of another type, nothing invalidated,
  counters that add up, no growth by dead entries;
- identity: no access without a login where one is required; sessions live as
  long as they should and no longer; ranges apply as configured;
- pages: an editor shows what was answered for its owner and saves it to that
  owner; a button is disabled exactly while its call is under way; a form sends
  what it shows; a table fetched after a change shows the change, if it was read
  whole;
- session: one refresh at a time, and a start page without a valid token does not
  stay.

## 2. Modules

| Module | Models | Composes |
|---|---|---|
| `LogPipeline` | `internal/logging/pipeline.go` | |
| `LogPipeline_proofs` | theorems about it | `LogPipeline` |
| `GracefulShutdown` | listeners, handlers, shutdown goroutine, end of `main` | `LogPipeline` |
| `GracefulShutdown_proofs` | theorems about it | `GracefulShutdown`, `LogPipeline_proofs` |
| `FilterEngine` | the decision as operators | |
| `PolicyReload` | tables, triggers, LISTEN, reload steps, updater, API reloads, step-wise evaluation | `FilterEngine` |
| `PolicyReload_proofs` | theorems about it | `PolicyReload` |
| `DnsCache` | both cache levels as the handlers use them | |
| `DnsCache_proofs` | theorems about it | `DnsCache` |
| `Identity` | resolver, portal logins, range API, restarts | |
| `Identity_proofs` | theorems about it | `Identity` |
| `WebClient` | `api/client.ts` as the pages use it: calls, answers, failures, mounting a page | |
| `CategoryEditor` | what an editor of category sets promises (abstract) | |
| `GroupsPage`, `ListsPage` | `Groups.tsx`, `Lists.tsx` and the handlers behind them | `WebClient`, refine `CategoryEditor` |
| `UsersPage`, `RangesPage`, `LogsPage`, `DashboardPage` | the page of that name and the handlers behind it | `WebClient` |
| `Panel` | the router: Users, Groups, Ranges, Logs and start page over one server | these pages |
| `Panel_proofs` | theorems about it, the refinement among them | `Panel` |
| `ListsPage_proofs` | theorems about the Lists page, the refinement among them | `ListsPage` |
| `AdminSession` | interceptors, login, logout, `ProtectedRoute`, token middleware | |
| `AdminSession_proofs` | theorems about it | `AdminSession` |
| `MC*` | constants for TLC | the module of that name |

Operators named `X_Something` next to `X` are wrong variants of `X`, one for each
property, that show that the property can fail; no specification uses them.

### LogPipeline

`Send` is `Enqueue`, `Discard` (full buffer) or `SendOnClosed` (a panic); the
unsynchronised `p.dropped++` is a load and a store. The consumer is `Receive`,
`ReceiveClosed`, `Tick` and `Flush`; a flush stores the batch as one implicit
transaction or not at all, and the batch is forgotten either way. `Stop` is
`StopClose` and `StopReturn`. An entry is `<<sender, number>>`, so loss,
duplication and overtaking are visible. `accepted`, `flushed` and `drops` are
history variables.

### GracefulShutdown

Adds two listeners (`init`, `serving`, `closing`, `stopped`), handlers that
answer and then log through `LogPipeline`'s `Send`, and the shutdown goroutine
with its fixed order: log, portal, UDP, TCP. The behaviour of a miekg/dns server
(accept, wait for its handlers on shutdown, refuse to shut down before it has
started) is external and taken from how `server.go` uses it.

### FilterEngine and PolicyReload

A domain is a model value with its sequence of parents; `Contains` looks at all of
them, the category lookup at all but the top-level domain, as the two loops in the
code do. Each API call that writes tables is one transaction and announces the
number of distinct tables with a trigger that it touched (PostgreSQL folds equal
notifications of one transaction). A reload takes a snapshot, clears, clears, adds
one domain per step, adds the files, then loads categories and policies; API reloads
stop after the database's entries. Loads may fail, and the two loads that do not
look at `rows.Err` may return a part. A query reads whitelist, blacklist and maps in
three steps. `covered` is history: every commit since the listener's last load was
announced to it, no load failed since, and nobody else has written the memory. A
deleted list takes its categories with it, and nothing that was under way may give
it entries or categories again (`DeletedStaysEmpty`). The files do not change and
can be read.

### DnsCache

A lookup is: take the L1 pointer under the read lock; look at its expiry later; ask
Redis; promote by a `Set` of its own. `Set` writes L1 and then Redis. Redis may fail
at each call, expires its entries by itself, and may start with an answer from
before a restart. A lifetime of 0, which needs a TTL floor of 0, is dead at once in
L1 and never expires in Redis (`RedisExpiry`). Time is a bounded counter.

### Identity

`handleAuth` is authenticate, find the group and compute the expiry, add the
session. A login whose address no range covers gets the default group: the lookup
returns the default group where its comment says 0, so the portal's fallback to the
group of the user (`LoginGroup`) is never taken. A session is replaced by the next
one added for its address, and two logins may add theirs in another order than they
began: a login that was held up past the end of its own session can so replace a
live one. `CreateRange` commits and appends later; changed and deleted rows stay in
memory. `Restart` may happen at any point: it loses sessions and requests and reads
the ranges again, sorted by mask length (in any order among equals, as `sort.Slice`
is not stable), completely, partly (`rows.Err` is ignored) or not at all.

### WebClient and the pages

`ui` is the state of the one page React keeps mounted, `net` the call each of a few
connections carries, `db` the rows of the server. A handler is two actions: up to
its `await` it issues a call; the part after it (`...Ends`) runs when the promise
resolves or rejects. What the code reads before the `await` travels in the call, as
the closure does in JavaScript; what it reads after it is read from `ui` then.
Between the two the server serves the call once, at any moment, in any order. A call
may fail for the client at any moment; a call that was given up, or whose page was
left, may still be served. The store never looks at `rows.Err`, so a list of rows
may also be answered with 200 although the result broke off (`SettleRows`): with the
first rows where the query is ordered, with any part where it is not. Neither the
page nor the server can tell; only the history can, by the phase `part`. A refusal
(404, 409, 403 for a viewer, 429) rejects like a lost connection.

- `GroupsPage`: table, creation, deletion, policy editor. `ListsPage`: table,
  creation, deletion, category editor, domains panel, reload and download.
- `UsersPage`: table and form. `RangesPage`: table and form, with the group select
  that starts at group 1 and is filled once from the groups. `LogsPage`: filters
  and offset, each change of which fetches. `DashboardPage`: a poll of two routes
  (`Promise.all`) every five seconds.
- `Panel`: any of these may be opened from any other; what the page that is left
  had under way goes on at the server. Deleting a group on the Groups page removes
  its ranges (`ON DELETE CASCADE`) under the Ranges page. The Lists page shares no
  rows with the others and has a specification of its own.

Left out: messages with their timers, which no handler reads; the text of form
fields, which the user may fill in at any time before submitting; the fetches of
categories and groups for a select, which happen once per page (a box can be ticked
at any time, an option is there some time or never); the domains of a list, which are the subject of `PolicyReload`.
`known`, `gone` and `newest` are history, kept for the statement about tables.
(Reading `InsertBlocklistEntries`, one sees that it sets `domain_count` to the
number of domains just sent, not to the number stored. The column is only shown,
and is not modelled.)

`CategoryEditor` is the abstract specification: a draft is opened only from an
answer given for that very owner, which is what was stored for it or, when the
result broke off, a part of that; it changes only by toggles, and what is stored is
a draft of that owner as it was saved; answers and saves may be late or lost. So a
save after a broken-off answer takes away categories the user never saw: the
specification says so openly, because the code does it
(`internal/store/policies.go:25`, `ranges.go:168`). The mapping takes the resolved
calls of the page's read as `fetched`, the unserved saves (those of pages that were
left too) as `sent`, and editing and draft of the mounted page as `draft`.

### AdminSession

The panel is two pages: `start`, whose interval sends requests by itself, and `page`
for all the others, which send only when they are mounted or the user does
something. Tokens are numbered in the order of issue, which is the order of their
expiry. A slot holds a request of the page or the refresh made for it, with the
token it carries. `OnUnauthorized` is the interceptor's reaction to the first 401 of
a request: expulsion when a refresh is under way or storage holds no token, else the
start of a refresh with the token in storage. A retried request that is refused
again is only reported to the page (`Finish`). Expulsion removes the token and
starts a page load; until the load happens (`Unload`) scripts go on.
`AuthMiddleware` and `RefreshToken` are the server's sides; the refresh route sits
behind the middleware. Other tabs may log in and out at any time.

## 3. What is checked

Runs that pass:

| Run | Properties | What it shows |
|---|---|---|
| `log_pipeline` | `TypeOK`, `InOrderExactlyOnce`, `StopDrains`, `StoredAtMostOnce`, `DroppedNeverOvercounts`, `StopTerminates`, `AcceptedIsFlushed` | two senders, buffer and batch of two: full buffer, full batch, ticker, failed flushes, racing counters, `Stop` at every point |
| `shutdown` | `ProcessTypeOK`, `CleanExit`, `SignalEnds` | if `main` returns, handlers are done and the log is flushed; a signal that finds both listeners serving ends the process |
| `reload` | `TypeOK`, `CoveredIsInSync`, `DeletedStaysEmpty`, `EventuallyInSync` | two transactions, one API reload or download and the listener in every order |
| `reload_queries` | `UndisturbedVerdict` | a query while nobody writes: one that a list decides, in either order, and one that only its category decides |
| `cache` | `TypeOK`, `CountersExact`, `FirstHandWithinTTL`, `TypesNeverMixed`, `InvalidateSticksL1`, `ExpiredIsEvicted` | two handlers, a TTL below the floor and one above the ceiling, a known type and one without a name |
| `identity` | `TypeOK`, `AccessNeedsLogin`, `SessionGroup`, `RangesApplied`, `LiveSessionsKept`, `ExpiredSessionsLeave` | two logins from one address in any order, two range requests, restarts; only a login held up past its own end takes a live session away |
| `panel` | `PanelTypeOK`, `PolicyEditorRefines`, `RangeAsShown`, `LogsAskWhatIsSet`, `TablesShowConfirmed` | the policy editor implements `CategoryEditor` although pages are left and groups deleted in mid-call; selects, filters and tables agree with what is sent and confirmed, also when results break off |
| `lists` | `ListsTypeOK`, `ListEditorRefines`, `BusyExact`, `DomainsReachTheirList` | the category editor implements `CategoryEditor`, broken-off results included; domains reach the list they were typed for, no busy flag sticks |
| `session` | `SessionTypeOK`, `RefreshingExact`, `RefreshNeedsNewerToken`, `SessionEnds` | requests refused together, refreshes, logins and logouts elsewhere; a start page whose token has expired is left, logged in again or turned into another page |

Runs that end in a violation, each for one statement of the repository that the
code does not keep (details under `findings`):

| Run | Statement | What happens |
|---|---|---|
| `shutdown_rnf024` | RNF02.4, queries are finished before the end | `Stop` closes the log channel first; a handler that logs then panics |
| `reload_rf035` | "Whitelist always takes priority" | during a reload the blacklist is refilled before the whitelist |
| `dashboard_realtime` | the start page shows metrics in real time | one failed poll sets `error`, which nothing resets |

Six more configurations can be run by hand; each shows a statement that is wider
than what the code keeps. A passing run checks what does hold. The first is a
disagreement of the code with a test of the repository
(`internal/captive/server_test.go:64-84`): for an address without a range,
`GetRangeGroupID` "Returns 0 if no range matches" (`internal/identity/resolver.go:185`),
says its comment, and `handleAuth` then takes the user's own group
(`internal/captive/server.go:183`); but it returns the default group (line 195),
so a user of group 2 is given group 1:

| Configuration | Statement | What happens | What holds |
|---|---|---|---|
| `MCIdentity_UserGroup.cfg` | a login without a range gets the group of its user | the lookup returns the default group, the fallback is never taken | `SessionGroup` |
| `MCPolicyReload_rf039.cfg` | RF03.9, hot reload | `blocklist_categories` has no trigger | `CoveredIsInSync` |
| `MCDnsCache_InvalidateRemoves.cfg` | `Invalidate` "removes a specific domain from cache" | Redis brings it back | `InvalidateSticksL1` |
| `MCDnsCache_ServedWithinTTL.cfg` | RF02.3, the record's TTL | promotion starts the TTL again | `FirstHandWithinTTL` |
| `MCIdentity_MostSpecificFirst.cfg` | "so /32 matches before /24" | ranges created at run time are appended | `RangesApplied` |
| `MCAdminSession_AutoRefresh.cfg` | "Handle 401 and auto-refresh token" | the refresh carries the refused token to a route behind the same middleware | `RefreshNeedsNewerToken` |

### Bounds

Every bound is a CONSTANT named `Max...` or the size of a set.

- Log: buffer 2, batch 2, three entries each of two senders: enough for a full
  buffer during a flush, a full batch, a batch left over at `Stop`, and two racing
  increments. Shutdown: buffer 1, two entries per handler, so that drops occur too.
- Reload: two commits so that one can fall into the reload of the other; one API
  call beside the listener and the updater; a domain and its subdomain, a black and
  a white list, two categories. With a query one commit, because a query is
  short and one reload already passes all its stages; there, a list gives the site
  a category from the start and the files black- and whitelist its subdomain, so
  that each of the three tiers decides some query (372,844 states).
- Cache: two lookups, clock up to 3 with lifetimes 1 and 2: an entry can be stored,
  expire, be promoted and expire again. The violation runs allow a third lookup.
- Identity: one address, because no operation relates two; two users, two logins,
  two range requests, TTL 1 and clock up to 2, so that a session can be live, at its
  limit and past it.

- Panel: two connections (a call of a page that was left beside one of the page
  that is mounted; a save beside an open), two groups, one category, one user name,
  one range, two filter settings, pages of one log entry of at most two: 1.6 million
  states. One category is enough because sets of categories are copied and toggled,
  never compared with each other. Lists: two connections, two lists, one category,
  1.5 million states. In both, connections are symmetric: no definition names one,
  and no liveness is checked there.
- Session: two requests in flight, three tokens: the refused one, one from another
  tab, one from a refresh. The start page alone: two connections, so that
  polls overlap.

`CHECK_DEADLOCK FALSE` is used where the program ends (log stopped, process gone).

### Fairness

- Log and process: the consumer, a `Send` that is under way, handlers (upstream
  exchanges time out after five seconds), the shutdown goroutine where it is not
  waiting, and a closing listener without handlers. Queries, signals and the
  success of a database write are not assumed.
- Reload: the listener goroutine while it has work, and a running evaluation.
  `EventuallyInSync` itself assumes that from some time on nothing goes uncovered.
- Cache and identity: only the two eviction tickers.
- Session: strong fairness of sending only on the start page, which polls and so
  always sends another (`Dashboard.tsx:106`), and of the later steps of requests:
  scripts run, and not every request is lost or cut off by a page load. On the other
  pages nothing is assumed to be sent; a tab that stays on one may keep an expired
  token for ever, and `SessionEnds` allows it. Neither logins nor expiry are
  assumed.
- Start page (the violation): the interval fires, the server answers, and answers
  are delivered again and again. No poll is assumed never to fail.

## 4. What is proved

TLAPS proves every invariant of the passing runs, `SavingExact` beside them, the
action property `LiveSessionsKept` and the two refinements, for every value of the
constants that the named assumptions allow. The assumptions ask for sizes of at
least 1 (buffer, batch, list ids, group ids), natural bounds, well-formed tables and
files, and three facts about names: `""` is not the name of a record type
(`TypeNameAssumption`, Go's zero value for a type that `dns.TypeToString` does not
have), the value that stands for a missing entry is no session (`NilAssumption`),
and "no filter" is one of the filter settings (`PanelAssumption`).

- `LogPipeline_proofs`: `TypeCorrect`, `ExactlyOnce`, `Drained`, `Undercount`,
  `NoRowTwice`. The inductive invariant of the first four is
  `TypeOK /\ InOrderExactlyOnce /\ Closing /\ Counting`.
  `StopDrains` is not inductive: it needs that a consumer that has seen the close
  has an empty channel, that one that is done has an empty batch, and that `Stop`
  returns only after it (`Closing`). The counter needs that every value a sender
  has read is bounded by the drops so far (`Counting`). Two lemmas about sequences
  (`ConcatAppend`, `MoveHead`) carry the order argument. `NoRowTwice` also needs
  that accepted entries are distinct and that a sender's next entry is not among
  them (`Numbered`).
- `GracefulShutdown_proofs`: `ProcessRunsLog`, `ProcessTypeCorrect`,
  `MainLosesNothing`. A step of the process is a step of the log or leaves it alone,
  so the theorems about the log hold in the process. `CleanExit` needs in addition
  that a query in progress keeps its listener from ending (`HandlersHeld`), that the
  servers are shut down only after `Stop` has returned (`LogFirst`), and that before
  that a listener serves or nothing was ever logged (`ServesOrIdle`): the case of
  both listeners failing to bind.
- `PolicyReload_proofs`: `TypeCorrect`, `CoveredChangesArrive`,
  `DeletedListsStayEmpty`, `UndisturbedIsAtomic`. `CoveredIsInSync`
  speaks only of an idle listener, so the invariant (`Progress`) says for each stage
  of a reload how far the memory has come towards the tables, provided nothing is
  pending and everything is covered, and that no API call then holds a snapshot. A
  commit makes something pending or uncovered, which is why it may change the
  tables in the middle of a reload. The verdict of an undisturbed query needs what
  its look-ups so far have found (`Judged`), and the lemma that every other step
  leaves the memory alone or is a disturbance.
- `DnsCache_proofs`: `TypeCorrect`, `EveryGetCounted`, `ServedInTime`,
  `AnswersOfTheType`, `InvalidateHolds`, for any number of goroutines. A lookup
  between its steps carries an entry (`Carried`). The counters add up only with the
  lookups that are not counted yet (`CountInv`, which counts a finite set). The TTL
  is kept because every L1 entry and every pointer taken from L1 knows when it was
  stored (`Timed`); the types are kept apart in both levels and in every lookup
  (`Typed`). Invalidation without Redis needs the most (`Alone`): nothing
  comes from Redis, each answer about to be stored is its goroutine's own and under
  one name, and what was purged is neither in L1, nor about to be stored, nor found
  by a `Get` begun later.
- `Identity_proofs`: `TypeCorrect`, `LoginRequired`, `GroupOfSession`,
  `RangesFollowTable`, `SessionsSurvive`. Lemmas about `FirstMatch` say that it
  exists and that an appended range changes nothing for an address that has one;
  `GroupOfSession` rests on them, because a login reads the ranges before it adds
  the session. `SessionsSurvive` says that a live session is followed by a live one
  in every step but a restart or a login that was held up past the end of its own
  session; it needs only the guards and the types. `RangesApplied` speaks of no
  request under way; the invariant (`Applied`) says that otherwise the resolver
  lacks just the rows those requests hold (`Pending`).
- `Panel_proofs`: `TypeCorrect`, `RangesLandAsShown`, `LogFollowsItsFields`,
  `TablesUpToDate`, `SavingFlagExact`, `PolicyEditorCorrect`, for any number of
  connections, groups, ranges, users, categories, filters and log entries. Every
  step of the dashboard is one of five: a page is mounted, the server answers one
  call, a poll advances, the mounted page ends a call, or it issues one; lemmas say
  what each does to the other calls. `TypeInv` adds to the types what the calls and
  the page hold of the rows: ids that were handed out are not handed out again
  (`Grows`), a deletion that is confirmed is done, and a range sent to a group that
  the select did not show names a group that is gone (`Meant`, `Shown`); the last is
  what `RangeAsShown` needs. The tables need per call what `Agrees` says; it
  survives the server because of `Grows`, and a creation or deletion because it
  fetches in the same step; an answer that broke off may lack rows but shows none
  that are gone. The busy flag of the policy editor (`SavingExact`) is proved
  without counting (`SavingInv`). The refinement follows that of `ListsPage`; pages
  without the editor map to `Close` or `Lose`.
- `ListsPage_proofs`: `TypeCorrect`, `DomainsNeverStray`, `FlagsExact`,
  `ListEditorCorrect`, for any number of connections, lists and categories (at least
  one list id). The first two rest on `TypeInv`: beside the types it needs that the
  text of an open domains panel was typed in that panel, and that a call under way
  carries what was typed for its list. `BusyExact` counts; `BusyInv` says the same
  without counting (one waiting call, or none) and is inductive. The refinement
  classifies the steps: opening is `Open`, a toggle `Toggle`, a save `Save`, the two
  handlers that touch categories `Read` (of the whole set or a part) and `Commit`, a
  deletion `Remove`, closing, leaving the page and the domains panel `Close`,
  everything else `Lose`. Two lemmas say what a step on one connection does to the
  answers and saves under way.
- `AdminSession_proofs`: `TypeCorrect`, `AtMostOneRefresh`, `OnlyNewerTokensRefresh`
  for any number of requests and tokens. That a granted refresh used a newer token
  needs that the refused one had expired (`RefusedWasExpired`), which stays true as
  tokens expire in order.

Only model-checked: the liveness properties (`StopTerminates`, `AcceptedIsFlushed`,
`SignalEnds`, `EventuallyInSync`, `ExpiredIsEvicted`, `ExpiredSessionsLeave`,
`SessionEnds`), which like ENABLED are outside what TLAPS proves. What a recursive
definition computes for every input would be, too; the models have none. The runs
that end in a violation have nothing to prove.

## 5. What is not modelled

- the walk over several upstreams, the reply codes and records (`ServeDNS` as one
  composed module is planned);
- the rate limiter (a refusal like any other to the pages; its buckets are planned)
  and the active flag of portal users;
- start-up as a sequence (categories and policies are loaded after the listener has
  started; a late load may overwrite a newer one);
- routes that no page calls: changing lists, users and ranges, deleting users and
  ranges, except where `PolicyReload` and `Identity` need them;
- label splitting, file and URL parsing, SQL text, HTML, CSS, layout and icons: data
  that the models abstract to sets and model values, or presentation;
- retention, log queries, migrations, configuration, the embedded front end: a
  single statement, read-only, or static.

## 6. Plan

1. `ServeDNS`: one query through identity, policy, cache, upstreams and log, with
   an abstract specification (captive, blocked, answered or SERVFAIL, decided before
   the cache is looked at) that the detailed one implements.
2. `BootSequence`: loads and listener start in the order of `main.go`.
3. `DomainMatch`: label sequences, `Contains` and `findParentCategory` against a
   suffix definition, over bounded names.
4. `RateLimiter`: buckets and cleanup; deactivated users and portal sessions.
5. Proofs: the operators of `FilterEngine` (whitelist before blacklist before
   category for every table), that a reload without interference implements an atomic
   replacement of the policy, and the safety properties of the modules above once
   they exist.
