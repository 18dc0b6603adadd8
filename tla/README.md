# A verification development for gitea-pages

gitea-pages serves static and scripted web pages out of git repositories. This
directory holds TLA+ modules for the parts of it that are concurrent, cached or
shared between servers, the TLC configurations that check them on small
instances, and TLAPS proofs about eight of them. Paths below are relative
to the repository (`pkg/...`); line numbers are in `PROJECT.json`, which maps
every definition to the code it models and lists the hazards the properties are
for.

## 1. The system

A request goes through these parts, in this order (`pkg/server.go`, ServeHTTP
and servePage): the host and path name a repository; its **metadata** is looked
up or refreshed; page security and, for a private page, **authorisation** are
decided; the request attaches to the **update hub**; the **filters** that the
page configures and that match the path run as a chain, the innermost serving
files through the **provider cache**; a script filter runs JavaScript with its
own **event loop, events, streams, storage and sockets**.

| Component | State | Operations | Talks to |
|---|---|---|---|
| Update hub, `pkg/core/update_hub.go` | `repos`: one group per repository with watchers by commit, the last commit seen, one subscription and goroutine | Attach, detach, PublishUpdate, runGroup, handleUpdate | the broker (external), `kill` of requests, metadata (publishes) |
| Metadata, `pkg/core/meta.go` | shared cache of `PageMetaContent`, `updates` table, `refreshSem` | GetMeta, triggerMetaRefresh, getOrStartMetaUpdate, runMetaUpdate, refreshMeta, parsePageConfig | backend, alias table, update hub |
| Provider cache, `pkg/core/cache.go` | shared blob cache, `backendSem`, `cacheSem` | Open, List, Meta, Close of a body | backend |
| Alias table, `pkg/core/alias.go` | repository to list of domains, domain to repository, in a shared store | Bind, Unbind, Query | key-value store |
| Domains, `pkg/core/domain.go` | none | ParseDomainMeta | metadata, alias table |
| Authentication, `pkg/core/auth*.go` | login states, sessions, authorisation cache | login, callback, logout, RequireRepoAccess, AttachAuth | auth provider (Gitea) |
| Request pipeline, `pkg/server.go`, `pkg/core/filter.go` | per request | ServeHTTP, servePage, the filter chain | all of the above |
| Request information, `pkg/core/request.go` | none | client address, scheme and host behind trusted proxies | |
| Page security, `pkg/core/security.go`, `pkg/security.go` | none | CORS and origin decisions, cookies, headers of a page's policy | request information |
| Filters, `pkg/filters/*.go` | none | default, direct, failback, redirect, block, template, reverse proxy | provider cache, other servers |
| Script runtime, `pkg/filters/goja/filter.go`, `runtime_state.go`, `closers.go` | `closing`, tasks, closers, result | runProgram, startTask, runOnLoop, wait, Close | event loop, request context |
| Script events, `host_globals.go` | streams by key, each with backlog, waiters, end | event.load, event.put, the supervisor | broker |
| Response stream, `response_stream.go` | started, closed, pending, done, queue | write, flush, ready, close, serve | response writer |
| Websocket, file streams, `websocket.go`, `stream.go` | per object: connection, tasks and `done`; reader or writer, mutex, flags | upgrade, send, close, ping and read loop; open, read, write, close | connection, storage, provider cache, closers |
| Storage, `storage.go` | the files of a repository, shared by its scripts | stat, read, write, readdir, mkdir, rm, unlink, rename, copy | file system |
| Requests, bodies, fetch (same directory) | per object | conversions, one call of net/http | network |
| Providers, `pkg/providers` | none | Meta, List, Open, the OAuth calls | Gitea, file system |
| Commands, configuration, logging | none after start-up | | |

Hard behaviour, and where it comes from:

* goroutines against requests: a group closed by its last user or by its own
  goroutine while another request attaches; updates that kill requests after the
  lock is gone, and requests that attach after the update they missed; a refresh
  that waits or is waited for (hub, request pipeline, metadata);
* several servers over one store: two servers bind aliases or refresh metadata
  of one repository at once, and any of them may stop half-way (alias table);
* limits: semaphores and slots that every way out of a call has to give back, and
  bodies that keep a token for as long as a script likes (provider cache, script
  runtime);
* ordering: events handed to loads, chunks that cross from a list to a queue when
  the response starts (events, response stream);
* the end of a request: the client leaves, an update kills it, or the script
  returns, while its tasks, streams, socket and the event loop are in any state
  (script runtime); a filter that fails, panics or goes on after it has begun the
  response (request pipeline);
* calls of several steps on shared files, with nothing held (script storage);
* headers that several hops write and one server reads (request information);
* failures read as absence: errors of the backend that turn into "no such file",
  and are remembered (metadata, provider cache).

What makes each part correct is stated in section 4. The full list of hazards,
with the properties that answer them, is in `PROJECT.json`.

## 2. Plan

Done, in this order: `RepoUpdateHub`, `ServerMeta`, `ProviderCache`, `DomainAlias`,
`EventStream`, `ResponseStream` over the abstract `OrderedPipe`, `AuthService`,
`ScriptRuntime`, `RequestInfo` and `PageSecurity` (operators) with `Forwarding` over
both, `RequestPipeline`, which composes `PageSecurity` and `RepoUpdateHub`, and
`ScriptStorage`. `RepoUpdateHub`, `ServerMeta`, `ProviderCache`, `EventStream`,
`ResponseStream`, `AuthService`, `ScriptRuntime` and `RequestPipeline` have a module
of proofs each, named after them. The proofs about `DomainAlias` are in
`ServerMetaProofs`, since a refresh binds the domains, and those about
`ScriptStorage` in `ScriptRuntimeProofs`, since the scripts make its calls.

Left, the most important first:

1. An abstract specification of the hub (a watcher is told of the first update for
   another commit after it attached, or released) which `RepoUpdateHub` refines, with
   the step simulation proved; through `ImplementsHub` the pipeline then refines it
   too.
2. `fetch` and the bodies of requests: a response body that the closers and the
   script close, beside the request's own.

## 3. The modules

A critical section (what runs under one mutex, or between two waits of one
goroutine) is one action. Steps that the code takes after the unlock are actions
of their own. Calls to stores, brokers and the backend are separate steps that
may fail where the code looks at, or ignores, an error.

**RepoUpdateHub** models one repository of one server's hub. Groups are the
allocated `repoUpdateGroup`s; `current` is `hub.repos[key]`; `watchers` flattens
the buckets of a group, since the bucket is a function of the request's commit.
Attach (with its failing subscription), Detach and the update take the lock once;
`DetachClose`, `LoopKill` and `LoopEnd` run after it. `loop` and `chans` are the
place of the goroutine and the channels it still selects on. The broker delivers
commits in any order and may end a subscription. `Attach`'s recursion is a retry
that can only succeed when the key names an open group; `RegisteredGroupIsLive`
says that it never has to. `seenAtAttach` is a history variable.

**ServerMeta** models GetMeta of several callers and servers. An `upd` is a
`metaUpdate` and the goroutine that runs it; its places are the steps of
refreshMeta: the second look at the cache, `Meta`, the reads of files, the store
(with the alias binding that may fail), the publication, and the deferred end. A
repository is its head commit, and `Kind` says what the files of a commit make of
it. Entries carry the commit, IsPage, whether the settings are the commit's own,
ErrorMsg and freshness; TTLs are expiry at any time. An error of parsePageConfig
and the reads it ignores are separate outcomes of `ReadFiles`.

**ProviderCache** models callers that open, list and ask for metadata. A caller
keeps the bodies it was given open as `streams`; each holds a token. The pass of
Range requests, the negative entries, cache errors, a full slot table, a read that
breaks off and the different order in which Open and List give things back are all
there. The status of a backend answer is reduced to: 200, an error status, 404. An
error status is stored like any other, since the code looks for 404 only, and comes
out of the cache as a 200 (`Replayed`). The backend may say of every path, present or
not, that it is absent: the local provider joins `os.ErrNotExist` to each error it has.
`said` is history: what the backend has answered of a path.

**DomainAlias** models every store call of Bind as a step, for binders on several
servers, which may fail or stop anywhere. Unbind is the step of the first loop;
Query reads `aliasOf`, which the properties speak of. `disturbed` and `claimed` are
history: which repositories had a failed, interrupted or overtaken step, and who
ever listed a domain.

**EventStream** models one key of one request: loads on the event loop, the
streams and their supervisors, the subscription with its pending events, and the
closing runtime. Events are numbered in the order of publication. `first`,
`dropped` and `again` are history.

**ResponseStream** models the streamed response together with the end of the
script's runtime: the calls of the script (each a task with a promise), close on
the event loop, the serving goroutine, the goroutine that watches the context, the
closers' lock, and the filter that waits for a result and then leaves. `op` holds
the calls and the three callers of `state.close`; `send` is a rendezvous
(`HandOver`) and an answer, either of which the sender may give up for the
context or for `done`. It leaves out the response writer without flushing, and
the two-second timeout of `wait`, which `CloseEndsStream` shows is not needed for
these calls: a filter whose context has ended leaves without it. **OrderedPipe** is the abstract specification: chunks come out in the
order of acceptance, acknowledged only if accepted, all of them if the stream ends
well. The mapping: accepted is what was sent, what serve has in hand, its backlog
and `pending`, in this order.

**ScriptRuntime** models everything else that a script holds and the two goroutines
that let go of it, the watcher of the context and the filter. `task` and `tasks` are
the tasks and the wait group of `runtimeState`; a task looks at `closing`, is
counted, and looks again (`StartTask`, `AddTask`, `RecheckTask`), each a step. A
`stream` is a readableStreamState or writableStreamState: `mu` is its mutex, which is
kept while the file is opened and not while it is used, `busy` is its own field,
`held` says that a file is open and, of a page file, that a token of `backendSem` is
out. `outer` and `inner` are the closers of the request and of the socket: the list,
who runs it, and what that goroutine has still to call; the mutex of a closer's own
object is waited for in the middle. `serve`, Ping and Read are the goroutines of a
websocket. A script uses what its `plan` says, to keep the instance small.
WatcherFinishes assumes that 20 ms are enough for an upgrade under way, as the
comment there says.

**RequestInfo** and **PageSecurity** translate functions: `ResolveRequestInfo` on
headers as sequences of tokens, so that quotes, brackets, ports, separators and lists
over several lines are there; `BuildSecurityResult` and what `pkg/security.go`
enforces. **Forwarding** puts them to work: a browser's request passes external,
honest proxies of one of three families of headers and servers with the reverse_proxy
filter, whose own headers, formatting and choice of an address (`deny_cidrs`) are
translated; `via` and `hostKept` are history. A prefix is the set of its addresses.

**RequestPipeline** is one server with one page: `stored` is the commit in the
metadata cache, `unpublished` those that a refresh has stored and will publish next,
`announced` the last one published. It declares the variables of `RepoUpdateHub` and
takes its actions by INSTANCE: Attach, Release and the group's goroutine are joint
steps. `Site` gives CNAME and `.pages.yaml` of each commit, of which
`parsePageConfig` makes the settings and the list of filters. A request is `req[r]`:
`pc` is its place in ServeHTTP and servePage, `at` the filter that works, `err` what
it returned, and `res` the response as far as it was begun: by whom, whether through
securityResponseWriter, whether its policy was applied, after a 1xx answer, or as a
hijacked connection. Filters are nested calls in the code; here the chain is gone
through inwards to the first filter that does not pass on (`Start`) and then, on a
missing file only, outwards over those that recover (`Recover`). GetMeta may fail at
any time. The glob of a route is the set of files it matches.

**ScriptStorage** models the storage that the scripts of one repository share. The
store's calls are external and atomic; each operation is a goroutine that makes them
one by one, and may fail at each. Open files are inodes, so an unlinked or renamed
file may still be written. `before`, `disturbed`, `ever` and `always` are history:
what the properties compare a result with. `Promised` says what an operation of
several steps would do in one. An operation disturbs another if it may change an
entry that the other is about (`Touched`, `About`): its paths are not enough, since a
write that makes its parents (`MakesParents`) makes those of a neighbour, which a
write to the neighbour without them would find.

**AuthService** models the tabs of some browsers, each of which stands for the one
request it has open: a page, a login, a callback (also one requested a second time)
or a logout. Every call of the store or of the provider is an action, which may
fail where the code looks at or ignores the error, and so is the arrival of a
response (`Deliver`): only then does the browser's cookie change, so two tabs that
share it overwrite each other in the order their responses arrive. A session or
state id is new if no cookie, request or response holds it. `Tick` ages stored
answers and `perm`, the provider's permissions; `MaxDelay` bounds how many ticks
lie between an answer and its storing. `troubles` counts failing calls, expired
entries and logouts, since visits end only once these cease. `minted`, `kept` and
`early` are history: the states that gave a session, those whose deletion failed, and
the callbacks that had loaded a state when another one deleted it.
Requests come over https and from the page's own origin.

Map entries marked external are the broker, the expiry of stores, pushes, crashes,
the end of a request's context, the proxies before a server and the file system of
the storage, modelled as the code meets them.

## 4. The runs

| Run | Instance | What it shows |
|---|---|---|
| `update_hub` | 2 groups, 2 requests, 2 commits, 1 pending event | One open group at most, and the registered one is live (`OneOpenGroup`, `RegisteredGroupIsLive`); watchers are neither lost nor killed twice, and an update spares its own commit (`WatcherInOnePlace`, `UpdateSplitsWatchers`); only a broken subscription strands watchers (`StrandedOnlyByBroker`); an update taken from the subscription reaches them, and closed groups stop (`UpdateReachesWatchers`, `ClosedGroupStops`) |
| `server_meta` | 1 server, 1 repository created by its second commit, 2 callers, 2 updates, semaphore of 1 | One update per repository (`SingleFlight`), tokens come back (`TokensAccounted`), no answer goes back behind what the cache held (`NoRollback`), callers are answered (`CallersAreAnswered`) |
| `meta_config` | the same | Violated: a failed read of `.pages.yaml` publishes the default settings |
| `provider_cache` | 2 callers, 2 tokens, 1 slot, 2 bodies each, a file and a directory | Every slot has its holder (`SlotsAccounted`); what is remembered of a path is one whole answer of the backend for that path (`RememberedWasSaid`); a waiting call gets on unless every token is in the hands of callers that wait for another (`WaitersGetOn`) |
| `domain_alias` | 2 binders of one repository, 1 of another, 2 domains | A dropped domain is unbound by the binder that dropped it, a listed one serves (`DroppedDomainIsUnbound`, `ListedDomainServes`), up to failed, interrupted and overtaken calls |
| `event_stream` | 2 streams, 3 loads, 2 events, backlog of 1 | One open stream (`OneOpenStream`), events in order and none left out (`NoBroadcastLost`), no lost wakeup (`NobodyWaitsInVain`), loads end with the runtime (`TasksEnd`) |
| `response_stream` | 2 scripts of up to 3 calls, with close, cancellation and other results at any time | Refinement of `OrderedPipe` (`IsOrderedPipe`), the writer is not used after the handler (`WriterIsReleased`), close ends a stream and a cancelled filter leaves (`CloseEndsStream`) |
| `auth_service` | 2 tabs of one browser, 1 account, 1 private page, 2 sessions, 2 states, a TTL of 1 tick, no tick between answer and storing, 1 trouble | A decision is no older than its answer may be (`DecisionIsRecent`); a login gives a second session only to a callback that overlapped with the first before its deletion, or after a failed deletion (`OneSessionPerLogin`); tabs do not log each other out for ever (`VisitEnds`) |
| `script_runtime` | 2 page files and 1 backend token, or 1 storage file and the socket, 2 calls | No file is open once the closers have run, nor the connection unless it was made while the context ended (`NothingOutlivesClosers`); the tasks waited for are all there are (`DrainedMeansOver`); a request whose context has ended, or that has a result, leaves, the latter unless the opening of a file lasts for ever (`EndsWithContext`, `EndsWithResult`); every goroutine ends (`TasksEnd`) |
| `forwarding` | an IPv4 and an IPv6 client, 2 proxies, 2 servers, 4 hops at most, 3 names, 3 policies | Each server sees the client or the last untrusted hop, and the browser's scheme (`ClientIsSeen`); a site is not refused its own origin, unless a server passed the request on under another Host (`SameOriginIsServed`) |
| `request_pipeline` | 2 requests of 7 kinds, 3 commits: public, broken, private with every kind of filter; with and without auth, page as named or default repository | Which requests serve an outdated commit (`StaleOnlyByLateAttach`), one author per response (`ResponseIsNotMixed`), the page's policy on all of them (`PolicyIsApplied`), private pages only by sessions that their cookie policy lets through (`PrivateNeedsCookies`), a killed request leaves unless direct or reverse_proxy is at work (`KilledRequestsLeave`) |
| `script_storage` | 2 goroutines, 3 calls out of 25, 5 paths, 5 inodes, an empty and a full storage | A listing names what was there all the time and nothing that never was (`ListingIsFair`); an undisturbed operation does at once what it promises (`UndisturbedIsAtomic`) |

**Bounds.** Two groups allow an old one that is ending beside a new one, which is
the only overlap the key admits; a third would repeat it. Two requests are the
smallest number for which one detaches while the other attaches, and two commits
for which an update has watchers on both sides. Two updates of metadata allow one
that ends while the next begins. Two callers with two tokens are the smallest
hold-and-wait. Two binders race on a list and the third one on a domain. Three
loads and a backlog of one give waiters, a kept event and an overflow. Two writes
with a call between them have the second before, while and after the first is in
the backlog or the queue. Two tabs of one browser are needed for a late answer that
is stored over a newer one, for two callbacks with one state and for a cookie
cleared behind a new login; one tick of age separates a fresh answer from one that
must be gone. Two streams and one token are the smallest hold-and-wait within one
request, in either order of the closers; a stream and a socket have closers of
both kinds, with one call of each or two on one. Four hops
are two proxies and two servers, so that either family of headers is continued by a
proxy and by the filter and read by a second server. Three commits let a newer one
be announced before an older one, with a request attached under each of two and a
commit whose settings are broken between them; two requests, each of which attaches
once, open no more than two groups. Two storage goroutines with a third call
have an operation overtaken by two others, and five inodes are as many as can be
linked or open at once. The fifth path is a neighbour, which
shares its parent with another one. The proofs below show that for the safety
properties that are proved the bounds do not matter; those of the authentication also hold with
any delay between answer and storing.

**Deadlock** is checked except where the system may stop: in `update_hub` and
`request_pipeline` when every request has been answered, in `event_stream`,
`response_stream` and `script_runtime` when script and request are over, in
`forwarding` when the request has failed or its hops are used up, in
`script_storage` when the calls are made.

**Fairness.** Goroutines that can run do run (weak fairness), since none of them
waits with a lock held for something that is not itself a step of the module.
Nothing is assumed of the broker, of pushes, of a client, or of which ready branch a
`select` takes. In `provider_cache` blocked senders of
a channel are served in order (strong fairness of taking a token) and a caller that
is not itself waiting closes its bodies. In `event_stream` net/http cancels the
request's context after the handler has returned. In `response_stream` neither the
script nor the client that takes the response is fair: the server sets no write
timeout, and `CloseEndsStream` holds nevertheless. In `auth_service` a handler runs,
its response arrives, the browser follows a redirection and the user signs in at
the provider; users may leave, reload and log out, and nothing is assumed of when.
In `script_runtime` nothing is assumed of the script, the backend, the client or the
peer of a socket, nor that other requests give their tokens back: the opening of a page
file may last until the context ends, since it has no timeout of its own, its reading
until then or until it is closed, and a message is sent or awaited until the connection
is closed (`MustRun`, `PingMustRun`, `ReadMustRun`). So a request that no context ends
may wait for ever: the opening keeps the stream's mutex, for which the closers wait.
`EndsWithResult` says that nothing else holds the request up. In `request_pipeline` a handler goes on, and
its work may last as long as it likes, except a template's, which waits for nobody
but the backend under the killed context, and a killed script's, which ends by
`EndsWithContext` of `script_runtime`.

**Mutants.** Every property of a passing run has a plausible bug (a definition
marked "Mutant" in the module) that violates it.

**What the properties except.** Some properties name a case in which the code does what
one would rather it did not, and say that there is no other: watchers whose subscription
the broker ended, a request that attaches late, alias calls that failed, were
interrupted or overtaken, domains that two repositories list, a response writer in use
20 ms after the context's end, a socket upgraded while the context ends, two callbacks
that overlap, an opening that hangs, a killed request in `direct` or `reverse_proxy`, a
response after a 1xx one, a Host that a server did not keep, storage operations that
disturb each other. The hazards in `PROJECT.json` say of each what is left open and why.

**Where the code and its documents differ.** One disagreement is a run,
`meta_config`, whose violated property is a finding in `PROJECT.json`. Others, met
while modelling, are properties' exceptions or assumptions rather than runs:

* `meta.go:52` says that a stored error is shown as a 500; `GetMeta` answers it from
  the cache as "does not exist" (`meta.go:143`).
* `config.yaml:106` and `cache.go:52` speak of a limit on concurrent requests to the
  backend; Range requests take no token (`cache.go:108`).
* `backend.go:25` has Open return "file or error"; an error response other than 404
  is stored and replayed as the file with status 200 (`cache.go:229`, `:288`, `:167`):
  `Replayed`.
* `config.yaml:62` has a private page decided by the visitor's permission; if its policy
  lets no cookies pass, a visitor who has logged in is sent to log in again
  (`security.go:18`).
* `goja/README.md:63` has a load rejected when its backlog has overflowed; a waiting
  load or the kept backlog gives later events first (`host_globals.go:372`, `:415`).
* In debug mode runProgram writes the script's page to the response and
  `debug.Flush` adds the debug page to it (`filter.go:96`).
* A copy of a file onto itself empties it, and a copy of a directory empties the
  target before it fails (`storage.go:724-737`): the exception in
  `UndisturbedIsAtomic`.
* `reverse_proxy` replaces Forwarded, which the next server prefers to what an
  X-Forwarded-For proxy between the two would append (`request.go:151`): the
  proxies between two servers are assumed to write Forwarded.
* Two servers that refresh one repository can put an older commit back
  (`meta.go:266`); `server_meta` runs one.
* A connection that is hijacked later than 20 ms after the end of the context
  (`filter.go:148`) is an outcome that `ScriptRuntime` assumes away.

## 5. What is proved

`RepoUpdateHubProofs` proves for every set of groups, requests and commits and
every bound, from `HubAssumption` alone (the two null values are not members):
`TypeCorrect`, `GroupHasUser` (an open group has a user), and the safety properties
of the `update_hub` run: `OpenGroupUnique`, `WatcherIsKept`, `UpdateSplits`,
`OnlyBrokerStrands` and `RegisteredIsLive`. They hold of
`RequestPipeline` as well, which is proved to be one of its behaviours (below).

The argument is one inductive invariant, `IInv`. The safety properties alone are
not inductive. Two conjuncts carry them: `GroupLife` ties a group's allocation,
its `closed` flag, its subscription and the place of its goroutine together (an
open group is allocated, its goroutine selects or kills, and its subscription is
open); `RequestLife` says of which group a request in each phase is a watcher, and
that a request which is closing has left it. From these, `OneOpenGroup` is
preserved by Detach because the group it closes is the registered one, and by
`LoopEnd` because it compares the group with the registered one before it deletes;
`RegisteredGroupIsLive` follows. Each conjunct has a lemma with one step per
action, and `Invariance` puts them together.

`AuthServiceProofs` proves for every set of tabs, browsers, accounts, pages and ids,
every `AuthzTTL`, `MaxDelay` and number of troubles, from `AuthAssumption`:
`DecisionsAreRecent`, `LoginsGiveOneSession` and `TypeCorrect`. The first speaks of
the step that answers a request, so the invariant has to follow an answer on its
way: `HeldIsRecent` says of an answer in a handler's hand that it is the provider's
or that the permission changed no longer ago than the answer is held;
`StoredIsRecent` says the same of the store with the entry's age on top of
`MaxDelay`. A store may overwrite a newer answer, which is why the bound is
`Grace`, the sum of TTL and delay, and not the TTL alone. `Stations` says what a
handler holds at each of its calls; `DecisionStep` then shows that only the end of
RequireRepoAccess answers for a private page. The second theorem rests on
`LoginsInOrder`: a state that has given a session, or whose holder is past the
deletion, is out of the store unless its deletion failed; and a callback that holds a
state is early once another one with this state is past the deletion.

`ScriptRuntimeProofs` proves for every set of streams, number of calls and tokens and
whatever a script uses, from `RuntimeAssumption` (the streams, tasks, runners and null
value are distinct): `TypeCorrect`, `NothingIsLeftOpen` and `DrainedIsOver`. The
invariant `IInv` has three strands. `TasksCounted` says that `tasks` is the number of
tasks between their counting and their end, so that zero means that none runs, and
`closing`, set before the filter waits, stops those that look a second time.
`StreamsListed` says that a stream that is not closed is in the closers and, while
they run, among those that are left; so when the filter unlocks them all are closed
(`StreamsClosed`), and `TaskLife`, by which a stream that is being opened is locked
and not closed, keeps a call from opening one afterwards. `ConnListed`, `SocketListed`
and `ConnClosed` follow the connection in the same way through two lists of closers;
there the argument needs that the context has not ended, since the watcher may have
run the socket's closers before the connection was registered: the exception that
the property states.

`ServerMetaProofs` proves for any number of servers, repositories, callers and
commits, from `MetaAssumption` (servers and updates are finite sets and the null value
is in none): `OneUpdateAtATime`, `NoTokenIsLost`, `AnswersDontAge` and `TypeCorrect`. `Flight`
says that an update works for a repository exactly as long as its server's `updates`
names it, `Waits` that a caller waits for one that works: together they are single
flight, and neither is inductive without the other. `TokensAccounted` equates the semaphore
with the cardinality of the set of updates that hold a token, which each step changes
by at most one. `Newest`, for one server, orders what is on its way: an entry carried by
the update that works lies between the newest commit ever stored and the head, since
no other update of that repository can store meanwhile; so what is stored only gets
newer, and an answer is no older than the floor a caller set. With two servers it is
false, as the listed hazard says.

`ResponseStreamProofs` proves for every number of calls and every script, from
`CallAssumption`: `StreamIsAPipe`, the refinement of `OrderedPipe`, `WriterIsLetGo` and
`TypeCorrect`. The argument is about one sequence, `Line`: the chunks sent, the one
in the hands of serve, its backlog and those pending, in this order. Every step of the
code leaves the line as it is, moving the borders between its parts, or appends a chunk
that is not in it (`Joins`). `LineLife` says that a chunk is in the line once and that
a call is told of success only if its chunk is in it. `PipeStep` then maps each step to
a step of the pipe or to a stutter; the pipe ends well only where pending and backlog
are empty.

`ProviderCacheProofs` proves for every set of callers, files and directories and every
capacity, from `CacheAssumption`: `NoSlotIsLost`, `MemoryWasSaid` and `TypeCorrect`. The
accounts are stated with the sets of holders, not with a sum over callers, so that no
recursion is needed: a token belongs to a call or to an open body, given as a pair of
caller and number. `Holds` says what a call has at each of its places, which is what
the two orders of giving back in Open and List have to agree with; `Carries` says that
what is about to be stored under a path is what the backend said of this path, in full,
while other callers have other answers under way. That the holders
are finitely many is part of the invariant (`Accounts`), so `Callers` need not be.

`EventStreamProofs` proves for every set of streams, number of loads and events and
every limit, from `StreamAssumption`: `NoEventIsLost`, `NobodyIsForgotten`,
`OpenStreamIsRegistered` and `TypeCorrect`. Loads are called one after the other
(`LoadOrder`); the waiters of a stream are its loads without an answer, in the order of
their calls and later than all that got one of its events (`Waiting`), and nobody who
waits is missing from them (`Listed`). `Complete` then says that there is an event `n`
up to which the loads got all events in order, each a later load's, and from which on
the stream keeps them, or the subscription does. Each step of the code has one lemma, which says
what it does to a stream (`Quiet`, `Over`, `Within`) and to a load (`LoadMoves`); an event
that is handed over extends what was got by one, and one that is kept does not.

`RequestPipelineProofs` proves for every page, set of visits, number of requests and
commits, from `PipelineAssumption` (commits are integers above the null value, the null
values are not members, a visit has a set of cookies): `OneAuthor`, `PolicyHolds`,
`PrivateIsGuarded`, `ImplementsHub` and `KilledUnlessLate`. The first three follow from
the life of one request, `Life`: until a filter works nothing is written; one that
works has written at most a 1xx response; afterwards there is one author, or an error
and still nothing, and the error handler writes only then (`Written`). `Guarded` follows
the visitor of a private page from the decision to the hub. Of the hub this part needs
only that no step but Attach and release changes the phase of a request. A step of a
handler is brought to one lemma, `AdvancesStep`, which says what a step may do to its
request. `ImplementsHub` shows that every step is one of `RepoUpdateHub` or leaves it as it
is, for which the commit that a request attaches under has to be one (`Looked`); so
`IInv` of `RepoUpdateHubProofs` holds here too. From it and from `Updates` follows
`KilledUnlessLate`: a watcher has attached after the last announcement, or that waits at
the end of its group's queue, or the watcher's own commit was announced last (`Heard`). An event
takes all watchers of other commits only if it is not a repetition, and it is none,
since commits are stored in increasing order and published once (`SentOnce`). The model
delivers every event: with a broken subscription the theorem does not hold.

The second part of `ServerMetaProofs` proves of `DomainAlias`, for every set of
binders, repositories and domains, from `AliasAssumption` (no set of domains is the
value that stands for a missing entry): `DroppedIsUnbound`, `ListedServes` and
`AliasTypeCorrect`. The two properties compare three things that no lock keeps
together: a repository's list, the entries of the domains, and what a binder has read
and is about to write. `BindLife` says what a binder holds at each of its stations: it
unbinds none of the domains that it lists and puts only those. `Claims` says that who
lists a domain, or is served by it, has claimed it, so that an entry of a domain which
one repository alone has claimed is this repository's or none. `ListedIsPut` is
`ListedDomainServes` in the middle of a Bind: a listed domain serves, or a binder that
has stored its list will put it. `DroppedDomainIsUnbound` needs no more than the
first two. A step taken late, which writes for a list that has been replaced, is what
both properties except; the proof shows that nothing else needs to be excepted.

The second part of `ScriptRuntimeProofs` proves of `ScriptStorage`, for every set of
goroutines, tree of paths, set of calls and initial contents, from
`StorageAssumption` (paths are non-empty and what is above a path is one, too) and
`CallAssumption` (a call has a kind and its paths are among them): `FairListing`. The
invariant `ListInv` says that the tree is rooted (each entry is in a directory), where
an operation of each kind may be (`Legal`), and of a recursive listing (`Walks`) that what
was there the whole time is found already or is below a directory that is still to be
read. A directory on that list may be removed, made again or replaced meanwhile; what is
below it was then not there the whole time, which is where rootedness is needed. Rootedness is
shown of each call of the store; for Rename from the order of the paths and of those
they move to (`MovedOrder`).

From the same assumptions, with the rest of what they say (in the initial storage no
file has two names and contents are sequences of blocks, the markers of a directory or
of nothing are neither, and a write has such a body), follows `UndisturbedKeepsPromise`:
`UndisturbedIsAtomic`. It is stated of the moment in which an operation ends, and what
it needs to know of all the moments before is `AtomicInv`. Every file has one name
(`Single`). `OnTheWay` says of an undisturbed operation that every entry it is about
reads as the operation found it, with what it has done of its promise so far: `SoFar`
names that for each station, and `Gone` what it has learned there, such as that its
target can be opened. `Linked` says that the file it has open for writing still has its
name, for otherwise it would write into what nobody reads, and `Apart` that what another
operation may change is apart from what it is about, which is how `Begin` decides who
disturbs whom. A step changes no more than its operation's `Touched` entries and the
contents of the files there or of the one that it has open (`Within`), so that with
`Single` and `Apart` `OnTheWay` carries over to everyone else (`AtomicStep`). One lemma
per action then shows that its own operation gets on its way or ends as promised.

Model-checked only:

* all liveness (with `ENABLED` and fairness it is out of the proof system's reach):
  `UpdateReachesWatchers`, `ClosedGroupStops`, `CallersAreAnswered`, `WaitersGetOn`,
  `TasksEnd`, `CloseEndsStream`, `VisitEnds`, `EndsWithContext`, `EndsWithResult`,
  `KilledRequestsLeave`;
* `Forwarding`, whose properties are about headers parsed token by token with folds
  over sequences of any length: what a fold computes for every input needs induction
  over data, which the installed provers cannot instantiate.

## 6. What is not modelled

Scripts' requests, responses, bodies, headers and `fetch` (`goja/request.go`,
`body.go`, `headers.go`, `fetch.go`): conversions between Go and script values on
one event loop, and one call of net/http whose context and body the closers end, as
they do a file stream's. `page.meta`, `kv` and the promises of the page's file
system only pass values on. The providers' HTTP and file system I/O (how their errors
read is modelled where it matters), templates, rendering, logging, start-up and
configuration keep no state that outlives a call.

Limits of the modules: `server_meta` runs one server, since two can roll an entry
back, which is a listed hazard, and a positive refresh time, the only kind
`pkg/server.go` configures; its entries expire at any time, so no property of it
speaks of durations; `EventStream` and `ResponseStream` have one key and one stream
per request. `VisitEnds` is about a page whose policy lets cookies pass; for one that
strips them it fails, since the stripped cookie is the session's too
(`pkg/security.go:14-19`), a listed hazard; `PrivateNeedsCookies` says what
holds then.
`ScriptRuntime` has no contents of files and no debug page, takes initRuntime to end
before the context does, and starts the goroutines of a socket once. `RequestPipeline`
has one page, one server, and a broker that delivers every event: what a broken
subscription does is in `RepoUpdateHub`; files, redirect targets, content types,
ranges, cache headers and prefixes are left out of its filters. `RequestInfo` leaves
out quotes within a host, which net/http refuses, and `PageSecurity` the headers that
are only copied. `ScriptStorage` leaves out modes, times, the removal of the root, and
renaming onto an existing entry.
