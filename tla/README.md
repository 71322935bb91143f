# MindBalancer in TLA+

MindBalancer is a proxy between applications and providers of language models.
It exposes an OpenAI-compatible HTTP interface, picks an upstream server per
request (hostgroups, weights, health, circuit breakers), retries on another
server, caches and deduplicates responses, limits rates, asks several providers
at once in referee mode, and is administered over HTTP and the MySQL protocol.
This directory models it in TLA+, checks the model with TLC and proves the
main results about its core with TLAPS.

Paths below are relative to `src/`.  `PROJECT.json` maps every definition to
the lines it was translated from.

## 1. The system

### Components

| Component | State | Operations | Correct when | Modules |
|---|---|---|---|---|
| Circuit breakers `internal/circuit` | per server name: state, failures, successes, time of the last failure | `Allow`, `RecordSuccess`, `RecordFailure`, `Reset`, `Remove`, `Get` | opens exactly on a run of failures, probes only after the timeout, closes exactly on a run of successes, recovers | `CircuitBreaker`, `CircuitManager`, `CircuitHistory` |
| Load balancer `internal/balancer` | server table by hostgroup and by name, connection counts, round-robin counters, latencies, algorithm | `SelectServer`, `ReleaseServer`, `LoadServers`, `SetAlgorithm` | a selection sees one table; counts follow use; weights are honoured; somebody is chosen whenever somebody is available | `Selection`, `SelectionRuns`, `AtomicBalancer`, `Balancer` |
| Request handlers `internal/proxy` | locals of each handler: server, flight, outcome | chat (whole and streamed), legacy completions, embeddings, referee mode, models | every selected server is released exactly once; every request is answered; nothing is sent or cached that no call earned | `Proxy`, `Gateway`, `Exchange` |
| Deduplication `internal/cache` (`DeduplicatedCall`) | flights in progress by key | join, publish, forget | one call per key; all sharers get its result; nobody waits for ever | `SingleFlight`, `Proxy` |
| Response cache `internal/cache` | 256 shards: map, LRU list, size; configuration; cleanup goroutine | `Get`, `Set`, `Delete`, `Clear`, `UpdateConfig`, `SetEnabled`, cleanup | serves only what was set last under that key and has not expired; size and list agree with the map; memory is made for what is new | `ResponseCache`, `LossyCache` |
| Retries `internal/retry` | attempt, delay | `Do` | at most `MaxRetries + 1` attempts; stops when the client leaves | `Proxy` |
| Rate limiter `internal/ratelimit` | per user name: window, requests, tokens | `Allow`, `RecordTokens`, cleanup | no window admits more than the limit | `RateLimiter` |
| Router `internal/router` | compiled rules in order | `LoadRules`, `RouteRequest` | of the active rules that match, one with the lowest number in its priority field decides; the rules in effect are the stored ones | `Router` |
| Health checker `internal/health` | status per server name, the round in progress | rounds, probes, the callback, `Stop` | the callback's last word is the status; a status is what the server last answered | `Health` |
| Referee `internal/referee` | answers of parallel calls | choice of targets, `executeParallel`, synthesis | a synthesis counts what was asked and meets the minimum; it ends | `Referee` |
| Storage `internal/storage`, keys sealed by `internal/crypto` | SQLite tables | SQL, sealing and opening | what was sent is read | `ControlPlane`, `Balancer` |
| Admin interface `internal/admin` (`admin.go`, `admin_panel.go`, `auth.go`) | sessions, forms open in browsers | edits of tables by API, SQL-like command and form; loads; login and logout | a load brings the runtime to the table; a session admits only while it is good | `ControlPlane`, `Sessions` |
| MySQL server `pkg/protocol` | listener, connections, wait group | `Start`, accept loop, commands, `Stop` | `Stop` cuts no command short, and ends | `MySQLServer` |
| Startup and shutdown `cmd/mindbalancer` | HTTP servers, active requests, timers | listening, signals, draining, ordered stop, restart | requests under way are answered; the process ends | `Lifecycle`, `ControlPlane` |
| Provider adapters `internal/provider` | none; per stream a channel and its reader | conversion of requests, answers and stream lines | turns, answers and streams come through whole and in order | `Adapters`, `Exchange` |
| Configuration `internal/config` | settings | parsing, SIGHUP | | as constants |
| HTTP pool, metrics, terminal client | clients, counters | input/output | | none |

### How they interact

A request passes the rate limiter, is parsed, and goes to referee mode or on to
the router for a hostgroup and to the balancer for a server of it; the balancer
consults the health checker and asks *every* candidate's breaker, and counts a
connection on the one it picks.  A chat request then looks at the cache, joins
or leads a flight of its key, and the leader runs `retry.Do` around the
provider call: each new attempt hands the server back as failed and selects
again.  `ReleaseServer` takes the connection back and reports success or failure
to the breaker.  A streamed answer is read by a goroutine of the adapter, which
feeds a channel that the handler writes from.  What handlers share is the
balancer's table (read-write lock and atomics), the breakers (a mutex each), the
flights (`sync.Map` and a channel each), the cache's shards, the limiter's
windows and the settings.  Administrators change storage first and then have
`LoadServers` or `LoadRules` copy it to runtime; a health round writes statuses
the balancer reads and calls back into it.  A shutdown stops the checker, closes
the HTTP servers one after the other while the main goroutine drains, then stops
the MySQL server and leaves.

### What is hard

* Reports reach a breaker late: a caller admitted while it was closed may fail
  while it is half-open, and so on.
* `SelectServer` holds the table's lock for reading while it goes through locks
  and atomics that other goroutines use; `ReleaseServer` uses a `ServerState`
  after the lock that found it is gone; `LoadServers`, `LoadRules` and the rate
  limiter read storage before they take the lock.
* Early returns of the handlers (hit, shared call, error, unsupported provider,
  client gone, panic) must each pair with the selection made before.
* Followers of a flight wait without a timeout for a leader that may retry, be
  abandoned by its own client, or panic; the flight's map entry outlives it by
  100 ms, while new requests of that key arrive.
* The cache changes sizes and lists in many places, its limits change under it,
  and `Clear` and the cleanup visit one shard at a time.
* A stream has two goroutines and a bounded channel between them; either may
  have a reason to stop before the other.
* A restart may bring another encryption key; forms write back what they showed.
* Shutdown, drain loop, listeners, connections and a failing server race.

`PROJECT.json` lists these as hazards, each at its line, with the properties
that cover it.

## 2. The modules

### `CircuitBreaker`, `CircuitManager`, `CircuitHistory`

`CircuitBreaker` is one breaker as a record and each method as a function on
it (`AfterAllow`, `AfterSuccess`, `AfterFailure`, `AfterReset`): the code runs
every method under the breaker's own mutex, so each is one step wherever it is
used.  Time is one bit, `cooled`: at least `timeout` has passed since the last
failure.  The bit is set by a `Timeout` step at any moment and cleared by every
failure, which is all that `time.Since(lastFailure) >= timeout` can tell.

`CircuitManager` is the map of breakers under concurrent callers: `Admit`
(`Allow` said yes), `ReportSuccess`, `ReportFailure`, `Reset`, `Remove`.  A
report is tied only to the server, never to the state in which its caller was
admitted.  `CircuitHistory` adds a history variable, the sequence of everything
each breaker was told, so that "a run of failures" can be said without using
the breaker's own counters.

### `Selection`, `SelectionRuns`

The four algorithms as operators from the rows that passed the filter to the
set of positions the code may pick.  `SelectionRuns` is a sequence of
selections over one list that stays as it is.

### `AtomicBalancer`, `Balancer`

`SelectServer` in the steps in which it touches what others touch: take the
list (`BeginSelect`), per candidate `CheckHealth` and `CheckCircuit`, then the
pick (`PickRoundRobin` advances the counter atomically, `PickOther`), then
`Count`.  The read lock is the fact that a request is in one of those steps;
`WriteLock` is its absence, required by `Install` and `SetAlgorithm`.
`ReleaseServer` is `BeginRelease` (the look-up under the lock) and
`FinishRelease` (outside it).  `LoadServers` is `Fetch` (before the lock) and
`Install`.  `conns` counts on the `ServerState` that is in the table; a release
that looked up a state since replaced (`current` is false) changes one that
nobody reads any more.  `Edit`, `HealthChange` and `Timeout` are the
administrators, the health checker and time.

`AtomicBalancer` is what callers may rely on: a selection, a release and a reload
each look like one step.

### `SingleFlight`, `Proxy`

One process per request, with a `pc` label per place where the handler can be
overtaken: `Select`, `Lookup`, `Join`, `Wake`, `Attempt`, `NoAttempt`,
`Reselect`, `Upstream`, `Backoff`, `Release`, `Publish`, `Store`.  Selection and
release are one step here, because `Balancer` takes them apart and implements
`AtomicBalancer`, where they are one.  Three kinds of
request follow the code's three orders: chat selects, then looks in the cache,
joins, retries, releases, publishes, stores; embeddings look first, then select,
join, publish, release, store; streamed chats and legacy completions only
select, call, release.  A flight is named by its leader.  `Forget` is the
goroutine that removes a flight, `Expire`, `SetEnabled` and `Disconnect` are
what the cache, administrators and clients do meanwhile.  A panic happens where
`Balancer` shows `SelectServer` to panic (`MayPanic`) and where a negative
`max_retries` leaves no response (`NoAttempt`).

`SingleFlight` is what `DeduplicatedCall` promises: nobody begins a call for a key
while one is under way, and each participant is given its result, once.

### `LossyCache`, `ResponseCache`

`LossyCache` is what callers may rely on: the answer to a `Get` is the value set
last for the key asked, or none.  Each caller's call is part of its state
(`asked`), so that only the value a `Set` was called with can appear, under the key
it was called with, and only the asked key's can be the answer.  `ResponseCache`
is the code: a shard is its map (`items`), the keys of
its list from the most to the least recently used (`lru`) and its size; a caller's `Get` and `Set` are a check of
the configuration without the lock (`BeginGet`, `BeginSet`, with the
compression) and a step under the shard's lock; `Evicted` makes room by memory
and by count from the back of the list, `Stored` updates in place or inserts;
`Clear` and `CleanupShard` go from shard to shard, any number of `Clear`s at once
(`Clearers`: HTTP and MySQL administrators), each with its own position
(`clearing`) and its own history of what is older than itself (`old`).  `Abstract`
instantiates `LossyCache` with the entries that have not expired, and
`ImplementsLossyCache` is checked as a property.  `Proxy`'s `cached` is that
map: its `Expire` is the loss.

### `RateLimiter`, `Referee`, `Gateway`

`RateLimiter` has the user's limit (`LimitOf`, read from storage) and the count
under the lock (`Count`) as two steps of the caller, so that both the limit and
the window may change between them; a window's age is current, over (a minute)
or stale (five).  `Referee` is the choice of targets, positions
in the server table, the parallel calls and the figures of the synthesis.  `Gateway` composes them as
the chat handler does: limit, count, parse, then either serve (one step here,
`Proxy` takes it apart) or target, ask in parallel, weigh, synthesise.

### `Router`, `ControlPlane`

`Router` compiles the active rules in some order by priority (the sort is not
stable) and lets the match with the smallest position decide; a pattern is what it does to a request,
including one that does not compile (a model pattern falls back to a glob, a
prompt pattern to matching everything, a user pattern to equality).
`ControlPlane` edits `ai_servers` and the rules as the API, the SQL-like
commands and the panel's form do, seals and opens keys (`seals` is the stack of
encryption keys around one), loads in two steps (`ReadServers` and
`InstallServers`, `ReadRules` and `LoadRules`), and restarts with any encryption
key.  `suspect` is history: the tables the runtime may differ from.

### `Health`, `Sessions`, `MySQLServer`, `Lifecycle`

`Health` is one round after the other; a check is `Record` under the lock and
`Notify` after it.  `Sessions` splits `GetSession` where the code lets the lock
go.  `MySQLServer` is the accept loop, the connections and the wait group.  The
loop takes the code's steps: `LookAtQuit`, a blocking `Accept` which returns a
connection as long as the listener is open, whatever has become of `quit` by then,
and `AddConnection`, the `wg.Add` that may come while `Stop` waits.  `Stop` is three
steps as well (`CloseQuit`, `CloseListener`, `Waited`), and `Start` two, so that it
may still be listening when `Stop` begins.  A command is executed (`Executed`) and
then answered (`Written`), which takes a client that reads.  `Lifecycle` composes
them with the HTTP servers, the count of active requests and `main`: its closing
goroutine, its drain loop, its wait in `Stop` and its timers, as three moments
(`early`, `drain timeout`, `deadline`).

### `Adapters`, `Exchange`

`Adapters` translates requests, answers and the lines of streams for each of the
four dialects; texts are told apart by where they come from, and what a loop
keeps is its positions in their order (`InOrder`).  `Exchange` is one
exchange with them: the reader's and the handler's steps over the channel, the
upstream's lines and the client that may leave.

### Sections of faulty variants

Modules have a section of operators that nothing uses: each is a
definition with a plausible mistake (a dropped guard, a missing reset, a late
trip).  `PROJECT.json` pairs each with the property that must fail when it takes
the place of the correct definition; together they show that no property holds
whatever the code does.

## 3. What TLC checks

| Run | Question | Bounds |
|---|---|---|
| `circuit_recovery` | Do a breaker's counters agree with its state, does it stay open until it has cooled, and does it close in the end once failures stop? | 2 servers, 2 callers, thresholds 2 and 2, 4 failures counted |
| `circuit_history` | Does it trip, probe and close on exactly the reports that should make it? | 1 server, 3 callers, 8 events |
| `selection_runs` | Exact shares for round robin, level loads for least connections, always a pick | lists of 1 to 3 servers, weights 0 to 3, 10 selections (`MaxServers`, `MaxWeight`, `MaxPicks`) |
| `balancer_reload` | Can a reload slip into a selection, or leave connections behind that nobody will release? Is somebody chosen whenever there is a candidate? Do selections and releases look atomic? | 2 requests, 2 loaders, 3 tables over 2 servers and 2 hostgroups |
| `proxy_mixed` | Does every path account for its connection, is there one call per key with one result, is every answer earned, do flights implement `SingleFlight`, and is everybody answered? | 2 requests of any of 3 kinds, 2 servers, `max_retries` 1 or -1, panics |
| `response_cache` | Do sizes and lists agree with the map, is room made, do expired and cleared entries leave, and is it a lossy map? | 4 keys, 2 shards, 2 sizes of value, 2 configurations, 1 caller with 1 call in progress, 1 administrator who clears, 2 entries per shard |
| `gateway` | Do full windows stay full, does a synthesis say what happened, does every request end? | 2 requests, 1 user, limits 0, 1 and 2, 3 servers, 3 settings, 1 edit |
| `control_plane` | What does a load guarantee, do keys survive sealing and restarts, which rule decides? | 2 servers, 2 loaders, 4 rules of which two have equal priorities, 2 encryption keys or none, 3 edits, 1 restart |
| `lifecycle` | Do requests drain and commands finish, does the process end, are sessions and notices right? | 1 request, client, administrator and watched server, 2 HTTP servers |
| `exchange` | Do conversations, answers and streams come through whole, and do both goroutines end? | conversations of up to 3 messages in 4 roles, answers of 2 blocks, streams of 3 lines, a channel of 2 |

Why the bounds are enough.  Two late reporters are needed to reopen a breaker
behind a probe's back, three to do so while a success run is in progress; a
threshold of 2 is the first at which "a run" differs from "one"; eight events
hold a trip, a probe, a relapse, a second probe and its closing.  Two loaders
are the least at which loads overlap, and three tables the least at which the
older of two is not the initial one; between them the tables contain a hostgroup
that never had a server, one that loses its servers, a shunned and an offline
server, a server that changes group, and a hostgroup with two candidates.
Two requests of one key are a leader and a follower, or one that finds a flight
which has ended and one that has not been removed; two servers let a failover
find another, or none.  Three keys in a shard of two entries force an eviction
by count, a value that takes the whole share one by memory, and the second shard
is what `Clear` and the cleanup come to next; a second administrator takes the run
beyond its time, and nothing one `Clear` does depends on another: the theorem
`ClearLeavesNothing` is for any number.  Two requests of one user are one
more than a limit of 1, and a limit of 2 is what it may change to meanwhile.
Three edits are an insertion, an update or the save of a form, and one that
overlaps a load; one restart is enough to change the encryption key, or to lose
it.  Three messages tell apart the last of the user's turns, an earlier one and
the system's; three lines fill a channel of two with one to wait.  In
`lifecycle` each kind of work has one item, which every phase of the shutdown may
meet at every stage; they do not touch each other.  In `proxy_mixed` a chat request
may always be cached; what a key shares with a request that may not is left to
the theorem `ResponsesAreEarned`, since a fourth body exceeds the run.  Symmetry is used over model
values that nothing in the run tells apart, and never under a liveness property.

Runs that end in a violation, each the disagreement of the code with one of its
own lines:

| Run | The line | What the code does |
|---|---|---|
| `sharers_differ` | example.cnf:81 "identical concurrent requests share one LLM call" | the key leaves out `n`, `stop`, `tools`, `response_format`, `seed`, ..., so requests that differ share |
| `key_lost` | admin_panel.go:1019 "Leave empty to keep existing key when editing" | the body is sent without the key, decoded into a fresh row and written back whole: the stored key is erased |

### The abstract specifications

`LossyCache` is refined by `ResponseCache` under `store <- Live`, the map from
keys to the values that have not expired, and `asked <- Asked`, the key and the
value of each call under way: a `Get` that finds an expired entry is an answer of
none, an eviction, `Clear` or cleanup is a loss, an update in place is a put.  It justifies the cache that `Proxy` uses.

`AtomicBalancer` is refined by `Balancer` under `table <- runtime`,
`count <- conns` and `held <- Held`: a request holds its server from the moment
its connection is counted (`Count` is `Take`) until its release takes it back
(`FinishRelease` is `Give`, as is a `BeginRelease` that finds no state under that
name and returns).  A release whose state was replaced between its
look-up and its decrement counts as made just before the reload: `Install` is a
`Replace` that lets those requests go as well, and their decrement, of a state
nobody reads, stutters.

`SingleFlight` is refined by `Proxy`: `Join` is `Lead` or `Share`, `Publish` is
`Finish`, the steps in which a participant gets its reply are `Deliver` (`Wake` of a
follower, `Store` of the leader), the removal goroutine is `Forget`; all else
stutters.  A leader that panics never finishes; the abstract specification does
not promise that it does, `AnsweredUnlessAbandoned` says who is answered.

### Fairness

* `circuit_recovery`: weak fairness of `Timeout` (clocks advance) and of reports
  (every provider call has a client timeout), strong fairness of `Admit` for each
  server (there is traffic; a server that is never asked for needs no recovery).
* `proxy_mixed`: weak fairness of each handler's next step - calls are under the
  client's timeout, delays are bounded, goroutines are scheduled.  A timeout of 0
  (`request_timeout_ms`, or a model's own) means none to Go's HTTP client: the
  fairness, and with it the property, is of configurations with timeouts.  Nothing is
  assumed of administrators, clients, expiry or the removal of flights.
* `response_cache`: weak fairness of `CleanupShard` - the ticker keeps firing.
* `gateway`: weak fairness of each request's next step, and of the return of each
  request's calls, which run under a context timeout.
* `lifecycle`: weak fairness of each goroutine by itself - `main` once a server has
  failed or a shutdown has begun, the one that closes the HTTP servers, the accept
  loop where no client is needed, each connection where none is - and of time.
  Nothing is asked of clients, not even that they read what is written to them, nor
  that a signal comes.
* `exchange`: weak fairness of the reader, of the handler, and of the end of the
  body, which the HTTP client's timeout sees to, where it is not 0.

### What the properties except, and why

Some properties name an exception, because the code has one.
`AnsweredUnlessAbandoned`: a leader that panics never closes its flight
(cache.go:512-519 has no `defer`), so its followers, and every later request with
that key, wait for ever, although cache.go:493 says that they "will wait and
receive the same result".  `LoadAccounted`: a failover that finds no server
releases the failed one twice (proxy.go:336 and 375), which takes one connection
too many and tells the breaker of one failure twice, while example.cnf:31 counts
"failures before opening".  `ShutdownEnds`: a MySQL client that says nothing, or
that sends queries and does not read the answers, holds `Stop` up for ever, since
neither reads nor writes of its connection have a deadline (mysql.go:446-479).  `OldRequestsDrain` speaks of the requests under way when the
shutdown begins: later ones are cut off, since the loop ends at the first tick
with no active request while the proxy still accepts.  `EveryRequestEnds`: with a
negative `referee_max_providers` the slice at referee.go:71 panics.
`NoticesAreCurrent`: a server that fails its first check goes from unknown to
unhealthy without notice.  `LoneLoadSettles`: overlapping loads may leave the
older table in effect, so admin.go:1217's "servers loaded to runtime" can name
one already replaced.  `InsertionMakesRoom`: an entry larger than a shard's share
is stored all the same, alone.  `ExpiredLeave`: the cleanup goroutine is started
only if the cache is enabled at startup.  `StreamIsWhole` and
`ConversationArrives`: Gemini's stream reader claims `[DONE]` and success however
the stream ended, and its conversion drops system messages although google.go's
comment says "Prepend to first user message".

`ConversationArrives` does not say that a long text of the user's is marked for the
prompt cache: the comments at anthropic.go:179 and 182 speak of "the last long user
message" and "the last user message with substantial content", but the loop breaks
at the user's last turn whatever its length (199), so that a long one followed by a
short one is not marked.  What is stated is what code and comments share: nothing
but the last long text of the user's, and a long system text, is ever marked.
`RoutedByPriority` takes the lowest number first, as router.go:74 ("lower = higher
priority") and the code do, although the panel's form tells the administrator
"Higher = matched first" (admin_panel.go:1118): a rule given 200 there to come before
the others comes after those left at the form's 100.

### Seen while modelling, with no run of its own

* admin_panel.go:1108 calls a rule's pattern a "Request path pattern to match", with
  `/v1/chat/completions` for an example; router.go:115 matches it against the prompt.

* balancer.go:128 falls back to the default hostgroup's candidates but to the
  requested hostgroup's round-robin counter, which does not exist for one that
  never had servers: the selection panics.
* A cache hit, a shared call (even one that failed) or a negative `max_retries`
  releases a server nobody called as a success (proxy.go:248 and 285), which can
  close a half-open breaker, while circuit.go:85 says "RecordSuccess records a
  successful request" and example.cnf:33 counts "successes to close".
* README.md:80 promises "Control requests and tokens per minute": tokens are
  counted, `CheckTokens` has no caller.  Only chat completions are limited.
* `min_responses` of 0 or less lets a synthesis of no answer at all through;
  labels that differ in case ask one server twice.
* A restart or a load with one key that cannot be opened installs nothing.
* The panel gives every rule the number 0, so that its second one fails; its
  button to delete a hostgroup has no API; its form writes back columns changed
  since it was opened.
* SIGHUP writes settings without a lock, and consumers such as the breakers and
  the limiter keep copies from startup, while README.md:704 speaks of a hot
  reload.  Values of `SET` do not outlive the process.
* Anthropic's conversion keeps only the last plain system message, and an empty
  one erases an earlier one; Ollama's answers always say "stop"; a clean end of
  file without the end mark counts as a success; a client's hanging up on a
  stream counts as a failure of the server.
* README.md:92 describes the cache for `temperature=0`, and proxy.go:227 also
  caches when the temperature is absent; `Cacheable` follows the code.
* README.md:468 promises active requests in `SHOW PROCESSLIST`; counts start
  again at 0 with every `LoadServers`.  `NoPhantomLoad` states the half that does
  hold.
* `retry.Do` returns a wrapper that proxy.go's type assertion to
  `*provider.ProviderError` never matches, so a retried chat's upstream status
  becomes 500 (`Exchange.Refused`); streams keep theirs.

## 4. What is proved

Everything here holds for all values of the constants under the modules' named
assumptions, which say no more than what the code's types and tables give:
thresholds and limits are integers (also 0 and negative ones), requests, clients
and calls are finite sets, sentinels are not members of what they stand in for,
tables are sequences or sets of rows, `Order` is the order in which `main` closes
the servers, requests with one cache key agree in kind, because each kind computes
its keys in its own way; their temperatures need not agree (cache.go:198 has
thousandths).  Eight modules hold the proofs, each the inductive
invariant of a component and a lemma per action.  TLC checked every such
invariant on the run of its module before it was proved.

| Module | Theorems |
|---|---|
| `CircuitProofs` | `TypeCorrect`, `CountersAlwaysAgree`, `NeverReopensEarly`, `FailureRunAlwaysTrips`, `HalfOpenCountsProbes`, `OnlyFailureRunsTrip`, `OnlySuccessRunsClose` |
| `BalancerProofs` | `BalancerTypes`, `NeverPhantomLoad`, `ExactWithoutReload`, `SelectionsSeeOneTable`, `CountersForPopulated`, `SelectionsSettle`, `BalancerLooksAtomic`, `SomebodyIsPicked`, `SharesFollowWeights`, `LoadsAreLevel` |
| `ProxyProofs` | `LoadIsAccounted`, `FlightsAreLedByOne`, `FlightsShareOneResult`, `ResponsesAreEarned`, `FlightsAreSingle` |
| `ResponseCacheProofs` | `CacheIsLossyMap`, `ClearLeavesNothing`, `AccountsAgree`, `InsertionsMakeRoom` |
| `GatewayProofs` | `WindowsHonourLimits`, `SynthesesHaveConsensus` |
| `ControlPlaneProofs` | `LoadsSettle`, `KeysSurvive`, `RoutesByPriority` |
| `LifecycleProofs` | `DrainOutlastsRequests`, `NoCommandIsCut`, `SessionsAreChecked`, `NoticesKeepUp` |
| `ExchangeProofs` | `StreamsAreWhole`, `TranslationsKeep` |

**`CircuitProofs`**.  `CountersAgree` with the types is inductive by itself; one
lemma per method shows that it takes a `Good` breaker (a breaker whose counters
agree) to a `Good` one, and the theorem for the map follows with `Get` and
`Update`.  The properties of histories are not inductive: "closed means no run of
`Threshold` failures" needs to know that the counter is the length of the current
run.  `Tells(b, h)` is that strengthening: a closed breaker's failures are
exactly the failures at the end of its history, a half-open one's successes come
right after its probe.  `HInv` says it of every server.

**`BalancerProofs`**, for any number of requests, loaders, servers, hostgroups
and tables.  Type correctness itself depends on the lock: `Count` indexes `conns`
with the chosen name, which is a server only because the list is that of the
table in effect.  The invariant `IInv` is `TypeOK` with, per request, `SelectOK`
(list, candidates and choice belong to the table in effect) and `UseOK` (a
release that looked up a current state has a name in the table), per server,
`CountOK` (no count for a name that has left, and the two counting properties),
and `LoadOK` (what loaders hold is a table; counters exist).  A count is bounded
by a cardinality, so each step that moves a request into or out of `Users` uses
the library's facts on adding and removing one element.

`BalancerLooksAtomic` is the refinement of `AtomicBalancer`, one lemma per action
that changes `Held` (`CountTakes`, `BeginReleaseGives`, `FinishReleaseGives`,
`InstallReplaces`) and one for those that do not.  `IInv` gives what `Take` asks
for: the server whose connection is counted is ONLINE in the table in effect at
that moment, not in the one the request began with.

`SelectionsSettle` and the theorems about `SelectionRuns` need to know what the
algorithms return for *any* list, where TLC has those of up to three rows.  A
total weight is a fold over a set; that it can be split and does not depend on
an order is proved as in `ResponseCacheProofs`, by looking at the smallest set for
which it would fail.  The weighted walk down a list (`AtPosition`) is then the
choice of a stretch: rows stand for stretches of numbers laid end to end, as
wide as their weights (`StretchesAreApart`, `SomeStretch`), so every remainder
falls into exactly one (`RoundRobinPicksOne`), and never into one of width 0
(`RandomPicksWeighted`).

`RoundRobinShares` and `LoadsStayLevel` compare the counts of one moment and are
not inductive.  `RunIInv` gives every count outright: `SharesOK` says that after
`counter` selections row `i` has been picked as often as there are positions up to
`counter` that fall into its stretch - its width per full round, and what of its
stretch the unfinished round has visited (`Given`, `GivenGrows`).  At the end of a
round this is the share.  `LoadsStayLevel` is preserved because the row picked had the
least adjusted load before (`LoadsStep`).  The proofs are for lists of any
length, any weights and runs of any length.

**`ProxyProofs`**.  `LoadAccounted` needs `StageOK`: whoever holds a connection
knows its server, and what a label says of the kind of request and its outcome.
`OneCallPerKey` is not inductive, because the map may already hold the next
leader of a key while the last one is on its way out: `FlightOK` says that a
leader whose flight is not closed is the one in the map, and that one whose
flight is closed is past publishing, so two leaders that are calling would both
be in the map under one key.  The same conjunct says that followers point to a
leader of their key which points to itself, which with `ReplyOK` gives
`SameResult`; `CachedOK` and `MapOK` carry responses from a request to the cache
and on to another request, for `AnswersAreEarned`.  `Forget` removes a map entry
only of a closed flight, `SetEnabled` lets requests pass the cache altogether,
and the invariant survives both.

`FlightsAreSingle` is the refinement of `SingleFlight`.  The invariant gives what
its guards ask: the flight in the map under a key is one of that key (`MapOK`), and
a leader that publishes has not done so and is still in the map, as is a leader
whose call is retried (`FlightOK`).  That results never change is that nothing
moves an outcome once its flight is closed.

**`ResponseCacheProofs`**.  `Live` maps a state of the shards to one of
`LossyCache`, `Asked` the calls under way.  Every action but `Set` only thins
shards (`Thinned`: entries go or expire, and none changes its value), and
thinned shards are a `Lose` or an `Answer` of the map (`ThinningLoses`); `Set`
evicts, which thins, and then puts one value.  What the invariant adds is that
keys are in their own shard and that entries and operations are well formed.
`ClearForgets` is inductive with the range of `clearing`: in front of it shards
are empty or filled since, and an action other than `BeginClear` makes no entry
old.

`Accounted` needs two bodies of lemmas.  Of lists: `Without` leaves the other keys,
each once (`WithoutKeeps`, because the places up to a key are counted by an
injection of the same cardinality, `PlacesAreFilled`); what is behind the `n` first
leaves `n` (`BackGoes`).  Of sums: `StoredIn` is a fold over a set, so its recursion
has to be shown to have one solution (`SumsExist`, `SumsAgree`) before a sum can be
split into that of a part and that of the rest (`SumSplits`).  Each of these is an
induction on the size of a set, done without an induction rule: if the statement
failed, there would be a smallest size at which it does (`SmallestExists`).
`Accurate` is then kept by `Removed`, `Stored` and `ToFront`, whatever is removed
and however small the limits are.  `EvictionLeaves` gives the number of keys an
eviction leaves, from which `InsertionMakesRoom` follows.

**`GatewayProofs`**.  `WindowHonoursLimits` with the types is inductive: the
count and its history grow together, and only by one more than what the limit
was compared with.  `ConsensusIsMet` is not: a verdict is weighed after the calls
have returned, and it must be known that results no longer change
(`CallsOK`: from "synthesize" on all have returned and enough have succeeded, and
there is a result per target, of which there are no more than the limit).  The
successes are among the positions of the results, so that there are as many
failures as the verdict says, and all positions have returned.

**`ControlPlaneProofs`**, in three parts that do not depend on one another.
`LoadsInv`: a loader whose read no edit has overtaken holds what the table gives
now, and a runtime that is not suspect is what it gives.  `KeysInv`: the key in
the table opens, under the encryption keys it is sealed with, to what was sent;
`KeysComeBack` follows with `LoadsInv`, since the runtime is what was opened.
`RulesInv`: the compiled list holds the active rules of `basis`, each once, by
priority.  `RoutesByPriority` is a property of `RouteRequest` for any such
list: the smallest position that matches exists (a non-empty set of naturals has
a least member), and whatever has a lower number would come before it.

**`LifecycleProofs`**: an invariant per component.  `HealthInv`: a change that
was recorded is what is about to be told, else the last word is the status.
`SessionsInv`: a session that was logged out is not in the map, and a request
that found one which is not too old arrived while it was good.  `MySQLInv`: the
wait group is the number of connections that were added, and one for the accept
loop, whose own count is what keeps `Stop` from returning while `Accept` may still
have a connection that nobody has added; `Stop` returns at 0, when
the loop has ended or has yet to begin.  `DrainInv` relates `main`, its closing goroutine and the proxy:
the counter of active requests is their number, the requests the shutdown found
are among them, and once the closing goroutine has passed the proxy, no request
is left; so both ways out of the drain loop other than the timeout find none of
the old requests.

**`ExchangeProofs`**, for streams of any length, channels of any capacity and
any pace of the two goroutines.  `StreamIsWhole` speaks of what was written,
`IInv` of the events in the channel as well: they are in the order of their
lines, behind all that were written (`OrderInv`), only the last may be an end
mark or an error (`Precedes`), and text that was read is in one of the two
(`WholeInv`).  `StagesInv` says why a closed channel is closed: an end mark or an
error is in it, or has been written, or the body ended cleanly after its last
line.  A success is recorded when the channel is closed and empty, and by then
every line read has been written.

`TranslationKeeps` needs little of the steps (`TranslationInv`: what was sent and
what was told are translations of this conversation and this answer) and much of
the operators.  The adapters append what they keep in a loop; `InOrder` says what
that leaves, without recursion: the n-th of a set of positions is the one with n
of them up to it.  `OrderIsComplete` proves that it lists all of them, going up,
by counting (`PlacesAreFilled`: an injection between finite sets of one size is
onto).  `TurnsMirror` makes turns of it; `RestyledTurnsConvey` says that a dialect
may change the form of a turn and the name of a role but for the user's and the
system's; one lemma per dialect shows that it does no more.  `MarkIsLast`,
`LongSystemIsMarked` and `OnlySystemSpeaks` are about what Anthropic's adapter adds.

Three theorems have no run.  `ExactWithoutReload` and `FlightsShareOneResult` say
in terms of one state what `ImplementsAtomicBalancer` and `ImplementsSingleFlight`,
which the runs check, say of steps; `TypeCorrect` is the type invariant of
`CircuitManager`, on which the other proofs about breakers rest.

### What stays with TLC

Every invariant, action property and refinement of the runs that pass is a
theorem.  What is left is liveness (`RecoversWhenFailuresStop`,
`AnsweredUnlessAbandoned`, `EveryRequestEnds`, `ExpiredLeave`, `ShutdownEnds`,
`StreamEnds`): the prover has no rules for fairness and `ENABLED`.

## 5. What is abstracted or left out

* `FinishRelease` takes the count back and reports to the breaker in one step;
  two atomics in the code, which no other step relates.
* Latencies are measured, so latency-based selection may pick any candidate;
  least connections, too, in `Balancer`, where counts change while they are read.
  Its exact choice is in `Selection`, checked and proved about in `SelectionRuns`.
* Weights are naturals.  The schema accepts negative ones.
* A body is what the proxy tells bodies apart by: kind, key, temperature, and
  "the rest" that the key leaves out.  A text in `Exchange` is the number of the
  message, block or line it comes from.
* In `ResponseCache` sizes are small numbers and time is one bit per entry;
  statistics are left out.  In `Health` streaks and messages are left out.
* `CheckTokens`, the limiter's `Reset` and `SetEnabled`, `AddRule`, `RemoveRule`,
  `MarkHealthy` and `MarkUnhealthy` have no callers.
* SIGHUP: it writes fields of the configuration that their consumers have copied
  or read at any moment; where they are read at any moment (`RetryLimits`,
  `UpdateConfig`) the modules let them change.

Not modelled: the pages, lists, statistics and monitoring of the admin interface,
the metrics and the request log, which only show what happened; the parsing of
the configuration file and of SQL-like commands, MySQL packets and result sets,
AES and bcrypt, which translate bytes; the terminal client; the HTTP pool beyond
its timeouts; embeddings, models and legacy completions of the adapters, and the
list of models.

## 6. Plan

1. *Done*: breakers, selection, balancer, handlers with flights, cache and its
   refinement, limiter, referee, router, control plane, health, sessions, MySQL
   server, life cycle, adapters and streams.
2. *Done*: proofs of breakers, balancer, selection and its long runs, handlers and
   flights, the refinements of `AtomicBalancer`, `SingleFlight` and `LossyCache`, the
   cache's accounts and `Clear`, limiter, referee, control plane, life cycle,
   streams and translations.
