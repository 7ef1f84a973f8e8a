# Verification of BookCabin

BookCabin is a flight search server in Go: one HTTP endpoint, behind which a
search fans out to four airlines, merges what they answer, caches it, and
presents it to each client. This directory holds TLA+ modules translated from
the code in `src/`, the TLC configurations that check them on small instances,
and TLAPS proofs of what matters for every value of the constants.
`PROJECT.json` maps each definition to the lines it models.

## The system

| Component | Source | State it keeps | Operations |
|---|---|---|---|
| HTTP handler | `internal/app/api/handler.go` | none | `handleSearch` decodes a body, calls the service, writes 200, 400 or 504 |
| search service | `internal/app/service/service.go` | none of its own; slices of flights on the heap | `Search` (one or two legs), `searchLeg` (lookup, fetch, store, present), `applyPresentation` |
| request validation | `internal/pkg/domain/search.go` | none | `Validate`, which also fills in the cabin |
| response cache | `internal/pkg/cache/cache.go` | a map from keys to entries with an expiry, under an RWMutex | `Get`, `Set`, the sweeper, `Key` |
| aggregator | `internal/pkg/aggregator/aggregator.go` | a result slice, a WaitGroup, one context per provider | `Aggregate`, `callWithRetry`, `backoff` |
| rate limiter | `internal/pkg/aggregator/ratelimit.go` | tokens and the time of the last refill, under a mutex | `Wait` |
| deduplication | `internal/pkg/aggregator/merge.go` | an index map and the result, in one call | `Dedup` |
| provider adapters | `internal/pkg/providers/*.go` | none | `Fetch`: request, decode, normalize, `Validate`, `flightMatches` |
| airport table | `internal/pkg/airport/lookup.go` | a constant table | `Location` |
| filter and sort | `internal/pkg/filter/*.go` | none; they write into the slice they get | `Apply`, `Sort` |
| ranker | `internal/pkg/ranker/ranker.go` | none; it writes a score into each flight | `Rank` |
| rupiah formatting | `internal/pkg/money/idr.go` | none | `Format`, `FormatIDR` |
| server lifecycle | `cmd/server/*.go` | the listener, a channel | start, signal, `Close`, exit |
| mock airlines | `internal/pkg/airlinemock/airlinemock.go` | none | `ServeHTTP`: sleep, then data or, AirAsia's, a 503 |

How they interact: net/http runs a goroutine per request. It calls
`Service.Search`, which calls the shared cache and, on a miss, `Aggregate`.
`Aggregate` starts a goroutine per provider. Each passes through the limiter of
its provider, which all searches share, and calls `Fetch` under a context of its
own, derived from that of the request. The flights are concatenated in the order
of the providers, deduplicated and stored; then a copy is filtered, ranked,
sorted and formatted for the client. A background goroutine sweeps the cache.

What is hard about it, and what makes each part correct:

* **Rate limiter.** Goroutines refill and drain one bucket, and each sleeps
  outside the lock on a delay it computed inside. Correct: no window of time sees
  more grants than the burst and the rate allow; nobody sleeps on a token; `Wait`
  returns.
* **Aggregator.** Retries, backoff, two levels of contexts and a WaitGroup race
  each other; a slot that nobody wrote reads as a success. Correct: `Aggregate`
  returns, with each slot written once, and each outcome is the one that the
  fetches and the contexts call for.
* **Cache.** `Get` looks at the expiry after it has released the lock; the sweeper
  reads the clock before it has it. Correct: a map whose entries last their TTL.
* **Service.** Concurrent hits share an array that every presentation step
  rewrites in place. Correct: each client gets its own leg, filters and order.
* **Deduplication.** The result is changed in place while a map points into it.
  Correct: the cheapest listing of every flight, once, in order of appearance.
* **Adapters.** Listings contradict themselves and times come in four dialects.
  Correct: what is returned is what is flown and was asked for, and all of it.

* **Filter, sort, ranker.** `Apply` appends to the array it is still reading; a
  comparison that is no strict order makes a stable sort unstable; scores are
  relative to the flights that are left. Correct: every flight asked for, once, with
  a score that respects who is better, in the order asked for with ties as found.
* **Server.** A signal can come at any point of the start; `Close`, `Serve` and `main`
  wait for each other. Correct: a signal ends the process, and an exit with
  success leaves nobody connected.

## Modules

Nothing here has a RECURSIVE operator. All the definitions marked `Mutant:` are
plausible bugs, kept beside the definition they corrupt; no specification uses
them. Each property has one, and TLC finds the property violated with it.

### Limiter

`Wait`, for goroutines that share a limiter. The loop of the code is the cycle
"lock" -> "select" -> "parked" -> "lock". A critical section is one action
(`Take` when a token is there, `Defer` when not; both keep the refill). `select`
is two places, because a goroutine that finds both channels ready picks either
one, and one that is parked resumes with whichever becomes ready first. The
float64 bucket is counted in units of 1/`Unit` token and is exact; a delay is
truncated to a tick as `time.Duration` truncates to a nanosecond, so that early
wake-ups happen. `grants` is a history of the instants at which tokens were taken.
The rounding of float64 itself is not modelled. What is proved of it stands in
`CallsProofs`, since `Calls` extends it.

### Calls, CallsProofs

Aggregator's goroutine and Limiter together, on one clock: the goroutines of
several searches that call one provider, each in `callWithRetry`, with the delays
of `backoff`, the deadline of its context, the delays of a mock airline's handler
and its 503. `Calls` extends `Limiter` and has its variables: a step in `Wait` is the
step of `Limiter` (`Take`, `Defer` and so on, conjoined with what it means for the
call), and `ImplementsLimiter` says that nothing else touches them. The code
takes no time of its own: the clock moves when every goroutine sleeps, or goes round
the loop of `Wait` until the dropped fraction of a tick has passed (`Blocked`), and
not past a deadline that has yet to be noticed. `queued`, `sends` and the limiter's
`grants` are histories. It replaces the abstract limiter of `Aggregator`, for one provider; which
slot gets the outcome is `Aggregator`'s affair; what a call may end with is
`RetryLoop`'s, which both implement.

### FanOut, RetryLoop, Aggregator, AggregatorProofs

`FanOut` is the promise of `Aggregate`: slots are settled once, in any order, and
handed over when all are. `Aggregator` is one call of it: the spawning loop with
`wg.Add`, a goroutine per provider (`Begin` to `Exit`), and the contexts. The
limiter is an abstract step here (a token at any time, or the context's error when
it is done), which is what `Limiter` allows: `WaitReturns` there justifies the
fairness of `LimiterGivesUp` here. The random delay of `backoff` is any delay. An
HTTP request whose context is done is not sent; one in flight may still be answered.
`log` (how each fetch ended) and `late` (tokens taken after the context was done)
are histories. `Promise` is the mapping to `FanOut`.

`RetryLoop` is the promise of `callWithRetry`: one request at a time, none once the
context is done, `MaxRetries` + 1 at most; a call ends with the first success, with a
failure when all have failed, or with the error of a context that is done. It says
nothing of slots, limiters, delays or clocks, and two modules implement it: a goroutine
of `Aggregator`, whose limiter and delays are abstract, and a call in `Calls`, where
both are those of the code. So the abstraction in `Aggregator` and the detail in `Calls`
are of the same loop. `Loop` is the mapping in each: `Phase` has a call in a fetch while
its request is out, and `Sent` counts the one that is out as sent. `ImplementsPromises`
is, in each of the two, the conjunction of its refinements.

### ExpiringMap, Cache, CacheProofs

`ExpiringMap` is the promise: entries disappear with the clock, TTL after they were
stored. `Cache` has the lock, the unlocked check (`GetRead`, `GetCheck`), the
ticker with its one-element buffer and the sweeper in two steps (`SweepTick` reads
the clock, `Sweep` holds the lock). `seen` is a history of what the key held during
a `Get`. The mapping takes an entry for stored while it is valid.

### Dedup, DedupProofs

The loop of `Dedup`, one pass a step, over every list that `searchLeg` may pass:
providers in order, one airport, one local date. A flight is the fields that are
read. The day of the key is that of UTC, as in the code.

### Adapters, MCAdapters, AdaptersProofs

`Fetch` of the four adapters. The airlines are the environment: they fly `Trips`
and list them with mistakes drawn from `Faults`, the ones the code is written for.
`Flown` says what a trip is, `Answers` whether it was asked for, and both are
independent of the code that reads listings; `wanted` is the history that the
properties compare with the result. Abstracted: a trip has one stop at most, a
legal listing tells one price, time is in minutes, and the four formats share a
record of which each adapter reads its own fields. Cities, aircraft, amenities,
baggage and codes are copied by the code and left out. `time.LoadLocation` fails
only for an unknown zone name; a host without a zone database is not modelled.

### SearchLeg, Search, Service, MCService, ServiceProofs

`SearchLeg` has what a leg of a search is, without any state: bodies, `Validates`
(every check of `Validate` in its order), `WithDefaults` (the cabin it fills in),
`Inbound` (the way back), `Key`, and what a leg is answered with. `Search` and `Service`
both extend it.

`Key` is what `strings.Join(parts, "|")` tells. The parts are strings of the client:
`Validate` asks nothing of a cabin, and of airports only that they are there and differ
as typed, so each may have bars of its own, which `Join` does not escape. A key
is therefore the parts of all the parts in a row: `Split` is the parts of a string
between its bars, `Printed` the number of passengers as printed, and all that is assumed
of either is that different arguments have different values. Legs that are different
searches can have one key: a search for one leg in the cabin `economy|2025-12-20` and
the first leg of a round trip in `economy` that returns that day. `Plain` legs, without
bars, cannot. No airline has a flight for a leg that is not plain (`Sold`).

`Search` is the promise of the service, which knows of no array: a body is refused or
accepted, then each leg is answered at one instant, from an entry that is stored
(`FromCache`) or from the airlines (`FromAirlines`, which stores what they answered),
and the reply is the answers to the legs in their order. Entries go at any time.
An entry serves every leg with its key, another search than the one it was fetched for
included, and requests that find nothing at once each fetch: the promise is no stronger
than what the code keeps.

`Service` is the code: concurrent requests from the body to the reply. It composes the
promises of two other components: a fetch is one step with the outcomes of `FanOut`,
and the cache is `ExpiringMap` with its clock abstracted to `Expire`, which may happen
at any time. Slices are names of arrays in `heap`, because sharing an array is what can
go wrong: `Filter` compacts its input in place and allocates a new array, `Rank`, `Sort`
and `Format` write into elements. One predicate and one sort field stand for all of them
(`Presentation` has the others); `basis`, the set a score is relative to, stands for
the score. `InOrder` and `StableSorts` pick the elements that are kept, and a stable
order of them, as permutations of positions.

`ImplementsSearch` is the refinement. `Decided` is what a request has been promised: the
responses of the legs it has finished and, from `Hit` or `Store` on, that of the leg it
presents: what was fetched, and not the array that is made of it; `Entry` is a stored
entry without its array. So `Hit` and `Store` are
the instants at which a leg is answered, everything between them and the reply is a stutter, and the refinement fails as soon as one request writes to an array of another.

### Presentation, MCPresentation, PresentationProofs

What the four steps of `applyPresentation` compute, on one list. `ApplyPass` is a
pass of the loop of `filter.Apply`, which reads and writes one array; `Matches` has
every predicate. `Score` is `Rank` in exact fractions of 1/10000, rounded once as
`math.Round` does. `SortPass` is a pass of the insertion sort that
`sort.SliceStable` runs on up to 20 elements, with the order `Less` that `Sort`
hands it; for more it merges sorted blocks, which ends in the same order. `Rupiah`
is the grouping of digits (of amounts of nine digits at most). A pointer of the
JSON body is a set with one element at most. `Listed` says what a list of one fetch
is: flights with ids of their own, and numbers that are not negative, as
`Flight.Validate` sees to; the weights are any numbers that are not all zero. `MCPresentation`
has the lists and the 23 requests: each filter alone and
several together, windows that wrap midnight, every sort field in both directions.

### Server, ServerProofs

The process: `startAirlineServers`, `cache.New`, the goroutine for signals,
`ListenAndServe`, `Close`, and what net/http does on their behalf, as far as an
interleaving can tell (`listen`, registering the listener, accepting; `inShutdown`,
closing listeners, waiting for `Serve`, closing connections). net/http is not under
`src/`; these definitions follow its documented behaviour and are on lines of
`main.go` that call it. `cut` is a history of connections closed under a handler.
A start that fails (`log.Fatalf`), a TTL that makes `time.NewTicker` panic, and a
signal before `signal.Notify` are other ways for the process to end.

## Runs

| Run | Distinct states | Bounds, and why they are enough |
|---|---|---|
| `limiter` | 58,632 | Three callers, burst 2, four ticks; a tick earns 2/3 token. Three callers for two tokens make a woken one lose its token to another; the fraction makes it wake early; four ticks empty the bucket and fill it again. |
| `aggregator` | 45,225 | Two providers, the two retries of `DefaultConfig`. Two goroutines already interleave in every way that the WaitGroup and the shared parent context can tell apart. |
| `cache` | 79,522 | Two keys, so that a sweep has a choice; one reader, as readers do not affect each other; TTL 2 and a clock to 6, so that an entry expires, is swept, is stored and expires again. |
| `calls` | 288,747 | Two searches at a time, one after another, up to tick 7; burst 1, so that they queue at once; two thirds of a token a tick; a timeout of 6, long enough for three attempts with their delays, and too short for them in a queue. Deadlines in a backoff, in flight and in the limiter all happen, as does a call that sends nothing. |
| `service` | 617,388 | Up to symmetry of the two requests, which is sound as no liveness is checked there. Two requests out of eight kinds that validate (plain, typed in other case with a filter, round trip, its way back alone, another day, two people, an airport to itself in two cases, and one whose cabin has a bar, with the key of the round trip's first leg), five that do not, and a body that cannot be decoded. Two airlines in an order that both sort orders must check. |
| `presentation` | 67,818 | Every list of up to five flights (five, for a filter that drops one between two it keeps, twice) under 23 requests. |
| `dedup` | 547,393 | Every list of up to four listings: long enough for a flight to be replaced twice around another one. Two timestamps on one local and two UTC days. |
| `adapters` | 8,896 | 38 trips that differ from a good one in each respect that is looked at, every mistake but a missing zone, up to three flights kept with dropped ones between them. A day has six minutes and airports are one or two ahead of UTC, so local dates differ from those of UTC. |
| `server` | 4,458 | Three connections, one for each state that `Close` treats in its own way (queued, idle, busy); two airline servers; a TTL of zero and one that is not. |

What they show:

* `limiter`: `RateBound`, `NoIdleToken`, and `WaitReturns` (liveness).
* `aggregator`: `WaitGroupCounts`, `ReturnedComplete`, `OutcomeJustified`,
  `OneLateToken`, `AggregateReturns` (liveness), `ImplementsPromises` (refinement of
  `FanOut` with its fairness, and of `RetryLoop`).
* `cache`: `HitWasCurrent` and `MissJustified` (action properties), `ImplementsMap`
  (refinement), `ExpiredSwept` (liveness). `MissJustified` is as strong as the code
  allows: a key refreshed in time can miss once, because of the unlocked check.
* `calls`: `ReturnsInTime`; `AirlineLoad` (retries of all searches together stay
  within the rate); `TimeoutMeansQueue` (the timeout is long enough for the retries,
  if nobody queues); `StarvedByOthers` (while a call waited that sent nothing, all
  that the rate earned went to others, but for one token; a tick after which a token
  is there earns up to `Rate` - 1 units too many for it, which the cap may drop);
  `ImplementsPromises` (refinement of `Limiter` and of `RetryLoop`).
* `service`: `CacheStaysRaw`; `RepliesFaithful` (each leg of a reply shows the flights of
  one fetch that its own filters keep, in its own order and scored against each other,
  with the criteria and the counters of that fetch; the fetch was made for a leg that
  some request asked for under the same key, which is the same search up to case unless
  one of the two has a bar); `ImplementsSearch` (refinement). Neither says that a reply
  has flights of the leg it is about: with a bar it may not.
* `presentation`: `FlightsShown`, `PricesSaid`, `ScoresFair`, `SortedAsAsked`,
  against definitions written from the documentation (`Wanted`, `HoursOf`, `NoWorse`).
  `ScoresFair` also says what the cheapest and shortest flight scores, in lists with and
  without a direct flight: 1 less what its stops cost on a scale from zero to the most in
  the list, up to the rounding. So it scores 1 only when it is direct.
* `server`: `CleanExit` and `SignalStops` (liveness).
* `dedup`: `KeepsCheapest` and `InOrderOfAppearance`, after every pass and not only
  at the end. The loop ends, hence no deadlock check.
* `adapters`: `NothingInvented` and `NothingMissed`. `Fetch` returns, hence no
  deadlock check.

Every run also checks the type invariant of its module.

### Where the code and its words disagree

| Run | What the code does | What the repository says |
|---|---|---|
| `adapters_no_zone` | A Lion listing without a zone is read as UTC: `LoadLocation("")` is no error, so the airport table is never asked (`lion.go:96-99`). A bug: the flight is seven hours off. | `README.md:216`, `lookup.go:2-3`: the table is the fallback for exactly that |
| `service_timeout` | A search in which every provider timed out is answered 200 with no flights, and cached (`service.go:94-126`). | `handler.go:43-45`: "504 if the search times out" |
| `server_graceful` | `Close` closes the connections of requests in flight, and `main` returns without them (`main.go:61-69`). | `README.md:224`: "in-flight requests finish before the process exits" |

Read but not shown by a run:

* The day of the key of `Dedup` is that of UTC (`merge.go:22`), so two listings of one
  flight on one local date can both stay; `README.md:206` says it "works correctly
  across timezone-aware timestamps".
* Different searches can share an entry (`cache.go:76-88`): the parts of the key are
  joined without escaping, and `Validate` (`search.go:66-90`) lets bars through.
  `cache.go:2-3` and `README.md:204` have responses keyed on the search
  parameters. Whoever comes first leaves its flights, or none, to the others for a TTL. `MCService` has such a pair;
  `RepliesFaithful` and `Search` allow what it does, as they state what the code
  keeps, and `Plain` marks where that is less than the words say.
* Two requests that miss at the same time both fetch (`service.go:85-94`);
  `cache.go:4-6` says that they "share a single upstream fetch". `Search` allows both
  (`FromAirlines`); the later one to store replaces the other's entry.
* The result of a search whose airlines failed, ran out of time, or were cancelled by a
  client that left, is cached like any other (`service.go:98-115`), and served for
  a TTL. No property forbids it: `Fetches` has every outcome of the airlines, and the
  counters that a hit repeats tell how many answered.
* A hit repeats the criteria as the request that stored the entry typed them
  (`service.go:86`); `search.go:93-94` says that they echo the request's parameters.
  `RepliesFaithful` has them equal up to case, and for plain legs only.
* `README.md:208` and `ranker.go:22-24` have the best flight score 1 on each dimension;
  stops are scaled from zero (`ranker.go:54`, `ranker.go:72`), so without a direct
  flight none does. `ScoresFair` states what the code gives.
* Hour windows compare hours of UTC and include the whole last hour
  (`filter.go:69-76`).
* An airline handler whose client has left writes all the same: `ServeHTTP` ignores
  how `sleep` ended, against `airlinemock.go:20`. Nobody sees what it writes.
* `Validate` compares airports before anything folds their case (`search.go:70`), so
  a search from an airport to itself passes in two cases.
* A retry whose backoff ends together with the deadline may still take a token
  (`OneLateToken` bounds it), although `README.md:220` gives up "as soon as" it hits.
* `-cache-ttl 0` makes `time.NewTicker` panic in the sweeper.

## Fairness

* `Limiter`: weak fairness of the critical section, of parking and of the timer:
  `sync.Mutex` and the Go scheduler starve nobody for ever. Weak fairness of
  `CtxDone`, since every context that reaches `Wait` has a deadline
  (`aggregator.go:108`). Strong fairness of `GiveUp`: a select with several ready
  channels picks one at random, so not always the timer.
* `Aggregator`: every goroutine that can run does, and timers fire. Nothing is
  assumed of the airlines (`FetchOk` and `FetchFailed` are not fair), nor of the
  limiter while the context is live.
* `Cache`: the clock, the ticker's receiver and the sweeper make progress; an
  RWMutex lets no new reader in before a waiting writer.
* `Server`: weak fairness of `main`, of the goroutine for signals and of the sweeper:
  the Go scheduler runs them when they can go on. Nothing is assumed of clients,
  handlers or signals.
* `Calls`, `Dedup`, `Adapters`, `Service` and `Presentation` have no liveness property
  and no fairness. In `Calls` the clock stops for work that is due, so that being
  in time is a safety property.

## Proofs

All of the following hold for every value of the constants that satisfies the
named assumption of the module; each invariant below was first checked by TLC.

| Theorem | Argument |
|---|---|
| `CallsProofs`, about `Limiter`: `TypeCorrect`, `RateIsBounded`, `NoTokenIsIdle` | `RateBound` speaks of past grants only. `Ledger` relates each to the present: the grants since then plus the tokens left are at most the burst plus what the rate has earned until the last refill. `Deficit` says that a sleeper's timer fires no later than the bucket reaches one token, whatever others take. |
| `CallsProofs`: `UsesLimiter`, `GrantsAreBounded`, `CallsTypeCorrect`, `DeadlinesAreKept`, `LoadIsBounded` | Each step of a search is a step of `Limiter` or leaves its variables alone (`StepOfLimiter`); so the theorems about `Limiter` hold of the tokens that all searches get together. The clock passes a deadline only when nobody has yet to notice it (`InTimeStep`), and no other step moves it (`StepInTime`). `AirlineLoad` speaks of past requests only; `SendLedger` adds the tokens that are left and those that are taken and not yet spent (`Pending`), for which no time passes (`PendingNow`). |
| `CallsProofs`: `TimeoutsMeanQueue`, `DefaultTimeoutIsEnough` | For every configuration in which the timeout has room for the retries. `Enough(d, spent)` says so with a schedule: attempt n begins at most `spent[n]` after the call, and each answer, `d` after its request at most, comes before the deadline. `OnTime` keeps a call that the limiter has not deferred to that schedule, so it cannot be at its deadline. `DefaultTimeoutIsEnough` has the schedule for `DefaultConfig` and the four mock airlines (0, 500 and 1100 ms of 2000); the constants of `MCCalls.cfg` have one as well. Where the timeout is shorter than the retries take, `TimeoutMeansQueue` is false. |
| `CallsProofs`: `StarvationIsByOthers` | From the first call of `Wait` on, what the rate has earned is among the grants to others or in the bucket (`Starving`): nothing is lost to the cap while somebody waits, since nobody sleeps on a token (`NeverIdle`), but the part of the last tick that a full token cannot use (`PerToken`, `Left`). It takes `Capacity >= 1`: a bucket too small for one token starves everybody and grants nothing. |
| `CallsProofs`: `RefinesRetryLoop`, `KeepsPromises`; `AggregatorProofs`: `RefinesRetryLoop` | Every step of a call is a step of `RetryLoop` or stutters (`StepOfLoop`), a step of one call leaves what the others are mapped to alone (`MappedStep`), and each of the many ways to end is one of three (`LoopReturns`, `LoopAbandons`). In `Calls` the type invariant is enough; `Aggregator` needs `Fresh`, that a goroutine which has yet to call has no attempt behind it and one in the loop has a context. `KeepsPromises` joins it with `UsesLimiter`. |
| `AggregatorProofs`: `TypeCorrect`, `WaitGroupCorrect`, `ResultsComplete`, `OutcomesJustified`, `LateTokens`, `RefinesFanOut` | `WaitGroupCounts` is inductive over a finite set of goroutines; with `Launched` (after the loop all exist) a zero counter gives `Joined`. `Slots` says when a slot is written. `Decided` and `CtxOrigin` make `OutcomeJustified` inductive, and `LateLeaves` says where a goroutine with a late token can be. |
| `CacheProofs`: `TypeCorrect`, `RefinesMap`, `HitsAreCurrent`, `MissesAreJustified` | A sweep removes nothing that is valid since its clock value is not later than the present (`SweepIsInvisible`); so each step is one of the map or a stutter. `ReadWasSeen` ties the entry read under the lock to the history of the `Get`. |
| `ServiceProofs`: `RawStaysRaw` | `CacheStaysRaw` is about what is cached; `RawInv` follows an array from its fetch to the cache: one that is made is new (`NotMade`), what is stored is what was fetched (`MadeRaw`), and what a request writes to is never a raw array (`OwnCopy`), so nobody writes to one again. |
| `ServiceProofs`: `TypeCorrect`, `RepliesAreFaithful` | For any number of concurrent requests and airlines. `CacheOk`: an entry has the flights of a fetch for the criteria it repeats (`FetchedFlights`). `ThreadsOk`: at each place, the array of a request is as far as `Presented` says for that place, and a finished leg (`LegDone`) stays so, because only its owner writes to an array that is not raw (`ThreadsFrame`, `OtherKept`). `RepliesOk` is what remains of it once the reply is written. Which leg a response was fetched for is an invariant of its own: each one, in the cache (`CacheFrom`) or in a request (`ThreadsFrom`), has an `Origin`, a leg with its key among those asked for so far (`Asked`), a set that only grows (`AskedGrows`). Nothing is assumed of keys but how they are joined: `PlainKeys`, that plain legs with one key are one search up to case, follows because a plain part is one part of the key and `Split` and `Printed` lose nothing. |
| `ServiceProofs`: `RefinesSearch` | Every step of the service is a step of `Search` or stutters (`SearchSteps`, by a lemma for each kind of step). `LegNow`: the leg a request looks up is the first one that is not yet decided. `DecidedStep`: a step of one request changes nothing of what another was promised. `SearchPresents`: while an array is filtered, ranked, sorted and formatted, what was decided of its leg does not change, and `SearchFinish` finds the array as it was decided. What is promised of keys and fetches is what `Search` says: an entry serves all legs with its key, and two requests that miss at once each fetch. |
| `ServerProofs`: `TypeCorrect`, `ExitIsClean` | For any number of connections, airline servers and TTLs. `ExitOk`: `main` returns only when both `Serve` and `Close` are over. `CloseOk`: once `Close` is over nobody accepts any more and no connection is served, because `inShutdown` was set before it looked at anything. `PortOk`: the port is open only while `Serve` has yet to return, and a connection waits in the kernel only for an open port; this is what leaves nothing open when a signal comes between `Listen` and `Track`. |
| `DedupProofs`: `TypeCorrect`, `CheapestIsKept`, `OrderIsKept` | For lists of any length: `BestPoints` (the map points at the element with its key), `OutCheapest` (each element is the first cheapest of those seen) and `BestOrdered` (positions follow first appearance) are kept by each pass. |
| `AdaptersProofs`: `TypeCorrect`, `NothingIsInvented`, `NothingIsMissed` | Under `Recoverable` (no listing lacks its zone; both ends of the request are in the airport table), a legible listing of a trip normalizes to the trip (`NormalizedIsTrue`) and is kept exactly if the trip was asked for (`KeptIsAnswer`); so `out = wanted` is invariant. Without `Recoverable` the run `adapters_no_zone` is the counterexample. |
| `PresentationProofs`: `FlightsAreShown`, `NothingIsOverwritten`, `TypeCorrect` | For lists of any length and any filters. `NothingOverwritten`: `Apply` has kept no more than it has read, so what it has still to read is as it was found. `KeptMatch`: the first `kept` elements are the matching ones among the first `read`, in their order. `ArrayMatches`: from then on the array is a permutation of those, because a pass of the sort moves one element over the others (`Insertion`, `Permutation`). The tests of `Matches` are the documented ones (`MatchesIsWanted`, `WindowIsHours`). |
| `PresentationProofs`: `OrderIsAsAsked` | `PrefixSorted`: what the sort has read is in the order asked for, the rest is as found and was found later, so an insertion that stops at an equal flight keeps ties as they were found. |
| `PresentationProofs`: `ScoresAreFair` | The rounded score is monotone in each dimension for any weights (`WeightedSums`, `TermMonotone`); `Scored` keeps it through the sort and the formatting, neither of which changes the set it is relative to. The loss of the cheapest and shortest flight: its terms for price and duration are whole, so score and share of stops add up to the sum of the weights (`SumAndLoss`, `Cancel`), and the one rounding moves that by half a unit at most (`DivBounds`, `RoundedLoss`); the scale for stops is that of the list (`MostStops`). |
| `PresentationProofs`: `PricesAreSaid` | For prices of nine digits at most, the range of `Digits`. Each digit is what an amount has over ten times the rest (`NextDigit`); the first group says what is over the others, and each other adds its three places (`FirstGroup`, `OtherGroup`), which sum to the amount (`RupiahSays`). |

The bound of a clock or of a list (`MaxTime`, `MaxFlights`) is a constant like the
others and may be any number.

Only model-checked: the liveness properties `WaitReturns`, `AggregateReturns`,
`ExpiredSwept` and `SignalStops`, and the fairness half of the refinement of `FanOut`
(`RefinesFanOut` proves its safety half), since liveness under fairness is out of
the prover's reach. Every safety property of a passing run is a theorem.

## Not modelled

* Strings as such: wording of errors, logging, JSON and its decoding but for whether
  it succeeds, rupiah with a minus sign (`Flight.Validate` excludes it) and other
  currencies.
* The rounding of float64: of the bucket, and of a score before its one rounding to
  four digits.
* Cities, aircraft, amenities, baggage, names and codes, which adapters copy.
* Routing, the health probe, and the addresses that the airline servers get.
* A host without a zone database, and changes of its wall clock: net/http, the
  cache and the limiter use monotonic time.

## Plan

The order followed: what is concurrent and shared first (`Limiter`, `Aggregator`,
`Cache`), then what composes it (`Service`, `Calls`), then the sequential algorithms
with a specification of their own (`Dedup`, `Adapters`, `Presentation`), and the
process around it all (`Server`), and last the specifications that join them
(`Search`, `RetryLoop`). Each component is modelled, and every safety property that a
run checks is proved. What is left is what "Not modelled" lists.
