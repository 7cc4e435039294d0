# A TLA+ model of ip.unt1.com

This directory is a verification project for the Go service in `src/`: TLA+
modules that model its concurrent and stateful parts, TLC configurations that
check them on small instances, and proofs that TLAPS checks for every value of
the constants. `PROJECT.json` ties every definition to the lines it models,
every property to the hazard it is about, and every theorem to its module.

    tlc -workers 2 -config MCTTLCache.cfg MCTTLCache     # one of the runs
    tlapm TTLCacheProofs.tla                             # one of the proofs

## 1. Inventory

The service answers "what does the Internet know about this address". One
process holds all of its state in memory; every HTTP request is a goroutine.

| Part | Source | State | Operations | Used by |
|---|---|---|---|---|
| TTL cache | `cache.go` | entries, in-flight calls, one mutex | `Do`, `Get`, `Len`, `evictLocked` | ASN resolver (twice), WHOIS |
| ASN resolver | `asn.go` | two TTL caches, address and AS | `Lookup`, `resolve`, `lookupOrg` | `gather` |
| WHOIS | `signals.go` | a TTL cache, a semaphore of 4 | `Lookup`, `queryWhois` | `Augment` |
| Rate limiter | `ratelimit.go` | one bucket per client, one mutex, a cap | `Allow`, `evictLocked` | `targetIP` |
| List refresh | `vpn.go` 270-393 | the snapshot (an atomic pointer), `loadedAt` (another) | `runRefreshLoop`, `refresh` | its own goroutine |
| Snapshot construction | `vpn.go` 395-460 | none: a snapshot is immutable once stored | `buildSnapshot` | `refresh` |
| Range index | `cidrindex.go` | sorted ranges per family | `buildCIDRIndex`, `sortMerge`, `Lookup` | `buildSnapshot`, `Check` |
| Verdict layers | `vpn.go` 134-268, `main.go` 1055-1133 | none | `Check`, `Augment`, `classifyVerdict` | `gather`, page |
| Request pipeline | `main.go` 201-600 | none of its own | `inspect`, `targetIP`, `gather`, `data` | every handler |
| UA log deduplication | `ua.go` 10-55, `main.go` 602-622 | two bounded TTL sets, a mutex each | `firstSeen`, `recordUA` | `data` |
| User agent and hints | `ua.go`, `main.go` 335-440 | none | `parseClientHints`, `parseUA` | `data` |
| Lifecycle | `main.go` 106-199, `deploy/ipunt1.service` | the context of the process, the listener, the connections | `main`, `Shutdown`, the unit's restart | systemd unit |
| WebRTC probe | `web/index.html` 780-878 | candidates found so far | callbacks and a timer | the browser |
| Feeds | `relay.go`, `vpn.go` 462-554 | none | `get`, six fetchers | `refresh` |
| Pure helpers | `netutil.go`, `colo.go`, rendering | none | tables and string functions | `gather`, handlers |

How they interact:

    request --> inspect --> targetIP --> Allow            (one mutex)
                              |
                              v
              asn.Lookup --> address cache --> organisation cache   (nested Do)
                              |
                              v
              vpn.Check  --> snap.Load()      <--- refresh loop: snap.Store
                              |                       ^
              reverse lookup  |                       | 6 fetch goroutines,
                              v                       | one buffered channel
              Augment --> whois.Lookup --> cache --> semaphore --> port 43
                              |
                              v
              parseUA --> recordUA --> firstSeen      (two sets, a mutex each)
                              |
                              v
              answer, vpnLoadedAt()           <--- refresh loop: loadedAt.Store

    SIGTERM, SIGINT, listener error --> ctx done --> main: Shutdown, at most 5 s
                                           |             --> return 0 --> unit down
                                           +--> refresh loop: its fetches fail, it ends
    panic, memory limit --> process dies --> systemd restarts it, with nothing

Nothing is written to disk: a new process begins with empty tables, and is
expected to serve at once. What is hard to get right is mostly interleaving and
order: the critical sections of `Do` with `fn` between them, goroutines that read
the time before they take a mutex, waits inside waits, a snapshot that is replaced
while a request waits for DNS, feeds that fail one by one, map iteration, an
in-place merge, and a server that drains while its loop still runs. `PROJECT.json`
lists each hazard at its line.

What makes each part correct:

* TTL cache: one `fn` per key at a time; an answer is fresh when it is given; a
  waiter's call is always finished by somebody; the cap holds, and live entries
  go only after expired ones; every call returns.
* ASN resolver: no circular wait; one organisation query per AS at a time; a
  failure is not kept as long as an answer.
* WHOIS: at most four queries; a slot comes back on every path; whoever waits does so
  for somebody who is on its way; only an answer is kept for a day.
* Rate limiter: never more than the burst plus the refill of the real time that
  has passed, however the goroutines interleave; each answer is the one of a limiter
  that has one time, within the longest wait for the lock; a refusal is free; the map
  is bounded, and forgetting spares those who are throttled when it can.
* Refresh: a feed that fails or answers with nothing keeps its last good data; a
  ready snapshot is never replaced by one that is not; a refresh ends, although
  nothing is received before everything is sent.
* Snapshot: a function of the data, whatever the order of iteration; its tables
  do not contradict each other.
* Range index: answers exactly as a linear scan of the published list would.
* UA log: each set stays within its cap, although the eviction deletes from the map
  it ranges over and one deletion has to be enough; a text is logged again early
  only after a flood of others.
* User agent: a browser is named as itself, with hints and without, whatever order
  its brands come in; and the system it is said to run on is its own, but for some
  Androids (section 5).
* Lifecycle: no request that began before the drain is cut before the grace period is
  over; the process ends when told to; after a crash it listens again although it has lost its lists.
* Request: the verdict comes from one snapshot and is what the evidence calls
  for; metering and the country tell one's own address from another's, whatever form
  either comes in; readiness
  once shown is not taken back.

## 2. Modules

| Module | Models | State and actions |
|---|---|---|
| `TTLCache` | `cache.go` | `m` and `inflight` are the maps of the struct. A caller is a goroutine in `Do`: `Hit`, `Join` and `Lead` are the three ends of the first critical section, `Publish` is `fn`'s return and the second one (with `evictLocked`), `Close` is `close(ch.done)` after the unlock, `Return` the return. |
| `LookupService` | what callers of `cache.go` may rely on | abstract: a pending question per caller, whether a query for a key runs, the answers that can still be given. No table, lock, channel, leader or cap. |
| `RateLimiter` | `ratelimit.go` | `Enter` reads the clock before the lock; `Admit` (with eviction), `Take` and `Refuse` are the critical section. Tokens are counted in what one tick refills. Three fields of a bucket are history: `born`, `spent`, and `full`, the time at which a limiter with one time would have it full again. |
| `LimiterService` | what callers of `ratelimit.go` may rely on | abstract: what a caller asks, its answer, who is remembered, and a meter per client that a grant fills and time empties. No lock, no bucket, one time. |
| `WhoisCache` | `signals.go` 100-230 | a `TTLCache` by `INSTANCE`, whose `fn` has the stages queue, dial, read. `Acquire`, `GiveUp` are the select; `Connect`, `QueryReturns` the query. |
| `AsnResolver` | `asn.go` | two `TTLCache` instances, `Addr` and `Org`; the `fn` of the first calls `Do` of the second. |
| `Goroutines` | what `WhoisCache` and `AsnResolver` share | the goroutines of the process and the clock they read; no steps. |
| `VpnRefresh` | `vpn.go` 270-393 | the loop's `pc`, a goroutine per feed, the channel, the snapshot's sources, `loadedAt`. `Publish` is everything from `wg.Wait` to the `Store`. |
| `Lifecycle` | `main.go` 106-199, the unit file | extends `VpnRefresh`: the loop runs inside a process with a listener, connections and a unit. A connection is accepted (`Accept`) before its first request (`Request`), and may still be without one when the server drains. `ListenerFails` and the loop's `Stop` end the context, `Drain` and `MainReturns` are the two ends of `Shutdown`, `Crash` and `Restart` the faults. |
| `VpnSnapshot` | `vpn.go` 395-460 | the three loops, one step per relay, feed and address; the last one visits the addresses in any order. |
| `CidrIndex` | `cidrindex.go` | the array `rs` and the write cursor `w` over it, one step per range merged; a lookup is one step per probe of the bisection. |
| `Verdict` | `vpn.go` 134-268, `main.go` 1055-1092 | operators only, one per layer. |
| `Request` | `main.go` 201-600 next to the loop | one step for each thing a request waits for. A `netip.Addr` is an address in one of its forms: values are compared with their form, and `CanonicalIP` is applied where the code applies it. `Publish` and `MarkLoaded` are the two stores of the loop, `Ready` the `/ready` handler. |
| `UserAgent` | `ua.go` 57-284, `main.go` 335-440 | operators only: the choice of a brand from the hints, and `parseUA` over its tables, in their order. A string is the set of words the tables look for; `#` in a word stands for a version. |
| `UALog` | `ua.go` 10-55, `recordUA` | both sets; `Record` is a request parsed and recorded, `Visit` one turn of the eviction loop, in any order, `EndScan` its end. |

`MC...` modules give constants their values and symmetry sets; each `.cfg` is one
run. `...Proofs` modules hold the theorems. `Verdict` and `Request` take from the
other modules what is proved there: `Possible` holds of the tables that
`VpnSnapshot` makes (`TablesFitCorrect`), the loop next to the requests is an
abstraction of the one of `Lifecycle` (`LoopServesRequests`), and lookups and
`Allow` return anything, so that whatever `AsnResolver`, `WhoisCache` and
`RateLimiter` return is among it.

`TTLCache` implements `LookupService` (`Implements`): a caller's question is its
`key` and `start`, a query runs while the key has a leader, and what is known are
the entries of the map, what a leader has got and not yet handed on, and what
followers are about to take. The service says what coalescing and expiry must not
break: a caller gets an answer to its own question that is newer than the question
or was still within its TTL at the question.

`RateLimiter` implements `LimiterService` (`Implements`), with `MaxSkew` for its `Slack`:
the meter of a client is `full` less the time. A bucket is refilled from times that
goroutines read before they waited for the lock, so that its `last` goes back and forth;
the service says that this moves no answer by more than the longest such wait, and that
none of it adds up. With a `Slack` of zero it is refuted: a late goroutine is refused
what one with the current time would get.

Operators whose comment begins with "Mutant:" are not part of the model. Each is
a plausible mistake in the code, written as a replacement of the definition that
follows it; `PROJECT.json` names the property that refutes it.

## 3. Runs

| Run | Instance | Shows |
|---|---|---|
| `cache` | 3 goroutines, 3 keys, cap 2, clock to 2 | `SingleFlight`, `Fresh`, `NoWastedQuery`, `Bounded`, `EvictLiveLast`, and `Implements`: the refinement |
| `limiter` | 2 goroutines, 3 clients, cap 2, times up to 1 tick old, clock to 5 | `Budget`, `RefusalIsFree`, `EvictionSparesTheActive`, and `Implements`: the refinement |
| `whois_safety` | 3 goroutines, 2 networks, 1 slot, clock to 3 | `SlotsReturned`, `HeldBriefly`, `OnlyAnswersLast`, `QueueEnds` |
| `whois_liveness` | the same, no clock | `EveryLookupReturns` |
| `asn_safety` | 3 goroutines, 2 addresses of one AS, caps 1 | `WaitsEnd`, `OneOrgQuery` |
| `asn_blip` | 2 goroutines | violated: finding 1 |
| `lifecycle` | 2 feeds, 2 refreshes, 2 connections, grace of 2 ticks, 1 crash | `LastKnownGood`, `StaysReady`, `RefreshEnds`, `NoneCutYoung`, `StopEnds`, `ServesAgain` |
| `refresh_mark` | 2 feeds, 2 refreshes | violated: finding 2 |
| `cidr` | 8 addresses, 2 sources, every list of up to 3 prefixes | `TypeOK` (the cursors of the merge), `Disjoint`, `NothingLost`, `MatchesLinearScan` |
| `snapshot` | 2 feeds of up to 2 relays, exits, 4 addresses in 2 nets | `Resolved`, `Agreed`, `ReadyMeansData` |
| `request` | 3 addresses in 2 forms each, one not routable, 2 refreshes, all that can be told of an address | `StampFollowsEvidence`, `ProviderOfBestEvidence`, `OneSnapshot`, `OwnIsUnmetered`, `CountryIsTheTargets`, `ToldMeansReady` |
| `ua` | 20 agents, both sets of 2 places, a TTL of 2, clock to 4 | `Bounded`, `ForgottenByFlood`, `NamesItself`, `SamePlatform` |

The types of the other modules are lemmas of their proofs (section 4). Two invariants
that these proofs rest on are not checked on a run of their own, for a property of a run
contains them: `NoOrphan` of `TTLCache` is in `QueueEnds`, and `Bounded` of `RateLimiter`
in `Implements`, whose service remembers no more than `Max` clients.

### Bounds

* Three goroutines in the caches: a leader, a follower, and one that comes
  between the critical sections. Several keys make a follower of one key meet the
  leader of another. `cache` has three keys and room for two, the fewest with
  which an entry that has expired competes with two live ones, one of them just
  stored.
* The clock stops where every TTL of the instance has passed at least once
  (`MaxClock`), except in `whois_liveness`, where time need not pass: an entry that
  does not expire is the case with fewest returns by a new query. In `asn_safety`
  only failures expire; the age of an answer is not what its properties tell apart.
* `whois_safety` has a dial and a read timeout of one tick each, and three ticks: a
  query that outstayed both would still be there at the third.
* `MaxSkew` bounds how long a goroutine waits between reading the time and the
  lock; in `limiter` it is half of a token's refill, so that an old time can cost a
  token or regain one and the slack of `Implements` is less than a grant. The clock goes
  to 5, past the age at which a bucket is idle (twice the burst, 4). Three clients for
  two buckets forget each other.
* `lifecycle`: two refreshes (`MaxRounds`) are one that loads, in full or in part, and
  one that finds something to keep or is cut short; that nothing wears off in the
  third is `LastKnownGoodCorrect`, for any number. Two connections are a request that is
  waited for and one that comes meanwhile. A grace period of two ticks tells a request
  that had all of it from one that had some. `MaxCrashes` is one: a second crash finds
  what the first did, for `Die` leaves nothing.
* Ranges: three bits have every relation two prefixes can be in (equal, inside at
  either end, adjacent, apart, ending at the highest address), and three entries
  let an append overwrite a place that has been read.
* Snapshots: three addresses in a net are needed for a net that is "multi" to be
  visited once more.
* `request` has the requester's own address, one it asks about, and one of a private
  network, of both families, each also mapped or with a zone, and a snapshot that tells something of one of them; `MaxRounds` is two,
  lists that come and lists that change. Requests share the snapshot, `loadedAt`
  and the caches and limiter of the other modules; with these abstracted, one
  goroutine that serves request after request meets every order of its own steps
  and the loop's. The proofs are for any number of them.
* `ua` has one agent for each row of the tables that a string of another row could
  be taken for, three Androids that their texts show in part, every order of their brands, three GREASE brands (one with a semicolon
  inside its quotes, one with no underscore), and strings nothing is known of, three
  for two places.

Deadlock is checked wherever the system goes on for ever. It is switched off for
`lifecycle` and `refresh_mark`, whose unit may stay down and whose refreshes are
bounded, and for `cidr` and `snapshot`, which are computations that end.

### Fairness

Fairness is on the steps that the Go runtime, a timeout or systemd drives, never on
a client's wish to call or to hang up, nor on a handler's return.

* `WhoisCache`: weak fairness of each goroutine's way out of `Do`, weak fairness of
  a query, which ends at its dial timeout or read deadline, and strong fairness of
  the acquisition of a slot, since the senders of a Go channel are queued in order
  of arrival. The steps of `TTLCache` are in this run, so that its callers return
  is shown there; for the two nested caches of `AsnResolver` the argument is
  `WaitsEnd` (a waiter's leader never waits for longer than one more leader) and
  the absence of deadlock.
* `Lifecycle`: `RefreshFairness`, which is weak fairness of the loop and of every
  fetch (the client has a timeout of 30 s) and send; and weak fairness of the bind,
  of `main`'s two steps around `Shutdown`, of time and of systemd's restart. The
  loop need not take the end of its context before a tick: `StopEnds` holds without
  that, because `main` waits for nobody but the server, and for it not for ever.

## 4. Proofs

TLAPS proves the following for every number of goroutines, keys, clients,
addresses and entries, from the assumptions named in each module.

* `TTLCacheProofs`. From `CacheAssumption`. The invariant behind
  `SingleFlightCorrect` and `NoOrphanCorrect` is `Flight`: `inflight` names exactly
  the goroutines that are inside `fn`, in both directions; neither direction is
  inductive alone, for `Lead` needs the one and `Publish` the other. `FreshCorrect`
  needs `Waiting` (an answer published is younger than the question of everyone
  who waits for it) and `Stored` (an entry expires its own TTL after it was
  published). `NoWastedQueryCorrect` rests on `Flight` too: nobody else stores an
  entry for the key while its leader runs. `BoundedCorrect` and
  `EvictLiveLastCorrect` are about `Survivors`. `ImplementsCorrect` is the
  refinement: each action is mapped to one of the service's or a stutter, and the
  same invariant says that what a waiter or the map hands out is known and fit to
  be given.
* `RateLimiterProofs`. From `LimiterAssumption`. The budget is not inductive:
  `Solvent` adds that no bucket is overdrawn by the real time and that what it has
  paid out and still has never exceeds its burst and the refill up to `last`;
  `Recent` bounds the age of the times that goroutines hold, which is what makes
  a negative refill recoverable. `BudgetCorrect`, `RefusalIsFreeCorrect`,
  `BoundedCorrect`, `EvictionSparesTheActiveCorrect` follow. `Fair` compares a bucket
  with the one of a limiter that has one time: its balance is never below that one's
  and at most `MaxSkew` above it. It needs no bound on how often times come out of
  order, since a balance that an old time has lowered is given back by the next
  current one. With it each action is one of `LimiterService` or a stutter:
  `ImplementsCorrect`. `BudgetSince` follows from the meter: from any moment on, not
  from a bucket's birth alone, a client is paid at most a burst, `MaxSkew` and the time
  since, until it is forgotten; its proof carries the meter at that moment through the
  rest of the behaviour (`PaidOut`, `MeteredNext`).
* `LookupProofs`. From `WhoisAssumption` and `ResolverAssumption`. Neither lookup is
  proved from its own copy of the cache: `UsesTheCache` and `ResolverUsesCaches` say
  that no step of the composition leaves `TTLCache`, so that each theorem of
  `TTLCacheProofs` holds of each cache, through an `INSTANCE` of that module, and with
  them the refinement: `WhoisIsAService` and `ResolverIsTwoServices`. Two things are
  needed for it: that the constants of the instances meet `CacheAssumption`, and that
  the outer module enables a step of the cache only with a key and an answer of its
  types, which is what the invariants below are for.
  WHOIS: `Staged` ties the stage of `fn` to the place of its goroutine in `Do`, `Held`
  the slots to the queries, `Timed` each deadline to the time its query began;
  `SlotsReturnedCorrect`, `HeldBrieflyCorrect` and `OnlyAnswersLastCorrect` follow. With
  `NoOrphan` of the cache they give `QueueEndsCorrect`: a follower's leader is at a stage
  of `fn` or about to close, and a queue is for queries that wait for nobody.
  ASN: `Nested` says that `resolve` runs exactly while its goroutine leads its address,
  and that the goroutine is in the organisation's cache exactly from the origin answer
  on, about that answer's AS. With `NoOrphan` of both caches it gives `WaitsEndCorrect`
  (whoever leads an AS leads an address as well, and waits for nobody), with
  `SingleFlight` of the second one `OneOrgQueryCorrect`. `OnlyNamesStayLost` is what is
  true of the refuted `BlipsAreBrief` (finding 1).
* `LifecycleProofs`. From `RefreshAssumption` and `LifecycleAssumption`. During a
  refresh the last good data of a feed is spread over its goroutine, the channel
  and the old snapshot; `Fetching` and `Carried` say where it is at each stage, and
  `Resting` that between refreshes it is in the snapshot: `LastKnownGoodCorrect`.
  `StaysReadyCorrect` adds that `ready` is whether any feed has data.
  `NoneCutYoungCorrect` needs that whatever a draining server still serves or waits for
  is as old as the drain: a request that began before it, or the connection of one
  that came on a connection without a request. `SendNeverBlocks` is the safety half of `RefreshEnds`: the channel
  holds what the goroutines that are done have sent, so there is room for one more.
  `LoopServesRequests` is a refinement: through crashes and stops, the loop is the one
  that `Request` has, with nobody asking. A refresh counts when it publishes
  (`rounds`), `mark` is the place between its two stores, a death is `Request`'s `Init`
  again; `Counted` shows that the two bounds are the same.
* `CidrIndexProofs`. From `IndexAssumption`. The invariant has three parts.
  `Arrays`: the write cursor stays behind the read cursor, the output is disjoint
  and sorted, and what is still to be read starts no earlier than the output.
  `Coverage`: each entry is inside a range that counts, each range that counts has
  only addresses of entries, of its own source. `Search`: the bisection has
  excluded what lies outside `lo..hi`. `LookupCorrect` is the result: `Lookup`
  answers as a linear scan would, over 2^32 and 2^128 addresses and lists of any
  length. `Attributable` (entries that overlap have one source) is part of `Init`;
  the program has one source of ranges.
* `VpnSnapshotProofs`. From `SnapshotAssumption`. `Tables` says of each address that
  it has the last relay that publishes it, of those the first loop has been at;
  `Marked` of each net that it has one of three values according to the addresses
  visited there, whichever these are. At the end everything has been visited:
  `ResolvedCorrect`, `AgreedCorrect`, `ReadyMeansDataCorrect`. `TablesFitCorrect` says of
  the finished tables what `RequestAssumption` assumes of a published snapshot.
* `RequestProofs`. From `VerdictAssumption` and `RequestAssumption`. A lemma for each
  layer says what it does to every field of any verdict, and `FinalIs` what they
  come to together. The invariant is that a request has been through certain
  layers with the facts of one snapshot it has seen (`Layered`), that the snapshots
  it has seen are no readier than the current one and are ready if it came late
  (`Watched`), and that the flags of metering agree with the addresses (`Metered`). The two values that
  are compared are canonical, and of canonical values those of one address are equal
  (`CanonicalIs`, `CanonicalEqual`): so `OwnIsUnmeteredCorrect`, which speaks of addresses
  in any form, follows of a comparison of values.
  All six properties of the run `request` follow.
* `UALogProofs`. From `UALogAssumption`. `BoundedCorrect`: a set has one entry too many
  at most, and the scan ends with a candidate unless something has expired, so one
  deletion is enough. `ForgottenByFloodCorrect` is that the candidate is the least
  recently hit of those visited, and that a text is out of the map early only if
  `Cap` others have been hit since. `AnyOrder`, about lists of any length, is that the
  brand found depends on the set of brands in a list; a least place in the list, which
  the choice of the first needs, is found through the finite sets of places up to one
  (`Least`), since the library's induction has an operator as its parameter.
  `NamesItselfCorrect` takes from `AgentsAssumption` what is data: the slug the tables
  have for a browser's brand and for its text, and that made-up brands are marked as
  such and others are not. What it adds is that no list hides the brand, in any order,
  with any made-up brand, unless the cut makes one of that.

The assumptions are evaluated by TLC in the runs of the modules that state them.

Only model-checked: all liveness (`EveryLookupReturns`, `RefreshEnds`, `StopEnds`,
`ServesAgain`), which is outside what the prover supports; of the first two the safety
half is proved, no lookup waits for a goroutine that is gone or in a circle
(`QueueEndsCorrect`) and no fetch is blocked on a send (`SendNeverBlocks`). And `SamePlatform`, which compares the
concrete tables with real strings: a theorem about any tables would have to assume it.

## 5. Findings

Places where the code does something else than a comment or a document says.

1. `README.md:68-69` of the service says that failures are cached for 60 s only.
   A failed organisation query is cached within a successful answer for 12 h
   (`BlipsAreBrief`, run `asn_blip`).
2. `main.go:94` says that `loadedAt` is set by the first successful refresh. It is
   set after every refresh, successful or not, once there is data
   (`LoadedBySuccess`, run `refresh_mark`).

Smaller ones, met while reading and without a run of their own:

* `ratelimit.go:43` says that `Allow` refuses when the bucket is empty. A goroutine
  that read the time before another one computes a negative refill and may be
  refused although the bucket holds a token. `Implements` bounds it: the refill is at
  most `MaxSkew` away.
* `signals.go:104-106` says a query holds a goroutine for up to 4 s. Dial and read
  have their own limits, which add up to 7 s; `HeldBriefly` is the bound that holds.
* `vpn.go:42` and `vpn.go:18-19` say that `hosting` goes with `vpn: false`. An
  address that a list publishes in a hyperscaler's network has both.
* `main.go:1120` has a label for the source `asn+ip-list`, which `vpn.go:49` names
  too. `Check` writes `ip-list+asn`.
* `netutil.go:11-13` says that addresses that are not routable never reach a
  resolver. The reverse lookup of a requester's own address is not guarded.
* `main.go:387-389` says that GREASE entries are skipped. An entry is cut at its first
  semicolon (`main.go:368`), also inside its quotes: of `"Not;A=Brand"` the brand
  `Not` is left, which is then the browser, unless one of the preferred list is sent
  as well. `NamesItself` excepts exactly these requests (`legible`).
* `main.go:196-198` gives requests 5 s to end. `Shutdown` keeps a connection that has been
  accepted and has not sent a request yet, and `ReadHeaderTimeout` lets it send one for
  5 s: such a first request is served while the server drains, and is cut when `main`
  returns, at whatever age. `NoneCutYoung` bounds the age of its connection instead
  (`late`).
* `ua.go:154-156` takes an Android tablet for a phone unless its text says "Tablet", which
  those of Chrome and its kin do not; their hint `?0` says no more than that it is not
  mobile, and is ignored. An Android that names no version (`ua.go:112`), as the early
  Firefoxes did, has no system. `SamePlatform` excepts these two and nothing else.
* `ua.go:94` looks for `bot` as a word of its own, so that `bingbot` and `AhrefsBot` are
  not what `main.go:603` calls one that "self-declares as automated".
* `deploy/ipunt1.service:9` restarts the service on failure. A listener that fails ends
  the process by the path of a signal, with exit code 0 (`main.go:188-191`), and the
  unit stays down: `ServesAgain` is about crashes only.
* The empty string stands for "no candidate" in the eviction of `firstSeen`; that it
  is never an entry rests on the guard of its one caller, `recordUA`.

## 6. Abstractions, and what is not modelled

* The clock is a counter; a `float64` of tokens is an integer number of ticks'
  refill. The zero time and clock jumps are left out (Go's clock is monotonic).
* Contexts of clients that hang up appear only where a select looks at them
  (`GiveUp`); a follower does not look at its own. A panic inside `fn`, which would
  leave its call in flight, has no cause in the three functions.
* `net/http` is external: `Lifecycle` has what `main` uses of it. A connection that the
  kernel has taken and the server does not track yet, and a request whose header is
  being read, count as not there: what `Shutdown` closes of these no handler has seen.
  That it takes a connection without a request for idle after 5 s is one of the reasons
  of `Hangup`. `WriteTimeout` is left
  out, since a handler goes on and returns all the same.
* The switch `IPUNT1_DISABLE_VPN`, with which the loop is not started, is left out.
* A prefix is given by its bounds: the byte arithmetic of `lastAddr` is not modelled.
* User-Agent strings are sets of the words that the tables look for, versions and
  display names are left out. Agents that send the very text of another, as Safari on
  iPadOS sends that of a Mac, are not among `Agents`: nothing tells them apart.
* The payload formats of the feeds, templates, YAML, the colo table and the dataset's
  copied fields are pure functions of strings without shared state.
* The WebRTC probe is a script in the visitor's browser, driven by callbacks of an
  API that is not part of the repository; it shares nothing with the process.
* The Caddy configuration and the editing script are outside the program.

## 7. Plan

Done, in this order: `TTLCache`, `RateLimiter`, `WhoisCache`, `AsnResolver`, `VpnRefresh`,
`CidrIndex`, `VpnSnapshot`, `Verdict`, `Request`, `LookupService` and the refinement,
`UserAgent` and `UALog`, `Lifecycle`, `LimiterService` and its refinement; the proofs of
all of them, and the theorems that
carry what one module assumes of another: both lookups of `TTLCache`, `Request` of
`VpnSnapshot` and `Lifecycle`.

Left, the most useful first:

1. Composition of `Request` with `LimiterService` by `INSTANCE`, in place of the limiter
   that answers anything: now that `RateLimiter` is shown to implement it, the meter is
   all that `Request` would need.
2. `lastAddr` as bit arithmetic, against the bounds of a prefix.
3. The callbacks and the timer of the WebRTC probe (`web/index.html`).
