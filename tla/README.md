# Swarmproof in TLA+

Specifications of the stateful parts of Swarmproof, model-checked with TLC and,
where it matters most, proved with TLAPS. Swarmproof ranks torrents by the
health of their swarms, verifies them by asking peers for the torrent itself,
streams the best one, and shares what it measured through a small control plane
on Cloudflare Workers.

## 1. The system

| part | source | state it keeps | operations | what must be right |
|---|---|---|---|---|
| verification | `swarmScout.js` `assess`, `metainfo.js` | per candidate: the address list, a cursor, open connections, the winner, the verdict | start, a connection ends, the deadline fires | a verdict rests on a proof and is given once; refutation means having asked; every call is answered |
| peer table | `peerTable.js` | per address: successes, failures, times, RTT; shared by every request | `succeeded`, `failed`, `rank`, `observe` | only serving makes an address good; bounded |
| stream server | `streamServer.js` | the ranked list, the exclusions, the abort flag, strikes, the torrents of one WebTorrent client | `play`, `abort`, `destroy`, racers' events, the stall timer | it is a player of one torrent: races run alone, failover moves on, every `play()` settles |
| playback | `streamServer.js` | the torrent's critical pieces, the response being read | `GET /v1/stream` | a range is answered to the byte; what the player waits for is urgent |
| engine | `server.js` | `state.status`, the one scout | the HTTP routes, shutdown | the status settles; every accepted request ends; one scout |
| API gateway | `worker-api/src/index.js` | the edge cache and its pending puts | refusals, the ceiling, lookup, relay | an answer was measured for that question; the engine is spared; everybody is answered |
| health coalescer | `worker/src/index.js` | per infohash: memory, durable storage, a KV entry with a TTL | a report, a KV put's answer, eviction, expiry | KV writes are spaced, storage leads, zero erases nothing |
| shared health | `worker/src/index.js`, `cloudCache.js` | the edge cache of `GET /v1/health` | the read, the client's decision | no miss is pinned; ages add up to a bound |
| node pool | `worker/src/index.js` | contributions with a TTL, the pool | `postNodes`, `aggregateNodes` (cron and admin), `getNodes` | agreement counts distinct contributors; old nodes leave |
| crawler | `dhtCrawler.js` | four queues, node states, an SQLite index | four kinds of workers, `start`, `stop`, `close` | queues bounded, intervals honoured, no hit dropped |
| content filter | `contentFilter.js`, `tools/filter-index.mjs` | compiled rules; the blocked rows of the index | `check`, the sweep | nothing banned is named, nothing innocent is blocked |
| ranking | `swarmScout.js`, `peerSources.js` | the background-refresh flag, a scrape in progress | `rank`, scrape callbacks, `_backgroundRefresh` | one answer per candidate within the budget |
| memory of the DHT | `swarmScout.js`, `peerCache.js` | nodes with `seen`, in a file shared by processes; per process the routing table | start, migration, persist, destroy, crash | only evidence renews a node; nobody's learning is lost |
| cloud cache | `cloudCache.js` | the circuit breaker | blocking reads, fire-and-forget writes | a dead control plane costs one timeout per breaker time |
| the rest | `worker-docs`, `locality.js`, `catalog.js`, `env.js`, tools, deployment | none | | pure functions, plumbing, text |

Everything in the engine process runs on one JavaScript thread. Concurrency is
therefore between *turns*: what a handler does up to its next `await` is
atomic, and anything may happen before it resumes. The engine's requests share
one `SwarmScout`, one `PeerTable` and one `StreamServer`; the engine processes of
a host share one SQLite file. In the control plane each Durable Object is
single-threaded per infohash, its storage operations hold its input gate, and KV
is a separate service that may answer late or 429. The two Workers each have an
edge cache in front, which knows nothing of what happens behind it.

The hard behaviours, each listed with its line under `hazards` in
`PROJECT.json`, are: timers that are never cleared racing answers; a call that
returns early *after* having changed shared state (`play()` while switching); an
abort between two awaits; losing racers and failed racers to clean up; strikes
counted over torrents; crash and throttling between two writes; an answer cached
after the world it describes has changed; several processes over one file.

## 2. Modules

| module | models | extends |
|---|---|---|
| `PeerTable` | the address book, as operators on a table value | |
| `Verification` | `assess()` and `fetchFromAny()` over a shared table | `PeerTable` |
| `Player` | abstract: what `play()` promises | |
| `StreamServer` | play, abort, race, watchdog, failover, destroy; implements `Player` | |
| `Playback` | the media file, byte ranges, urgent pieces | `StreamServer` |
| `Engine` | `POST /v1/play` and the shared status over the player | `Playback` |
| `HealthCoalescer` | the Durable Object of one infohash, its storage, its KV entry | |
| `SharedHealth` | the edge cache and a client in front of it | `HealthCoalescer` |
| `NodePool` | contributions of DHT nodes and the runs that merge them into the pool | |
| `ContentFilter` | the keyword language, the junk rules, and what they denote | |
| `Crawler` | the crawler's workers, their queues, the node table and the index | `ContentFilter` |
| `Ranking` | `rank()`: shared health, the background refresh, probes over the peer cache | |
| `Scout` | the nodes on disk over starts and crashes; the breaker | |
| `FrontDoor` | the API gateway and the routes of the engine | |
| `VerificationProofs`, `NodePoolProofs`, `RankingProofs`, `ScoutProofs`, `FrontDoorProofs` | theorems | their component |
| `EngineProofs` | theorems about `StreamServer`, `Playback` and `Engine` | `Engine` |
| `SharedHealthProofs` | theorems about `HealthCoalescer` and `SharedHealth` | `SharedHealth` |
| `CrawlerProofs` | theorems about `ContentFilter` and `Crawler` | `Crawler` |
| `MCVerification`, `MCStreamServer`, `MCEngine`, `MCNodePool`, `MCCrawler`, `MCRanking`, `MCScout`, `MCFrontDoor` | instances for TLC (`health` checks its module directly) | their component |

### Verification

One action is one event with everything the code does in that turn.
`StartVerifying` is the turn in which `rank()` has returned: each candidate
ranks its addresses against the table as it is and opens its first
connections (all candidates in the same turn, as `Promise.all(ranked.map(...))`
does). `Serve`, `Refuse` and `EndLate` are the three ways a worker's `await
fetchMetadata` returns: first success, failure, or anything after the race was
won, which is thrown away without telling the table. `Deadline` is the
`setTimeout` of the race; the pool is not told and keeps dialling, as in the
code. `result` is the entry `assess()` returns; `Assessed` sorts them.

Abstractions: an address is a model value; a connection's handshake and
`ut_metadata` exchange is one event; `Rankable` gives what `rank()` may return
(addresses, whether a swarm was claimed, a score). The walk with `concurrency`
1 is the pool with one worker. The deadline may fire at any moment after the
start: connection timers and deadlines are not compared, so a run includes
deadlines shorter than any connection, as a caller may ask for. `refusals` and
`proofs` are history variables.

### StreamServer and Player

`ranked` is the last list given to `play()`; the code's `rankedCandidates` is
its `Usable` part (zero scores dropped unless all are zero, duplicates
collapsed). `phase` says where the single `_doAdvance` in flight is (`_switching`
is `phase # "idle"`); `racers` is its local line-up. `client` is the set of
torrents alive in WebTorrent, from `client.add` to `destroy`. `Launch` is
`_doAdvance` up to its first await, taken from `Play` or from a stall check
that struck out. `RacerReady` and `RacerFails` are the events
`_waitForMetadata` listens to with what follows when `Promise.any` settles.
`plays` records how every call ended, `quiet` and `steady` what the stall checks
saw.

Assumed of WebTorrent: `torrent.destroy` calls back, a torrent that errors or
closes is dropped by the client, an infohash is held at most once. A stall
check on a finished download does nothing and is left out. The check of
`_aborted` at the top of `_doAdvance` cannot succeed: `play()` has just cleared
the flag, and an armed timer implies that it is clear (`WatchdogGuardsTorrent`).

`Player` is what a caller of `play()` may rely on, without lists, strikes,
phases or timers: one torrent is served or one race runs, a race ends with the
winner alone or with nothing, the waiting call is told in that very step, a call
made during a race is ignored. `OnePlayer` in `StreamServer` maps the state
(`serving` is `torrent`, `racing` is `phase # "idle"`, `alive` is `client`) and
`ImplementsPlayer` is the refinement, a property of the run and a theorem.

### Playback

`GET /v1/stream` on top of `StreamServer`: the choice of the media file among the
torrent's files, the byte range of the answer, and the pieces marked critical.
`Follow` is what each step of the stream server means here, so that a torrent
which is destroyed ends what was read from it and a new one starts with the ends
of its file. Bytes are counted in units of the instance. `Content` has a
video that begins within a piece, a torrent without one, and one whose larger video
comes second, so that the choice and the file's offset in its first piece matter. One response is read at a time.

### Engine

`Accept`, `Start` and `RankingFails` are the turns of `play()` in `server.js`;
`Tears`, `Races` and `Watches` are the stream server's own steps with what
`Continues` in the same turn: playback, and the request whose awaited `play()`
settles. `rank()` is external: it returns one of the request's lists, or rejects.
`Throws` is a request with a null among its candidates (`Nameless`): `play()` has
written `ranking` when it throws at `server.js:143`, before its `try`, the rejection
is swallowed and the caller gets 400. `thrown` remembers, for `SettledStatus` only,
that such a `play()` was the last to write the status.

### HealthCoalescer and SharedHealth

`Report` is `fetch()` of the Durable Object up to the KV put: the storage write
precedes it inside the input gate. `PutAccepted`/`PutThrottled` are KV's answers,
`ObjectLost` is eviction or a crash at any moment, losing memory and an unanswered
put. Assumption `PutLimit < Coalesce`: a put is answered before the next one may be
sent, so at most one is in flight. `reports`, a counter for display, is left out.

`SharedHealth` puts the readers behind it: `Ask` is `getHealth` of the Worker up to
its KV reads, answered from the edge if the query is there; `Fetch` ends the reads,
fixes the confidence tier and caches an answer that covers the whole query;
`Decide` is the client's `_coversAll`, `GiveUp` its timeout. The query may concern
other infohashes, whose entries are there or not. One reader asks at a time: readers
share only the edge cache and KV, which the coalescer's steps change under any of
them. Time stands still while a read or an edge entry is overdue. `lacking` is a
history variable.

### NodePool

`Post` is `postNodes`: the private addresses are refused, the rest is written
under a new key. `posted` lists the contributions in order, the index stands for
the key's UUID, and a key is live until its TTL is over. A run of
`aggregateNodes` is `Begin` (the clock and the pool it carries forward), `List`
(the sweep of the keys), one `Fetch` or `FetchNothing` per key (a body, or null
because it expired meanwhile or could not be read), and `Publish`, which
replaces the whole pool; `Abandon` is any other KV failure. Runs are started by
the cron and by the admin route and may overlap. The parallel reads of a batch
arrive one at a time: the map is the run's own and counting commutes, so nobody
can tell. The order of the pool is that of `Outranks`; ties, which the code
breaks by the order of its map, are broken arbitrarily. KV is taken to answer
with what was last written. `missed` and `overtaken` are history variables.

### ContentFilter and Crawler

A step is what one of the four kinds of workers does between two awaits: taking
a job (`Sample`, `FindNode`, `GetPeers`, `FetchName`) and dealing with its answer
(`SampleFails`, `Sampled`, `Found`, `NoPeers`, `HasPeers`, `Named`, `NotNamed`).
`sampling`, `finding`, `looking`, `naming` are the awaits; `holding` is a looker
in the polling loop that waits for room among the namers' jobs. `Reseed` is both
the idle sampler's and the timer's re-reading of the routing table. Only `Nodes`
are followed; the table is cleared by the many others (`TableCleared`), after
which a sampler still in flight writes to a state nobody reads any more
(`linked`). `nextAt` is `rest`: none, a cut interval, or the full one the node
asked for. `Sweep` is `tools/filter-index.mjs`, another process on the same index:
rows named before there was a filter (`old`) are checked by what was kept of them.

`ContentFilter` is the keyword language: a keyword is its parsed grammar, matching
computes the set of positions an expression can end at, token by token, as the
regular expression it is compiled to would. It is checked against what the rules
*denote*: `Words` spells out every word of a keyword up to a length, `StandsAlone`
says that such a word occurs between non-word characters. `GatedNames` is stated
with the second and the index is written with the first. Case folding and Unicode
normalisation leave an alphabet without case. `metainfo.js` hands over the first 100
paths of a torrent (`MAX_PATHS`, here `MaxPaths`) and of those the ones that are not
empty: `Carried`. `Metas` are whole torrents; the filter, and what `GatedNames` calls
banned or innocent, have what is carried.

Left out of the crawler: counters; `failed`, which only a statistic reads; `close`,
after which its callers exit in the same turn; the search for peers' metadata, which
is `Verification`'s; a second `start()`; the keyspace sweep of the identities.
`queue.slice(0, 200)` is the whole queue here. A repeat of a hash goes to the front
of the leads: an order, about which no property speaks.

### Ranking

`Rank`, `AnswerFromShared` and `StartProbing` are `rank()` up to its answer or
its probes; the reply of the control plane is external and may be anything.
A probe is the record of what `_scoreCandidate` waits for: the scrape (`pending`
trackers, the `best` count, whether one `answered` and the promise is resolved)
and the peers of the DHT window. The event that completes it (`TrackerAnswers`,
`TrackerSilent`, `GraceOver`, `WindowCloses`) also scores it, writes the cache
and, if it was the last, ends the call or the refresh: no other turn comes
between (`Becomes`). `best` is updated by late trackers after the scrape is
resolved, as the code's object is. `TimesOut` is `_withTimeout`; the probe goes
on and writes the cache later. `Refreshed` is `_backgroundRefresh`, whose probes
start when `ready()` settles.

Abstractions: a score is a weighed sum of seeders and peers plus the boost;
leechers, locality, labels and the order of the answer are left out, and so is
what is reported to the control plane, whose answer nobody awaits. Cache entries
expire at any moment, timers are not compared. The node table of the cache is
`warm` or empty. No call starts after `destroy()`.

### Scout

The engines of one host share one SQLite file. `Start` is the constructors of the
cache and the scout, with `_migrate` and the first call for shared nodes; `Persist`
is the end of a ranking or refresh, `Destroy` the same followed by exit, `Crash`
neither. `setNodes` is one transaction: upserts and a trim, or a rollback; the trim
chooses freely among equals. `NodeAnswers` is the only thing that renews `seen` in
the DHT library's routing table; `NodeDropped` and what is asked are the library's
own affair. `Read` and `ReadEnds` are the blocking read of `CloudCache`, `flying`
its calls nobody waits for; each ends well or ill at any time up to its deadline,
and the breaker hears of it however old it is. The requests of several callers are
ranked at the same time, so each of `Callers` may have a read of its own on its way:
only the breaker holds one back, and one that is out is not recalled when another's
failure opens it. `waited` is a caller's share of `stats.waitMs`, which is the sum. Only `getHealth` is stopped by an
open breaker. `dead` is chosen at the start: a control plane that never answers.

### FrontDoor

Every await of the Worker's handler and of the engine's ends an action: the cache
lookup, the fetch of the origin, `getScout()`, the ranking, the text of the answer;
between any two of them the engine may close, crash, or start again, and other
callers go on. A body is described by what either side tells apart: its length
against the two limits, whether it parses, which of the three input shapes it has,
whether `input` is a string (`text`: the Worker counts the lines of a string only,
the engine makes a string of anything and splits it), a bad line, a candidate that is
null, a parameter beyond the ceiling. `measured` remembers which questions
the engine answered; `cached` is keyed as the code keys it.

## 3. Runs

| run | instance | result |
|---|---|---|
| `assess` | 2 calls, 3 candidates, 3 addresses, table of 2, 2 connections | 170,593 states; verdicts, refutation, table, order, pool, liveness |
| `assess_refuted` | refutation from 3 addresses | violation: refuted without a sample |
| `stream` | 4 infohashes, 3 lists, 2 racers, 3 strikes, 3 plays | 83,944 states; refinement of the player, watchdog, failover, liveness |
| `engine` | 3 requests with shared releases and one that throws, 5 ranges, 3 torrents of one to three files | 167,984 states; status, ranges, urgency, termination |
| `engine_status` | 2 requests | violation: playing, and nothing served |
| `health` | counts {0,1}, interval 2, KV TTL 2, edge TTL 1, clock to 6 | 659,182 states; spacing, storage, positives, misses, ages |
| `node_pool` | 2 public addresses and a private one, 3 contributions, TTL 2, 2 runs, a pool of 1 | 1,508,528 states up to symmetry; freshness, completeness, what a run may drop |
| `node_pool_agreement` | 2 contributions | violation: one contributor counted twice |
| `crawler` | 1 node, 1 hash, 1 worker of each kind and 2 lookers, queues of 2, 1, 1, 2 keywords, 3 torrents, a cap of 2 paths | 147,830 states; the filter's gate, backpressure, retirement, stopping |
| `ranking` | 2 calls, 2 candidates, with two trackers and with none, counts {0,1} | 137,016 states; feedback of scores, shutdown, liveness |
| `scout` | 1 engine, 2 callers, 3 nodes, all in an older file too, a cap of 2, clock to 2 | 769,226 states up to symmetry; what is renewed, what is displaced, the cost of a dead control plane |
| `front_door` | 3 callers, one past the Worker, every kind of request either side tells apart | 228,121 states; answers measured, engine spared, everybody answered |

**Bounds.** `MaxNow`, `MaxPlays` bound the clock and the number of `play()`
calls; every other constant is a parameter of the code with a small value. They
are chosen so that each interesting case happens: the table is smaller than the
set of addresses (eviction), one list is longer than the pool (a second wave),
two candidates and two calls share an address, one list has a duplicate, one an
unscored candidate, one only unscored ones, and there are more candidates than
racers. Three `play()` calls suffice for one served, one dropped in its race and
one after it. Six ticks hold three intervals of the coalescer and every sum of put,
TTL, edge TTL and read. Four ticks let a contribution expire and its node go stale,
a pool of one is always contended, the second run reads what the first published or
is overtaken by it, and a third contribution reaches the safety valve of the sweep
(`MaxKeys`); `MaxPosts` and `MaxRuns` bound contributions and runs.
One node and one hash suffice for the crawler: the races are between copies of
the same node in the queues and duplicates of the same hash among the workers,
and two lookers compete for the namers' only slot; `MaxListed` bounds a reply, and
with a cap of two paths one torrent's only banned word is in its third. Two
trackers are what a grace window and a late answer need; a call and the refresh of
another meet at the candidate without trackers. `MaxCount` and `MaxPeers` bound
counts. Two callers suffice for reads that overlap: one opens
the breaker, the other's failure comes in after. Nodes and callers are symmetric,
as every node is in the older file. One process suffices for the file of nodes because `setNodes` is one
transaction and a process that starts again is another writer; the theorems are
about any number of them. `MaxFlying` bounds the calls nobody waits for.
Runs set `CHECK_DEADLOCK FALSE` since requests end, the process is shut down,
and the clock is bounded.

**Fairness.** `ConnectionsEnd`: `fetchMetadata` has an overall and a connect
timer. `TimersFire`: `setTimeout` fires. `RacersEnd`: a racer is ready, fails, or
times out in 25 s. `TearDownEnds`: `destroy` calls back; the engine's `StreamRuns`
is the two together. `RankingEnds`: `rank()` wraps every candidate in
`_withTimeout`. In the crawler, every query and every fetch has its own timeout, a
waiting looker polls, and a sampler's loop takes the next node of a queue that has
one; finding, looking and naming need not ever start again. In discovery, the reads
of the control plane, the trackers, the window, the bootstrap and the budget have
timers; the refresh relies on them all. At the front door every await of a handler
ends: the scout's promise settles, a ranking is bounded by its budgets, a
connection to an engine that is gone fails; the engine need not ever start again.
No fairness is assumed of callers, aborts, stall checks, crashes or the clock.

**Violations.** Each checks a sentence of the documentation or of a comment,
quoted under `findings`. In short: refutation counts addresses found, not asked
(`swarmScout.js:851`); a dropped `play()` is reported as playing
(`streamServer.js:138`); a contribution is counted as a new source by every run that
reads it, so a single contributor key is published as corroborated
(`worker/src/index.js:476`).

**Exceptions.** Four properties hold of the code with an exception, which each of
them states; the instance of its run has the case, and the theorem is about the
property with it.

- `SettledStatus`. `POST /v1/play` with a null among its `candidates` writes
  `ranking` and throws before the `try` (`server.js:140-144`). Until somebody else
  writes the status, that is what `/v1/status` says, with nothing in progress.
- `GatedNames`. The filter "matches the name *and every file path*" (`README.md:517`,
  and the comment at `metainfo.js:183`), but `metainfo.js:190` hands over the first
  100. A torrent whose only banned word is in a later one is named in the index.
- `EngineIsSpared`. `worker-api/src/index.js:80` counts the lines of an `input` that
  is a string; `server.js:99` makes a string of any. A body such as
  `{"input": ["h1\nh2\nh3"]}` has one shape, counts as 0, and brings one candidate
  for each line. The same goes for an `input` beside `candidates: []`, below.
- `DeadPlaneCost`. The breaker bounds what one caller waits for a dead control
  plane. Rankings that overlap wait side by side, since none is recalled when the
  breaker opens, and `stats.waitMs` adds them up (`cloudCache.js:56`): it may grow by
  several deadlines while one passes.

**Seen while modelling**, with no run, most of them because nothing in the
repository says otherwise:

- Player. Strikes are not reset when a race is won, so a fresh torrent can be
  given up after one bad check (`FailoverNeedsStrikes` is about torrents that had a
  good one). `abort()` does not stop racers, they end by themselves. A `play()`
  dropped during a race clears the abort of the one in flight
  (`streamServer.js:117`; `:294` says that call rejects): `AbortSticks` is about
  aborts that nothing clears. Candidates beyond `MAX_RACERS` are not tried when the whole line-up
  fails under `play()`.
- Playback. A suffix range (`bytes=-500`) is answered 206 with the whole file, as
  documented (`worker-docs/src/openapi.js:441`). A failover ends the response in
  progress, and the next request reads another file under the same URL.
- Verification. A pool goes on dialling after its deadline; a torrent proven alive
  is reported `reachable` when a slow connection beside the winner outlasts the
  deadline (`metainfo.js:277`).
- Shared health. The entry of an infohash carries one time, so a positive reading is
  re-stamped by every report that omits it (`worker/src/index.js:211`,
  `ARCHITECTURE.md:310`). `rank()` of more than 20 candidates asks for all of them
  in one read (`cloudCache.js:117`), which the control plane refuses with 400
  (`worker/src/index.js:153`), and that opens the breaker. A shared reading that fills
  in for silent trackers is reported back as a measurement (`swarmScout.js:494`,
  `:465`). A refresh that is running keeps every other away (`swarmScout.js:443`,
  `ARCHITECTURE.md:629` says a probe always follows). The boost of a cached score is
  cached with the next one, so a swarm that has died keeps it as long as it is ranked.
- Crawler. A node that offers the same hash again adds a hit, as if another node had
  (`dhtCrawler.js:239` calls them independent); a node queued twice is asked within
  the interval it asked for (`dhtCrawler.js:427`, `:52` says it is honoured in full).
- Memory. `_migrate` runs at every start that finds `swarms` empty, and stamps the
  older file's nodes as seen now (`peerCache.js:90`; the comment at `:86` says
  "once"): the exception in `OnlyEvidenceIsRenewed`. An expired `get` deletes by
  infohash alone and so may delete a row another process has just renewed
  (`peerCache.js:123`).
- Front door. A `{candidates: [], input}` body of many lines passes the hosted
  ceiling, since the engine falls through to `input` (`server.js:97`):
  `EngineIsSpared` speaks of bodies of one shape, as the documentation asks for
  (`openapi.js:130`). A HEAD answer is cached under the GET's key with its empty body;
  the model has the methods CORS allows. `/v1/status` and `/v1/presets` answer any of
  them, a POST included, and the body of such a POST is part of the key. Concurrent misses are all relayed. A rejected
  `scoutPromise` stays until the process restarts (`server.js:69`). The text of the
  origin's answer is read outside the `try`, so a broken body is the runtime's 500.
  `/v1/status` is answered from the edge for up to 60 s.

## 4. Proofs

TLAPS proves these for every value of the constants allowed by the named
assumptions.

**EngineProofs**, the stream server. `IInv` adds to `TypeOK`: `ClientByPhase` (what is alive
in the client, by where the advance is: at rest exactly the served torrent,
during the teardown nothing, in a race only racers), `RaceShape` (only racers
race, only in a race), `FewRacers` (line-ups are finite and short), `WatchShape`
(an armed timer means at rest, a served torrent that is excluded, no abort, and,
once steady, at least as many consecutive bad checks as strikes) and
`CandidateIndexTruth`. None is inductive alone: that a race runs alone needs that the
client was exact before it; that failover moves on needs that the served torrent
was excluded when it won *and* that no play() cleared the exclusions with the
timer armed, which is where `WatchShape` is needed. `LaunchPreserves` is the
common part of both callers; there is one lemma per action; `RacersAreFew`
bounds a line-up by an injection from its positions into `1..MaxRacers`. From
the invariant follow `TypeOK`, `OneTorrentAtRest`, `RaceAlone`,
`WatchdogGuardsTorrent`, `CandidateIndexTruth`, and the action properties
`FailoverMovesOn` and `FailoverNeedsStrikes` (only a struck-out bad check fails
over: `FailoverIsStrikeOut`). The refinement needs more: `PlayerInv` adds that a
call waits exactly while a race runs for it, and that at most one does
(`OneWaits`, `CallerIsKnown`), for the abstract player tells the waiting call in
the step that ends its race. With it every action is a step of `Player` or a
stutter (`PlayerImplemented`).

**EngineProofs**, the engine. `EngineRunsStream`: every step of the engine is one of its stream
server or leaves it alone, so that the invariant, and the refinement, carry over
(`EngineImplementsPlayer`). `EngineInv` adds that each waiting request waits for a
pending play of its own (`EachWaitsForItsOwn`), that each pending play has its
request (`PendingIsAwaited`), and that a busy status has a busy request, or was
written last by a `play()` that threw (`BusyIsTrue`). `SettledStatus` is the last; it needs the second, since otherwise a
race could end with nobody to write the status. `RangesHonoured` is arithmetic over
any file; that there *is* a media file in a list of any length is a least-element
argument over the naturals. `PlaybackInv` carries `PlayheadIsUrgent` across races.
`RaceIsAlive` adds that an advance has a line-up and a race a racer still to end
(what is left to race is raced from its first position on: `SomebodyIsRaced`).

**SharedHealthProofs.** `IInv` of the coalescer adds `StorageLeads`,
`PutRemembered` (storage carries the time of the last put, which is what makes the
gate survive the loss of memory) and `PositivesCarried` (a positive reading in KV,
or on its way, is positive in storage). From it: `TypeOK`, `StorageLeads`,
`OneWritePerInterval`, `PositiveSurvives`. `LoopRunsCoalescer` carries all of it to
the composition with readers. There, `LifetimesInv` bounds the age of what is put
and published, `EdgeInv` that of what the edge holds, and `ReadInv` adds what the
read takes: together `ServedInTime`; `NoPinnedMiss` rests on the edge never holding
a miss.

**NodePoolProofs.** `IInv` adds to `TypeOK` and the pool's size `AllRecent`
(every entry of the pool and of every run's map is a report, no older than the
TTL at the time of its map) and `FreshHeld` (a run nobody has overtaken still
holds, with as many sources and as late a report, whatever is fresh in the pool
it read). The first gives `NothingStaleIsPooled`, the second, with the order `Kept`
respects, the action property `FreshNodesSurvive`. `EveryLiveKeyIsCounted` rests on
`CountedSoFar`: whatever contributions a run has read by now, those that are still
live and older than it count as a source each for every node they name. Reading one
more key adds at most it to what is owed (`Owed`) and adds a source; expiry and a
missed key only lessen the debt; a new contribution is younger than the run. Overlap
is why `AllRecent` must speak of each run's own `at`: the pool's timestamp may go
back when a slow run publishes last.

**RankingProofs.** `IInv` is `TypeOK` with `BoostNeverCompounds`: every probe in
flight carries a boost within the cap, which is why what it writes is within the
bound, whoever else wrote in the meantime. `BecomesPreserves` is the common part
of all events of a probe. From it: `TypeOK`, `BoostNeverCompounds`,
`ClosedIsSilent`.

**ScoutProofs.** `RowsAre` says what one transaction can leave in the file, for any
cap and any choice among equals. `PastInv`: no time in any table lies in the future,
and a routing table's entry is a true answer, no later than the last. From the two, `OnlyEvidenceIsRenewed`
and `OnlyFresherDisplaces`. `DeadPlaneCost` is not inductive, as a read may be in
progress and others may open the breaker meanwhile: `CostInv` ties what each caller
has waited to `openUntil`,
`waited * (ReadTimeout + BreakerTime) <= ReadTimeout * openUntil`, and, while it waits
once more, to the time that wait began; `ReadsInv` bounds how long a read in progress
may have taken. The factor works because a read begins only when the breaker is
closed, so that `openUntil` has passed by then, and whoever fails opens it for
`BreakerTime` more, which no later failure takes back (`OutcomePreservesCost`).

**VerificationProofs.** The table lemmas (`TouchKeeps`, `RecordKeeps`) say what an
update, and the eviction it may cause, does to every entry. `CandidateInv`
speaks of one candidate: its list is sound, its pool has asked a prefix of the list
and nothing twice, its verdict agrees with what the pool has seen, and before its
turn nothing is set. Two calls meet only in the table, so that a step of one leaves
the other's candidates alone. From it: `VerifiedOnlyOnProof`,
`RefutedMeansAllAsked`, `KnownGoodServed`, `PoolDiscipline`, `VerdictIsFinal`.
`EvidenceOrder` is about a list chosen among those that are sorted, so there must be
one: `Before` is a strict total order on a call's candidates, and an order on a
finite set sorts it (`SortedExists`: an element's place is the number of those up to
and including it, which is injective and therefore hits every place). It also needs
that only a `reachable` verdict is refuted, for which `RefutationMinPeers` must not
be 0: with 0 a candidate without addresses would be refuted.

**FrontDoorProofs.** `AnswersAreMeasured` needs the invariant for everything an answer
passes through: what is on its way from the engine, what is being put into the edge
cache and what the cache holds is an answer the engine measured for the question
*its key* stands for (`Key` determines `Question`), which no restart undoes. `EngineIsSpared` follows a request from the Worker's
refusals to the ranking, where the two counts of its candidates agree if `input` is a
string and the only shape, and ties the number of scouts built to the state of the
promise.

**CrawlerProofs.** First the filter, as a fact about texts. `MatchingIsSpelling`: the
set of positions the token-by-token matcher computes is non-empty exactly when some
word the keyword spells stands alone in the text. It goes up the grammar: a token, a
word, a group, a sequence of groups, each "the positions after it are those reached
by a string it spells"; folds are opened by their recursive definition, and what must
hold of every prefix is shown by its least counterexample. `FilterRefusesTheBanned`
adds that joining name and paths by a space loses no word that stands alone in one
of them, of those within the cap (`TextsAreWithin`). Then the crawler: `TypeOK`, whose queue bounds hold for any number of
workers; `GateHolds`, which is `GatedNames` said of what the filter *refused* and is
inductive, where what is banned or innocent is not what the code looks at; and the
action property `NoHitIsLost`, which counts jobs over three
places and needs that a looker holds one hash at a time (`OneAtATime`).

**Nobody waits for nothing.** Four theorems of that name state the safety half of
what the liveness properties promise: whoever waits, waits for something that is
really there and has an end of its own. A `/v1/play` request awaits the race that is
on, which has a torrent to tear down or a racer left (`SomethingRaces`). A candidate
whose verdict is awaited has a connection open (`SomebodyIsAsked`). A ranking awaits
one of its probes, and the flag of the refresh is up only while the bootstrap or an
unfinished probe is waited for (`SomethingIsAwaited`). A request in the engine waits
for a scout that its own process builds or has built, never for one that died with
the last (`SomebodyBuilds`). That each of these ends is then a matter of the timers
and callbacks the fairness of section 3 stands for.

Every invariant and every action property the runs check is thus a theorem, and so
is the refinement. Only model-checked is what speaks of *eventually*: `EveryCallEnds`, `EveryPlaySettles`,
`AbortSticks`, `EveryRequestEnds`, `WrittenOffNodesLeave`, `StopWindsDown`,
`DiscoverySettles`, `EveryCallerIsAnswered`, since the prover has no rule for fairness
over `ENABLED`. Induction over data (a sequence, a set of keys) is not available as a
theorem of the library either; where a proof needs it, it is a least-counterexample
argument over the naturals or an invariant of the loop that walks the data.

## 5. Not modelled, and the plan

Not modelled: locality weights and the arithmetic of scores (only their order
matters to what is modelled); magnet parsing, fixtures and environment loading;
the documentation worker, which serves text; benchmarks, tests and deployment files.
Of modelled parts: the roster peer source (it answers a probe as the DHT window
does), the routing and CORS of the control plane and the cache in front of
`getNodes`, `PeerTable.observe` (the crawler calls it on its own table,
`dhtCrawler.js:575`; the fetch of a name is one event that reads none), a crawler that is started again, its `close()` and
its keyspace sweep, the fallback to the DHT library's `toJSON()` when its internals
are not available (`swarmScout.js:693`).

What would add most next: a restarted crawler over an index that exists; the roster
as a second kind of window, with its sockets; for the peer pool and the crawler, the
safety facts their liveness rests on, as section 4 has them for the engine, the
verification, the ranking and the hosted API.
