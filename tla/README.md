# A verification of the Filecoin network stats collector

TLA+ specifications of the program in `src/`: the backend that ingests a
go-filecoin chain into Postgres, listens to node heartbeats and serves
statistics, and the React dashboard that polls it. TLC model-checks the
specifications on small instances; TLAPS proves their main theorems for every
value of the constants.

## The system

| part | state | operations | talks to |
|---|---|---|---|
| Chainsaw (`service/Chainsaw.ts`) | `lastHeight`, `isPolling` | `start`, `poll` every 5 s, re-enqueued in a `finally` | ChainClient, MinerUpdater, ChainsawDAO, MiningPowerService |
| ChainClient (`client/ChainClient.ts`) | none between calls | `ls(toBlock)`: a breadth-first walk from the head to `toBlock` | the full node over HTTP |
| ChainsawDAO, SQL functions | tables `blocks`, `messages`, `unique_messages`, `miners`, `asks` | `lastBlock`, `persistPoll` (one transaction) | PGClient, BlocksDAO |
| BlocksDAO | `topBlock`, cached blocks | `top` (synchronized), `byHeight`, `byHeights` | Postgres, CacheService |
| MiningPowerService | `power` | `updateMarketPower`, `getMinerPower` | BlocksDAO, the node |
| NodeStatusService | `data`, `addressMap`, `lru`, `nodeCount` | `consumeHeartbeat` (synchronized), lists and lookup by address | GeolocationDAO, MiningPowerService |
| HeartbeatServer / Consumer | handlers under way | parse a packet, ask the connection who sent it, hand it on | libp2p, NodeStatusService |
| CacheService | map of entries, expiry timers | `wrapMethod`, `setProactiveExpiry`, `get` | the DAOs |
| MaterializationService | a timer | every five minutes: token, utilisation and miner-count rows | three DAOs |
| stats DAOs | none | SQL over the tables above | PGClient, CacheService |
| PGClient | a pool of 10 connections | `execute`, `executeTx` | Postgres |
| Container | registry, cache of singletons | `resolve` | every service |
| migrations, GeolocationDAO | the schema, `ip_to_locations` | six migrations run by db-migrate before the start; `locateIp` | Postgres |
| MinerUpdater, MinerClient, HTTPClient | addresses to ask about | `addAddress`, `update`, `power`; streams of JSON lines | the full node over HTTP |
| API server and services | none | `/sync` and the stats endpoints | the DAOs |
| Frontend `stats` duck | stats, network, a timer | `poll`, `switchNetwork` | `/sync` |
| Frontend `overrides` duck and switching charts | overridden datasets | `setOverride` | stats endpoints |
| ChartRenderQueue | queue of jobs | `enqueueRender`, `enqueueDispose`, timers | amCharts |
| Table | page number | next, previous, sort | none |

Only the master process (`isMaster`) runs heartbeats, materialisation and the
Chainsaw; the API server runs in every process and listens before they start
(`Backend.start`).  Everything runs on one JavaScript thread: what interleaves
are continuations after an `await`, timers and incoming requests. Postgres is
the only state that survives the process.

What is hard here:

- the node's head moves, also sideways, while a poll is between its calls;
- every call may fail, a commit may be executed and not acknowledged, or
  acknowledged and not executed, and the process may die at each of these
  points, while `lastHeight` lives in memory only;
- a response of the node is a stream, which may break off before or after its
  one line, or hold no number;
- `synchronized` gives a caller the promise of somebody else's call, with the
  other call's arguments and its older view of the database;
- heartbeat handlers are not awaited, so packets overtake one another, and
  `consumeHeartbeat` keeps values across awaits and updates four structures
  that have to agree, while any of its calls may reject half-way;
- statistics are read from tables that ingestion and the materializer fill at
  different times, with days that have no row, sums over nothing and divisors
  that may be zero;
- timers and answers in the frontend arrive in any order, and the jobs of the
  chart queue run in another order than they come.

What makes each part correct: ingestion stores each final block once, no other
block, without gaps but for what the database has silently rolled back, and
each message once; the walk returns the final blocks
and ends; powers are those the node has answered; the node list is bounded,
finds nodes by address, drops the silent ones and lists only nodes of this
chain; a transaction is whole whoever shares the pool; the cache serves nothing
wrong and nothing older than before; there is one instance of each service; a
migrated database fits the statements of the backend; the statistics agree with
the tables and with one another; the polling and materializing loops go on; a
chart shows the duration that is marked, and in the end all charts on the page
are drawn.

## Modules

| module | what it is |
|---|---|
| `ChainData` | the DAG of blocks as constants, and which blocks `ls` selects in it |
| `ChainLedger` | abstract specification: a ledger that grows by all final blocks of some heights, above what it has, and knows what it has lost |
| `ChainIngest` | node, Chainsaw, persistence, cached top block; implements `ChainLedger` |
| `ChainIngestProofs` | its theorems |
| `ChainWalk` | the loop of `ls`, one fetched block at a time, with the decoding of messages |
| `MinerCalls` | the poll after the walk: the powers of miners, call by call; extends `ChainWalk` |
| `ChainWalkProofs` | theorems about both |
| `NodeStatus` | `consumeHeartbeat` and the node list |
| `HeartbeatServer` | the libp2p handlers in front of it; implements `NodeStatus` |
| `NodeStatusProofs` | theorems about the list and the server |
| `PGPool` | `execute` and `executeTx` over one pool of database clients |
| `PGPoolProofs` | its theorems |
| `Dashboard` | poll loop, `/sync` handler and the lazy cache |
| `BlockCache` | `byHeights` over the eager entries of the cache |
| `BlockCacheProofs` | its theorems |
| `StatsTables` | the tables that statistics are computed from, and the dates of a chart |
| `Histogram` | `width_bucket` and the limits of the buckets |
| `StorageStats`, `TokenStats` | the queries of the stats DAOs as operators on the tables |
| `Materialization` | the loop of MaterializationService over these |
| `Container` | `resolve` and `instantiate`, one action per await |
| `Migrations` | the migrations, the schema they leave, `locateIp` |
| `Backend` | composition: migrations, `Backend.start` over the container, ingestion and materialization |
| `BackendProofs` | theorems about the container, the statistics and the migrations |
| `StatsAPI` | which query is in which field of which endpoint |
| `Charts` | durations, overrides, the drawing of charts and the render queue |
| `Pager`, `Units` | the miners table and its pages; the labels of sizes |
| `Pages` | composition: the routes with charts, table and sizes |
| `DashboardProofs` | theorems about the poll, the charts, the pager and the labels |
| `Filtering` | `filter` of a list, as a fold |
| `FoldFacts` | lemmas about folds, sums, maxima and finite sets that the proofs share |
| `MC...` | instances for TLC (`MCChainDag` holds the DAG of two of them) |

`MinerCalls`, `HeartbeatServer`, `Backend` and `Pages` are the modules that
compose components; a run checks each of them, and with it the modules it
extends.

Operators marked "a mutant" in a comment are plausible bugs next to the
definition they would replace; no specification uses them. They show that the
properties can fail: put in the place of that definition, each makes TLC report
the property it is paired with in `PROJECT.json`.

### ChainIngest

An action is what runs between two awaits whose outcome matters.

| action | code |
|---|---|
| `NewHead` | the full node (external): its head becomes any tipset whose chain keeps the settled blocks |
| `Boot`, `Start` | `Backend.start`, `Chainsaw.start` with `lastBlock` |
| `StartFails` | `lastBlock`, or a start before it, rejects: the process stays up and never polls (`stopped`) |
| `Fetch` | `ChainClient.ls(lastHeight)`; an empty answer changes nothing |
| `UpdateMiners` | the loop of `processBlocks` and `MinerUpdater.update` |
| `Persist` | the transaction of `persistPoll`, with `populate_unique_messages` |
| `PersistUnacknowledged` | the same, but COMMIT is not acknowledged and the poll fails |
| `PersistLost` | the server has answered COMMIT with a ROLLBACK, and the poll goes on as after a commit |
| `RefreshTop`, `JoinTop` | `top(true)`: its own query, or the flight of another caller |
| `UpdateMarketPower` | `updateMarketPower`, then `lastHeight` moves and the next poll is enqueued |
| `PollFails` | any other call rejects: `poll` logs it and enqueues the next one |
| `ApiAskTop`, `DbAnswersTop`, `LandTop`, `TopFails` | a `top()` of an API request and its flight |
| `Crash` | the process dies; the tables stay |

`db` is the `blocks` table, `uniq` is `unique_messages` as pairs of a block and
a message, `topBlock` the cached height (0 for `null`), `lastHeight` the
cursor. `batch` and `maxHeight` are locals of the running poll; `lost` is a
history, the blocks of transactions that were lost and have not been ingested
since.
`head` and `settled` belong to the node. A message stands for its
`from-to-nonce`, and `Key` adds the height as the trigger does.

The code has no reorganisation handling: it stores a block once two heights are
above it and never removes one. So its correctness stands on an assumption
about the node, made explicit as `FinalityAssumption`: a block that
`FinalityDepth <= 2` heights have buried is not replaced. `CanonicalOnly` is
what this buys. Without it an orphan stays in the table; nothing in the code
would notice.

A lost transaction (`PGPool` says how it comes about) leaves the cursor above
blocks that are not in the table. The polls that follow start at the cursor, so
nothing fetches these blocks again, unless the process restarts before any block
above them has been ingested. `NoSkippedBlock` says that this is the only way to
a gap, `ServedTopExists` that the API is none the worse for it, and
`ChainLedger` says which blocks may be missing: always whole heights.

Genesis has height 0 and is never above `lastHeight`, so it is never ingested,
although a comment in `processBlocks` prepares for it; height 0 therefore
stands for "no block".

### ChainWalk and MinerCalls

One action per iteration of the `while` loop (`Drop`, `Visit`), the end
(`Return`), a rejected call (`Fail`) and a message whose params do not decode
(`InflateThrows`). The order of a tipset's parents is any order.
`ReturnsConfirmed` relates the walk to the operators of `ChainData` that `Fetch`
uses, so the single step of `ChainIngest` is justified. `ChainIngest` reads the
head once per walk; the walk reads blocks by CID, which never change, so a
reorganisation during the walk does not matter to it. A message is its method,
its recipient and the number of chunks of its params (0 for none; a number that
the decoders of the method do not expect stands for every undecodable one).

| action | code |
|---|---|
| `ProcessBlocks` | `_doPoll` after `ls`, and the loop of `processBlocks` over `addAddress` |
| `Update`, `PowerLands` | one turn of `MinerUpdater.update` with `MinerClient.power` |
| `Data`, `HandleError`, `Complete` | the events of the stream in `callAPIStream`, of which the first to end it wins |
| `PowerRejects` | the promise of the call rejects, or `power` reads a field of a line that never came |
| `PersistMiners`, `PersistRaises`, `DatabaseFails` | the upserts of `persistPoll`, its refusal by the trigger, any other failure |
| `UpdateMarketPower`, `NoTop` | `top()`, which may be an older row that a joined flight has read (`TopRows`), and the call whose answer is `MiningPowerService.power`; without a row there is no call |

`PersistRaises` is the trigger `process_messages`: it casts the expiry length of
an ask to an integer although the column was made a bigint later, and an ask
without params has no price. The number of an ask is its count of bits
(`IntegerBits`). The next poll finds the same message, so ingestion stays below
it. `call.out` has at most one line, since `power` reads only the first.

### NodeStatus and HeartbeatServer

`HeartbeatKnown` is a heartbeat handled without an await; `HeartbeatStale` and
`HeartbeatNew` run up to the first await and `RefreshLands`, `NewNodeLands` or
`CallFails` finish them. Between the two, `synchronized` answers all other
heartbeats with the same promise and drops their content, a stuttering step.
`Finish` is the tail: unshift, splice of the old key, eviction, with the
TypeError that the code throws when the evicted key's node is gone. The clock
`now` is in seconds; a node's location, nickname, height and power are left
out, `refreshed` stands for the time its power was read.

`HeartbeatServer` puts the handlers of `HeartbeatServerImpl` in front of it:
`HandleProtocol` is a line of a connection, `GetPeerInfo` and `FireHandlers` the
continuations after the two questions to the connection, `GivesUp` their
failures. What is under way is a set, for nothing keeps the handlers in order;
two handlers with the same packet at the same place count as one. `heard` is a
history of the senders of complete packets of this chain. `IsValid` and
`OwnGenesis` are the checks before and in `consumeHeartbeat`; a heartbeat that
comes while a call is under way joins it and is lost. `ServerImplementsStatus`
proves that this implements `NodeStatus`.

### PGPool

`execute` returns its callback's promise without awaiting it, so its `finally`
puts the client back into the pool while the callback still uses it. `handle`
is the client a callback keeps in this way, `Busy` the clients that really are
checked out (those of `executeTx`), and each client has one queue of
statements, which the server answers in order. `Program` stands for a callback
such as `StorageStatsDAO.getStats`: queries through the client it was given and
queries in an `execute` of its own. `AnswerReader` and `AnswerWriter` are
the continuations after an answer; a writer's next statement (`Send`), its
ROLLBACK (`OnError`) and the end of `executeTx` (`Settle`) belong to them.
`Succeed` and `Refuse` cover a callback that throws and a statement that the
server rejects. PostgreSQL is external: `session` says whether a transaction is
open or aborted, and COMMIT of an aborted one rolls it back and reports no
error. Writers are the callers of `executeTx`: `persistPoll`, the two
materialisations, `saveMinerCounts`. The client that `start` connects and never
releases is simply not in `Client`. `Break` is the connection of a writer that
breaks, at any statement: a COMMIT may have been executed before, and the writer
is told of an error (`"cut"`) all the same. `CloseIdle` is the pool, or a broken
connection, taking a client away from the requests that still use it; `CutOff`
is what both do to them.

The ends of `executeTx` that the other modules distinguish are those of this
one: success with the rows and without them (`Persist`, `PersistLost`), an error
with the rows and without (`PersistUnacknowledged`, `PollFails`).
`LostOnlyByARead` says that success without rows takes a query of a request that
failed inside the transaction, `RefusedIsAbsent` that an error with rows takes a
connection that broke while the answer to COMMIT was awaited.

### Dashboard

`Mount`, `Timer` and `Receive` are `poll()` in a page; a request is a position
`at` in the handler's sequence of statistics. `WrapMethod` is one call of
`wrapMethod` with its three outcomes: join the query that is out, take the
entry, ask the database; `QueryReads`, `QueryLands` and `QueryFails` are the
life of that query. A handler whose page has lost the connection goes on.
`switchNetwork` is left out, since no page calls it. The contents of a
statistic are the version of the tables it was read from.

### BlockCache

The module has the requests of `getMiners` that list miners, several at a time,
with the cache of blocks that they share.

| action | code |
|---|---|
| `Persist`, `RefreshTop` | the Chainsaw as the cache sees it: rows come above all others, `top(true)` follows |
| `Heartbeat` | `consumeHeartbeat` writes `node.height` into the objects that `listMiners` returns |
| `GetMiners` | `getMiners` up to `byHeights`: the heights of the nodes, none above the top (`BlockNums`); a call that comes while one runs gets that one's promise (`joined`) |
| `ByHeight`, `QueryLands` | the query for one uncached height, and its result in the cache with a new timer |
| `Return`, `QueryFails` | `byHeights` ends, for all who wait (`Answered`) |
| `ListMiners` | the rest of `getMiners`, which reads `node.height` again (`Listed`) |
| `TimerFires` | the expiry, with two outcomes, because the code compares with a strict `<` |

`ByHeights` pushes whatever is cached into the result, the `'NULL'` of an empty
height too (`Sigil`). `looked` is a history of the heights of the call that
answered. That rows come above all others is what `ChainIngest` shows. A height whose
blocks were lost is either ingested before any above it or never; in the latter
case it is to the cache what a null round is.

### Statistics: StatsTables, Histogram, StorageStats, TokenStats, Materialization

The tables are what a script of tipsets has brought so far (`Blocks`,
`Messages`, `UniqueMessages` after the deduplication of the trigger, `Asks`) and
the rows of the materializer (`circulation`, `addresses`, `usage`,
`minerCounts`). A tick of `now` is the five minutes between two polls of the
materializer. `Trunc` is `date_trunc`, `DurationSeries` the dates of
`generate_duration_series`. Every query of the DAOs is an operator with the
name of its method; a ratio stays a pair, so that `EveryRatioDefined` can ask
for its divisor. `Tops` is an `ORDER BY ... LIMIT`, whose ties may fall either
way. `AsInteger` is the cast of the gap filling, `Greatest` the `max` of
Postgres, for which NaN is above every number: `new BigNumber(null)` is NaN, and
the first poll of the materializer over a chain without a pledge stores it.
`Evolve` is the reducer of `getEvolution`, with the sum it carries from row to
row.

`Materialization` has the three inserts of `poll` (`Insert`, `Poll`), a call that
rejects without its row (`Fail`) and with it (`Unacknowledged`), which skips the
later inserts of the poll, a transaction that is lost without an error (`Lost`),
and the timer, which the `finally` sets again in any case. `IngestTipset` is the
Chainsaw as the tables see it; `ChainIngest` says when it happens.

### Container, Migrations, Backend

`frames` is the stack of `instantiate` calls, `calling` the name with which
`internalResolve` is about to run. `InternalResolve` has the cycle check, the
cache and the unknown name; `CallDependency` is a turn of the loop over the
dependencies, `Factory` and `FactoryThrows` its end. `Registry` is the graph of
`registry.ts`. `Cyclic` looks at the ends of the path only, as the code does.

`Migrations` runs what is not recorded, in order. `Begin` and `Record` are
db-migrate, external; a migration that fails (`Fails`) leaves nothing behind
because each runs in a transaction. `RunSql` is one `db.runSql`: a file of DDL,
of which the columns are kept, or one of the files of IP ranges, which the
primary key may refuse. `Inserts` are the columns that the statements of the
backend name, each from its DAO.

`Backend` is `Backend.start` over both: `StartResolve`, `Resolution`,
`Resolved`, `ServiceStarts`, `StartRejects`, for a master and a replica. A start
that rejects leaves those before it running, as `main.ts` does. Then the ticks,
the Chainsaw's tipsets and the materializer go on.

### StatsAPI, Charts, Pager, Units, Pages

`StatsAPI` names for each route, and each field of the answer of `/sync`, the
query behind it and its duration, through the two conversions of `Stats.ts`.
The digits are left out; which series is in which field is not.

`Charts` has each connected component with what it fetches, what it draws from
the polled stats and what from the overrides. `Click` is `onSwitch` of
`DateSwitchingChart`; `SetOverride` and `RequestFails` are the ends of the thunk
of `overrides.ts`, whose minimal delay is no more than another order of
arrival; `Finally` is the `finally` that draws the component again. A click
takes the chart off the page and an answer puts a new one on it: `Remount` is
`componentWillUnmount` and `componentDidMount`, with a job in the queue for
each. `Dequeue` is the timer of the queue, one for each job and one for each
`done`; a job whose element has gone throws and never calls `done` (`Render`).
`Ready` is the event of amCharts.

`Pager` is `Table` with its page and the debounced filter, next to
`StorageMinersTable`, which has a page number of its own; the rows of a page are
a prop of the one (`perPage`) and a literal of the other (`SliceLength`). `Units` is
`Filesize` and `OrderMagnitudeNumber`, with the arithmetic of their rounding.
`Pages` opens the routes of `Main.tsx` (`Open`); a behaviour looks at one or two
components at a time, its `cast`, while the others of the page keep theirs. The
chart of the mining evolution is on the page only if there are two points when
it opens (`Sparse`).

## Checks

| run | instance | result |
|---|---|---|
| `ingest_safety` | the 12-block DAG of `MCChainDag`: two two-block tipsets, a null round, a fork from half a tipset; every tipset can be the head; siblings share messages | 18102 states: five invariants, `NeverBackwards`, `ImplementsLedger`, `EventuallyIngested` hold |
| `chain_walk` | a poll below every head of that DAG, `toBlock` in 0..7, any stream of answers; a message that does not decode, an ask that is too long | 16694 states, all hold |
| `node_status` | 3 peers, `MAX_NODES` 2, 2 miners of which one is shared, 6 kinds of packets and 2 in flight, clock up to 3, refresh after more than 1, two failed calls | 4286086 states, all hold |
| `pool_safety` | 2 clients, 2 requests (own, nested, own), 2 transactions of 2 rows, connections that break | 131786 states, all hold, `EveryRequestAnswered` included |
| `pool_requests_write` | as `pool_safety` | `RequestsModifyNothing` is violated |
| `dashboard` | 2 pages, 2 statistics, tables change once | 39260 states, all hold |
| `dashboard_polls` | the same | `KeepsPolling` is violated |
| `block_cache` | heights 0 to 3, one a null round; one node, two requests at a time | 359400 states, all hold |
| `block_cache_expiry` | heights 0 to 2, one node, one request | `EntriesExpire` is violated |
| `backend` | the registry of the code, master or replica, each start and factory that can fail; two files of IP ranges, one failure of each migration; three tipsets with six messages of interest, two ticks, one call of the materializer that goes wrong | 21460 states, eight properties hold |
| `evolution_other` | the chain of `backend` | `OtherIsTheRest` is violated |
| `pages` | each of eight casts of one or two components on the four pages, two visits, two clicks on three durations; tables of ten and twenty miners with ten rows a page; sizes around every unit | 441896 states, all hold |

The bounds: the DAG is finite, so there are no counters to bound in
`ChainIngest`, and the longest chain is deep enough for several polls with
retries and restarts in between. Three peers for two places make every new peer
an eviction; the clock and two failures are enough for a refresh, a stale key
and the eviction that finds it, and two packets in flight for one to overtake
another. Two clients, requests and transactions are the least in which a request
keeps a client that a transaction takes while another nested `execute` waits;
`BusyUntilAnswered` shows that two requests exhaust two clients. Two pages are
enough to join and to overtake a query, two statistics to mix old and new ones
in one answer; one change of the tables tells old from new. In `block_cache`
two requests are the least of which one joins the call of the other, with a node
that has moved between them; two heights with blocks around a null round leave
room for two commits around a lookup. A table of ten miners fills a page and
leaves nothing for a second, one of twenty fills two.

In `backend`, two ticks give three polls of the materializer, so that one may
fail between two that do not; tipsets may come before, between and after them,
also within one poll. The script has pledges on both sides of the histogram's
limits, one that two blocks repeat, an ask, a day with one miner, and a transfer
that is no message to count. `MayReject` and `MayThrow` are the starts and the
factory that can fail by what they call. In `pages`, two visits are enough to
leave a page with a request under way and to come back to it, two clicks for two
overlapping requests; 20 stands for the thousand of a unit, since TLC's integers
do not reach a petabyte, and sizes lie below, at and above every unit.
`MaxCrashes` counts for each migration anew.

Assumptions of the instances that are about the code's timing: start ends before
the materializer's first timer, which is set for 30 seconds later; a poll of the
materializer ends in the tick it began in; at the last tick time goes on
uncounted, so that polls come until each table has a row of that tick.

`CHECK_DEADLOCK FALSE` is set where the system does stop: a finished poll, a
node list at the end of its clock, pages that have all stopped polling, a
backend at its last tick, and a visitor who has done all the visits.

Properties worth reading first: `NoSkippedBlock`, `CanonicalOnly` and
`ImplementsLedger` (the cursor, the table, what it has lost and the node's chain
agree whatever fails), `OneRowPerMessage` with `EveryMessageCounted` (deduplication only looks
at ids above `last_id`, which is right only because a poll holds all blocks of
its heights), `ServedTopExists` (`StorageStatsDAO.getMiners` dereferences the
top block unguarded), `OwnAddressFound` and `Bounded` (after failed calls, when
`lru` holds keys nobody removes), `NumbersAreTheNodes` (a stream that breaks off
must not become a power), `TotalsAgree` and `SharesAddUp` (queries over
different tables and dates that ought to say the same), `LabelMatches` and
`ChartsFollowThePage` (thunks of pages left behind write into the store that the
open page reads; the queue has exactly as many timers as it needs).

Findings, each a statement of the repository that TLC refutes:

- `docs/handoff/backend-architecture.md:41` says that requests do not modify
  state in any way. A request whose query fails on a client it has already
  released aborts the transaction that took the client; its COMMIT rolls back
  silently and `executeTx` reports success (`pool_requests_write`). `return
  await cb(client)` would end this, and would make nested executes exhaust the
  pool instead (`BusyUntilAnswered`).
- `docs/handoff/frontend-architecture.md:16` says that the loop continually
  updates the dashboard. One failed poll ends it (`dashboard_polls`).
- `docs/handoff/backend-architecture.md:71` says that eager entries expire by
  themselves. One whose timer is on time to the millisecond stays for ever
  (`block_cache_expiry`); `CacheTellsTheTruth` shows that for blocks this does
  no harm.
- `docs/handoff/backend-architecture.md:153` says that the evolution shows the
  top miners of a day and assigns the rest to "Other". The sum that the reducer
  carries from row to row is reset only when a day has two miners, so after a
  day with one miner that day's share is taken from the next day's Other, too,
  which falls below zero (`evolution_other`). `SharesAddUp` says by how much it
  is off.

Noticed while modelling, without a run of its own: a plain difference between
two texts, a matter without a statement in the repository that a run could hold
against the code, or one outside of what the runs assume:

- `README.md:21` says the server waits 4 blocks before a block is finalized. `ls`
  drops two heights (`heights.slice(0, -2)`), and a poll ingests a block with
  only two above it.
- `docs/handoff/backend-architecture.md:153` has the top three miners and Other
  in the evolution, the text beside its chart the top ten; the code keeps two
  (`StorageStatsDAO.ts:525`).
- A transaction of `persistPoll` that is lost leaves a gap for good once a block
  above it is in the table; nothing logs it.
- `Chainsaw.start` is called once. If it rejects, the process serves its API and
  its chain stands still, and systemd, which sees the process alive, does not
  restart it.
- A request that joins the `byHeights` of another is answered with the blocks of
  that one's heights, so it leaves out nodes at other heights; and a node whose
  heartbeat comes during `getMiners` is left out if its new height was not asked
  for (`StorageStatsDAO.ts:362`). `AnswersAreComplete` says that there is no
  third reason.
- `ChainsawDAO.ts:114`: a `top(true)` that joins an older flight leaves the API
  with a top block below `lastHeight` until the next poll; a process that is not
  the master never refreshes its top (`BlocksDAO.ts:96`).
- `HTTPClient.ts:106`: requests have no timeout, so a node that accepts a
  connection and never answers stops the Chainsaw.
- The trigger in `20190508172744-create-schema-up.sql:33` casts the expiry length
  of an ask to an integer although `20190608002923` widened the column; an ask
  without params has no price. Either rolls back every poll that holds its
  block, and a message whose params do not decode makes every walk over it
  throw: ingestion stops there. `EventuallyIngested` is about chains without
  such messages.
- `GeolocationDAO.ts:29` asks for the ranges that begin at the address or after
  it: an address inside a range is located in the next one. `DatabaseFits` is
  about first addresses.
- `Chainsaw.ts:92`: by the precedence of `&&` the exception for `empty` does not
  hold for `addAsk`, about which the comment above it speaks; the poll asks the
  node for the power of `empty`.
- A miner address shared by two peers loses its entry when one of them is
  evicted; a failed refresh leaves a key in `lru` that later evicts an active
  node. `nodeCount` drifts in the same cases.
- Asks are counted once for each block of a tipset that repeats them, since the
  trigger is on `messages`.
- `StorageStatsDAO.ts:395`: the cache key of `getMinerData` leaves out the
  addresses; `:454`: two miners with one label share an entry of the
  distribution, which `SharesAddUp` excludes.
- `Container.ts:73`: the cycle check sees a cycle only at the ends of the path.
  The registry has none; `OneInstanceEach` shows that an unseen one recurses but
  never makes a second instance.
- A second click on a duration before the first answer has come shows whichever
  answer is the later (`overrides.ts:41`), whatever is marked.
- Charts draw once: new polled data reach a chart only when it is mounted again,
  although `docs/handoff/frontend-architecture.md` says that charts update
  themselves when their data changes.
- An empty series makes `HistoricalUtilizationChart`, `Home`,
  `PercentageLineChart` and `HistogramChart` throw while they render, since they
  read its first or last point.

Those about concurrency, order or limits are listed under "hazards".

### Fairness

`Fairness` of `ChainIngest`: weak for `Boot` (the service is supervised by
systemd) and for the answers of the database; strong for `Start` and each step
of a poll, since a failing call or a crash disables it again and again: no call
fails every time. `poll` enqueues the next poll in a `finally`, so polls never
end by themselves. `start` is not repeated: strong fairness of `Start` asks for a
success among processes that start again and again, and one that has stopped
stays so until it dies, which nothing makes it do. So `EventuallyIngested`
assumes `[]<>(pc # "stopped")`; it speaks of blocks that stay buried and says
that they are ingested or lost. The assumption that a call ends at all is about
the node: the HTTP client sets no timeout. The node is under no fairness. `chain_walk` assumes (weak fairness of the walk and
of `Stream \/ Progress`) that each call is answered or breaks off.

`PGPool`: the server answers every query (weak), and pg-pool serves its waiters
first come, first served, so one that finds a free client again and again gets
one (strong). `Dashboard` and `BlockCache`: timers fire, handlers go on after
an answer, a query ends one way or the other, and time passes (weak). Nothing
is assumed to change, to open a page, or to fail.

`Backend` assumes that promises settle (`Migrate`, `Boot`), that time passes
(`Tick`) and that timers fire and queries end (`Poll`), each weakly; that a
migration or a call succeeds in the end follows from the bounds `MaxCrashes` and
`MaxFailures`. `Pages` assumes that timers of the queue fire (`Dequeue`) and that
amCharts reports a drawn chart as ready (`Ready`); the visitor, the server and
the network are under no fairness.

## Proofs

Every safety property that a passing run checks, invariant or action property,
is a theorem for every value of the constants that satisfies the assumptions
named in the modules; TLC evaluates those assumptions on the instances. Behind
each stands an inductive invariant, since hardly any of the properties is
inductive as it stands: `TotalsAgree` says nothing of a poll half done,
`ReturnsConfirmed` nothing of a walk under way.

`ChainIngestProofs` proves, for every DAG that satisfies `DagAssumption` and
`ChainAssumption`, all messages and every `FinalityDepth` in 0..2, that all
safety properties of `ingest_safety` hold, `ImplementsLedger` included.
The inductive invariant is `IInv`:

- `NodeInv`: what is settled is a prefix of the node's chain and holds all that
  is deep in it;
- `TableInv`: rows and lost blocks (`Covered`) are settled blocks above genesis,
  together without a gap, and each height is in the one or in the other;
- `CursorInv`: the cursor is a height of `Covered`, cached top and the row a
  flight carries are heights of rows, a flight exists only while nothing is
  cached; and while a process polls, no row is above a lost block that the cursor
  has still to pass, which is why a block that is fetched again after a loss
  comes above all rows;
- `BatchInv`: the batch of a poll is everything settled between cursor and
  `maxHeight`. It was selected from a head the node may have left since, and
  this is what makes it safe to insert;
- `UniqInv`: the two message properties.

`BatchFollows` puts what is new in a batch above all rows, `CoverStep` carries
`TableInv` through a commit and a loss alike, `CommitStep` the messages.
`Refinement` needs the same facts: each commit is an `Ingest` of the ledger, each
loss a `Lose`. The central lemma, `ConfirmedIsDeep`, says that what `ls` confirms (counted
among the heights above the cursor) is deep in the node's chain, hence settled.
`LastOfEachKeyUnique` and `LastOfEachKeyComplete` carry the deduplication: a
poll holds all blocks of the heights it inserts, so grouping inside the poll is
grouping everywhere.

`ChainWalkProofs` is about `ls` below any head of any chain. `FetchInv`: what was
found is of the head's tipset or an inserted parent, parents lie below the
head, and nothing is in the queue or among the fetched twice; this is
`FetchedOnce`. `OrderInv`: of two waiting blocks the later is of the same tipset
as the earlier, or a parent of it, and in that case all its parents have been
inserted. That is what makes a first-in-first-out queue fetch blocks by height
(`FindsFromTheTop`). `HeightsInv`: `heights` are those of the blocks kept so
far, the lowest first, so that cutting the last two cuts the two highest.
`ReachInv`: every parent of a kept block is in the queue or was fetched, and
nothing else is. From them follow `ReturnsConfirmed` (the result is what
`ChainData` says `ls` selects) and `TopFirstNoRepeats`.

In the same module, `NumbersInv`: every number in the running call, in what
`MinerUpdater` has gathered, in the table of miners and in `power` is a line
that the node has answered for that address. This is `NumbersAreTheNodes`: no
stream that breaks off, and no call that rejects, leaves a number behind.

`PollIsFinite` is the part of `PollEnds` that needs no fairness: a poll goes
through its stages in one direction, and in each of them every step leaves
fewer blocks not yet found, addresses to ask about or lines to read (`Left`).

`NodeStatusProofs` proves type correctness, `AddressMapSound`,
`OwnAddressFound` and `Bounded` for any peers, miners and limits, whatever
fails. The invariant is stated over the values the maps are about to take
(`Maps`), so that the tail of the handler (`FinishStep`) is proved once. Its
core: a call in flight knows whether its peer is listed, because no other call
runs (`CallInv`), and a node's miner is one its peer announces. As long as no
call has failed, `OrderInv` says more: the list has one key for each node, with
the time the node was last heard, the latest first (`Exact`); a call in flight
has written the new time ahead of the key, for which `Seen` corrects. With it `LruExact` holds, and
who is evicted is who was silent longest (`EvictsTheSilent`). After a failure
neither holds: a stale key stays and may evict an active node, which the
properties say by asking for `failures = 0`.

The same module proves that the heartbeat server with any number of packets in
flight implements `NodeStatus`: each of its steps is a heartbeat, one of the
other actions of the list, or a stutter (`ServerImplementsStatus`). Hence the
invariant of the list holds behind it (`StatusHolds`), and with `HeardInv` (the
packets under way, the call under way and whatever the list keeps are of peers
that were heard) `OnlyHeardAreListed`.

`PGPoolProofs` proves the invariants of `pool_safety` for any clients,
requests, writers and lengths. `PoolInv` says: two writers never hold one
client (`Apart`); a writer's step, its place in its client's queue and the
session of that client agree (`Running`), and a client that no writer holds has
no open transaction (`Quiet`); the rows written so far are those of the
statements before the current one (`OnTheWay`, `Progress`); what `executeTx`
has reported agrees with the table (`AllSettled`), also where a connection broke
before the answer to COMMIT came, of which nothing is said; and requests wait only in
queues where an answer will find them (`Queued`). It is needed because
`AllOrNothing` alone says nothing of a transaction under way: that its `dirty`
is complete at COMMIT follows from the step counter, and that nobody else's
statements open or close a session from `Apart`.

`BlockCacheProofs` proves both properties of `block_cache` for every chain, any
nodes and requests, `AnswersAreComplete` as an action property. The invariant:
all heights asked for or cached are at or below the top block (`ReachInv`), and
below a row the table is complete and stays as it is (`TableInv`, `GrowsAbove`),
so that what a query has read remains true when it lands and ever after
(`CallInv`). `WaitInv` ties a request that waits to the call it waits for: the
call has all of its heights, or it was joined; `AnswerInv` keeps of the answer
that its blocks are the rows among the heights looked for, and that a sigil
stands for one that is none.

`BackendProofs` has four parts.

- The container: `BuiltOnceInOrder` for every registry. `Consistent` says that
  the frames are a path, of which each waits for the next; that a singleton
  under way has not been made (`Fresh`); and that a name made before, and now
  made again, waits only for names made before (`Again`). The last two carry
  the case of a cycle that the check does not see: its singletons cannot be
  finished twice, because none is finished.
- What is materialized: `IngestionInv` (tipsets come in order, each at a time
  that has been), `UsageInv` (a row of utilisation pledges no more than any
  later row, and than there is now) and `CirculationInv` (collateral is no more
  than the pledges of now, or NaN, and coins are no more than the rewards of
  now). They make
  `EveryRatioDefined` and `StorageNeverDips` hold: a gap is filled between two
  totals that only grow.
- The statements about sums over tables, for every script of the chain that
  satisfies `ScriptAssumption` and every list of nodes: `TotalsAgree` splits a
  sum into the classes of its `GROUP BY` (`SumOfClasses`),
  `PledgersCountedOnce` shows that the two size classes and the buckets of a
  histogram are such classes, and `SharesAddUp` follows the reducer of
  `getEvolution` day by day: `Evolve` keeps `AddsUpSoFar`, which says that the
  sum it carries from row to row is zero again after each day with two miners,
  and else one whole for each of the days with one miner since (`LoneDays`), by
  which the next Other is too small.
- The migrations: `CommittedInv` says that the database is exactly the schema
  and the ranges of the migrations recorded, `UnderWayInv` that the open
  transaction is what its statements so far make of that. So a failure in the
  middle of the 290 files leaves nothing, and the run after it does not meet
  its own rows: `DatabaseFits`.

`DashboardProofs` is about what browsers show.

- `NeverOlder` for any pages and statistics. `FlightInv`: each statistic has one
  query under way, and who awaits it has come to that statistic. `ValueInv` is
  a chain of orders: what a page shows is not newer than what its handler has
  found since, that not than the cache, that not than a query under way has
  read, and that not than the tables.
- `LabelMatches` for any cast of components, durations, clicks and visits, from
  `ChartsInv`. `MountedInv`: a chart on the page has done loading, and the
  components of one page fetch disjoint paths (checked route by route in
  `PagesDisjoint`). `StoreInv`: for a component nobody has disturbed, the store
  has the series of the marked duration, or the one thunk under way for it
  still has to fetch it. The disturbed ones, of which the property says nothing, are
  those clicked while a series of theirs was still fetched, for them or for a
  page left behind, or whose own fetch has failed.
- `NoneIsForgotten`, the part of `ChartsFollowThePage` that needs no fairness:
  when no timer is set and no chart is being drawn, the charts on the page are
  drawn and the others are disposed of; and each timer, and each chart that is
  ready, lowers `Work`. `QueueInv`: there is a timer or a chart being drawn for
  each job of the queue, and exactly the charts that need one have a job there,
  once each, although a job may find nothing to do and rendering may throw.
- `PageExists` for lists of any length: `PagerInv` says that the two page
  numbers, `Table`'s and `StorageMinersTable`'s, are the same, although each is
  counted for itself; `SamePages` that the two numbers of rows, a prop and a
  literal, cut a list into the same pages.
- `LabelsTellSizes` for all sizes and any thousand from ten up. Rounding is
  monotone and exact at whole units (`NearestGrows`, `NearestAt`), which covers
  two sizes in one unit with the same places; `RowGrows` covers a digit behind
  the point that comes or goes, `NextUnit` a unit that changes.

`FoldFacts` holds what these proofs share. The induction theorems of the
library take an operator as a parameter, which the provers cannot instantiate,
so induction is done over sets: a set of numbers that has 0 and the successor of
each member is `Nat` (`InductionOver`), and likewise for finite subsets
(`SubsetInduction`). With it the recursion inside a fold exists and is unique
(`FoldExists`, `FoldUnique`), whence `SumStep`, `SumOfDisjoint` and
`SumOfClasses`, and `FoldLeftSteps`, by which a fold over a list is a sequence of
its intermediate values. For that reason the specifications
filter lists by a fold (`Filter`) instead of `SelectSeq`, which is recursive.

The assumptions on constants, and why the code justifies them:

- `DagAssumption`, `ChainAssumption`, `ScriptAssumption`: a tipset has a block,
  its parents lie below it, a block sends finitely many messages. This is the
  Filecoin chain; `FinalityAssumption` is discussed under ChainIngest.
- `FilesAssumption`: no range of addresses ends before it begins and no two
  have an address in common. So it is in the data of the repository: 2891552
  ranges in 290 files.
- `PagerAssumption`: a list of miners is finite, and an empty filter matches
  everything.
- `UnitsAssumption`: sizes are whole numbers of bytes, and a thousand is ten at
  least, without which a digit behind the point would be more than the unit
  below.
- `TablesAssumption`: granules are not empty, there are finitely many nodes, NaN
  is not a number.
- The others give constants their types.

Only model-checked: liveness (`EventuallyIngested`, `PollEnds`,
`EveryRequestAnswered`, `EveryPollEnds`, `EventuallyCurrent`,
`EventuallyMaterialized`, `ChartsFollowThePage`), which is beyond the prover,
since fairness is about ENABLED (of two of them `PollIsFinite` and
`NoneIsForgotten` say what holds without it); and what the runs that end in a violation
show, which is a counterexample and needs no proof.

## Not modelled

- What a decoder makes of the bytes of params; addresses and CIDs are names.
- libp2p itself, the sockets of the HTTP server, logging, configuration.
- The CSV export and the shape of `MinerStatsAPI`'s answers, the list of open
  asks, the order of a table's rows and the labels of the evolution: plain
  selections and sorts.
- Nodes' heartbeats in `backend` are a constant script; `node_status` has them
  as behaviour.
- Layout, currency formatting, tooltips, animations and the map. `StorageDeals`
  and the retrieval pages show fixed data.
- Code that nothing reaches: `switchNetwork`, `ChangeNetworksModal`, `Sidebar`,
  `AnimatedMap`, `SwitchableDateSwitchingChart`, `MiningPowerService.start`, the
  down migrations.
- The network between browser and server beyond a failed request.

## Plan

Built so far, in this order: ingestion and its ledger, the walk, the node list,
the pool, the polling dashboard with the lazy cache, the block cache; then the
calls of a poll, the heartbeat server, the statistics with their materializer,
the container, the migrations, the start of the backend, and the pages with
charts, render queue, table and labels; then the proofs of the walk, the
container, the dashboard and the heartbeat server; last the proofs of what the
runs check of the node list's order, the result of the walk, the powers of
miners, the statistics, the migrations and the pages; then transactions that are
lost, starts that fail and connections that break, and the requests that share
the block cache. Every safety property of
a passing run now has its theorem. Next:

1. What a lost transaction means to the statistics: the sums of `TotalsAgree`
   over a table with gaps, and the heights a chart then passes over.
2. `CacheTellsTheTruth` under a reader that is not the master: which rows it
   may still miss, as a theorem; and, as for the poll and the render queue, what
   of `EveryRequestAnswered` holds without fairness.
3. The CSV export, the shape of the miners' statistics and the sort of tables.
