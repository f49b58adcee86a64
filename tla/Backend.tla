-------------------------------- MODULE Backend --------------------------------
(***************************************************************************)
(* A process of the backend: Backend.start resolves and starts the         *)
(* services in turn, and in a master the services it has started fill the  *)
(* tables. A start that rejects is caught by nobody (main.ts): what was    *)
(* started before goes on without the rest.                                *)
(***************************************************************************)
EXTENDS Container, Materialization, Migrations

CONSTANT MayReject     \* the services whose start may fail

VARIABLES
  isMaster,   \* config.isMaster
  place,      \* how far start has come in Order
  boot        \* "resolve", "resolving", "starting", "up" or "failed"

bootVars == <<isMaster, place, boot>>
vars == <<bootVars, containerVars, matVars, migrationVars>>

(* registry.ts, and Config, which Backend binds itself *)
Registry == [
  Config                 |-> <<>>,
  PeerInfo               |-> <<"Config">>,
  HeartbeatServer        |-> <<"PeerInfo", "HeartbeatConsumer">>,
  HeartbeatConsumer      |-> <<"NodeStatusService">>,
  NodeStatusService      |-> <<"TimestampProvider", "GeolocationDAO", "BlocksDAO",
                               "MiningPowerService", "Config">>,
  TimestampProvider      |-> <<>>,
  GeolocationDAO         |-> <<"PGClient">>,
  BlocksDAO              |-> <<"PGClient", "CacheService">>,
  ChainsawDAO            |-> <<"PGClient", "BlocksDAO", "TimestampProvider">>,
  MinerCountsDAO         |-> <<"PGClient", "TimestampProvider">>,
  PGClient               |-> <<"Config">>,
  HTTPClient             |-> <<"Config">>,
  FilecoinClient         |-> <<"HTTPClient">>,
  Chainsaw               |-> <<"ChainsawDAO", "FilecoinClient", "MiningPowerService">>,
  MiningStatsDAO         |-> <<"PGClient", "NodeStatusService", "CacheService">>,
  MarketStatsDAO         |-> <<"PGClient", "CacheService">>,
  StorageStatsDAO        |-> <<"PGClient", "NodeStatusService", "CacheService", "BlocksDAO">>,
  MinerStatsAPI          |-> <<"StorageStatsDAO">>,
  SyncAPI                |-> <<"MiningStatsDAO", "MarketStatsDAO", "StorageStatsDAO",
                               "NodeStatusService", "TokenStatsDAO">>,
  StatsAPI               |-> <<"MiningStatsDAO", "MarketStatsDAO", "StorageStatsDAO",
                               "NodeStatusService", "TokenStatsDAO">>,
  APIServices            |-> <<"SyncAPI", "MinerStatsAPI", "StatsAPI">>,
  APIServer              |-> <<"Config", "APIServices">>,
  MiningPowerService     |-> <<"BlocksDAO", "FilecoinClient">>,
  TokenStatsDAO          |-> <<"PGClient", "CacheService">>,
  MaterializationService |-> <<"TokenStatsDAO", "StorageStatsDAO", "NodeStatusService",
                               "MinerCountsDAO">>,
  CacheService           |-> <<>>]

Order ==
  <<"PGClient", "APIServer", "NodeStatusService">>
    \o IF isMaster THEN <<"HeartbeatServer", "MaterializationService", "Chainsaw">> ELSE <<>>

Started(service) ==
  \E i \in 1..Len(Order) : Order[i] = service /\ (i < place \/ boot = "up")

Init ==
  /\ isMaster \in BOOLEAN /\ place = 1 /\ boot = "resolve"
  /\ ContainerInit /\ MatInit /\ MigrationsInit

StartResolve ==
  /\ boot = "resolve"
  /\ Resolve(Order[place])
  /\ boot' = "resolving"
  /\ UNCHANGED <<isMaster, place, matVars>>

Resolution ==
  /\ ContainerStep
  /\ UNCHANGED <<bootVars, matVars>>

Resolved ==
  /\ boot = "resolving" /\ ~ Resolving
  /\ boot' = IF thrown THEN "failed" ELSE "starting"
  /\ UNCHANGED <<isMaster, place, containerVars, matVars>>

ServiceStarts ==
  /\ boot = "starting"
  /\ IF place = Len(Order)
       THEN boot' = "up" /\ place' = place
       ELSE boot' = "resolve" /\ place' = place + 1
  /\ IF Order[place] = "MaterializationService"
       THEN StartMaterializer ELSE UNCHANGED matVars
  /\ UNCHANGED <<isMaster, containerVars>>

StartRejects ==
  /\ boot = "starting" /\ Order[place] \in MayReject
  /\ boot' = "failed"
  /\ UNCHANGED <<isMaster, place, containerVars, matVars>>

Run(step) == step /\ UNCHANGED <<bootVars, containerVars>>

(* Start has ended when the first timer of the materializer fires, 30 s    *)
(* after it was set.                                                       *)
Later(step) == boot \in {"up", "failed"} /\ stage # "down" /\ Run(step)

Boot == StartResolve \/ Resolution \/ Resolved \/ ServiceStarts

BackendStep ==
  \/ Boot \/ StartRejects
  \/ Later(Tick)
  \/ Started("Chainsaw") /\ Run(IngestTipset)
  \/ Later(Poll) \/ Later(Fail) \/ Later(Unacknowledged) \/ Later(Lost)

(* The backend is started when the database is migrated. *)
Prepared(step) == Migrated /\ step /\ UNCHANGED migrationVars
Preparing(step) == step /\ UNCHANGED <<bootVars, containerVars, matVars>>

Next == Preparing(Migrate) \/ Preparing(Fails) \/ Prepared(BackendStep)

(* Promises settle, timers fire, queries are answered, and time goes on. *)
Spec ==
  /\ Init /\ [][Next]_vars
  /\ WF_vars(Preparing(Migrate))
  /\ WF_vars(Prepared(Boot))
  /\ WF_vars(Prepared(Later(Tick)))
  /\ WF_vars(Prepared(Later(Poll)))

--------------------------------------------------------------------------------
(* What the queries say of the tables, whatever was ingested and           *)
(* materialized when *)

Older(S, d) == {e \in S : e < d}

(* The storage chart never falls by more than the rounding of a gap: the   *)
(* totals only grow, and a date without a row shows an earlier one.        *)
StorageNeverDips ==
  \A dur \in Duration :
    LET amount == HistoricalStorageAmount(dur)
    IN  \A d \in DOMAIN amount : \A e \in Older(DOMAIN amount, d) :
          2 * (amount[e] - amount[d]) <= Fine

Intervals == {Granule["MONTH"], Granule["WEEK"] * Reach["WEEK"],
              Granule["MONTH"] * Reach["MONTH"]}
SumOf(f) == Total(LAMBDA x : f[x], DOMAIN f)
Values(f) == {f[x] : x \in DOMAIN f}

(* The days with one miner that come right before the i-th. *)
Full(point) == Cardinality(DOMAIN point.data) = 2
LoneDays(points, i) == {j \in 1..i - 1 : \A k \in j..i - 1 : ~ Full(points[k])}

EvolutionAddsUp ==
  LET points == Evolution
  IN  \A i \in DOMAIN points :
        SumOf(points[i].data) + points[i].other =
          IF Full(points[i]) THEN Whole * (1 - Cardinality(LoneDays(points, i))) ELSE Whole
DistributionAddsUp ==
  \A ticks \in Intervals : \A T \in TopFour(ticks) :
    LET shares == Distribution(ticks, T)
    IN  Cardinality({LabelOf(m) : m \in T}) = Cardinality(T) =>
          SumOf(shares.data) + shares.other = shares.whole

BlocksMined(r) == r.blockPercentage[1]
NoBlockTwice ==
  (\A n, m \in ListMiners : n.address = m.address => n = m) =>
    Total(BlocksMined, Miners) <= Cardinality(Blocks)

(* The shares of a day and its "Other" make the whole, less one whole for *)
(* each of the days with one miner that come right before it: of these the *)
(* code takes the share from "Other", which is then below zero (see        *)
(* OtherIsTheRest). The shares of the last days make the whole if no two   *)
(* miners have the same label; no block is the share of two miners, unless *)
(* two nodes tell the same address.                                        *)
SharesAddUp ==
  Blocks # {} => EvolutionAddsUp /\ DistributionAddsUp /\ NoBlockTwice

(* The miners that a day does not show are its "Other", whatever the days *)
(* before it were like (docs/handoff/backend-architecture.md, "assigns the *)
(* rest to an Other category").                                            *)
OtherIsTheRest ==
  LET points == Evolution
  IN  \A i \in DOMAIN points :
        Full(points[i]) => points[i].other = Whole - SumOf(points[i].data)

Covers(histogram, amount, unit, increment, buckets) ==
  LET end == unit * increment * buckets
  IN  /\ SumOf(histogram.rows) + histogram.beyond =
           Cardinality({p \in DOMAIN amount :
                          amount[p] >= unit /\ ~ (amount[p] >= end /\ amount[p] < end + unit)})
      /\ \A p \in DOMAIN amount, n \in 1..buckets :
           BucketOf(amount[p], unit, increment, buckets) = n =>
             /\ unit * (BucketStart(n, increment) - 1) < amount[p]
             /\ amount[p] < unit * (BucketEnd(n, increment) + 1)

(* A histogram counts every address once, in the row whose limits hold its *)
(* amount, but for amounts under 1 and those of the unit under the last    *)
(* row's start, which no row counts; the two size classes count all.       *)
PledgersCountedOnce ==
  /\ Covers(CapacityHistogram, Capacities(Messages), Fine, CapacityIncrement, CapacityBuckets)
  /\ Covers(TokenHoldingsHistogram, Holdings, Coin, TokenIncrement, TokenBuckets)
  /\ CostCapacityBySize("lt").count + CostCapacityBySize("gte").count =
       Cardinality(PledgersOf(UniqueMessages))

CirculationAgrees(dur) ==
  \A point \in Values(CoinsInCirculation(dur)) :
    IF point.coinsInCollateral = NaN THEN \E c \in circulation : c.collateral = NaN
    ELSE /\ point.coinsInCollateral <= Total(Value, Pledges(UniqueMessages))
         /\ point.liquidCoins + point.coinsInCollateral <= Reward(Blocks)
TipAgrees ==
  \A s \in MiningStats : /\ \A b \in Blocks : TimeOf(b) <= s.lastBlockTime
                          /\ s.blocksInTipset = Len(Script[Tip].blocks)
SeriesAgree(dur) ==
  (/\ Blocks # {}
   /\ \A b \in Blocks : TimeOf(b) >= Trunc(dur, now) - Granule[dur] * Reach[dur]) =>
    /\ LastAmount(BlockRewards(dur)) = Reward(Blocks)
    /\ LastAmount(HistoricalCollateral(dur)) = Total(Value, Pledges(UniqueMessages))
    /\ SumOf(DailyVolume(dur)) = Total(Value, Transfers)

(* Three queries that add up different tables over the dates of a chart    *)
(* agree with the tables when the chart goes back to the first block; what *)
(* was materialized of the coins is never more than there are now, or NaN  *)
(* since a poll found no pledge; the last block is the latest ingested.    *)
TotalsAgree ==
  /\ TipAgrees
  /\ \A dur \in Duration : CirculationAgrees(dur) /\ SeriesAgree(dur)
Ratios ==
  (UNION {Values(HistoricalStoragePrice(dur)) \cup Values(HistoricalCollateralPerGB(dur))
            \cup Values(HistoricalUtilization(dur)) : dur \in Duration})
    \cup (UNION {LET class == CostCapacityBySize(op)
              IN  Values(class.utilization) \cup {class.averageCapacityGB, class.averageStoragePrice}
                : op \in {"lt", "gte"}})
    \cup Values(CollateralPerGBOfDays) \cup AverageBlockTimes
    \cup {AmountStats.trend, CostStats.average, CostStats.trend}

(* No query divides by zero: the handler of /sync would answer with 500.   *)
EveryRatioDefined == \A r \in Ratios : r[2] > 0

(* A process whose start has ended and that has the materializer goes on   *)
(* materializing, whatever calls have failed: at the last tick all four    *)
(* tables get a row.                                                       *)
EventuallyMaterialized ==
  <>[](boot \in {"up", "failed"} /\ (stage # "down" => MaterializedNow))
================================================================================
