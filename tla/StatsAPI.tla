--------------------------------- MODULE StatsAPI ---------------------------------
(***************************************************************************)
(* Which series the backend answers with: the routes of StatsAPI, the      *)
(* answer of SyncAPI, and the delegates of the DAOs they call. A series is *)
(* named after its query (modules StorageStats and TokenStats) and the     *)
(* duration it is of; the other queries have no choice of a duration.      *)
(***************************************************************************)
ChartDuration == {"24h", "1w", "1m", "1y", "all"}
MONTH == "1m"

Series(query, dur) == [query |-> query, dur |-> dur]

(* The delegates that take a duration. *)
ssd ==
  [historicalMinerCountStats |-> "HistoricalMinerCounts",
   historicalStoragePrice    |-> "HistoricalStoragePrice",
   historicalCollateral      |-> "HistoricalCollateral",
   historicalCollateralPerGB |-> "HistoricalCollateralPerGB",
   historicalStorageAmount   |-> "HistoricalStorageAmount",
   historicalUtilization     |-> "HistoricalUtilization"]
tsd ==
  [historicalBlockRewards       |-> "BlockRewards",
   historicalCoinsInCirculation |-> "CoinsInCirculation"]
mksd == [historicalVolume |-> "DailyVolume"]

Routed ==
  {"storage/historicalMinerCounts", "storage/historicalStoragePrice",
   "storage/historicalCollateral", "storage/historicalCollateralPerGB",
   "storage/historicalStorageAmount", "storage/historicalUtilization",
   "token/historicalBlockRewards", "token/historicalCoinsInCirculation",
   "market/historicalTokenVolume"}
GET == [path \in Routed |->
  CASE path = "storage/historicalMinerCounts" -> ssd.historicalMinerCountStats
    [] path = "storage/historicalStoragePrice" -> ssd.historicalStoragePrice
    [] path = "storage/historicalCollateral" -> ssd.historicalCollateral
    [] path = "storage/historicalCollateralPerGB" -> ssd.historicalCollateralPerGB
    [] path = "storage/historicalStorageAmount" -> ssd.historicalStorageAmount
    [] path = "storage/historicalUtilization" -> ssd.historicalUtilization
    [] path = "token/historicalBlockRewards" -> tsd.historicalBlockRewards
    [] path = "token/historicalCoinsInCirculation" -> tsd.historicalCoinsInCirculation
    [] path = "market/historicalTokenVolume" -> mksd.historicalVolume]

(* Any other path is a 404 and a handler that throws a 500. *)
IsMounted(path, dur) == path \in DOMAIN GET /\ dur \in ChartDuration
Answer(path, dur) == Series(GET[path], dur)

--------------------------------------------------------------------------------
(* GET sync: getStats of the DAOs and the two conversions of Stats.ts,     *)
(* which name every field.                                                 *)

StorageStats ==
  [storageAmount             |-> Series("HistoricalStorageAmount", MONTH),
   storageCost               |-> Series("HistoricalStoragePrice", MONTH),
   historicalCollateral      |-> Series("HistoricalCollateral", MONTH),
   historicalCollateralPerGB |-> Series("HistoricalCollateralPerGB", MONTH),
   historicalMinerCounts     |-> Series("HistoricalMinerCounts", MONTH),
   capacityHistogram         |-> "CapacityHistogram",
   networkUtilization        |-> Series("HistoricalUtilization", MONTH),
   evolution                 |-> "Evolution"]

TokenStats ==
  [tokenHoldingsDistribution |-> "TokenHoldingsHistogram",
   blockRewardsOverTime      |-> Series("BlockRewards", MONTH),
   coinsInCirculation        |-> Series("CoinsInCirculation", MONTH)]

StorageFields ==
  {"storageAmount", "storageCost", "historicalCollateral", "historicalCollateralPerGB",
   "historicalMinerCounts", "capacityHistogram", "networkUtilization", "evolution"}
TokenFields == {"tokenHoldingsDistribution", "blockRewardsOverTime", "coinsInCirculation"}

storageStatsToJSON(stats) == [f \in StorageFields |-> stats[f]]
storageStatsFromJSON(json) == [f \in StorageFields |-> json[f]]
tokenStatsToJSON(stats) == [f \in TokenFields |-> stats[f]]
tokenStatsFromJSON(json) == [f \in TokenFields |-> json[f]]

statsToJSON(storage, token) ==
  [storage |-> storageStatsToJSON(storage), token |-> tokenStatsToJSON(token)]
statsFromJSON(json) ==
  [storage |-> storageStatsFromJSON(json.storage), token |-> tokenStatsFromJSON(json.token)]

(* state.stats.stats of the dashboard *)
Sync == statsFromJSON(statsToJSON(StorageStats, TokenStats))
================================================================================
