------------------------------- MODULE TokenStats -------------------------------
(***************************************************************************)
(* The queries of PostgresTokenStatsDAO, PostgresMiningStatsDAO and        *)
(* PostgresMarketStatsDAO (backend/src/service/dao). Coins count           *)
(* VALUE_SECTOR_DIVISORs, Coin of which make one.                          *)
(***************************************************************************)
EXTENDS StatsTables, Histogram

CONSTANTS
  Coin,
  TokenIncrement, TokenBuckets,   \* 500000 and bucketCount - 1 = 5
  BlockReward,                    \* 1000
  TimedBlocks                     \* 100: blocks that the average block time is of

ASSUME TokenAssumption ==
  /\ Coin \in Nat \ {0} /\ TokenIncrement \in Nat \ {0, 1} /\ TokenBuckets \in Nat \ {0}
  /\ BlockReward \in Nat /\ TimedBlocks \in Nat \ {0}

Reward(blocks) == BlockReward * Coin * Cardinality(blocks)
Transfers == {r \in UniqueMessages : r[2].value > 0}

--------------------------------------------------------------------------------
(* TokenStatsDAO *)

Holding(a) ==
  Total(Value, {r \in Transfers : r[2].to = a})
    - Total(Value, {r \in Transfers : r[2].from = a})
    + Reward({b \in Blocks : MinerOf(b) = a})
Parties(rows) == {r[2].to : r \in rows} \cup {r[2].from : r \in rows}
Holders == {a \in Parties(Transfers) \cup {MinerOf(b) : b \in Blocks} : a # "" /\ Holding(a) > 0}
Holdings == [a \in Holders |-> Holding(a)]

TokenHoldingsHistogram ==
  [rows |-> Counts(Holdings, Coin, TokenIncrement, TokenBuckets),
   beyond |-> Overflow(Holdings, Coin, TokenIncrement, TokenBuckets)]

(* max() in Postgres: NaN is greater than every number. *)
Greatest(S) == IF NaN \in S THEN NaN ELSE Max({0} \cup S)

CoinsInCirculation(dur) ==
  [d \in DurationSeries(dur) |->
     LET of == {c \in circulation : Trunc(dur, c.at) = d}
         collateral == Greatest({c.collateral : c \in of})
         coins == Greatest({c.coins : c \in of})
     IN  [coinsInCollateral |-> collateral,
          liquidCoins |-> IF collateral = NaN THEN NaN ELSE coins - collateral]]

BlockRewards(dur) ==
  LET dates == DurationSeries(dur)
      rewarded == {b \in Blocks : Trunc(dur, TimeOf(b)) \in dates}
  IN  [d \in dates |-> Reward({b \in rewarded : Trunc(dur, TimeOf(b)) <= d})]

(* What materializeTokenStats computes: BigNumber(null) is NaN, and        *)
(* numeric takes 'NaN'.                                                    *)
UniqueAddresses == Cardinality(Parties(UniqueMessages))
CollateralizedCoins ==
  IF Pledges(UniqueMessages) = {} THEN NaN ELSE Total(Value, Pledges(UniqueMessages))

--------------------------------------------------------------------------------
(* MiningStatsDAO *)

(* The mean of the gaps between n blocks is (last - first) / (n - 1).      *)
AverageBlockTime(lim) ==
  LET times == {TimeOf(b) : b \in lim}
  IN  IF Cardinality(lim) < 2 THEN <<0, 1>>
      ELSE <<Max(times) - Min(times), Cardinality(lim) - 1>>
AverageBlockTimes == {AverageBlockTime(T) : T \in Tops(Blocks, HeightOf, TimedBlocks)}

(* Any block of the greatest height. *)
MiningStats ==
  {[lastBlockHeight |-> HeightOf(b), lastBlockTime |-> TimeOf(b), minerAddress |-> MinerOf(b),
    blocksInTipset |-> Cardinality({c \in Blocks : HeightOf(c) = HeightOf(b)})]
     : b \in UNION Tops(Blocks, HeightOf, 1)}

--------------------------------------------------------------------------------
(* MarketStatsDAO *)

DailyVolume(dur) ==
  [d \in DurationSeries(dur) |->
     Total(Value, {r \in Transfers : Trunc(dur, SentAt(r)) = d})]
================================================================================
