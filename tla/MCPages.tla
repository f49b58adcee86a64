--------------------------------- MODULE MCPages ---------------------------------
EXTENDS Pages

MCCasts ==
  {{"MinerCountChart", "HistoricalBlockRewards"},
   {"HistoricalCollateralChart"},
   {"HistoricalStoragePriceChart"}, {"HistoricalUtilizationChart"},
   {"HistoricalCollateralPerGBChart", "StorageCapacityHistogram"},
   {"CoinsInCirculation", "TokenHoldingsDistribution"},
   {"StorageMinersTable", "MiningEvolutionChart"}, {"SingleStat"}}
MCNickname == [q \in {"", "a"} |-> IF q = "" THEN 1..20 ELSE {2}]
(* One page and two, both full. *)
MCLists == {1..10, 1..20}

(* Below, at and above every unit, and a tenth of the unit to either side. *)
MCThousand == 20
MCSizes ==
  {s \in UNION {{k * MCThousand ^ e + d, k * MCThousand ^ e + (d * MCThousand ^ e) \div MCThousand} :
                  k \in {1, 19, 20}, e \in 0..5, d \in -1..3} : s >= 0}
================================================================================
