-------------------------------- MODULE MCBackend --------------------------------
(* Six blocks in four tipsets: a pledge that two blocks repeat, pledges on  *)
(* both sides of the histogram's limits, a day with one miner.              *)
EXTENDS Backend

Msg(from, to, method, value, sectors, price) ==
  [from |-> from, to |-> to, nonce |-> 0, method |-> method, value |-> value,
   sectors |-> sectors, price |-> price]
Pledge(from, value) == Msg(from, "market", "createStorageMiner", value, value, 0)
Block(miner, sent) == [miner |-> miner, sent |-> sent]

MCScript == <<
  [height |-> 1, blocks |-> <<Block("m1", {Pledge("m1", 1)}),
                              Block("m2", {Pledge("m1", 1)})>>],
  [height |-> 2, blocks |-> <<Block("m1", {Msg("m1", "m1", "addAsk", 0, 0, 3), Pledge("m2", 10),
                                           Msg("m1", "m2", "commitSector", 0, 0, 0)})>>],
  [height |-> 4, blocks |-> <<Block("m3", {Msg("m2", "m3", "commitSector", 0, 0, 0)}),
                              Block("m2", {Pledge("m3", 8), Pledge("m1", 3)}),
                              Block("m1", {Msg("m2", "m1", "createChannel", 1, 0, 0)})>>]>>

MCNodes == {
  [nick |-> "x", address |-> "m1", beats |-> 0 :> 1 @@ 3 :> 5],
  [nick |-> "x", address |-> "m2", beats |-> 1 :> 1],
  [nick |-> "y", address |-> "", beats |-> 2 :> 4]}

MCGranule == [DAY |-> 1, WEEK |-> 2, MONTH |-> 1, YEAR |-> 2, ALL |-> 2]
MCReach == [DAY |-> 1, WEEK |-> 1, MONTH |-> 2, YEAR |-> 1, ALL |-> 1]
MCSingleton == DOMAIN Registry

IpRange(from, to, where) == [from |-> from, to |-> to, place |-> where]
MCFiles == <<{IpRange(1, 3, "a"), IpRange(4, 4, "b")}, {IpRange(6, 9, "c")}>>
================================================================================
