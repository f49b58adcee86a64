------------------------------ MODULE MCChainWalk ------------------------------
(* A poll below every head of the DAG and down to every height; an ask to  *)
(* nobody, a sector of a miner without a block, two blocks of one miner; a *)
(* message that does not decode and an ask that is too long for an integer.*)
EXTENDS MinerCalls, MCChainDag

MCToBlocks == 0..7

MCMinerName == [b \in MCBlock |->
  CASE b = "g" -> "empty" [] b \in {"b2", "x"} -> "m2" [] OTHER -> "m1"]

Message(method, to, chunks, bits) ==
  [method |-> method, to |-> to, chunks |-> chunks, bits |-> bits]
MCMessages == [b \in MCBlock |->
  CASE b = "a" -> <<Message("addAsk", "empty", 2, 31), Message("transfer", "m3", 3, 0)>>
    [] b = "c" -> <<Message("commitSector", "m2", 5, 0), Message("commitSector", "empty", 0, 0)>>
    [] b = "d" -> <<Message("addAsk", "m1", 2, 32)>>
    [] b = "f2" -> <<Message("addAsk", "m2", 3, 0)>>
    [] OTHER -> <<>>]

MCReply == {[power |-> 1, total |-> 2], [power |-> 2, total |-> 3], NoPower}
================================================================================
