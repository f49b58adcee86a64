------------------------------ MODULE MCNodeStatus ------------------------------
(* Three peers for two places; p1 and p2 may name the same miner, p3 has a *)
(* miner of its own, and each may come without one. p3 is at times on      *)
(* another chain.                                                          *)
EXTENDS HeartbeatServer

CONSTANTS p1, p2, p3, m1, m2

MCPeer == {p1, p2, p3}
MCMiner == {m1, m2}
MCAnnounces ==
  [p \in MCPeer |-> IF p = p3 THEN {m2} ELSE {m1}]

Says(p, m, complete, genesis) ==
  [from |-> p, miner |-> m, complete |-> complete, genesis |-> genesis]
MCPacket ==
  {Says(p1, m1, TRUE, "own"), Says(p1, NoMiner, TRUE, "own"), Says(p2, m1, TRUE, "own"),
   Says(p2, m1, FALSE, "own"), Says(p3, m2, TRUE, "own"), Says(p3, m2, TRUE, "other")}
=============================================================================
