------------------------------ MODULE HeartbeatServer ------------------------------
(***************************************************************************)
(* HeartbeatServerImpl in front of MemoryNodeStatusService. Each line of a *)
(* connection has a handler of its own, which asks the connection twice    *)
(* before it hands the heartbeat on: pull.drain does not wait for it, so   *)
(* the packets of a peer may overtake one another. A line that is no JSON  *)
(* is dropped on the spot.                                                 *)
(***************************************************************************)
EXTENDS NodeStatus

CONSTANTS
  Packet,         \* [from, miner, complete, genesis], what the lines may say
  MaxPackets      \* bound: handlers under way at once

ASSUME PacketAssumption ==
  \A k \in Packet :
    /\ k.from \in Peer /\ k.miner \in Announces[k.from] \cup {NoMiner}
    /\ k.complete \in BOOLEAN              \* has a Head and a Height
    /\ k.genesis \in {"own", "other", "none"}

VARIABLES
  handlers,       \* calls of fireHandlers under way: [packet, st]
  heard           \* peers that have sent a complete packet of this chain

serverVars == <<vars, handlers, heard>>

HandleProtocol(k) ==
  /\ Cardinality(handlers) < MaxPackets
  /\ handlers' = handlers \cup {[packet |-> k, st |-> "peerInfo"]}
  /\ heard' = IF k.complete /\ k.genesis = "own" THEN heard \cup {k.from} ELSE heard
  /\ UNCHANGED vars

GetPeerInfo(h) ==
  /\ h.st = "peerInfo"
  /\ handlers' = (handlers \ {h}) \cup {[h EXCEPT !.st = "addrs"]}
  /\ UNCHANGED <<vars, heard>>

(* getPeerInfo or getObservedAddrs rejects or finds nothing. *)
GivesUp(h) ==
  /\ handlers' = handlers \ {h}
  /\ UNCHANGED <<vars, heard>>

(* consumer.handle. While another call is under way the heartbeat joins it *)
(* and is lost, as is one of another chain.                                *)
AnyGenesis(k) == TRUE        \* a mutant: the genesis CID is not compared
OwnGenesis(k) == k.genesis = "own"

ConsumeHeartbeat(k) ==
  IF Idle /\ OwnGenesis(k)
    THEN HeartbeatKnown(k.from, k.miner) \/ HeartbeatStale(k.from, k.miner)
           \/ HeartbeatNew(k.from, k.miner)
    ELSE UNCHANGED vars

IsValid(k) == k.complete /\ k.genesis # "none"

FireHandlers(h) ==
  /\ h.st = "addrs"
  /\ handlers' = handlers \ {h}
  /\ IF IsValid(h.packet) THEN ConsumeHeartbeat(h.packet) ELSE UNCHANGED vars
  /\ UNCHANGED heard

ServerInit == Init /\ handlers = {} /\ heard = {}

StatusStep ==
  \/ RefreshLands \/ NewNodeLands
  \/ failures < MaxFailures /\ CallFails
  \/ Tick

ServerNext ==
  \/ \E k \in Packet : HandleProtocol(k)
  \/ \E h \in handlers : GetPeerInfo(h) \/ GivesUp(h) \/ FireHandlers(h)
  \/ StatusStep /\ UNCHANGED <<handlers, heard>>

ServerSpec == ServerInit /\ [][ServerNext]_serverVars

--------------------------------------------------------------------------------
(* A node is listed, found by an address or evicted for another only if a  *)
(* packet of its own named a head, a height and this chain's genesis,      *)
(* however its packets overtake one another and calls fail in between.     *)
OnlyHeardAreListed ==
  /\ Known \subseteq heard
  /\ \A m \in Miner : addressMap[m] # Absent => addressMap[m] \in heard
  /\ \A i \in 1..Len(lru) : lru[i][1] \in heard
================================================================================
