------------------------------- MODULE NodeStatus -------------------------------
(***************************************************************************)
(* The in-memory list of heartbeating nodes: MemoryNodeStatusService       *)
(* (backend/src/service/NodeStatusService.ts) behind HeartbeatConsumer.    *)
(* consumeHeartbeat is synchronized: while one call waits for the          *)
(* database or the node, every other heartbeat gets that call's promise    *)
(* and its own content is dropped, which changes nothing: a stuttering     *)
(* step, like a heartbeat with another genesis CID.                        *)
(***************************************************************************)
EXTENDS Integers, FiniteSets, SequencesExt

CONSTANTS
  Peer, Miner,
  Announces,      \* [Peer -> SUBSET Miner], addresses a peer's heartbeats may carry
  NoMiner,        \* a heartbeat without minerAddress
  Absent,         \* no entry in data, or in addressMap
  MaxNodes,       \* MAX_NODES
  RefreshTime,    \* REFRESH_TIME_SECONDS
  MaxNow,         \* bound on the clock
  MaxFailures     \* bound on the calls that reject

ASSUME NodeStatusAssumption ==
  /\ Announces \in [Peer -> SUBSET Miner]
  /\ NoMiner \notin Miner /\ Absent \notin Peer
  /\ MaxNodes \in Nat \ {0}
  /\ RefreshTime \in Nat
  /\ MaxNow \in Nat /\ MaxFailures \in Nat

VARIABLES
  now,            \* tsProvider.now(), in seconds
  data,           \* [Peer -> node or Absent]
  addressMap,     \* [Miner -> Peer or Absent]
  lru,            \* peerId:time keys, the latest first
  nodeCount,
  call,           \* the consumeHeartbeat in flight, or NoCall
  failures        \* calls that have rejected so far

vars == <<now, data, addressMap, lru, nodeCount, call, failures>>

(* A node's refreshed stands for lastRefreshed and for the power and       *)
(* capacity that were read then.                                           *)
Nodes == [lastSeen : Nat, refreshed : Nat, miner : Miner \cup {NoMiner}]

ASSUME AbsentAssumption == Absent \notin Nodes

Keys == Peer \X Nat

(* What consumeHeartbeat keeps across its awaits. *)
Calls ==
  [st : {"none", "new", "old"}, peer : Peer \cup {Absent}, miner : Miner \cup {NoMiner},
   now : Nat, oldLastSeen : Nat]
NoCall == [st |-> "none", peer |-> Absent, miner |-> NoMiner, now |-> 0, oldLastSeen |-> 0]

Known == {p \in Peer : data[p] # Absent}

--------------------------------------------------------------------------------
(* The tail of the handler, after its awaits *)

(* lru.unshift of the new key; for a node seen before, its old key is      *)
(* searched from the end down to index 1 and spliced out if it is there.   *)
Touch(p, t) == <<<<p, t>>>> \o lru
OldKeyAt(p, t, oldT) ==
  {i \in 2..Len(Touch(p, t)) :
     /\ Touch(p, t)[i] = <<p, oldT>>
     /\ \A j \in i + 1..Len(Touch(p, t)) : Touch(p, t)[j] # <<p, oldT>>}
RetouchNoSplice(p, t, oldT) == Touch(p, t)     \* a mutant: the old key stays
RetouchInPlace(p, t, oldT) ==                  \* a mutant: the key keeps its place
  [i \in DOMAIN lru |-> IF lru[i] = <<p, oldT>> THEN <<p, t>> ELSE lru[i]]

Retouch(p, t, oldT) ==
  IF OldKeyAt(p, t, oldT) = {} THEN Touch(p, t)
  ELSE RemoveAt(Touch(p, t), CHOOSE i \in OldKeyAt(p, t, oldT) : TRUE)

(* Settle the maps D (data), A (addressMap), L (lru) and the count C: when *)
(* the lru is over MAX_NODES its last key goes, and the node and the       *)
(* address of that key's peer.  If that node is gone already the code      *)
(* throws at this.data[peerId].node, with only the key removed.            *)
NoOverflowByOne(D, A, L, C) ==     \* a mutant: one key too many
  /\ Len(L) <= MaxNodes + 1
  /\ data' = D /\ addressMap' = A /\ lru' = L /\ nodeCount' = C
  /\ UNCHANGED failures

NoOverflow(D, A, L, C) ==
  /\ Len(L) <= MaxNodes
  /\ data' = D /\ addressMap' = A /\ lru' = L /\ nodeCount' = C
  /\ UNCHANGED failures

EvictNode(D, A, L, C) ==     \* a mutant: the address stays
  /\ Len(L) > MaxNodes
  /\ lru' = Front(L)
  /\ data' = [D EXCEPT ![Last(L)[1]] = Absent] /\ addressMap' = A /\ nodeCount' = C - 1
  /\ UNCHANGED failures

EvictOther(D, A, L, C) ==    \* a mutant: the address of the latest node goes
  /\ Len(L) > MaxNodes
  /\ lru' = Front(L)
  /\ data' = [D EXCEPT ![Last(L)[1]] = Absent]
  /\ LET latest == D[L[1][1]]
     IN  addressMap' = [m \in Miner |-> IF m = latest.miner THEN Absent ELSE A[m]]
  /\ nodeCount' = C - 1
  /\ UNCHANGED failures

Evict(D, A, L, C) ==
  /\ Len(L) > MaxNodes
  /\ lru' = Front(L)
  /\ LET victim == Last(L)[1]
     IN  IF D[victim] = Absent
         THEN /\ data' = D /\ addressMap' = A /\ nodeCount' = C
              /\ failures' = failures + 1
         ELSE /\ data' = [D EXCEPT ![victim] = Absent]
              /\ addressMap' = [m \in Miner |-> IF m = D[victim].miner THEN Absent ELSE A[m]]
              /\ nodeCount' = C - 1
              /\ UNCHANGED failures

Finish(D, A, L, C) ==
  /\ NoOverflow(D, A, L, C) \/ Evict(D, A, L, C)
  /\ call' = NoCall

--------------------------------------------------------------------------------
(* Heartbeats of a peer p that names miner m *)

Idle == call.st = "none"

(* The node after a heartbeat; r is its lastRefreshed. *)
SeenAt(n, t, r) == [n EXCEPT !.lastSeen = t, !.refreshed = r]
NeedsRefresh(p) == now - data[p].refreshed > RefreshTime

(* Seen before and fresh, or refreshed without asking the node because the *)
(* heartbeat has no miner: no await, the handler runs through.             *)
HeartbeatKnown(p, m) ==
  /\ Idle /\ p \in Known
  /\ ~NeedsRefresh(p) \/ m = NoMiner
  /\ LET r == IF NeedsRefresh(p) THEN now ELSE data[p].refreshed
     IN  Finish([data EXCEPT ![p] = SeenAt(@, now, r)], addressMap,
                Retouch(p, now, data[p].lastSeen), nodeCount)
  /\ UNCHANGED now

(* Seen before and stale: lastSeen is written, then getRawMinerPower. *)
HeartbeatStale(p, m) ==
  /\ Idle /\ p \in Known
  /\ NeedsRefresh(p) /\ m # NoMiner
  /\ data' = [data EXCEPT ![p].lastSeen = now]
  /\ call' = [st |-> "old", peer |-> p, miner |-> m, now |-> now,
              oldLastSeen |-> data[p].lastSeen]
  /\ UNCHANGED <<now, addressMap, lru, nodeCount, failures>>

(* A new peer is counted, then located and its power asked for. *)
HeartbeatNew(p, m) ==
  /\ Idle /\ p \notin Known
  /\ nodeCount' = nodeCount + 1
  /\ call' = [st |-> "new", peer |-> p, miner |-> m, now |-> now, oldLastSeen |-> 0]
  /\ UNCHANGED <<now, data, addressMap, lru, failures>>

(* The awaited calls answer. *)
RefreshLands ==
  /\ call.st = "old"
  /\ Finish([data EXCEPT ![call.peer] = SeenAt(@, @.lastSeen, call.now)], addressMap,
            Retouch(call.peer, call.now, call.oldLastSeen), nodeCount)
  /\ UNCHANGED now

NewNodeLands ==
  /\ call.st = "new"
  /\ LET p == call.peer
         n == [lastSeen |-> call.now, refreshed |-> call.now, miner |-> call.miner]
     IN  Finish([data EXCEPT ![p] = n],
                [m \in Miner |-> IF m = call.miner THEN p ELSE addressMap[m]],
                Touch(p, call.now), nodeCount)
  /\ UNCHANGED now

(* ... or one of them rejects: HeartbeatConsumer logs it, and whatever the *)
(* handler had written before stays.                                       *)
CallFails ==
  /\ call.st # "none"
  /\ call' = NoCall
  /\ failures' = failures + 1
  /\ UNCHANGED <<now, data, addressMap, lru, nodeCount>>

Tick ==
  /\ now < MaxNow
  /\ now' = now + 1
  /\ UNCHANGED <<data, addressMap, lru, nodeCount, call, failures>>

--------------------------------------------------------------------------------
Init ==
  /\ now = 0
  /\ data = [p \in Peer |-> Absent]
  /\ addressMap = [m \in Miner |-> Absent]
  /\ lru = <<>> /\ nodeCount = 0
  /\ call = NoCall /\ failures = 0

Heartbeat ==
  \E p \in Peer : \E m \in Announces[p] \cup {NoMiner} :
    HeartbeatKnown(p, m) \/ HeartbeatStale(p, m) \/ HeartbeatNew(p, m)

Next ==
  \/ Heartbeat
  \/ RefreshLands \/ NewNodeLands
  \/ failures < MaxFailures /\ CallFails
  \/ Tick

Spec == Init /\ [][Next]_vars

--------------------------------------------------------------------------------
(* Properties *)

TypeOK ==
  /\ now \in Nat
  /\ data \in [Peer -> Nodes \cup {Absent}]
  /\ addressMap \in [Miner -> Peer \cup {Absent}]
  /\ lru \in Seq(Keys)
  /\ nodeCount \in Int /\ failures \in Nat
  /\ call \in Calls
  /\ call.st # "none" => call.peer \in Peer

(* getMinerByAddress never dereferences a node that is gone, and answers   *)
(* with a node of that very address, through evictions, failed calls and   *)
(* peers that share or change their address.                               *)
AddressMapSound ==
  \A m \in Miner :
    addressMap[m] # Absent =>
      /\ data[addressMap[m]] # Absent
      /\ data[addressMap[m]].miner = m

(* A miner whose address no other peer announces is found by it as long as *)
(* its node is listed.                                                     *)
OwnAddressFound ==
  \A p \in Known : \A m \in Announces[p] :
    (data[p].miner = m /\ \A q \in Peer \ {p} : m \notin Announces[q])
      => addressMap[m] = p

(* The list is bounded although failed calls leave keys that no later      *)
(* heartbeat removes: every node has a key, and there are MAX_NODES keys.  *)
Bounded ==
  /\ Len(lru) <= MaxNodes
  /\ Cardinality(Known) <= MaxNodes
  /\ \A p \in Known : \E i \in 1..Len(lru) : lru[i][1] = p

(* As long as no call has failed, the lru holds one key per node, carrying *)
(* its lastSeen, the most recent first, and nodeCount counts the nodes:    *)
(* the node that goes is the one that has been silent longest.             *)
Settled == failures = 0 /\ Idle
LruExact ==
  Settled =>
    /\ nodeCount = Cardinality(Known)
    /\ Len(lru) = nodeCount
    /\ \A p \in Known : Contains(lru, <<p, data[p].lastSeen>>)
    /\ \A i, j \in 1..Len(lru) : i < j => lru[i][2] >= lru[j][2]

(* A node that a heartbeat has just reached is not the one evicted, unless *)
(* a call failed before.                                                   *)
EvictsTheSilent ==
  [][failures' = 0 =>
       \A p, q \in Known :
         (data'[p] = Absent /\ data'[q] # Absent) => data[p].lastSeen <= data'[q].lastSeen]_vars

(* The inductive invariant behind the first three: a call in flight knows  *)
(* whether its peer is listed, since no other call can be under way, and a *)
(* node's miner is one that its peer announces.                            *)
CallInv ==
  /\ call.st = "new" => call.peer \notin Known
  /\ call.st = "old" => call.peer \in Known
  /\ call.st # "none" => call.miner \in Announces[call.peer] \cup {NoMiner}

MinerInv == \A p \in Known : data[p].miner \in Announces[p] \cup {NoMiner}

IInv == TypeOK /\ CallInv /\ MinerInv /\ AddressMapSound /\ OwnAddressFound /\ Bounded

(* The inductive invariant behind the other two. Seen is data as the lru   *)
(* knows it: the heartbeat in flight has written lastSeen ahead of its     *)
(* key. While no call has failed each key is of a listed node, with its    *)
(* lastSeen, no node has two, they are ordered, and none is later than the *)
(* clock, or than the call in flight read the clock.                       *)
Seen == IF call.st = "old"
        THEN [data EXCEPT ![call.peer].lastSeen = call.oldLastSeen] ELSE data

Exact(D, L, t) ==
  /\ \A i \in 1..Len(L) :
       D[L[i][1]] # Absent /\ L[i][2] = D[L[i][1]].lastSeen /\ L[i][2] <= t
  /\ \A i, j \in 1..Len(L) : i < j => L[i][1] # L[j][1] /\ L[i][2] >= L[j][2]

OrderInv ==
  failures = 0 =>
    /\ Exact(Seen, lru, IF Idle THEN now ELSE call.now)
    /\ nodeCount = Len(lru) + (IF call.st = "new" THEN 1 ELSE 0)
    /\ ~Idle => call.now <= now
    /\ call.st = "old" => data[call.peer].lastSeen = call.now
=============================================================================
