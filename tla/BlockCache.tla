------------------------------- MODULE BlockCache -------------------------------
(***************************************************************************)
(* The cache of blocks by height: BlocksDAO.byHeights and byHeight         *)
(* (backend/src/service/dao/BlocksDAO.ts) over the eager entries of        *)
(* MemoryCacheService (setProactiveExpiry, get), and the requests of       *)
(* StorageStatsDAO.getMiners that list the miners by them, several at a    *)
(* time, while the Chainsaw inserts heights and heartbeats move the nodes. *)
(*                                                                         *)
(* Rows of the blocks table are named by their height. That the table only *)
(* grows above its top is what ChainIngest shows (ImplementsLedger).       *)
(***************************************************************************)
EXTENDS Integers

CONSTANTS
  MaxHeight,    \* bound: the heights of the chain
  NullRounds,   \* heights at which no block was mined
  Nodes,        \* the nodes of listMiners
  Requests      \* the requests that are under way at a time

ASSUME BlockCacheAssumption == MaxHeight \in Nat \ {0} /\ NullRounds \subseteq 1..MaxHeight

VARIABLES
  rows,      \* heights in the blocks table
  topBlock,  \* BlocksDAO.topBlock as a height, 0 for null
  cache,     \* [Heights -> what get() finds]
  armed,     \* entries whose expiry timer runs
  flight,    \* the call of byHeights that runs
  height,    \* [Nodes -> Heights], node.height as of its last heartbeat
  request    \* [Requests -> what its getMiners knows]

vars == <<rows, topBlock, cache, armed, flight, height, request>>

Heights == 0..MaxHeight
Entry == {"none", "null", "block"}

(* What byHeights returns: blocks, by their heights, and NULL_SIGIL, which *)
(* has no height: blockIdx keeps it under "undefined".                     *)
Sigil == -1
Results == Heights \cup {Sigil}

(* asked: its argument; todo: uncachedBlocks still to come; result: what   *)
(* it will return so far; at, res: what byHeight has read.                 *)
NoFlight == [asked |-> {}, todo |-> {}, result |-> {}, at |-> 0, res |-> "none"]

(* top, asks: topBlockNumber and blockNums; joined: byHeights ran already  *)
(* for another; looked: the heights of the call that answered; blocks: the *)
(* answer. joined and looked are only there to be spoken of.               *)
Idle == [phase |-> "idle", top |-> 0, asks |-> {}, joined |-> FALSE,
         looked |-> {}, blocks |-> {}]
Waiting(c) == request[c].phase = "waits"

Running == flight.asked # {}

--------------------------------------------------------------------------------
(* The Chainsaw *)

(* persistPoll commits the next confirmed heights, all of them up to n. *)
Persist ==
  /\ \E n \in 1..MaxHeight \ NullRounds :
       /\ \A m \in rows : m < n
       /\ rows' = rows \cup {h \in 1..n \ NullRounds : \A m \in rows : m < h}
  /\ UNCHANGED <<topBlock, cache, armed, flight, height, request>>

(* top(true) after it, or the first top(). *)
RefreshTop ==
  /\ \E n \in rows : (\A m \in rows : m <= n) /\ topBlock' = n
  /\ UNCHANGED <<rows, cache, armed, flight, height, request>>

--------------------------------------------------------------------------------
(* getMiners *)

(* consumeHeartbeat writes into the very objects that listMiners returns. *)
Heartbeat(n) ==
  /\ \E h \in Heights : height' = [height EXCEPT ![n] = h]
  /\ UNCHANGED <<rows, topBlock, cache, armed, flight, request>>

(* The heights of the nodes, none above the top block. *)
UncappedHeights(top) == {height[n] : n \in Nodes} \cup {top}    \* a mutant: node.height as it is
Place(n, top) == IF height[n] > top THEN top ELSE height[n]
BlockNums(top) == {Place(n, top) : n \in Nodes} \cup {top}

(* byHeights takes what is cached, nulls too, and looks for the rest.      *)
ByHeights(H) ==
  [NoFlight EXCEPT
     !.asked  = H,
     !.todo   = {h \in H : cache[h] = "none"},
     !.result = {IF cache[h] = "block" THEN h ELSE Sigil : h \in {k \in H : cache[k] # "none"}}]

(* getMiners up to byHeights. Who calls it while it runs gets its promise, *)
(* and nobody looks for the heights of that call (synchronized). Without a *)
(* top block the request ends with a TypeError.                            *)
GetMiners(c) ==
  /\ topBlock # 0 /\ request[c] = Idle
  /\ request' = [request EXCEPT ![c] =
                   [phase |-> "waits", top |-> topBlock, asks |-> BlockNums(topBlock),
                    joined |-> Running, looked |-> {}, blocks |-> {}]]
  /\ flight' = IF Running THEN flight ELSE ByHeights(BlockNums(topBlock))
  /\ UNCHANGED <<rows, topBlock, cache, armed, height>>

(* byHeight's query reads the table. Its cached branch is never taken:     *)
(* byHeights is its only caller and asks for heights without an entry.     *)
ByHeight ==
  /\ flight.res = "none"
  /\ \E h \in flight.todo :
       flight' = [flight EXCEPT !.todo = @ \ {h}, !.at = h,
                                !.res = IF h \in rows THEN "block" ELSE "null"]
  /\ UNCHANGED <<rows, topBlock, cache, armed, height, request>>

(* Its result is cached, also that there is none, with a new timer. *)
WithNulls(h) == flight.result \cup {h}     \* a mutant: null gets into dbBlocks
Pushed(h) == IF flight.res = "block" THEN flight.result \cup {h} ELSE flight.result

QueryLands ==
  /\ flight.res # "none"
  /\ cache' = [cache EXCEPT ![flight.at] = flight.res]
  /\ armed' = armed \cup {flight.at}
  /\ flight' = [flight EXCEPT !.result = Pushed(flight.at), !.at = 0, !.res = "none"]
  /\ UNCHANGED <<rows, topBlock, height, request>>

(* All who wait get the one array, whatever heights they have asked for. *)
Answered(c) == [request[c] EXCEPT !.phase = "lists", !.looked = flight.asked,
                                  !.blocks = flight.result]
Return ==
  /\ Running /\ flight.todo = {} /\ flight.res = "none"
  /\ request' = [c \in Requests |-> IF Waiting(c) THEN Answered(c) ELSE request[c]]
  /\ flight' = NoFlight
  /\ UNCHANGED <<rows, topBlock, cache, armed, height>>

(* A query that fails rejects the call and all who have joined it. *)
QueryFails ==
  /\ flight.todo # {} /\ flight.res = "none"
  /\ request' = [c \in Requests |-> IF Waiting(c) THEN Idle ELSE request[c]]
  /\ flight' = NoFlight
  /\ UNCHANGED <<rows, topBlock, cache, armed, height>>

(* After getMinerData the nodes whose block is in blockIdx are listed, at  *)
(* the heights that they have by then; the top is that of the start. When  *)
(* getMinerData rejects, the request ends all the same.                    *)
Listed(c) == {n \in Nodes : Place(n, request[c].top) \in request[c].blocks}

ListMiners(c) ==
  /\ request[c].phase = "lists"
  /\ request' = [request EXCEPT ![c] = Idle]
  /\ UNCHANGED <<rows, topBlock, cache, armed, flight, height>>

--------------------------------------------------------------------------------
(* The timer of an entry fires: it deletes the entry if its expiry has     *)
(* passed, but a timer of n ms may well fire n ms after it was set, when   *)
(* expiry < Date.now() does not hold yet.                                  *)
TimerFires(h) ==
  /\ h \in armed
  /\ armed' = armed \ {h}
  /\ cache' = [cache EXCEPT ![h] = "none"] \/ UNCHANGED cache
  /\ UNCHANGED <<rows, topBlock, flight, height, request>>

--------------------------------------------------------------------------------
Init ==
  /\ rows = {}
  /\ topBlock = 0
  /\ cache = [h \in Heights |-> "none"]
  /\ armed = {}
  /\ flight = NoFlight
  /\ height \in [Nodes -> {0}]
  /\ request = [c \in Requests |-> Idle]

Next ==
  \/ Persist \/ RefreshTop
  \/ ByHeight \/ QueryLands \/ Return \/ QueryFails
  \/ \E n \in Nodes : Heartbeat(n)
  \/ \E c \in Requests : GetMiners(c) \/ ListMiners(c)
  \/ \E h \in Heights : TimerFires(h)

Spec == Init /\ [][Next]_vars

(* The database answers, handlers go on, timers fire. *)
Fairness ==
  /\ WF_vars(ByHeight \/ QueryFails) /\ WF_vars(QueryLands) /\ WF_vars(Return)
  /\ \A c \in Requests : WF_vars(ListMiners(c))
  /\ \A h \in Heights : WF_vars(TimerFires(h))

FairSpec == Spec /\ Fairness

--------------------------------------------------------------------------------
(* Properties *)

TypeOK ==
  /\ rows \in SUBSET (1..MaxHeight)
  /\ topBlock \in Heights
  /\ cache \in [Heights -> Entry]
  /\ armed \in SUBSET Heights
  /\ flight \in [asked : SUBSET Heights, todo : SUBSET Heights,
                 result : SUBSET Results, at : Heights, res : Entry]
  /\ height \in [Nodes -> Heights]
  /\ request \in [Requests -> [phase : {"idle", "waits", "lists"}, top : Heights,
                               asks : SUBSET Heights, joined : BOOLEAN,
                               looked : SUBSET Heights, blocks : SUBSET Results]]

(* An entry is as good as the table, however long it outlives its expiry:  *)
(* a height that is cached as having no block is a null round, and not one *)
(* that the Chainsaw had still to reach when the query read the table.     *)
CacheTellsTheTruth ==
  \A h \in Heights : cache[h] # "none" => (cache[h] = "block" <=> h \in rows)

(* A request lists exactly the nodes that are, when it lists them, at a    *)
(* height with a block that the call which answered it was asked for,      *)
(* though entries have expired and rows have come meanwhile; a sigil in    *)
(* the answer stands for a null round and lists nobody. That call looked   *)
(* for all heights of the request that started it. A node on an ingested   *)
(* height can thus be missing from the list for two reasons only: the      *)
(* request had joined a call for other heights, or the node has moved      *)
(* since, for getMiners reads node.height again (StorageStatsDAO.ts:362).  *)
AnswersAreComplete ==
  [][\A c \in Requests : ListMiners(c) =>
       LET r == request[c]
       IN  /\ Listed(c) = {n \in Nodes : Place(n, r.top) \in r.looked \cap rows}
           /\ Sigil \in r.blocks => ~(r.looked \subseteq rows)
           /\ r.asks \subseteq r.looked \/ r.joined]_vars

(* Eager entries expire themselves (docs/handoff/backend-architecture.md). *)
EntriesExpire == \A h \in Heights : cache[h] # "none" ~> cache[h] = "none"
===============================================================================
