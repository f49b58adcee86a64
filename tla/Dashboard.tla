------------------------------- MODULE Dashboard -------------------------------
(***************************************************************************)
(* The way of the statistics from the tables to the browsers: the poll     *)
(* loop of the frontend (frontend/src/ducks/stats.ts), the /sync handler   *)
(* (backend/src/service/api/SyncAPI.ts), which asks for one statistic      *)
(* after the other, and MemoryCacheService.wrapMethod, which answers from  *)
(* an entry that has not expired or lets one query for all who ask.        *)
(*                                                                         *)
(* One action is what runs between two awaits. The contents of the tables  *)
(* are a version number that grows.                                        *)
(***************************************************************************)
EXTENDS Integers, Sequences

CONSTANTS
  Browser,      \* open pages of the dashboard
  Stat,         \* keys of the cache
  Order,        \* the order in which the handler asks for them
  MaxVersion,   \* bound: how often the tables change
  None          \* no value, nobody

ASSUME DashboardAssumption ==
  /\ MaxVersion \in Nat /\ None \notin Nat /\ None \notin Browser
  /\ Order \in Seq(Stat) /\ Order # <<>>
  /\ \A s \in Stat : \E i \in 1..Len(Order) : Order[i] = s
  /\ \A i, j \in 1..Len(Order) : Order[i] = Order[j] => i = j

VARIABLES
  tables,   \* the version that the tables are in
  cache,    \* [Stat -> value and whether it has not expired yet]
  flight,   \* [Browser -> the query that its request has started]
  page,     \* [Browser -> where its poll loop is]
  at,       \* how far the handler of its request has come in Order
  awaits,   \* whose query its request awaits
  got,      \* [Browser -> [Stat -> value]]: what its request has so far
  shown     \* [Browser -> [Stat -> value]]: the stats in its store

requestVars == <<at, awaits, got>>
vars == <<tables, cache, flight, page, requestVars, shown>>

NoStats == [s \in Stat |-> None]
NoFlight == [st |-> "none", stat |-> Order[1], val |-> None]
Answered == Len(Order) + 1

(* cached.expiry >= Date.now() *)
IsHitForEver(s) == cache[s].val # None     \* a mutant: the expiry is not looked at
IsHit(s) == cache[s].val # None /\ cache[s].fresh

(* flights[key] (synchronizedOn): the browsers whose query for s is out. *)
NoFlights(s) == {}                         \* a mutant: everyone sends a query
Flights(s) == {b \in Browser : flight[b].st # "none" /\ flight[b].stat = s}

Awaiting(b) == {c \in Browser : awaits[c] = b}

--------------------------------------------------------------------------------
(* The browser *)

(* poll(): from Main.componentDidMount, or when the timer fires. *)
Poll(b) ==
  /\ page' = [page EXCEPT ![b] = "asking"]
  /\ at' = [at EXCEPT ![b] = 1]
  /\ got' = [got EXCEPT ![b] = NoStats]
  /\ UNCHANGED <<tables, cache, flight, awaits, shown>>

Mount(b) == page[b] = "closed" /\ Poll(b)
Timer(b) == page[b] = "waiting" /\ Poll(b)

(* SET_STATS, and the timer for the next poll. *)
Receive(b) ==
  /\ page[b] = "asking" /\ at[b] = Answered
  /\ shown' = [shown EXCEPT ![b] = got[b]]
  /\ page' = [page EXCEPT ![b] = "waiting"]
  /\ UNCHANGED <<tables, cache, flight, requestVars>>

(* Every poll() starts with first = true, and so it throws when its own    *)
(* request fails: no timer is set, the loop is over.                       *)
Stops(B) == page' = [b \in Browser |-> IF b \in B THEN "stopped" ELSE page[b]]

(* The answer is lost, and the handler goes on without its client, or the  *)
(* request is, and there is no handler.                                    *)
NetworkFails(b) ==
  /\ page[b] = "asking"
  /\ Stops({b})
  /\ \/ UNCHANGED at
     \/ at[b] = 1 /\ awaits[b] = None /\ at' = [at EXCEPT ![b] = Answered]
  /\ UNCHANGED <<tables, cache, flight, awaits, got, shown>>

--------------------------------------------------------------------------------
(* The server *)

(* All of B have value v of statistic s, and ask for their next one. *)
Take(B, s, v) ==
  /\ got' = [b \in Browser |-> IF b \in B THEN [got[b] EXCEPT ![s] = v] ELSE got[b]]
  /\ at' = [b \in Browser |-> IF b \in B THEN at[b] + 1 ELSE at[b]]

(* wrapMethod: join the query that is out, or take what is cached, or ask  *)
(* the database.                                                           *)
WrapMethod(b) ==
  /\ awaits[b] = None /\ at[b] # Answered
  /\ LET s == Order[at[b]] IN
     \/ /\ \E c \in Flights(s) : awaits' = [awaits EXCEPT ![b] = c]
        /\ UNCHANGED <<flight, at, got>>
     \/ /\ Flights(s) = {} /\ IsHit(s)
        /\ Take({b}, s, cache[s].val)
        /\ UNCHANGED <<flight, awaits>>
     \/ /\ Flights(s) = {} /\ ~IsHit(s)
        /\ flight' = [flight EXCEPT ![b] = [st |-> "sent", stat |-> s, val |-> None]]
        /\ awaits' = [awaits EXCEPT ![b] = b]
        /\ UNCHANGED <<at, got>>
  /\ UNCHANGED <<tables, cache, page, shown>>

QueryReads(b) ==
  /\ flight[b].st = "sent"
  /\ flight' = [flight EXCEPT ![b].st = "read", ![b].val = tables]
  /\ UNCHANGED <<tables, cache, page, requestVars, shown>>

(* The query's result is cached and goes to all who wait for it. *)
QueryLands(b) ==
  /\ flight[b].st = "read"
  /\ cache' = [cache EXCEPT ![flight[b].stat] = [val |-> flight[b].val, fresh |-> TRUE]]
  /\ Take(Awaiting(b), flight[b].stat, flight[b].val)
  /\ awaits' = [c \in Browser |-> IF awaits[c] = b THEN None ELSE awaits[c]]
  /\ flight' = [flight EXCEPT ![b] = NoFlight]
  /\ UNCHANGED <<tables, page, shown>>

(* A failed query rejects all who wait for it: APIServer answers each with *)
(* a 500. The finally clears the flight, the cache keeps what it had.      *)
NobodyRejected(b) == UNCHANGED <<page, at, awaits>>    \* a mutant: mountMethod without catch
Rejected(b) ==
  /\ Stops(Awaiting(b))
  /\ at' = [c \in Browser |-> IF c \in Awaiting(b) THEN Answered ELSE at[c]]
  /\ awaits' = [c \in Browser |-> IF awaits[c] = b THEN None ELSE awaits[c]]

QueryFails(b) ==
  /\ flight[b].st = "sent"
  /\ flight' = [flight EXCEPT ![b] = NoFlight]
  /\ Rejected(b)
  /\ UNCHANGED <<tables, cache, got, shown>>

(* DEFAULT_CACHE_TIME passes. *)
Expire(s) ==
  /\ IsHit(s)
  /\ cache' = [cache EXCEPT ![s].fresh = FALSE]
  /\ UNCHANGED <<tables, flight, page, requestVars, shown>>

TablesChange ==
  /\ tables < MaxVersion
  /\ tables' = tables + 1
  /\ UNCHANGED <<cache, flight, page, requestVars, shown>>

--------------------------------------------------------------------------------
Init ==
  /\ tables = 0
  /\ cache = [s \in Stat |-> [val |-> None, fresh |-> FALSE]]
  /\ flight = [b \in Browser |-> NoFlight]
  /\ page = [b \in Browser |-> "closed"]
  /\ at = [b \in Browser |-> Answered]
  /\ awaits = [b \in Browser |-> None]
  /\ got = [b \in Browser |-> NoStats]
  /\ shown = [b \in Browser |-> NoStats]

Next ==
  \/ \E b \in Browser :
       \/ Mount(b) \/ Timer(b) \/ Receive(b) \/ NetworkFails(b)
       \/ WrapMethod(b) \/ QueryReads(b) \/ QueryLands(b) \/ QueryFails(b)
  \/ \E s \in Stat : Expire(s)
  \/ TablesChange

Spec == Init /\ [][Next]_vars

(* Timers fire, the server runs its handlers, the database answers, time   *)
(* passes. Nothing has to change, open, or fail.                           *)
Fairness ==
  /\ \A b \in Browser :
       /\ WF_vars(Timer(b)) /\ WF_vars(Receive(b)) /\ WF_vars(WrapMethod(b))
       /\ WF_vars(QueryReads(b)) /\ WF_vars(QueryLands(b) \/ QueryFails(b))
  /\ \A s \in Stat : WF_vars(Expire(s))

FairSpec == Spec /\ Fairness

--------------------------------------------------------------------------------
(* Properties *)

(* What a page shows never gets older from one poll to the next, though it *)
(* comes from the cache, from queries of its own and of others: no query   *)
(* that was overtaken may land in the cache (synchronizedOn).              *)
Older(v, w) == v # None /\ w # None /\ v < w
NeverOlder ==
  [][\A b \in Browser, s \in Stat : ~Older(shown'[b][s], shown[b][s])]_vars

(* Every poll comes to an end, also when the query it has joined fails:    *)
(* nobody joins a query that is over.                                      *)
EveryPollEnds ==
  \A b \in Browser : page[b] = "asking" ~> page[b] # "asking"

(* A page that keeps polling shows the tables as they are in the end: no   *)
(* entry of the cache outlives its time for those who ask.                 *)
EventuallyCurrent ==
  \A b \in Browser, s \in Stat :
    tables = MaxVersion /\ page[b] = "waiting"
      ~> page[b] = "stopped" \/ shown[b][s] = MaxVersion

(* Once it runs, the loop that poll() kicks off asks /sync again and       *)
(* again, continually (docs/handoff/frontend-architecture.md).             *)
KeepsPolling ==
  \A b \in Browser : shown[b] # NoStats ~> page[b] = "waiting"
===============================================================================
