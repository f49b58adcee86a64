---------------------------- MODULE DashboardProofs ----------------------------
(***************************************************************************)
(* What the browsers show, for every value of the constants. The poll      *)
(* never shows older statistics than before, for any number of open pages  *)
(* and statistics, whatever fails and whosever query a request joins. The  *)
(* pager never turns to a page without rows, a chart shows the series of   *)
(* the duration that is marked, the render queue forgets no chart, and     *)
(* labels tell the sizes they stand for.                                   *)
(***************************************************************************)
EXTENDS Dashboard, Pages, FoldFacts

Value == Nat \cup {None}

(* No value is older than every value. *)
NotOlder(v, w) == v = None \/ (w # None /\ v <= w)

TypesInv ==
  /\ tables \in Nat
  /\ cache \in [Stat -> [val : Value, fresh : BOOLEAN]]
  /\ flight \in [Browser -> [st : {"none", "sent", "read"}, stat : Stat, val : Value]]
  /\ page \in [Browser -> {"closed", "waiting", "asking", "stopped"}]
  /\ at \in [Browser -> 1..Answered]
  /\ awaits \in [Browser -> Browser \cup {None}]
  /\ got \in [Browser -> [Stat -> Value]]
  /\ shown \in [Browser -> [Stat -> Value]]

(* One query for each statistic; who has sent one awaits it, and who       *)
(* awaits one has come to its statistic. Nobody asks between two polls.    *)
FlightInv ==
  /\ \A b, c \in Browser :
       flight[b].st # "none" /\ flight[c].st # "none" /\ flight[b].stat = flight[c].stat
         => b = c
  /\ \A b \in Browser : flight[b].st # "none" => awaits[b] = b
  /\ \A b \in Browser : awaits[b] # None =>
       /\ flight[awaits[b]].st # "none"
       /\ at[b] # Answered /\ flight[awaits[b]].stat = Order[at[b]]
  /\ \A b \in Browser : page[b] \in {"closed", "waiting"} => at[b] = Answered

(* What has been read is not older than what is cached, which is not older *)
(* than what anyone has; and what a handler has found since its poll began *)
(* is not older than what its page shows.                                  *)
ValueInv ==
  /\ \A s \in Stat : NotOlder(cache[s].val, tables)
  /\ \A b \in Browser : flight[b].st = "read" =>
       flight[b].val # None /\ NotOlder(cache[flight[b].stat].val, flight[b].val)
         /\ NotOlder(flight[b].val, tables)
  /\ \A b \in Browser, s \in Stat :
       NotOlder(got[b][s], cache[s].val) /\ NotOlder(shown[b][s], cache[s].val)
  /\ \A b \in Browser : page[b] = "asking" =>
       \A i \in 1..Len(Order) : i < at[b] => NotOlder(shown[b][Order[i]], got[b][Order[i]])

PollInv == TypesInv /\ FlightInv /\ ValueInv

--------------------------------------------------------------------------------
LEMMA NotOlderTransitive ==
  ASSUME NEW u \in Value, NEW v \in Value, NEW w \in Value, NotOlder(u, v), NotOlder(v, w)
  PROVE  NotOlder(u, w)
BY DashboardAssumption DEF NotOlder, Value

LEMMA OrderFacts ==
  /\ Len(Order) \in Nat /\ Len(Order) > 0 /\ Answered = Len(Order) + 1
  /\ \A i \in 1..Len(Order) : Order[i] \in Stat
  /\ \A i \in 1..Answered : i # Answered => i \in 1..Len(Order)
<1>1. Len(Order) \in Nat /\ Len(Order) > 0
  BY DashboardAssumption, LenProperties, EmptySeq
<1>2. \A i \in 1..Len(Order) : Order[i] \in Stat
  BY DashboardAssumption, ElementOfSeq
<1>3. QED
  BY <1>1, <1>2 DEF Answered

LEMMA InitPoll == Init => PollInv
<1> SUFFICES ASSUME Init PROVE PollInv
  OBVIOUS
<1>1. 1 \in 1..Len(Order) /\ Order[1] \in Stat /\ Answered \in 1..Answered
  BY OrderFacts
<1>2. TypesInv
  BY <1>1 DEF Init, TypesInv, Value, NoFlight, NoStats
<1>3. FlightInv
  BY <1>1 DEF Init, FlightInv, NoFlight
<1>4. ValueInv
  BY <1>1 DEF Init, ValueInv, NoFlight, NoStats, NotOlder
<1>5. QED
  BY <1>2, <1>3, <1>4 DEF PollInv

--------------------------------------------------------------------------------
(* The browser *)

LEMMA PollKeeps ==
  ASSUME PollInv, NEW b \in Browser, Mount(b) \/ Timer(b)
  PROVE  PollInv' /\ UNCHANGED shown
<1>1. /\ at[b] = Answered /\ awaits[b] = None
      /\ page' = [page EXCEPT ![b] = "asking"]
      /\ at' = [at EXCEPT ![b] = 1]
      /\ got' = [got EXCEPT ![b] = NoStats]
      /\ UNCHANGED <<tables, cache, flight, awaits, shown>>
  BY DEF PollInv, FlightInv, Mount, Timer, Poll
<1>2. 1 \in 1..Answered /\ 1 \in 1..Len(Order)
  BY OrderFacts
<1>3. TypesInv'
  BY <1>1, <1>2 DEF PollInv, TypesInv, Value, NoStats
<1>4. FlightInv'
  BY <1>1 DEF PollInv, TypesInv, FlightInv
<1>5. ValueInv'
  <2>1. \A c \in Browser, s \in Stat :
          got'[c][s] = None \/ got'[c][s] = got[c][s]
    BY <1>1 DEF PollInv, TypesInv, NoStats
  <2>2. \A c \in Browser, s \in Stat : NotOlder(got'[c][s], cache[s].val)
    BY <2>1 DEF PollInv, ValueInv, NotOlder
  <2>3. ASSUME NEW c \in Browser, page'[c] = "asking", NEW i \in 1..Len(Order), i < at'[c]
        PROVE  NotOlder(shown[c][Order[i]], got'[c][Order[i]])
    <3>1. CASE c = b
      BY <3>1, <2>3, <1>1, OrderFacts DEF PollInv, TypesInv
    <3>2. CASE c # b
      BY <3>2, <2>3, <1>1 DEF PollInv, TypesInv, ValueInv
    <3>3. QED
      BY <3>1, <3>2
  <2>4. QED
    BY <2>2, <2>3, <1>1 DEF PollInv, ValueInv
<1>6. QED
  BY <1>1, <1>3, <1>4, <1>5 DEF PollInv

LEMMA ReceiveKeeps ==
  ASSUME PollInv, NEW b \in Browser, Receive(b)
  PROVE  /\ PollInv'
         /\ \A c \in Browser, s \in Stat : NotOlder(shown[c][s], shown'[c][s])
<1>1. /\ page[b] = "asking" /\ at[b] = Answered
      /\ shown' = [shown EXCEPT ![b] = got[b]]
      /\ page' = [page EXCEPT ![b] = "waiting"]
      /\ UNCHANGED <<tables, cache, flight, at, awaits, got>>
  BY DEF Receive, requestVars
<1>2. \A s \in Stat : NotOlder(shown[b][s], got[b][s])
  <2> SUFFICES ASSUME NEW s \in Stat PROVE NotOlder(shown[b][s], got[b][s])
    OBVIOUS
  <2>1. PICK i \in 1..Len(Order) : Order[i] = s
    BY DashboardAssumption
  <2>2. i < at[b]
    BY <2>1, <1>1, OrderFacts
  <2>3. QED
    BY <2>1, <2>2, <1>1 DEF PollInv, ValueInv
<1>3. TypesInv'
  BY <1>1 DEF PollInv, TypesInv
<1>4. FlightInv'
  BY <1>1 DEF PollInv, TypesInv, FlightInv
<1>5. \A c \in Browser :
        shown'[c] = IF c = b THEN got[b] ELSE shown[c]
  BY <1>1 DEF PollInv, TypesInv
<1>6. ValueInv'
  <2>1. \A c \in Browser, s \in Stat : NotOlder(shown'[c][s], cache[s].val)
    BY <1>5 DEF PollInv, ValueInv
  <2>2. ASSUME NEW c \in Browser, page'[c] = "asking", NEW i \in 1..Len(Order), i < at[c]
        PROVE  NotOlder(shown'[c][Order[i]], got[c][Order[i]])
    <3>1. c # b /\ page[c] = "asking" /\ shown'[c] = shown[c]
      BY <2>2, <1>1, <1>5 DEF PollInv, TypesInv
    <3>2. QED
      BY <3>1, <2>2 DEF PollInv, ValueInv
  <2>3. QED
    BY <2>1, <2>2, <1>1 DEF PollInv, ValueInv
<1>7. \A c \in Browser, s \in Stat : NotOlder(shown[c][s], shown'[c][s])
  <2>1. ASSUME NEW c \in Browser, NEW s \in Stat, c # b
        PROVE  NotOlder(shown[c][s], shown[c][s])
    BY DashboardAssumption DEF PollInv, TypesInv, Value, NotOlder
  <2>2. QED
    BY <2>1, <1>2, <1>5
<1>8. QED
  BY <1>3, <1>4, <1>6, <1>7 DEF PollInv

LEMMA NetworkFailsKeeps ==
  ASSUME PollInv, NEW b \in Browser, NetworkFails(b)
  PROVE  PollInv' /\ UNCHANGED shown
<1>1. /\ page' = [c \in Browser |-> IF c = b THEN "stopped" ELSE page[c]]
      /\ UNCHANGED <<tables, cache, flight, awaits, got, shown>>
      /\ UNCHANGED at \/ (awaits[b] = None /\ at' = [at EXCEPT ![b] = Answered])
  BY DEF NetworkFails, Stops
<1>2. Answered \in 1..Answered
  BY OrderFacts
<1>3. TypesInv'
  BY <1>1, <1>2 DEF PollInv, TypesInv
<1>4. \A c \in Browser : c # b => at'[c] = at[c] /\ page'[c] = page[c]
  BY <1>1 DEF PollInv, TypesInv
<1>5. page'[b] = "stopped" /\ (awaits[b] # None => at'[b] = at[b])
  BY <1>1
<1>6. FlightInv'
  <2>1. ASSUME NEW c \in Browser, awaits[c] # None
        PROVE  /\ flight[awaits[c]].st # "none"
               /\ at'[c] # Answered /\ flight[awaits[c]].stat = Order[at'[c]]
    BY <2>1, <1>4, <1>5 DEF PollInv, FlightInv
  <2>2. ASSUME NEW c \in Browser, page'[c] \in {"closed", "waiting"}
        PROVE  at'[c] = Answered
    BY <2>2, <1>4, <1>5 DEF PollInv, FlightInv
  <2>3. QED
    BY <2>1, <2>2, <1>1 DEF PollInv, FlightInv, Answered
<1>7. ValueInv'
  BY <1>1, <1>4, <1>5 DEF PollInv, ValueInv
<1>8. QED
  BY <1>1, <1>3, <1>6, <1>7 DEF PollInv

--------------------------------------------------------------------------------
(* The server *)

(* A handler goes on with a value that is not older than what its page     *)
(* shows, and not newer than what is cached from now on.                   *)
LEMMA TakeKeeps ==
  ASSUME PollInv, NEW B \in SUBSET Browser, NEW s \in Stat, NEW v \in Value, Take(B, s, v),
         \A b \in B : at[b] # Answered /\ Order[at[b]] = s,
         NotOlder(cache[s].val, v)
  PROVE  /\ at' \in [Browser -> 1..Answered] /\ got' \in [Browser -> [Stat -> Value]]
         /\ \A b \in Browser : at'[b] = IF b \in B THEN at[b] + 1 ELSE at[b]
         /\ \A b \in Browser, t \in Stat :
              got'[b][t] = IF b \in B /\ t = s THEN v ELSE got[b][t]
         /\ \A b \in Browser : page[b] = "asking" =>
              \A i \in 1..Len(Order) :
                i < at'[b] => NotOlder(shown[b][Order[i]], got'[b][Order[i]])
<1>1. \A b \in Browser : at[b] \in 1..Answered /\ (b \in B => at[b] \in 1..Len(Order))
  BY OrderFacts DEF PollInv, TypesInv
<1>2. /\ at' \in [Browser -> 1..Answered]
      /\ \A b \in Browser : at'[b] = IF b \in B THEN at[b] + 1 ELSE at[b]
  BY <1>1, OrderFacts DEF Take
<1>3. /\ got' \in [Browser -> [Stat -> Value]]
      /\ \A b \in Browser, t \in Stat :
           got'[b][t] = IF b \in B /\ t = s THEN v ELSE got[b][t]
  BY DEF Take, PollInv, TypesInv
<1>4. ASSUME NEW b \in Browser PROVE NotOlder(shown[b][s], v)
  <2>1. shown[b][s] \in Value /\ cache[s].val \in Value /\ NotOlder(shown[b][s], cache[s].val)
    BY DEF PollInv, TypesInv, ValueInv
  <2>2. QED
    BY <2>1, NotOlderTransitive
<1>5. ASSUME NEW b \in Browser, page[b] = "asking", NEW i \in 1..Len(Order), i < at'[b]
      PROVE  NotOlder(shown[b][Order[i]], got'[b][Order[i]])
  <2>1. Order[i] \in Stat
    BY OrderFacts
  <2>2. CASE b \in B /\ Order[i] = s
    BY <2>2, <1>3, <1>4
  <2>3. CASE ~ (b \in B /\ Order[i] = s)
    <3>1. got'[b][Order[i]] = got[b][Order[i]]
      BY <2>1, <2>3, <1>3
    <3>2. i < at[b]
      <4>1. CASE b \in B
        <5>1. i # at[b] /\ at'[b] = at[b] + 1 /\ at[b] \in 1..Len(Order)
          BY <4>1, <2>3, <1>1, <1>2
        <5>2. QED
          BY <5>1, <1>5, OrderFacts
      <4>2. CASE b \notin B
        BY <4>2, <1>2, <1>5
      <4>3. QED
        BY <4>1, <4>2
    <3>3. QED
      BY <3>1, <3>2, <1>5 DEF PollInv, ValueInv
  <2>4. QED
    BY <2>2, <2>3
<1>6. QED
  BY <1>2, <1>3, <1>5

LEMMA JoinKeeps ==
  ASSUME PollInv, NEW b \in Browser, awaits[b] = None, at[b] # Answered,
         NEW c \in Flights(Order[at[b]]), awaits' = [awaits EXCEPT ![b] = c],
         UNCHANGED <<flight, at, got, tables, cache, page, shown>>
  PROVE  PollInv'
<1>1. c \in Browser /\ flight[c].st # "none" /\ flight[c].stat = Order[at[b]]
  BY DEF Flights
<1>2. TypesInv'
  BY <1>1 DEF PollInv, TypesInv
<1>3. \A d \in Browser : awaits'[d] = IF d = b THEN c ELSE awaits[d]
  BY DEF PollInv, TypesInv
<1>4. flight[b].st = "none"
  BY DashboardAssumption DEF PollInv, FlightInv
<1>5. FlightInv'
  BY <1>1, <1>3, <1>4 DEF PollInv, FlightInv
<1>6. ValueInv'
  BY DEF PollInv, ValueInv
<1>7. QED
  BY <1>2, <1>5, <1>6 DEF PollInv

LEMMA HitKeeps ==
  ASSUME PollInv, NEW b \in Browser, awaits[b] = None, at[b] # Answered,
         IsHit(Order[at[b]]), Take({b}, Order[at[b]], cache[Order[at[b]]].val),
         UNCHANGED <<flight, awaits, tables, cache, page, shown>>
  PROVE  PollInv'
<1> DEFINE s == Order[at[b]]
           v == cache[s].val
<1>1. s \in Stat /\ v \in Value /\ NotOlder(v, v)
  BY OrderFacts DEF PollInv, TypesInv, Value, NotOlder
<1>2. at[b] \in 1..Len(Order)
  BY OrderFacts DEF PollInv, TypesInv
<1> HIDE DEF v
<1>3. /\ at' \in [Browser -> 1..Answered] /\ got' \in [Browser -> [Stat -> Value]]
      /\ \A c \in Browser : at'[c] = IF c \in {b} THEN at[c] + 1 ELSE at[c]
      /\ \A c \in Browser, t \in Stat :
           got'[c][t] = IF c \in {b} /\ t = s THEN v ELSE got[c][t]
      /\ \A c \in Browser : page[c] = "asking" =>
           \A i \in 1..Len(Order) :
             i < at'[c] => NotOlder(shown[c][Order[i]], got'[c][Order[i]])
  <2>1. Take({b}, s, v) /\ NotOlder(cache[s].val, v)
    BY <1>1 DEF v
  <2>2. /\ {b} \in SUBSET Browser
        /\ \A c \in {b} : at[c] # Answered /\ Order[at[c]] = s
    OBVIOUS
  <2> HIDE DEF s
  <2>3. QED
    BY <2>1, <2>2, <1>1, TakeKeeps
<1>4. TypesInv'
  BY <1>3 DEF PollInv, TypesInv
<1>5. FlightInv'
  <2>1. \A c \in Browser : awaits[c] # None => at'[c] = at[c]
    BY <1>3
  <2>2. page[b] \notin {"closed", "waiting"}
    BY DEF PollInv, FlightInv
  <2>3. \A c \in Browser : page[c] \in {"closed", "waiting"} => at'[c] = at[c]
    BY <1>3, <2>2
  <2>4. QED
    BY <2>1, <2>3 DEF PollInv, FlightInv, Answered
<1>6. ValueInv'
  <2>1. \A c \in Browser, t \in Stat : NotOlder(got'[c][t], cache[t].val)
    BY <1>1, <1>3 DEF PollInv, ValueInv, v
  <2>2. QED
    BY <2>1, <1>3 DEF PollInv, ValueInv
<1>7. QED
  BY <1>4, <1>5, <1>6 DEF PollInv

LEMMA AskKeeps ==
  ASSUME PollInv, NEW b \in Browser, awaits[b] = None, at[b] # Answered,
         Flights(Order[at[b]]) = {},
         flight' = [flight EXCEPT ![b] = [st |-> "sent", stat |-> Order[at[b]], val |-> None]],
         awaits' = [awaits EXCEPT ![b] = b],
         UNCHANGED <<at, got, tables, cache, page, shown>>
  PROVE  PollInv'
<1> DEFINE s == Order[at[b]]
<1>1. s \in Stat
  BY OrderFacts DEF PollInv, TypesInv
<1>2. /\ \A c \in Browser : awaits'[c] = IF c = b THEN b ELSE awaits[c]
      /\ \A c \in Browser : c # b => flight'[c] = flight[c]
      /\ flight'[b].st = "sent" /\ flight'[b].stat = s
  BY DEF PollInv, TypesInv
<1>3. flight[b].st = "none" /\ b # None
  BY DashboardAssumption DEF PollInv, FlightInv
<1>4. \A c \in Browser : flight[c].st # "none" => flight[c].stat # s
  BY DEF Flights
<1>5. \A c \in Browser : awaits[c] # None => awaits[c] # b /\ awaits[c] \in Browser
  BY <1>3 DEF PollInv, FlightInv, TypesInv
<1>6. TypesInv'
  BY <1>1 DEF PollInv, TypesInv, Value
<1>7. FlightInv'
  <2>1. \A c, d \in Browser :
          flight'[c].st # "none" /\ flight'[d].st # "none" /\ flight'[c].stat = flight'[d].stat
            => c = d
    BY <1>2, <1>4 DEF PollInv, FlightInv
  <2>2. \A c \in Browser : flight'[c].st # "none" => awaits'[c] = c
    BY <1>2 DEF PollInv, FlightInv
  <2>3. ASSUME NEW c \in Browser, awaits'[c] # None
        PROVE  /\ flight'[awaits'[c]].st # "none"
               /\ at[c] # Answered /\ flight'[awaits'[c]].stat = Order[at[c]]
    BY <2>3, <1>2, <1>5 DEF PollInv, FlightInv
  <2>4. QED
    BY <2>1, <2>2, <2>3 DEF PollInv, FlightInv, Answered
<1>8. ValueInv'
  BY <1>2 DEF PollInv, ValueInv
<1>9. QED
  BY <1>6, <1>7, <1>8 DEF PollInv

LEMMA WrapMethodKeeps ==
  ASSUME PollInv, NEW b \in Browser, WrapMethod(b)
  PROVE  PollInv' /\ UNCHANGED shown
BY JoinKeeps, HitKeeps, AskKeeps DEF WrapMethod

LEMMA QueryReadsKeeps ==
  ASSUME PollInv, NEW b \in Browser, QueryReads(b)
  PROVE  PollInv' /\ UNCHANGED shown
<1>1. /\ flight[b].st = "sent"
      /\ flight' = [flight EXCEPT ![b].st = "read", ![b].val = tables]
      /\ UNCHANGED <<tables, cache, page, at, awaits, got, shown>>
  BY DEF QueryReads, requestVars
<1>2. /\ \A c \in Browser : c # b => flight'[c] = flight[c]
      /\ flight'[b].st = "read" /\ flight'[b].stat = flight[b].stat /\ flight'[b].val = tables
      /\ tables # None /\ tables \in Nat /\ flight[b].stat \in Stat
  BY <1>1, DashboardAssumption DEF PollInv, TypesInv
<1>3. TypesInv'
  BY <1>1, <1>2 DEF PollInv, TypesInv, Value
<1>4. FlightInv'
  <2>1. \A c \in Browser : /\ flight'[c].stat = flight[c].stat
                           /\ flight'[c].st # "none" <=> flight[c].st # "none"
    BY <1>1, <1>2
  <2>2. \A c \in Browser : awaits[c] # None => awaits[c] \in Browser
    BY DEF PollInv, TypesInv
  <2>3. \A c \in Browser : awaits[c] # None =>
          /\ flight'[awaits[c]].st # "none"
          /\ at[c] # Answered /\ flight'[awaits[c]].stat = Order[at[c]]
    BY <2>1, <2>2 DEF PollInv, FlightInv
  <2>4. \A c, d \in Browser :
          flight'[c].st # "none" /\ flight'[d].st # "none" /\ flight'[c].stat = flight'[d].stat
            => c = d
    BY <2>1 DEF PollInv, FlightInv
  <2>5. \A c \in Browser : flight'[c].st # "none" => awaits[c] = c
    BY <2>1 DEF PollInv, FlightInv
  <2>6. QED
    BY <2>3, <2>4, <2>5, <1>1 DEF PollInv, FlightInv, Answered
<1>5. ValueInv'
  <2>1. NotOlder(flight'[b].val, tables)
    BY <1>2 DEF NotOlder
  <2>2. QED
    BY <2>1, <1>1, <1>2 DEF PollInv, ValueInv
<1>6. QED
  BY <1>1, <1>3, <1>4, <1>5 DEF PollInv

LEMMA QueryLandsKeeps ==
  ASSUME PollInv, NEW b \in Browser, QueryLands(b)
  PROVE  PollInv' /\ UNCHANGED shown
<1> DEFINE s == flight[b].stat
           v == flight[b].val
           B == Awaiting(b)
<1>1. /\ flight[b].st = "read"
      /\ cache' = [cache EXCEPT ![s] = [val |-> v, fresh |-> TRUE]]
      /\ Take(B, s, v)
      /\ awaits' = [c \in Browser |-> IF awaits[c] = b THEN None ELSE awaits[c]]
      /\ flight' = [flight EXCEPT ![b] = NoFlight]
      /\ UNCHANGED <<tables, page, shown>>
  BY DEF QueryLands
<1>2. /\ s \in Stat /\ v \in Nat /\ v \in Value /\ B \in SUBSET Browser /\ b # None
      /\ NotOlder(cache[s].val, v) /\ NotOlder(v, tables)
  BY <1>1, DashboardAssumption DEF PollInv, TypesInv, ValueInv, Value, Awaiting
<1>3. \A c \in B : at[c] # Answered /\ Order[at[c]] = s /\ awaits[c] = b
  BY <1>2 DEF PollInv, FlightInv, Awaiting
<1> HIDE DEF s, v, B
<1>4. /\ at' \in [Browser -> 1..Answered] /\ got' \in [Browser -> [Stat -> Value]]
      /\ \A c \in Browser : at'[c] = IF c \in B THEN at[c] + 1 ELSE at[c]
      /\ \A c \in Browser, t \in Stat :
           got'[c][t] = IF c \in B /\ t = s THEN v ELSE got[c][t]
      /\ \A c \in Browser : page[c] = "asking" =>
           \A i \in 1..Len(Order) :
             i < at'[c] => NotOlder(shown[c][Order[i]], got'[c][Order[i]])
  BY <1>1, <1>2, <1>3, TakeKeeps
<1>5. /\ \A c \in Browser : c # b => flight'[c] = flight[c]
      /\ flight'[b].st = "none"
      /\ \A c \in Browser : awaits'[c] = IF c \in B THEN None ELSE awaits[c]
      /\ \A c \in Browser : c \notin B => awaits[c] # b
      /\ \A t \in Stat : cache'[t].val = IF t = s THEN v ELSE cache[t].val
  BY <1>1, <1>2 DEF PollInv, TypesInv, NoFlight, B, Awaiting
<1>6. TypesInv'
  <2>1. NoFlight \in [st : {"none", "sent", "read"}, stat : Stat, val : Value]
    BY OrderFacts DEF NoFlight, Value
  <2>2. flight' \in [Browser -> [st : {"none", "sent", "read"}, stat : Stat, val : Value]]
    BY <2>1, <1>1 DEF PollInv, TypesInv
  <2>3. cache' \in [Stat -> [val : Value, fresh : BOOLEAN]]
    BY <1>1, <1>2 DEF PollInv, TypesInv
  <2>4. awaits' \in [Browser -> Browser \cup {None}]
    BY <1>1 DEF PollInv, TypesInv
  <2>5. QED
    BY <2>2, <2>3, <2>4, <1>1, <1>4 DEF PollInv, TypesInv, Answered
<1>7. FlightInv'
  <2>1. \A c, d \in Browser :
          flight'[c].st # "none" /\ flight'[d].st # "none" /\ flight'[c].stat = flight'[d].stat
            => c = d
    BY <1>5 DEF PollInv, FlightInv
  <2>2. ASSUME NEW c \in Browser, flight'[c].st # "none" PROVE awaits'[c] = c
    <3>1. c # b /\ awaits[c] = c
      BY <2>2, <1>5 DEF PollInv, FlightInv
    <3>2. QED
      BY <3>1, <1>3, <1>5
  <2>3. ASSUME NEW c \in Browser, awaits'[c] # None
        PROVE  /\ flight'[awaits'[c]].st # "none"
               /\ at'[c] # Answered /\ flight'[awaits'[c]].stat = Order[at'[c]]
    <3>1. c \notin B /\ awaits'[c] = awaits[c] /\ awaits[c] # b /\ awaits[c] \in Browser
      BY <2>3, <1>5 DEF PollInv, TypesInv
    <3>2. QED
      BY <3>1, <2>3, <1>4, <1>5 DEF PollInv, FlightInv
  <2>4. ASSUME NEW c \in Browser, page[c] \in {"closed", "waiting"} PROVE at'[c] = Answered
    BY <2>4, <1>3, <1>4 DEF PollInv, FlightInv
  <2>5. QED
    BY <2>1, <2>2, <2>3, <2>4, <1>1 DEF FlightInv, Answered
<1>8. ValueInv'
  <2>1. ASSUME NEW u \in Value, NotOlder(u, cache[s].val) PROVE NotOlder(u, v)
    <3>1. cache[s].val \in Value
      BY <1>2 DEF PollInv, TypesInv
    <3>2. QED
      BY <3>1, <2>1, <1>2, NotOlderTransitive
  <2>2. \A t \in Stat : NotOlder(cache'[t].val, tables)
    BY <1>2, <1>5 DEF PollInv, ValueInv
  <2>3. ASSUME NEW c \in Browser, flight'[c].st = "read"
        PROVE  /\ flight'[c].val # None /\ NotOlder(cache'[flight'[c].stat].val, flight'[c].val)
               /\ NotOlder(flight'[c].val, tables)
    <3>1. c # b /\ flight'[c] = flight[c] /\ flight[c].stat \in Stat
      BY <2>3, <1>5 DEF PollInv, TypesInv
    <3>2. flight[c].stat # s
      BY <3>1, <2>3, <1>1 DEF PollInv, FlightInv, s
    <3>3. QED
      BY <3>1, <3>2, <2>3, <1>5 DEF PollInv, ValueInv
  <2>4. ASSUME NEW c \in Browser, NEW t \in Stat
        PROVE  NotOlder(got'[c][t], cache'[t].val) /\ NotOlder(shown[c][t], cache'[t].val)
    <3>1. /\ got[c][t] \in Value /\ NotOlder(got[c][t], cache[t].val)
          /\ shown[c][t] \in Value /\ NotOlder(shown[c][t], cache[t].val)
          /\ NotOlder(v, v)
      BY <1>2, DashboardAssumption DEF PollInv, TypesInv, ValueInv, NotOlder
    <3>2. CASE t = s
      BY <3>1, <3>2, <2>1, <1>4, <1>5
    <3>3. CASE t # s
      BY <3>1, <3>3, <1>4, <1>5
    <3>4. QED
      BY <3>2, <3>3
  <2>5. QED
    BY <2>2, <2>3, <2>4, <1>1, <1>4 DEF ValueInv
<1>9. QED
  BY <1>1, <1>6, <1>7, <1>8 DEF PollInv

LEMMA QueryFailsKeeps ==
  ASSUME PollInv, NEW b \in Browser, QueryFails(b)
  PROVE  PollInv' /\ UNCHANGED shown
<1> DEFINE B == Awaiting(b)
<1>1. /\ page' = [c \in Browser |-> IF c \in B THEN "stopped" ELSE page[c]]
      /\ at' = [c \in Browser |-> IF c \in B THEN Answered ELSE at[c]]
      /\ awaits' = [c \in Browser |-> IF awaits[c] = b THEN None ELSE awaits[c]]
      /\ flight' = [flight EXCEPT ![b] = NoFlight]
      /\ UNCHANGED <<tables, cache, got, shown>>
  BY DEF QueryFails, Rejected, Stops
<1>2. /\ \A c \in Browser : c # b => flight'[c] = flight[c]
      /\ flight'[b].st = "none"
      /\ \A c \in Browser : awaits'[c] = IF c \in B THEN None ELSE awaits[c]
      /\ \A c \in Browser : c \notin B => awaits[c] # b
      /\ \A c \in Browser : c \in B => awaits[c] = b
  BY <1>1 DEF PollInv, TypesInv, NoFlight, Awaiting
<1> HIDE DEF B
<1>3. TypesInv'
  <2>1. NoFlight \in [st : {"none", "sent", "read"}, stat : Stat, val : Value]
    BY OrderFacts DEF NoFlight, Value
  <2>2. Answered \in 1..Answered
    BY OrderFacts
  <2>3. /\ flight' \in [Browser -> [st : {"none", "sent", "read"}, stat : Stat, val : Value]]
        /\ at' \in [Browser -> 1..Answered] /\ awaits' \in [Browser -> Browser \cup {None}]
        /\ page' \in [Browser -> {"closed", "waiting", "asking", "stopped"}]
    BY <2>1, <2>2, <1>1 DEF PollInv, TypesInv
  <2>4. QED
    BY <2>3, <1>1 DEF PollInv, TypesInv, Answered
<1>4. FlightInv'
  <2>1. \A c, d \in Browser :
          flight'[c].st # "none" /\ flight'[d].st # "none" /\ flight'[c].stat = flight'[d].stat
            => c = d
    BY <1>2 DEF PollInv, FlightInv
  <2>2. ASSUME NEW c \in Browser, flight'[c].st # "none" PROVE awaits'[c] = c
    <3>1. c # b /\ awaits[c] = c
      BY <2>2, <1>2 DEF PollInv, FlightInv
    <3>2. QED
      BY <3>1, <1>2
  <2>3. ASSUME NEW c \in Browser, awaits'[c] # None
        PROVE  /\ flight'[awaits'[c]].st # "none"
               /\ at'[c] # Answered /\ flight'[awaits'[c]].stat = Order[at'[c]]
    <3>1. /\ c \notin B /\ awaits'[c] = awaits[c] /\ awaits[c] # b /\ awaits[c] \in Browser
          /\ at'[c] = at[c]
      BY <2>3, <1>1, <1>2 DEF PollInv, TypesInv
    <3>2. QED
      BY <3>1, <2>3, <1>2 DEF PollInv, FlightInv
  <2>4. ASSUME NEW c \in Browser, page'[c] \in {"closed", "waiting"} PROVE at'[c] = Answered
    BY <2>4, <1>1 DEF PollInv, FlightInv
  <2>5. QED
    BY <2>1, <2>2, <2>3, <2>4 DEF FlightInv, Answered
<1>5. ValueInv'
  <2>1. \A c \in Browser : flight'[c].st = "read" => flight'[c] = flight[c]
    BY <1>2
  <2>2. \A c \in Browser : page'[c] = "asking" => page[c] = "asking" /\ at'[c] = at[c]
    BY <1>1
  <2>3. QED
    BY <2>1, <2>2, <1>1 DEF PollInv, ValueInv
<1>6. QED
  BY <1>1, <1>3, <1>4, <1>5 DEF PollInv

LEMMA ExpireKeeps ==
  ASSUME PollInv, NEW s \in Stat, Expire(s)
  PROVE  PollInv' /\ UNCHANGED shown
<1>1. /\ cache' = [cache EXCEPT ![s].fresh = FALSE]
      /\ UNCHANGED <<tables, flight, page, at, awaits, got, shown>>
  BY DEF Expire, requestVars
<1>2. cache' \in [Stat -> [val : Value, fresh : BOOLEAN]]
      /\ \A t \in Stat : cache'[t].val = cache[t].val
  BY <1>1 DEF PollInv, TypesInv
<1>3. TypesInv' /\ FlightInv'
  BY <1>1, <1>2 DEF PollInv, TypesInv, FlightInv, Answered
<1>4. \A b \in Browser : flight[b].stat \in Stat
  BY DEF PollInv, TypesInv
<1>5. ValueInv'
  BY <1>1, <1>2, <1>4 DEF PollInv, ValueInv
<1>6. QED
  BY <1>1, <1>3, <1>5 DEF PollInv

LEMMA TablesChangeKeeps ==
  ASSUME PollInv, TablesChange
  PROVE  PollInv' /\ UNCHANGED shown
<1>1. tables' = tables + 1 /\ UNCHANGED <<cache, flight, page, at, awaits, got, shown>>
  BY DEF TablesChange, requestVars
<1>2. TypesInv' /\ FlightInv'
  BY <1>1 DEF PollInv, TypesInv, FlightInv, Answered
<1>3. ASSUME NEW u \in Value, NotOlder(u, tables) PROVE NotOlder(u, tables')
  BY <1>1, <1>3, DashboardAssumption DEF NotOlder, Value, PollInv, TypesInv
<1>4. /\ \A s \in Stat : cache[s].val \in Value
      /\ \A b \in Browser : flight[b].val \in Value
  BY DEF PollInv, TypesInv
<1>5. ValueInv'
  BY <1>1, <1>3, <1>4 DEF PollInv, ValueInv
<1>6. QED
  BY <1>1, <1>2, <1>5 DEF PollInv

--------------------------------------------------------------------------------
LEMMA NextPoll ==
  ASSUME PollInv, [Next]_vars
  PROVE  /\ PollInv'
         /\ UNCHANGED shown \/ \A b \in Browser, s \in Stat : NotOlder(shown[b][s], shown'[b][s])
<1>1. CASE UNCHANGED vars
  BY <1>1 DEF vars, requestVars, PollInv, TypesInv, FlightInv, ValueInv, Answered
<1>2. CASE Next
  BY <1>2, PollKeeps, ReceiveKeeps, NetworkFailsKeeps, WrapMethodKeeps, QueryReadsKeeps,
     QueryLandsKeeps, QueryFailsKeeps, ExpireKeeps, TablesChangeKeeps DEF Next
<1>3. QED
  BY <1>1, <1>2

(* What a page shows never gets older from one poll to the next, through   *)
(* the cache and queries that others have sent (wrapMethod).               *)
THEOREM ShownNeverOlder == Spec => NeverOlder
<1> DEFINE Newer == \A b \in Browser, s \in Stat : ~ Older(shown'[b][s], shown[b][s])
<1>1. PollInv /\ [Next]_vars => PollInv'
  BY NextPoll
<1>2. PollInv /\ [Next]_vars => [Newer]_vars
  <2> SUFFICES ASSUME PollInv, [Next]_vars PROVE Newer
    OBVIOUS
  <2>1. \A b \in Browser, s \in Stat : shown[b][s] \in Value
    BY DEF PollInv, TypesInv
  <2>2. PollInv'
    BY NextPoll
  <2>3. \A b \in Browser, s \in Stat : shown'[b][s] \in Value
    BY <2>2 DEF PollInv, TypesInv
  <2>4. CASE UNCHANGED shown
    BY <2>1, <2>4 DEF Older, Value
  <2>5. CASE \A b \in Browser, s \in Stat : NotOlder(shown[b][s], shown'[b][s])
    BY <2>1, <2>3, <2>5 DEF Older, NotOlder, Value
  <2>6. QED
    BY <2>4, <2>5, NextPoll
<1>3. QED
  BY InitPoll, <1>1, <1>2, PTL DEF Spec, NeverOlder
--------------------------------------------------------------------------------
(* The pager *)

(* Table and StorageMinersTable are on the same page. *)
PagerInv ==
  /\ miners \in Lists
  /\ currentPage \in Nat \ {0} /\ minersPage = currentPage

LEMMA PagesSteps ==
  ASSUME [PagesNext]_pagesVars
  PROVE  \/ PagerStep \/ \E M \in Lists : SetMiners(M)
         \/ ShowTable
         \/ UNCHANGED pagerVars
BY DEF PagesNext, Open, UseTable, pagesVars, pagerVars

LEMMA PageCountIs ==
  ASSUME NEW rows \in Nat, NEW k \in Nat \ {0}, NEW p \in Nat \ {0}, p = perPage
  PROVE  /\ PageCount(rows) \in Nat
         /\ rows > (k - 1) * p => k <= PageCount(rows)
         /\ k <= PageCount(rows) => rows > (k - 1) * p
<1> DEFINE n == (rows + p - 1) \div p
           s == (rows + p - 1) % p
<1>1. n \in Nat /\ s \in 0..p - 1 /\ rows + p - 1 = p * n + s
  OBVIOUS
<1> HIDE DEF n, s
<1>2. ASSUME rows > (k - 1) * p
      PROVE  k <= n
  <2>1. SUFFICES ASSUME k > n PROVE FALSE
    BY <1>1
  <2>2. k - 1 \in Nat /\ k - 1 >= n
    BY <1>1, <2>1
  <2>3. (k - 1) * p >= n * p
    BY <1>1, <2>2
  <2>4. QED
    BY <1>1, <1>2, <2>3
<1>3. ASSUME k <= n
      PROVE  rows > (k - 1) * p
  <2>1. k * p <= n * p
    BY <1>1, <1>3
  <2>2. (k - 1) * p = k * p - p
    OBVIOUS
  <2>3. QED
    BY <1>1, <2>1, <2>2
<1>4. QED
  BY <1>1, <1>2, <1>3 DEF PageCount, n

(* The table cuts as many rows as it counts pages by. *)
LEMMA SamePages == perPage = SliceLength
BY DEF perPage, SliceLength

(* There are rows on a page that begins before the last of them. *)
LEMMA RowsAre ==
  ASSUME NEW M \in Lists, NEW k \in Nat \ {0}
  PROVE  LET start == (k - 1) * SliceLength
             matching == Cardinality(M \cap Nickname[NoFilter])
             rows == IF matching > start + SliceLength THEN SliceLength
                     ELSE IF matching > start THEN matching - start ELSE 0
         IN  /\ Cardinality(M) \in Nat
             /\ rows > 0 <=> Cardinality(M) > start
<1> DEFINE start == (k - 1) * SliceLength
           matching == Cardinality(M \cap Nickname[NoFilter])
<1>1. Cardinality(M) \in Nat
  BY PagerAssumption, FS_CardinalityType
<1>2. matching = Cardinality(M)
  <2>1. M \cap Nickname[NoFilter] = M
    BY PagerAssumption
  <2>2. QED
    BY <2>1
<1>3. start \in Nat /\ SliceLength \in Nat \ {0}
  BY DEF SliceLength
<1> HIDE DEF start, matching
<1>4. (IF matching > start + SliceLength THEN SliceLength
       ELSE IF matching > start THEN matching - start ELSE 0) > 0 <=> Cardinality(M) > start
  BY <1>1, <1>2, <1>3
<1>5. QED
  BY <1>1, <1>4 DEF start, matching

LEMMA PagerInit0 == PagesInit => PagerInv
BY DEF PagesInit, PagerInit, PagerInv

LEMMA PagerKeeps == PagerInv /\ [PagesNext]_pagesVars => PagerInv'
<1> SUFFICES ASSUME PagerInv, [PagesNext]_pagesVars PROVE PagerInv'
  OBVIOUS
<1>1. CASE Prev \/ NextPage
  <2>1. CASE Prev
    BY <2>1 DEF Prev, SetPage, PagerInv
  <2>2. CASE NextPage
    BY <2>2 DEF NextPage, SetPage, PagerInv
  <2>3. QED
    BY <1>1, <2>1, <2>2
<1>2. CASE (\E q \in DOMAIN Nickname : OnChangeFilter(q)) \/ BroadcastFilterChange
  BY <1>2 DEF OnChangeFilter, BroadcastFilterChange, PagerInv
<1>3. CASE \E M \in Lists : SetMiners(M)
  BY <1>3 DEF SetMiners, PagerInv
<1>4. CASE ShowTable \/ UNCHANGED pagerVars
  BY <1>4 DEF ShowTable, pagerVars, PagerInv
<1>5. QED
  BY <1>1, <1>2, <1>3, <1>4, PagesSteps DEF PagerStep

LEMMA NoEmptyPage ==
  ASSUME PagerInv, PagerInv', [PagesNext]_pagesVars,
         query = NoFilter, query' = NoFilter, miners \subseteq miners', Rows > 0
  PROVE  Rows' > 0
<1> DEFINE start == (currentPage - 1) * perPage
<1>1. /\ RowCount \in Nat /\ RowCount > start
      /\ RowCount' \in Nat /\ (Rows' > 0 <=> RowCount' > (currentPage' - 1) * perPage)
  <2>1. miners \in Lists /\ miners' \in Lists /\ minersPage = currentPage
        /\ currentPage \in Nat \ {0} /\ currentPage' \in Nat \ {0} /\ minersPage' = currentPage'
    BY DEF PagerInv
  <2>2. RowCount \in Nat /\ (Rows > 0 <=> RowCount > (currentPage - 1) * perPage)
    BY <2>1, RowsAre, SamePages DEF RowCount, Rows
  <2>3. RowCount' \in Nat /\ (Rows' > 0 <=> RowCount' > (currentPage' - 1) * perPage)
    BY <2>1, RowsAre, SamePages DEF RowCount, Rows
  <2>4. QED
    BY <2>2, <2>3
<1>2. perPage \in Nat \ {0} /\ currentPage \in Nat \ {0}
  BY DEF PagerInv, perPage
<1>3. RowCount <= RowCount'
  <2>1. IsFiniteSet(miners')
    BY PagerAssumption DEF PagerInv
  <2>2. QED
    BY <2>1, FS_Subset DEF RowCount
<1>4. ASSUME currentPage' = 1
      PROVE  Rows' > 0
  <2>1. start \in Nat
    BY <1>2
  <2>2. (currentPage' - 1) * perPage = 0
    BY <1>2, <1>4
  <2> HIDE DEF start
  <2>3. QED
    BY <1>1, <1>3, <2>1, <2>2
<1>5. ASSUME currentPage' = currentPage
      PROVE  Rows' > 0
  BY <1>1, <1>2, <1>3, <1>5
<1>6. CASE Prev
  <2>1. currentPage' = currentPage - 1 /\ currentPage - 1 \in Nat
    BY <1>2, <1>6 DEF Prev, SetPage
  <2>2. (currentPage - 1) - 1 <= currentPage - 1
    BY <1>2
  <2>3. ((currentPage - 1) - 1) * perPage <= (currentPage - 1) * perPage
    BY <1>2, <2>2
  <2>4. ((currentPage - 1) - 1) * perPage \in Int /\ (currentPage - 1) * perPage \in Int
    BY <1>2
  <2>5. QED
    BY <1>1, <1>3, <2>1, <2>3, <2>4
<1>7. CASE NextPage
  <2>1. /\ currentPage' = currentPage + 1 /\ currentPage # PageCount(RowCount)
        /\ RowCount' = RowCount
    BY <1>7 DEF NextPage, SetPage, RowCount
  <2>2. PageCount(RowCount) \in Nat /\ currentPage <= PageCount(RowCount)
    BY <1>1, <1>2, PageCountIs
  <2>3. currentPage + 1 \in Nat \ {0} /\ currentPage + 1 <= PageCount(RowCount)
    BY <1>2, <2>1, <2>2
  <2>4. RowCount > ((currentPage + 1) - 1) * perPage
    BY <1>1, <1>2, <2>3, PageCountIs
  <2>5. QED
    BY <1>1, <2>1, <2>4
<1>8. CASE (\E q \in DOMAIN Nickname : OnChangeFilter(q)) \/ BroadcastFilterChange
           \/ (\E M \in Lists : SetMiners(M)) \/ UNCHANGED pagerVars
  BY <1>5, <1>8 DEF OnChangeFilter, BroadcastFilterChange, SetMiners, pagerVars
<1>9. CASE ShowTable
  BY <1>4, <1>9 DEF ShowTable
<1>10. QED
  BY <1>6, <1>7, <1>8, <1>9, PagesSteps DEF PagerStep

(* A click never turns from a page of the table with rows to one without   *)
(* (Table.tsx, StorageMinersTable.tsx), for lists of any length.  *)
THEOREM NoPageIsPastTheEnd == PagesSpec => PageExists
<1>1. PagerInv /\ PagerInv' /\ [PagesNext]_pagesVars =>
        [query = NoFilter /\ query' = NoFilter /\ miners \subseteq miners' /\ Rows > 0 => Rows' > 0]_pagerVars
  BY NoEmptyPage
<1>2. QED
  BY <1>1, PagerInit0, PagerKeeps, PTL DEF PagesSpec, PageExists
--------------------------------------------------------------------------------
(* The charts *)

LEMMA SyncSeries ==
  /\ Sync.storage.storageAmount = Series("HistoricalStorageAmount", "1m")
  /\ Sync.storage.storageCost = Series("HistoricalStoragePrice", "1m")
  /\ Sync.storage.historicalCollateral = Series("HistoricalCollateral", "1m")
  /\ Sync.storage.historicalCollateralPerGB = Series("HistoricalCollateralPerGB", "1m")
  /\ Sync.storage.historicalMinerCounts = Series("HistoricalMinerCounts", "1m")
  /\ Sync.storage.networkUtilization = Series("HistoricalUtilization", "1m")
  /\ Sync.token.blockRewardsOverTime = Series("BlockRewards", "1m")
  /\ Sync.token.coinsInCirculation = Series("CoinsInCirculation", "1m")
<1>1. /\ Sync.storage = [f \in StorageFields |-> StorageStats[f]]
      /\ Sync.token = [f \in TokenFields |-> TokenStats[f]]
  BY DEF Sync, statsFromJSON, statsToJSON, storageStatsFromJSON, storageStatsToJSON,
         tokenStatsFromJSON, tokenStatsToJSON
<1>2. QED
  BY <1>1 DEF StorageFields, TokenFields, StorageStats, TokenStats, MONTH

LEMMA RouteQueries ==
  /\ DOMAIN GET = Routed
  /\ GET["storage/historicalMinerCounts"] = "HistoricalMinerCounts"
  /\ GET["storage/historicalStoragePrice"] = "HistoricalStoragePrice"
  /\ GET["storage/historicalCollateral"] = "HistoricalCollateral"
  /\ GET["storage/historicalCollateralPerGB"] = "HistoricalCollateralPerGB"
  /\ GET["storage/historicalStorageAmount"] = "HistoricalStorageAmount"
  /\ GET["storage/historicalUtilization"] = "HistoricalUtilization"
  /\ GET["token/historicalBlockRewards"] = "BlockRewards"
  /\ GET["token/historicalCoinsInCirculation"] = "CoinsInCirculation"
BY DEF GET, Routed, ssd, tsd, mksd

(* A component fetches what it shows of other durations, and this is of    *)
(* the query that it shows when it is opened.                              *)
Fits(C) ==
  /\ C.fetches \in Seq(Routed) /\ C.override = C.fetches
  /\ C.fetches # <<>> =>
       /\ DOMAIN C.polled = DOMAIN C.override
       /\ \A i \in DOMAIN C.override :
            /\ C.override[i] \in Routed
            /\ C.polled[i] = Series(C.polled[i].query, "1m")
            /\ GET[C.override[i]] = C.polled[i].query

LEMMA SingleFits ==
  ASSUME NEW path \in Routed
  PROVE  Fits(Connected(<<path>>, <<Series(GET[path], "1m")>>, <<path>>))
BY DEF Fits, Connected, Series

LEMMA DoubleFits ==
  ASSUME NEW path \in Routed, NEW other \in Routed
  PROVE  Fits(Connected(<<path, other>>,
                        <<Series(GET[path], "1m"), Series(GET[other], "1m")>>, <<path, other>>))
BY DEF Fits, Connected, Series

LEMMA PlainFits ==
  ASSUME NEW polled
  PROVE  Fits(Plain(polled))
BY DEF Fits, Plain, Connected

LEMMA ComponentsFit ==
  ASSUME NEW s \in Component
  PROVE  Fits(Components[s])
<1>1. /\ {"storage/historicalMinerCounts", "storage/historicalStoragePrice",
          "storage/historicalCollateral", "storage/historicalCollateralPerGB",
          "storage/historicalStorageAmount", "storage/historicalUtilization",
          "token/historicalBlockRewards", "token/historicalCoinsInCirculation"} \subseteq Routed
  BY DEF Routed
<1>2. /\ HistoricalStoragePriceChart =
           Connected(<<"storage/historicalStoragePrice">>,
                     <<Series(GET["storage/historicalStoragePrice"], "1m")>>,
                     <<"storage/historicalStoragePrice">>)
      /\ HistoricalCollateralPerGBChart =
           Connected(<<"storage/historicalCollateralPerGB">>,
                     <<Series(GET["storage/historicalCollateralPerGB"], "1m")>>,
                     <<"storage/historicalCollateralPerGB">>)
      /\ HistoricalUtilizationChart =
           Connected(<<"storage/historicalUtilization">>,
                     <<Series(GET["storage/historicalUtilization"], "1m")>>,
                     <<"storage/historicalUtilization">>)
      /\ MinerCountChart =
           Connected(<<"storage/historicalMinerCounts">>,
                     <<Series(GET["storage/historicalMinerCounts"], "1m")>>,
                     <<"storage/historicalMinerCounts">>)
      /\ CoinsInCirculation =
           Connected(<<"token/historicalCoinsInCirculation">>,
                     <<Series(GET["token/historicalCoinsInCirculation"], "1m")>>,
                     <<"token/historicalCoinsInCirculation">>)
  BY SyncSeries, RouteQueries
  DEF HistoricalStoragePriceChart, HistoricalCollateralPerGBChart, HistoricalUtilizationChart,
      MinerCountChart, CoinsInCirculation
<1>3. /\ HistoricalCollateralChart =
           Connected(<<"storage/historicalCollateral", "storage/historicalStorageAmount">>,
                     <<Series(GET["storage/historicalCollateral"], "1m"),
                       Series(GET["storage/historicalStorageAmount"], "1m")>>,
                     <<"storage/historicalCollateral", "storage/historicalStorageAmount">>)
      /\ HistoricalBlockRewards =
           Connected(<<"token/historicalBlockRewards", "storage/historicalMinerCounts">>,
                     <<Series(GET["token/historicalBlockRewards"], "1m"),
                       Series(GET["storage/historicalMinerCounts"], "1m")>>,
                     <<"token/historicalBlockRewards", "storage/historicalMinerCounts">>)
  BY SyncSeries, RouteQueries DEF HistoricalCollateralChart, HistoricalBlockRewards
<1>4. /\ Fits(HistoricalStoragePriceChart) /\ Fits(HistoricalCollateralPerGBChart)
      /\ Fits(HistoricalUtilizationChart) /\ Fits(MinerCountChart) /\ Fits(CoinsInCirculation)
  BY <1>1, <1>2, SingleFits
<1>5. Fits(HistoricalCollateralChart) /\ Fits(HistoricalBlockRewards)
  BY <1>1, <1>3, DoubleFits
<1>6. Fits(StorageCapacityHistogram) /\ Fits(MiningEvolutionChart) /\ Fits(TokenHoldingsDistribution)
  BY PlainFits DEF StorageCapacityHistogram, MiningEvolutionChart, TokenHoldingsDistribution
<1>7. s \in {"HistoricalStoragePriceChart", "HistoricalCollateralPerGBChart",
             "HistoricalUtilizationChart", "MinerCountChart", "CoinsInCirculation",
             "HistoricalCollateralChart", "HistoricalBlockRewards", "StorageCapacityHistogram",
             "MiningEvolutionChart", "TokenHoldingsDistribution"}
  BY DEF Component, Components
<1>8. Components[s] \in {HistoricalStoragePriceChart, HistoricalCollateralPerGBChart,
             HistoricalUtilizationChart, MinerCountChart, CoinsInCirculation,
             HistoricalCollateralChart, HistoricalBlockRewards, StorageCapacityHistogram,
             MiningEvolutionChart, TokenHoldingsDistribution}
  BY <1>7 DEF Components
<1>9. QED
  BY <1>4, <1>5, <1>6, <1>8

(* No two components of a page fetch the same. *)
LEMMA PathsOf ==
  /\ Paths("HistoricalStoragePriceChart") = {"storage/historicalStoragePrice"}
  /\ Paths("HistoricalCollateralPerGBChart") = {"storage/historicalCollateralPerGB"}
  /\ Paths("HistoricalUtilizationChart") = {"storage/historicalUtilization"}
  /\ Paths("MinerCountChart") = {"storage/historicalMinerCounts"}
  /\ Paths("CoinsInCirculation") = {"token/historicalCoinsInCirculation"}
  /\ Paths("HistoricalCollateralChart") =
       {"storage/historicalCollateral", "storage/historicalStorageAmount"}
  /\ Paths("HistoricalBlockRewards") =
       {"token/historicalBlockRewards", "storage/historicalMinerCounts"}
  /\ Paths("StorageCapacityHistogram") = {} /\ Paths("MiningEvolutionChart") = {}
  /\ Paths("TokenHoldingsDistribution") = {}
<1>1. \A x : Range(<<x>>) = {x}
  BY DEF Range
<1>2. \A x, y : Range(<<x, y>>) = {x, y}
  BY DEF Range
<1>3. Range(<<>>) = {}
  BY DEF Range
<1> DEFINE F(s) == Components[s].fetches
<1>4. /\ F("HistoricalStoragePriceChart") = <<"storage/historicalStoragePrice">>
      /\ F("HistoricalCollateralPerGBChart") = <<"storage/historicalCollateralPerGB">>
      /\ F("HistoricalUtilizationChart") = <<"storage/historicalUtilization">>
      /\ F("MinerCountChart") = <<"storage/historicalMinerCounts">>
      /\ F("CoinsInCirculation") = <<"token/historicalCoinsInCirculation">>
  BY DEF Components, Connected, HistoricalStoragePriceChart, HistoricalCollateralPerGBChart,
         HistoricalUtilizationChart, MinerCountChart, CoinsInCirculation
<1>5. /\ F("HistoricalCollateralChart") =
           <<"storage/historicalCollateral", "storage/historicalStorageAmount">>
      /\ F("HistoricalBlockRewards") =
           <<"token/historicalBlockRewards", "storage/historicalMinerCounts">>
  BY DEF Components, Connected, HistoricalCollateralChart, HistoricalBlockRewards
<1>6. /\ F("StorageCapacityHistogram") = <<>> /\ F("MiningEvolutionChart") = <<>>
      /\ F("TokenHoldingsDistribution") = <<>>
  BY DEF Components, Plain, Connected, StorageCapacityHistogram, MiningEvolutionChart,
         TokenHoldingsDistribution
<1>7. \A s : Paths(s) = Range(F(s))
  BY DEF Paths
<1> HIDE DEF F
<1>8. QED
  BY <1>1, <1>2, <1>3, <1>4, <1>5, <1>6, <1>7

LEMMA PagesDisjoint ==
  ASSUME NEW p \in DOMAIN Routes, NEW s \in Range(Routes[p]) \cap Component,
         NEW t \in Range(Routes[p]) \cap Component, s # t
  PROVE  Paths(s) \cap Paths(t) = {}
<1>1. p \in {"Home", "StorageMining", "StorageCostCapacity", "Macroeconomics"}
  BY DEF Routes
<1>2. /\ Range(Routes["Home"]) = {"SingleStat", "StorageMinersTable"}
      /\ Range(Routes["StorageMining"]) =
           {"MinerCountChart", "StorageMinersTable", "MiningEvolutionChart"}
  BY DEF Routes, Range
<1>3. Range(Routes["StorageCostCapacity"]) =
           {"HistoricalStoragePriceChart", "HistoricalCollateralPerGBChart",
            "HistoricalUtilizationChart", "StorageCapacityHistogram"}
  BY DEF Routes, Range
<1>4. Range(Routes["Macroeconomics"]) =
           {"CoinsInCirculation", "TokenHoldingsDistribution",
            "HistoricalCollateralChart", "HistoricalBlockRewards"}
  BY DEF Routes, Range
<1>5. "SingleStat" \notin Component /\ "StorageMinersTable" \notin Component
  BY DEF Component, Components
<1>6. CASE p = "Home"
  BY <1>2, <1>5, <1>6
<1>7. CASE p = "StorageMining"
  <2>1. s \in {"MinerCountChart", "MiningEvolutionChart"}
        /\ t \in {"MinerCountChart", "MiningEvolutionChart"}
    BY <1>2, <1>5, <1>7
  <2>2. QED
    BY <2>1, PathsOf
<1>8. CASE p = "StorageCostCapacity"
  BY <1>3, <1>8, PathsOf
<1>9. CASE p = "Macroeconomics"
  BY <1>4, <1>9, PathsOf
<1>10. QED
  BY <1>1, <1>6, <1>7, <1>8, <1>9

ChartsInv == ChartTypes /\ RequestTypes /\ MountedInv /\ StoreInv /\ LabelMatches

(* Two lists, one after the other. *)
LEMMA Concatenated ==
  ASSUME NEW a, NEW b, NEW m \in Nat, NEW n \in Nat, DOMAIN a = 1..m, DOMAIN b = 1..n,
         a = [i \in 1..m |-> a[i]], b = [i \in 1..n |-> b[i]]
  PROVE  /\ Len(a \o b) = m + n
         /\ a \o b = [i \in 1..m + n |-> (a \o b)[i]]
         /\ \A i \in 1..m : (a \o b)[i] = a[i]
         /\ \A i \in 1..m + n : i \notin 1..m => i - m \in 1..n /\ (a \o b)[i] = b[i - m]
<1> DEFINE S == {a[i] : i \in 1..m} \cup {b[i] : i \in 1..n}
<1>1. a \in [1..m -> S] /\ b \in [1..n -> S]
  OBVIOUS
<1> HIDE DEF S
<1>2. a \in Seq(S) /\ b \in Seq(S) /\ Len(a) = m /\ Len(b) = n
  BY <1>1, LenProperties, SeqDef
<1>3. /\ a \o b \in Seq(S) /\ Len(a \o b) = m + n
      /\ \A i \in 1..m + n : (a \o b)[i] = IF i <= m THEN a[i] ELSE b[i - m]
  BY <1>2, ConcatProperties
<1>4. a \o b = [i \in 1..m + n |-> (a \o b)[i]]
  BY <1>3, LenProperties
<1>5. QED
  BY <1>3, <1>4

LEMMA LengthIs ==
  ASSUME NEW a, NEW n \in Nat, a = [i \in 1..n |-> a[i]]
  PROVE  Len(a) = n
<1> DEFINE S == {a[i] : i \in 1..n}
<1>1. a \in [1..n -> S]
  OBVIOUS
<1> HIDE DEF S
<1>2. a \in Seq(S)
  BY <1>1, SeqDef
<1>3. QED
  BY <1>1, <1>2, LenProperties

(* A chart on the page after a remount was there, or is new and empty. *)
Stays(c, Out) ==
  /\ c \in DOMAIN charts /\ charts[c].mounted /\ charts[c].of \notin Out
  /\ charts'[c].of = charts[c].of /\ charts'[c].data = charts[c].data
IsNew(c, Into) == charts'[c].data = NoData /\ charts'[c].of \in Range(Into)

WellFormed(q) ==
  /\ Len(q) \in Nat /\ q = [c \in 1..Len(q) |-> q[c]]
  /\ \A c \in DOMAIN q :
       /\ q[c].mounted \in BOOLEAN
       /\ q[c] = [of |-> q[c].of, mounted |-> q[c].mounted, st |-> q[c].st, data |-> q[c].data]

LEMMA RemountMakes ==
  ASSUME WellFormed(charts), NEW Out, NEW Into, Into = <<>> \/ Into \in Seq(Component),
         Remount(Out, Into)
  PROVE  /\ WellFormed(charts')
         /\ \A c \in DOMAIN charts' : charts'[c].mounted => Stays(c, Out) \/ IsNew(c, Into)
<1> DEFINE m == Len(charts)
           n == Len(Into)
           gone == {c \in DOMAIN charts : charts[c].mounted /\ charts[c].of \in Out}
           left == [c \in DOMAIN charts |-> [charts[c] EXCEPT !.mounted = @ /\ c \notin gone]]
           new == [c \in DOMAIN Into |->
                     [of |-> Into[c], mounted |-> TRUE, st |-> "empty", data |-> NoData]]
<1>1. charts' = left \o new
  BY DEF Remount
<1>2. m \in Nat /\ n \in Nat /\ DOMAIN charts = 1..m /\ DOMAIN Into = 1..n
  <2>1. Into \in Seq(Component)
    BY EmptySeq
  <2>2. QED
    BY <2>1, LenProperties DEF WellFormed
<1>3. /\ \A c \in 1..m : left[c] = [charts[c] EXCEPT !.mounted = @ /\ c \notin gone]
      /\ left = [c \in 1..m |-> left[c]] /\ DOMAIN left = 1..m
  BY <1>2
<1>4. /\ \A c \in 1..n : new[c] = [of |-> Into[c], mounted |-> TRUE, st |-> "empty", data |-> NoData]
      /\ new = [c \in 1..n |-> new[c]] /\ DOMAIN new = 1..n
  BY <1>2
<1>5. \A c \in 1..m : c \in gone <=> charts[c].mounted /\ charts[c].of \in Out
  BY <1>2
<1> HIDE DEF m, n, gone, left, new
<1>6. /\ Len(charts') = m + n /\ charts' = [c \in 1..m + n |-> charts'[c]]
      /\ \A c \in 1..m : charts'[c] = left[c]
      /\ \A c \in 1..m + n : c \notin 1..m => c - m \in 1..n /\ charts'[c] = new[c - m]
  BY <1>1, <1>2, <1>3, <1>4, Concatenated
<1>7. ASSUME NEW c \in 1..m
      PROVE  /\ charts'[c].mounted = (charts[c].mounted /\ ~ (charts[c].mounted /\ charts[c].of \in Out))
             /\ charts'[c].mounted \in BOOLEAN
             /\ charts'[c].of = charts[c].of /\ charts'[c].data = charts[c].data
             /\ charts'[c] = [of |-> charts'[c].of, mounted |-> charts'[c].mounted,
                              st |-> charts'[c].st, data |-> charts'[c].data]
  <2>1. charts[c] = [of |-> charts[c].of, mounted |-> charts[c].mounted,
                     st |-> charts[c].st, data |-> charts[c].data]
    BY <1>2 DEF WellFormed
  <2>2. charts'[c] = [charts[c] EXCEPT !.mounted = @ /\ c \notin gone]
    BY <1>3, <1>6
  <2> DEFINE stays == charts[c].mounted /\ c \notin gone
  <2>3. charts'[c] = [charts[c] EXCEPT !.mounted = stays]
    BY <2>2
  <2> HIDE DEF stays
  <2>4. charts'[c] = [of |-> charts[c].of, mounted |-> stays,
                      st |-> charts[c].st, data |-> charts[c].data]
    BY <2>1, <2>3
  <2>5. charts'[c].mounted = stays /\ charts'[c].of = charts[c].of /\ charts'[c].data = charts[c].data
        /\ charts'[c].st = charts[c].st
    BY <2>4
  <2>6. stays = (charts[c].mounted /\ ~ (charts[c].mounted /\ charts[c].of \in Out)) /\ stays \in BOOLEAN
    BY <1>5 DEF stays
  <2>7. QED
    BY <2>4, <2>5, <2>6
<1>8. ASSUME NEW c \in 1..m + n, c \notin 1..m
      PROVE  /\ charts'[c].mounted \in BOOLEAN /\ charts'[c].data = NoData
             /\ charts'[c].of \in Range(Into)
             /\ charts'[c] = [of |-> charts'[c].of, mounted |-> charts'[c].mounted,
                              st |-> charts'[c].st, data |-> charts'[c].data]
  <2>1. /\ c - m \in DOMAIN Into
        /\ charts'[c] = [of |-> Into[c - m], mounted |-> TRUE, st |-> "empty", data |-> NoData]
    BY <1>2, <1>4, <1>6, <1>8
  <2>2. QED
    BY <2>1 DEF Range
<1>9. DOMAIN charts' = 1..m + n /\ m + n \in Nat
  BY <1>2, <1>6
<1>10. WellFormed(charts')
  BY <1>6, <1>7, <1>8, <1>9 DEF WellFormed
<1>11. \A c \in DOMAIN charts' : charts'[c].mounted => Stays(c, Out) \/ IsNew(c, Into)
  BY <1>2, <1>7, <1>8, <1>9 DEF Stays, IsNew
<1>12. QED
  BY <1>10, <1>11

(* What a remount keeps. *)
LEMMA RemountKeeps ==
  ASSUME ChartTypes, MountedInv, LabelMatches,
         NEW Out, NEW Into, Into = <<>> \/ Into \in Seq(Component), Remount(Out, Into),
         \A s \in onPage \ Out :
           /\ s \in onPage' /\ selectedIndex'[s] = selectedIndex[s]
           /\ s \in disturbed => s \in disturbed'
           /\ isLoading'[s] => isLoading[s],
         \A s \in Range(Into) : s \in onPage' /\ ~ isLoading'[s]
  PROVE  /\ WellFormed(charts')
         /\ \A c \in DOMAIN charts' :
              charts'[c].mounted => charts'[c].of \in onPage' /\ ~ isLoading'[charts'[c].of]
         /\ LabelMatches'
<1>1. /\ WellFormed(charts')
      /\ \A c \in DOMAIN charts' : charts'[c].mounted => Stays(c, Out) \/ IsNew(c, Into)
  <2>1. WellFormed(charts)
    BY DEF ChartTypes, WellFormed
  <2>2. QED
    BY <2>1, RemountMakes
<1>2. ASSUME NEW c \in DOMAIN charts', charts'[c].mounted
      PROVE  charts'[c].of \in onPage' /\ ~ isLoading'[charts'[c].of]
  <2>1. CASE Stays(c, Out)
    BY <2>1 DEF Stays, MountedInv
  <2>2. CASE IsNew(c, Into)
    BY <2>2 DEF IsNew
  <2>3. QED
    BY <1>1, <1>2, <2>1, <2>2
<1>3. ASSUME NEW s \in onPage' \ disturbed', NEW c \in DOMAIN charts',
             charts'[c].of = s, charts'[c].mounted,
             charts'[c].data # NoData, Components[s].fetches # <<>>,
             NEW i \in DOMAIN charts'[c].data
      PROVE  charts'[c].data[i] = Wanted(s, i)'
  <2>1. Stays(c, Out)
    BY <1>1, <1>3 DEF IsNew
  <2>2. /\ s \in onPage \ disturbed /\ c \in ChartsOf(s) /\ charts'[c].data = charts[c].data
        /\ selectedIndex'[s] = selectedIndex[s]
    BY <1>3, <2>1 DEF Stays, MountedInv, ChartsOf
  <2>3. charts[c].data[i] = Wanted(s, i)
    BY <1>3, <2>2 DEF LabelMatches
  <2>4. Wanted(s, i)' = Wanted(s, i)
    BY <2>2 DEF Wanted
  <2>5. QED
    BY <2>2, <2>3, <2>4
<1>4. LabelMatches'
  BY <1>3 DEF LabelMatches, ChartsOf
<1>5. QED
  BY <1>1, <1>2, <1>4

(* StoreInv, of one component. *)
StoreFits(s) ==
  isOverride(s) =>
    /\ \A r \in Requests(s) :
         /\ r.of = s /\ r.live /\ r.dur = DURATIONS[selectedIndex[s] + 1]
         /\ \A q \in Requests(s) : q = r
    /\ \A i \in DOMAIN Components[s].override :
         \/ overrides[Components[s].override[i]] = Wanted(s, i)
         \/ isLoading[s] /\ \E r \in Requests(s) : Components[s].override[i] \in Range(r.left)

LEMMA StoreInvIs == StoreInv <=> \A s \in onPage \ disturbed : StoreFits(s)
BY DEF StoreInv, StoreFits

(* A component that a step does not touch. *)
LEMMA StoreStays ==
  ASSUME NEW s, StoreFits(s), selectedIndex'[s] = selectedIndex[s], isLoading'[s] = isLoading[s],
         Requests(s)' = Requests(s),
         \A i \in DOMAIN Components[s].override :
           overrides'[Components[s].override[i]] = overrides[Components[s].override[i]]
  PROVE  StoreFits(s)'
<1>1. \A i : Wanted(s, i)' = Wanted(s, i)
  BY DEF Wanted
<1>2. isOverride(s)' = isOverride(s)
  BY DEF isOverride
<1>3. QED
  BY <1>1, <1>2 DEF StoreFits

(* Which thunks fetch a stat of a component. *)
LEMMA RequestsAre ==
  ASSUME NEW s \in Component
  PROVE  /\ Requests(s) = {r \in requests : Paths(r.of) \cap Paths(s) # {}}
         /\ Requests(s)' = {r \in requests' : Paths(r.of) \cap Paths(s) # {}}
         /\ Range(Components[s].override) = Paths(s)
         /\ \A i \in DOMAIN Components[s].override : Components[s].override[i] \in Paths(s)
<1>1. Range(Components[s].override) = Paths(s)
  BY ComponentsFit DEF Fits, Paths
<1>2. QED
  BY <1>1 DEF Requests, Paths, Range

(* What a chart shows when it is drawn. *)
LEMMA DataFits ==
  ASSUME ChartsInv, NEW s \in onPage \ disturbed, ~ isLoading[s], Components[s].fetches # <<>>,
         NEW i \in DOMAIN Data(s)
  PROVE  Data(s)[i] = Wanted(s, i)
<1>1. s \in Component /\ Fits(Components[s])
  BY ComponentsFit DEF ChartsInv, ChartTypes
<1>2. CASE isOverride(s)
  <2>1. i \in DOMAIN Components[s].override
        /\ Data(s)[i] = overrides[Components[s].override[i]]
    BY <1>2 DEF Data
  <2>2. QED
    BY <1>2, <2>1 DEF ChartsInv, StoreInv
<1>3. CASE ~ isOverride(s)
  <2>1. Data(s) = Components[s].polled /\ selectedIndex[s] = 2
    BY <1>3 DEF Data, isOverride, defaultIndex
  <2>2. i \in DOMAIN Components[s].override
        /\ Components[s].polled[i] = Series(Components[s].polled[i].query, "1m")
    BY <1>1, <2>1 DEF Fits
  <2>3. DURATIONS[2 + 1] = "1m"
    BY DEF DURATIONS
  <2>4. QED
    BY <2>1, <2>2, <2>3 DEF Wanted
<1>4. QED
  BY <1>2, <1>3

IsDrawn(c, new) ==
  /\ new.of = charts[c].of /\ new.mounted = charts[c].mounted
  /\ new = [of |-> new.of, mounted |-> new.mounted, st |-> new.st, data |-> new.data]
  /\ new.data = charts[c].data \/ (charts[c].mounted /\ new.data = Data(charts[c].of))

LEMMA IsDrawnOf ==
  ASSUME NEW c, NEW st, NEW data,
         data = charts[c].data \/ (charts[c].mounted /\ data = Data(charts[c].of))
  PROVE  IsDrawn(c, [of |-> charts[c].of, mounted |-> charts[c].mounted, st |-> st, data |-> data])
BY DEF IsDrawn

(* A chart in which only the state changes, or that is drawn. *)
LEMMA DrawnKeeps ==
  ASSUME ChartsInv, NEW c \in DOMAIN charts, NEW new, IsDrawn(c, new),
         charts' = [charts EXCEPT ![c] = new],
         UNCHANGED <<onPage, selectedIndex, isLoading, requests, overrides, disturbed>>
  PROVE  ChartsInv'
<1> DEFINE n == Len(charts)
<1>1. /\ n \in Nat /\ charts = [d \in 1..n |-> charts[d]] /\ DOMAIN charts = 1..n
      /\ \A d \in 1..n :
           /\ charts[d].mounted \in BOOLEAN
           /\ charts[d] = [of |-> charts[d].of, mounted |-> charts[d].mounted,
                           st |-> charts[d].st, data |-> charts[d].data]
  BY DEF ChartsInv, ChartTypes
<1>2. /\ new.of = charts[c].of /\ new.mounted = charts[c].mounted
      /\ new = [of |-> new.of, mounted |-> new.mounted, st |-> new.st, data |-> new.data]
  BY DEF IsDrawn
<1>3. charts' = [charts EXCEPT ![c] = new]
  OBVIOUS
<1> HIDE DEF n
<1>4. /\ charts' = [d \in 1..n |-> IF d = c THEN new ELSE charts[d]]
      /\ c \in 1..n
  BY <1>1, <1>3
<1>5. /\ DOMAIN charts' = 1..n /\ charts'[c] = new
      /\ \A d \in 1..n : d # c => charts'[d] = charts[d]
  BY <1>4
<1>6. Len(charts') = n /\ charts' = [d \in 1..Len(charts') |-> charts'[d]]
  <2>1. charts' = [d \in 1..n |-> charts'[d]]
    BY <1>4, <1>5
  <2>2. Len(charts') = n
    BY <1>1, <2>1, LengthIs
  <2>3. QED
    BY <2>1, <2>2
<1>7. \A d \in 1..n : charts'[d].of = charts[d].of /\ charts'[d].mounted = charts[d].mounted
  BY <1>2, <1>5
<1>8. ChartTypes'
  <2>1. ASSUME NEW d \in DOMAIN charts'
        PROVE  /\ charts'[d].mounted \in BOOLEAN
               /\ charts'[d] = [of |-> charts'[d].of, mounted |-> charts'[d].mounted,
                                st |-> charts'[d].st, data |-> charts'[d].data]
    <3>1. CASE d = c
      BY <1>1, <1>2, <1>4, <1>5, <3>1
    <3>2. CASE d # c
      BY <1>1, <1>5, <2>1, <3>2
    <3>3. QED
      BY <3>1, <3>2
  <2>2. onPage' \subseteq Component
        /\ selectedIndex' \in [onPage' -> 0..Len(DURATIONS) - 1] /\ isLoading' \in [onPage' -> BOOLEAN]
        /\ DOMAIN overrides' = DOMAIN GET
    BY DEF ChartsInv, ChartTypes
  <2>3. QED
    BY <1>1, <1>6, <2>1, <2>2 DEF ChartTypes
<1>9. RequestTypes' /\ MountedInv'
  <2>1. RequestTypes'
    BY DEF ChartsInv, RequestTypes
  <2>2. MountedInv'
    BY <1>1, <1>5, <1>7 DEF ChartsInv, MountedInv
  <2>3. QED
    BY <2>1, <2>2
<1>10. StoreInv'
  <2>1. \A s \in onPage \ disturbed : StoreFits(s)
    BY StoreInvIs DEF ChartsInv
  <2>2. ASSUME NEW s \in onPage \ disturbed
        PROVE  StoreFits(s)'
    <3>1. Requests(s)' = Requests(s)
      BY DEF Requests
    <3>2. QED
      BY <2>1, <3>1, StoreStays
  <2>3. \A s \in onPage' \ disturbed' : StoreFits(s)'
    BY <2>2
  <2>4. QED
    BY <2>3 DEF StoreInv, StoreFits
<1>11. LabelMatches'
  <2>1. ASSUME NEW s \in onPage \ disturbed, NEW d \in 1..n,
               charts'[d].of = s, charts'[d].mounted,
               charts'[d].data # NoData, Components[s].fetches # <<>>,
               NEW i \in DOMAIN charts'[d].data
        PROVE  charts'[d].data[i] = Wanted(s, i)
    <3>1. charts[d].of = s /\ charts[d].mounted /\ ~ isLoading[s]
      BY <1>1, <1>7, <2>1 DEF ChartsInv, MountedInv
    <3>2. CASE charts'[d].data = charts[d].data
      BY <1>1, <2>1, <3>1, <3>2 DEF ChartsInv, LabelMatches, ChartsOf
    <3>3. CASE charts'[d].data # charts[d].data
      <4>1. d = c /\ charts'[d] = new /\ new.data # charts[c].data
        BY <1>5, <2>1, <3>3
      <4>2. charts'[d].data = Data(s)
        BY <3>1, <4>1 DEF IsDrawn
      <4>3. QED
        BY <2>1, <3>1, <4>2, DataFits
    <3>4. QED
      BY <3>2, <3>3
  <2>2. \A s, i : Wanted(s, i)' = Wanted(s, i)
    BY DEF Wanted
  <2>3. QED
    BY <1>5, <2>1, <2>2 DEF LabelMatches, ChartsOf
<1>12. QED
  BY <1>8, <1>9, <1>10, <1>11 DEF ChartsInv

(* Nothing of the invariant changes. *)
LEMMA SameCharts ==
  ASSUME ChartsInv,
         UNCHANGED <<charts, onPage, selectedIndex, isLoading, requests, overrides, disturbed>>
  PROVE  ChartsInv'
<1>1. ChartTypes' /\ RequestTypes' /\ MountedInv'
  BY DEF ChartsInv, ChartTypes, RequestTypes, MountedInv
<1>2. \A s, i : Wanted(s, i)' = Wanted(s, i)
  BY DEF Wanted
<1>3. \A s : Requests(s)' = Requests(s) /\ isOverride(s)' = isOverride(s)
  BY DEF Requests, isOverride
<1>4. StoreInv'
  BY <1>2, <1>3 DEF ChartsInv, StoreInv
<1>5. LabelMatches'
  BY <1>2 DEF ChartsInv, LabelMatches, ChartsOf
<1>6. QED
  BY <1>1, <1>4, <1>5 DEF ChartsInv

LEMMA ReadyKeeps ==
  ASSUME ChartsInv, NEW c \in DOMAIN charts, Ready(c)
  PROVE  ChartsInv'
<1> DEFINE new == [of |-> charts[c].of, mounted |-> charts[c].mounted,
                   st |-> "ready", data |-> charts[c].data]
<1>1. charts[c] = [of |-> charts[c].of, mounted |-> charts[c].mounted,
                   st |-> charts[c].st, data |-> charts[c].data]
  BY DEF ChartsInv, ChartTypes
<1>2. charts' = [charts EXCEPT ![c] = new]
  <2>1. [charts[c] EXCEPT !.st = "ready"] = new
    BY <1>1
  <2>2. charts' = [charts EXCEPT ![c] = [charts[c] EXCEPT !.st = "ready"]]
    BY DEF Ready
  <2>3. QED
    BY <2>1, <2>2
<1>3. IsDrawn(c, new)
  BY IsDrawnOf
<1>4. UNCHANGED <<onPage, selectedIndex, isLoading, requests, overrides, disturbed>>
  BY DEF Ready
<1> HIDE DEF new
<1>5. QED
  BY <1>2, <1>3, <1>4, DrawnKeeps

LEMMA LiveRecord ==
  ASSUME NEW r, r = [of |-> r.of, mounted |-> r.mounted, st |-> r.st, data |-> r.data], NEW e
  PROVE  [r EXCEPT !.st = "live", !.data = e]
           = [of |-> r.of, mounted |-> r.mounted, st |-> "live", data |-> e]
<1> DEFINE l == [of |-> r.of, mounted |-> r.mounted, st |-> "live", data |-> r.data]
<1>1. [r EXCEPT !.st = "live"] = l
  OBVIOUS
<1>2. [l EXCEPT !.data = e] = [of |-> r.of, mounted |-> r.mounted, st |-> "live", data |-> e]
  OBVIOUS
<1>3. [r EXCEPT !.st = "live", !.data = e] = [[r EXCEPT !.st = "live"] EXCEPT !.data = e]
  OBVIOUS
<1>4. QED
  BY <1>1, <1>2, <1>3

LEMMA RenderKeeps ==
  ASSUME ChartsInv, NEW c, Render(c),
         UNCHANGED <<onPage, selectedIndex, isLoading, requests, overrides, disturbed>>
  PROVE  ChartsInv'
<1>1. CASE c \notin DOMAIN charts
  <2>1. charts' = charts
    BY <1>1 DEF Render, ChartsInv, ChartTypes
  <2>2. QED
    BY <2>1, SameCharts
<1>2. CASE c \in DOMAIN charts
  <2>1. charts[c] = [of |-> charts[c].of, mounted |-> charts[c].mounted,
                     st |-> charts[c].st, data |-> charts[c].data]
    BY <1>2 DEF ChartsInv, ChartTypes
  <2>2. CASE charts[c].mounted
    <3> DEFINE data == Data(charts[c].of)
               new == [of |-> charts[c].of, mounted |-> charts[c].mounted, st |-> "live", data |-> data]
    <3>1. charts' = [charts EXCEPT ![c] = [charts[c] EXCEPT !.st = "live", !.data = data]]
      BY <2>2 DEF Render
    <3>2. IsDrawn(c, new)
      BY <2>2, IsDrawnOf
    <3> HIDE DEF data
    <3>3. [charts[c] EXCEPT !.st = "live", !.data = data] = new
      BY <2>1, LiveRecord
    <3> HIDE DEF new
    <3>4. QED
      BY <1>2, <3>1, <3>2, <3>3, DrawnKeeps
  <2>3. CASE ~ charts[c].mounted
    <3> DEFINE new == [of |-> charts[c].of, mounted |-> charts[c].mounted,
                       st |-> "failed", data |-> charts[c].data]
    <3>1. charts' = [charts EXCEPT ![c] = [charts[c] EXCEPT !.st = "failed"]]
      BY <2>3 DEF Render
    <3>2. IsDrawn(c, new)
      BY IsDrawnOf
    <3>3. [charts[c] EXCEPT !.st = "failed"] = new
      BY <2>1
    <3> HIDE DEF new
    <3>4. QED
      BY <1>2, <3>1, <3>2, <3>3, DrawnKeeps
  <2>4. QED
    BY <2>2, <2>3
<1>3. QED
  BY <1>1, <1>2

LEMMA DisposeKeeps ==
  ASSUME ChartsInv, NEW c, Dispose(c),
         UNCHANGED <<onPage, selectedIndex, isLoading, requests, overrides, disturbed>>
  PROVE  ChartsInv'
<1>1. CASE c \notin DOMAIN charts \/ ~ Disposes(c)
  <2>1. charts' = charts
    BY <1>1 DEF Dispose, ChartsInv, ChartTypes
  <2>2. QED
    BY <2>1, SameCharts
<1>2. CASE c \in DOMAIN charts /\ Disposes(c)
  <2> DEFINE new == [of |-> charts[c].of, mounted |-> charts[c].mounted,
                     st |-> "disposed", data |-> charts[c].data]
  <2>1. charts[c] = [of |-> charts[c].of, mounted |-> charts[c].mounted,
                     st |-> charts[c].st, data |-> charts[c].data]
    BY <1>2 DEF ChartsInv, ChartTypes
  <2>2. charts' = [charts EXCEPT ![c] = [charts[c] EXCEPT !.st = "disposed"]]
    BY <1>2 DEF Dispose
  <2>3. [charts[c] EXCEPT !.st = "disposed"] = new
    BY <2>1
  <2>4. IsDrawn(c, new)
    BY IsDrawnOf
  <2> HIDE DEF new
  <2>5. QED
    BY <1>2, <2>2, <2>3, <2>4, DrawnKeeps
<1>3. QED
  BY <1>1, <1>2

LEMMA DequeueKeeps ==
  ASSUME ChartsInv, Dequeue
  PROVE  ChartsInv'
<1>1. UNCHANGED <<onPage, selectedIndex, isLoading, requests, overrides, disturbed>>
  BY DEF Dequeue
<1>2. CASE queue = <<>>
  BY <1>1, <1>2, SameCharts DEF Dequeue
<1>3. CASE queue # <<>>
  <2>1. Render(Head(queue).chart) \/ Dispose(Head(queue).chart)
    BY <1>3 DEF Dequeue
  <2>2. QED
    BY <1>1, <2>1, RenderKeeps, DisposeKeeps
<1>4. QED
  BY <1>2, <1>3

LEMMA HeadAndTail ==
  ASSUME NEW E, NEW q \in Seq(E), q # <<>>
  PROVE  /\ Head(q) \in E /\ Head(q) \in Range(q) /\ Tail(q) \in Seq(E)
         /\ Range(Tail(q)) \subseteq Range(q)
         /\ \A x \in Range(q) : x = Head(q) \/ x \in Range(Tail(q))
         /\ Len(q) = 1 <=> Tail(q) = <<>>
<1>1. /\ Len(q) \in Nat \ {0} /\ DOMAIN q = 1..Len(q) /\ Head(q) = q[1] /\ Head(q) \in E
      /\ Tail(q) \in Seq(E) /\ Len(Tail(q)) = Len(q) - 1 /\ DOMAIN Tail(q) = 1..Len(q) - 1
      /\ \A i \in 1..Len(q) - 1 : Tail(q)[i] = q[i + 1]
  BY LenProperties, HeadTailProperties, EmptySeq
<1>2. ASSUME NEW x \in Range(q)
      PROVE  x = Head(q) \/ x \in Range(Tail(q))
  <2>1. PICK i \in 1..Len(q) : x = q[i]
    BY <1>1 DEF Range
  <2>2. CASE i # 1
    <3>1. i - 1 \in 1..Len(q) - 1 /\ (i - 1) + 1 = i
      BY <1>1, <2>2
    <3>2. QED
      BY <1>1, <2>1, <3>1 DEF Range
  <2>3. QED
    BY <1>1, <2>1, <2>2
<1>3. Range(Tail(q)) \subseteq Range(q)
  <2>1. \A i \in 1..Len(q) - 1 : i + 1 \in 1..Len(q)
    BY <1>1
  <2>2. QED
    BY <1>1, <2>1 DEF Range
<1>4. Head(q) \in Range(q)
  BY <1>1 DEF Range
<1>5. Len(q) = 1 <=> Tail(q) = <<>>
  <2>1. Tail(q) = <<>> <=> Len(Tail(q)) = 0
    BY <1>1, EmptySeq
  <2>2. QED
    BY <1>1, <2>1
<1>6. QED
  BY <1>1, <1>2, <1>3, <1>4, <1>5

(* The parts of the invariant after a step. *)
LEMMA Together ==
  ASSUME onPage' \subseteq Component,
         selectedIndex' \in [onPage' -> 0..Len(DURATIONS) - 1],
         isLoading' \in [onPage' -> BOOLEAN], DOMAIN overrides' = DOMAIN GET,
         WellFormed(charts'), RequestTypes',
         \A s, t \in onPage' : s = t \/ Paths(s) \cap Paths(t) = {},
         \A r \in requests' : r.live => r.of \in onPage',
         \A c \in DOMAIN charts' :
           charts'[c].mounted => charts'[c].of \in onPage' /\ ~ isLoading'[charts'[c].of],
         \A s \in onPage' \ disturbed' : StoreFits(s)',
         LabelMatches'
  PROVE  ChartsInv'
<1>1. ChartTypes'
  BY DEF ChartTypes, WellFormed
<1>2. MountedInv'
  BY DEF MountedInv
<1>3. StoreInv'
  BY DEF StoreInv, StoreFits
<1>4. QED
  BY <1>1, <1>2, <1>3 DEF ChartsInv

LEMMA ClickKeeps ==
  ASSUME ChartsInv, NEW s \in onPage, NEW i \in Clickable, Click(s, i)
  PROVE  ChartsInv'
<1> DEFINE new == [id |-> clicks, of |-> s, dur |-> DURATIONS[i + 1],
                   left |-> Components[s].fetches, live |-> TRUE]
<1>1. /\ s \in Component /\ Fits(Components[s]) /\ Components[s].fetches # <<>>
      /\ onPage \subseteq Component /\ i \in 0..Len(DURATIONS) - 1
      /\ selectedIndex \in [onPage -> 0..Len(DURATIONS) - 1] /\ isLoading \in [onPage -> BOOLEAN]
  BY ComponentsFit, ChartsAssumption DEF ChartsInv, ChartTypes, Click
<1>2. /\ onPage' = onPage /\ overrides' = overrides
      /\ selectedIndex' = [selectedIndex EXCEPT ![s] = i]
      /\ isLoading' = [isLoading EXCEPT ![s] = TRUE]
      /\ requests' = requests \cup {new}
      /\ disturbed' = IF Requests(s) = {} THEN disturbed \ {s} ELSE disturbed \cup {s}
      /\ Remount({s}, <<>>)
  BY DEF Click
<1>3. /\ new = [id |-> new.id, of |-> new.of, dur |-> new.dur, left |-> new.left, live |-> new.live]
      /\ new.of = s /\ new.dur = DURATIONS[i + 1] /\ new.left = Components[s].fetches /\ new.live = TRUE
  OBVIOUS
<1> HIDE DEF new
<1>4. /\ selectedIndex'[s] = i /\ isLoading'[s] = TRUE
      /\ \A t \in onPage : t # s => selectedIndex'[t] = selectedIndex[t] /\ isLoading'[t] = isLoading[t]
      /\ selectedIndex' \in [onPage' -> 0..Len(DURATIONS) - 1] /\ isLoading' \in [onPage' -> BOOLEAN]
  BY <1>1, <1>2
<1>5. RequestTypes'
  <2>1. \A r \in requests' : r \in requests \/ r = new
    BY <1>2
  <2>2. new.left \in Seq(DOMAIN GET) /\ new.left # <<>> /\ Range(new.left) \subseteq Paths(new.of)
    BY <1>1, <1>3, RouteQueries DEF Fits, Paths
  <2>3. QED
    BY <1>1, <1>3, <2>1, <2>2 DEF ChartsInv, RequestTypes
<1>6. /\ WellFormed(charts')
      /\ \A c \in DOMAIN charts' :
           charts'[c].mounted => charts'[c].of \in onPage' /\ ~ isLoading'[charts'[c].of]
      /\ LabelMatches'
  <2>1. \A t \in onPage \ {s} :
          /\ t \in onPage' /\ selectedIndex'[t] = selectedIndex[t]
          /\ t \in disturbed => t \in disturbed'
          /\ isLoading'[t] => isLoading[t]
    BY <1>2, <1>4
  <2>2. \A t \in Range(<<>>) : t \in onPage' /\ ~ isLoading'[t]
    BY DEF Range
  <2>3. QED
    BY <1>2, <2>1, <2>2, RemountKeeps DEF ChartsInv
<1>7. ASSUME NEW t \in onPage' \ disturbed'
      PROVE  StoreFits(t)'
  <2>1. t \in onPage /\ t \in Component /\ Fits(Components[t])
    BY <1>1, <1>2, ComponentsFit
  <2>2. CASE t = s
    <3>1. Requests(s) = {}
      BY <1>2, <1>7, <2>2
    <3>2. \A r \in Requests(s)' : r = new
      BY <1>1, <1>2, <3>1, RequestsAre
    <3>3. new \in Requests(s)'
      <4>1. Head(new.left) \in Paths(s)
        BY <1>1, <1>3, HeadAndTail DEF Fits, Paths
      <4>2. QED
        BY <1>1, <1>2, <1>3, <4>1, RequestsAre
    <3>4. \A j \in DOMAIN Components[s].override : Components[s].override[j] \in Range(new.left)
      BY <1>1, <1>3, RequestsAre DEF Paths
    <3>5. QED
      BY <1>3, <1>4, <2>2, <3>2, <3>3, <3>4 DEF StoreFits
  <2>3. CASE t # s
    <3>1. t \notin disturbed
      BY <1>2, <1>7, <2>3
    <3>2. Paths(s) \cap Paths(t) = {}
      BY <2>1, <2>3 DEF ChartsInv, MountedInv
    <3>3. Requests(t)' = Requests(t)
      <4>1. \A r : r \in requests' <=> r \in requests \/ r = new
        BY <1>2
      <4>2. Requests(t)' = {r \in requests' : Paths(r.of) \cap Paths(t) # {}}
            /\ Requests(t) = {r \in requests : Paths(r.of) \cap Paths(t) # {}}
        BY <2>1, RequestsAre
      <4>3. QED
        BY <1>3, <3>2, <4>1, <4>2
    <3>4. StoreFits(t)
      BY <2>1, <3>1, StoreInvIs DEF ChartsInv
    <3>5. QED
      BY <1>2, <1>4, <2>1, <2>3, <3>3, <3>4, StoreStays
  <2>4. QED
    BY <2>2, <2>3
<1>8. /\ \A a, b \in onPage' : a = b \/ Paths(a) \cap Paths(b) = {}
      /\ \A r \in requests' : r.live => r.of \in onPage'
  <2>1. \A r \in requests' : r \in requests \/ r = new
    BY <1>2
  <2>2. QED
    BY <1>2, <1>3, <2>1 DEF ChartsInv, MountedInv
<1>9. DOMAIN overrides' = DOMAIN GET /\ onPage' \subseteq Component
  BY <1>1, <1>2 DEF ChartsInv, ChartTypes
<1>10. QED
  BY <1>4, <1>5, <1>6, <1>7, <1>8, <1>9, Together

(* A thunk is over, whatever it has fetched. *)
LEMMA FinallyKeeps ==
  ASSUME ChartsInv, NEW r \in requests, Finally(r),
         onPage' = onPage, selectedIndex' = selectedIndex, disturbed \subseteq disturbed'
  PROVE  /\ isLoading' \in [onPage' -> BOOLEAN]
         /\ \A t \in onPage : (r.live /\ t = r.of) \/ isLoading'[t] = isLoading[t]
         /\ WellFormed(charts')
         /\ \A c \in DOMAIN charts' :
              charts'[c].mounted => charts'[c].of \in onPage' /\ ~ isLoading'[charts'[c].of]
         /\ LabelMatches'
<1> DEFINE Into == IF r.live /\ isLoading[r.of] THEN <<r.of>> ELSE <<>>
<1>1. /\ r.of \in Component /\ (r.live => r.of \in onPage)
      /\ isLoading \in [onPage -> BOOLEAN]
  BY DEF ChartsInv, ChartTypes, RequestTypes, MountedInv
<1>2. /\ isLoading' = IF r.live THEN [isLoading EXCEPT ![r.of] = FALSE] ELSE isLoading
      /\ Remount({}, Into)
  BY DEF Finally
<1>3. /\ isLoading' \in [onPage' -> BOOLEAN]
      /\ \A t \in onPage : isLoading'[t] = IF r.live /\ t = r.of THEN FALSE ELSE isLoading[t]
  BY <1>1, <1>2
<1>4. Into = <<>> \/ Into \in Seq(Component)
  BY <1>1
<1>5. \A t \in Range(Into) : t \in onPage' /\ ~ isLoading'[t]
  <2>1. CASE r.live /\ isLoading[r.of]
    <3>1. Range(Into) = {r.of}
      BY <2>1 DEF Range
    <3>2. QED
      BY <1>1, <1>3, <2>1, <3>1
  <2>2. CASE ~ (r.live /\ isLoading[r.of])
    BY <2>2 DEF Range
  <2>3. QED
    BY <2>1, <2>2
<1>6. \A t \in onPage \ {} :
        /\ t \in onPage' /\ selectedIndex'[t] = selectedIndex[t]
        /\ t \in disturbed => t \in disturbed'
        /\ isLoading'[t] => isLoading[t]
  BY <1>3
<1> HIDE DEF Into
<1>7. QED
  BY <1>2, <1>3, <1>4, <1>5, <1>6, RemountKeeps DEF ChartsInv

LEMMA SetOverrideKeeps ==
  ASSUME ChartsInv, NEW r \in requests, SetOverride(r)
  PROVE  ChartsInv'
<1> DEFINE rest == [r EXCEPT !.left = Tail(r.left)]
           path == Head(r.left)
<1>1. /\ r = [id |-> r.id, of |-> r.of, dur |-> r.dur, left |-> r.left, live |-> r.live]
      /\ r.of \in Component /\ r.live \in BOOLEAN /\ (r.live => r.of \in onPage)
      /\ r.left \in Seq(DOMAIN GET) /\ r.left # <<>> /\ Range(r.left) \subseteq Paths(r.of)
      /\ onPage \subseteq Component /\ DOMAIN overrides = DOMAIN GET
  BY DEF ChartsInv, ChartTypes, RequestTypes, MountedInv
<1>2. /\ overrides' = [overrides EXCEPT ![path] = Answer(path, r.dur)]
      /\ requests' = (requests \ {r}) \cup (IF Len(r.left) = 1 THEN {} ELSE {rest})
      /\ IF Len(r.left) = 1 THEN Finally(r) ELSE UNCHANGED <<isLoading, queueVars>>
      /\ UNCHANGED <<onPage, selectedIndex, disturbed>>
  BY DEF SetOverride, Ends
<1>3. /\ path \in DOMAIN GET /\ path \in Range(r.left) /\ Tail(r.left) \in Seq(DOMAIN GET)
      /\ Range(Tail(r.left)) \subseteq Range(r.left)
      /\ \A x \in Range(r.left) : x = path \/ x \in Range(Tail(r.left))
      /\ Len(r.left) = 1 <=> Tail(r.left) = <<>>
  BY <1>1, HeadAndTail
<1>4. /\ rest = [id |-> rest.id, of |-> rest.of, dur |-> rest.dur, left |-> rest.left, live |-> rest.live]
      /\ rest.of = r.of /\ rest.dur = r.dur /\ rest.live = r.live /\ rest.left = Tail(r.left)
  <2> DEFINE after == Tail(r.left)
  <2>1. rest = [r EXCEPT !.left = after] /\ after = Tail(r.left)
    OBVIOUS
  <2> HIDE DEF after, rest
  <2>2. r = [id |-> r.id, of |-> r.of, dur |-> r.dur, left |-> r.left, live |-> r.live]
    BY <1>1
  <2>3. rest = [id |-> r.id, of |-> r.of, dur |-> r.dur, left |-> after, live |-> r.live]
    BY ONLY <2>1, <2>2
  <2>4. /\ rest.id = r.id /\ rest.of = r.of /\ rest.dur = r.dur /\ rest.live = r.live
        /\ rest.left = after
    BY ONLY <2>3
  <2>5. QED
    BY ONLY <2>1, <2>3, <2>4
<1> HIDE DEF rest, path
<1>5. /\ DOMAIN overrides' = DOMAIN GET /\ overrides'[path] = Answer(path, r.dur)
      /\ \A x : x # path => overrides'[x] = overrides[x]
  BY <1>1, <1>2, <1>3
<1>6. \A q \in requests' : (q \in requests /\ q # r) \/ (q = rest /\ Len(r.left) # 1)
  BY <1>2
<1>7. RequestTypes'
  <2>1. rest.left \in Seq(DOMAIN GET) /\ Range(rest.left) \subseteq Paths(rest.of)
        /\ (Len(r.left) # 1 => rest.left # <<>>)
    BY <1>1, <1>3, <1>4
  <2>2. QED
    BY <1>1, <1>4, <1>6, <2>1 DEF ChartsInv, RequestTypes
<1>8. /\ isLoading' \in [onPage' -> BOOLEAN]
      /\ \A t \in onPage : (Len(r.left) = 1 /\ r.live /\ t = r.of) \/ isLoading'[t] = isLoading[t]
      /\ WellFormed(charts')
      /\ \A c \in DOMAIN charts' :
           charts'[c].mounted => charts'[c].of \in onPage' /\ ~ isLoading'[charts'[c].of]
      /\ LabelMatches'
  <2>1. CASE Len(r.left) = 1
    BY <1>2, <2>1, FinallyKeeps
  <2>2. CASE Len(r.left) # 1
    <3>1. UNCHANGED <<isLoading, charts, onPage, selectedIndex, disturbed>>
      BY <1>2, <2>2 DEF queueVars
    <3>2. \A s, i : Wanted(s, i)' = Wanted(s, i)
      BY <3>1 DEF Wanted
    <3>3. LabelMatches'
      BY <3>1, <3>2 DEF ChartsInv, LabelMatches, ChartsOf
    <3>4. QED
      BY <2>2, <3>1, <3>3 DEF ChartsInv, ChartTypes, MountedInv, WellFormed
  <2>3. QED
    BY <2>1, <2>2
<1>9. ASSUME NEW t \in onPage' \ disturbed'
      PROVE  StoreFits(t)'
  <2>1. t \in onPage \ disturbed /\ t \in Component /\ Fits(Components[t]) /\ StoreFits(t)
    BY <1>1, <1>2, ComponentsFit, StoreInvIs DEF ChartsInv
  <2>2. /\ Requests(t) = {q \in requests : Paths(q.of) \cap Paths(t) # {}}
        /\ Requests(t)' = {q \in requests' : Paths(q.of) \cap Paths(t) # {}}
        /\ \A i \in DOMAIN Components[t].override : Components[t].override[i] \in Paths(t)
    BY <2>1, RequestsAre
  <2>3. /\ \A i : Wanted(t, i)' = Wanted(t, i)
        /\ isOverride(t)' = isOverride(t) /\ selectedIndex' = selectedIndex
    BY <1>2 DEF Wanted, isOverride
  <2>4. CASE ~ isOverride(t)
    BY <2>3, <2>4 DEF StoreFits
  <2>5. CASE isOverride(t) /\ r \in Requests(t)
    <3>1. /\ r.of = t /\ r.live /\ r.dur = DURATIONS[selectedIndex[t] + 1]
          /\ \A q \in Requests(t) : q = r
      BY <2>1, <2>5 DEF StoreFits
    <3>2. \A q \in Requests(t)' : q = rest
      BY <1>6, <2>2, <3>1
    <3>3. Len(r.left) # 1 => rest \in Requests(t)'
      BY <1>2, <1>4, <2>2, <2>5
    <3>4. ASSUME NEW i \in DOMAIN Components[t].override
          PROVE  \/ overrides'[Components[t].override[i]] = Wanted(t, i)
                 \/ /\ isLoading'[t] /\ rest \in Requests(t)'
                    /\ Components[t].override[i] \in Range(rest.left)
      <4>1. CASE Components[t].override[i] = path
        <5>1. Wanted(t, i) = Series(GET[path], r.dur)
          BY <2>1, <3>1, <3>4, <4>1 DEF Wanted, Fits
        <5>2. QED
          BY <1>5, <4>1, <5>1 DEF Answer
      <4>2. CASE Components[t].override[i] # path
        <5>1. CASE overrides[Components[t].override[i]] = Wanted(t, i)
          BY <1>5, <4>2, <5>1
        <5>2. CASE isLoading[t] /\ Components[t].override[i] \in Range(r.left)
          <6>1. Components[t].override[i] \in Range(Tail(r.left))
            BY <1>3, <4>2, <5>2
          <6>2. Range(<<>>) = {}
            BY DEF Range
          <6>3. Len(r.left) # 1
            BY <1>3, <6>1, <6>2
          <6>4. QED
            BY <1>4, <1>8, <2>1, <3>3, <5>2, <6>1, <6>3
        <5>3. QED
          BY <2>1, <2>5, <3>1, <3>4, <5>1, <5>2 DEF StoreFits
      <4>3. QED
        BY <4>1, <4>2
    <3>5. QED
      BY <1>4, <2>3, <3>1, <3>2, <3>4 DEF StoreFits
  <2>6. CASE r \notin Requests(t)
    <3>1. Paths(r.of) \cap Paths(t) = {}
      BY <2>2, <2>6
    <3>2. path \in Paths(r.of)
      BY <1>1, <1>3
    <3>3. r.of # t
      BY <3>1, <3>2
    <3>4. Requests(t)' = Requests(t)
      <4>1. \A q : q \in requests' /\ Paths(q.of) \cap Paths(t) # {} <=>
                   q \in requests /\ Paths(q.of) \cap Paths(t) # {}
        BY <1>2, <1>4, <3>1
      <4>2. QED
        BY <2>2, <4>1
    <3>5. \A i \in DOMAIN Components[t].override :
            overrides'[Components[t].override[i]] = overrides[Components[t].override[i]]
      BY <1>5, <2>2, <3>1, <3>2
    <3>6. isLoading'[t] = isLoading[t]
      BY <1>8, <2>1, <3>3
    <3>7. QED
      BY <1>2, <2>1, <3>4, <3>5, <3>6, StoreStays
  <2>7. QED
    BY <2>4, <2>5, <2>6
<1>10. /\ onPage' \subseteq Component
       /\ selectedIndex' \in [onPage' -> 0..Len(DURATIONS) - 1]
       /\ \A a, b \in onPage' : a = b \/ Paths(a) \cap Paths(b) = {}
       /\ \A q \in requests' : q.live => q.of \in onPage'
  BY <1>1, <1>2, <1>4, <1>6 DEF ChartsInv, ChartTypes, MountedInv
<1>11. QED
  BY <1>5, <1>7, <1>8, <1>9, <1>10, Together

LEMMA RequestFailsKeeps ==
  ASSUME ChartsInv, NEW r \in requests, RequestFails(r)
  PROVE  ChartsInv'
<1>1. /\ requests' = requests \ {r}
      /\ disturbed' = disturbed \cup (IF r.live THEN {r.of} ELSE {})
      /\ Finally(r) /\ UNCHANGED <<onPage, selectedIndex, overrides>>
  BY DEF RequestFails
<1>2. /\ isLoading' \in [onPage' -> BOOLEAN]
      /\ \A t \in onPage : (r.live /\ t = r.of) \/ isLoading'[t] = isLoading[t]
      /\ WellFormed(charts')
      /\ \A c \in DOMAIN charts' :
           charts'[c].mounted => charts'[c].of \in onPage' /\ ~ isLoading'[charts'[c].of]
      /\ LabelMatches'
  BY <1>1, FinallyKeeps
<1>3. ASSUME NEW t \in onPage' \ disturbed'
      PROVE  StoreFits(t)'
  <2>1. /\ t \in onPage \ disturbed /\ t \in Component /\ StoreFits(t)
        /\ ~ (r.live /\ t = r.of) /\ isLoading'[t] = isLoading[t]
    BY <1>1, <1>2, StoreInvIs DEF ChartsInv, ChartTypes
  <2>2. CASE ~ isOverride(t)
    <3>1. ~ isOverride(t)'
      BY <1>1, <2>2 DEF isOverride
    <3>2. QED
      BY <3>1 DEF StoreFits
  <2>3. CASE isOverride(t)
    <3>1. r \notin Requests(t)
      BY <2>1, <2>3 DEF StoreFits
    <3>2. Requests(t)' = Requests(t)
      BY <1>1, <3>1 DEF Requests
    <3>3. QED
      BY <1>1, <2>1, <3>2, StoreStays
  <2>4. QED
    BY <2>2, <2>3
<1>4. RequestTypes' /\ \A q \in requests' : q.live => q.of \in onPage'
  BY <1>1 DEF ChartsInv, RequestTypes, MountedInv
<1>5. /\ onPage' \subseteq Component /\ DOMAIN overrides' = DOMAIN GET
      /\ selectedIndex' \in [onPage' -> 0..Len(DURATIONS) - 1]
      /\ \A a, b \in onPage' : a = b \/ Paths(a) \cap Paths(b) = {}
  BY <1>1 DEF ChartsInv, ChartTypes, MountedInv
<1>6. QED
  BY <1>2, <1>3, <1>4, <1>5, Together

(* The charts of a page are those of Routes. *)
LEMMA ChartsOnPage ==
  ASSUME NEW p \in DOMAIN Routes, NEW without
  PROVE  /\ ChartsOn(p, without) \in Seq(Component)
         /\ Range(ChartsOn(p, without)) \subseteq Range(Routes[p]) \cap Component
<1> DEFINE q == Routes[p]
           S == (cast \cap Component) \ without
           r == Filter(q, S)
<1>1. q \in Seq(Range(q))
  <2>1. p \in {"Home", "StorageMining", "StorageCostCapacity", "Macroeconomics"}
    BY DEF Routes
  <2>2. \A a, b : <<a, b>> \in Seq(Range(<<a, b>>))
    BY DEF Range
  <2>3. \A a, b, c : <<a, b, c>> \in Seq(Range(<<a, b, c>>))
    BY DEF Range
  <2>4. \A a, b, c, d : <<a, b, c, d>> \in Seq(Range(<<a, b, c, d>>))
    BY DEF Range
  <2>5. CASE p = "Home"
    BY <2>2, <2>5 DEF Routes
  <2>6. CASE p = "StorageMining"
    BY <2>3, <2>6 DEF Routes
  <2>7. CASE p = "StorageCostCapacity"
    BY <2>4, <2>7 DEF Routes
  <2>8. CASE p = "Macroeconomics"
    BY <2>4, <2>8 DEF Routes
  <2>9. QED
    BY <2>1, <2>5, <2>6, <2>7, <2>8
<1> HIDE DEF q, S
<1>2. Picked(r, Range(q), q, S, Len(q))
  BY <1>1, FilterPicks
<1> HIDE DEF r
<1>3. /\ r \in Seq(Range(q)) /\ Len(q) \in Nat /\ DOMAIN q = 1..Len(q)
      /\ DOMAIN r = 1..Len(r) /\ Len(r) \in Nat /\ r = [i \in 1..Len(r) |-> r[i]]
  BY <1>1, <1>2, LenProperties DEF Picked
<1>4. \A i \in 1..Len(r) : r[i] \in Range(q) /\ r[i] \in S
  BY <1>2, <1>3 DEF Picked, Range
<1>5. r \in [1..Len(r) -> Component]
  BY <1>3, <1>4 DEF S
<1>6. r \in Seq(Component)
  BY <1>3, <1>5, SeqDef
<1>7. Range(r) \subseteq Range(q) \cap Component
  BY <1>3, <1>4 DEF S, Range
<1>8. ChartsOn(p, without) = r
  BY DEF ChartsOn, r, S, q
<1>9. QED
  BY <1>6, <1>7, <1>8 DEF q

LEMMA OpenKeeps ==
  ASSUME ChartsInv, NEW p \in DOMAIN Routes, NEW without, ShowCharts(ChartsOn(p, without))
  PROVE  ChartsInv'
<1> DEFINE Into == ChartsOn(p, without)
<1>1. Into \in Seq(Component) /\ Range(Into) \subseteq Range(Routes[p]) \cap Component
  BY ChartsOnPage
<1>2. ShowCharts(Into)
  OBVIOUS
<1> HIDE DEF Into
<1>3. /\ onPage' = Range(Into)
      /\ selectedIndex' = [s \in onPage' |-> defaultIndex]
      /\ isLoading' = [s \in onPage' |-> FALSE]
      /\ requests' = {[r EXCEPT !.live = FALSE] : r \in requests}
      /\ disturbed' = {} /\ overrides' = overrides /\ Remount(onPage, Into)
  BY <1>2 DEF ShowCharts
<1>4. defaultIndex \in 0..Len(DURATIONS) - 1
  BY ChartsAssumption
<1>5. /\ selectedIndex' \in [onPage' -> 0..Len(DURATIONS) - 1] /\ isLoading' \in [onPage' -> BOOLEAN]
      /\ \A s \in onPage' : selectedIndex'[s] = defaultIndex /\ isLoading'[s] = FALSE
  BY <1>3, <1>4
<1>6. ASSUME NEW q \in requests'
      PROVE  \E r \in requests :
               /\ q.of = r.of /\ q.left = r.left /\ q.live = FALSE
               /\ q = [id |-> q.id, of |-> q.of, dur |-> q.dur, left |-> q.left, live |-> q.live]
  <2>1. PICK r \in requests : q = [r EXCEPT !.live = FALSE]
    BY <1>3
  <2>2. r = [id |-> r.id, of |-> r.of, dur |-> r.dur, left |-> r.left, live |-> r.live]
    BY DEF ChartsInv, RequestTypes
  <2>3. q = [id |-> r.id, of |-> r.of, dur |-> r.dur, left |-> r.left, live |-> FALSE]
    BY ONLY <2>1, <2>2
  <2>4. q.id = r.id /\ q.of = r.of /\ q.dur = r.dur /\ q.left = r.left /\ q.live = FALSE
    BY ONLY <2>3
  <2>5. q = [id |-> q.id, of |-> q.of, dur |-> q.dur, left |-> q.left, live |-> q.live]
    BY ONLY <2>3, <2>4
  <2>6. QED
    BY <2>4, <2>5
<1>7. RequestTypes' /\ \A q \in requests' : q.live => q.of \in onPage'
  BY <1>6 DEF ChartsInv, RequestTypes
<1>8. /\ WellFormed(charts')
      /\ \A c \in DOMAIN charts' :
           charts'[c].mounted => charts'[c].of \in onPage' /\ ~ isLoading'[charts'[c].of]
      /\ LabelMatches'
  <2>1. \A s \in Range(Into) : s \in onPage' /\ ~ isLoading'[s]
    BY <1>3, <1>5
  <2>2. QED
    BY <1>1, <1>3, <2>1, RemountKeeps DEF ChartsInv
<1>9. \A s \in onPage' \ disturbed' : StoreFits(s)'
  BY <1>5 DEF StoreFits, isOverride
<1>10. \A a, b \in onPage' : a = b \/ Paths(a) \cap Paths(b) = {}
  BY <1>1, <1>3, PagesDisjoint
<1>11. onPage' \subseteq Component /\ DOMAIN overrides' = DOMAIN GET
  BY <1>1, <1>3 DEF ChartsInv, ChartTypes
<1>12. QED
  BY <1>5, <1>7, <1>8, <1>9, <1>10, <1>11, Together

LEMMA ChartsInit0 == PagesInit => ChartsInv
<1> SUFFICES ASSUME PagesInit PROVE ChartsInv
  OBVIOUS
<1>1. /\ onPage = {} /\ requests = {} /\ charts = <<>>
      /\ selectedIndex = [s \in {} |-> defaultIndex] /\ isLoading = [s \in {} |-> FALSE]
      /\ overrides = [path \in DOMAIN GET |-> NoData]
  BY DEF PagesInit, ChartsInit
<1>2. Len(charts) = 0 /\ DOMAIN charts = {} /\ charts = [c \in 1..Len(charts) |-> charts[c]]
  BY <1>1
<1>3. ChartTypes
  BY <1>1, <1>2 DEF ChartTypes
<1>4. QED
  BY <1>1, <1>2, <1>3 DEF ChartsInv, RequestTypes, MountedInv, StoreInv, LabelMatches

LEMMA ChartsNext == ChartsInv /\ [PagesNext]_pagesVars => ChartsInv'
<1> SUFFICES ASSUME ChartsInv, [PagesNext]_pagesVars PROVE ChartsInv'
  OBVIOUS
<1>1. CASE \E p \in DOMAIN Routes : Open(p)
  BY <1>1, OpenKeeps DEF Open
<1>2. CASE ChartStep
  <2>1. CASE Dequeue
    BY <2>1, DequeueKeeps
  <2>2. CASE \E c \in DOMAIN charts : Ready(c)
    BY <2>2, ReadyKeeps
  <2>3. CASE \E s \in onPage, i \in Clickable : Click(s, i)
    BY <2>3, ClickKeeps
  <2>4. CASE \E r \in requests : SetOverride(r) \/ RequestFails(r)
    BY <2>4, SetOverrideKeeps, RequestFailsKeeps
  <2>5. QED
    BY <1>2, <2>1, <2>2, <2>3, <2>4 DEF ChartStep
<1>3. CASE UNCHANGED chartVars
  BY <1>3, SameCharts DEF chartVars, queueVars
<1>4. QED
  BY <1>1, <1>2, <1>3 DEF PagesNext, pagesVars

(* Whoever waits for the answers before the next click sees the series of  *)
(* the duration that is marked (SwitchableContent.tsx, ducks/overrides.ts), *)
(* for any clicks, pages and orders of the answers.                        *)
THEOREM ChartsShowTheMarked == PagesSpec => []LabelMatches
<1>1. ChartsInv => LabelMatches
  BY DEF ChartsInv
<1>2. QED
  BY <1>1, ChartsInit0, ChartsNext, PTL DEF PagesSpec

--------------------------------------------------------------------------------
(* The render queue *)

LEMMA JobIs ==
  ASSUME NEW op, NEW c
  PROVE  /\ Job(op, c).op = op /\ Job(op, c).chart = c
         /\ op \in {"render", "dispose"} /\ c \in Nat => Job(op, c) \in Jobs
         /\ \A o, d : Job(op, c) = Job(o, d) => op = o /\ c = d
BY DEF Job, Jobs

LEMMA SetInOrder ==
  ASSUME NEW S, IsFiniteSet(S)
  PROVE  LET f == SetToSeq(S)
         IN  /\ f \in Seq(S) /\ Len(f) \in Nat
             /\ \A i, j \in 1..Len(f) : f[i] = f[j] => i = j
             /\ \A x \in S : \E i \in 1..Len(f) : f[i] = x
<1> DEFINE D == 1..Cardinality(S)
           f == SetToSeq(S)
<1>1. Cardinality(S) \in Nat /\ ExistsBijection(D, S)
  BY FS_CardinalityType
<1>2. PICK g \in Bijection(D, S) : TRUE
  BY <1>1 DEF ExistsBijection
<1>3. g \in [D -> S] /\ \A a, b \in D : g[a] = g[b] => a = b
  BY <1>2 DEF Bijection, Injection, Surjection, IsInjective
<1>4. f \in [D -> S] /\ \A a, b \in D : f[a] = f[b] => a = b
  <2>1. \E h \in [D -> S] : IsInjective(h)
    BY <1>3 DEF IsInjective
  <2>2. f \in [D -> S] /\ IsInjective(f)
    BY <2>1, Zenon DEF SetToSeq
  <2>3. QED
    BY <2>2 DEF IsInjective
<1>5. f \in Seq(S) /\ Len(f) = Cardinality(S)
  BY <1>1, <1>4
<1>6. \A x \in S : \E i \in D : f[i] = x
  <2>1. IsFiniteSet(D) /\ Cardinality(D) = Cardinality(S)
    BY <1>1, FS_Interval
  <2>2. f \in Injection(D, S)
    BY <1>4 DEF Injection, IsInjective
  <2> HIDE DEF D, f
  <2>3. f \in Surjection(D, S)
    BY <2>1, <2>2, FS_Injection
  <2>4. QED
    BY <2>3 DEF Surjection
<1>7. QED
  BY <1>1, <1>4, <1>5, <1>6

LEMMA TwoLists ==
  ASSUME NEW S, NEW a \in Seq(S), NEW b \in Seq(S)
  PROVE  /\ a \o b \in Seq(S) /\ Len(a \o b) = Len(a) + Len(b)
         /\ Len(a) \in Nat /\ Len(b) \in Nat
         /\ \A i \in 1..Len(a) : i \in 1..Len(a \o b) /\ (a \o b)[i] = a[i]
         /\ \A i \in 1..Len(b) :
              Len(a) + i \in 1..Len(a \o b) /\ (a \o b)[Len(a) + i] = b[i]
<1>1. Len(a) \in Nat /\ Len(b) \in Nat
  BY LenProperties
<1>2. /\ a \o b \in Seq(S) /\ Len(a \o b) = Len(a) + Len(b)
      /\ \A i \in 1..Len(a) + Len(b) :
           (a \o b)[i] = IF i <= Len(a) THEN a[i] ELSE b[i - Len(a)]
  BY ConcatProperties
<1>3. \A i \in 1..Len(a) : i \in 1..Len(a) + Len(b) /\ i <= Len(a)
  BY <1>1
<1>4. \A i \in 1..Len(b) : /\ Len(a) + i \in 1..Len(a) + Len(b)
                           /\ ~ (Len(a) + i <= Len(a)) /\ Len(a) + i - Len(a) = i
  BY <1>1
<1>5. QED
  BY <1>1, <1>2, <1>3, <1>4

LEMMA ThreeLists ==
  ASSUME NEW S, NEW a \in Seq(S), NEW b \in Seq(S), NEW c \in Seq(S)
  PROVE  LET q == a \o b \o c
         IN  /\ q \in Seq(S) /\ Len(q) = Len(a) + Len(b) + Len(c)
             /\ \A i \in 1..Len(a) : i \in 1..Len(q) /\ q[i] = a[i]
             /\ \A i \in 1..Len(b) : Len(a) + i \in 1..Len(q) /\ q[Len(a) + i] = b[i]
             /\ \A i \in 1..Len(c) :
                  Len(a) + Len(b) + i \in 1..Len(q) /\ q[Len(a) + Len(b) + i] = c[i]
<1> DEFINE p == a \o b
<1>1. /\ p \in Seq(S) /\ Len(p) = Len(a) + Len(b)
      /\ Len(a) \in Nat /\ Len(b) \in Nat
      /\ \A i \in 1..Len(a) : i \in 1..Len(p) /\ p[i] = a[i]
      /\ \A i \in 1..Len(b) : Len(a) + i \in 1..Len(p) /\ p[Len(a) + i] = b[i]
  BY TwoLists
<1> DEFINE q == p \o c
<1> HIDE DEF p
<1>2. /\ q \in Seq(S) /\ Len(q) = Len(p) + Len(c)
      /\ Len(c) \in Nat
      /\ \A i \in 1..Len(p) : i \in 1..Len(q) /\ q[i] = p[i]
      /\ \A i \in 1..Len(c) : Len(p) + i \in 1..Len(q) /\ q[Len(p) + i] = c[i]
  <2>1. p \in Seq(S)
    BY <1>1
  <2>2. QED
    BY <2>1, TwoLists
<1> HIDE DEF q
<1>3. \A i \in 1..Len(a) : i \in 1..Len(q) /\ q[i] = a[i]
  BY <1>1, <1>2
<1>4. \A i \in 1..Len(b) : Len(a) + i \in 1..Len(q) /\ q[Len(a) + i] = b[i]
  BY <1>1, <1>2
<1>5. \A i \in 1..Len(c) :
        Len(a) + Len(b) + i \in 1..Len(q) /\ q[Len(a) + Len(b) + i] = c[i]
  BY <1>1, <1>2
<1>6. QED
  BY <1>1, <1>2, <1>3, <1>4, <1>5 DEF p, q

LEMMA ThreeParts ==
  ASSUME NEW a \in Nat, NEW b \in Nat, NEW c \in Nat, NEW i \in 1..a + b + c
  PROVE  \/ i \in 1..a
         \/ i - a \in 1..b /\ i = a + (i - a)
         \/ i - (a + b) \in 1..c /\ i = a + b + (i - (a + b))
OBVIOUS

(* A remount leaves what was drawn as it is; what comes is still empty. *)
LEMMA RemountStates ==
  ASSUME WellFormed(charts), NEW Out, NEW Into \in Seq(Component), Remount(Out, Into)
  PROVE  LET m == Len(charts) n == Len(Into)
         IN  /\ m \in Nat /\ n \in Nat /\ DOMAIN charts = 1..m /\ DOMAIN charts' = 1..m + n
             /\ \A c \in 1..m :
                  /\ charts'[c].st = charts[c].st
                  /\ charts'[c].mounted <=> charts[c].mounted /\ charts[c].of \notin Out
             /\ \A c \in m + 1..m + n : charts'[c].st = "empty" /\ charts'[c].mounted
<1> DEFINE m == Len(charts)
           n == Len(Into)
           gone == {c \in DOMAIN charts : charts[c].mounted /\ charts[c].of \in Out}
           left == [c \in DOMAIN charts |-> [charts[c] EXCEPT !.mounted = @ /\ c \notin gone]]
           new == [c \in DOMAIN Into |->
                     [of |-> Into[c], mounted |-> TRUE, st |-> "empty", data |-> NoData]]
<1>1. charts' = left \o new
  BY DEF Remount
<1>2. m \in Nat /\ n \in Nat /\ DOMAIN charts = 1..m /\ DOMAIN Into = 1..n
  BY LenProperties DEF WellFormed
<1>3. /\ \A c \in 1..m : left[c] = [charts[c] EXCEPT !.mounted = @ /\ c \notin gone]
      /\ left = [c \in 1..m |-> left[c]] /\ DOMAIN left = 1..m
  BY <1>2
<1>4. /\ \A c \in 1..n : new[c] = [of |-> Into[c], mounted |-> TRUE, st |-> "empty", data |-> NoData]
      /\ new = [c \in 1..n |-> new[c]] /\ DOMAIN new = 1..n
  BY <1>2
<1>5. \A c \in 1..m : c \in gone <=> charts[c].mounted /\ charts[c].of \in Out
  BY <1>2
<1> HIDE DEF m, n, gone, left, new
<1>6. /\ Len(charts') = m + n /\ charts' = [c \in 1..m + n |-> charts'[c]]
      /\ \A c \in 1..m : charts'[c] = left[c]
      /\ \A c \in 1..m + n : c \notin 1..m => c - m \in 1..n /\ charts'[c] = new[c - m]
  BY <1>1, <1>2, <1>3, <1>4, Concatenated
<1>7. ASSUME NEW c \in 1..m
      PROVE  /\ charts'[c].st = charts[c].st
             /\ charts'[c].mounted <=> charts[c].mounted /\ charts[c].of \notin Out
  <2>1. charts[c] = [of |-> charts[c].of, mounted |-> charts[c].mounted,
                     st |-> charts[c].st, data |-> charts[c].data]
        /\ charts[c].mounted \in BOOLEAN
    BY <1>2 DEF WellFormed
  <2> DEFINE stays == charts[c].mounted /\ c \notin gone
  <2>2. charts'[c] = [charts[c] EXCEPT !.mounted = stays]
    BY <1>3, <1>6
  <2> HIDE DEF stays
  <2>3. charts'[c].mounted = stays /\ charts'[c].st = charts[c].st
    BY <2>1, <2>2
  <2>4. stays <=> charts[c].mounted /\ charts[c].of \notin Out
    BY <1>5 DEF stays
  <2>5. stays \in BOOLEAN
    BY DEF stays
  <2>6. QED
    BY <2>3, <2>4, <2>5
<1>8. ASSUME NEW c \in m + 1..m + n
      PROVE  charts'[c].st = "empty" /\ charts'[c].mounted
  <2>1. c \in 1..m + n /\ c \notin 1..m
    BY <1>2
  <2>2. c - m \in 1..n /\ charts'[c] = new[c - m]
    BY <1>6, <2>1
  <2>3. QED
    BY <1>4, <2>2
<1>9. DOMAIN charts' = 1..m + n
  BY <1>6
<1>10. QED
  BY <1>2, <1>7, <1>8, <1>9 DEF m, n

(* The jobs of those that come are before the others, of those that go     *)
(* (f) behind them.                                                        *)
JobsMove(Out, Into, k, f) ==
  LET m == Len(charts) n == Len(Into) L == Len(queue)
  IN  /\ m \in Nat /\ n \in Nat /\ L \in Nat
      /\ \A i \in 1..k : /\ f[i] \in 1..m /\ charts[f[i]].mounted
                         /\ charts[f[i]].of \in Out
      /\ \A i, j \in 1..k : f[i] = f[j] => i = j
      /\ \A c \in 1..m : charts[c].mounted /\ charts[c].of \in Out =>
           \E i \in 1..k : f[i] = c
      /\ queue' \in Seq(Jobs) /\ Len(queue') = n + L + k /\ timers' = timers + n + k
      /\ \A i \in 1..n : i \in 1..n + L + k /\ queue'[i] = Job("render", m + (n + 1 - i))
      /\ \A i \in 1..L : n + i \in 1..n + L + k /\ queue'[n + i] = queue[i]
      /\ \A i \in 1..k : n + L + i \in 1..n + L + k
                         /\ queue'[n + L + i] = Job("dispose", f[i])

LEMMA RemountJobs ==
  ASSUME WellFormed(charts), queue \in Seq(Jobs), timers \in Nat,
         NEW Out, NEW Into \in Seq(Component), Remount(Out, Into)
  PROVE  \E k \in Nat : \E f \in [1..k -> Nat] : JobsMove(Out, Into, k, f)
<1> DEFINE m == Len(charts)
           n == Len(Into)
           L == Len(queue)
           gone == {c \in DOMAIN charts : charts[c].mounted /\ charts[c].of \in Out}
           f == SetToSeq(gone)
           k == Len(f)
           first == [i \in DOMAIN Into |-> Job("render", m + (n + 1 - i))]
           last == [i \in DOMAIN f |-> Job("dispose", f[i])]
<1>1. queue' = first \o queue \o last /\ timers' = timers + (Len(first) + Len(last))
  BY DEF Remount, Scheduled
<1>2. m \in Nat /\ n \in Nat /\ L \in Nat /\ DOMAIN charts = 1..m /\ DOMAIN Into = 1..n
  BY LenProperties DEF WellFormed
<1>3. \A c : c \in gone <=> c \in 1..m /\ charts[c].mounted /\ charts[c].of \in Out
  BY <1>2
<1>4. IsFiniteSet(gone)
  <2>1. IsFiniteSet(1..m) /\ gone \in SUBSET (1..m)
    BY <1>2, FS_Interval
  <2>2. QED
    BY <2>1, FS_Subset
<1> HIDE DEF gone
<1>5. /\ f \in Seq(gone) /\ k \in Nat
      /\ \A i, j \in 1..k : f[i] = f[j] => i = j
      /\ \A x \in gone : \E i \in 1..k : f[i] = x
  BY <1>4, SetInOrder
<1> HIDE DEF m, n, f
<1>6. DOMAIN f = 1..k /\ f \in [1..k -> gone] /\ \A i \in 1..k : f[i] \in gone /\ f[i] \in Nat
  <2>1. DOMAIN f = 1..k /\ f \in [1..k -> gone]
    BY <1>5, LenProperties
  <2>2. QED
    BY <1>2, <1>3, <2>1
<1>7. first \in Seq(Jobs) /\ Len(first) = n /\ \A i \in 1..n : first[i] = Job("render", m + (n + 1 - i))
  <2>1. \A i \in 1..n : m + (n + 1 - i) \in Nat
    BY <1>2
  <2>2. \A i \in 1..n : Job("render", m + (n + 1 - i)) \in Jobs
    BY <2>1, JobIs
  <2>3. first \in [1..n -> Jobs]
    BY <1>2, <2>2
  <2>4. QED
    BY <1>2, <2>3
<1>8. last \in Seq(Jobs) /\ Len(last) = k /\ \A i \in 1..k : last[i] = Job("dispose", f[i])
  <2>1. \A i \in 1..k : Job("dispose", f[i]) \in Jobs
    BY <1>6, JobIs
  <2>2. last \in [1..k -> Jobs]
    BY <1>6, <2>1
  <2>3. QED
    BY <1>5, <2>2
<1> HIDE DEF first, last, k, L
<1>9. /\ queue' \in Seq(Jobs) /\ Len(queue') = n + L + k
      /\ \A i \in 1..n : i \in 1..n + L + k /\ queue'[i] = first[i]
      /\ \A i \in 1..L : n + i \in 1..n + L + k /\ queue'[n + i] = queue[i]
      /\ \A i \in 1..k : n + L + i \in 1..n + L + k /\ queue'[n + L + i] = last[i]
  <2> DEFINE q == first \o queue \o last
  <2>1. first \in Seq(Jobs) /\ queue \in Seq(Jobs) /\ last \in Seq(Jobs)
    BY <1>7, <1>8
  <2>2. /\ q \in Seq(Jobs) /\ Len(q) = Len(first) + Len(queue) + Len(last)
        /\ \A i \in 1..Len(first) : i \in 1..Len(q) /\ q[i] = first[i]
        /\ \A i \in 1..Len(queue) :
             Len(first) + i \in 1..Len(q) /\ q[Len(first) + i] = queue[i]
        /\ \A i \in 1..Len(last) :
             /\ Len(first) + Len(queue) + i \in 1..Len(q)
             /\ q[Len(first) + Len(queue) + i] = last[i]
    BY <2>1, ThreeLists
  <2>3. Len(first) = n /\ Len(last) = k /\ Len(queue) = L /\ queue' = q
    BY <1>1, <1>7, <1>8 DEF L
  <2> HIDE DEF q
  <2>4. QED
    BY <2>2, <2>3
<1>10. timers' = timers + n + k
  BY <1>1, <1>2, <1>5, <1>7, <1>8
<1>11. f \in [1..k -> Nat]
  BY <1>6
<1>12. /\ m \in Nat /\ n \in Nat /\ L \in Nat
       /\ \A i \in 1..k : f[i] \in 1..m /\ charts[f[i]].mounted /\ charts[f[i]].of \in Out
       /\ \A i, j \in 1..k : f[i] = f[j] => i = j
       /\ \A c \in 1..m : charts[c].mounted /\ charts[c].of \in Out => \E i \in 1..k : f[i] = c
       /\ queue' \in Seq(Jobs) /\ Len(queue') = n + L + k /\ timers' = timers + n + k
       /\ \A i \in 1..n : i \in 1..n + L + k /\ queue'[i] = Job("render", m + (n + 1 - i))
       /\ \A i \in 1..L : n + i \in 1..n + L + k /\ queue'[n + i] = queue[i]
       /\ \A i \in 1..k : n + L + i \in 1..n + L + k /\ queue'[n + L + i] = Job("dispose", f[i])
  BY <1>2, <1>3, <1>5, <1>6, <1>7, <1>8, <1>9, <1>10
<1>13. JobsMove(Out, Into, k, f)
  BY <1>12 DEF JobsMove, m, n, L
<1>14. QED
  BY <1>5, <1>11, <1>13

LEMMA LiveIs ==
  ASSUME WellFormed(charts)
  PROVE  IsFiniteSet(Live) /\ Cardinality(Live) \in Nat
<1>1. Len(charts) \in Nat /\ DOMAIN charts = 1..Len(charts)
  BY DEF WellFormed
<1>2. IsFiniteSet(1..Len(charts)) /\ Live \in SUBSET (1..Len(charts))
  BY <1>1, FS_Interval DEF Live
<1>3. IsFiniteSet(Live)
  BY <1>2, FS_Subset
<1>4. QED
  BY <1>3, FS_CardinalityType

(* Charts that come are to be drawn and charts that go to be disposed of.  *)
LEMMA QueueRemount ==
  ASSUME WellFormed(charts), QueueInv, NEW Out, NEW Into \in Seq(Component), Remount(Out, Into)
  PROVE  QueueInv'
<1> DEFINE m == Len(charts)
           n == Len(Into)
           L == Len(queue)
<1>1. queue \in Seq(Jobs) /\ timers \in Nat /\ L <= timers + Cardinality(Live)
  BY DEF QueueInv
<1>2. PICK k \in Nat : \E g \in [1..k -> Nat] : JobsMove(Out, Into, k, g)
  BY <1>1, RemountJobs
<1>3. PICK f \in [1..k -> Nat] : JobsMove(Out, Into, k, f)
  BY <1>2
<1>4. /\ \A i \in 1..k : f[i] \in 1..m /\ charts[f[i]].mounted /\ charts[f[i]].of \in Out
      /\ \A i, j \in 1..k : f[i] = f[j] => i = j
      /\ \A c \in 1..m : charts[c].mounted /\ charts[c].of \in Out => \E i \in 1..k : f[i] = c
      /\ queue' \in Seq(Jobs) /\ Len(queue') = n + L + k /\ timers' = timers + n + k
      /\ \A i \in 1..n : i \in 1..n + L + k /\ queue'[i] = Job("render", m + (n + 1 - i))
      /\ \A i \in 1..L : n + i \in 1..n + L + k /\ queue'[n + i] = queue[i]
      /\ \A i \in 1..k : n + L + i \in 1..n + L + k /\ queue'[n + L + i] = Job("dispose", f[i])
  BY <1>3 DEF JobsMove
<1>5. /\ m \in Nat /\ n \in Nat /\ DOMAIN charts = 1..m /\ DOMAIN charts' = 1..m + n
      /\ \A c \in 1..m :
           /\ charts'[c].st = charts[c].st
           /\ charts'[c].mounted <=> charts[c].mounted /\ charts[c].of \notin Out
      /\ \A c \in m + 1..m + n : charts'[c].st = "empty" /\ charts'[c].mounted
  BY RemountStates
<1>6. L \in Nat /\ DOMAIN queue = 1..L /\ DOMAIN queue' = 1..n + L + k
  BY <1>1, <1>4, LenProperties
<1>7. /\ \A i \in 1..L : JobFits(i)
      /\ \A i, j \in 1..L : queue[i] = queue[j] => i = j
      /\ \A c \in 1..m : ChartFits(c)
  BY <1>5, <1>6 DEF QueueInv
<1> HIDE DEF m, n, L
<1>8. \A i \in 1..n + L + k : \/ i \in 1..n
                              \/ i - n \in 1..L /\ i = n + (i - n)
                              \/ i - (n + L) \in 1..k /\ i = n + L + (i - (n + L))
  BY <1>5, <1>6, ThreeParts
<1>9. Live' = Live
  <2>1. \A c \in 1..m + n : c \in 1..m \/ c \in m + 1..m + n
    BY <1>5
  <2>2. \A c \in 1..m : c \in 1..m + n
    BY <1>5
  <2>3. QED
    BY <1>5, <2>1, <2>2 DEF Live
<1>10. timers' \in Nat /\ Len(queue') <= timers' + Cardinality(Live')
  BY <1>1, <1>4, <1>5, <1>6, <1>9, LiveIs DEF L
(* Each job is of one of three kinds. *)
<1>11. ASSUME NEW i \in 1..n
       PROVE  /\ m + (n + 1 - i) \in m + 1..m + n /\ m + (n + 1 - i) \notin 1..m
              /\ m + (n + 1 - i) \in 1..m + n
  BY <1>5
<1>12. ASSUME NEW i \in 1..L
       PROVE  /\ queue[i].chart \in 1..m
              /\ \/ queue[i] = Job("render", queue[i].chart) /\ charts[queue[i].chart].st = "empty"
                 \/ /\ queue[i] = Job("dispose", queue[i].chart)
                    /\ ~ charts[queue[i].chart].mounted
  BY <1>5, <1>7 DEF JobFits
<1>13. ASSUME NEW i \in 1..n + L + k
       PROVE  JobFits(i)'
  <2> DEFINE c == queue'[i].chart
  <2> SUFFICES /\ c \in 1..m + n
               /\ \/ queue'[i] = Job("render", c) /\ charts'[c].st = "empty"
                  \/ queue'[i] = Job("dispose", c) /\ ~ charts'[c].mounted
    BY <1>5 DEF JobFits
  <2>1. CASE i \in 1..n
    <3>1. queue'[i] = Job("render", m + (n + 1 - i)) /\ c = m + (n + 1 - i)
      BY <1>4, <2>1, JobIs
    <3>2. QED
      BY <1>5, <1>11, <2>1, <3>1
  <2>2. CASE i - n \in 1..L /\ i = n + (i - n)
    <3>1. queue'[i] = queue[i - n]
      BY <1>4, <2>2
    <3>2. c \in 1..m /\ c \in 1..m + n
      BY <1>5, <1>12, <2>2, <3>1
    <3>3. \/ queue'[i] = Job("render", c) /\ charts[c].st = "empty"
          \/ queue'[i] = Job("dispose", c) /\ ~ charts[c].mounted
      BY <1>12, <2>2, <3>1
    <3> HIDE DEF c
    <3>4. charts'[c].st = charts[c].st /\ (charts'[c].mounted => charts[c].mounted)
      BY <1>5, <3>2
    <3>5. QED
      BY <3>2, <3>3, <3>4
  <2>3. CASE i - (n + L) \in 1..k /\ i = n + L + (i - (n + L))
    <3>1. queue'[i] = Job("dispose", f[i - (n + L)]) /\ c = f[i - (n + L)]
      BY <1>4, <2>3, JobIs
    <3>2. c \in 1..m /\ c \in 1..m + n /\ charts[c].of \in Out
      BY <1>4, <1>5, <2>3, <3>1
    <3>3. QED
      BY <1>5, <3>1, <3>2
  <2>4. QED
    BY <1>8, <2>1, <2>2, <2>3
<1>14. ASSUME NEW i \in 1..n + L + k, NEW j \in 1..n + L + k, queue'[i] = queue'[j]
       PROVE  i = j
  <2>1. ASSUME NEW h \in 1..n + L + k
        PROVE  /\ h \in 1..n <=> queue'[h].chart \notin 1..m
               /\ h - (n + L) \in 1..k <=>
                    /\ queue'[h].op = "dispose" /\ queue'[h].chart \in 1..m
                    /\ charts[queue'[h].chart].mounted
    <3>1. CASE h \in 1..n
      <4>1. queue'[h].chart \notin 1..m
        BY <1>4, <1>11, <3>1, JobIs
      <4>2. h - (n + L) \notin 1..k
        BY <1>5, <1>6, <3>1
      <4>3. QED
        BY <3>1, <4>1, <4>2
    <3>2. CASE h - n \in 1..L /\ h = n + (h - n)
      <4>1. queue'[h] = queue[h - n]
        BY <1>4, <3>2
      <4>2. /\ queue'[h].chart \in 1..m
            /\ queue'[h].op = "dispose" => ~ charts[queue'[h].chart].mounted
        BY <1>12, <3>2, <4>1, JobIs
      <4>3. h \notin 1..n /\ h - (n + L) \notin 1..k
        BY <1>5, <1>6, <3>2
      <4>4. QED
        BY <4>2, <4>3
    <3>3. CASE h - (n + L) \in 1..k /\ h = n + L + (h - (n + L))
      <4>1. queue'[h] = Job("dispose", f[h - (n + L)])
        BY <1>4, <3>3
      <4>2. queue'[h].op = "dispose" /\ queue'[h].chart = f[h - (n + L)]
        BY <4>1, JobIs
      <4>3. queue'[h].chart \in 1..m /\ charts[queue'[h].chart].mounted
        BY <1>4, <3>3, <4>2
      <4>4. h \notin 1..n
        BY <1>5, <1>6, <3>3
      <4>5. QED
        BY <3>3, <4>2, <4>3, <4>4
    <3>4. QED
      BY <1>8, <3>1, <3>2, <3>3
  <2>2. (i \in 1..n <=> j \in 1..n) /\ (i - (n + L) \in 1..k <=> j - (n + L) \in 1..k)
    BY <1>14, <2>1
  <2>3. CASE i \in 1..n
    <3>1. j \in 1..n
      BY <2>2, <2>3
    <3>2. m + (n + 1 - i) = m + (n + 1 - j)
      BY <1>4, <1>14, <2>3, <3>1, JobIs
    <3>3. QED
      BY <1>5, <3>2
  <2>4. CASE i - (n + L) \in 1..k
    <3>1. j - (n + L) \in 1..k /\ i = n + L + (i - (n + L)) /\ j = n + L + (j - (n + L))
      <4>1. j - (n + L) \in 1..k
        BY <2>2, <2>4
      <4>2. n \in Int /\ L \in Int /\ i \in Int /\ j \in Int
        BY <1>5, <1>6
      <4>3. QED
        BY <4>1, <4>2
    <3>2. Job("dispose", f[i - (n + L)]) = Job("dispose", f[j - (n + L)])
      BY <1>4, <1>14, <2>4, <3>1
    <3>3. f[i - (n + L)] = f[j - (n + L)]
      BY <3>2, JobIs
    <3>4. i - (n + L) = j - (n + L)
      BY <1>4, <2>4, <3>1, <3>3
    <3>5. QED
      BY <3>1, <3>4
  <2>5. CASE i \notin 1..n /\ i - (n + L) \notin 1..k
    <3>1. /\ i - n \in 1..L /\ i = n + (i - n)
          /\ j - n \in 1..L /\ j = n + (j - n)
      BY <1>8, <2>2, <2>5
    <3>2. queue[i - n] = queue[j - n]
      BY <1>4, <1>14, <3>1
    <3>3. i - n = j - n
      BY <1>7, <3>1, <3>2
    <3>4. QED
      BY <3>1, <3>3
  <2>6. QED
    BY <2>3, <2>4, <2>5
<1>15. ASSUME NEW c \in 1..m + n
       PROVE  ChartFits(c)'
  <2> DEFINE Queued(op) == \E i \in 1..n + L + k : queue'[i] = Job(op, c)
  <2> SUFFICES \/ charts'[c].st = "empty" /\ Queued("render")
               \/ /\ charts'[c].st \in {"live", "ready"}
                  /\ charts'[c].mounted \/ Queued("dispose")
               \/ charts'[c].st \in {"disposed", "failed"} /\ ~ charts'[c].mounted
    BY <1>6 DEF ChartFits
  <2>1. CASE c \in m + 1..m + n
    <3>1. m + n + 1 - c \in 1..n /\ m + (n + 1 - (m + n + 1 - c)) = c
      BY <1>5, <2>1
    <3>2. /\ m + n + 1 - c \in 1..n + L + k
          /\ queue'[m + n + 1 - c] = Job("render", m + (n + 1 - (m + n + 1 - c)))
      BY <1>4, <3>1
    <3>3. Queued("render")
      BY <3>1, <3>2
    <3>4. QED
      BY <1>5, <2>1, <3>3
  <2>2. CASE c \in 1..m
    <3>1. \A op : (\E i \in 1..L : queue[i] = Job(op, c)) => Queued(op)
      BY <1>4
    <3>2. charts[c].mounted /\ charts[c].of \in Out => Queued("dispose")
      BY <1>4, <2>2
    <3>3. \/ charts[c].st = "empty" /\ \E i \in 1..L : queue[i] = Job("render", c)
          \/ /\ charts[c].st \in {"live", "ready"}
             /\ charts[c].mounted \/ \E i \in 1..L : queue[i] = Job("dispose", c)
          \/ charts[c].st \in {"disposed", "failed"} /\ ~ charts[c].mounted
      BY <1>6, <1>7, <2>2 DEF ChartFits
    <3>4. /\ charts'[c].st = charts[c].st
          /\ charts'[c].mounted <=> charts[c].mounted /\ charts[c].of \notin Out
      BY <1>5, <2>2
    <3> HIDE DEF Queued
    <3>5. QED
      BY <3>1, <3>2, <3>3, <3>4
  <2>3. QED
    BY <1>5, <2>1, <2>2
<1>16. QED
  BY <1>4, <1>5, <1>6, <1>10, <1>13, <1>14, <1>15 DEF QueueInv

(* The job at the head is gone, every other one is there still, once. *)
LEMMA TailJobs ==
  ASSUME QueueInv, queue # <<>>, queue' = Tail(queue)
  PROVE  /\ queue' \in Seq(Jobs) /\ Len(queue') = Len(queue) - 1 /\ Len(queue) \in Nat \ {0}
         /\ \A i \in DOMAIN queue' :
              queue'[i] # Head(queue) /\ \E j \in DOMAIN queue : queue'[i] = queue[j]
         /\ \A i, j \in DOMAIN queue' : queue'[i] = queue'[j] => i = j
         /\ \A j \in DOMAIN queue :
              queue[j] # Head(queue) => \E i \in DOMAIN queue' : queue'[i] = queue[j]
         /\ \E j \in DOMAIN queue : queue[j] = Head(queue)
<1>1. /\ Len(queue) \in Nat \ {0} /\ DOMAIN queue = 1..Len(queue) /\ Head(queue) = queue[1]
      /\ Tail(queue) \in Seq(Jobs) /\ Len(Tail(queue)) = Len(queue) - 1
      /\ DOMAIN Tail(queue) = 1..Len(queue) - 1
      /\ \A i \in 1..Len(queue) - 1 : Tail(queue)[i] = queue[i + 1]
  BY LenProperties, HeadTailProperties, EmptySeq DEF QueueInv
<1>2. \A i, j \in 1..Len(queue) : queue[i] = queue[j] => i = j
  BY <1>1 DEF QueueInv
<1>3. \A i \in 1..Len(queue) - 1 : i + 1 \in 1..Len(queue) /\ i + 1 # 1 /\ 1 \in 1..Len(queue)
  BY <1>1
<1>4. \A i \in 1..Len(queue) - 1 :
        queue'[i] # Head(queue) /\ \E j \in 1..Len(queue) : queue'[i] = queue[j]
  BY <1>1, <1>2, <1>3
<1>5. ASSUME NEW i \in 1..Len(queue) - 1, NEW j \in 1..Len(queue) - 1, queue'[i] = queue'[j]
      PROVE  i = j
  <2>1. i + 1 = j + 1
    BY <1>1, <1>2, <1>3, <1>5
  <2>2. QED
    BY <1>1, <2>1
<1>6. ASSUME NEW j \in 1..Len(queue), queue[j] # Head(queue)
      PROVE  \E i \in 1..Len(queue) - 1 : queue'[i] = queue[j]
  <2>1. j - 1 \in 1..Len(queue) - 1 /\ (j - 1) + 1 = j
    BY <1>1, <1>6
  <2>2. QED
    BY <1>1, <2>1
<1>7. 1 \in 1..Len(queue)
  BY <1>1
<1>8. DOMAIN queue' = 1..Len(queue) - 1 /\ DOMAIN queue = 1..Len(queue)
  BY <1>1
<1>9. \A i \in DOMAIN queue' :
        queue'[i] # Head(queue) /\ \E j \in DOMAIN queue : queue'[i] = queue[j]
  BY <1>4, <1>8
<1>10. \A i, j \in DOMAIN queue' : queue'[i] = queue'[j] => i = j
  BY <1>5, <1>8
<1>11. \A j \in DOMAIN queue :
         queue[j] # Head(queue) => \E i \in DOMAIN queue' : queue'[i] = queue[j]
  BY <1>6, <1>8
<1>12. queue' \in Seq(Jobs) /\ Len(queue') = Len(queue) - 1 /\ Len(queue) \in Nat \ {0}
  BY <1>1
<1>13. \E j \in DOMAIN queue : queue[j] = Head(queue)
  BY <1>1, <1>7
<1>14. QED
  BY <1>9, <1>10, <1>11, <1>12, <1>13

IsNow(c, st) ==
  /\ DOMAIN charts' = DOMAIN charts
  /\ \A x \in DOMAIN charts :
       charts'[x].mounted = charts[x].mounted /\ (x # c => charts'[x].st = charts[x].st)
  /\ charts'[c].st = st

LEMMA BecomesNow ==
  ASSUME WellFormed(charts), NEW c \in DOMAIN charts, NEW new, NEW st,
         charts' = [charts EXCEPT ![c] = new],
         new.mounted = charts[c].mounted, new.st = st
  PROVE  IsNow(c, st)
<1>1. charts = [x \in 1..Len(charts) |-> charts[x]]
  BY DEF WellFormed
<1>2. /\ DOMAIN charts' = DOMAIN charts /\ charts'[c] = new
      /\ \A x \in DOMAIN charts : x # c => charts'[x] = charts[x]
  BY <1>1
<1>3. QED
  BY <1>2 DEF IsNow

LEMMA LiveNow ==
  ASSUME WellFormed(charts), NEW c \in DOMAIN charts, NEW st, IsNow(c, st)
  PROVE  /\ Cardinality(Live) \in Nat /\ Cardinality(Live') \in Nat
         /\ Cardinality(Live') >= Cardinality(Live) - 1
         /\ charts[c].st # "live" => Cardinality(Live') >= Cardinality(Live)
         /\ charts[c].st # "live" /\ st = "live" => Cardinality(Live') = Cardinality(Live) + 1
         /\ charts[c].st = "live" /\ st # "live" => Cardinality(Live') = Cardinality(Live) - 1
<1>1. IsFiniteSet(Live) /\ Cardinality(Live) \in Nat
  BY LiveIs
<1>2. Live' = IF st = "live" THEN Live \cup {c} ELSE Live \ {c}
  BY DEF IsNow, Live
<1>3. c \in Live <=> charts[c].st = "live"
  BY DEF Live
<1>4. /\ IsFiniteSet(Live \cup {c})
      /\ Cardinality(Live \cup {c}) = IF c \in Live THEN Cardinality(Live) ELSE Cardinality(Live) + 1
  BY <1>1, FS_AddElement
<1>5. /\ IsFiniteSet(Live \ {c})
      /\ Cardinality(Live \ {c}) = IF c \in Live THEN Cardinality(Live) - 1 ELSE Cardinality(Live)
  BY <1>1, FS_RemoveElement
<1>6. Cardinality(Live \ {c}) \in Nat
  BY <1>5, FS_CardinalityType
<1>7. CASE st = "live"
  BY <1>1, <1>2, <1>3, <1>4, <1>7
<1>8. CASE st # "live"
  BY <1>1, <1>2, <1>3, <1>5, <1>6, <1>8
<1>9. QED
  BY <1>7, <1>8

(* What a job leads to: it is gone, and its chart needs it no more. *)
LEMMA JobDone ==
  ASSUME WellFormed(charts), QueueInv, queue # <<>>, queue' = Tail(queue),
         NEW c, c = Head(queue).chart, NEW st, IsNow(c, st),
         Head(queue) = Job("render", c) \/ charts[c].st # "empty",
         \/ st \in {"live", "ready"} /\ charts[c].mounted
         \/ st \in {"disposed", "failed"} /\ ~ charts[c].mounted,
         timers' \in Nat, Len(queue) - 1 <= timers' + Cardinality(Live')
  PROVE  QueueInv'
<1>1. /\ queue' \in Seq(Jobs) /\ Len(queue') = Len(queue) - 1
      /\ \A i \in DOMAIN queue' :
           queue'[i] # Head(queue) /\ \E j \in DOMAIN queue : queue'[i] = queue[j]
      /\ \A i, j \in DOMAIN queue' : queue'[i] = queue'[j] => i = j
      /\ \A j \in DOMAIN queue :
           queue[j] # Head(queue) => \E i \in DOMAIN queue' : queue'[i] = queue[j]
  BY TailJobs
<1>2. /\ \A i \in DOMAIN queue : JobFits(i)
      /\ \A x \in DOMAIN charts : ChartFits(x)
  BY DEF QueueInv
<1>3. /\ DOMAIN charts' = DOMAIN charts /\ charts'[c].st = st
      /\ \A x \in DOMAIN charts :
           charts'[x].mounted = charts[x].mounted /\ (x # c => charts'[x].st = charts[x].st)
  BY DEF IsNow
<1>4. ASSUME NEW i \in DOMAIN queue'
      PROVE  JobFits(i)'
  <2> DEFINE x == queue'[i].chart
  <2>1. /\ x \in DOMAIN charts /\ queue'[i] # Head(queue)
        /\ \/ queue'[i] = Job("render", x) /\ charts[x].st = "empty"
           \/ queue'[i] = Job("dispose", x) /\ ~ charts[x].mounted
    BY <1>1, <1>2 DEF JobFits
  <2>2. queue'[i] = Job("render", x) /\ charts[x].st = "empty" => x # c
    BY <2>1
  <2>3. /\ x \in DOMAIN charts'
        /\ \/ queue'[i] = Job("render", x) /\ charts'[x].st = "empty"
           \/ queue'[i] = Job("dispose", x) /\ ~ charts'[x].mounted
    BY <1>3, <2>1, <2>2
  <2>4. QED
    BY <2>3 DEF JobFits
<1>5. ASSUME NEW x \in DOMAIN charts
      PROVE  ChartFits(x)'
  <2> DEFINE Queued(op) == \E i \in DOMAIN queue : queue[i] = Job(op, x)
             QueuedThen(op) == \E i \in DOMAIN queue' : queue'[i] = Job(op, x)
  <2>1. CASE x = c
    <3>1. charts'[c].mounted = charts[c].mounted
      BY <1>3, <2>1
    <3>2. \/ charts'[x].st \in {"live", "ready"} /\ charts'[x].mounted
          \/ charts'[x].st \in {"disposed", "failed"} /\ ~ charts'[x].mounted
      BY <1>3, <2>1, <3>1
    <3>3. QED
      BY <3>2 DEF ChartFits
  <2>2. CASE x # c
    <3>1. \A op : Queued(op) => QueuedThen(op)
      <4>1. \A op : Job(op, x) # Head(queue)
        BY <2>2, JobIs
      <4>2. QED
        BY <1>1, <4>1
    <3>2. \/ charts[x].st = "empty" /\ Queued("render")
          \/ charts[x].st \in {"live", "ready"} /\ (charts[x].mounted \/ Queued("dispose"))
          \/ charts[x].st \in {"disposed", "failed"} /\ ~ charts[x].mounted
      BY <1>2 DEF ChartFits
    <3>3. charts'[x].st = charts[x].st /\ charts'[x].mounted = charts[x].mounted
      BY <1>3, <2>2
    <3> HIDE DEF Queued, QueuedThen
    <3>4. \/ charts'[x].st = "empty" /\ QueuedThen("render")
          \/ charts'[x].st \in {"live", "ready"} /\ (charts'[x].mounted \/ QueuedThen("dispose"))
          \/ charts'[x].st \in {"disposed", "failed"} /\ ~ charts'[x].mounted
      BY <3>1, <3>2, <3>3
    <3>5. QED
      BY <3>4 DEF ChartFits, QueuedThen
  <2>3. QED
    BY <2>1, <2>2
<1>6. QED
  BY <1>1, <1>3, <1>4, <1>5 DEF QueueInv

(* A chart that is not drawn yet is not disposed of: it waits for its turn. *)
LEMMA JobDropped ==
  ASSUME QueueInv, queue # <<>>, queue' = Tail(queue), charts' = charts,
         NEW c, Head(queue) = Job("dispose", c), charts[c].st = "empty",
         timers' \in Nat, Len(queue) - 1 <= timers' + Cardinality(Live)
  PROVE  QueueInv'
<1>1. /\ queue' \in Seq(Jobs) /\ Len(queue') = Len(queue) - 1
      /\ \A i \in DOMAIN queue' :
           queue'[i] # Head(queue) /\ \E j \in DOMAIN queue : queue'[i] = queue[j]
      /\ \A i, j \in DOMAIN queue' : queue'[i] = queue'[j] => i = j
      /\ \A j \in DOMAIN queue :
           queue[j] # Head(queue) => \E i \in DOMAIN queue' : queue'[i] = queue[j]
  BY TailJobs
<1>2. /\ \A i \in DOMAIN queue : JobFits(i)
      /\ \A x \in DOMAIN charts : ChartFits(x)
  BY DEF QueueInv
<1>3. \A i \in DOMAIN queue' : JobFits(i)'
  BY <1>1, <1>2 DEF JobFits
<1>4. ASSUME NEW x \in DOMAIN charts
      PROVE  ChartFits(x)'
  <2> DEFINE Queued(op) == \E i \in DOMAIN queue : queue[i] = Job(op, x)
             QueuedThen(op) == \E i \in DOMAIN queue' : queue'[i] = Job(op, x)
  <2>1. \A op : Queued(op) /\ Job(op, x) # Head(queue) => QueuedThen(op)
    BY <1>1
  <2>2. Job("render", x) # Head(queue) /\ (x # c => Job("dispose", x) # Head(queue))
    BY JobIs
  <2>3. \/ charts[x].st = "empty" /\ Queued("render")
        \/ charts[x].st \in {"live", "ready"} /\ (charts[x].mounted \/ Queued("dispose"))
        \/ charts[x].st \in {"disposed", "failed"} /\ ~ charts[x].mounted
    BY <1>2 DEF ChartFits
  <2> HIDE DEF Queued, QueuedThen
  <2>4. \/ charts[x].st = "empty" /\ QueuedThen("render")
        \/ charts[x].st \in {"live", "ready"} /\ (charts[x].mounted \/ QueuedThen("dispose"))
        \/ charts[x].st \in {"disposed", "failed"} /\ ~ charts[x].mounted
    BY <2>1, <2>2, <2>3
  <2>5. QED
    BY <2>4 DEF ChartFits, QueuedThen
<1>5. Live' = Live
  BY DEF Live
<1>6. QED
  BY <1>1, <1>3, <1>4, <1>5 DEF QueueInv

(* What the queue has still to do, counted so that a job that starts the   *)
(* drawing of a chart leaves less of it.                                   *)
Work == 2 * Len(queue) + 2 * timers + 3 * Cardinality(Live)

LEMMA QueueRender ==
  ASSUME WellFormed(charts), QueueInv, queue # <<>>, queue' = Tail(queue), timers > 0,
         NEW c, Head(queue) = Job("render", c), Render(c)
  PROVE  QueueInv' /\ Work' < Work
<1>1. /\ Len(queue') = Len(queue) - 1 /\ Len(queue) \in Nat \ {0}
      /\ timers \in Nat /\ Len(queue) <= timers + Cardinality(Live)
      /\ timers' = timers - 1 /\ timers' \in Nat
  BY TailJobs DEF QueueInv, Render
<1>2. Head(queue).chart = c
  BY JobIs
<1>3. c \in DOMAIN charts /\ charts[c].st = "empty"
  <2>1. PICK j \in DOMAIN queue : queue[j] = Head(queue)
    BY TailJobs
  <2>2. JobFits(j)
    BY DEF QueueInv
  <2>3. queue[j].chart = c /\ queue[j] # Job("dispose", c)
    BY <1>2, <2>1, JobIs
  <2>4. QED
    BY <2>2, <2>3 DEF JobFits
<1>4. charts[c] = [of |-> charts[c].of, mounted |-> charts[c].mounted,
                   st |-> charts[c].st, data |-> charts[c].data]
      /\ charts[c].mounted \in BOOLEAN
  BY <1>3 DEF WellFormed
<1>5. CASE charts[c].mounted
  <2> DEFINE data == Data(charts[c].of)
             new == [of |-> charts[c].of, mounted |-> charts[c].mounted, st |-> "live", data |-> data]
  <2>1. charts' = [charts EXCEPT ![c] = [charts[c] EXCEPT !.st = "live", !.data = data]]
    BY <1>5 DEF Render
  <2>2. new.mounted = charts[c].mounted /\ new.st = "live"
    OBVIOUS
  <2> HIDE DEF data
  <2>3. [charts[c] EXCEPT !.st = "live", !.data = data] = new
    BY <1>4, LiveRecord
  <2> HIDE DEF new
  <2>4. IsNow(c, "live")
    BY <1>3, <2>1, <2>2, <2>3, BecomesNow
  <2>5. /\ Cardinality(Live) \in Nat /\ Cardinality(Live') \in Nat
        /\ Cardinality(Live') = Cardinality(Live) + 1
    BY <1>3, <2>4, LiveNow
  <2>6. Len(queue) - 1 <= timers' + Cardinality(Live')
    BY <1>1, <2>5
  <2>7. QueueInv'
    BY <1>1, <1>2, <1>5, <2>4, <2>6, JobDone
  <2>8. QED
    BY <1>1, <2>5, <2>7 DEF Work
<1>6. CASE ~ charts[c].mounted
  <2> DEFINE new == [of |-> charts[c].of, mounted |-> charts[c].mounted,
                     st |-> "failed", data |-> charts[c].data]
  <2>1. charts' = [charts EXCEPT ![c] = [charts[c] EXCEPT !.st = "failed"]]
    BY <1>6 DEF Render
  <2>2. [charts[c] EXCEPT !.st = "failed"] = new
    BY <1>4
  <2>3. new.mounted = charts[c].mounted /\ new.st = "failed"
    OBVIOUS
  <2> HIDE DEF new
  <2>4. IsNow(c, "failed")
    BY <1>3, <2>1, <2>2, <2>3, BecomesNow
  <2>5. /\ Cardinality(Live) \in Nat /\ Cardinality(Live') \in Nat
        /\ Cardinality(Live') >= Cardinality(Live)
    BY <1>3, <2>4, LiveNow
  <2>6. Live' = Live
    BY <1>3, <2>4 DEF IsNow, Live
  <2>7. Len(queue) - 1 <= timers' + Cardinality(Live')
    BY <1>1, <2>5
  <2>8. QueueInv'
    BY <1>1, <1>2, <1>6, <2>4, <2>7, JobDone
  <2>9. QED
    BY <1>1, <2>5, <2>6, <2>8 DEF Work
<1>7. QED
  BY <1>5, <1>6

LEMMA QueueDispose ==
  ASSUME WellFormed(charts), QueueInv, queue # <<>>, queue' = Tail(queue), timers > 0,
         NEW c, Head(queue) = Job("dispose", c), Dispose(c)
  PROVE  QueueInv' /\ Work' < Work
<1>1. /\ Len(queue') = Len(queue) - 1 /\ Len(queue) \in Nat \ {0}
      /\ timers \in Nat /\ Len(queue) <= timers + Cardinality(Live)
      /\ timers' = timers
  BY TailJobs DEF QueueInv, Dispose
<1>2. Head(queue).chart = c
  BY JobIs
<1>3. c \in DOMAIN charts /\ ~ charts[c].mounted /\ ChartFits(c)
  <2>1. PICK j \in DOMAIN queue : queue[j] = Head(queue)
    BY TailJobs
  <2>2. JobFits(j)
    BY DEF QueueInv
  <2>3. queue[j].chart = c /\ queue[j] # Job("render", c)
    BY <1>2, <2>1, JobIs
  <2>4. QED
    BY <2>2, <2>3 DEF JobFits, QueueInv
<1>4. CASE Disposes(c)
  <2> DEFINE new == [of |-> charts[c].of, mounted |-> charts[c].mounted,
                     st |-> "disposed", data |-> charts[c].data]
  <2>1. charts[c].st \in {"live", "ready"}
    BY <1>4 DEF Disposes
  <2>2. charts[c] = [of |-> charts[c].of, mounted |-> charts[c].mounted,
                     st |-> charts[c].st, data |-> charts[c].data]
    BY <1>3 DEF WellFormed
  <2>3. charts' = [charts EXCEPT ![c] = [charts[c] EXCEPT !.st = "disposed"]]
    BY <1>4 DEF Dispose
  <2>4. [charts[c] EXCEPT !.st = "disposed"] = new
    BY <2>2
  <2>5. new.mounted = charts[c].mounted /\ new.st = "disposed"
    OBVIOUS
  <2> HIDE DEF new
  <2>6. IsNow(c, "disposed")
    BY <1>3, <2>3, <2>4, <2>5, BecomesNow
  <2>7. /\ Cardinality(Live) \in Nat /\ Cardinality(Live') \in Nat
        /\ Cardinality(Live') >= Cardinality(Live) - 1
        /\ Cardinality(Live') <= Cardinality(Live)
    <3>1. charts[c].st = "live" => Cardinality(Live') = Cardinality(Live) - 1
      BY <1>3, <2>6, LiveNow
    <3>2. charts[c].st # "live" => Live' = Live
      BY <1>3, <2>6 DEF IsNow, Live
    <3>3. /\ Cardinality(Live) \in Nat /\ Cardinality(Live') \in Nat
          /\ Cardinality(Live') >= Cardinality(Live) - 1
      BY <1>3, <2>6, LiveNow
    <3>4. QED
      BY <3>1, <3>2, <3>3
  <2>8. Len(queue) - 1 <= timers' + Cardinality(Live') /\ timers' \in Nat
    BY <1>1, <2>7
  <2>9. QueueInv'
    BY <1>2, <1>3, <2>1, <2>6, <2>8, JobDone
  <2>10. QED
    BY <1>1, <2>7, <2>9 DEF Work
<1>5. CASE ~ Disposes(c)
  <2>1. charts' = charts /\ Live' = Live /\ Cardinality(Live) \in Nat
    BY <1>5, LiveIs DEF Dispose, Live
  <2>2. Len(queue) - 1 <= timers' + Cardinality(Live) /\ timers' \in Nat
    BY <1>1, <2>1
  <2>3. charts[c].st \in {"empty", "disposed", "failed"}
    BY <1>3, <1>5 DEF ChartFits, Disposes
  <2>4. charts[c].st = "empty" => QueueInv'
    BY <2>1, <2>2, JobDropped
  <2>5. ASSUME charts[c].st # "empty"
        PROVE  QueueInv'
    <3>1. IsNow(c, charts[c].st)
      BY <2>1 DEF IsNow
    <3>2. charts[c].st \in {"disposed", "failed"}
      BY <2>3, <2>5
    <3>3. QED
      BY <1>2, <1>3, <2>1, <2>2, <2>5, <3>1, <3>2, JobDone
  <2>6. QueueInv'
    BY <2>4, <2>5
  <2>7. QED
    BY <1>1, <2>1, <2>6 DEF Work
<1>6. QED
  BY <1>4, <1>5

LEMMA QueueDequeue ==
  ASSUME WellFormed(charts), QueueInv, Dequeue
  PROVE  QueueInv' /\ Work' < Work
<1>1. CASE queue = <<>>
  <2>1. timers' = timers - 1 /\ timers > 0 /\ charts' = charts /\ queue' = queue
    BY <1>1 DEF Dequeue
  <2>2. Live' = Live /\ Cardinality(Live) \in Nat /\ timers \in Nat /\ Len(queue) = 0
    BY <1>1, <2>1, LiveIs DEF Live, QueueInv
  <2>3. timers' \in Nat /\ Len(queue') <= timers' + Cardinality(Live')
    BY <2>1, <2>2
  <2>4. QueueInv'
    BY <2>1, <2>3 DEF QueueInv, JobFits, ChartFits
  <2>5. QED
    BY <2>1, <2>2, <2>4 DEF Work
<1>2. CASE queue # <<>>
  <2> DEFINE c == Head(queue).chart
  <2>1. Head(queue) \in Jobs
    BY <1>2, HeadTailProperties, EmptySeq DEF QueueInv
  <2>2. /\ Head(queue) = Job(Head(queue).op, c) /\ Head(queue).op \in {"render", "dispose"}
    BY <2>1 DEF Jobs, Job
  <2>3. /\ timers > 0 /\ queue' = Tail(queue)
        /\ IF Head(queue).op = "render" THEN Render(c) ELSE Dispose(c)
    BY <1>2 DEF Dequeue
  <2> HIDE DEF c
  <2>4. CASE Head(queue).op = "render"
    BY <1>2, <2>2, <2>3, <2>4, QueueRender
  <2>5. CASE Head(queue).op = "dispose"
    BY <1>2, <2>2, <2>3, <2>5, QueueDispose
  <2>6. QED
    BY <2>2, <2>4, <2>5
<1>3. QED
  BY <1>1, <1>2

(* done, when a chart is ready: it has the next job run. *)
LEMMA QueueReady ==
  ASSUME WellFormed(charts), QueueInv, NEW c \in DOMAIN charts, Ready(c)
  PROVE  QueueInv' /\ Work' < Work
<1> DEFINE new == [of |-> charts[c].of, mounted |-> charts[c].mounted,
                   st |-> "ready", data |-> charts[c].data]
<1>1. charts[c] = [of |-> charts[c].of, mounted |-> charts[c].mounted,
                   st |-> charts[c].st, data |-> charts[c].data]
  BY DEF WellFormed
<1>2. /\ charts[c].st = "live" /\ timers' = timers + 1 /\ queue' = queue
      /\ charts' = [charts EXCEPT ![c] = [charts[c] EXCEPT !.st = "ready"]]
  BY DEF Ready
<1>3. [charts[c] EXCEPT !.st = "ready"] = new
  BY <1>1
<1>4. new.mounted = charts[c].mounted /\ new.st = "ready"
  OBVIOUS
<1> HIDE DEF new
<1>5. IsNow(c, "ready")
  BY <1>2, <1>3, <1>4, BecomesNow
<1>6. /\ Cardinality(Live) \in Nat /\ Cardinality(Live') \in Nat
      /\ Cardinality(Live') = Cardinality(Live) - 1
  BY <1>2, <1>5, LiveNow
<1>7. /\ timers \in Nat /\ Len(queue) \in Nat /\ queue \in Seq(Jobs)
      /\ Len(queue) <= timers + Cardinality(Live)
  BY LenProperties DEF QueueInv
<1>8. timers' \in Nat /\ Len(queue') <= timers' + Cardinality(Live')
  BY <1>2, <1>6, <1>7
<1>9. /\ DOMAIN charts' = DOMAIN charts /\ charts'[c].st = "ready"
      /\ \A x \in DOMAIN charts :
           charts'[x].mounted = charts[x].mounted /\ (x # c => charts'[x].st = charts[x].st)
  BY <1>5 DEF IsNow
<1>10. ASSUME NEW i \in DOMAIN queue
       PROVE  JobFits(i)'
  <2> DEFINE x == queue[i].chart
  <2>1. /\ x \in DOMAIN charts
        /\ \/ queue[i] = Job("render", x) /\ charts[x].st = "empty"
           \/ queue[i] = Job("dispose", x) /\ ~ charts[x].mounted
    BY DEF QueueInv, JobFits
  <2>2. charts[x].st = "empty" => x # c
    BY <1>2
  <2>3. /\ x \in DOMAIN charts'
        /\ \/ queue[i] = Job("render", x) /\ charts'[x].st = "empty"
           \/ queue[i] = Job("dispose", x) /\ ~ charts'[x].mounted
    BY <1>9, <2>1, <2>2
  <2>4. QED
    BY <1>2, <2>3 DEF JobFits
<1>11. ASSUME NEW x \in DOMAIN charts
       PROVE  ChartFits(x)'
  <2> DEFINE Queued(op) == \E i \in DOMAIN queue : queue[i] = Job(op, x)
  <2>1. \/ charts[x].st = "empty" /\ Queued("render")
        \/ charts[x].st \in {"live", "ready"} /\ (charts[x].mounted \/ Queued("dispose"))
        \/ charts[x].st \in {"disposed", "failed"} /\ ~ charts[x].mounted
    BY DEF QueueInv, ChartFits
  <2> HIDE DEF Queued
  <2>2. /\ charts'[x].mounted = charts[x].mounted
        /\ charts'[x].st = IF x = c THEN "ready" ELSE charts[x].st
    BY <1>9
  <2>3. \/ charts'[x].st = "empty" /\ Queued("render")
        \/ charts'[x].st \in {"live", "ready"} /\ (charts'[x].mounted \/ Queued("dispose"))
        \/ charts'[x].st \in {"disposed", "failed"} /\ ~ charts'[x].mounted
    BY <1>2, <2>1, <2>2
  <2>4. QED
    BY <1>2, <2>3 DEF ChartFits, Queued
<1>12. QueueInv'
  <2>1. \A i, j \in DOMAIN queue' : queue'[i] = queue'[j] => i = j
    BY <1>2 DEF QueueInv
  <2>2. QED
    BY <1>2, <1>7, <1>8, <1>9, <1>10, <1>11, <2>1 DEF QueueInv
<1>13. QED
  BY <1>2, <1>6, <1>7, <1>12 DEF Work

LEMMA QueueStays ==
  ASSUME QueueInv, UNCHANGED queueVars
  PROVE  QueueInv'
<1>1. charts' = charts /\ queue' = queue /\ timers' = timers
  BY DEF queueVars
<1>2. QED
  BY <1>1 DEF QueueInv, Live, JobFits, ChartFits

LEMMA QueueFinally ==
  ASSUME ChartsInv, QueueInv, NEW r \in requests, Finally(r)
  PROVE  QueueInv'
<1>1. r.of \in Component /\ WellFormed(charts)
  BY DEF ChartsInv, RequestTypes, ChartTypes, WellFormed
<1>2. PICK Into \in {<<r.of>>, <<>>} : Remount({}, Into)
  BY DEF Finally
<1>3. Into \in Seq(Component)
  <2>1. \A S : <<>> \in Seq(S) /\ \A x \in S : <<x>> \in Seq(S)
    OBVIOUS
  <2>2. <<>> \in Seq(Component) /\ <<r.of>> \in Seq(Component)
    BY <1>1, <2>1, Zenon
  <2>3. QED
    BY <2>2
<1>4. QED
  BY <1>1, <1>2, <1>3, QueueRemount

LEMMA QueueNext == ChartsInv /\ QueueInv /\ [PagesNext]_pagesVars => QueueInv'
<1> SUFFICES ASSUME ChartsInv, QueueInv, [PagesNext]_pagesVars PROVE QueueInv'
  OBVIOUS
<1>1. WellFormed(charts)
  BY DEF ChartsInv, ChartTypes, WellFormed
<1>2. CASE \E p \in DOMAIN Routes : Open(p)
  <2>1. PICK p \in DOMAIN Routes, without \in SUBSET Sparse : Remount(onPage, ChartsOn(p, without))
    BY <1>2 DEF Open, ShowCharts
  <2>2. QED
    BY <1>1, <2>1, ChartsOnPage, QueueRemount
<1>3. CASE ChartStep
  <2>1. CASE Dequeue
    BY <1>1, <2>1, QueueDequeue
  <2>2. CASE \E c \in DOMAIN charts : Ready(c)
    BY <1>1, <2>2, QueueReady
  <2>3. CASE \E s \in onPage, i \in Clickable : Click(s, i)
    <3>1. PICK s \in onPage : Remount({s}, <<>>)
      BY <2>3 DEF Click
    <3>2. <<>> \in Seq(Component)
      OBVIOUS
    <3>3. QED
      BY <1>1, <3>1, <3>2, QueueRemount
  <2>4. CASE \E r \in requests : SetOverride(r) \/ RequestFails(r)
    <3>1. PICK r \in requests : Finally(r) \/ UNCHANGED queueVars
      BY <2>4 DEF SetOverride, RequestFails
    <3>2. QED
      BY <3>1, QueueFinally, QueueStays
  <2>5. QED
    BY <1>3, <2>1, <2>2, <2>3, <2>4 DEF ChartStep
<1>4. CASE UNCHANGED chartVars
  BY <1>4, QueueStays DEF chartVars
<1>5. QED
  BY <1>2, <1>3, <1>4 DEF PagesNext, pagesVars

LEMMA QueueInit0 == PagesInit => QueueInv
<1> SUFFICES ASSUME PagesInit PROVE QueueInv
  OBVIOUS
<1>1. charts = <<>> /\ queue = <<>> /\ timers = 0
  BY DEF PagesInit, ChartsInit
<1>2. DOMAIN charts = {} /\ DOMAIN queue = {} /\ Len(queue) = 0 /\ queue \in Seq(Jobs)
  BY <1>1
<1>3. Cardinality(Live) = 0
  BY <1>2, FS_EmptySet DEF Live
<1>4. QED
  BY <1>1, <1>2, <1>3 DEF QueueInv

(* When no timer is set and no chart is being drawn, each chart on the     *)
(* page is drawn and each other one is disposed of: jobs run in another    *)
(* order than they come, rendering may throw and a job may find nothing to *)
(* do, but none is left in the queue (ChartRenderQueue.ts). And a timer or *)
(* a chart that is ready leaves the queue less to do, so that the charts   *)
(* follow the page after finitely many of them (ChartsFollowThePage).      *)
THEOREM NoneIsForgotten ==
  PagesSpec => /\ [](NothingDue => AllDrawn)
               /\ [][Dequeue \/ (\E c \in DOMAIN charts : Ready(c)) => Work' < Work]_pagesVars
<1>1. QueueInv /\ ChartsInv /\ NothingDue => AllDrawn
  <2> SUFFICES ASSUME QueueInv, ChartsInv, NothingDue PROVE AllDrawn
    OBVIOUS
  <2>1. Len(queue) \in Nat /\ DOMAIN queue = 1..Len(queue) /\ Len(queue) <= timers + Cardinality(Live)
    BY LenProperties DEF QueueInv
  <2>2. timers = 0 /\ Live = {} /\ Cardinality(Live) = 0
    BY FS_EmptySet DEF NothingDue
  <2>3. DOMAIN queue = {}
    BY <2>1, <2>2
  <2>4. \A c \in DOMAIN charts : ChartFits(c) /\ charts[c].st # "live" /\ charts[c].mounted \in BOOLEAN
    BY <2>2 DEF QueueInv, Live, ChartsInv, ChartTypes
  <2>5. QED
    BY <2>3, <2>4 DEF AllDrawn, ChartFits
<1>2. ChartsInv /\ QueueInv /\ [PagesNext]_pagesVars
        => [Dequeue \/ (\E c \in DOMAIN charts : Ready(c)) => Work' < Work]_pagesVars
  <2>1. ChartsInv => WellFormed(charts)
    BY DEF ChartsInv, ChartTypes, WellFormed
  <2>2. QED
    BY <2>1, QueueDequeue, QueueReady
<1>3. QED
  BY <1>1, <1>2, ChartsInit0, ChartsNext, QueueInit0, QueueNext, PTL DEF PagesSpec

--------------------------------------------------------------------------------
(* The labels of sizes *)

(* Products, of which the provers know little. *)
LEMMA ProductNat ==
  ASSUME NEW a \in Nat, NEW b \in Nat
  PROVE  a * b \in Nat /\ a * b = b * a
OBVIOUS

LEMMA ProductMonotone ==
  ASSUME NEW a \in Nat, NEW b \in Nat, NEW c \in Nat, a <= b
  PROVE  a * c \in Nat /\ b * c \in Nat /\ a * c <= b * c
<1>1. b - a \in Nat /\ b = a + (b - a)
  OBVIOUS
<1>2. (b - a) * c \in Nat
  BY <1>1
<1>3. a * c \in Nat /\ b * c = a * c + (b - a) * c
  OBVIOUS
<1>4. QED
  BY <1>2, <1>3

(* toFixed rounds to the nearest multiple of the unit. *)
Nearest(a, w) == (2 * a + w) \div (2 * w)

LEMMA NearestIs ==
  ASSUME NEW a \in Nat, NEW w \in Nat \ {0}
  PROVE  /\ Nearest(a, w) \in Nat /\ Nearest(a, w) * w \in Nat
         /\ 2 * (Nearest(a, w) * w) <= 2 * a + w
         /\ 2 * a < 2 * (Nearest(a, w) * w) + w
<1> DEFINE x == 2 * a + w
           y == 2 * w
           q == x \div y
<1>1. x \in Nat /\ y \in Nat /\ y > 0
  OBVIOUS
<1>2. q = Nearest(a, w)
  BY DEF Nearest
<1>3. q \in Nat /\ q * y <= x /\ x < q * y + y
  <2> HIDE DEF x, y
  <2>1. QED
    BY <1>1
<1> HIDE DEF q
<1>4. q * w \in Nat /\ q * y = 2 * (q * w)
  BY <1>3
<1>5. QED
  BY <1>2, <1>3, <1>4

(* It is monotone, and exact at the multiples. *)
LEMMA NearestGrows ==
  ASSUME NEW a \in Nat, NEW b \in Nat, a <= b, NEW w \in Nat \ {0}
  PROVE  Nearest(a, w) * w <= Nearest(b, w) * w
<1> DEFINE p == Nearest(a, w)
           q == Nearest(b, w)
<1>1. /\ p \in Nat /\ p * w \in Nat /\ 2 * (p * w) <= 2 * a + w
      /\ q \in Nat /\ q * w \in Nat /\ 2 * b < 2 * (q * w) + w
  BY NearestIs
<1> HIDE DEF p, q
<1>2. ASSUME p <= q
      PROVE  p * w <= q * w
  BY <1>1, <1>2, ProductMonotone
<1>3. ASSUME q + 1 <= p
      PROVE  p * w <= q * w
  <2>1. (q + 1) * w <= p * w
    BY <1>1, <1>3, ProductMonotone
  <2>2. (q + 1) * w = q * w + w
    BY <1>1
  <2>3. QED
    BY <1>1, <2>1, <2>2
<1>4. QED
  BY <1>1, <1>2, <1>3 DEF p, q

LEMMA NearestAt ==
  ASSUME NEW a \in Nat, NEW k \in Nat, NEW w \in Nat \ {0}
  PROVE  /\ a <= k * w => Nearest(a, w) * w <= k * w
         /\ k * w <= a => k * w <= Nearest(a, w) * w
         /\ k * w <= a /\ 2 * a < 2 * (k * w) + w => Nearest(a, w) * w = k * w
<1> DEFINE c == k * w
           q == Nearest(a, w)
<1>1. c \in Nat /\ k * w = c
  OBVIOUS
<1>2. q \in Nat /\ q * w \in Nat /\ 2 * (q * w) <= 2 * a + w /\ 2 * a < 2 * (q * w) + w
  BY NearestIs
<1> HIDE DEF c, q
<1>3. ASSUME q >= k + 1
      PROVE  q * w >= c + w
  <2>1. (k + 1) * w <= q * w
    BY <1>2, <1>3, ProductMonotone
  <2>2. (k + 1) * w = c + w
    BY <1>1
  <2>3. QED
    BY <2>1, <2>2
<1>4. ASSUME q + 1 <= k
      PROVE  q * w + w <= c
  <2>1. (q + 1) * w <= k * w
    BY <1>2, <1>4, ProductMonotone
  <2>2. (q + 1) * w = q * w + w
    BY <1>2
  <2>3. QED
    BY <1>1, <2>1, <2>2
<1>5. q = k => q * w = c
  BY <1>1
<1>6. q = k \/ q >= k + 1 \/ q + 1 <= k
  BY <1>2
<1>7. QED
  BY <1>1, <1>2, <1>3, <1>4, <1>5, <1>6 DEF q

--------------------------------------------------------------------------------
(* Each unit but the greatest has one that is a thousand times as great    *)
(* next to it.                                                             *)
IsScale(unit) ==
  /\ IsFiniteSet(DOMAIN unit)
  /\ \A u \in DOMAIN unit : unit[u] \in Nat \ {0}
  /\ \A u, v \in DOMAIN unit : unit[u] < unit[v] =>
       /\ Thousand * unit[u] <= unit[v]
       /\ \E t \in DOMAIN unit : unit[t] = Thousand * unit[u]

LEMMA Thousandfold ==
  /\ Thousand \in Nat /\ Thousand >= 10
  /\ Million \in Nat /\ Billion \in Nat /\ Trillion \in Nat /\ Thousand * Trillion \in Nat
  /\ 10 * Thousand <= Million /\ 10 * Million <= Billion /\ 10 * Billion <= Trillion
  /\ 10 * Trillion <= Thousand * Trillion
<1>1. Thousand \in Nat /\ Thousand >= 10
  BY UnitsAssumption
<1>2. ASSUME NEW a \in Nat
      PROVE  Thousand * a \in Nat /\ 10 * a <= Thousand * a
  BY <1>1, ProductMonotone
<1>3. Million \in Nat /\ 10 * Thousand <= Million
  BY <1>1, <1>2 DEF Million
<1>4. Billion \in Nat /\ 10 * Million <= Billion
  BY <1>2, <1>3 DEF Billion
<1>5. Trillion \in Nat /\ 10 * Billion <= Trillion
  BY <1>2, <1>4 DEF Trillion
<1>6. Thousand * Trillion \in Nat /\ 10 * Trillion <= Thousand * Trillion
  BY <1>2, <1>5
<1>7. QED
  BY <1>1, <1>3, <1>4, <1>5, <1>6

LEMMA FileScale == IsScale(FileUnit)
<1> DEFINE quadrillion == Thousand * Trillion
<1>1. /\ DOMAIN FileUnit = {"KB", "MB", "GB", "TB", "PB"}
      /\ FileUnit["KB"] = Thousand /\ FileUnit["MB"] = Million /\ FileUnit["GB"] = Billion
      /\ FileUnit["TB"] = Trillion /\ FileUnit["PB"] = quadrillion
  BY DEF FileUnit
<1>2. /\ Thousand \in Nat /\ Thousand >= 10
      /\ Million \in Nat /\ Billion \in Nat /\ Trillion \in Nat /\ quadrillion \in Nat
      /\ 10 * Thousand <= Million /\ 10 * Million <= Billion /\ 10 * Billion <= Trillion
      /\ 10 * Trillion <= quadrillion
      /\ Thousand * Thousand = Million /\ Thousand * Million = Billion
      /\ Thousand * Billion = Trillion /\ Thousand * Trillion = quadrillion
  BY Thousandfold DEF Million, Billion, Trillion
<1> HIDE DEF quadrillion
<1>3. IsFiniteSet(DOMAIN FileUnit)
  <2>1. IsFiniteSet({"KB", "MB", "GB", "TB", "PB"})
    <3>1. IsFiniteSet({"KB"})
      BY FS_Singleton
    <3>2. IsFiniteSet({"KB"} \cup {"MB"})
      BY <3>1, FS_AddElement
    <3>3. IsFiniteSet({"KB"} \cup {"MB"} \cup {"GB"})
      BY <3>2, FS_AddElement
    <3>4. IsFiniteSet({"KB"} \cup {"MB"} \cup {"GB"} \cup {"TB"})
      BY <3>3, FS_AddElement
    <3>5. IsFiniteSet({"KB"} \cup {"MB"} \cup {"GB"} \cup {"TB"} \cup {"PB"})
      BY <3>4, FS_AddElement
    <3>6. {"KB"} \cup {"MB"} \cup {"GB"} \cup {"TB"} \cup {"PB"} = {"KB", "MB", "GB", "TB", "PB"}
      OBVIOUS
    <3>7. QED
      BY <3>5, <3>6
  <2>2. QED
    BY <1>1, <2>1
<1>4. \A u \in DOMAIN FileUnit : FileUnit[u] \in Nat \ {0}
  BY <1>1, <1>2
<1>5. \A v \in DOMAIN FileUnit : Thousand < FileUnit[v] => Million <= FileUnit[v]
  BY <1>1, <1>2
<1>6. \A v \in DOMAIN FileUnit : Million < FileUnit[v] => Billion <= FileUnit[v]
  BY <1>1, <1>2
<1>7. \A v \in DOMAIN FileUnit : Billion < FileUnit[v] => Trillion <= FileUnit[v]
  BY <1>1, <1>2
<1>8. \A v \in DOMAIN FileUnit : Trillion < FileUnit[v] => quadrillion <= FileUnit[v]
  BY <1>1, <1>2
<1>9. \A v \in DOMAIN FileUnit : ~ quadrillion < FileUnit[v]
  BY <1>1, <1>2
<1>10. ASSUME NEW u \in DOMAIN FileUnit, NEW v \in DOMAIN FileUnit, FileUnit[u] < FileUnit[v]
       PROVE  /\ Thousand * FileUnit[u] <= FileUnit[v]
              /\ \E t \in DOMAIN FileUnit : FileUnit[t] = Thousand * FileUnit[u]
  <2> HIDE DEF FileUnit
  <2>1. u = "KB" \/ u = "MB" \/ u = "GB" \/ u = "TB" \/ u = "PB"
    BY <1>1
  <2>2. CASE u = "KB"
    BY <1>1, <1>2, <1>5, <1>10, <2>2
  <2>3. CASE u = "MB"
    BY <1>1, <1>2, <1>6, <1>10, <2>3
  <2>4. CASE u = "GB"
    BY <1>1, <1>2, <1>7, <1>10, <2>4
  <2>5. CASE u = "TB"
    BY <1>1, <1>2, <1>8, <1>10, <2>5
  <2>6. CASE u = "PB"
    BY <1>1, <1>2, <1>9, <1>10, <2>6
  <2>7. QED
    BY <2>1, <2>2, <2>3, <2>4, <2>5, <2>6
<1>11. QED
  BY <1>3, <1>4, <1>10 DEF IsScale

LEMMA CountScale == IsScale(CountUnit) /\ CountUnit["none"] = 1 /\ "none" \in DOMAIN CountUnit
<1>1. /\ DOMAIN CountUnit = {"none", "K", "M", "B", "T"}
      /\ CountUnit["none"] = 1 /\ CountUnit["K"] = Thousand /\ CountUnit["M"] = Million
      /\ CountUnit["B"] = Billion /\ CountUnit["T"] = Trillion
  BY DEF CountUnit
<1>2. /\ Thousand \in Nat /\ Thousand >= 10
      /\ Million \in Nat /\ Billion \in Nat /\ Trillion \in Nat
      /\ 10 * Thousand <= Million /\ 10 * Million <= Billion /\ 10 * Billion <= Trillion
      /\ Thousand * 1 = Thousand /\ Thousand * Thousand = Million
      /\ Thousand * Million = Billion /\ Thousand * Billion = Trillion
  BY Thousandfold DEF Million, Billion, Trillion
<1>3. IsFiniteSet(DOMAIN CountUnit)
  <2>1. IsFiniteSet({"none", "K", "M", "B", "T"})
    <3>1. IsFiniteSet({"none"})
      BY FS_Singleton
    <3>2. IsFiniteSet({"none"} \cup {"K"})
      BY <3>1, FS_AddElement
    <3>3. IsFiniteSet({"none"} \cup {"K"} \cup {"M"})
      BY <3>2, FS_AddElement
    <3>4. IsFiniteSet({"none"} \cup {"K"} \cup {"M"} \cup {"B"})
      BY <3>3, FS_AddElement
    <3>5. IsFiniteSet({"none"} \cup {"K"} \cup {"M"} \cup {"B"} \cup {"T"})
      BY <3>4, FS_AddElement
    <3>6. {"none"} \cup {"K"} \cup {"M"} \cup {"B"} \cup {"T"} = {"none", "K", "M", "B", "T"}
      OBVIOUS
    <3>7. QED
      BY <3>5, <3>6
  <2>2. QED
    BY <1>1, <2>1
<1>4. \A u \in DOMAIN CountUnit : CountUnit[u] \in Nat \ {0}
  BY <1>1, <1>2
<1>5. \A v \in DOMAIN CountUnit : 1 < CountUnit[v] => Thousand <= CountUnit[v]
  BY <1>1, <1>2
<1>6. \A v \in DOMAIN CountUnit : Thousand < CountUnit[v] => Million <= CountUnit[v]
  BY <1>1, <1>2
<1>7. \A v \in DOMAIN CountUnit : Million < CountUnit[v] => Billion <= CountUnit[v]
  BY <1>1, <1>2
<1>8. \A v \in DOMAIN CountUnit : Billion < CountUnit[v] => Trillion <= CountUnit[v]
  BY <1>1, <1>2
<1>9. \A v \in DOMAIN CountUnit : ~ Trillion < CountUnit[v]
  BY <1>1, <1>2
<1>10. ASSUME NEW u \in DOMAIN CountUnit, NEW v \in DOMAIN CountUnit, CountUnit[u] < CountUnit[v]
       PROVE  /\ Thousand * CountUnit[u] <= CountUnit[v]
              /\ \E t \in DOMAIN CountUnit : CountUnit[t] = Thousand * CountUnit[u]
  <2>1. u = "none" \/ u = "K" \/ u = "M" \/ u = "B" \/ u = "T"
    BY <1>1
  <2>2. CASE u = "none"
    BY <1>1, <1>2, <1>5, <1>10, <2>2
  <2>3. CASE u = "K"
    BY <1>1, <1>2, <1>6, <1>10, <2>3
  <2>4. CASE u = "M"
    BY <1>1, <1>2, <1>7, <1>10, <2>4
  <2>5. CASE u = "B"
    BY <1>1, <1>2, <1>8, <1>10, <2>5
  <2>6. CASE u = "T"
    BY <1>1, <1>2, <1>9, <1>10, <2>6
  <2>7. QED
    BY <2>1, <2>2, <2>3, <2>4, <2>5, <2>6
<1>11. QED
  BY <1>1, <1>3, <1>4, <1>10 DEF IsScale

(* The unit of a size: the greatest that it fills. A size that has grown   *)
(* keeps its unit, or it has passed a thousand of them.                    *)
Fills(unit, n) == \E u \in DOMAIN unit : n >= unit[u]

LEMMA LargestFilled ==
  ASSUME NEW unit, IsScale(unit), NEW n \in Nat, Fills(unit, n), NEW smallest
  PROVE  LET u == Largest(unit, n, smallest)
         IN  /\ u \in DOMAIN unit /\ unit[u] \in Nat \ {0} /\ n >= unit[u]
             /\ \A v \in DOMAIN unit : n >= unit[v] => unit[v] <= unit[u]
<1> DEFINE filled == {u \in DOMAIN unit : n >= unit[u]}
           S == {unit[u] : u \in filled}
<1>1. filled # {} /\ IsFiniteSet(filled)
  BY FS_Subset DEF Fills, IsScale
<1>2. S # {} /\ IsFiniteSet(S) /\ \A x \in S : x \in Int
  <2>1. IsFiniteSet(S)
    <3> HIDE DEF filled
    <3>1. QED
      BY <1>1, FiniteImage
  <2>2. QED
    BY <1>1, <2>1 DEF IsScale
<1>3. Max(S) \in S /\ \A x \in S : Max(S) >= x
  <2> HIDE DEF S
  <2>1. QED
    BY <1>2, MaxOfFinite
<1>4. \E u \in filled : \A v \in filled : unit[v] <= unit[u]
  BY <1>3
<1>5. Largest(unit, n, smallest) = CHOOSE u \in filled : \A v \in filled : unit[v] <= unit[u]
  BY <1>1 DEF Largest
<1> DEFINE w == Largest(unit, n, smallest)
<1>6. w \in filled /\ \A v \in filled : unit[v] <= unit[w]
  <2> HIDE DEF filled
  <2>1. QED
    BY <1>4, <1>5
<1> HIDE DEF w
<1>7. w \in DOMAIN unit /\ n >= unit[w] /\ unit[w] \in Nat \ {0}
  BY <1>6 DEF IsScale
<1>8. QED
  BY <1>6, <1>7 DEF w

LEMMA UnitsGrow ==
  ASSUME NEW unit, IsScale(unit), NEW n \in Nat, Fills(unit, n), NEW m \in Nat, n <= m,
         NEW smallest
  PROVE  LET w == unit[Largest(unit, n, smallest)]
             x == unit[Largest(unit, m, smallest)]
         IN  /\ Fills(unit, m) /\ w \in Nat \ {0} /\ n >= w /\ x \in Nat \ {0} /\ m >= x
             /\ x = w \/ (n < Thousand * w /\ Thousand * w <= x)
<1> DEFINE u == Largest(unit, n, smallest)
           v == Largest(unit, m, smallest)
           w == unit[u]
           x == unit[v]
<1>1. Fills(unit, m)
  BY DEF Fills, IsScale
<1>2. /\ u \in DOMAIN unit /\ w \in Nat \ {0} /\ n >= w
      /\ \A y \in DOMAIN unit : n >= unit[y] => unit[y] <= w
  BY LargestFilled
<1>3. /\ v \in DOMAIN unit /\ x \in Nat \ {0} /\ m >= x
      /\ \A y \in DOMAIN unit : m >= unit[y] => unit[y] <= x
  BY <1>1, LargestFilled
<1>4. w <= x
  <2> HIDE DEF u, v
  <2>1. m >= unit[u]
    BY <1>2
  <2>2. QED
    BY <1>2, <1>3, <2>1
<1>5. x # w => n < x
  <2> HIDE DEF u, v
  <2>1. n >= unit[v] => unit[v] <= w
    BY <1>2, <1>3
  <2>2. QED
    BY <1>2, <1>3, <1>4, <2>1
<1>6. x # w => Thousand * w <= x
  <2> HIDE DEF u, v
  <2>1. unit[u] < unit[v] => Thousand * unit[u] <= unit[v]
    BY <1>2, <1>3 DEF IsScale
  <2>2. QED
    BY <1>2, <1>3, <1>4, <2>1
<1>7. x # w => n < Thousand * w
  <2> HIDE DEF u, v
  <2>1. ASSUME x # w
        PROVE  n < Thousand * w
    <3>1. PICK t \in DOMAIN unit : unit[t] = Thousand * w
      BY <1>2, <1>3, <1>4, <2>1 DEF IsScale
    <3>2. ~ unit[t] <= w
      <4>1. 10 * w <= Thousand * w
        BY <1>2, Thousandfold, ProductMonotone
      <4>2. Thousand * w \in Nat
        BY <1>2, Thousandfold
      <4> HIDE DEF w
      <4>3. QED
        BY <1>2, <3>1, <4>1, <4>2
    <3>3. ~ n >= unit[t]
      BY <1>2, <3>2
    <3>4. unit[t] \in Nat
      BY <3>1 DEF IsScale
    <3>5. QED
      BY <3>1, <3>3, <3>4
  <2>2. QED
    BY <2>1
<1>8. /\ Fills(unit, m) /\ w \in Nat \ {0} /\ n >= w /\ x \in Nat \ {0} /\ m >= x
      /\ x = w \/ (n < Thousand * w /\ Thousand * w <= x)
  <2> HIDE DEF w, x
  <2>1. QED
    BY <1>1, <1>2, <1>3, <1>6, <1>7
<1>9. QED
  BY <1>8

--------------------------------------------------------------------------------
(* Labels of a unit w, with a digit behind the point or without. *)
LEMMA ToldIs ==
  ASSUME NEW unit, NEW u, NEW n \in Nat, unit[u] \in Nat \ {0}
  PROVE  /\ Told(Label(n, unit, u, 0)) = 10 * (Nearest(n, unit[u]) * unit[u])
         /\ Told(Label(n, unit, u, 1)) = Nearest(10 * n, unit[u]) * unit[u]
<1> DEFINE w == unit[u]
           p == Nearest(n, w)
           q == Nearest(10 * n, w)
<1>1. /\ Label(n, unit, u, 0) = [digits |-> p, places |-> 0, unit |-> w]
      /\ Label(n, unit, u, 1) = [digits |-> q, places |-> 1, unit |-> w]
  BY DEF Label, ToFixed, Tens, Nearest
<1>2. w \in Nat \ {0} /\ p \in Nat /\ q \in Nat
  <2>1. p \in Nat
    BY NearestIs
  <2>2. q \in Nat
    <3> DEFINE a == 10 * n
    <3>1. a \in Nat
      OBVIOUS
    <3> HIDE DEF a
    <3>2. Nearest(a, w) \in Nat
      BY <3>1, NearestIs
    <3>3. QED
      BY <3>2 DEF a
  <2>3. QED
    BY <2>1, <2>2
<1> HIDE DEF w, p, q
<1>3. /\ Told([digits |-> p, places |-> 0, unit |-> w]) = p * 10 * w
      /\ Told([digits |-> q, places |-> 1, unit |-> w]) = q * 1 * w
  BY DEF Told, Tens
<1>4. p * 10 * w = 10 * (p * w) /\ q * 1 * w = q * w
  BY <1>2
<1>5. QED
  BY <1>1, <1>3, <1>4 DEF w, p, q

(* What a size below, or from, k units shows. *)
LEMMA ToldAt ==
  ASSUME NEW unit, NEW u, NEW n \in Nat, unit[u] \in Nat \ {0}, NEW k \in Nat,
         NEW places \in {0, 1}
  PROVE  /\ Told(Label(n, unit, u, places)) \in Nat
         /\ n <= k * unit[u] => Told(Label(n, unit, u, places)) <= 10 * (k * unit[u])
         /\ k * unit[u] <= n => 10 * (k * unit[u]) <= Told(Label(n, unit, u, places))
<1> DEFINE w == unit[u]
           c == k * w
           p == Nearest(n, w) * w
           q == Nearest(10 * n, w) * w
<1>1. /\ Told(Label(n, unit, u, 0)) = 10 * p
      /\ Told(Label(n, unit, u, 1)) = q
  BY ToldIs
<1>2. c \in Nat /\ 10 * k \in Nat /\ (10 * k) * w = 10 * c /\ 10 * n \in Nat
  OBVIOUS
<1>3. p \in Nat /\ q \in Nat
  BY <1>2, NearestIs
<1>4. (n <= c => p <= c) /\ (c <= n => c <= p)
  BY NearestAt
<1>5. (10 * n <= 10 * c => q <= 10 * c) /\ (10 * c <= 10 * n => 10 * c <= q)
  <2> DEFINE a == 10 * n
             j == 10 * k
  <2>1. a \in Nat /\ j \in Nat /\ j * w = 10 * c
    BY <1>2
  <2> HIDE DEF a, j
  <2>2. /\ a <= j * w => Nearest(a, w) * w <= j * w
        /\ j * w <= a => j * w <= Nearest(a, w) * w
    BY <2>1, NearestAt
  <2>3. QED
    BY <2>1, <2>2 DEF a
<1> HIDE DEF c, p, q
<1>6. /\ n <= c => 10 * p <= 10 * c /\ q <= 10 * c
      /\ c <= n => 10 * c <= 10 * p /\ 10 * c <= q
  BY <1>2, <1>3, <1>4, <1>5
<1>7. QED
  BY <1>1, <1>2, <1>3, <1>6 DEF c

(* With the same number of digits the greater of two sizes shows no less. *)
LEMMA ToldGrows ==
  ASSUME NEW unit, NEW u, NEW n \in Nat, NEW m \in Nat, n <= m, unit[u] \in Nat \ {0},
         NEW places \in {0, 1}
  PROVE  Told(Label(n, unit, u, places)) <= Told(Label(m, unit, u, places))
<1> DEFINE w == unit[u]
<1>1. /\ Told(Label(n, unit, u, 0)) = 10 * (Nearest(n, w) * w)
      /\ Told(Label(n, unit, u, 1)) = Nearest(10 * n, w) * w
      /\ Told(Label(m, unit, u, 0)) = 10 * (Nearest(m, w) * w)
      /\ Told(Label(m, unit, u, 1)) = Nearest(10 * m, w) * w
  BY ToldIs
<1>2. 10 * n \in Nat /\ 10 * m \in Nat /\ 10 * n <= 10 * m
  OBVIOUS
<1>3. Nearest(n, w) * w <= Nearest(m, w) * w
  BY NearestGrows
<1>4. Nearest(10 * n, w) * w <= Nearest(10 * m, w) * w
  <2> DEFINE a == 10 * n
             b == 10 * m
  <2> HIDE DEF a, b
  <2>1. Nearest(a, w) * w <= Nearest(b, w) * w
    BY <1>2, NearestGrows DEF a, b
  <2>2. QED
    BY <2>1 DEF a, b
<1>5. Nearest(n, w) * w \in Nat /\ Nearest(m, w) * w \in Nat
  BY NearestIs
<1>6. places = 0 \/ places = 1
  OBVIOUS
<1>7. CASE places = 0
  <2> DEFINE a == Nearest(n, w) * w
             b == Nearest(m, w) * w
  <2>1. a <= b /\ a \in Nat /\ b \in Nat
    BY <1>3, <1>5
  <2> HIDE DEF a, b
  <2>2. 10 * a <= 10 * b
    BY <2>1
  <2>3. QED
    BY <1>1, <1>7, <2>2 DEF a, b
<1>8. CASE places = 1
  BY <1>1, <1>4, <1>8
<1>9. QED
  BY <1>6, <1>7, <1>8

(* How far it is off. *)
LEMMA OffByHalf ==
  ASSUME NEW unit, NEW u, NEW n \in Nat, unit[u] \in Nat \ {0}
  PROVE  /\ OffBy(Label(n, unit, u, 0), n) <= 5 * unit[u]
         /\ 2 * OffBy(Label(n, unit, u, 1), n) <= unit[u]
         /\ OffBy(Label(n, unit, u, 1), n) <= unit[u]
<1> DEFINE w == unit[u]
           p == Nearest(n, w) * w
           q == Nearest(10 * n, w) * w
<1>1. /\ Told(Label(n, unit, u, 0)) = 10 * p
      /\ Told(Label(n, unit, u, 1)) = q
  BY ToldIs
<1>2. w \in Nat /\ p \in Nat /\ 2 * p <= 2 * n + w /\ 2 * n < 2 * p + w
  BY NearestIs
<1>3. q \in Nat /\ 2 * q <= 2 * (10 * n) + w /\ 2 * (10 * n) < 2 * q + w
  <2> DEFINE a == 10 * n
  <2>1. a \in Nat
    OBVIOUS
  <2> HIDE DEF a
  <2>2. Nearest(a, w) * w \in Nat /\ 2 * (Nearest(a, w) * w) <= 2 * a + w
        /\ 2 * a < 2 * (Nearest(a, w) * w) + w
    BY <2>1, NearestIs
  <2>3. QED
    BY <2>2 DEF a
<1> HIDE DEF w, p, q
<1>4. /\ IF 10 * p < 10 * n THEN 10 * n - 10 * p <= 5 * w ELSE 10 * p - 10 * n <= 5 * w
      /\ IF q < 10 * n THEN 2 * (10 * n - q) <= w ELSE 2 * (q - 10 * n) <= w
      /\ IF q < 10 * n THEN 10 * n - q <= w ELSE q - 10 * n <= w
  BY <1>2, <1>3
<1>5. /\ OffBy(Label(n, unit, u, 0), n) <= 5 * w
      /\ 2 * OffBy(Label(n, unit, u, 1), n) <= w
      /\ OffBy(Label(n, unit, u, 1), n) <= w
  BY <1>1, <1>4 DEF OffBy
<1>6. QED
  BY <1>5 DEF w

--------------------------------------------------------------------------------
(* What is left over of whole units *)
LEMMA RemainderIs ==
  ASSUME NEW n \in Nat, NEW w \in Nat \ {0}
  PROVE  /\ n \div w \in Nat /\ (n \div w) * w \in Nat /\ n % w \in Nat /\ n % w < w
         /\ n = (n \div w) * w + (n % w)
<1> DEFINE k == n \div w
           r == n % w
<1>1. k \in Nat /\ r \in Nat /\ r < w /\ n = k * w + r
  OBVIOUS
<1>2. k * w \in Nat
  BY <1>1
<1>3. QED
  BY <1>1, <1>2

LEMMA RemainderOnce ==
  ASSUME NEW k \in Nat, NEW w \in Nat \ {0}, NEW n \in Nat, k * w <= n, n < k * w + w
  PROVE  n % w = n - k * w
<1> DEFINE j == n \div w
           r == n % w
           c == k * w
           d == j * w
<1>1. j \in Nat /\ d \in Nat /\ r \in Nat /\ r < w /\ n = d + r
  BY RemainderIs
<1>2. c \in Nat /\ c <= n /\ n < c + w
  OBVIOUS
<1> HIDE DEF j, r
<1>3. ASSUME j >= k + 1
      PROVE  d >= c + w
  <2>1. (k + 1) * w <= j * w
    BY <1>1, <1>3, ProductMonotone
  <2>2. (k + 1) * w = c + w
    OBVIOUS
  <2>3. QED
    BY <2>1, <2>2
<1>4. ASSUME j + 1 <= k
      PROVE  d + w <= c
  <2>1. (j + 1) * w <= k * w
    BY <1>1, <1>4, ProductMonotone
  <2>2. (j + 1) * w = d + w
    BY <1>1
  <2>3. QED
    BY <2>1, <2>2
<1>5. j = k => d = c
  OBVIOUS
<1> HIDE DEF c, d
<1>6. r = n - c
  BY <1>1, <1>2, <1>3, <1>4, <1>5
<1>7. QED
  BY <1>6 DEF r, c

(* A row without a digit behind the point shows the whole units. *)
LEMMA RowWhole ==
  ASSUME NEW unit, NEW u, NEW n \in Nat, unit[u] \in Nat \ {0},
         Places(n, unit[u]) = 0, n < Thousand * unit[u]
  PROVE  LET c == (n \div unit[u]) * unit[u]
         IN  /\ n \div unit[u] \in Nat /\ c \in Nat /\ c <= n /\ 10 * (n - c) < unit[u]
             /\ Told(Label(n, unit, u, 0)) = 10 * c
<1> DEFINE w == unit[u]
           k == n \div w
           c == k * w
           r == n % w
<1>1. k \in Nat /\ c \in Nat /\ r \in Nat /\ n = c + r
  BY RemainderIs
<1>2. 10 * r < w
  BY <1>1 DEF Places
<1>3. Told(Label(n, unit, u, 0)) = 10 * (Nearest(n, w) * w)
  BY ToldIs
<1> HIDE DEF r, k
<1>4. k * w <= n /\ 2 * n < 2 * (k * w) + w
  <2> HIDE DEF c, w
  <2>1. w \in Nat
    BY DEF w
  <2>2. c <= n /\ 2 * n < 2 * c + w
    BY <1>1, <1>2, <2>1
  <2>3. QED
    BY <2>2 DEF c
<1>5. Nearest(n, w) * w = c
  <2> HIDE DEF w
  <2>1. w \in Nat \ {0} /\ k \in Nat
    BY <1>1 DEF w
  <2>2. Nearest(n, w) * w = k * w
    BY <1>4, <2>1, NearestAt
  <2>3. QED
    BY <2>2
<1>6. c <= n /\ 10 * (n - c) < w
  <2> HIDE DEF c, w
  <2>1. w \in Nat
    BY DEF w
  <2>2. QED
    BY <1>1, <1>2, <2>1
<1>7. k \in Nat /\ c \in Nat /\ c <= n /\ 10 * (n - c) < w
      /\ Told(Label(n, unit, u, 0)) = 10 * c
  BY <1>1, <1>3, <1>5, <1>6
<1>8. QED
  BY <1>7 DEF k

LEMMA PlacesIs ==
  ASSUME NEW n, NEW w
  PROVE  Places(n, w) = 0 \/ (Places(n, w) = 1 /\ n < Thousand * w /\ 10 * (n % w) >= w)
BY DEF Places

LEMMA RowOff ==
  ASSUME NEW unit, NEW u, NEW n \in Nat, unit[u] \in Nat \ {0}
  PROVE  OffBy(Label(n, unit, u, Places(n, unit[u])), n)
           <= IF n < Thousand * unit[u] THEN unit[u] ELSE 5 * unit[u]
<1> DEFINE w == unit[u]
<1>1. /\ OffBy(Label(n, unit, u, 0), n) <= 5 * w
      /\ OffBy(Label(n, unit, u, 1), n) <= w
  BY OffByHalf
<1>2. ASSUME Places(n, w) = 0, n < Thousand * w
      PROVE  OffBy(Label(n, unit, u, 0), n) <= w
  <2> DEFINE c == (n \div w) * w
  <2>1. c \in Nat /\ c <= n /\ 10 * (n - c) < w /\ Told(Label(n, unit, u, 0)) = 10 * c
    BY <1>2, RowWhole
  <2> HIDE DEF c
  <2>2. OffBy(Label(n, unit, u, 0), n) = IF 10 * c < 10 * n THEN 10 * n - 10 * c ELSE 10 * c - 10 * n
    BY <2>1 DEF OffBy
  <2>3. QED
    BY <2>1, <2>2
<1>3. CASE Places(n, w) = 0
  BY <1>1, <1>2, <1>3
<1>4. CASE Places(n, w) = 1 /\ n < Thousand * w
  BY <1>1, <1>4
<1>5. QED
  BY <1>3, <1>4, PlacesIs

LEMMA RowGrows ==
  ASSUME NEW unit, NEW u, NEW n \in Nat, NEW m \in Nat, n <= m, unit[u] \in Nat \ {0}
  PROVE  Told(Label(n, unit, u, Places(n, unit[u]))) <= Told(Label(m, unit, u, Places(m, unit[u])))
<1> DEFINE w == unit[u]
<1>1. w \in Nat \ {0} /\ Thousand \in Nat /\ Thousand * w \in Nat
  BY Thousandfold, ProductNat
<1>2. ASSUME NEW p \in {0, 1}
      PROVE  Told(Label(n, unit, u, p)) <= Told(Label(m, unit, u, p))
  BY ToldGrows
<1>3. ASSUME NEW k \in Nat, n <= k * w, k * w <= m, NEW p \in {0, 1}, NEW q \in {0, 1}
      PROVE  Told(Label(n, unit, u, p)) <= Told(Label(m, unit, u, q))
  <2>1. /\ Told(Label(n, unit, u, p)) \in Nat
        /\ Told(Label(n, unit, u, p)) <= 10 * (k * w)
    BY <1>3, ToldAt
  <2>2. /\ Told(Label(m, unit, u, q)) \in Nat
        /\ 10 * (k * w) <= Told(Label(m, unit, u, q))
    BY <1>3, ToldAt
  <2>3. 10 * (k * w) \in Nat
    BY <1>1, ProductNat
  <2>4. QED
    BY <2>1, <2>2, <2>3
<1>4. ASSUME Places(n, w) = 0, Places(m, w) = 1, m < Thousand * w
      PROVE  Told(Label(n, unit, u, 0)) <= Told(Label(m, unit, u, 1))
  <2> DEFINE k == n \div w
  <2>1. n < Thousand * w
    BY <1>1, <1>4
  <2>2. k \in Nat /\ k * w \in Nat /\ k * w <= n /\ Told(Label(n, unit, u, 0)) = 10 * (k * w)
    BY <1>4, <2>1, RowWhole
  <2> HIDE DEF k
  <2>3. k * w <= m
    <3> HIDE DEF w
    <3>1. QED
      BY <2>2
  <2>4. 10 * (k * w) <= Told(Label(m, unit, u, 1))
    BY <2>2, <2>3, ToldAt
  <2>5. QED
    BY <2>2, <2>4
<1>5. ASSUME Places(n, w) = 1, n < Thousand * w, 10 * (n % w) >= w, Places(m, w) = 0
      PROVE  Told(Label(n, unit, u, 1)) <= Told(Label(m, unit, u, 0))
  <2>1. CASE Thousand * w <= m
    <3>1. n <= Thousand * w
      BY <1>1, <1>5
    <3>2. QED
      BY <1>1, <1>3, <2>1, <3>1
  <2>2. CASE m < Thousand * w
    <3> DEFINE j == m \div w
               c == j * w
    <3>1. j \in Nat /\ c \in Nat /\ c <= m /\ 10 * (m - c) < w
      BY <1>5, <2>2, RowWhole
    <3> HIDE DEF j
    <3>2. ASSUME n > c
          PROVE  FALSE
      <4>1. c <= n /\ n < c + w /\ 10 * (n - c) < w
        <5> HIDE DEF c, w
        <5>1. QED
          BY <1>1, <3>1, <3>2
      <4>2. n % w = n - j * w
        BY <1>1, <3>1, <4>1, RemainderOnce
      <4>3. 10 * (n % w) < w
        BY <4>1, <4>2
      <4>4. n % w \in Nat
        BY <1>1, RemainderIs
      <4> HIDE DEF w
      <4>5. QED
        BY <1>1, <1>5, <4>3, <4>4
    <3>3. n <= j * w
      BY <3>1, <3>2
    <3>4. QED
      BY <1>3, <3>1, <3>3
  <2>3. QED
    BY <1>1, <2>1, <2>2
<1>6. \/ Places(n, w) = 0
      \/ Places(n, w) = 1 /\ n < Thousand * w /\ 10 * (n % w) >= w
  BY PlacesIs
<1>7. Places(m, w) = 0 \/ (Places(m, w) = 1 /\ m < Thousand * w)
  BY PlacesIs
<1>8. QED
  BY <1>2, <1>4, <1>5, <1>6, <1>7

(* A unit more is a thousand times as much, which no label of the smaller  *)
(* one passes, and no label of the greater one falls short of.             *)
LEMMA NextUnit ==
  ASSUME NEW unit, NEW u, NEW n \in Nat, unit[u] \in Nat \ {0}, NEW p \in {0, 1},
         NEW v, NEW m \in Nat, unit[v] \in Nat \ {0}, NEW q \in {0, 1},
         n < Thousand * unit[u], Thousand * unit[u] <= unit[v], unit[v] <= m
  PROVE  Told(Label(n, unit, u, p)) <= Told(Label(m, unit, v, q))
<1> DEFINE w == unit[u]
           x == unit[v]
           c == Thousand * w
<1>1. Thousand \in Nat /\ c \in Nat
  BY Thousandfold, ProductNat
<1>2. n <= c
  BY <1>1
<1>3. Told(Label(n, unit, u, p)) \in Nat /\ Told(Label(n, unit, u, p)) <= 10 * c
  BY <1>1, <1>2, ToldAt
<1>4. 1 * x = x /\ 1 * x <= m
  OBVIOUS
<1>5. Told(Label(m, unit, v, q)) \in Nat /\ 10 * (1 * x) <= Told(Label(m, unit, v, q))
  BY <1>4, ToldAt
<1>6. x \in Nat /\ c <= x
  OBVIOUS
<1> HIDE DEF c, x
<1>7. 10 * c <= 10 * x
  BY <1>1, <1>6
<1>8. QED
  BY <1>1, <1>3, <1>4, <1>5, <1>6, <1>7

(* What is less than a twentieth of the unit shows as nothing. *)
LEMMA ToldNothing ==
  ASSUME NEW unit, NEW u, NEW n \in Nat, unit[u] \in Nat \ {0}
  PROVE  /\ 2 * n < unit[u] => Told(Label(n, unit, u, 0)) = 0
         /\ n = 0 => Told(Label(n, unit, u, 1)) = 0
<1> DEFINE w == unit[u]
<1>1. /\ Told(Label(n, unit, u, 0)) = 10 * (Nearest(n, w) * w)
      /\ Told(Label(n, unit, u, 1)) = Nearest(10 * n, w) * w
  BY ToldIs
<1>2. 0 * w = 0 /\ 2 * (0 * w) + w = w
  OBVIOUS
<1>3. ASSUME NEW a \in Nat, 2 * a < w
      PROVE  Nearest(a, w) * w = 0
  BY <1>2, <1>3, NearestAt
<1>4. 2 * n < w => Nearest(n, w) * w = 0
  BY <1>3
<1>5. n = 0 => Nearest(10 * n, w) * w = 0
  <2>1. ASSUME n = 0
        PROVE  Nearest(10 * n, w) * w = 0
    <3>1. 10 * n = 0
      BY <2>1
    <3>2. Nearest(0, w) * w = 0
      BY <1>3
    <3>3. QED
      BY <3>1, <3>2
  <2>2. QED
    BY <2>1
<1>6. QED
  BY <1>1, <1>4, <1>5

LEMMA UnitIn ==
  ASSUME NEW n \in Nat
  PROVE  /\ FileUnit[SmartUnit(n)] \in Nat \ {0}
         /\ CountUnit[Largest(CountUnit, n, "none")] \in Nat \ {0}
         /\ ~ Fills(FileUnit, n) => SmartUnit(n) = "MB" /\ 2 * n < Million /\ Places(n, Million) = 0
         /\ ~ Fills(CountUnit, n) => n = 0
<1>1. FileUnit["MB"] = Million /\ "MB" \in DOMAIN FileUnit
      /\ FileUnit["KB"] = Thousand /\ "KB" \in DOMAIN FileUnit
  BY DEF FileUnit
<1>2. Thousand \in Nat /\ Thousand >= 10 /\ Million \in Nat /\ 10 * Thousand <= Million
  BY Thousandfold
<1>3. Fills(FileUnit, n) => FileUnit[SmartUnit(n)] \in Nat \ {0}
  BY FileScale, LargestFilled DEF SmartUnit
<1>4. ASSUME ~ Fills(FileUnit, n)
      PROVE  SmartUnit(n) = "MB" /\ 2 * n < Million /\ Places(n, Million) = 0
  <2>1. SmartUnit(n) = "MB"
    BY <1>4 DEF Fills, SmartUnit, Largest
  <2>2. ~ n >= Thousand
    BY <1>1, <1>4 DEF Fills
  <2>3. 2 * n < Million /\ 10 * n < Million /\ n < Million /\ Million > 0
    BY <1>2, <2>2
  <2>4. n % Million = n
    <3>1. 0 * Million = 0 /\ Million \in Nat \ {0}
      BY <1>2, <2>3
    <3>2. n % Million = n - 0 * Million
      BY <2>3, <3>1, RemainderOnce
    <3>3. QED
      BY <3>1, <3>2
  <2>5. Places(n, Million) = 0
    BY <1>2, <2>3, <2>4 DEF Places
  <2>6. QED
    BY <2>1, <2>3, <2>5
<1>5. Fills(CountUnit, n) => CountUnit[Largest(CountUnit, n, "none")] \in Nat \ {0}
  BY CountScale, LargestFilled
<1>6. ASSUME ~ Fills(CountUnit, n)
      PROVE  n = 0 /\ Largest(CountUnit, n, "none") = "none"
  <2>1. ~ n >= 1
    BY <1>6, CountScale DEF Fills
  <2>2. Largest(CountUnit, n, "none") = "none"
    BY <1>6 DEF Fills, Largest
  <2>3. QED
    BY <2>1, <2>2
<1>7. Million \in Nat \ {0}
  BY <1>2
<1>8. QED
  BY <1>1, <1>3, <1>4, <1>5, <1>6, <1>7, CountScale

--------------------------------------------------------------------------------
(* The three labels, whatever the unit: how far they are off. *)
LEMMA LabelsOff ==
  ASSUME NEW n \in Nat
  PROVE  LET home == HomeLabel(n) row == SmartUnitString(n) axis == SmartSize(n)
         IN  /\ OffBy(home, n) <= 5 * home.unit
             /\ OffBy(row, n) <= IF n < Thousand * row.unit THEN row.unit ELSE 5 * row.unit
             /\ 2 * OffBy(axis, n) <= axis.unit
<1> DEFINE u == SmartUnit(n)
           c == Largest(CountUnit, n, "none")
           row == SmartUnitString(n)
<1>1. FileUnit[u] \in Nat \ {0}
  BY UnitIn
<1>2. CountUnit[c] \in Nat \ {0}
  BY UnitIn
<1>3. HomeLabel(n).unit = FileUnit[u] /\ row.unit = FileUnit[u] /\ SmartSize(n).unit = CountUnit[c]
  BY DEF HomeLabel, SmartUnitString, SmartSize, Label
<1> HIDE DEF u, c
<1>4. OffBy(HomeLabel(n), n) <= 5 * FileUnit[u]
  BY <1>1, OffByHalf DEF HomeLabel, u
<1>5. OffBy(row, n) <= IF n < Thousand * FileUnit[u] THEN FileUnit[u] ELSE 5 * FileUnit[u]
  BY <1>1, RowOff DEF SmartUnitString, u
<1>6. 2 * OffBy(SmartSize(n), n) <= CountUnit[c]
  BY <1>2, OffByHalf DEF SmartSize, c
<1>7. QED
  BY <1>3, <1>4, <1>5, <1>6

(* And none has fallen when the size has grown. *)
LEMMA SameUnit ==
  ASSUME NEW unit, NEW u, NEW v, unit[u] = unit[v], NEW n, NEW places
  PROVE  Label(n, unit, u, places) = Label(n, unit, v, places)
BY DEF Label

LEMMA LabelsGrow ==
  ASSUME NEW n \in Nat, NEW m \in Nat, n <= m
  PROVE  /\ Told(HomeLabel(n)) <= Told(HomeLabel(m))
         /\ Told(SmartUnitString(n)) <= Told(SmartUnitString(m))
         /\ Told(SmartSize(n)) <= Told(SmartSize(m))
<1> DEFINE u == SmartUnit(n)
           v == SmartUnit(m)
           w == FileUnit[u]
           x == FileUnit[v]
           P(a, b) == Places(a, b)
<1>1. w \in Nat \ {0} /\ x \in Nat \ {0}
  BY UnitIn
<1>2. P(n, w) \in {0, 1} /\ P(m, x) \in {0, 1}
  BY DEF Places
<1>3. /\ HomeLabel(n) = Label(n, FileUnit, u, 0) /\ HomeLabel(m) = Label(m, FileUnit, v, 0)
      /\ SmartUnitString(n) = Label(n, FileUnit, u, P(n, w))
      /\ SmartUnitString(m) = Label(m, FileUnit, v, P(m, x))
  BY DEF HomeLabel, SmartUnitString
<1>4. ASSUME Fills(FileUnit, n)
      PROVE  /\ m >= x
             /\ x = w \/ (n < Thousand * w /\ Thousand * w <= x)
  BY <1>4, FileScale, UnitsGrow DEF SmartUnit
<1>5. ~ Fills(FileUnit, n) => u = "MB" /\ 2 * n < Million /\ P(n, Million) = 0
  BY UnitIn
<1>6. FileUnit["MB"] = Million
  BY DEF FileUnit
<1> HIDE DEF u, v, P
<1>7. ASSUME Fills(FileUnit, n), x = w
      PROVE  /\ Told(HomeLabel(n)) <= Told(HomeLabel(m))
             /\ Told(SmartUnitString(n)) <= Told(SmartUnitString(m))
  <2>1. Told(Label(n, FileUnit, u, 0)) <= Told(Label(m, FileUnit, u, 0))
    BY <1>1, ToldGrows
  <2>2. Told(Label(n, FileUnit, u, P(n, w))) <= Told(Label(m, FileUnit, u, P(m, w)))
    BY <1>1, RowGrows DEF P
  <2>3. /\ Label(m, FileUnit, u, 0) = Label(m, FileUnit, v, 0)
        /\ Label(m, FileUnit, u, P(m, w)) = Label(m, FileUnit, v, P(m, x))
    BY <1>7, SameUnit
  <2>4. QED
    BY <1>3, <2>1, <2>2, <2>3
<1>8. ASSUME n < Thousand * w, Thousand * w <= x, m >= x
      PROVE  /\ Told(HomeLabel(n)) <= Told(HomeLabel(m))
             /\ Told(SmartUnitString(n)) <= Told(SmartUnitString(m))
  <2>1. x <= m
    BY <1>1, <1>8
  <2>2. ASSUME NEW p \in {0, 1}, NEW q \in {0, 1}
        PROVE  Told(Label(n, FileUnit, u, p)) <= Told(Label(m, FileUnit, v, q))
    BY <1>1, <1>8, <2>1, <2>2, NextUnit
  <2>3. QED
    BY <1>2, <1>3, <2>2
<1>9. ASSUME ~ Fills(FileUnit, n)
      PROVE  /\ Told(HomeLabel(n)) <= Told(HomeLabel(m))
             /\ Told(SmartUnitString(n)) <= Told(SmartUnitString(m))
  <2>1. w = Million /\ 2 * n < w /\ P(n, w) = 0
    BY <1>5, <1>6, <1>9
  <2>2. Told(Label(n, FileUnit, u, 0)) = 0
    BY <1>1, <2>1, ToldNothing
  <2>3. ASSUME NEW q \in {0, 1}
        PROVE  Told(Label(m, FileUnit, v, q)) \in Nat
    <3>1. 0 \in Nat
      OBVIOUS
    <3>2. QED
      BY <1>1, <3>1, ToldAt
  <2>4. QED
    BY <1>2, <1>3, <2>1, <2>2, <2>3
<1>10. Told(SmartSize(n)) <= Told(SmartSize(m))
  <2> DEFINE s == Largest(CountUnit, n, "none")
             t == Largest(CountUnit, m, "none")
             y == CountUnit[s]
             z == CountUnit[t]
  <2>1. y \in Nat \ {0} /\ z \in Nat \ {0}
    BY UnitIn
  <2>2. SmartSize(n) = Label(n, CountUnit, s, 1) /\ SmartSize(m) = Label(m, CountUnit, t, 1)
    BY DEF SmartSize
  <2>3. ASSUME Fills(CountUnit, n)
        PROVE  /\ m >= z
               /\ z = y \/ (n < Thousand * y /\ Thousand * y <= z)
    BY <2>3, CountScale, UnitsGrow
  <2>4. ~ Fills(CountUnit, n) => n = 0
    BY UnitIn
  <2> HIDE DEF s, t
  <2>5. CASE Fills(CountUnit, n) /\ z = y
    <3>1. Told(Label(n, CountUnit, s, 1)) <= Told(Label(m, CountUnit, s, 1))
      BY <2>1, ToldGrows
    <3>2. Label(m, CountUnit, s, 1) = Label(m, CountUnit, t, 1)
      BY <2>5, SameUnit
    <3>3. QED
      BY <2>2, <3>1, <3>2
  <2>6. CASE n < Thousand * y /\ Thousand * y <= z /\ m >= z
    <3>1. z <= m
      BY <2>1, <2>6
    <3>2. QED
      BY <2>1, <2>2, <2>6, <3>1, NextUnit
  <2>7. CASE n = 0
    <3>1. Told(Label(n, CountUnit, s, 1)) = 0
      BY <2>1, <2>7, ToldNothing
    <3>2. Told(Label(m, CountUnit, t, 1)) \in Nat
      <4>1. 0 \in Nat
        OBVIOUS
      <4>2. QED
        BY <2>1, <4>1, ToldAt
    <3>3. QED
      BY <2>2, <3>1, <3>2
  <2>8. QED
    BY <2>3, <2>4, <2>5, <2>6, <2>7
<1>11. QED
  BY <1>4, <1>7, <1>8, <1>9, <1>10

(* LabelsTellSizes: at whatever size the stats come with, the home page's, *)
(* the tables' and the axes' labels are off by no more than the digits     *)
(* they leave out, and none shows less for a size that has grown.          *)
THEOREM LabelsFollowSizes == PagesSpec => LabelsTellSizes
<1>1. PagesInit => size \in Nat
  BY DEF PagesInit
<1>2. size \in Nat /\ [PagesNext]_pagesVars => (size \in Nat)'
  BY UnitsAssumption
  DEF PagesNext, pagesVars, Open, SetSize
<1>3. size \in Nat /\ (size \in Nat)' => [TellsSize]_size
  <2> SUFFICES ASSUME size \in Nat, size' \in Nat, size < size'
               PROVE  TellsSize
    BY DEF TellsSize
  <2> DEFINE n == size
             m == size'
  <2>1. n \in Nat /\ m \in Nat /\ n <= m
    OBVIOUS
  <2>2. /\ Told(HomeLabel(n)) <= Told(HomeLabel(m))
        /\ Told(SmartUnitString(n)) <= Told(SmartUnitString(m))
        /\ Told(SmartSize(n)) <= Told(SmartSize(m))
    BY <2>1, LabelsGrow
  <2>3. /\ OffBy(HomeLabel(m), m) <= 5 * HomeLabel(m).unit
        /\ OffBy(SmartUnitString(m), m)
             <= IF m < Thousand * SmartUnitString(m).unit THEN SmartUnitString(m).unit
                ELSE 5 * SmartUnitString(m).unit
        /\ 2 * OffBy(SmartSize(m), m) <= SmartSize(m).unit
    BY <2>1, LabelsOff
  <2>4. QED
    BY <2>2, <2>3 DEF TellsSize
<1>4. QED
  BY <1>1, <1>2, <1>3, PTL DEF PagesSpec, LabelsTellSizes
================================================================================
