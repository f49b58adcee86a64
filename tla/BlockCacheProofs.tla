--------------------------- MODULE BlockCacheProofs ----------------------------
(***************************************************************************)
(* Proofs about BlockCache, for every chain, any nodes and any number of   *)
(* requests: its types, that no entry is wrong however long it stays, and  *)
(* which miners a request lists.                                           *)
(*                                                                         *)
(* The argument: getMiners asks for no height above the top block, and the *)
(* table only grows above it, so that what a query has read of these       *)
(* heights stays as it is, in the cache and in every answer.               *)
(***************************************************************************)
EXTENDS BlockCache, TLAPS

(* The cached top block is a row, and the rows below a row are complete. *)
TableInv ==
  /\ topBlock \in rows \cup {0}
  /\ \A m \in rows : \A h \in Heights : 0 < h /\ h <= m /\ h \notin NullRounds => h \in rows

(* Everything asked and cached lies in the part of the table that is final. *)
ReachInv ==
  /\ \A h \in flight.asked : h <= topBlock
  /\ flight.todo \subseteq flight.asked
  /\ \A h \in Heights : cache[h] # "none" => h <= topBlock

(* What the running call knows is true, and what it does not know is to do. *)
CallInv ==
  /\ flight.res # "none" =>
       flight.at \in flight.asked /\ (flight.res = "block" <=> flight.at \in rows)
  /\ flight.result \ {Sigil} \subseteq flight.asked \cap rows
  /\ Sigil \in flight.result => \E h \in flight.asked : h \notin rows
  /\ \A h \in flight.asked \cap rows :
       \/ h \in flight.result \/ h \in flight.todo
       \/ flight.res # "none" /\ flight.at = h

(* Who waits for the running call has started or joined it. *)
WaitInv ==
  \A c \in Requests : Waiting(c) =>
    request[c].asks \subseteq flight.asked \/ request[c].joined

(* A request that has its answer knows of the heights that were looked for *)
(* whether they are rows, and they are still what it was told.             *)
AnswerIs(r) ==
  /\ \A h \in r.looked : h <= topBlock
  /\ r.blocks \ {Sigil} = r.looked \cap rows
  /\ Sigil \in r.blocks => \E h \in r.looked : h \notin rows
  /\ r.asks \subseteq r.looked \/ r.joined
AnswerInv == \A c \in Requests : request[c].phase = "lists" => AnswerIs(request[c])

CacheInv ==
  TypeOK /\ TableInv /\ ReachInv /\ CallInv /\ WaitInv /\ AnswerInv /\ CacheTellsTheTruth

--------------------------------------------------------------------------------
(* The table below its top does not change. *)
LEMMA GrowsAbove ==
  ASSUME CacheInv, Persist
  PROVE  /\ rows \subseteq rows' /\ rows' \subseteq 1..MaxHeight
         /\ \A h \in Heights : h <= topBlock => (h \in rows' <=> h \in rows)
         /\ \A m \in rows' : \A h \in Heights :
              0 < h /\ h <= m /\ h \notin NullRounds => h \in rows'
<1>1. PICK n \in 1..MaxHeight \ NullRounds :
        /\ \A m \in rows : m < n
        /\ rows' = rows \cup {h \in 1..n \ NullRounds : \A m \in rows : m < h}
  BY DEF Persist
<1>2. MaxHeight \in Nat /\ rows \subseteq 1..MaxHeight /\ topBlock \in Heights
  BY BlockCacheAssumption DEF CacheInv, TypeOK
<1>3. rows \subseteq rows' /\ rows' \subseteq 1..MaxHeight
  <2>1. n \in Nat /\ n <= MaxHeight  BY <1>2
  <2>2. 1..n \subseteq 1..MaxHeight  BY <1>2, <2>1
  <2>3. {h \in 1..n \ NullRounds : \A m \in rows : m < h} \subseteq 1..n  OBVIOUS
  <2>4. QED  BY <1>1, <1>2, <2>2, <2>3
<1>4. ASSUME NEW h \in Heights, h <= topBlock, h \in rows'
      PROVE  h \in rows
  <2>1. topBlock \in rows \cup {0}
    BY DEF CacheInv, TableInv
  <2>2. CASE topBlock = 0
    BY <1>2, <1>3, <1>4, <2>2 DEF Heights
  <2>3. CASE topBlock \in rows
    BY <1>1, <1>2, <1>4, <2>3 DEF Heights
  <2>4. QED  BY <2>1, <2>2, <2>3
<1>5. ASSUME NEW m \in rows', NEW h \in Heights, 0 < h, h <= m, h \notin NullRounds
      PROVE  h \in rows'
  <2>1. CASE m \in rows
    BY <1>3, <1>5, <2>1 DEF CacheInv, TableInv
  <2>2. CASE m \notin rows
    <3>1. m \in 1..n  BY <1>1, <2>2
    <3>2. CASE \A k \in rows : k < h
      BY <1>1, <1>2, <1>5, <3>1, <3>2 DEF Heights
    <3>3. CASE \E k \in rows : ~(k < h)
      <4>1. PICK k \in rows : ~(k < h)  BY <3>3
      <4>2. h <= k  BY <1>2, <4>1 DEF Heights
      <4>3. h \in rows  BY <1>5, <4>1, <4>2 DEF CacheInv, TableInv
      <4>4. QED  BY <1>3, <4>3
    <3>4. QED  BY <3>2, <3>3
  <2>3. QED  BY <2>1, <2>2
<1>6. QED  BY <1>3, <1>4, <1>5

(* No listed height is asked for above the top block. *)
LEMMA CappedHeights ==
  ASSUME topBlock \in Heights, height \in [Nodes -> Heights]
  PROVE  /\ BlockNums(topBlock) \subseteq Heights
         /\ \A h \in BlockNums(topBlock) : h <= topBlock
BY BlockCacheAssumption DEF BlockNums, Place, Heights

(* A call that starts knows what the cache tells it. *)
LEMMA StartsTrue ==
  ASSUME CacheInv, NEW H \in SUBSET Heights
  PROVE  /\ ByHeights(H) \in [asked : SUBSET Heights, todo : SUBSET Heights,
                              result : SUBSET Results, at : Heights, res : Entry]
         /\ ByHeights(H).asked = H /\ ByHeights(H).todo \subseteq H
         /\ ByHeights(H).res = "none"
         /\ ByHeights(H).result \ {Sigil} \subseteq H \cap rows
         /\ Sigil \in ByHeights(H).result => \E h \in H : h \notin rows
         /\ \A h \in H \cap rows : h \in ByHeights(H).result \/ h \in ByHeights(H).todo
<1> DEFINE res == {IF cache[h] = "block" THEN h ELSE Sigil : h \in {k \in H : cache[k] # "none"}}
           todo == {h \in H : cache[h] = "none"}
<1>1. ByHeights(H) = [asked |-> H, todo |-> todo, result |-> res, at |-> 0, res |-> "none"]
  <2>1. ByHeights(H) = [NoFlight EXCEPT !.asked = H, !.todo = todo, !.result = res]
    BY Zenon DEF ByHeights
  <2> HIDE DEF todo, res
  <2>2. QED  BY <2>1 DEF NoFlight
<1>2. \A h \in H : cache[h] \in Entry /\ (cache[h] # "none" => (cache[h] = "block" <=> h \in rows))
  BY DEF CacheInv, TypeOK, CacheTellsTheTruth
<1>3. Sigil \notin Heights /\ 0 \in Heights
  BY BlockCacheAssumption DEF Sigil, Heights
<1>4. res \ {Sigil} \subseteq H \cap rows  BY <1>2
<1>5. res \subseteq Results  BY <1>2 DEF Results
<1>6. ASSUME Sigil \in res PROVE \E h \in H : h \notin rows
  <2>1. PICK h \in H : cache[h] # "none" /\ Sigil = IF cache[h] = "block" THEN h ELSE Sigil
    BY <1>6
  <2>2. cache[h] # "block"
    BY <1>3, <2>1
  <2>3. QED  BY <1>2, <2>1, <2>2
<1>7. \A h \in H \cap rows : h \in res \/ h \in todo
  BY <1>2
<1> HIDE DEF res, todo
<1>8. todo \subseteq H  BY DEF todo
<1>9. QED
  BY <1>1, <1>3, <1>4, <1>5, <1>6, <1>7, <1>8 DEF Entry

(* The invariant holds when the process starts with an empty table. *)
THEOREM CacheInvInit == Init => CacheInv
BY BlockCacheAssumption
DEF Init, CacheInv, TypeOK, TableInv, ReachInv, CallInv, WaitInv, AnswerInv, Waiting,
    CacheTellsTheTruth, NoFlight, Idle, Heights, Results, Entry

(* The Chainsaw adds no row that an entry or an answer speaks of. *)
LEMMA PersistKeeps == CacheInv /\ Persist => CacheInv'
<1> SUFFICES ASSUME CacheInv, Persist PROVE CacheInv'
  OBVIOUS
<1> USE DEF CacheInv
<1>1. UNCHANGED <<topBlock, cache, armed, flight, height, request>>
  BY DEF Persist
<1>2. TypeOK'  BY <1>1, GrowsAbove DEF TypeOK
<1>3. TableInv'  BY <1>1, GrowsAbove DEF TableInv, Heights
<1>4. ReachInv'  BY <1>1 DEF ReachInv
<1>5. ASSUME NEW S \in SUBSET Heights, \A h \in S : h <= topBlock
      PROVE  \A h \in S : h \in rows' <=> h \in rows
  BY <1>5, GrowsAbove
<1>6. \A h \in flight.asked : h \in rows' <=> h \in rows
  BY <1>5 DEF ReachInv, TypeOK
<1>7. CallInv'  BY <1>1, <1>6 DEF CallInv
<1>8. WaitInv'  BY <1>1 DEF WaitInv, Waiting
<1>9. AnswerInv'
  <2> SUFFICES ASSUME NEW c \in Requests, request[c].phase = "lists"
               PROVE  AnswerIs(request[c])'
    BY <1>1 DEF AnswerInv
  <2>1. AnswerIs(request[c]) /\ request[c].looked \in SUBSET Heights
    BY DEF AnswerInv, TypeOK
  <2>2. \A h \in request[c].looked : h \in rows' <=> h \in rows
    BY <1>5, <2>1 DEF AnswerIs
  <2>3. QED  BY <1>1, <2>1, <2>2 DEF AnswerIs
<1>10. CacheTellsTheTruth'
  BY <1>1, GrowsAbove DEF ReachInv, CacheTellsTheTruth, Heights
<1>11. QED  BY <1>2, <1>3, <1>4, <1>7, <1>8, <1>9, <1>10

(* The top block only rises. *)
LEMMA RefreshKeeps == CacheInv /\ RefreshTop => CacheInv'
<1> SUFFICES ASSUME CacheInv, RefreshTop PROVE CacheInv'
  OBVIOUS
<1> USE DEF CacheInv
<1>1. PICK n \in rows : (\A m \in rows : m <= n) /\ topBlock' = n
  BY DEF RefreshTop
<1>2. UNCHANGED <<rows, cache, armed, flight, height, request>>
  BY DEF RefreshTop
<1>3. topBlock \in Nat /\ n \in Nat /\ topBlock <= n
  BY <1>1, BlockCacheAssumption DEF TypeOK, TableInv, Heights
<1>4. \A h \in Heights : h <= topBlock => h <= topBlock'
  BY <1>1, <1>3 DEF Heights
<1>5. TypeOK'  BY <1>1, <1>2, BlockCacheAssumption DEF TypeOK, Heights
<1>6. TableInv'  BY <1>1, <1>2 DEF TableInv
<1>7. ReachInv'
  <2>1. flight.asked \subseteq Heights  BY DEF TypeOK
  <2>2. QED  BY <1>2, <1>4, <2>1 DEF ReachInv
<1>8. CallInv' /\ CacheTellsTheTruth' /\ WaitInv'
  BY <1>2 DEF CallInv, CacheTellsTheTruth, WaitInv, Waiting
<1>9. AnswerInv'
  <2>1. \A c \in Requests : request[c].looked \subseteq Heights
    BY DEF TypeOK
  <2>2. QED  BY <1>2, <1>4, <2>1 DEF AnswerInv, AnswerIs
<1>10. QED  BY <1>5, <1>6, <1>7, <1>8, <1>9

(* A request starts a call with its own heights, or has joined one. *)
LEMMA GetKeeps ==
  ASSUME CacheInv, NEW c \in Requests, GetMiners(c)
  PROVE  CacheInv'
<1> USE DEF CacheInv
<1> DEFINE H == BlockNums(topBlock)
           r == [phase |-> "waits", top |-> topBlock, asks |-> H, joined |-> Running,
                 looked |-> {}, blocks |-> {}]
<1>1. H \in SUBSET Heights /\ \A h \in H : h <= topBlock
  BY CappedHeights DEF TypeOK
<1>2. /\ request' = [request EXCEPT ![c] = r]
      /\ flight' = IF Running THEN flight ELSE ByHeights(H)
      /\ UNCHANGED <<rows, topBlock, cache, armed, height>>
  BY Zenon DEF GetMiners
<1> HIDE DEF H
<1>3. r.phase = "waits" /\ r.asks = H /\ r.joined = Running
  OBVIOUS
<1>4. Running \in BOOLEAN  BY DEF Running
<1>5. /\ request'[c] = r
      /\ \A k \in Requests : k # c => request'[k] = request[k]
  BY <1>2 DEF TypeOK
<1>6. TypeOK'
  <2>1. flight' \in [asked : SUBSET Heights, todo : SUBSET Heights,
                     result : SUBSET Results, at : Heights, res : Entry]
    BY <1>1, <1>2, StartsTrue DEF TypeOK
  <2>2. r \in [phase : {"idle", "waits", "lists"}, top : Heights,
               asks : SUBSET Heights, joined : BOOLEAN,
               looked : SUBSET Heights, blocks : SUBSET Results]
    BY <1>1, <1>4 DEF TypeOK
  <2> HIDE DEF r
  <2>3. QED  BY <1>2, <2>1, <2>2 DEF TypeOK
<1> HIDE DEF r
<1>7. TableInv' /\ CacheTellsTheTruth'  BY <1>2 DEF TableInv, CacheTellsTheTruth
<1>8. ReachInv' /\ CallInv'
  <2>1. CASE Running
    BY <1>2, <2>1 DEF ReachInv, CallInv
  <2>2. CASE ~Running
    BY <1>1, <1>2, <2>2, StartsTrue DEF ReachInv, CallInv
  <2>3. QED  BY <2>1, <2>2
<1>9. WaitInv'
  <2> SUFFICES ASSUME NEW k \in Requests, request'[k].phase = "waits"
               PROVE  request'[k].asks \subseteq flight'.asked \/ request'[k].joined
    BY DEF WaitInv, Waiting
  <2>1. CASE k = c /\ Running
    BY <1>3, <1>5, <2>1
  <2>2. CASE k = c /\ ~Running
    BY <1>1, <1>2, <1>3, <1>5, <2>2, StartsTrue
  <2>3. CASE k # c /\ Running
    BY <1>2, <1>5, <2>3 DEF WaitInv, Waiting
  <2>4. CASE k # c /\ ~Running
    BY <1>5, <2>4 DEF WaitInv, Waiting, Running
  <2>5. QED  BY <2>1, <2>2, <2>3, <2>4
<1>10. AnswerInv'
  BY <1>2, <1>3, <1>5 DEF AnswerInv, AnswerIs
<1>11. QED  BY <1>6, <1>7, <1>8, <1>9, <1>10

(* What a query has read goes into the cache and into the result. *)
LEMMA LandsKeeps == CacheInv /\ QueryLands => CacheInv'
<1> SUFFICES ASSUME CacheInv, QueryLands PROVE CacheInv'
  OBVIOUS
<1> USE DEF CacheInv
<1> DEFINE h == flight.at
<1>1. /\ cache' = [cache EXCEPT ![h] = flight.res]
      /\ armed' = armed \cup {h}
      /\ flight' = [flight EXCEPT !.result = Pushed(h), !.at = 0, !.res = "none"]
      /\ UNCHANGED <<rows, topBlock, height, request>> /\ flight.res # "none"
  BY DEF QueryLands
<1>2. /\ h \in Heights /\ h \in flight.asked /\ flight.res \in Entry
      /\ (flight.res = "block" <=> h \in rows)
  BY <1>1 DEF TypeOK, CallInv
<1>3. Pushed(h) = IF h \in rows THEN flight.result \cup {h} ELSE flight.result
  BY <1>2 DEF Pushed
<1>4. /\ flight'.asked = flight.asked /\ flight'.result = Pushed(h)
      /\ flight'.todo = flight.todo /\ flight'.at = 0 /\ flight'.res = "none"
  BY <1>1 DEF TypeOK
<1>5. TypeOK'
  <2>1. Pushed(h) \subseteq Results  BY <1>2, <1>3 DEF TypeOK, Results
  <2>2. 0 \in Heights /\ "none" \in Entry
    BY BlockCacheAssumption DEF Heights, Entry
  <2>3. QED  BY <1>1, <1>2, <2>1, <2>2 DEF TypeOK
<1>6. TableInv'  BY <1>1 DEF TableInv
<1>7. \A k \in Heights : cache'[k] = IF k = h THEN flight.res ELSE cache[k]
  BY <1>1 DEF TypeOK
<1>8. ReachInv'  BY <1>1, <1>2, <1>4, <1>7 DEF ReachInv
<1>9. CallInv'
  <2>1. h # Sigil  BY <1>2, BlockCacheAssumption DEF Heights, Sigil
  <2>2. QED  BY <1>1, <1>2, <1>3, <1>4, <2>1 DEF CallInv
<1>10. WaitInv' /\ AnswerInv'
  BY <1>1, <1>4 DEF WaitInv, Waiting, AnswerInv, AnswerIs
<1>11. CacheTellsTheTruth'
  BY <1>1, <1>2, <1>7 DEF CacheTellsTheTruth
<1>12. QED  BY <1>5, <1>6, <1>8, <1>9, <1>10, <1>11

(* All who wait get what is true of the heights that were asked for. *)
LEMMA ReturnKeeps == CacheInv /\ Return => CacheInv'
<1> SUFFICES ASSUME CacheInv, Return PROVE CacheInv'
  OBVIOUS
<1> USE DEF CacheInv
<1>1. /\ request' = [c \in Requests |-> IF Waiting(c) THEN Answered(c) ELSE request[c]]
      /\ flight' = NoFlight /\ UNCHANGED <<rows, topBlock, cache, armed, height>>
      /\ flight.todo = {} /\ flight.res = "none"
  BY DEF Return
<1>2. ASSUME NEW c \in Requests
      PROVE  /\ Answered(c) \in [phase : {"idle", "waits", "lists"}, top : Heights,
                                 asks : SUBSET Heights, joined : BOOLEAN,
                                 looked : SUBSET Heights, blocks : SUBSET Results]
             /\ Answered(c).phase = "lists" /\ Answered(c).looked = flight.asked
             /\ Answered(c).blocks = flight.result
             /\ Answered(c).asks = request[c].asks /\ Answered(c).joined = request[c].joined
  BY DEF Answered, TypeOK
<1>3. TypeOK'
  <2>1. NoFlight \in [asked : SUBSET Heights, todo : SUBSET Heights,
                      result : SUBSET Results, at : Heights, res : Entry]
    BY BlockCacheAssumption DEF NoFlight, Heights, Entry
  <2>2. QED  BY <1>1, <1>2, <2>1 DEF TypeOK
<1>4. TableInv' /\ CacheTellsTheTruth'  BY <1>1 DEF TableInv, CacheTellsTheTruth
<1>5. ReachInv' /\ CallInv'  BY <1>1 DEF ReachInv, CallInv, NoFlight
<1>6. WaitInv'  BY <1>1, <1>2 DEF WaitInv, Waiting
<1>7. AnswerInv'
  <2> SUFFICES ASSUME NEW c \in Requests, request'[c].phase = "lists"
               PROVE  AnswerIs(request[c])'
    BY DEF AnswerInv
  <2>1. CASE Waiting(c)
    <3>1. request'[c] = Answered(c)  BY <1>1, <2>1
    <3>2. /\ \A h \in flight.asked : h <= topBlock
          /\ flight.result \ {Sigil} = flight.asked \cap rows
          /\ Sigil \in flight.result => \E h \in flight.asked : h \notin rows
      <4>1. Sigil \notin flight.asked
        BY BlockCacheAssumption DEF TypeOK, Sigil, Heights
      <4>2. QED  BY <1>1, <4>1 DEF ReachInv, CallInv
    <3>3. request[c].asks \subseteq flight.asked \/ request[c].joined
      BY <2>1 DEF WaitInv
    <3>4. UNCHANGED <<rows, topBlock>>  BY <1>1
    <3>5. QED  BY <1>2, <3>1, <3>2, <3>3, <3>4 DEF AnswerIs
  <2>2. CASE ~Waiting(c)
    <3>1. request'[c] = request[c]  BY <1>1, <2>2
    <3>2. QED  BY <1>1, <3>1 DEF AnswerInv, AnswerIs
  <2>3. QED  BY <2>1, <2>2
<1>8. QED  BY <1>3, <1>4, <1>5, <1>6, <1>7

(* A rejected call leaves nothing but what was cached. *)
LEMMA FailKeeps == CacheInv /\ QueryFails => CacheInv'
<1> SUFFICES ASSUME CacheInv, QueryFails PROVE CacheInv'
  OBVIOUS
<1> USE DEF CacheInv
<1>1. /\ request' = [c \in Requests |-> IF Waiting(c) THEN Idle ELSE request[c]]
      /\ flight' = NoFlight /\ UNCHANGED <<rows, topBlock, cache, armed, height>>
  BY DEF QueryFails
<1>2. TypeOK'
  <2>1. NoFlight \in [asked : SUBSET Heights, todo : SUBSET Heights,
                      result : SUBSET Results, at : Heights, res : Entry]
    BY BlockCacheAssumption DEF NoFlight, Heights, Entry
  <2>2. Idle \in [phase : {"idle", "waits", "lists"}, top : Heights,
                  asks : SUBSET Heights, joined : BOOLEAN,
                  looked : SUBSET Heights, blocks : SUBSET Results]
    BY BlockCacheAssumption DEF Idle, Heights
  <2>3. QED  BY <1>1, <2>1, <2>2 DEF TypeOK
<1>3. TableInv' /\ CacheTellsTheTruth'  BY <1>1 DEF TableInv, CacheTellsTheTruth
<1>4. ReachInv' /\ CallInv'  BY <1>1 DEF ReachInv, CallInv, NoFlight
<1>5. WaitInv' /\ AnswerInv'
  BY <1>1 DEF WaitInv, Waiting, AnswerInv, AnswerIs, Idle
<1>6. QED  BY <1>2, <1>3, <1>4, <1>5

(* Every step of the Chainsaw, of the requests, of a call, of the nodes    *)
(* and of the timers keeps it.                                             *)
THEOREM CacheInvStep == CacheInv /\ [Next]_vars => CacheInv'
<1> SUFFICES ASSUME CacheInv, [Next]_vars PROVE CacheInv'
  OBVIOUS
<1> USE DEF CacheInv
<1>1. CASE Persist  BY <1>1, PersistKeeps
<1>2. CASE RefreshTop  BY <1>2, RefreshKeeps
<1>3. CASE \E c \in Requests : GetMiners(c)  BY <1>3, GetKeeps
<1>4. CASE ByHeight
  <2>1. PICK h \in flight.todo :
          flight' = [flight EXCEPT !.todo = @ \ {h}, !.at = h,
                                   !.res = IF h \in rows THEN "block" ELSE "null"]
    BY <1>4 DEF ByHeight
  <2>2. UNCHANGED <<rows, topBlock, cache, armed, height, request>> /\ flight.res = "none"
    BY <1>4 DEF ByHeight
  <2>3. h \in Heights /\ h \in flight.asked  BY DEF TypeOK, ReachInv
  <2>4. /\ flight'.asked = flight.asked /\ flight'.result = flight.result
        /\ flight'.todo = flight.todo \ {h} /\ flight'.at = h
        /\ flight'.res = IF h \in rows THEN "block" ELSE "null"
    BY <2>1 DEF TypeOK
  <2>5. TypeOK'  BY <2>1, <2>2, <2>3 DEF TypeOK, Entry
  <2>6. TableInv' /\ CacheTellsTheTruth'
    BY <2>2 DEF TableInv, CacheTellsTheTruth
  <2>7. ReachInv'  BY <2>2, <2>4 DEF ReachInv
  <2>8. CallInv'  BY <2>2, <2>3, <2>4 DEF CallInv
  <2>9. WaitInv' /\ AnswerInv'
    BY <2>2, <2>4 DEF WaitInv, Waiting, AnswerInv, AnswerIs
  <2>10. QED  BY <2>5, <2>6, <2>7, <2>8, <2>9
<1>5. CASE QueryLands  BY <1>5, LandsKeeps
<1>6. CASE Return  BY <1>6, ReturnKeeps
<1>7. CASE QueryFails  BY <1>7, FailKeeps
<1>8. CASE \E n \in Nodes : Heartbeat(n)
  <2>1. UNCHANGED <<rows, topBlock, cache, armed, flight, request>>
        /\ height' \in [Nodes -> Heights]
    BY <1>8 DEF Heartbeat, TypeOK
  <2>2. QED
    BY <2>1 DEF TypeOK, TableInv, ReachInv, CallInv, WaitInv, Waiting, AnswerInv,
                AnswerIs, CacheTellsTheTruth
<1>9. CASE \E c \in Requests : ListMiners(c)
  <2>1. PICK c \in Requests : ListMiners(c)  BY <1>9
  <2>2. /\ request' = [request EXCEPT ![c] = Idle]
        /\ UNCHANGED <<rows, topBlock, cache, armed, flight, height>>
    BY <2>1 DEF ListMiners
  <2>3. TypeOK'
    <3>1. Idle \in [phase : {"idle", "waits", "lists"}, top : Heights,
                    asks : SUBSET Heights, joined : BOOLEAN,
                    looked : SUBSET Heights, blocks : SUBSET Results]
      BY BlockCacheAssumption DEF Idle, Heights
    <3>2. QED  BY <2>2, <3>1 DEF TypeOK
  <2>4. \A k \in Requests : request'[k] = IF k = c THEN Idle ELSE request[k]
    BY <2>2 DEF TypeOK
  <2>5. TableInv' /\ ReachInv' /\ CallInv' /\ CacheTellsTheTruth'
    BY <2>2 DEF TableInv, ReachInv, CallInv, CacheTellsTheTruth
  <2>6. WaitInv' /\ AnswerInv'
    BY <2>2, <2>4 DEF WaitInv, Waiting, AnswerInv, AnswerIs, Idle
  <2>7. QED  BY <2>3, <2>5, <2>6
<1>10. CASE \E h \in Heights : TimerFires(h)
  <2>1. PICK h \in Heights : TimerFires(h)  BY <1>10
  <2>2. /\ UNCHANGED <<rows, topBlock, flight, height, request>> /\ armed' \subseteq Heights
        /\ cache' = [cache EXCEPT ![h] = "none"] \/ cache' = cache
    BY <2>1 DEF TimerFires, TypeOK
  <2>3. cache' \in [Heights -> Entry]
        /\ \A k \in Heights : cache'[k] # "none" => cache'[k] = cache[k]
    BY <2>2 DEF TypeOK, Entry
  <2>4. TypeOK'  BY <2>2, <2>3 DEF TypeOK
  <2>5. TableInv' /\ CallInv' /\ WaitInv' /\ AnswerInv'
    BY <2>2 DEF TableInv, CallInv, WaitInv, Waiting, AnswerInv, AnswerIs
  <2>6. ReachInv' /\ CacheTellsTheTruth'
    BY <2>2, <2>3 DEF ReachInv, CacheTellsTheTruth
  <2>7. QED  BY <2>4, <2>5, <2>6
<1>11. CASE UNCHANGED vars
  BY <1>11 DEF vars, TypeOK, TableInv, ReachInv, CallInv, WaitInv, Waiting, AnswerInv,
              AnswerIs, CacheTellsTheTruth
<1>12. QED
  BY <1>1, <1>2, <1>3, <1>4, <1>5, <1>6, <1>7, <1>8, <1>9, <1>10, <1>11 DEF Next

--------------------------------------------------------------------------------
(* CacheInv always holds. *)
THEOREM Invariance == Spec => []CacheInv
BY CacheInvInit, CacheInvStep, PTL DEF Spec

(* The state of BlocksDAO, of the cache and of the requests keeps its types. *)
THEOREM TypeCorrect == Spec => []TypeOK
<1>1. CacheInv => TypeOK  BY DEF CacheInv
<1>2. QED  BY <1>1, Invariance, PTL

(* A cached block is a row and a cached null a null round, at any time     *)
(* after the query that setProactiveExpiry stored.                         *)
THEOREM NeverWrong == Spec => []CacheTellsTheTruth
<1>1. CacheInv => CacheTellsTheTruth  BY DEF CacheInv
<1>2. QED  BY <1>1, Invariance, PTL

(* A request lists the miners at the rows that the call it was answered by *)
(* has looked for, and no other: all of its own unless it joined that call *)
(* or heartbeats have moved them.                                          *)
THEOREM CallsAreComplete == Spec => AnswersAreComplete
<1> DEFINE Claim(c) ==
      /\ Listed(c) = {n \in Nodes : Place(n, request[c].top) \in request[c].looked \cap rows}
      /\ Sigil \in request[c].blocks => ~(request[c].looked \subseteq rows)
      /\ request[c].asks \subseteq request[c].looked \/ request[c].joined
<1>1. ASSUME CacheInv, NEW c \in Requests, ListMiners(c) PROVE Claim(c)
  <2>1. AnswerIs(request[c])
    BY <1>1 DEF CacheInv, AnswerInv, ListMiners
  <2>2. \A n \in Nodes : Place(n, request[c].top) \in Heights
    BY <1>1 DEF CacheInv, TypeOK, Place
  <2>3. Sigil \notin Heights
    BY BlockCacheAssumption DEF Sigil, Heights
  <2>4. QED  BY <2>1, <2>2, <2>3 DEF AnswerIs, Listed
<1>2. CacheInv /\ [Next]_vars
        => [\A c \in Requests : ListMiners(c) => Claim(c)]_vars
  BY <1>1
<1>3. QED  BY <1>2, Invariance, PTL DEF Spec, AnswersAreComplete
===============================================================================
