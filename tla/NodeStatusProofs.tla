---------------------------- MODULE NodeStatusProofs ----------------------------
(***************************************************************************)
(* Proofs about NodeStatus, for any peers, miners, limits and failures,    *)
(* and about the HeartbeatServer in front of it, for any packets.          *)
(***************************************************************************)
EXTENDS HeartbeatServer, FiniteSetTheorems, SequenceTheorems, TLAPS

(* The invariants, of the values the maps are about to take. *)
IsListed(D, p) == D[p] # Absent
Sound(D, A) ==
  \A m \in Miner : A[m] # Absent => IsListed(D, A[m]) /\ D[A[m]].miner = m
Announced(D) ==
  \A p \in Peer : IsListed(D, p) => D[p].miner \in Announces[p] \cup {NoMiner}
Found(D, A) ==
  \A p \in Peer : \A m \in Announces[p] :
    (IsListed(D, p) /\ D[p].miner = m /\ \A q \in Peer \ {p} : m \notin Announces[q])
      => A[m] = p
HasKey(L, p) == \E i \in 1..Len(L) : L[i][1] = p
Keyed(D, L) == \A p \in Peer : IsListed(D, p) => HasKey(L, p)

Maps(D, A, L) ==
  /\ D \in [Peer -> Nodes \cup {Absent}]
  /\ A \in [Miner -> Peer \cup {Absent}]
  /\ L \in Seq(Keys)
  /\ Sound(D, A) /\ Announced(D) /\ Found(D, A) /\ Keyed(D, L)

MapsInv == Maps(data, addressMap, lru) /\ Len(lru) <= MaxNodes

--------------------------------------------------------------------------------
(* The lru *)

(* unshift: the peer has a key, and so has everyone who had one. *)
LEMMA TouchKeeps ==
  ASSUME lru \in Seq(Keys), NEW p \in Peer, NEW t \in Nat
  PROVE  /\ Touch(p, t) \in Seq(Keys) /\ Len(Touch(p, t)) = Len(lru) + 1
         /\ HasKey(Touch(p, t), p)
         /\ \A q \in Peer : HasKey(lru, q) => HasKey(Touch(p, t), q)
<1>1. /\ Touch(p, t) \in Seq(Keys) /\ Len(Touch(p, t)) = Len(lru) + 1
      /\ Touch(p, t)[1] = <<p, t>>
      /\ \A i \in 1..Len(lru) : Touch(p, t)[i + 1] = lru[i]
  BY DEF Touch, Keys
<1>2. HasKey(Touch(p, t), p)
  BY <1>1 DEF HasKey
<1>3. ASSUME NEW q \in Peer, NEW i \in 1..Len(lru), lru[i][1] = q
      PROVE  HasKey(Touch(p, t), q)
  BY <1>1, <1>3 DEF HasKey
<1>4. QED
  BY <1>1, <1>2, <1>3 DEF HasKey

(* splice(i, 1): what was before i stays, what was after moves up. *)
LEMMA RemoveAtIs ==
  ASSUME NEW S, NEW L \in Seq(S), NEW i \in 1..Len(L)
  PROVE  /\ RemoveAt(L, i) \in Seq(S) /\ Len(RemoveAt(L, i)) = Len(L) - 1
         /\ \A j \in 1..i - 1 : RemoveAt(L, i)[j] = L[j]
         /\ \A j \in i + 1..Len(L) : RemoveAt(L, i)[j - 1] = L[j]
<1> DEFINE R == RemoveAt(L, i)
           A == SubSeq(L, 1, i - 1)
           B == SubSeq(L, i + 1, Len(L))
<1>1. /\ A \in Seq(S) /\ Len(A) = i - 1
      /\ \A j \in 1..i - 1 : A[j] = L[j]
  BY SubSeqProperties
<1>2. /\ B \in Seq(S) /\ Len(B) = Len(L) - i
      /\ \A j \in 1..Len(L) - i : B[j] = L[i + j]
  BY SubSeqProperties
<1> HIDE DEF A, B
<1>3. /\ A \o B \in Seq(S) /\ Len(A \o B) = Len(A) + Len(B)
      /\ \A j \in 1..Len(A) : (A \o B)[j] = A[j]
      /\ \A j \in 1..Len(B) : (A \o B)[Len(A) + j] = B[j]
  <2>1. /\ A \o B \in Seq(S)
        /\ Len(A \o B) = Len(A) + Len(B)
        /\ \A j \in 1..Len(A) + Len(B) :
             (A \o B)[j] = IF j <= Len(A) THEN A[j] ELSE B[j - Len(A)]
    BY <1>1, <1>2, ConcatProperties
  <2>2. ASSUME NEW j \in 1..Len(A)
        PROVE  (A \o B)[j] = A[j]
    <3>1. j \in 1..Len(A) + Len(B) /\ j <= Len(A)
      BY <1>1, <1>2
    <3>2. QED
      BY <2>1, <3>1
  <2>3. ASSUME NEW j \in 1..Len(B)
        PROVE  (A \o B)[Len(A) + j] = B[j]
    <3>1. /\ Len(A) + j \in 1..Len(A) + Len(B)
          /\ ~(Len(A) + j <= Len(A))
          /\ (Len(A) + j) - Len(A) = j
      BY <1>1, <1>2
    <3>2. QED
      BY <2>1, <3>1
  <2>4. QED
    BY <2>1, <2>2, <2>3
<1>4. R = A \o B
  BY DEF RemoveAt, A, B
<1>5. R \in Seq(S) /\ Len(R) = Len(L) - 1
  <2>1. Len(L) \in Nat /\ i \in Int /\ Len(A) = i - 1 /\ Len(B) = Len(L) - i
    BY <1>1, <1>2, LenProperties
  <2>2. Len(A \o B) = Len(L) - 1
    BY <1>3, <2>1
  <2>3. QED
    BY <1>3, <1>4, <2>2
<1>6. \A j \in 1..i - 1 : R[j] = L[j]
  BY <1>1, <1>3, <1>4
<1>7. ASSUME NEW j \in i + 1..Len(L)
      PROVE  R[j - 1] = L[j]
  <2>1. j - i \in 1..Len(B) /\ Len(A) + (j - i) = j - 1 /\ i + (j - i) = j
    BY <1>1, <1>2
  <2>2. QED
    BY <1>2, <1>3, <1>4, <2>1
<1>8. QED
  BY <1>5, <1>6, <1>7

(* unshift and splice: the same, as the spliced key is the peer's own and  *)
(* not the new one at index 0.                                             *)
LEMMA RetouchKeeps ==
  ASSUME lru \in Seq(Keys), NEW p \in Peer, NEW t \in Nat, NEW oldT \in Nat
  PROVE  /\ Retouch(p, t, oldT) \in Seq(Keys) /\ Len(Retouch(p, t, oldT)) <= Len(lru) + 1
         /\ HasKey(Retouch(p, t, oldT), p)
         /\ \A q \in Peer : HasKey(lru, q) => HasKey(Retouch(p, t, oldT), q)
<1> DEFINE L == Touch(p, t)
<1>1. /\ L \in Seq(Keys) /\ Len(L) = Len(lru) + 1 /\ L[1] = <<p, t>>
      /\ HasKey(L, p) /\ \A q \in Peer : HasKey(lru, q) => HasKey(L, q)
  BY TouchKeeps DEF Touch, Keys
<1> HIDE DEF L
<1>2. CASE OldKeyAt(p, t, oldT) = {}
  BY <1>1, <1>2 DEF Retouch, L
<1>3. CASE OldKeyAt(p, t, oldT) # {}
  <2>1. PICK i \in 2..Len(L) : Retouch(p, t, oldT) = RemoveAt(L, i) /\ L[i] = <<p, oldT>>
    BY <1>3 DEF Retouch, OldKeyAt, L
  <2> DEFINE R == RemoveAt(L, i)
  <2>2. /\ R \in Seq(Keys) /\ Len(R) = Len(L) - 1
        /\ \A j \in 1..i - 1 : R[j] = L[j]
        /\ \A j \in i + 1..Len(L) : R[j - 1] = L[j]
    BY <1>1, RemoveAtIs
  <2> HIDE DEF R
  <2>3. HasKey(R, p)
    BY <1>1, <2>1, <2>2 DEF HasKey
  <2>4. ASSUME NEW q \in Peer, q # p, HasKey(L, q)
        PROVE  HasKey(R, q)
    <3>1. PICK j \in 1..Len(L) : L[j][1] = q
      BY <2>4 DEF HasKey
    <3>2. j # i
      BY <2>1, <2>4, <3>1
    <3>3. CASE j < i
      BY <2>2, <3>1, <3>3 DEF HasKey
    <3>4. CASE j > i
      <4>1. j \in i + 1..Len(L) /\ j - 1 \in 1..Len(R)
        BY <1>1, <2>1, <2>2, <3>4
      <4>2. QED
        BY <2>2, <3>1, <4>1 DEF HasKey
    <3>5. QED
      BY <1>1, <2>1, <3>2, <3>3, <3>4
  <2>5. QED
    BY <1>1, <2>1, <2>2, <2>3, <2>4 DEF R
<1>4. QED
  BY <1>2, <1>3

(* pop. *)
LEMMA FrontIs ==
  ASSUME NEW S, NEW L \in Seq(S), Len(L) > 0
  PROVE  /\ Front(L) \in Seq(S) /\ Len(Front(L)) = Len(L) - 1
         /\ \A i \in 1..Len(L) - 1 : Front(L)[i] = L[i]
<1> DEFINE n == Len(L) - 1
           F == SubSeq(L, 1, n)
<1>1. n \in Nat /\ \A i \in 1..n : L[i] \in S
  OBVIOUS
<1> HIDE DEF n
<1>2. /\ F \in Seq(S)
      /\ Len(F) = IF 1 <= n THEN n - 1 + 1 ELSE 0
      /\ \A i \in 1..n - 1 + 1 : F[i] = L[1 + i - 1]
  BY <1>1, SubSeqProperties
<1> HIDE DEF F
<1>3. Len(F) = n
  BY <1>1, <1>2
<1>4. ASSUME NEW i \in 1..n
      PROVE  F[i] = L[i]
  <2>1. i \in 1..n - 1 + 1 /\ 1 + i - 1 = i
    BY <1>1
  <2>2. QED
    BY <1>2, <2>1
<1>5. QED
  BY <1>2, <1>3, <1>4 DEF Front, F, n

(* Eviction: only the victim can lose its last key. *)
LEMMA FrontKeeps ==
  ASSUME NEW L \in Seq(Keys), Len(L) > 0
  PROVE  /\ Front(L) \in Seq(Keys) /\ Len(Front(L)) = Len(L) - 1
         /\ Last(L)[1] \in Peer
         /\ \A q \in Peer : q # Last(L)[1] /\ HasKey(L, q) => HasKey(Front(L), q)
<1>1. /\ Front(L) \in Seq(Keys) /\ Len(Front(L)) = Len(L) - 1
      /\ \A i \in 1..Len(L) - 1 : Front(L)[i] = L[i]
  BY FrontIs
<1>2. Last(L) \in Keys
  BY DEF Last
<1>3. ASSUME NEW q \in Peer, q # Last(L)[1], NEW i \in 1..Len(L), L[i][1] = q
      PROVE  HasKey(Front(L), q)
  <2>1. i # Len(L)
    BY <1>3 DEF Last
  <2>2. i \in 1..Len(Front(L)) /\ Front(L)[i] = L[i]
    BY <1>1, <2>1
  <2>3. QED
    BY <1>3, <2>2 DEF HasKey
<1>4. QED
  BY <1>1, <1>2, <1>3 DEF HasKey, Keys

--------------------------------------------------------------------------------
(* The maps *)

(* A node that stays in the list under its miner: lastSeen and refreshed   *)
(* do not matter to the maps.                                              *)
LEMMA RefreshedNode ==
  ASSUME Maps(data, addressMap, lru), NEW p \in Peer, IsListed(data, p),
         NEW n \in Nodes, n.miner = data[p].miner,
         NEW L \in Seq(Keys), \A q \in Peer : HasKey(lru, q) => HasKey(L, q)
  PROVE  Maps([data EXCEPT ![p] = n], addressMap, L)
<1> DEFINE D == [data EXCEPT ![p] = n]
<1>1. n # Absent
  BY AbsentAssumption
<1>2. /\ D \in [Peer -> Nodes \cup {Absent}]
      /\ \A q \in Peer : IsListed(D, q) <=> IsListed(data, q)
      /\ \A q \in Peer : IsListed(data, q) => D[q].miner = data[q].miner
  BY <1>1 DEF Maps, IsListed
<1> HIDE DEF D
<1>3. Sound(D, addressMap)
  BY <1>2 DEF Maps, Sound
<1>4. Announced(D)
  BY <1>2 DEF Maps, Announced
<1>5. Found(D, addressMap)
  BY <1>2 DEF Maps, Found
<1>6. Keyed(D, L)
  BY <1>2 DEF Maps, Keyed
<1>7. QED
  BY <1>2, <1>3, <1>4, <1>5, <1>6 DEF Maps, D

(* A node that enters the list: nobody who is listed may lose the address  *)
(* that only he announces.                                                 *)
LEMMA AddedNode ==
  ASSUME Maps(data, addressMap, lru), NEW p \in Peer, ~IsListed(data, p),
         NEW n \in Nodes, n.miner \in Announces[p] \cup {NoMiner},
         NEW L \in Seq(Keys), HasKey(L, p),
         \A q \in Peer : HasKey(lru, q) => HasKey(L, q)
  PROVE  Maps([data EXCEPT ![p] = n],
              [m \in Miner |-> IF m = n.miner THEN p ELSE addressMap[m]], L)
<1> DEFINE D == [data EXCEPT ![p] = n]
           A == [m \in Miner |-> IF m = n.miner THEN p ELSE addressMap[m]]
<1>1. n # Absent
  BY AbsentAssumption
<1>2. /\ D \in [Peer -> Nodes \cup {Absent}]
      /\ IsListed(D, p) /\ D[p] = n
      /\ \A q \in Peer : q # p => D[q] = data[q]
  BY <1>1 DEF Maps, IsListed
<1>3. /\ A \in [Miner -> Peer \cup {Absent}]
      /\ \A m \in Miner : A[m] = IF m = n.miner THEN p ELSE addressMap[m]
  BY DEF Maps
<1> HIDE DEF D, A
<1>4. Sound(D, A)
  BY <1>2, <1>3 DEF Maps, Sound, IsListed
<1>5. Announced(D)
  BY <1>2 DEF Maps, Announced, IsListed
<1>6. Found(D, A)
  <2>1. SUFFICES ASSUME NEW q \in Peer, NEW m \in Announces[q], IsListed(D, q),
                        D[q].miner = m, \A r \in Peer \ {q} : m \notin Announces[r]
                 PROVE  A[m] = q
    BY DEF Found
  <2>2. m \in Miner /\ m # NoMiner
    BY NodeStatusAssumption
  <2>3. CASE q = p
    BY <1>2, <1>3, <2>1, <2>2, <2>3
  <2>4. CASE q # p
    <3>1. m # n.miner
      BY <2>1, <2>2, <2>4
    <3>2. addressMap[m] = q
      BY <1>2, <2>1, <2>4 DEF Maps, Found, IsListed
    <3>3. QED
      BY <1>3, <2>2, <3>1, <3>2
  <2>5. QED
    BY <2>3, <2>4
<1>7. Keyed(D, L)
  BY <1>2 DEF Maps, Keyed, IsListed
<1>8. QED
  BY <1>2, <1>3, <1>4, <1>5, <1>6, <1>7 DEF Maps, D, A

(* A node that leaves the list takes its own address with it, and nobody   *)
(* else's.                                                                 *)
LEMMA RemovedNode ==
  ASSUME NEW D, NEW A, NEW L, NEW K \in Seq(Keys), Maps(D, A, L),
         NEW v \in Peer, IsListed(D, v),
         \A q \in Peer : q # v /\ HasKey(L, q) => HasKey(K, q)
  PROVE  Maps([D EXCEPT ![v] = Absent],
              [m \in Miner |-> IF m = D[v].miner THEN Absent ELSE A[m]], K)
<1> DEFINE E == [D EXCEPT ![v] = Absent]
           B == [m \in Miner |-> IF m = D[v].miner THEN Absent ELSE A[m]]
<1>1. /\ E \in [Peer -> Nodes \cup {Absent}]
      /\ ~IsListed(E, v)
      /\ \A q \in Peer : q # v => E[q] = D[q]
  BY DEF Maps, IsListed
<1>2. /\ B \in [Miner -> Peer \cup {Absent}]
      /\ \A m \in Miner : B[m] = IF m = D[v].miner THEN Absent ELSE A[m]
  BY DEF Maps
<1> HIDE DEF E, B
<1>3. Sound(E, B)
  <2>1. SUFFICES ASSUME NEW m \in Miner, B[m] # Absent
                 PROVE  IsListed(E, B[m]) /\ E[B[m]].miner = m
    BY DEF Sound
  <2>2. B[m] = A[m] /\ m # D[v].miner /\ A[m] \in Peer
    BY <1>2, <2>1 DEF Maps
  <2>3. IsListed(D, A[m]) /\ D[A[m]].miner = m
    BY <2>1, <2>2 DEF Maps, Sound
  <2>4. A[m] # v
    BY <2>2, <2>3
  <2>5. QED
    BY <1>1, <2>2, <2>3, <2>4 DEF IsListed
<1>4. Announced(E)
  BY <1>1 DEF Maps, Announced, IsListed
<1>5. Found(E, B)
  <2>1. SUFFICES ASSUME NEW q \in Peer, NEW m \in Announces[q], IsListed(E, q),
                        E[q].miner = m, \A r \in Peer \ {q} : m \notin Announces[r]
                 PROVE  B[m] = q
    BY DEF Found
  <2>2. m \in Miner /\ m # NoMiner /\ q # v
    BY <1>1, <2>1, NodeStatusAssumption
  <2>3. A[m] = q
    BY <1>1, <2>1, <2>2 DEF Maps, Found, IsListed
  <2>4. m # D[v].miner
    BY <2>1, <2>2 DEF Maps, Announced
  <2>5. QED
    BY <1>2, <2>2, <2>3, <2>4
<1>6. Keyed(E, K)
  BY <1>1 DEF Maps, Keyed, IsListed
<1>7. QED
  BY <1>1, <1>2, <1>3, <1>4, <1>5, <1>6 DEF Maps, E, B

(* The tail of the handler, whether or not it has to evict.                *)
LEMMA FinishStep ==
  ASSUME NEW D, NEW A, NEW L, NEW C \in Int, Maps(D, A, L), Len(L) <= MaxNodes + 1,
         failures \in Nat, Finish(D, A, L, C)
  PROVE  /\ MapsInv'
         /\ nodeCount' \in Int /\ failures' \in Nat /\ call' = NoCall
<1>1. call' = NoCall /\ MaxNodes \in Nat \ {0} /\ L \in Seq(Keys)
  BY NodeStatusAssumption DEF Finish, Maps
<1>2. CASE NoOverflow(D, A, L, C)
  BY <1>1, <1>2 DEF NoOverflow, MapsInv
<1>3. CASE Evict(D, A, L, C)
  <2> DEFINE v == Last(L)[1]
  <2>1. /\ lru' = Front(L) /\ Front(L) \in Seq(Keys) /\ Len(Front(L)) <= MaxNodes
        /\ v \in Peer
        /\ \A q \in Peer : q # v /\ HasKey(L, q) => HasKey(Front(L), q)
    BY <1>1, <1>3, FrontKeeps DEF Evict
  <2>2. CASE D[v] = Absent
    <3>1. data' = D /\ addressMap' = A /\ nodeCount' = C /\ failures' = failures + 1
      BY <1>3, <2>2 DEF Evict
    <3>2. Keyed(D, Front(L))
      BY <2>1, <2>2 DEF Maps, Keyed, IsListed
    <3>3. Maps(D, A, Front(L))
      BY <2>1, <3>2 DEF Maps
    <3>4. QED
      BY <1>1, <2>1, <3>1, <3>3 DEF MapsInv
  <2>3. CASE D[v] # Absent
    <3>1. /\ data' = [D EXCEPT ![v] = Absent]
          /\ addressMap' = [m \in Miner |-> IF m = D[v].miner THEN Absent ELSE A[m]]
          /\ nodeCount' = C - 1 /\ failures' = failures
      BY <1>3, <2>3 DEF Evict
    <3>2. IsListed(D, v)
      BY <2>3 DEF IsListed
    <3> HIDE DEF v
    <3>3. Maps(data', addressMap', Front(L))
      BY <2>1, <3>1, <3>2, RemovedNode
    <3>4. QED
      BY <1>1, <2>1, <3>1, <3>3 DEF MapsInv
  <2>4. QED
    BY <2>2, <2>3
<1>4. QED
  BY <1>2, <1>3 DEF Finish

--------------------------------------------------------------------------------
(* The handler *)

(* What is not a map: the call that waits, if any, knows whether its peer  *)
(* is listed.                                                              *)
CallOK ==
  /\ now \in Nat /\ nodeCount \in Int /\ failures \in Nat
  /\ call \in Calls
  /\ call.st # "none" => call.peer \in Peer
  /\ CallInv

JInv == CallOK /\ MapsInv

LEMMA NoCallOK ==
  ASSUME now' \in Nat, nodeCount' \in Int, failures' \in Nat, call' = NoCall
  PROVE  CallOK'
BY DEF CallOK, Calls, NoCall, CallInv

(* A heartbeat that needs no answer from the node. *)
LEMMA HeartbeatKnownStep ==
  ASSUME JInv, NEW p \in Peer, NEW m \in Announces[p] \cup {NoMiner}, HeartbeatKnown(p, m)
  PROVE  JInv'
<1> DEFINE r == IF NeedsRefresh(p) THEN now ELSE data[p].refreshed
           n == SeenAt(data[p], now, r)
           L == Retouch(p, now, data[p].lastSeen)
<1>1. IsListed(data, p) /\ data[p] \in Nodes /\ now \in Nat /\ nodeCount \in Int
      /\ failures \in Nat /\ Len(lru) <= MaxNodes /\ Maps(data, addressMap, lru)
      /\ lru \in Seq(Keys)
  BY DEF JInv, CallOK, MapsInv, Maps, HeartbeatKnown, Known, IsListed
<1>2. Finish([data EXCEPT ![p] = n], addressMap, L, nodeCount) /\ now' = now
  BY DEF HeartbeatKnown
<1>3. n \in Nodes /\ n.miner = data[p].miner
  BY <1>1 DEF SeenAt, Nodes, NeedsRefresh
<1>4. data[p].lastSeen \in Nat
  BY <1>1 DEF Nodes
<1>5. /\ L \in Seq(Keys) /\ Len(L) <= Len(lru) + 1
      /\ \A q \in Peer : HasKey(lru, q) => HasKey(L, q)
  BY <1>1, <1>4, RetouchKeeps
<1> HIDE DEF r, n, L
<1>6. Maps([data EXCEPT ![p] = n], addressMap, L)
  BY <1>1, <1>3, <1>5, RefreshedNode
<1>7. Len(L) <= MaxNodes + 1
  BY <1>1, <1>5, NodeStatusAssumption
<1>8. MapsInv' /\ nodeCount' \in Int /\ failures' \in Nat /\ call' = NoCall
  BY <1>1, <1>2, <1>6, <1>7, FinishStep
<1>9. QED
  BY <1>1, <1>2, <1>8, NoCallOK DEF JInv

(* A heartbeat that waits: lastSeen is written before the wait. *)
LEMMA HeartbeatStaleStep ==
  ASSUME JInv, NEW p \in Peer, NEW m \in Announces[p] \cup {NoMiner}, HeartbeatStale(p, m)
  PROVE  JInv'
<1> DEFINE n == [data[p] EXCEPT !.lastSeen = now]
<1>1. IsListed(data, p) /\ data[p] \in Nodes /\ now \in Nat /\ nodeCount \in Int
      /\ failures \in Nat /\ Len(lru) <= MaxNodes /\ Maps(data, addressMap, lru)
      /\ lru \in Seq(Keys) /\ data \in [Peer -> Nodes \cup {Absent}]
  BY DEF JInv, CallOK, MapsInv, Maps, HeartbeatStale, Known, IsListed
<1>2. n \in Nodes /\ n.miner = data[p].miner /\ data[p].lastSeen \in Nat
  BY <1>1 DEF Nodes
<1>3. /\ data' = [data EXCEPT ![p] = n]
      /\ addressMap' = addressMap /\ lru' = lru /\ now' = now
      /\ nodeCount' = nodeCount /\ failures' = failures
      /\ call' = [st |-> "old", peer |-> p, miner |-> m, now |-> now,
                  oldLastSeen |-> data[p].lastSeen]
  BY <1>1 DEF HeartbeatStale
<1> HIDE DEF n
<1>4. Maps([data EXCEPT ![p] = n], addressMap, lru)
  BY <1>1, <1>2, RefreshedNode
<1>5. MapsInv'
  BY <1>1, <1>3, <1>4 DEF MapsInv
<1>6. p \in Known'
  BY <1>1, <1>2, <1>3, AbsentAssumption DEF Known
<1>7. m \in Miner \cup {NoMiner}
  BY NodeStatusAssumption
<1>8. call' \in Calls
  BY <1>1, <1>2, <1>3, <1>7 DEF Calls
<1>9. CallOK'
  BY <1>1, <1>3, <1>6, <1>8 DEF CallOK, CallInv
<1>10. QED
  BY <1>5, <1>9 DEF JInv

LEMMA HeartbeatNewStep ==
  ASSUME JInv, NEW p \in Peer, NEW m \in Announces[p] \cup {NoMiner}, HeartbeatNew(p, m)
  PROVE  JInv'
<1>1. MapsInv'
  BY DEF JInv, MapsInv, HeartbeatNew
<1>2. m \in Miner \cup {NoMiner} /\ now \in Nat
  BY NodeStatusAssumption DEF JInv, CallOK
<1>3. call' \in Calls
  BY <1>2 DEF HeartbeatNew, Calls
<1>4. p \notin Known'
  BY DEF HeartbeatNew, Known
<1>5. CallOK'
  BY <1>3, <1>4 DEF JInv, CallOK, CallInv, HeartbeatNew
<1>6. QED
  BY <1>1, <1>5 DEF JInv

(* The node's answer: its peer is still listed. *)
LEMMA RefreshLandsStep ==
  ASSUME JInv, RefreshLands
  PROVE  JInv'
<1> DEFINE p == call.peer
           n == SeenAt(data[p], data[p].lastSeen, call.now)
           L == Retouch(p, call.now, call.oldLastSeen)
<1>1. /\ p \in Peer /\ IsListed(data, p) /\ data[p] \in Nodes /\ now \in Nat
      /\ nodeCount \in Int /\ failures \in Nat /\ Len(lru) <= MaxNodes
      /\ Maps(data, addressMap, lru) /\ lru \in Seq(Keys)
      /\ call.now \in Nat /\ call.oldLastSeen \in Nat
  BY DEF JInv, CallOK, CallInv, Calls, MapsInv, Maps, RefreshLands, Known, IsListed
<1>2. Finish([data EXCEPT ![p] = n], addressMap, L, nodeCount) /\ now' = now
  BY DEF RefreshLands
<1>3. n \in Nodes /\ n.miner = data[p].miner
  BY <1>1 DEF SeenAt, Nodes
<1> HIDE DEF p
<1>4. /\ L \in Seq(Keys) /\ Len(L) <= Len(lru) + 1
      /\ \A q \in Peer : HasKey(lru, q) => HasKey(L, q)
  BY <1>1, RetouchKeeps
<1> HIDE DEF n, L
<1>5. Maps([data EXCEPT ![p] = n], addressMap, L)
  BY <1>1, <1>3, <1>4, RefreshedNode
<1>6. Len(L) <= MaxNodes + 1
  BY <1>1, <1>4, NodeStatusAssumption
<1>7. MapsInv' /\ nodeCount' \in Int /\ failures' \in Nat /\ call' = NoCall
  BY <1>1, <1>2, <1>5, <1>6, FinishStep
<1>8. QED
  BY <1>1, <1>2, <1>7, NoCallOK DEF JInv

(* The answers for a new peer: it is still not listed. *)
LEMMA NewNodeLandsStep ==
  ASSUME JInv, NewNodeLands
  PROVE  JInv'
<1> DEFINE p == call.peer
           n == [lastSeen |-> call.now, refreshed |-> call.now, miner |-> call.miner]
           A == [m \in Miner |-> IF m = n.miner THEN p ELSE addressMap[m]]
           L == Touch(p, call.now)
<1>1. /\ p \in Peer /\ ~IsListed(data, p) /\ now \in Nat
      /\ nodeCount \in Int /\ failures \in Nat /\ Len(lru) <= MaxNodes
      /\ Maps(data, addressMap, lru) /\ lru \in Seq(Keys)
      /\ call.now \in Nat /\ call.miner \in Announces[p] \cup {NoMiner}
      /\ call.miner \in Miner \cup {NoMiner}
  BY DEF JInv, CallOK, CallInv, Calls, MapsInv, Maps, NewNodeLands, Known, IsListed
<1>2. Finish([data EXCEPT ![p] = n], A, L, nodeCount) /\ now' = now
  BY DEF NewNodeLands
<1>3. n \in Nodes /\ n.miner \in Announces[p] \cup {NoMiner}
  BY <1>1 DEF Nodes
<1> HIDE DEF p
<1>4. /\ L \in Seq(Keys) /\ Len(L) = Len(lru) + 1 /\ HasKey(L, p)
      /\ \A q \in Peer : HasKey(lru, q) => HasKey(L, q)
  BY <1>1, TouchKeeps
<1> HIDE DEF n, L
<1>5. Maps([data EXCEPT ![p] = n], A, L)
  BY <1>1, <1>3, <1>4, AddedNode
<1>6. Len(L) <= MaxNodes + 1
  BY <1>1, <1>4, NodeStatusAssumption
<1> HIDE DEF A
<1>7. MapsInv' /\ nodeCount' \in Int /\ failures' \in Nat /\ call' = NoCall
  BY <1>1, <1>2, <1>5, <1>6, FinishStep
<1>8. QED
  BY <1>1, <1>2, <1>7, NoCallOK DEF JInv

LEMMA InitJInv == Init => JInv
<1> SUFFICES ASSUME Init
             PROVE  JInv
  OBVIOUS
<1>1. CallOK
  BY DEF Init, CallOK, CallInv, Calls, NoCall
<1>2. lru \in Seq(Keys) /\ Len(lru) = 0
  BY DEF Init
<1>3. Maps(data, addressMap, lru)
  BY <1>2 DEF Init, Maps, Sound, Announced, Found, Keyed, IsListed
<1>4. QED
  BY <1>1, <1>2, <1>3, NodeStatusAssumption DEF JInv, MapsInv

LEMMA NextJInv == JInv /\ [Next]_vars => JInv'
<1> SUFFICES ASSUME JInv, [Next]_vars
             PROVE  JInv'
  OBVIOUS
<1>1. CASE Heartbeat
  BY <1>1, HeartbeatKnownStep, HeartbeatStaleStep, HeartbeatNewStep DEF Heartbeat
<1>2. CASE RefreshLands
  BY <1>2, RefreshLandsStep
<1>3. CASE NewNodeLands
  BY <1>3, NewNodeLandsStep
<1>4. CASE CallFails
  <2>1. MapsInv'
    BY <1>4 DEF JInv, MapsInv, CallFails
  <2>2. QED
    BY <1>4, <2>1, NoCallOK DEF JInv, CallOK, CallFails
<1>5. CASE Tick
  BY <1>5 DEF JInv, CallOK, CallInv, Known, MapsInv, Tick
<1>6. CASE UNCHANGED vars
  BY <1>6 DEF JInv, CallOK, CallInv, Known, MapsInv, vars
<1>7. QED
  BY <1>1, <1>2, <1>3, <1>4, <1>5, <1>6 DEF Next

(* Every node has a key of its own, so there are no more nodes than keys.  *)
LEMMA NodesBounded ==
  ASSUME JInv
  PROVE  Bounded
<1> DEFINE I == 1..Len(lru)
           T == {lru[i][1] : i \in I}
           f == [i \in I |-> lru[i][1]]
<1>1. lru \in Seq(Keys) /\ Len(lru) \in Nat /\ Len(lru) <= MaxNodes
  BY DEF JInv, MapsInv, Maps
<1>2. \A p \in Known : \E i \in I : lru[i][1] = p
  BY DEF JInv, MapsInv, Maps, Keyed, HasKey, IsListed, Known
<1>3. IsFiniteSet(I) /\ Cardinality(I) = Len(lru)
  BY <1>1, FS_Interval
<1>4. f \in Surjection(I, T)
  BY DEF Surjection
<1> HIDE DEF f
<1>5. IsFiniteSet(T) /\ Cardinality(T) <= Cardinality(I)
  BY <1>3, <1>4, FS_Surjection
<1>6. Known \in SUBSET T
  BY <1>2
<1> HIDE DEF T
<1>7. Cardinality(Known) <= Cardinality(T) /\ IsFiniteSet(Known)
  BY <1>5, <1>6, FS_Subset
<1>8. Cardinality(T) \in Nat /\ Cardinality(Known) \in Nat
  BY <1>5, <1>7, FS_CardinalityType
<1>9. Cardinality(Known) <= MaxNodes
  BY <1>1, <1>3, <1>5, <1>7, <1>8, NodeStatusAssumption
<1>10. QED
  BY <1>1, <1>2, <1>9 DEF Bounded

(* JInv says what IInv says. *)
LEMMA JInvIsIInv == JInv => IInv
<1> SUFFICES ASSUME JInv
             PROVE  IInv
  OBVIOUS
<1>1. TypeOK
  BY DEF JInv, CallOK, MapsInv, Maps, TypeOK
<1>2. CallInv /\ MinerInv
  BY DEF JInv, CallOK, MapsInv, Maps, Announced, IsListed, MinerInv, Known
<1>3. AddressMapSound
  BY DEF JInv, MapsInv, Maps, Sound, IsListed, AddressMapSound
<1>4. OwnAddressFound
  BY DEF JInv, MapsInv, Maps, Found, IsListed, OwnAddressFound, Known
<1>5. QED
  BY <1>1, <1>2, <1>3, <1>4, NodesBounded DEF IInv

--------------------------------------------------------------------------------
(* The results *)

(* consumeHeartbeat keeps its maps and its call consistent, in every       *)
(* interleaving of heartbeats, answers, failures and evictions.            *)
THEOREM Invariance == Spec => []IInv
<1>1. Spec => []JInv
  BY InitJInv, NextJInv, PTL DEF Spec
<1>2. QED
  BY <1>1, JInvIsIInv, PTL

(* The types of the state. *)
THEOREM TypeCorrect == Spec => []TypeOK
<1>1. IInv => TypeOK
  BY DEF IInv
<1>2. QED
  BY <1>1, Invariance, PTL

(* addressMap only names listed nodes that announced the address: no       *)
(* lookup by address fails or answers with another miner's node.           *)
THEOREM LookupSound == Spec => []AddressMapSound
<1>1. IInv => AddressMapSound
  BY DEF IInv
<1>2. QED
  BY <1>1, Invariance, PTL

(* A listed node whose address is its own is found by it. *)
THEOREM LookupComplete == Spec => []OwnAddressFound
<1>1. IInv => OwnAddressFound
  BY DEF IInv
<1>2. QED
  BY <1>1, Invariance, PTL

(* Never more than MAX_NODES nodes or keys, whatever fails. *)
THEOREM NeverTooMany == Spec => []Bounded
<1>1. IInv => Bounded
  BY DEF IInv
<1>2. QED
  BY <1>1, Invariance, PTL

--------------------------------------------------------------------------------
(* The order of the list *)

LEMMA ExactLater ==
  ASSUME NEW D, NEW L \in Seq(Keys), NEW t \in Nat, NEW u \in Nat, t <= u, Exact(D, L, t)
  PROVE  Exact(D, L, u)
<1>1. \A i \in 1..Len(L) : L[i][2] \in Nat
  BY DEF Keys
<1>2. QED
  BY <1>1 DEF Exact

(* A new node's key comes first, and its time is the latest. *)
LEMMA TouchExact ==
  ASSUME data \in [Peer -> Nodes \cup {Absent}], lru \in Seq(Keys), NEW t \in Nat,
         Exact(data, lru, t), NEW p \in Peer, data[p] = Absent,
         NEW n, n # Absent, n.lastSeen = t
  PROVE  Exact([data EXCEPT ![p] = n], Touch(p, t), t)
<1> DEFINE L == Touch(p, t)
           D == [data EXCEPT ![p] = n]
<1>1. /\ L \in Seq(Keys) /\ Len(L) = Len(lru) + 1 /\ L[1] = <<p, t>>
      /\ \A i \in 2..Len(L) : i - 1 \in 1..Len(lru) /\ L[i] = lru[i - 1]
  BY DEF Touch, Keys
<1>2. \A i \in 1..Len(lru) : lru[i][1] # p /\ lru[i][1] \in Peer
  BY DEF Exact, Keys
<1>3. D[p] = n /\ \A q \in Peer : q # p => D[q] = data[q]
  OBVIOUS
<1> HIDE DEF L, D
<1>4. ASSUME NEW i \in 1..Len(L)
      PROVE  D[L[i][1]] # Absent /\ L[i][2] = D[L[i][1]].lastSeen /\ L[i][2] <= t
  <2>1. CASE i = 1
    BY <1>1, <1>3, <2>1
  <2>2. CASE i # 1
    <3>1. i - 1 \in 1..Len(lru) /\ L[i] = lru[i - 1]
      BY <1>1, <2>2
    <3>2. QED
      BY <1>2, <1>3, <3>1 DEF Exact
  <2>3. QED
    BY <2>1, <2>2
<1>5. ASSUME NEW i \in 1..Len(L), NEW j \in 1..Len(L), i < j
      PROVE  L[i][1] # L[j][1] /\ L[i][2] >= L[j][2]
  <2>1. j - 1 \in 1..Len(lru) /\ L[j] = lru[j - 1]
    BY <1>1, <1>5
  <2>2. CASE i = 1
    <3>1. lru[j - 1][2] <= t /\ lru[j - 1][2] \in Nat
      BY <2>1 DEF Exact, Keys
    <3>2. lru[j - 1][1] # p
      BY <1>2, <2>1
    <3>3. L[i] = <<p, t>>
      BY <1>1, <2>2
    <3>4. L[i][1] = p /\ L[i][2] = t
      BY ONLY <3>3
    <3>5. L[j] = lru[j - 1]
      BY <2>1
    <3>6. QED
      BY ONLY <3>1, <3>2, <3>4, <3>5, t \in Nat
  <2>3. CASE i # 1
    <3>1. i - 1 \in 1..Len(lru) /\ L[i] = lru[i - 1] /\ i - 1 < j - 1
      BY <1>1, <1>5, <2>3
    <3>2. QED
      BY <2>1, <3>1 DEF Exact
  <2>4. QED
    BY <2>2, <2>3
<1>6. QED
  BY <1>4, <1>5 DEF Exact, L, D

(* A node seen before has one key, which is found and moves to the front.  *)
LEMMA RetouchExact ==
  ASSUME NEW D \in [Peer -> Nodes \cup {Absent}], lru \in Seq(Keys), NEW t \in Nat,
         Exact(D, lru, t), NEW p \in Peer, HasKey(lru, p),
         NEW n, n # Absent, n.lastSeen = t
  PROVE  /\ Exact([D EXCEPT ![p] = n], Retouch(p, t, D[p].lastSeen), t)
         /\ Len(Retouch(p, t, D[p].lastSeen)) = Len(lru)
<1> DEFINE L == Touch(p, t)
           oldT == D[p].lastSeen
           R == Retouch(p, t, oldT)
           E == [D EXCEPT ![p] = n]
<1>1. /\ L \in Seq(Keys) /\ Len(L) = Len(lru) + 1 /\ L[1] = <<p, t>>
      /\ \A i \in 2..Len(L) : i - 1 \in 1..Len(lru) /\ L[i] = lru[i - 1]
      /\ \A i \in 1..Len(lru) : i + 1 \in 2..Len(L) /\ L[i + 1] = lru[i]
  BY DEF Touch, Keys
<1>2. E[p] = n /\ \A q \in Peer : q # p => E[q] = D[q]
  OBVIOUS
<1>3. PICK h \in 1..Len(lru) : lru[h][1] = p
  BY DEF HasKey
<1>4. /\ lru[h] = <<p, oldT>>
      /\ \A i \in 1..Len(lru) : i # h => lru[i][1] # p
  <2>1. lru[h] \in Keys /\ lru[h][2] = oldT
    BY <1>3 DEF Exact
  <2>2. ASSUME NEW i \in 1..Len(lru), i # h
        PROVE  lru[i][1] # p
    <3>1. i < h \/ h < i
      BY <2>2
    <3>2. QED
      BY <1>3, <3>1 DEF Exact
  <2>3. QED
    BY <1>3, <2>1, <2>2 DEF Keys
<1> HIDE DEF oldT, E
<1>5. h + 1 \in OldKeyAt(p, t, oldT) /\ \A i \in OldKeyAt(p, t, oldT) : i = h + 1
  <2>1. \A i \in 2..Len(L) : L[i] = <<p, oldT>> <=> i = h + 1
    <3>1. ASSUME NEW i \in 2..Len(L), L[i] = <<p, oldT>>
          PROVE  i = h + 1
      <4>1. i - 1 \in 1..Len(lru) /\ lru[i - 1][1] = p
        BY <1>1, <3>1
      <4>2. QED
        BY <1>4, <4>1
    <3>2. h + 1 \in 2..Len(L) /\ L[h + 1] = <<p, oldT>>
      BY <1>1, <1>4
    <3>3. QED
      BY <3>1, <3>2
  <2>2. h + 1 \in 2..Len(L) /\ \A j \in h + 1 + 1..Len(L) : j \in 2..Len(L) /\ j # h + 1
    BY <1>1
  <2> HIDE DEF L
  <2>3. QED
    BY <2>1, <2>2 DEF OldKeyAt, L
<1>6. R = RemoveAt(L, h + 1)
  BY <1>5 DEF Retouch
<1> HIDE DEF L, R
<1>7. h + 1 \in 1..Len(L)
  BY <1>1
<1>8. /\ R \in Seq(Keys) /\ Len(R) = Len(L) - 1
      /\ \A j \in 1..(h + 1) - 1 : R[j] = L[j]
      /\ \A j \in (h + 1) + 1..Len(L) : R[j - 1] = L[j]
  BY <1>1, <1>6, <1>7, RemoveAtIs
<1>9. Len(R) = Len(lru) /\ R[1] = <<p, t>>
  BY <1>1, <1>8
(* From index 2 on, R is lru without its key h, in its order. *)
<1> DEFINE at(i) == IF i <= h THEN i - 1 ELSE i
<1>10. ASSUME NEW i \in 2..Len(R)
       PROVE  at(i) \in 1..Len(lru) /\ at(i) # h /\ R[i] = lru[at(i)]
  <2>1. CASE i <= h
    <3>1. R[i] = L[i]
      BY <1>8, <2>1
    <3>2. i \in 2..Len(L) /\ at(i) = i - 1
      BY <1>1, <1>9, <2>1
    <3>3. QED
      BY <1>1, <2>1, <3>1, <3>2
  <2>2. CASE ~ (i <= h)
    <3>1. i + 1 \in (h + 1) + 1..Len(L) /\ (i + 1) - 1 = i
      <4>1. Len(lru) \in Nat /\ Len(L) = Len(lru) + 1 /\ Len(R) = Len(lru)
        BY <1>1, <1>9
      <4>2. h \in Int /\ i \in 2..Len(lru)
        BY <4>1
      <4>3. QED
        BY <2>2, <4>1, <4>2
    <3>2. R[i] = L[i + 1]
      BY <1>8, <3>1
    <3>3. at(i) = i /\ i \in 1..Len(lru)
      BY <1>9, <2>2
    <3>4. QED
      BY <1>1, <2>2, <3>2, <3>3
  <2>3. QED
    BY <2>1, <2>2
<1>11. ASSUME NEW i \in 2..Len(R), NEW j \in 2..Len(R), i < j
       PROVE  at(i) < at(j)
  BY <1>10, <1>11
<1> HIDE DEF at
<1>12. ASSUME NEW i \in 2..Len(R)
       PROVE  /\ R[i][1] # p /\ R[i][1] \in Peer /\ R[i][2] \in Nat
              /\ D[R[i][1]] # Absent /\ R[i][2] = D[R[i][1]].lastSeen /\ R[i][2] <= t
  <2>1. PICK k \in 1..Len(lru) : k # h /\ R[i] = lru[k]
    BY <1>10
  <2>2. lru[k] \in Keys /\ lru[k][1] # p
    BY <1>4, <2>1
  <2>3. D[lru[k][1]] # Absent /\ lru[k][2] = D[lru[k][1]].lastSeen /\ lru[k][2] <= t
    BY DEF Exact
  <2>4. QED
    BY <2>1, <2>2, <2>3 DEF Keys
<1>13. ASSUME NEW i \in 1..Len(R)
       PROVE  E[R[i][1]] # Absent /\ R[i][2] = E[R[i][1]].lastSeen /\ R[i][2] <= t
  <2>1. CASE i = 1
    BY <1>2, <1>9, <2>1
  <2>2. CASE i # 1
    <3>1. i \in 2..Len(R)
      BY <2>2
    <3>2. QED
      BY <1>2, <1>12, <3>1
  <2>3. QED
    BY <2>1, <2>2
<1>14. ASSUME NEW i \in 1..Len(R), NEW j \in 1..Len(R), i < j
       PROVE  R[i][1] # R[j][1] /\ R[i][2] >= R[j][2]
  <2>1. j \in 2..Len(R)
    BY <1>14
  <2>2. CASE i = 1
    BY <1>9, <1>12, <2>1, <2>2
  <2>3. CASE i # 1
    <3>1. i \in 2..Len(R)
      BY <2>3
    <3>2. /\ at(i) \in 1..Len(lru) /\ at(j) \in 1..Len(lru) /\ at(i) < at(j)
          /\ R[i] = lru[at(i)] /\ R[j] = lru[at(j)]
      BY <1>10, <1>11, <1>14, <2>1, <3>1
    <3>3. QED
      BY <3>2 DEF Exact
  <2>4. QED
    BY <2>2, <2>3
<1>15. QED
  BY <1>9, <1>13, <1>14 DEF Exact, E, R, oldT

(* While no call has failed the tail of the handler finds the victim in    *)
(* data, and no listed node was seen earlier.                              *)
LEMMA FinishExact ==
  ASSUME NEW D \in [Peer -> Nodes \cup {Absent}], NEW A, NEW L \in Seq(Keys), NEW t \in Nat,
         Exact(D, L, t), Keyed(D, L), Finish(D, A, L, Len(L))
  PROVE  /\ call' = NoCall /\ failures' = failures
         /\ Exact(data', lru', t) /\ nodeCount' = Len(lru')
         /\ Len(L) <= MaxNodes => data' = D
         /\ \A p \in Peer : D[p] = Absent => data'[p] = Absent
         /\ \A p, q \in Peer :
              (D[p] # Absent /\ data'[p] = Absent /\ data'[q] # Absent)
                => D[p].lastSeen <= data'[q].lastSeen
<1>1. CASE NoOverflow(D, A, L, Len(L))
  BY <1>1 DEF NoOverflow, Finish
<1>2. CASE Evict(D, A, L, Len(L))
  <2> DEFINE v == Last(L)[1]
             n == Len(L)
             F == Front(L)
  <2>1. n \in Nat /\ n > MaxNodes /\ n \in 1..Len(L) /\ L[n] \in Keys /\ Last(L) = L[n]
    BY <1>2, NodeStatusAssumption DEF Evict, Last
  <2>2. v \in Peer /\ D[v] # Absent /\ L[n][2] = D[v].lastSeen /\ v = L[n][1]
    BY <2>1 DEF Exact, Keys
  <2> HIDE DEF v
  <2>3. /\ lru' = F /\ data' = [D EXCEPT ![v] = Absent]
        /\ nodeCount' = Len(L) - 1 /\ failures' = failures
    BY <1>2, <2>2 DEF Evict, v
  <2>4. F \in Seq(Keys) /\ Len(F) = n - 1 /\ \A i \in 1..n - 1 : F[i] = L[i]
    BY <2>1, FrontIs, NodeStatusAssumption
  <2> HIDE DEF F
  <2>5. data'[v] = Absent /\ \A q \in Peer : q # v => data'[q] = D[q]
    BY <2>2, <2>3
  <2>6. \A i \in 1..n : L[i][1] \in Peer /\ L[i][2] \in Nat
    BY DEF Keys
  <2>7. \A i \in 1..n - 1 : i \in 1..Len(L) /\ i < n /\ L[i][1] # v /\ L[i][2] >= L[n][2]
    BY <2>1, <2>2 DEF Exact
  <2>8. Exact(data', F, t)
    <3>1. ASSUME NEW i \in 1..Len(F)
          PROVE  /\ data'[F[i][1]] # Absent
                 /\ F[i][2] = data'[F[i][1]].lastSeen /\ F[i][2] <= t
      <4>1. i \in 1..n - 1 /\ i \in 1..n
        BY <2>4
      <4>2. F[i] = L[i] /\ data'[L[i][1]] = D[L[i][1]]
        BY <2>4, <2>5, <2>6, <2>7, <4>1
      <4>3. QED
        BY <4>1, <4>2 DEF Exact
    <3>2. ASSUME NEW i \in 1..Len(F), NEW j \in 1..Len(F), i < j
          PROVE  F[i][1] # F[j][1] /\ F[i][2] >= F[j][2]
      BY <2>4, <2>7, <3>2 DEF Exact
    <3>3. QED
      BY <3>1, <3>2 DEF Exact
  <2>9. ASSUME NEW p \in Peer, NEW q \in Peer,
               D[p] # Absent, data'[p] = Absent, data'[q] # Absent
        PROVE  D[p].lastSeen <= data'[q].lastSeen
    <3>1. p = v /\ q # v /\ data'[q] = D[q]
      BY <2>5, <2>9
    <3>2. PICK i \in 1..Len(L) : L[i][1] = q
      BY <2>9, <3>1 DEF Keyed, IsListed, HasKey
    <3>3. i \in 1..n - 1
      BY <2>1, <2>2, <3>1, <3>2
    <3>4. L[i][2] = D[q].lastSeen /\ L[i][2] >= L[n][2] /\ L[i][2] \in Nat /\ L[n][2] \in Nat
      BY <2>1, <2>6, <2>7, <3>2, <3>3 DEF Exact
    <3>5. QED
      BY <2>2, <3>1, <3>4
  <2>10. ~ (Len(L) <= MaxNodes)
    BY <2>1, NodeStatusAssumption
  <2>11. QED
    BY <2>2, <2>3, <2>4, <2>5, <2>8, <2>9, <2>10 DEF Finish
<1>3. QED
  BY <1>1, <1>2 DEF Finish

(* Whom a step removes: nobody who was seen later than someone who stays. *)
SilentGoes ==
  \A p, q \in Known :
    (data'[p] = Absent /\ data'[q] # Absent) => data[p].lastSeen <= data'[q].lastSeen

OrderStep == OrderInv' /\ (failures' = 0 => SilentGoes)

(* The state that the tail of the handler leaves, once its list is exact. *)
LEMMA SettledOrder ==
  ASSUME NEW t \in Nat, now' \in Nat, t <= now', lru' \in Seq(Keys), call' = NoCall,
         Exact(data', lru', t), nodeCount' = Len(lru')
  PROVE  OrderInv'
<1>1. Exact(data', lru', now')
  BY ExactLater
<1>2. Seen' = data' /\ Idle'
  BY DEF Seen, Idle, NoCall
<1>3. nodeCount' = Len(lru') + (IF call'.st = "new" THEN 1 ELSE 0)
  BY DEF NoCall
<1>4. QED
  BY <1>1, <1>2, <1>3 DEF OrderInv, NoCall

(* A heartbeat that runs through, and the answer to one that waited, of a  *)
(* peer whose key in the lru is of the time in D.                          *)
LEMMA RetouchOrder ==
  ASSUME JInv, JInv', failures = 0, NEW D \in [Peer -> Nodes \cup {Absent}],
         NEW t \in Nat, Exact(D, lru, t), t <= now', nodeCount = Len(lru),
         NEW p \in Peer, IsListed(data, p), NEW n \in Nodes, n.lastSeen = t,
         \A q \in Peer : q # p => D[q] = data[q],
         NEW E, E = [data EXCEPT ![p] = n],
         Finish(E, addressMap, Retouch(p, t, D[p].lastSeen), nodeCount)
  PROVE  OrderStep
<1> DEFINE L == Retouch(p, t, D[p].lastSeen)
<1>1. /\ lru \in Seq(Keys) /\ data \in [Peer -> Nodes \cup {Absent}] /\ Keyed(data, lru)
      /\ Len(lru) <= MaxNodes /\ now' \in Nat /\ lru' \in Seq(Keys)
  BY DEF JInv, CallOK, MapsInv, Maps
<1>2. n # Absent
  BY AbsentAssumption
<1>3. HasKey(lru, p)
  BY <1>1 DEF Keyed
<1>4. E \in [Peer -> Nodes \cup {Absent}] /\ E = [D EXCEPT ![p] = n] /\ E[p] = n
  BY <1>1
<1>5. Exact(E, L, t) /\ Len(L) = Len(lru)
  <2>1. Exact([D EXCEPT ![p] = n], L, t) /\ Len(L) = Len(lru)
    BY <1>1, <1>2, <1>3, RetouchExact
  <2>2. QED
    BY <1>4, <2>1
<1>6. D[p].lastSeen \in Nat
  <2>1. PICK i \in 1..Len(lru) : lru[i][1] = p
    BY <1>3 DEF HasKey
  <2>2. QED
    BY <1>1, <2>1 DEF Exact, Keys
<1>7. L \in Seq(Keys) /\ HasKey(L, p) /\ \A q \in Peer : HasKey(lru, q) => HasKey(L, q)
  BY <1>1, <1>6, RetouchKeeps
<1> HIDE DEF L
<1>8. Keyed(E, L)
  BY <1>1, <1>4, <1>7 DEF Keyed, IsListed
<1>9. Finish(E, addressMap, L, Len(L))
  BY <1>5 DEF L
<1>10. /\ call' = NoCall /\ Exact(data', lru', t) /\ nodeCount' = Len(lru')
       /\ data' = E
  BY <1>1, <1>4, <1>5, <1>7, <1>8, <1>9, FinishExact
<1>11. OrderInv'
  BY <1>1, <1>10, SettledOrder
<1>12. SilentGoes
  BY <1>1, <1>2, <1>4, <1>10 DEF SilentGoes, Known
<1>13. QED
  BY <1>11, <1>12 DEF OrderStep

LEMMA HeartbeatKnownOrder ==
  ASSUME JInv, JInv', failures = 0, OrderInv, NEW p \in Peer, NEW m, HeartbeatKnown(p, m)
  PROVE  OrderStep
<1> DEFINE r == IF NeedsRefresh(p) THEN now ELSE data[p].refreshed
           n == SeenAt(data[p], now, r)
<1>1. /\ IsListed(data, p) /\ data[p] \in Nodes /\ now \in Nat
      /\ data \in [Peer -> Nodes \cup {Absent}]
  BY DEF JInv, CallOK, MapsInv, Maps, HeartbeatKnown, Known, IsListed
<1>2. Exact(data, lru, now) /\ nodeCount = Len(lru)
  <2>1. call.st = "none"
    BY DEF HeartbeatKnown, Idle
  <2>2. Seen = data /\ nodeCount = Len(lru) + 0 /\ Exact(Seen, lru, now)
    BY <2>1 DEF OrderInv, Seen, Idle
  <2>3. QED
    BY <2>2 DEF JInv, MapsInv, Maps
<1>3. Finish([data EXCEPT ![p] = n], addressMap, Retouch(p, now, data[p].lastSeen), nodeCount)
      /\ now' = now
  BY DEF HeartbeatKnown
<1>4. n \in Nodes /\ n.lastSeen = now
  BY <1>1 DEF SeenAt, Nodes, NeedsRefresh
<1>5. now <= now'
  BY <1>1, <1>3
<1> HIDE DEF n
<1>6. QED
  BY <1>1, <1>2, <1>3, <1>4, <1>5, RetouchOrder

LEMMA HeartbeatStaleOrder ==
  ASSUME JInv, JInv', failures = 0, OrderInv, NEW p \in Peer, NEW m, HeartbeatStale(p, m)
  PROVE  OrderStep
<1>1. /\ data[p] \in Nodes /\ p \in Known /\ now \in Nat
      /\ data \in [Peer -> Nodes \cup {Absent}]
  BY DEF JInv, CallOK, MapsInv, Maps, HeartbeatStale, Known
<1>2. Exact(data, lru, now) /\ nodeCount = Len(lru) + 0
  <2>1. call.st = "none"
    BY DEF HeartbeatStale, Idle
  <2>2. QED
    BY <2>1 DEF OrderInv, Seen, Idle
<1>3. /\ call'.st = "old" /\ call'.peer = p /\ call'.now = now
      /\ call'.oldLastSeen = data[p].lastSeen
      /\ data' = [data EXCEPT ![p].lastSeen = now]
      /\ now' = now /\ lru' = lru /\ nodeCount' = nodeCount /\ failures' = failures
  BY DEF HeartbeatStale
<1>4. data'[p] = [data[p] EXCEPT !.lastSeen = now]
  BY <1>1, <1>3
<1>5. data'[p].lastSeen = now /\ data'[p] # Absent
  BY <1>1, <1>4, AbsentAssumption DEF Nodes
<1>6. [data'[p] EXCEPT !.lastSeen = data[p].lastSeen] = data[p]
  BY <1>1, <1>4 DEF Nodes
<1>7. Seen' = data
  <2>1. Seen' = [data' EXCEPT ![p].lastSeen = data[p].lastSeen]
    BY <1>3 DEF Seen
  <2>2. QED
    BY <1>1, <1>3, <1>6, <2>1 DEF Known
<1>8. OrderInv'
  <2>1. ~ Idle' /\ call'.st # "new" /\ nodeCount' = Len(lru') + 0
    BY <1>2, <1>3 DEF Idle
  <2>2. Exact(Seen', lru', call'.now)
    BY <1>2, <1>3, <1>7
  <2>3. call'.now <= now' /\ data'[call'.peer].lastSeen = call'.now
    BY <1>1, <1>3, <1>5
  <2>4. QED
    BY <2>1, <2>2, <2>3 DEF OrderInv
<1>9. SilentGoes
  BY <1>1, <1>3, <1>5 DEF SilentGoes, Known
<1>10. QED
  BY <1>8, <1>9 DEF OrderStep

LEMMA HeartbeatNewOrder ==
  ASSUME JInv, failures = 0, OrderInv, NEW p \in Peer, NEW m, HeartbeatNew(p, m)
  PROVE  OrderStep
<1>1. lru \in Seq(Keys) /\ now \in Nat
  BY DEF JInv, CallOK, MapsInv, Maps
<1>2. Exact(data, lru, now) /\ nodeCount = Len(lru)
  <2>1. call.st = "none"
    BY DEF HeartbeatNew, Idle
  <2>2. Seen = data /\ nodeCount = Len(lru) + 0 /\ Exact(Seen, lru, now)
    BY <2>1 DEF OrderInv, Seen, Idle
  <2>3. QED
    BY <1>1, <2>2
<1>3. /\ call'.st = "new" /\ call'.now = now /\ nodeCount' = nodeCount + 1
      /\ UNCHANGED <<now, data, lru, failures>>
  BY DEF HeartbeatNew
<1>4. Seen' = data
  BY <1>3 DEF Seen
<1>5. OrderInv'
  BY <1>1, <1>2, <1>3, <1>4 DEF OrderInv, Idle
<1>6. SilentGoes
  BY <1>3 DEF SilentGoes, Known
<1>7. QED
  BY <1>5, <1>6 DEF OrderStep

LEMMA RefreshLandsOrder ==
  ASSUME JInv, JInv', failures = 0, OrderInv, RefreshLands
  PROVE  OrderStep
<1> DEFINE p == call.peer
           n == SeenAt(data[p], data[p].lastSeen, call.now)
<1>1. /\ p \in Peer /\ IsListed(data, p) /\ data[p] \in Nodes /\ now \in Nat
      /\ data \in [Peer -> Nodes \cup {Absent}] /\ lru \in Seq(Keys)
      /\ call.now \in Nat /\ call.oldLastSeen \in Nat
  BY DEF JInv, CallOK, CallInv, Calls, MapsInv, Maps, RefreshLands, Known, IsListed
<1>2. /\ Exact(Seen, lru, call.now) /\ nodeCount = Len(lru) + 0 /\ call.now <= now
      /\ data[p].lastSeen = call.now
      /\ Seen = [data EXCEPT ![p].lastSeen = call.oldLastSeen]
  BY DEF RefreshLands, OrderInv, Idle, Seen
<1>3. Seen[p].lastSeen = call.oldLastSeen /\ Seen \in [Peer -> Nodes \cup {Absent}]
      /\ \A q \in Peer : q # p => Seen[q] = data[q]
  <2>1. [data[p] EXCEPT !.lastSeen = call.oldLastSeen] \in Nodes
    BY <1>1 DEF Nodes
  <2>2. Seen[p] = [data[p] EXCEPT !.lastSeen = call.oldLastSeen]
        /\ \A q \in Peer : q # p => Seen[q] = data[q]
    BY <1>1, <1>2
  <2>3. Seen \in [Peer -> Nodes \cup {Absent}]
    BY <1>1, <1>2, <2>1
  <2>4. QED
    BY <1>1, <2>2, <2>3 DEF Nodes
<1>4. Finish([data EXCEPT ![p] = n], addressMap,
             Retouch(p, call.now, call.oldLastSeen), nodeCount) /\ now' = now
  BY DEF RefreshLands
<1>5. n \in Nodes /\ n.lastSeen = call.now
  BY <1>1, <1>2 DEF SeenAt, Nodes
<1>6. nodeCount = Len(lru)
  BY <1>1, <1>2
<1> HIDE DEF p, n
<1>7. QED
  BY <1>1, <1>2, <1>3, <1>4, <1>5, <1>6, RetouchOrder

(* A new node takes its place, and the last of the list its leave. *)
LEMMA NewNodeLandsOrder ==
  ASSUME JInv, JInv', failures = 0, OrderInv, NewNodeLands
  PROVE  OrderStep
<1> DEFINE p == call.peer
           n == [lastSeen |-> call.now, refreshed |-> call.now, miner |-> call.miner]
           A == [m \in Miner |-> IF m = n.miner THEN p ELSE addressMap[m]]
           L == Touch(p, call.now)
           D == [data EXCEPT ![p] = n]
<1>1. /\ p \in Peer /\ data[p] = Absent /\ now \in Nat /\ Len(lru) <= MaxNodes
      /\ data \in [Peer -> Nodes \cup {Absent}] /\ lru \in Seq(Keys) /\ Keyed(data, lru)
      /\ call.now \in Nat /\ call.miner \in Miner \cup {NoMiner}
      /\ lru' \in Seq(Keys) /\ now' \in Nat
  BY DEF JInv, CallOK, CallInv, Calls, MapsInv, Maps, NewNodeLands, Known
<1>2. /\ Exact(data, lru, call.now) /\ nodeCount = Len(lru) + 1 /\ call.now <= now
  BY DEF NewNodeLands, OrderInv, Idle, Seen
<1>3. n \in Nodes /\ n # Absent /\ n.lastSeen = call.now
  BY <1>1, AbsentAssumption DEF Nodes
<1>4. Finish(D, A, L, nodeCount) /\ now' = now
  BY DEF NewNodeLands
<1> HIDE DEF p, n, A
<1>5. /\ D \in [Peer -> Nodes \cup {Absent}] /\ D[p] = n
      /\ \A q \in Peer : q # p => D[q] = data[q]
  BY <1>1, <1>3
<1>6. Exact(D, L, call.now)
  BY <1>1, <1>2, <1>3, TouchExact
<1>7. /\ L \in Seq(Keys) /\ Len(L) = Len(lru) + 1 /\ HasKey(L, p)
      /\ \A q \in Peer : HasKey(lru, q) => HasKey(L, q)
  BY <1>1, TouchKeeps
<1> HIDE DEF D, L
<1>8. Keyed(D, L)
  BY <1>1, <1>5, <1>7 DEF Keyed, IsListed
<1>9. Finish(D, A, L, Len(L))
  BY <1>2, <1>4, <1>7
<1>10. /\ call' = NoCall /\ Exact(data', lru', call.now) /\ nodeCount' = Len(lru')
       /\ \A q, s \in Peer :
            (D[q] # Absent /\ data'[q] = Absent /\ data'[s] # Absent)
              => D[q].lastSeen <= data'[s].lastSeen
  BY <1>1, <1>5, <1>6, <1>7, <1>8, <1>9, FinishExact
<1>11. OrderInv'
  BY <1>1, <1>2, <1>4, <1>10, SettledOrder
<1>12. SilentGoes
  BY <1>1, <1>5, <1>10 DEF SilentGoes, Known
<1>13. QED
  BY <1>11, <1>12 DEF OrderStep

LEMMA FailuresGrow ==
  ASSUME JInv, [Next]_vars, failures' = 0
  PROVE  failures = 0 /\ ~ CallFails
<1>1. failures \in Nat
  BY DEF JInv, CallOK
<1>2. ASSUME NEW D, NEW A, NEW L, NEW C, Finish(D, A, L, C)
      PROVE  failures' = failures \/ failures' = failures + 1
  BY <1>2 DEF Finish, NoOverflow, Evict
<1>3. failures' = failures \/ failures' = failures + 1
  BY <1>2 DEF Next, Heartbeat, HeartbeatKnown, HeartbeatStale, HeartbeatNew, RefreshLands,
              NewNodeLands, CallFails, Tick, vars
<1>4. QED
  BY <1>1, <1>3 DEF CallFails

LEMMA NextOrder ==
  ASSUME JInv, OrderInv, [Next]_vars
  PROVE  OrderStep
<1>1. JInv'
  BY NextJInv
<1>2. CASE failures' # 0
  BY <1>2 DEF OrderStep, OrderInv
<1>3. CASE failures' = 0
  <2>1. failures = 0 /\ ~ CallFails
    BY <1>3, FailuresGrow
  <2>2. CASE Heartbeat
    BY <1>1, <2>1, <2>2, HeartbeatKnownOrder, HeartbeatStaleOrder, HeartbeatNewOrder
       DEF Heartbeat
  <2>3. CASE RefreshLands
    BY <1>1, <2>1, <2>3, RefreshLandsOrder
  <2>4. CASE NewNodeLands
    BY <1>1, <2>1, <2>4, NewNodeLandsOrder
  <2>5. CASE Tick \/ UNCHANGED vars
    <3>1. UNCHANGED <<data, lru, nodeCount, call, failures>> /\ now <= now'
          /\ now \in Nat /\ now' \in Nat /\ lru \in Seq(Keys)
      BY <2>5 DEF Tick, vars, JInv, CallOK, MapsInv, Maps
    <3>2. Seen' = Seen /\ Idle' = Idle
      BY <3>1 DEF Seen, Idle
    <3>3. Idle => Exact(Seen, lru, now')
      BY <2>1, <3>1, ExactLater DEF OrderInv
    <3>4. ~ Idle => call.now <= now'
      BY <2>1, <3>1 DEF OrderInv, JInv, CallOK, Calls
    <3>5. OrderInv'
      BY <2>1, <3>1, <3>2, <3>3, <3>4 DEF OrderInv
    <3>6. SilentGoes
      BY <3>1 DEF SilentGoes, Known
    <3>7. QED
      BY <3>5, <3>6 DEF OrderStep
  <2>6. QED
    BY <2>1, <2>2, <2>3, <2>4, <2>5 DEF Next
<1>4. QED
  BY <1>2, <1>3

LEMMA InitOrder == Init => OrderInv
<1>1. Init => Len(lru) = 0
  BY DEF Init
<1>2. QED
  BY <1>1 DEF Init, OrderInv, Exact, Seen, Idle, NoCall

LEMMA AlwaysOrdered == Spec => []JInv /\ []OrderInv
<1>1. Spec => []JInv
  BY InitJInv, NextJInv, PTL DEF Spec
<1>2. JInv /\ OrderInv /\ [Next]_vars => OrderInv'
  BY NextOrder DEF OrderStep
<1>3. QED
  BY <1>1, <1>2, InitOrder, PTL DEF Spec

(* One key per node and one node per key: the two are counted alike. *)
LEMMA OrderIsExact == JInv /\ OrderInv => LruExact
<1> SUFFICES ASSUME JInv, OrderInv, Settled
             PROVE  /\ nodeCount = Cardinality(Known)
                    /\ Len(lru) = nodeCount
                    /\ \A p \in Known : Contains(lru, <<p, data[p].lastSeen>>)
                    /\ \A i, j \in 1..Len(lru) : i < j => lru[i][2] >= lru[j][2]
  BY DEF LruExact
<1> DEFINE I == 1..Len(lru)
           f == [i \in I |-> lru[i][1]]
<1>1. /\ lru \in Seq(Keys) /\ Len(lru) \in Nat
      /\ Exact(data, lru, now) /\ nodeCount = Len(lru)
  <2>1. Seen = data /\ nodeCount = Len(lru) + 0 /\ Exact(Seen, lru, now)
    BY DEF Settled, Idle, OrderInv, Seen
  <2>2. QED
    BY <2>1 DEF JInv, MapsInv, Maps
<1>2. \A p \in Known : \E i \in I : lru[i][1] = p
  BY DEF JInv, MapsInv, Maps, Keyed, HasKey, IsListed, Known
<1>3. \A i \in I : lru[i] \in Keys /\ lru[i][1] \in Known /\ lru[i][2] = data[lru[i][1]].lastSeen
  BY <1>1 DEF Exact, Keys, Known
<1>4. \A i, j \in I : i # j => lru[i][1] # lru[j][1]
  <2>1. \A i, j \in I : i # j => i < j \/ j < i
    OBVIOUS
  <2>2. QED
    BY <1>1, <2>1 DEF Exact
<1>5. f \in Bijection(I, Known)
  BY <1>2, <1>3, <1>4 DEF Bijection, Injection, Surjection, IsInjective
<1>6. ExistsBijection(I, Known)
  BY <1>5 DEF ExistsBijection
<1>7. Cardinality(Known) = Len(lru)
  BY <1>1, <1>6, FS_CountingElements
<1>8. ASSUME NEW p \in Known
      PROVE  Contains(lru, <<p, data[p].lastSeen>>)
  <2>1. PICK i \in I : lru[i][1] = p
    BY <1>2
  <2>2. lru[i] = <<p, data[p].lastSeen>>
    BY <1>3, <2>1 DEF Keys
  <2>3. QED
    BY <2>2 DEF Contains
<1>9. QED
  BY <1>1, <1>7, <1>8 DEF Exact

(* As long as no call has failed the lru is one key per listed node, by    *)
(* lastSeen, and nodeCount counts them, for any interleaving of heartbeats *)
(* with the calls they wait for.                                           *)
THEOREM ListIsExact == Spec => []LruExact
  BY AlwaysOrdered, OrderIsExact, PTL

(* So the node that goes is the one that has been silent longest. *)
THEOREM SilentIsEvicted == Spec => EvictsTheSilent
<1>1. JInv /\ OrderInv /\ [Next]_vars =>
        [failures' = 0 =>
           \A p, q \in Known :
             (data'[p] = Absent /\ data'[q] # Absent) => data[p].lastSeen <= data'[q].lastSeen]_vars
  BY NextOrder DEF OrderStep, SilentGoes
<1>2. QED
  BY <1>1, AlwaysOrdered, PTL DEF Spec, EvictsTheSilent

--------------------------------------------------------------------------------
(* The server in front of the list implements NodeStatus, so that all of   *)
(* the above carries over, and it lists only peers it has heard.           *)

HandlersOK == handlers \subseteq [packet : Packet, st : {"peerInfo", "addrs"}]

(* The maps D, A and L name peers of H only. *)
Within(D, A, L, H) ==
  /\ \A p \in Peer : D[p] # Absent => p \in H
  /\ \A m \in Miner : A[m] # Absent => A[m] \in H
  /\ L \in Seq(H \X Nat)

OwnPacket(k) == k.complete /\ k.genesis = "own"

HeardInv ==
  /\ heard \subseteq Peer
  /\ Within(data, addressMap, lru, heard)
  /\ call.st # "none" => call.peer \in heard
  /\ \A h \in handlers : OwnPacket(h.packet) => h.packet.from \in heard

--------------------------------------------------------------------------------
(* Handlers carry packets, whatever becomes of them. *)
LEMMA HandlersStep == HandlersOK /\ [ServerNext]_serverVars => HandlersOK'
<1> SUFFICES ASSUME HandlersOK, [ServerNext]_serverVars
             PROVE  HandlersOK'
  OBVIOUS
<1>1. ASSUME NEW k \in Packet, HandleProtocol(k)
      PROVE  HandlersOK'
  BY <1>1 DEF HandleProtocol, HandlersOK
<1>2. ASSUME NEW h \in handlers, GetPeerInfo(h)
      PROVE  HandlersOK'
  <2>1. [h EXCEPT !.st = "addrs"] \in [packet : Packet, st : {"peerInfo", "addrs"}]
    BY DEF HandlersOK
  <2>2. QED
    BY <1>2, <2>1 DEF GetPeerInfo, HandlersOK
<1>3. ASSUME NEW h \in handlers, GivesUp(h) \/ FireHandlers(h)
      PROVE  HandlersOK'
  BY <1>3 DEF GivesUp, FireHandlers, HandlersOK
<1>4. QED
  BY <1>1, <1>2, <1>3 DEF ServerNext, serverVars, HandlersOK

(* What a handler does to the node list is a heartbeat or nothing. *)
LEMMA FireIsHeartbeat ==
  ASSUME HandlersOK, NEW h \in handlers, FireHandlers(h)
  PROVE  [Next]_vars
<1>1. CASE UNCHANGED vars
  BY <1>1
<1>2. CASE IsValid(h.packet) /\ ConsumeHeartbeat(h.packet) /\ Idle
  <2>1. h.packet.from \in Peer /\ h.packet.miner \in Announces[h.packet.from] \cup {NoMiner}
    BY PacketAssumption DEF HandlersOK
  <2>2. CASE OwnGenesis(h.packet)
    BY <1>2, <2>1, <2>2 DEF ConsumeHeartbeat, Heartbeat, Next
  <2>3. CASE ~ OwnGenesis(h.packet)
    BY <1>2, <2>3 DEF ConsumeHeartbeat
  <2>4. QED
    BY <2>2, <2>3
<1>3. QED
  BY <1>1, <1>2 DEF FireHandlers, ConsumeHeartbeat

(* Every step of the server is one of the node list, or none. *)
LEMMA ServerStep ==
  ASSUME HandlersOK, [ServerNext]_serverVars
  PROVE  [Next]_vars
<1>1. ASSUME NEW k \in Packet, HandleProtocol(k)
      PROVE  [Next]_vars
  BY <1>1 DEF HandleProtocol
<1>2. ASSUME NEW h \in handlers, GetPeerInfo(h) \/ GivesUp(h)
      PROVE  [Next]_vars
  BY <1>2 DEF GetPeerInfo, GivesUp
<1>3. CASE StatusStep
  BY <1>3 DEF StatusStep, Next
<1>4. QED
  BY <1>1, <1>2, <1>3, FireIsHeartbeat DEF ServerNext, serverVars

LEMMA AlwaysHandlersOK == ServerSpec => []HandlersOK
<1>1. ServerInit => HandlersOK
  BY DEF ServerInit, HandlersOK
<1>2. QED
  BY <1>1, HandlersStep, PTL DEF ServerSpec

(* The server with its overtaking handlers implements the node list that   *)
(* takes one heartbeat after the other: a handler adds no step of its own. *)
THEOREM ServerImplementsStatus == ServerSpec => Spec
<1>1. ServerInit => Init
  BY DEF ServerInit
<1>2. HandlersOK /\ [ServerNext]_serverVars => [Next]_vars
  BY ServerStep
<1>3. QED
  BY <1>1, <1>2, AlwaysHandlersOK, PTL DEF ServerSpec, Spec

(* So a lookup never fails or finds the wrong node, one that should finds  *)
(* its node, and the list stays bounded behind the server as well; as long *)
(* as no call fails it stays exact, and who goes is the one silent longest. *)
THEOREM StatusHolds ==
  ServerSpec => [](AddressMapSound /\ OwnAddressFound /\ Bounded /\ LruExact) /\ EvictsTheSilent
<1>1. IInv => AddressMapSound /\ OwnAddressFound /\ Bounded
  BY DEF IInv
<1>2. Spec => [](AddressMapSound /\ OwnAddressFound /\ Bounded /\ LruExact)
  BY <1>1, Invariance, ListIsExact, PTL
<1>3. QED
  BY <1>2, ServerImplementsStatus, SilentIsEvicted

--------------------------------------------------------------------------------
(* Only who was heard *)

(* unshift and splice keep a sequence over S one over S. *)
LEMMA RetouchWithin ==
  ASSUME lru \in Seq(heard \X Nat), NEW p \in heard, NEW t \in Nat, NEW oldT
  PROVE  Touch(p, t) \in Seq(heard \X Nat) /\ Retouch(p, t, oldT) \in Seq(heard \X Nat)
<1> DEFINE L == Touch(p, t)
           S == heard \X Nat
<1>1. <<p, t>> \in S /\ lru \in Seq(S)
  OBVIOUS
<1>2. Retouch(p, t, oldT) = L \/ \E i \in 2..Len(L) : Retouch(p, t, oldT) = RemoveAt(L, i)
  BY DEF Retouch, OldKeyAt
<1> HIDE DEF S
<1>3. L \in Seq(S)
  BY <1>1 DEF Touch
<1> HIDE DEF L
<1>4. ASSUME NEW i \in 2..Len(L)
      PROVE  RemoveAt(L, i) \in Seq(S)
  BY <1>3, RemoveAtIs
<1>5. L \in Seq(S) /\ Retouch(p, t, oldT) \in Seq(S)
  BY <1>2, <1>3, <1>4
<1>6. QED
  BY <1>5 DEF L, S

(* The tail of the handler: the last key goes, or nothing does. *)
LEMMA FinishWithin ==
  ASSUME NEW D, NEW A, NEW L, NEW C, NEW H, Within(D, A, L, H), Finish(D, A, L, C),
         D = [p \in Peer |-> D[p]]
  PROVE  Within(data', addressMap', lru', H) /\ call' = NoCall
<1>1. CASE NoOverflow(D, A, L, C)
  BY <1>1 DEF NoOverflow, Within, Finish
<1>2. CASE Evict(D, A, L, C)
  <2>1. lru' \in Seq(H \X Nat)
    <3>1. L \in Seq(H \X Nat) /\ Len(L) > MaxNodes /\ MaxNodes \in Nat \ {0}
      BY <1>2, NodeStatusAssumption DEF Evict, Within
    <3>2. Len(L) \in Nat /\ Len(L) >= 1
      BY <3>1, LenProperties
    <3>3. SubSeq(L, 1, Len(L) - 1) \in Seq(H \X Nat)
      BY <3>1, <3>2, SubSeqProperties
    <3>4. QED
      BY <1>2, <3>3 DEF Evict, Front
  <2>2. \A p \in Peer : data'[p] # Absent => D[p] # Absent
    BY <1>2 DEF Evict
  <2>3. \A m \in Miner : addressMap'[m] # Absent => addressMap'[m] = A[m]
    BY <1>2 DEF Evict
  <2>4. QED
    BY <2>1, <2>2, <2>3 DEF Within, Finish
<1>3. QED
  BY <1>1, <1>2 DEF Finish

--------------------------------------------------------------------------------
(* The steps of the node list *)

(* A heartbeat of a peer that was heard. *)
LEMMA HeartbeatHeard ==
  ASSUME IInv, HeardInv, NEW p \in heard, NEW m, UNCHANGED heard,
         HeartbeatKnown(p, m) \/ HeartbeatStale(p, m) \/ HeartbeatNew(p, m)
  PROVE  /\ Within(data', addressMap', lru', heard)
         /\ call'.st # "none" => call'.peer \in heard
<1>1. TypeOK /\ p \in Peer
  BY DEF IInv, HeardInv
<1>2. CASE HeartbeatKnown(p, m)
  <2>1. PICK r : Finish([data EXCEPT ![p] = SeenAt(data[p], now, r)], addressMap,
                        Retouch(p, now, data[p].lastSeen), nodeCount)
    BY <1>2 DEF HeartbeatKnown
  <2> DEFINE D == [data EXCEPT ![p] = SeenAt(data[p], now, r)]
             L == Retouch(p, now, data[p].lastSeen)
  <2>2. L \in Seq(heard \X Nat)
    <3>1. now \in Nat /\ lru \in Seq(heard \X Nat)
      BY <1>1 DEF TypeOK, HeardInv, Within
    <3>2. QED
      BY <3>1, RetouchWithin
  <2>3. Within(D, addressMap, L, heard) /\ D = [q \in Peer |-> D[q]]
    BY <1>1, <2>2 DEF HeardInv, Within, TypeOK
  <2> HIDE DEF D, L
  <2>4. Within(data', addressMap', lru', heard) /\ call' = NoCall
    BY <2>1, <2>3, FinishWithin DEF D, L
  <2>5. QED
    BY <2>4 DEF NoCall
<1>3. CASE HeartbeatStale(p, m)
  BY <1>1, <1>3 DEF HeartbeatStale, HeardInv, Within, TypeOK
<1>4. CASE HeartbeatNew(p, m)
  BY <1>4 DEF HeartbeatNew, HeardInv, Within
<1>5. QED
  BY <1>2, <1>3, <1>4

(* The answers of the awaited calls, their failure, and the clock. *)
LEMMA StatusStepHeard ==
  ASSUME IInv, HeardInv, StatusStep, UNCHANGED heard
  PROVE  /\ Within(data', addressMap', lru', heard)
         /\ call'.st # "none" => call'.peer \in heard
<1>1. TypeOK
  BY DEF IInv
<1>2. CASE RefreshLands
  <2> DEFINE p == call.peer
             D == [data EXCEPT ![p] = SeenAt(data[p], data[p].lastSeen, call.now)]
             L == Retouch(p, call.now, call.oldLastSeen)
  <2>1. Finish(D, addressMap, L, nodeCount)
    BY <1>2 DEF RefreshLands
  <2>2. p \in heard /\ p \in Peer /\ call.now \in Nat
    BY <1>1, <1>2 DEF RefreshLands, HeardInv, TypeOK, Calls
  <2>3. L \in Seq(heard \X Nat)
    <3>1. lru \in Seq(heard \X Nat)
      BY DEF HeardInv, Within
    <3> HIDE DEF p
    <3>2. QED
      BY <2>2, <3>1, RetouchWithin
  <2>4. Within(D, addressMap, L, heard) /\ D = [q \in Peer |-> D[q]]
    BY <1>1, <2>2, <2>3 DEF HeardInv, Within, TypeOK
  <2> HIDE DEF D, L
  <2>5. QED
    BY <2>1, <2>4, FinishWithin DEF NoCall
<1>3. CASE NewNodeLands
  <2> DEFINE p == call.peer
             D == [data EXCEPT ![p] = [lastSeen |-> call.now, refreshed |-> call.now,
                                       miner |-> call.miner]]
             A == [m \in Miner |-> IF m = call.miner THEN p ELSE addressMap[m]]
             L == Touch(p, call.now)
  <2>1. Finish(D, A, L, nodeCount)
    BY <1>3 DEF NewNodeLands
  <2>2. p \in heard /\ p \in Peer /\ call.now \in Nat
    BY <1>1, <1>3 DEF NewNodeLands, HeardInv, TypeOK, Calls
  <2>3. L \in Seq(heard \X Nat)
    <3>1. lru \in Seq(heard \X Nat)
      BY DEF HeardInv, Within
    <3> HIDE DEF p
    <3>2. QED
      BY <2>2, <3>1, RetouchWithin
  <2>4. Within(D, A, L, heard) /\ D = [q \in Peer |-> D[q]]
    BY <1>1, <2>2, <2>3 DEF HeardInv, Within, TypeOK
  <2> HIDE DEF D, A, L
  <2>5. QED
    BY <2>1, <2>4, FinishWithin DEF NoCall
<1>4. CASE CallFails
  BY <1>4 DEF CallFails, NoCall, HeardInv
<1>5. CASE Tick
  BY <1>5 DEF Tick, HeardInv
<1>6. QED
  BY <1>2, <1>3, <1>4, <1>5 DEF StatusStep

(* A packet of this chain makes its peer heard before its handler, or any  *)
(* that overtakes it, reaches the list.                                    *)
LEMMA HeardStep == HandlersOK /\ IInv /\ HeardInv /\ [ServerNext]_serverVars => HeardInv'
<1> SUFFICES ASSUME HandlersOK, IInv, HeardInv, [ServerNext]_serverVars
             PROVE  HeardInv'
  OBVIOUS
<1>1. ASSUME NEW k \in Packet, HandleProtocol(k)
      PROVE  HeardInv'
  <2>1. k.from \in Peer
    BY PacketAssumption
  <2>2. heard \subseteq heard' /\ heard' \subseteq Peer
    BY <1>1, <2>1 DEF HandleProtocol, HeardInv
  <2>3. \A h \in handlers' : OwnPacket(h.packet) => h.packet.from \in heard'
    BY <1>1, <2>2 DEF HandleProtocol, HeardInv, OwnPacket
  <2>4. lru \in Seq(heard' \X Nat)
    BY <2>2 DEF HeardInv, Within
  <2>5. UNCHANGED <<data, addressMap, lru, call>>
    BY <1>1 DEF HandleProtocol, vars
  <2>6. Within(data', addressMap', lru', heard')
    BY <2>2, <2>4, <2>5 DEF HeardInv, Within
  <2>7. QED
    BY <2>2, <2>3, <2>5, <2>6 DEF HeardInv
<1>2. ASSUME NEW h \in handlers, GetPeerInfo(h)
      PROVE  HeardInv'
  <2>1. [h EXCEPT !.st = "addrs"].packet = h.packet
    BY DEF HandlersOK
  <2>2. QED
    BY <1>2, <2>1 DEF GetPeerInfo, HeardInv, Within, vars
<1>3. ASSUME NEW h \in handlers, GivesUp(h)
      PROVE  HeardInv'
  BY <1>3 DEF GivesUp, HeardInv, Within, vars
<1>4. ASSUME NEW h \in handlers, FireHandlers(h)
      PROVE  HeardInv'
  <2>1. UNCHANGED heard /\ handlers' \subseteq handlers
    BY <1>4 DEF FireHandlers
  <2>2. CASE UNCHANGED vars
    BY <2>1, <2>2 DEF HeardInv, Within, vars
  <2>3. CASE /\ OwnPacket(h.packet)
             /\ \E p \in {h.packet.from}, m \in {h.packet.miner} :
                  HeartbeatKnown(p, m) \/ HeartbeatStale(p, m) \/ HeartbeatNew(p, m)
    <3>1. h.packet.from \in heard
      BY <2>3 DEF HeardInv
    <3>2. QED
      BY <2>1, <2>3, <3>1, HeartbeatHeard DEF HeardInv
  <2>4. QED
    BY <1>4, <2>2, <2>3 DEF FireHandlers, ConsumeHeartbeat, IsValid, OwnGenesis, OwnPacket
<1>5. CASE StatusStep /\ UNCHANGED <<handlers, heard>>
  BY <1>5, StatusStepHeard DEF HeardInv
<1>6. CASE UNCHANGED serverVars
  BY <1>6 DEF serverVars, vars, HeardInv, Within
<1>7. QED
  BY <1>1, <1>2, <1>3, <1>4, <1>5, <1>6 DEF ServerNext

LEMMA HeardInit == ServerInit => HeardInv
  BY DEF ServerInit, Init, HeardInv, Within, NoCall

(* No peer is listed, found by an address or evicted for another, unless a *)
(* packet of its own was complete and named this chain's genesis, for any  *)
(* peers, packets, number of handlers at once, failures and limits.        *)
THEOREM HeardOnly == ServerSpec => []OnlyHeardAreListed
<1>1. ServerSpec => []IInv
  BY ServerImplementsStatus, Invariance, PTL
<1>2. ServerSpec => []HeardInv
  BY <1>1, AlwaysHandlersOK, HeardInit, HeardStep, PTL DEF ServerSpec
<1>3. IInv /\ HeardInv => OnlyHeardAreListed
  <2> SUFFICES ASSUME IInv, HeardInv
               PROVE  OnlyHeardAreListed
    OBVIOUS
  <2>1. \A i \in 1..Len(lru) : lru[i] \in heard \X Nat
    BY DEF HeardInv, Within
  <2>2. QED
    BY <2>1 DEF HeardInv, Within, OnlyHeardAreListed, Known
<1>4. QED
  BY <1>1, <1>2, <1>3, PTL
=============================================================================
