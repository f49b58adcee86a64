---------------------------- MODULE ChainWalkProofs ----------------------------
(***************************************************************************)
(* The walk of ls fetches no block twice, and the latest first, below any  *)
(* head of any chain; it returns those that are confirmed, from the top.   *)
(* What is kept of the calls for each miner is what the node answered, and *)
(* a poll has finitely many steps.                                         *)
(***************************************************************************)
EXTENDS MinerCalls, FoldFacts

(* What has been found is of the head's tipset or a parent, and is there   *)
(* once: U has been fetched, Q waits.                                      *)
Distinct(U, Q) ==
  /\ \A i, j \in 1..Len(U) : U[i] = U[j] => i = j
  /\ \A i, j \in 1..Len(Q) : Q[i] = Q[j] => i = j
  /\ \A i \in 1..Len(U), j \in 1..Len(Q) : U[i] # Q[j]

Found(q) == \A i \in 1..Len(q) : q[i] \in tipset \cup insertedParents

FetchInv ==
  /\ tipset \in Heads /\ insertedParents \subseteq Block
  /\ heads \in Seq(Block) /\ unconfBlocks \in Seq(Block)
  /\ \A p \in insertedParents, b \in tipset : Height[p] < Height[b]
  /\ Found(heads) /\ Found(unconfBlocks)
  /\ Distinct(unconfBlocks, heads)

(* Of two blocks that wait, the second is of the same tipset as the first  *)
(* or one of its parents, and then no parent of the first is new.          *)
Level(q, P) ==
  \A i, j \in 1..Len(q) : i < j =>
    \/ Height[q[j]] = Height[q[i]] /\ Parents[q[j]] = Parents[q[i]]
    \/ q[j] \in Parents[q[i]] /\ Parents[q[i]] \subseteq P

Descends(q) == \A i, j \in 1..Len(q) : i < j => Height[q[i]] >= Height[q[j]]
Above(U, Q) == \A i \in 1..Len(U), j \in 1..Len(Q) : Height[U[i]] >= Height[Q[j]]

OrderInv ==
  /\ Level(heads, insertedParents)
  /\ Descends(unconfBlocks) /\ Above(unconfBlocks, heads)

WalkInv == FetchInv /\ OrderInv

--------------------------------------------------------------------------------
(* The order in which a set of blocks is put into the queue. *)
LEMMA SetToSeqsOrders ==
  ASSUME NEW S \in SUBSET Block, NEW q \in SetToSeqs(S)
  PROVE  /\ q \in Seq(Block)
         /\ \A i \in 1..Len(q) : q[i] \in S
         /\ \A i, j \in 1..Len(q) : q[i] = q[j] => i = j
         /\ \A b \in S : \E i \in 1..Len(q) : q[i] = b
<1>1. IsFiniteSet(S)
  BY DagAssumption, FS_Subset
<1>2. Cardinality(S) \in Nat
  BY <1>1, FS_CardinalityType
<1>3. /\ q \in [1..Cardinality(S) -> S]
      /\ \A i, j \in 1..Cardinality(S) : i # j => q[i] # q[j]
  BY DEF SetToSeqs
<1>4. q \in Seq(S) /\ Len(q) = Cardinality(S)
  BY <1>2, <1>3
<1> DEFINE D == 1..Cardinality(S)
<1>5. \A b \in S : \E i \in D : q[i] = b
  <2>1. IsFiniteSet(D) /\ Cardinality(D) = Cardinality(S)
    BY <1>2, FS_Interval
  <2>2. q \in Injection(D, S)
    BY <1>3 DEF Injection, IsInjective
  <2> HIDE DEF D
  <2>3. q \in Surjection(D, S)
    BY <1>1, <2>1, <2>2, FS_Injection
  <2>4. QED
    BY <2>3 DEF Surjection
<1>6. QED
  BY <1>3, <1>4, <1>5, SeqMonotonic

LEMMA InitWalk == Init => WalkInv
<1> SUFFICES ASSUME Init PROVE WalkInv
  OBVIOUS
<1>1. tipset \in Heads /\ tipset \in SUBSET Block /\ IsTipset(tipset)
  BY DagAssumption DEF Init
<1>2. /\ heads \in Seq(Block) /\ \A i \in 1..Len(heads) : heads[i] \in tipset
      /\ \A i, j \in 1..Len(heads) : heads[i] = heads[j] => i = j
  BY <1>1, SetToSeqsOrders DEF Init
<1>3. unconfBlocks = <<>> /\ insertedParents = {}
  BY DEF Init
<1>4. FetchInv
  BY <1>1, <1>2, <1>3 DEF FetchInv, Found, Distinct
<1>5. OrderInv
  BY <1>1, <1>2, <1>3 DEF OrderInv, Level, Descends, Above, IsTipset
<1>6. QED
  BY <1>4, <1>5 DEF WalkInv

(* Fetching a block takes the first of the queue. *)
LEMMA TailOf ==
  ASSUME NEW q \in Seq(Block), q # <<>>
  PROVE  /\ Head(q) \in Block /\ Head(q) = q[1] /\ Tail(q) \in Seq(Block)
         /\ Len(q) \in Nat /\ Len(q) > 0
         /\ Len(Tail(q)) = Len(q) - 1
         /\ \A i \in 1..Len(Tail(q)) : i + 1 \in 1..Len(q) /\ Tail(q)[i] = q[i + 1]
BY HeadTailProperties, LenProperties

LEMMA DropWalk == WalkInv /\ Drop => WalkInv'
<1> SUFFICES ASSUME WalkInv, Drop PROVE WalkInv'
  OBVIOUS
<1> DEFINE t == Tail(heads)
<1>1. /\ heads \in Seq(Block) /\ heads # <<>> /\ heads' = t
      /\ UNCHANGED <<tipset, insertedParents, unconfBlocks>>
  BY DEF WalkInv, FetchInv, Drop
<1>2. /\ t \in Seq(Block) /\ Len(t) \in Nat
      /\ \A i \in 1..Len(t) : i + 1 \in 1..Len(heads) /\ t[i] = heads[i + 1]
  BY <1>1, TailOf, LenProperties
<1> HIDE DEF t
<1>3. FetchInv'
  BY <1>1, <1>2 DEF WalkInv, FetchInv, Found, Distinct
<1>4. \A i, j \in 1..Len(t) : i < j => i + 1 < j + 1
  BY <1>2
<1>5. Level(t, insertedParents)
  BY <1>1, <1>2, <1>4 DEF WalkInv, OrderInv, Level
<1>6. Above(unconfBlocks, t)
  BY <1>1, <1>2 DEF WalkInv, OrderInv, Above
<1>7. OrderInv'
  BY <1>1, <1>5, <1>6 DEF WalkInv, OrderInv, Level, Descends, Above
<1>8. QED
  BY <1>3, <1>7 DEF WalkInv

LEMMA VisitWalk == WalkInv /\ Visit => WalkInv'
<1> SUFFICES ASSUME WalkInv, Visit PROVE WalkInv'
  OBVIOUS
<1> DEFINE b == Head(heads)
           t == Tail(heads)
<1>1. /\ heads \in Seq(Block) /\ heads # <<>> /\ unconfBlocks \in Seq(Block)
      /\ insertedParents \subseteq Block
      /\ insertedParents' = insertedParents \cup Parents[b]
      /\ unconfBlocks' = Append(unconfBlocks, b)
      /\ UNCHANGED tipset
  BY DEF WalkInv, FetchInv, Visit
<1>2. PICK new \in SetToSeqs(NewParents(b)) : heads' = t \o new
  BY DEF Visit
<1>3. /\ b \in Block /\ b = heads[1] /\ t \in Seq(Block) /\ Len(t) \in Nat
      /\ 1 \in 1..Len(heads)
      /\ \A i \in 1..Len(t) : /\ i + 1 \in 1..Len(heads) /\ 1 < i + 1
                             /\ t[i] = heads[i + 1]
      /\ \A i, j \in 1..Len(t) : (i < j => i + 1 < j + 1) /\ (i + 1 = j + 1 => i = j)
  BY <1>1, TailOf, LenProperties
<1>4. /\ Parents[b] \subseteq Block /\ NewParents(b) \subseteq Block
      /\ IsTipset(Parents[b])
      /\ \A p \in Parents[b] : Height[p] < Height[b]
      /\ \A c \in Block : Height[c] \in Nat
  BY <1>3, DagAssumption DEF NewParents
<1>5. /\ new \in Seq(Block) /\ Len(new) \in Nat
      /\ \A i \in 1..Len(new) : new[i] \in Parents[b] /\ new[i] \notin insertedParents
      /\ \A i, j \in 1..Len(new) : new[i] = new[j] => i = j
  BY <1>2, <1>4, SetToSeqsOrders, LenProperties DEF NewParents
<1>6. /\ heads' \in Seq(Block) /\ Len(heads') = Len(t) + Len(new)
      /\ \A i \in 1..Len(heads') :
           \/ i \in 1..Len(t) /\ heads'[i] = t[i]
           \/ i - Len(t) \in 1..Len(new) /\ heads'[i] = new[i - Len(t)]
  BY <1>2, <1>3, <1>5, ConcatProperties
<1>7. /\ unconfBlocks' \in Seq(Block) /\ Len(unconfBlocks) \in Nat
      /\ Len(unconfBlocks') = Len(unconfBlocks) + 1
      /\ \A i \in 1..Len(unconfBlocks') :
           \/ i \in 1..Len(unconfBlocks) /\ unconfBlocks'[i] = unconfBlocks[i]
           \/ i = Len(unconfBlocks') /\ unconfBlocks'[i] = b
  BY <1>1, <1>3, AppendProperties, LenProperties
<1> HIDE DEF b, t
<1>8. b \in tipset \cup insertedParents /\ tipset \subseteq Block /\ IsTipset(tipset)
  BY <1>3, DagAssumption DEF WalkInv, FetchInv, Found
<1>9. \A p \in insertedParents', c \in tipset' : Height[p] < Height[c]
  <2>1. \A c \in tipset : Height[b] <= Height[c]
    BY <1>4, <1>8, <1>3 DEF WalkInv, FetchInv, IsTipset
  <2>2. \A p \in Parents[b], c \in tipset : Height[p] < Height[c]
    BY <2>1, <1>3, <1>4, <1>8
  <2>3. QED
    BY <2>2, <1>1 DEF WalkInv, FetchInv
<1>10. Found(heads)' /\ Found(unconfBlocks)'
  <2>1. \A i \in 1..Len(t) : t[i] \in tipset \cup insertedParents
    BY <1>3 DEF WalkInv, FetchInv, Found
  <2>2. QED
    BY <2>1, <1>1, <1>5, <1>6, <1>7, <1>8 DEF WalkInv, FetchInv, Found
<1>11. \A i \in 1..Len(new) : new[i] \notin tipset \cup insertedParents
  BY <1>1, <1>4, <1>5, <1>8, <1>9
<1>12. Distinct(unconfBlocks, heads)'
  <2>1. /\ \A i, j \in 1..Len(t) : t[i] = t[j] => i = j
        /\ \A i \in 1..Len(t) : t[i] # b /\ t[i] \in tipset \cup insertedParents
        /\ \A i \in 1..Len(unconfBlocks) :
             /\ unconfBlocks[i] # b /\ unconfBlocks[i] \in tipset \cup insertedParents
             /\ \A j \in 1..Len(t) : unconfBlocks[i] # t[j]
    <3>1. Distinct(unconfBlocks, heads) /\ Found(heads) /\ Found(unconfBlocks)
      BY DEF WalkInv, FetchInv
    <3>2. \A i, j \in 1..Len(t) : t[i] = t[j] => i = j
      <4> SUFFICES ASSUME NEW i \in 1..Len(t), NEW j \in 1..Len(t), t[i] = t[j]
                   PROVE  i = j
        OBVIOUS
      <4>1. i + 1 \in 1..Len(heads) /\ j + 1 \in 1..Len(heads) /\ heads[i + 1] = heads[j + 1]
        BY <1>3
      <4>2. i + 1 = j + 1
        BY <3>1, <4>1 DEF Distinct
      <4>3. QED
        BY <1>3, <4>2
    <3>3. ASSUME NEW i \in 1..Len(t)
          PROVE  t[i] # b /\ t[i] \in tipset \cup insertedParents
      <4>1. i + 1 \in 1..Len(heads) /\ 1 < i + 1 /\ t[i] = heads[i + 1]
        BY <1>3
      <4>2. heads[i + 1] # heads[1]
        BY <4>1, <3>1, <1>3 DEF Distinct
      <4>3. QED
        BY <4>1, <4>2, <3>1, <1>3 DEF Found
    <3>4. ASSUME NEW i \in 1..Len(unconfBlocks)
          PROVE  /\ unconfBlocks[i] # b /\ unconfBlocks[i] \in tipset \cup insertedParents
                 /\ \A j \in 1..Len(t) : unconfBlocks[i] # t[j]
      BY <3>1, <1>3 DEF Distinct, Found
    <3>5. QED
      BY <3>2, <3>3, <3>4
  <2>2. \A i, j \in 1..Len(heads') : heads'[i] = heads'[j] => i = j
    <3> SUFFICES ASSUME NEW i \in 1..Len(heads'), NEW j \in 1..Len(heads'),
                        heads'[i] = heads'[j]
                 PROVE  i = j
      OBVIOUS
    <3>1. CASE i \in 1..Len(t) /\ heads'[i] = t[i] /\ j \in 1..Len(t) /\ heads'[j] = t[j]
      BY <3>1, <2>1
    <3>2. CASE /\ i - Len(t) \in 1..Len(new) /\ heads'[i] = new[i - Len(t)]
               /\ j - Len(t) \in 1..Len(new) /\ heads'[j] = new[j - Len(t)]
      <4>1. i - Len(t) = j - Len(t)
        BY <3>2, <1>5
      <4>2. QED
        BY <4>1, <1>3, <1>5, <1>6
    <3>3. \A k \in 1..Len(t), m \in 1..Len(new) : t[k] # new[m]
      BY <2>1, <1>11
    <3>4. QED
      BY <3>1, <3>2, <3>3, <1>6
  <2>3. \A i, j \in 1..Len(unconfBlocks') : unconfBlocks'[i] = unconfBlocks'[j] => i = j
    BY <2>1, <1>7 DEF WalkInv, FetchInv, Distinct
  <2>4. \A i \in 1..Len(unconfBlocks'), j \in 1..Len(heads') : unconfBlocks'[i] # heads'[j]
    BY <2>1, <1>5, <1>6, <1>7, <1>8, <1>11
  <2>5. QED
    BY <2>2, <2>3, <2>4 DEF Distinct
<1>13. FetchInv'
  BY <1>1, <1>4, <1>6, <1>7, <1>9, <1>10, <1>12 DEF WalkInv, FetchInv
(* The first of the queue and those behind it. *)
<1>14. \A i \in 1..Len(t) :
         \/ Height[t[i]] = Height[b] /\ Parents[t[i]] = Parents[b]
         \/ t[i] \in Parents[b] /\ Parents[b] \subseteq insertedParents
  BY <1>3 DEF WalkInv, OrderInv, Level
<1>15. Level(heads, insertedParents)'
  <2> SUFFICES ASSUME NEW i \in 1..Len(heads'), NEW j \in 1..Len(heads'), i < j
               PROVE  \/ /\ Height[heads'[j]] = Height[heads'[i]]
                         /\ Parents[heads'[j]] = Parents[heads'[i]]
                      \/ /\ heads'[j] \in Parents[heads'[i]]
                         /\ Parents[heads'[i]] \subseteq insertedParents'
    BY DEF Level
  <2>1. CASE j \in 1..Len(t)
    <3>1. i \in 1..Len(t) /\ heads'[i] = t[i] /\ heads'[j] = t[j]
      BY <2>1, <1>3, <1>5, <1>6
    <3>2. QED
      <4>1. /\ i + 1 \in 1..Len(heads) /\ j + 1 \in 1..Len(heads) /\ i + 1 < j + 1
            /\ t[i] = heads[i + 1] /\ t[j] = heads[j + 1]
        BY <3>1, <2>1, <1>3
      <4>2. \/ Height[t[j]] = Height[t[i]] /\ Parents[t[j]] = Parents[t[i]]
            \/ t[j] \in Parents[t[i]] /\ Parents[t[i]] \subseteq insertedParents
        BY <4>1 DEF WalkInv, OrderInv, Level
      <4>3. QED
        BY <4>2, <3>1, <1>1
  <2>2. CASE j - Len(t) \in 1..Len(new) /\ i \in 1..Len(t)
    <3>1. heads'[i] = t[i] /\ heads'[j] = new[j - Len(t)]
      BY <2>2, <1>3, <1>5, <1>6
    <3>2. heads'[j] \in Parents[b] /\ heads'[j] \notin insertedParents
      BY <3>1, <2>2, <1>5
    <3>3. Height[t[i]] = Height[b] /\ Parents[t[i]] = Parents[b]
      BY <3>2, <2>2, <1>14
    <3>4. QED
      BY <3>1, <3>2, <3>3, <1>1
  <2>3. CASE j - Len(t) \in 1..Len(new) /\ i - Len(t) \in 1..Len(new)
    <3>1. heads'[i] = new[i - Len(t)] /\ heads'[j] = new[j - Len(t)]
      BY <2>3, <1>3, <1>5, <1>6
    <3>2. heads'[i] \in Parents[b] /\ heads'[j] \in Parents[b]
      BY <3>1, <2>3, <1>5
    <3>3. QED
      BY <3>2, <1>4 DEF IsTipset
  <2>4. QED
    BY <2>1, <2>2, <2>3, <1>6
<1>16. \A i \in 1..Len(heads') : Height[b] >= Height[heads'[i]]
  <2>1. \A p \in Parents[b] : Height[b] >= Height[p]
    BY <1>3, <1>4
  <2>2. \A i \in 1..Len(t) : Height[b] >= Height[t[i]]
    BY <2>1, <1>3, <1>4, <1>14
  <2>3. \A i \in 1..Len(new) : Height[b] >= Height[new[i]]
    BY <2>1, <1>5
  <2>4. QED
    BY <2>2, <2>3, <1>6
<1>17. \A i \in 1..Len(unconfBlocks) : Height[unconfBlocks[i]] >= Height[b]
  BY <1>3 DEF WalkInv, OrderInv, Above
<1>18. Descends(unconfBlocks)'
  BY <1>7, <1>17 DEF WalkInv, OrderInv, Descends
<1>19. Above(unconfBlocks, heads)'
  <2>1. \A i \in 1..Len(unconfBlocks) : unconfBlocks[i] \in Block
    BY <1>1, ElementOfSeq
  <2>2. \A i \in 1..Len(heads') : heads'[i] \in Block
    BY <1>6, ElementOfSeq
  <2>3. QED
    <3> SUFFICES ASSUME NEW i \in 1..Len(unconfBlocks'), NEW j \in 1..Len(heads')
                 PROVE  Height[unconfBlocks'[i]] >= Height[heads'[j]]
      BY DEF Above
    <3>1. CASE unconfBlocks'[i] = b
      BY <3>1, <1>16
    <3>2. CASE i \in 1..Len(unconfBlocks) /\ unconfBlocks'[i] = unconfBlocks[i]
      <4>1. /\ Height[unconfBlocks[i]] \in Nat /\ Height[b] \in Nat /\ Height[heads'[j]] \in Nat
        BY <3>2, <2>1, <2>2, <1>3, <1>4
      <4>2. Height[unconfBlocks[i]] >= Height[b] /\ Height[b] >= Height[heads'[j]]
        BY <3>2, <1>16, <1>17
      <4>3. QED
        BY <4>1, <4>2, <3>2
    <3>3. QED
      BY <3>1, <3>2, <1>7
<1>20. QED
  BY <1>13, <1>15, <1>18, <1>19 DEF WalkInv, OrderInv

--------------------------------------------------------------------------------
LEMMA WalkStep == WalkInv /\ [Next]_vars => WalkInv'
<1> SUFFICES ASSUME WalkInv, [Next]_vars PROVE WalkInv'
  OBVIOUS
<1>1. ASSUME UNCHANGED <<tipset, heads, insertedParents, unconfBlocks>>
      PROVE  WalkInv'
  BY <1>1 DEF WalkInv, FetchInv, OrderInv, Found, Distinct, Level, Descends, Above
<1>2. CASE Return \/ InflateThrows \/ Fail
  BY <1>1, <1>2 DEF Return, InflateThrows, Fail, WalkFails
<1>3. CASE UNCHANGED vars
  BY <1>1, <1>3 DEF vars
<1>4. QED
  BY <1>2, <1>3, DropWalk, VisitWalk DEF Next

LEMMA FetchInvFetchesOnce == FetchInv => FetchedOnce
<1> SUFFICES ASSUME FetchInv PROVE FetchedOnce
  OBVIOUS
<1> DEFINE q == unconfBlocks \o heads
<1>1. /\ unconfBlocks \in Seq(Block) /\ heads \in Seq(Block)
      /\ Len(unconfBlocks) \in Nat /\ Len(heads) \in Nat
  BY LenProperties DEF FetchInv
<1>2. /\ DOMAIN q = 1..(Len(unconfBlocks) + Len(heads))
      /\ \A i \in DOMAIN q :
           \/ i \in 1..Len(unconfBlocks) /\ q[i] = unconfBlocks[i]
           \/ i - Len(unconfBlocks) \in 1..Len(heads) /\ q[i] = heads[i - Len(unconfBlocks)]
  BY <1>1, ConcatProperties, LenProperties
<1> HIDE DEF q
<1>3. \A i, j \in DOMAIN q : q[i] = q[j] => i = j
  BY <1>1, <1>2 DEF FetchInv, Distinct
<1>4. QED
  BY <1>3 DEF FetchedOnce, IsInjective, q

(* A poll is a walk, as far as the walk's variables go. *)
LEMMA PollWalks == PollSpec => []WalkInv
<1>1. PollInit => WalkInv
  BY InitWalk DEF PollInit
<1>2. WalkInv /\ [PollNext]_<<vars, callVars>> => WalkInv'
  BY WalkStep DEF PollNext
<1>3. QED
  BY <1>1, <1>2, PTL DEF PollSpec

(* No block is fetched twice in a walk, however its tipsets share their    *)
(* parents (ChainClient.ts, insertedParents).                              *)
THEOREM FetchesOnce == PollSpec => []FetchedOnce
BY PollWalks, FetchInvFetchesOnce, PTL DEF WalkInv

(* The blocks above toBlock are found from the top down: what ls selects   *)
(* of them has the top block first, as Chainsaw.processBlocks takes it.    *)
THEOREM FindsFromTheTop == PollSpec => []Descends(unconfBlocks)
<1>1. WalkInv => Descends(unconfBlocks)
  BY DEF WalkInv, OrderInv
<1>2. QED
  BY <1>1, PollWalks, PTL

--------------------------------------------------------------------------------
(* What the walk reaches *)

LEMMA InitReach == Init => HeightsInv /\ ReachInv
<1> SUFFICES ASSUME Init PROVE HeightsInv /\ ReachInv
  OBVIOUS
<1>1. tipset \in Heads /\ tipset \in SUBSET Block /\ toBlock \in Nat
  BY DagAssumption, ChainWalkAssumption DEF Init
<1>2. heads \in Seq(Block) /\ \A b \in tipset : \E i \in 1..Len(heads) : heads[i] = b
  BY <1>1, SetToSeqsOrders DEF Init
<1>3. ToSet(unconfBlocks) = {} /\ ToSet(heights) = {} /\ tipset \subseteq ToSet(heads)
  BY <1>2 DEF Init, ToSet
<1>4. heights \in Seq(Nat) /\ Len(heights) = 0
  BY DEF Init
<1>5. HeightsInv
  BY <1>3, <1>4 DEF HeightsInv, HeightsOf
<1>6. ReachInv
  BY <1>1, <1>3 DEF Init, ReachInv, Reached, Returned
<1>7. QED
  BY <1>5, <1>6

(* A sequence's first element, and those of the rest. *)
LEMMA SetOfRest ==
  ASSUME NEW q, NEW t, NEW b, Len(q) \in Nat, Len(t) \in Nat, Len(q) = Len(t) + 1,
         DOMAIN q = 1..Len(q), DOMAIN t = 1..Len(t), q[1] = b,
         \A i \in 1..Len(t) : q[i + 1] = t[i]
  PROVE  ToSet(q) = {b} \cup ToSet(t)
<1>1. ASSUME NEW i \in 1..Len(q)
      PROVE  q[i] \in {b} \cup ToSet(t)
  <2>1. CASE i = 1
    BY <2>1
  <2>2. CASE i # 1
    <3>1. i - 1 \in 1..Len(t) /\ (i - 1) + 1 = i
      BY <2>2
    <3>2. q[i] = t[i - 1]
      BY <3>1
    <3>3. QED
      BY <3>1, <3>2 DEF ToSet
  <2>3. QED
    BY <2>1, <2>2
<1>2. ASSUME NEW i \in 1..Len(t)
      PROVE  t[i] \in ToSet(q)
  <2>1. i + 1 \in 1..Len(q)
    OBVIOUS
  <2>2. QED
    BY <2>1 DEF ToSet
<1>3. b \in ToSet(q)
  BY 1 \in 1..Len(q) DEF ToSet
<1>4. QED
  BY <1>1, <1>2, <1>3 DEF ToSet

(* The elements of two sequences that are joined. *)
LEMMA SetOfJoin ==
  ASSUME NEW E, NEW t \in Seq(E), NEW new \in Seq(E)
  PROVE  t \o new \in Seq(E) /\ ToSet(t \o new) = ToSet(t) \cup ToSet(new)
<1> DEFINE q == t \o new
<1>1. /\ q \in Seq(E) /\ Len(q) = Len(t) + Len(new)
      /\ Len(t) \in Nat /\ Len(new) \in Nat
  BY ConcatProperties, LenProperties
<1>2. \A i \in 1..(Len(t) + Len(new)) : q[i] = IF i <= Len(t) THEN t[i] ELSE new[i - Len(t)]
  BY ConcatProperties
<1>3. DOMAIN q = 1..Len(q) /\ DOMAIN t = 1..Len(t) /\ DOMAIN new = 1..Len(new)
  BY <1>1
<1> HIDE DEF q
<1>4. \A i \in 1..Len(t) : i \in 1..Len(q) /\ q[i] = t[i]
  BY <1>1, <1>2
<1>5. \A i \in 1..Len(new) : Len(t) + i \in 1..Len(q) /\ q[Len(t) + i] = new[i]
  BY <1>1, <1>2
<1>6. \A i \in 1..Len(q) : \/ i \in 1..Len(t) /\ q[i] = t[i]
                           \/ i - Len(t) \in 1..Len(new) /\ q[i] = new[i - Len(t)]
  BY <1>1, <1>2
<1>7. ToSet(t) \cup ToSet(new) \subseteq ToSet(q)
  BY <1>3, <1>4, <1>5 DEF ToSet
<1>8. ASSUME NEW i \in 1..Len(q)
      PROVE  q[i] \in ToSet(t) \cup ToSet(new)
  BY <1>3, <1>6 DEF ToSet
<1>9. ToSet(q) = ToSet(t) \cup ToSet(new)
  BY <1>3, <1>7, <1>8 DEF ToSet
<1>10. QED
  BY <1>1, <1>9 DEF q

(* A block that is dropped is not above toBlock. *)
LEMMA DropReach == WalkInv /\ HeightsInv /\ ReachInv /\ Drop => HeightsInv' /\ ReachInv'
<1> SUFFICES ASSUME WalkInv, HeightsInv, ReachInv, Drop PROVE HeightsInv' /\ ReachInv'
  OBVIOUS
<1> DEFINE b == Head(heads)
           t == Tail(heads)
<1>1. /\ heads \in Seq(Block) /\ heads # <<>> /\ heads' = t /\ Height[b] <= toBlock
      /\ status = "walking"
      /\ UNCHANGED <<tipset, toBlock, insertedParents, unconfBlocks, heights, status, result>>
  BY DEF WalkInv, FetchInv, Drop
<1>2. ToSet(heads) = {b} \cup ToSet(t)
  <2>1. /\ b = heads[1] /\ t \in Seq(Block) /\ Len(heads) \in Nat /\ Len(heads) > 0
        /\ Len(t) = Len(heads) - 1
        /\ \A i \in 1..Len(t) : i + 1 \in 1..Len(heads) /\ t[i] = heads[i + 1]
    BY <1>1, TailOf
  <2> HIDE DEF b, t
  <2>2. DOMAIN heads = 1..Len(heads) /\ DOMAIN t = 1..Len(t) /\ Len(t) \in Nat
    BY <1>1, <2>1
  <2>3. QED
    BY <2>1, <2>2, SetOfRest
<1> HIDE DEF b, t
<1>3. \A c \in tipset \cup insertedParents : Reached(c)'
  BY <1>1, <1>2 DEF ReachInv, Reached
<1>4. ReachInv'
  BY <1>1, <1>3 DEF ReachInv, Returned
<1>5. HeightsInv'
  BY <1>1 DEF HeightsInv
<1>6. QED
  BY <1>4, <1>5

(* A block that is kept is the lowest so far: its height is the first of   *)
(* heights, or is put before it.                                           *)
LEMMA VisitHeights ==
  ASSUME HeightsInv, NEW b \in Block, \A u \in ToSet(unconfBlocks) : Height[u] >= Height[b],
         ToSet(unconfBlocks) \subseteq Block, ToSet(unconfBlocks') = ToSet(unconfBlocks) \cup {b},
         heights' = IF SeenHeight(Height[b]) THEN heights ELSE Cons(Height[b], heights)
  PROVE  HeightsInv'
<1> DEFINE h == Height[b]
           H == HeightsOf(ToSet(unconfBlocks))
<1>1. /\ h \in Nat /\ heights \in Seq(Nat) /\ Len(heights) \in Nat
      /\ DOMAIN heights = 1..Len(heights)
  BY DagAssumption, LenProperties DEF HeightsInv
<1>2. ToSet(heights) = H /\ \A i \in 1..Len(heights) : heights[i] \in H
  BY <1>1 DEF HeightsInv, ToSet
<1>3. HeightsOf(ToSet(unconfBlocks')) = H \cup {h}
  BY DEF HeightsOf
<1>4. \A i \in 1..Len(heights) : heights[i] >= h
  BY <1>2 DEF HeightsOf
<1> HIDE DEF h, H
<1>5. CASE SeenHeight(h)
  <2>1. heights # <<>> /\ heights[1] = h /\ 1 \in 1..Len(heights)
    BY <1>1, <1>5 DEF SeenHeight
  <2>2. h \in H /\ heights' = heights
    BY <1>2, <1>5, <2>1 DEF h
  <2>3. QED
    BY <1>2, <1>3, <2>2 DEF HeightsInv
<1>6. CASE ~ SeenHeight(h)
  <2> DEFINE g == Cons(h, heights)
  <2>1. /\ g \in Seq(Nat) /\ Len(g) = Len(heights) + 1 /\ g[1] = h
        /\ \A i \in 1..Len(heights) : i + 1 \in 1..Len(g) /\ g[i + 1] = heights[i]
        /\ \A i \in 1..Len(g) : i # 1 => i - 1 \in 1..Len(heights) /\ g[i] = heights[i - 1]
        /\ DOMAIN g = 1..Len(g) /\ 1 \in 1..Len(g)
    BY <1>1 DEF Cons
  <2> HIDE DEF g
  <2>2. \A i \in 1..Len(heights) : heights[i] > h
    <3>1. ASSUME NEW i \in 1..Len(heights), heights[i] = h
          PROVE  FALSE
      <4>1. 1 \in 1..Len(heights) /\ heights # <<>> /\ Head(heights) = heights[1]
        BY <1>1
      <4>2. heights[1] # h
        BY <1>6, <4>1 DEF SeenHeight
      <4>3. 1 < i
        BY <3>1, <4>2
      <4>4. heights[1] < heights[i] /\ heights[1] >= h /\ heights[1] \in Nat
        BY <1>1, <1>4, <4>1, <4>3 DEF HeightsInv
      <4>5. QED
        BY <1>1, <3>1, <4>4
    <3>2. \A i \in 1..Len(heights) : heights[i] \in Nat
      BY <1>1
    <3>3. QED
      BY <1>1, <1>4, <3>1, <3>2
  <2>3. ASSUME NEW i \in 1..Len(g), NEW j \in 1..Len(g), i < j
        PROVE  g[i] < g[j]
    <3>1. j - 1 \in 1..Len(heights) /\ g[j] = heights[j - 1]
      BY <2>1, <2>3
    <3>2. CASE i = 1
      BY <2>1, <2>2, <3>1, <3>2
    <3>3. CASE i # 1
      <4>1. i - 1 \in 1..Len(heights) /\ g[i] = heights[i - 1] /\ i - 1 < j - 1
        BY <2>1, <2>3, <3>3
      <4>2. QED
        BY <3>1, <4>1 DEF HeightsInv
    <3>4. QED
      BY <3>2, <3>3
  <2>4. ToSet(g) = ToSet(heights) \cup {h}
    <3>1. Len(g) \in Nat /\ \A i \in 1..Len(heights) : g[i + 1] = heights[i]
      BY <1>1, <2>1
    <3>2. ToSet(g) = {h} \cup ToSet(heights)
      BY <1>1, <2>1, <3>1, SetOfRest
    <3>3. QED
      BY <3>2
  <2>5. heights' = g
    BY <1>6 DEF g, h
  <2>6. QED
    BY <1>2, <1>3, <2>1, <2>3, <2>4, <2>5 DEF HeightsInv
<1>7. QED
  BY <1>5, <1>6

LEMMA VisitReach == WalkInv /\ HeightsInv /\ ReachInv /\ Visit => HeightsInv' /\ ReachInv'
<1> SUFFICES ASSUME WalkInv, HeightsInv, ReachInv, Visit PROVE HeightsInv' /\ ReachInv'
  OBVIOUS
<1> DEFINE b == Head(heads)
           t == Tail(heads)
           U == ToSet(unconfBlocks)
<1>1. /\ heads \in Seq(Block) /\ heads # <<>> /\ unconfBlocks \in Seq(Block)
      /\ insertedParents \subseteq Block
      /\ insertedParents' = insertedParents \cup Parents[b]
      /\ unconfBlocks' = Append(unconfBlocks, b) /\ Height[b] > toBlock
      /\ heights' = IF SeenHeight(Height[b]) THEN heights ELSE Cons(Height[b], heights)
      /\ status = "walking" /\ UNCHANGED <<tipset, toBlock, status, result>>
  BY DEF WalkInv, FetchInv, Visit
<1>2. PICK new \in SetToSeqs(NewParents(b)) : heads' = t \o new
  BY DEF Visit
<1>3. /\ b \in Block /\ b = heads[1] /\ t \in Seq(Block)
      /\ Len(heads) \in Nat /\ Len(heads) > 0 /\ Len(t) = Len(heads) - 1
      /\ \A i \in 1..Len(t) : i + 1 \in 1..Len(heads) /\ t[i] = heads[i + 1]
  BY <1>1, TailOf
<1> HIDE DEF b, t
<1>4. NewParents(b) \in SUBSET Block
  BY <1>3, DagAssumption DEF NewParents
<1>5. new \in Seq(Block) /\ ToSet(new) = NewParents(b)
  <2>1. /\ new \in Seq(Block)
        /\ \A i \in 1..Len(new) : new[i] \in NewParents(b)
        /\ \A p \in NewParents(b) : \E i \in 1..Len(new) : new[i] = p
    BY <1>2, <1>4, SetToSeqsOrders
  <2>2. DOMAIN new = 1..Len(new)
    BY <2>1
  <2>3. QED
    BY <2>1, <2>2 DEF ToSet
<1>6. ToSet(heads) = {b} \cup ToSet(t)
  <2>1. DOMAIN heads = 1..Len(heads) /\ DOMAIN t = 1..Len(t) /\ Len(t) \in Nat
    BY <1>1, <1>3
  <2>2. QED
    BY <1>3, <2>1, SetOfRest
<1>7. ToSet(heads') = ToSet(t) \cup NewParents(b)
  BY <1>2, <1>3, <1>5, SetOfJoin
<1>8. ToSet(unconfBlocks') = U \cup {b}
  <2>1. /\ Len(unconfBlocks) \in Nat /\ Len(unconfBlocks') = Len(unconfBlocks) + 1
        /\ DOMAIN unconfBlocks = 1..Len(unconfBlocks)
        /\ DOMAIN unconfBlocks' = 1..Len(unconfBlocks')
        /\ unconfBlocks'[Len(unconfBlocks) + 1] = b
        /\ \A i \in 1..Len(unconfBlocks) : unconfBlocks'[i] = unconfBlocks[i]
    BY <1>1, <1>3, AppendProperties, LenProperties
  <2>2. \A i \in 1..Len(unconfBlocks') : i \in 1..Len(unconfBlocks) \/ i = Len(unconfBlocks) + 1
    BY <2>1
  <2>3. \A i \in 1..Len(unconfBlocks) : i \in 1..Len(unconfBlocks')
    BY <2>1
  <2>4. Len(unconfBlocks) + 1 \in 1..Len(unconfBlocks')
    BY <2>1
  <2>5. QED
    BY <2>1, <2>2, <2>3, <2>4 DEF ToSet
<1>9. HeightsInv'
  <2>1. U \subseteq Block /\ \A u \in U : Height[u] >= Height[b]
    <3>1. DOMAIN unconfBlocks = 1..Len(unconfBlocks) /\ 1 \in 1..Len(heads)
      BY <1>1, <1>3
    <3>2. \A i \in 1..Len(unconfBlocks) : unconfBlocks[i] \in Block
      BY <1>1
    <3>3. \A i \in 1..Len(unconfBlocks) : Height[unconfBlocks[i]] >= Height[heads[1]]
      BY <3>1 DEF WalkInv, OrderInv, Above
    <3>4. QED
      BY <1>3, <3>1, <3>2, <3>3 DEF ToSet
  <2>2. QED
    BY <1>1, <1>3, <1>8, <2>1, VisitHeights
<1>10. ReachInv'
  <2>1. tipset \in Heads /\ b \in tipset \cup insertedParents
    <3>1. 1 \in 1..Len(heads)
      BY <1>3
    <3>2. QED
      BY <1>3, <3>1 DEF WalkInv, FetchInv, Found
  <2>2. b \in Chain[tipset]
    BY <2>1, ChainAssumption DEF ReachInv
  <2>3. insertedParents' \subseteq Chain[tipset']
    BY <1>1, <2>1, <2>2, ChainAssumption DEF ReachInv
  <2>4. \A c \in tipset' \cup insertedParents' : Reached(c)'
    BY <1>1, <1>6, <1>7, <1>8 DEF ReachInv, Reached, NewParents
  <2>5. \A c \in ToSet(unconfBlocks') :
          Parents[c] \subseteq insertedParents' /\ Height[c] > toBlock'
    BY <1>1, <1>8 DEF ReachInv
  <2>6. QED
    BY <1>1, <2>3, <2>4, <2>5 DEF ReachInv, Returned
<1>11. QED
  BY <1>9, <1>10

LEMMA ReachStep ==
  WalkInv /\ HeightsInv /\ ReachInv /\ [Next]_vars => HeightsInv' /\ ReachInv'
<1> SUFFICES ASSUME WalkInv, HeightsInv, ReachInv, [Next]_vars
             PROVE  HeightsInv' /\ ReachInv'
  OBVIOUS
<1>1. ASSUME UNCHANGED <<tipset, toBlock, heads, insertedParents, heights, unconfBlocks>>,
             Returned' => heads' = <<>> /\ result' = Filter(unconfBlocks', Confirmed')
      PROVE  HeightsInv' /\ ReachInv'
  BY <1>1 DEF HeightsInv, ReachInv, Reached
<1>2. CASE Return
  BY <1>1, <1>2 DEF Return, Confirmed, PrunedHeights, Returned
<1>3. CASE InflateThrows \/ Fail
  BY <1>1, <1>3 DEF InflateThrows, Fail, WalkFails, Returned
<1>4. CASE UNCHANGED vars
  BY <1>1, <1>4 DEF vars, ReachInv, Confirmed, PrunedHeights, Returned
<1>5. QED
  BY <1>2, <1>3, <1>4, DropReach, VisitReach DEF Next

LEMMA PollReaches == PollSpec => [](WalkInv /\ HeightsInv /\ ReachInv)
<1>1. PollInit => HeightsInv /\ ReachInv
  BY InitReach DEF PollInit
<1>2. WalkInv /\ HeightsInv /\ ReachInv /\ [PollNext]_<<vars, callVars>>
        => HeightsInv' /\ ReachInv'
  BY ReachStep DEF PollNext
<1>3. QED
  BY <1>1, <1>2, PollWalks, PTL DEF PollSpec
--------------------------------------------------------------------------------
(* What ls returns *)

LEMMA ResultPicked ==
  WalkInv /\ ReachInv /\ Returned =>
    Picked(result, Block, unconfBlocks, Confirmed, Len(unconfBlocks))
BY FilterPicks DEF WalkInv, FetchInv, ReachInv

(* A filter leaves the order as it is, and what is there once. *)
LEMMA ReachTopFirst == WalkInv /\ ReachInv => TopFirstNoRepeats
<1> SUFFICES ASSUME WalkInv, ReachInv, Returned
             PROVE  /\ \A i, j \in 1..Len(result) : i < j => Height[result[i]] >= Height[result[j]]
                    /\ IsInjective(result)
  BY DEF TopFirstNoRepeats
<1>1. result \in Seq(Block) /\ DOMAIN result = 1..Len(result) /\ Len(result) \in Nat
  BY ResultPicked, LenProperties DEF Picked
<1>2. PICK at \in [1..Len(result) -> 1..Len(unconfBlocks)] :
        /\ \A i \in 1..Len(result) : result[i] = unconfBlocks[at[i]]
        /\ \A i, j \in 1..Len(result) : i < j => at[i] < at[j]
  BY ResultPicked DEF Picked
<1>3. \A i, j \in 1..Len(result) : i < j => Height[result[i]] >= Height[result[j]]
  BY <1>2 DEF WalkInv, OrderInv, Descends
<1>4. ASSUME NEW i \in 1..Len(result), NEW j \in 1..Len(result), result[i] = result[j]
      PROVE  i = j
  <2>1. at[i] = at[j]
    <3>1. at[i] \in 1..Len(unconfBlocks) /\ at[j] \in 1..Len(unconfBlocks)
      BY <1>2
    <3>2. unconfBlocks[at[i]] = unconfBlocks[at[j]]
      BY <1>2, <1>4
    <3>3. QED
      BY <3>1, <3>2 DEF WalkInv, FetchInv, Distinct
  <2>2. Len(unconfBlocks) \in Nat
    BY LenProperties DEF WalkInv, FetchInv
  <2>3. at[i] \in Nat /\ ~ (i < j) /\ ~ (j < i)
    BY <1>2, <2>1, <2>2
  <2>4. QED
    BY <1>1, <2>3
<1>5. QED
  BY <1>1, <1>3, <1>4 DEF IsInjective

(* When nothing waits, what has been fetched is all there is above         *)
(* toBlock: the blocks of the chain that were fetched or are not above it  *)
(* hold the tipset and their own parents.                                  *)
LEMMA WholeChain ==
  ASSUME WalkInv, ReachInv, Returned
  PROVE  ToSet(unconfBlocks) = Unconfirmed(tipset, toBlock)
<1> DEFINE U == ToSet(unconfBlocks)
           D == {b \in Chain[tipset] : b \in U \/ Height[b] <= toBlock}
<1>1. /\ tipset \in Heads /\ toBlock \in Nat /\ heads = <<>> /\ unconfBlocks \in Seq(Block)
      /\ tipset \subseteq Chain[tipset] /\ insertedParents \subseteq Chain[tipset]
      /\ Chain[tipset] \subseteq Block
  BY ChainAssumption DEF WalkInv, FetchInv, ReachInv
<1>2. \A b \in tipset \cup insertedParents : b \in D
  <2>1. ToSet(heads) = {}
    BY <1>1 DEF ToSet
  <2>2. QED
    BY <1>1, <2>1 DEF ReachInv, Reached
<1>3. ASSUME NEW b \in D
      PROVE  Parents[b] \subseteq D
  <2>1. CASE b \in U
    BY <1>2, <2>1 DEF ReachInv
  <2>2. CASE Height[b] <= toBlock
    <3>1. b \in Block /\ Height[b] \in Nat /\ Parents[b] \subseteq Block
      BY <1>1, DagAssumption
    <3>2. \A p \in Parents[b] : Height[p] < Height[b] /\ Height[p] \in Nat
      BY <3>1, DagAssumption
    <3>3. Parents[b] \subseteq Chain[tipset]
      BY <1>1, ChainAssumption
    <3>4. QED
      BY <1>1, <2>2, <3>1, <3>2, <3>3
  <2>3. QED
    BY <2>1, <2>2
<1>4. D = Chain[tipset]
  <2>1. D \in SUBSET Chain[tipset] /\ tipset \subseteq D
    BY <1>1, <1>2
  <2> HIDE DEF D
  <2>2. QED
    BY <1>1, <1>3, <2>1, ChainAssumption
<1>5. Unconfirmed(tipset, toBlock) \subseteq U
  <2>1. \A b \in Chain[tipset] : Height[b] \in Nat
    BY <1>1, DagAssumption
  <2>2. QED
    BY <1>1, <1>4, <2>1 DEF Unconfirmed
<1>6. ASSUME NEW u \in U
      PROVE  u \in Unconfirmed(tipset, toBlock)
  <2>1. u \in tipset \cup insertedParents
    BY <1>1, DOMAIN unconfBlocks = 1..Len(unconfBlocks) DEF WalkInv, FetchInv, Found, ToSet
  <2>2. Height[u] > toBlock
    BY DEF ReachInv
  <2>3. QED
    BY <1>1, <2>1, <2>2 DEF Unconfirmed
<1>7. QED
  BY <1>5, <1>6

(* Above the i-th of n heights there are n - i. *)
LEMMA HeightsAbove ==
  ASSUME HeightsInv, NEW i \in 1..Len(heights)
  PROVE  Cardinality({k \in ToSet(heights) : k > heights[i]}) = Len(heights) - i
<1> DEFINE n == Len(heights)
           J == i + 1 .. n
           S == {k \in ToSet(heights) : k > heights[i]}
           f == [j \in J |-> heights[j]]
<1>1. /\ n \in Nat /\ DOMAIN heights = 1..n /\ \A j \in 1..n : heights[j] \in Nat
      /\ J \subseteq 1..n /\ i \in Nat /\ i <= n
  BY LenProperties DEF HeightsInv
<1>2. \A j, k \in 1..n : j < k => heights[j] < heights[k]
  BY DEF HeightsInv
<1>3. \A j \in J : heights[j] \in S
  BY <1>1, <1>2 DEF ToSet
<1>4. \A j, k \in J : heights[j] = heights[k] => j = k
  BY <1>1, <1>2
<1>5. ASSUME NEW k \in S
      PROVE  \E j \in J : heights[j] = k
  <2>1. PICK j \in 1..n : heights[j] = k
    BY <1>1 DEF ToSet
  <2>2. heights[j] > heights[i]
    BY <2>1
  <2>3. j > i
    BY <1>1, <1>2, <2>2
  <2>4. QED
    BY <1>1, <2>1, <2>3
<1> HIDE DEF n, S
<1>6. f \in Bijection(J, S)
  BY <1>3, <1>4, <1>5 DEF Bijection, Injection, Surjection, IsInjective
<1>7. IsFiniteSet(J) /\ Cardinality(J) = n - i
  <2>1. i + 1 \in Int /\ n \in Int
    BY <1>1
  <2>2. IsFiniteSet(J) /\ Cardinality(J) = IF i + 1 > n THEN 0 ELSE n - (i + 1) + 1
    BY <2>1, FS_Interval
  <2>3. QED
    BY <1>1, <2>2
<1>8. Cardinality(S) = Cardinality(J)
  BY <1>6, <1>7, FS_Bijection DEF ExistsBijection
<1>9. QED
  BY <1>7, <1>8 DEF n, S

(* The third height from the top, when there is one, is what slice leaves  *)
(* last.                                                                   *)
LEMMA ThirdFromTheTop ==
  ASSUME WalkInv, HeightsInv, ReachInv, Returned
  PROVE  /\ PrunedHeights # <<>> => MaxHeights(tipset, toBlock) = {Last(PrunedHeights)}
         /\ PrunedHeights = <<>> => MaxHeights(tipset, toBlock) = {}
<1> DEFINE n == Len(heights)
           H == ToSet(heights)
<1>1. /\ n \in Nat /\ heights \in Seq(Nat) /\ DOMAIN heights = 1..n
      /\ \A i, j \in 1..n : i < j => heights[i] < heights[j]
      /\ \A i \in 1..n : heights[i] \in Nat
  BY LenProperties DEF HeightsInv
<1>2. MaxHeights(tipset, toBlock) = {m \in H : Cardinality({k \in H : k > m}) = 2}
  BY WholeChain DEF MaxHeights, HeightsInv, ConfirmationHeights
<1>3. \A i \in 1..n : Cardinality({k \in H : k > heights[i]}) = n - i
  BY HeightsAbove
<1>4. MaxHeights(tipset, toBlock) = {heights[i] : i \in {i \in 1..n : n - i = 2}}
  BY <1>1, <1>2, <1>3 DEF ToSet
<1>5. CASE n > 2
  <2>1. /\ PrunedHeights \in Seq(Nat) /\ Len(PrunedHeights) = n - 2
        /\ PrunedHeights[n - 2] = heights[n - 2]
    BY <1>1, <1>5, SubSeqProperties DEF PrunedHeights, ConfirmationHeights
  <2>2. Last(PrunedHeights) = heights[n - 2] /\ PrunedHeights # <<>>
    BY <1>1, <1>5, <2>1 DEF Last
  <2>3. {i \in 1..n : n - i = 2} = {n - 2}
    BY <1>1, <1>5
  <2>4. QED
    BY <1>4, <2>2, <2>3
<1>6. CASE ~ (n > 2)
  <2>1. PrunedHeights = <<>>
    BY <1>1, <1>6 DEF PrunedHeights, ConfirmationHeights
  <2>2. {i \in 1..n : n - i = 2} = {}
    BY <1>1, <1>6
  <2>3. QED
    BY <1>4, <2>1, <2>2
<1>7. QED
  BY <1>5, <1>6

LEMMA ReachConfirmed == WalkInv /\ HeightsInv /\ ReachInv => ReturnsConfirmed
<1> SUFFICES ASSUME WalkInv, HeightsInv, ReachInv, Returned
             PROVE  ToSet(result) =
                      UNION {UpTo(tipset, toBlock, m) : m \in MaxHeights(tipset, toBlock)}
  BY DEF ReturnsConfirmed
<1> DEFINE U == ToSet(unconfBlocks)
<1>1. U = Unconfirmed(tipset, toBlock)
  BY WholeChain
<1>2. U \subseteq Block
  BY DOMAIN unconfBlocks = 1..Len(unconfBlocks) DEF WalkInv, FetchInv, ToSet
<1>3. ToSet(result) = U \cap Confirmed
  <2>1. result \in Seq(Block) /\ unconfBlocks \in Seq(Block)
    BY ResultPicked DEF Picked, WalkInv, FetchInv
  <2>2. DOMAIN result = 1..Len(result) /\ DOMAIN unconfBlocks = 1..Len(unconfBlocks)
    BY <2>1
  <2>3. \A i \in 1..Len(result) : result[i] \in U /\ result[i] \in Confirmed
    BY <2>2, ResultPicked DEF Picked, ToSet
  <2>4. \A j \in 1..Len(unconfBlocks) :
           unconfBlocks[j] \in Confirmed => \E i \in 1..Len(result) : result[i] = unconfBlocks[j]
    BY ResultPicked DEF Picked
  <2>5. QED
    BY <2>2, <2>3, <2>4 DEF ToSet
<1>4. CASE PrunedHeights # <<>>
  <2>1. MaxHeights(tipset, toBlock) = {Last(PrunedHeights)}
    BY <1>4, ThirdFromTheTop
  <2>2. Confirmed = {b \in Block : Height[b] <= Last(PrunedHeights)}
    BY <1>4 DEF Confirmed
  <2>3. QED
    BY <1>1, <1>2, <1>3, <2>1, <2>2 DEF UpTo
<1>5. CASE PrunedHeights = <<>>
  BY <1>3, <1>5, ThirdFromTheTop DEF Confirmed
<1>6. QED
  BY <1>4, <1>5

(* What ls returns is what ChainIngest takes it to return: the blocks      *)
(* above toBlock up to the third height from the top, of any chain,        *)
(* although a tipset's blocks all name the same parents and a walk may     *)
(* fetch the blocks of a tipset in any order.                              *)
THEOREM ReturnsTheConfirmed == PollSpec => []ReturnsConfirmed
BY ReachConfirmed, PollReaches, PTL

(* The first block that ls returns is of the greatest height, and none is  *)
(* there twice.                                                            *)
THEOREM ReturnsTopFirst == PollSpec => []TopFirstNoRepeats
BY ReachTopFirst, PollReaches, PTL
--------------------------------------------------------------------------------
(* Who is asked about *)

LEMMA AddressAdded ==
  ASSUME NEW E, NEW found \in Seq(E), NEW a \in E
  PROVE  /\ AddAddress(found, a) \in Seq(E)
         /\ ToSet(found) \cup {a} \subseteq ToSet(AddAddress(found, a))
<1>1. CASE a \in ToSet(found)
  BY <1>1 DEF AddAddress
<1>2. CASE a \notin ToSet(found)
  <2> DEFINE s == Append(found, a)
  <2>1. s \in Seq(E) /\ Len(found) \in Nat /\ Len(s) = Len(found) + 1
    BY AppendProperties, LenProperties
  <2>2. DOMAIN s = 1..Len(found) + 1 /\ DOMAIN found = 1..Len(found)
    BY <2>1
  <2>3. s[Len(found) + 1] = a /\ \A i \in 1..Len(found) : s[i] = found[i]
    BY AppendProperties
  <2>4. Len(found) + 1 \in DOMAIN s /\ DOMAIN found \subseteq DOMAIN s
    BY <2>1, <2>2
  <2> HIDE DEF s
  <2>5. ToSet(found) \cup {a} \subseteq ToSet(s)
    BY <2>2, <2>3, <2>4 DEF ToSet
  <2>6. QED
    BY <1>2, <2>1, <2>5 DEF AddAddress, s
<1>3. QED
  BY <1>1, <1>2

(* Every prefix of a sequence of addresses, taken into those found before. *)
LEMMA AddressSteps ==
  ASSUME NEW E, NEW q \in Seq(E), NEW found \in Seq(E)
  PROVE  \E h : /\ h[0] = found
                /\ \A i \in 1..Len(q) : h[i] = AddAddress(h[i - 1], q[i])
                /\ h[Len(q)] = FoldLeft(AddAddress, found, q)
<1> DEFINE k == Len(q)
           V == Seq(E)
           g == [i \in 1..k |-> [v \in V |-> AddAddress(v, q[i])]]
           Rec(iter) == [s \in SUBSET (1..k) |->
                   IF s = {} THEN found ELSE AddAddress(iter[s \ {Max(s)}], q[Max(s)])]
           f == CHOOSE iter : iter = Rec(iter)
<1>1. f[1..k] = FoldLeft(AddAddress, found, q) /\ k \in Nat
  BY DOMAIN q = 1..k DEF FoldLeft, MapThenFoldSet
<1>2. StepsIn(g, 1..k, V) /\ found \in V
  <2>1. \A i \in 1..k : q[i] \in E
    OBVIOUS
  <2>2. ASSUME NEW i \in 1..k, NEW v \in V
        PROVE  g[i][v] \in V
    BY <2>1, AddressAdded
  <2>3. QED
    BY <2>2 DEF StepsIn
<1>3. PICK F : FoldsLeft(F, k, V, found, g)
  BY <1>1, <1>2, FoldLeftSteps
<1>4. F = Rec(F)
  <2>1. \A s \in SUBSET (1..k) : F[s] = Rec(F)[s]
    BY <1>3 DEF FoldsLeft
  <2>2. F = [s \in SUBSET (1..k) |-> F[s]]
    BY <1>3 DEF FoldsLeft
  <2> HIDE DEF k
  <2>3. QED
    BY <2>1, <2>2
<1>5. f = Rec(f)
  BY <1>4
<1> HIDE DEF f
<1>6. f[1..0] = found
  BY <1>1, <1>5, 1..0 = {}, {} \in SUBSET (1..k)
<1>7. ASSUME NEW i \in 1..k
      PROVE  f[1..i] = AddAddress(f[1..i - 1], q[i])
  <2>1. 1..i \in SUBSET (1..k) /\ 1..i # {}
        /\ Max(1..i) = i /\ (1..i) \ {i} = 1..i - 1
    BY <1>1, MaxOfPrefix
  <2>2. QED
    BY <1>5, <2>1
<1> DEFINE h == [i \in 0..k |-> f[1..i]]
<1>8. h[0] = found /\ h[k] = FoldLeft(AddAddress, found, q)
  BY <1>1, <1>6
<1>9. ASSUME NEW i \in 1..k
      PROVE  h[i] = f[1..i] /\ h[i - 1] = f[1..i - 1]
  BY <1>1
<1>10. QED
  BY <1>7, <1>8, <1>9

LEMMA AllAdded ==
  ASSUME NEW E, NEW q \in Seq(E), NEW found \in Seq(E)
  PROVE  /\ FoldLeft(AddAddress, found, q) \in Seq(E)
         /\ ToSet(found) \cup ToSet(q) \subseteq ToSet(FoldLeft(AddAddress, found, q))
<1>1. PICK h : /\ h[0] = found
               /\ \A i \in 1..Len(q) : h[i] = AddAddress(h[i - 1], q[i])
               /\ h[Len(q)] = FoldLeft(AddAddress, found, q)
  BY AddressSteps
<1> DEFINE Good(n) == /\ h[n] \in Seq(E) /\ ToSet(found) \subseteq ToSet(h[n])
                      /\ \A j \in 1..n : q[j] \in ToSet(h[n])
           T == {n \in 0..Len(q) : Good(n)}
<1>2. Len(q) \in Nat /\ DOMAIN q = 1..Len(q)
  BY LenProperties
<1>3. 0 \in T
  BY <1>1, <1>2
<1>4. ASSUME NEW n \in 0..Len(q) - 1, n \in T
      PROVE  n + 1 \in T
  <2>1. n + 1 \in 1..Len(q) /\ (n + 1) - 1 = n /\ q[n + 1] \in E
    BY <1>2
  <2>2. h[n + 1] = AddAddress(h[n], q[n + 1])
    BY <1>1, <2>1
  <2>3. h[n + 1] \in Seq(E) /\ ToSet(h[n]) \cup {q[n + 1]} \subseteq ToSet(h[n + 1])
    BY <1>4, <2>1, <2>2, AddressAdded
  <2>4. \A j \in 1..n + 1 : j \in 1..n \/ j = n + 1
    BY <1>2
  <2>5. Good(n + 1)
    BY <1>4, <2>3, <2>4
  <2>6. QED
    BY <1>2, <2>1, <2>5
<1> HIDE DEF T
<1>5. 0..Len(q) \subseteq T
  BY <1>2, <1>3, <1>4, InductionUpTo
<1>6. Good(Len(q))
  BY <1>2, <1>5 DEF T
<1>7. ToSet(q) \subseteq ToSet(h[Len(q)])
  BY <1>2, <1>6 DEF ToSet
<1>8. QED
  BY <1>1, <1>6, <1>7

(* The miners that a block names. *)
Named(b) ==
  ({MinerName[b]} \cup {Messages[b][i].to : i \in {i \in DOMAIN Messages[b] :
                                                 Messages[b][i].method = "commitSector"}})
    \ {"empty"}

LEMMA BlockAdded ==
  ASSUME NEW found \in Seq(STRING), NEW b \in Block
  PROVE  /\ AddAddresses(found, b) \in Seq(STRING)
         /\ ToSet(found) \cup Named(b) \subseteq ToSet(AddAddresses(found, b))
<1> DEFINE M == [method : STRING, to : STRING, chunks : Nat, bits : Nat]
           all == Messages[b]
           updated == Filter(all, {m \in ToSet(all) : IsUpdated(m)})
           named == [i \in DOMAIN updated |-> updated[i].to]
           mined == IF MinerName[b] = "empty" THEN <<>> ELSE <<MinerName[b]>>
           q == named \o mined
<1>1. all \in Seq(M) /\ MinerName[b] \in STRING
  BY ChainWalkAssumption, MinerCallsAssumption
<1>2. DOMAIN all = 1..Len(all)
  BY <1>1
<1>3. /\ updated \in Seq(M)
      /\ \A j \in 1..Len(all) : all[j] \in {m \in ToSet(all) : IsUpdated(m)} =>
           \E i \in 1..Len(updated) : updated[i] = all[j]
  <2>1. Picked(updated, M, all, {m \in ToSet(all) : IsUpdated(m)}, Len(all))
    BY <1>1, FilterPicks
  <2> HIDE DEF updated, M
  <2>2. QED
    BY <2>1 DEF Picked
<1>4. DOMAIN updated = 1..Len(updated) /\ Len(updated) \in Nat
      /\ \A i \in 1..Len(updated) : updated[i] \in M
  BY <1>3, LenProperties
<1> HIDE DEF updated
<1>5. /\ named \in Seq(STRING) /\ DOMAIN named = DOMAIN updated
      /\ \A i \in DOMAIN updated : named[i] = updated[i].to
  BY <1>4
<1>6. /\ mined \in Seq(STRING)
      /\ MinerName[b] # "empty" => 1 \in DOMAIN mined /\ mined[1] = MinerName[b]
  <2>1. CASE MinerName[b] = "empty"
    BY <2>1
  <2>2. CASE MinerName[b] # "empty"
    BY <1>1, <2>2
  <2>3. QED
    BY <2>1, <2>2
<1> HIDE DEF named, mined
<1>7. q \in Seq(STRING) /\ ToSet(q) = ToSet(named) \cup ToSet(mined)
  BY <1>5, <1>6, SetOfJoin
<1> HIDE DEF q
<1>8. \A i \in 1..Len(updated) : updated[i].to \in ToSet(q)
  BY <1>4, <1>5, <1>7 DEF ToSet
<1>9. MinerName[b] # "empty" => MinerName[b] \in ToSet(q)
  BY <1>6, <1>7 DEF ToSet
<1>10. ASSUME NEW i \in DOMAIN all, all[i].method = "commitSector", all[i].to # "empty"
       PROVE  all[i].to \in ToSet(q)
  <2>1. all[i] \in {m \in ToSet(all) : IsUpdated(m)}
    BY <1>10 DEF IsUpdated, ToSet
  <2>2. PICK j \in 1..Len(updated) : updated[j] = all[i]
    BY <1>2, <1>3, <2>1
  <2>3. QED
    BY <1>8, <2>2
<1>11. Named(b) \subseteq ToSet(q)
  BY <1>9, <1>10 DEF Named
<1>12. AddAddresses(found, b) = FoldLeft(AddAddress, found, q)
  BY DEF AddAddresses, q, named, mined, updated
<1>13. QED
  BY <1>7, <1>11, <1>12, AllAdded

(* Every prefix of the blocks. *)
LEMMA BlockSteps ==
  ASSUME NEW q \in Seq(Block)
  PROVE  \E h : /\ h[0] = <<>>
                /\ \A i \in 1..Len(q) : h[i] = AddAddresses(h[i - 1], q[i])
                /\ h[Len(q)] = FoldLeft(AddAddresses, <<>>, q)
<1> DEFINE k == Len(q)
           V == Seq(STRING)
           g == [i \in 1..k |-> [v \in V |-> AddAddresses(v, q[i])]]
           Rec(iter) == [s \in SUBSET (1..k) |->
                   IF s = {} THEN <<>> ELSE AddAddresses(iter[s \ {Max(s)}], q[Max(s)])]
           f == CHOOSE iter : iter = Rec(iter)
<1>1. f[1..k] = FoldLeft(AddAddresses, <<>>, q) /\ k \in Nat
  BY DOMAIN q = 1..k DEF FoldLeft, MapThenFoldSet
<1>2. StepsIn(g, 1..k, V) /\ <<>> \in V
  <2>1. \A i \in 1..k : q[i] \in Block
    OBVIOUS
  <2>2. ASSUME NEW i \in 1..k, NEW v \in V
        PROVE  g[i][v] \in V
    BY <2>1, BlockAdded
  <2>3. QED
    BY <2>2 DEF StepsIn
<1>3. PICK F : FoldsLeft(F, k, V, <<>>, g)
  BY <1>1, <1>2, FoldLeftSteps
<1>4. F = Rec(F)
  <2>1. \A s \in SUBSET (1..k) : F[s] = Rec(F)[s]
    BY <1>3 DEF FoldsLeft
  <2>2. F = [s \in SUBSET (1..k) |-> F[s]]
    BY <1>3 DEF FoldsLeft
  <2> HIDE DEF k
  <2>3. QED
    BY <2>1, <2>2
<1>5. f = Rec(f)
  BY <1>4
<1> HIDE DEF f
<1>6. f[1..0] = <<>>
  BY <1>1, <1>5, 1..0 = {}, {} \in SUBSET (1..k)
<1>7. ASSUME NEW i \in 1..k
      PROVE  f[1..i] = AddAddresses(f[1..i - 1], q[i])
  <2>1. 1..i \in SUBSET (1..k) /\ 1..i # {}
        /\ Max(1..i) = i /\ (1..i) \ {i} = 1..i - 1
    BY <1>1, MaxOfPrefix
  <2>2. QED
    BY <1>5, <2>1
<1> DEFINE h == [i \in 0..k |-> f[1..i]]
<1>8. h[0] = <<>> /\ h[k] = FoldLeft(AddAddresses, <<>>, q)
  BY <1>1, <1>6
<1>9. ASSUME NEW i \in 1..k
      PROVE  h[i] = f[1..i] /\ h[i - 1] = f[1..i - 1]
  BY <1>1
<1>10. QED
  BY <1>7, <1>8, <1>9

(* No miner that a block names is left out. *)
LEMMA AllNamed ==
  ASSUME NEW q \in Seq(Block)
  PROVE  /\ FoldLeft(AddAddresses, <<>>, q) \in Seq(STRING)
         /\ \A b \in ToSet(q) : Named(b) \subseteq ToSet(FoldLeft(AddAddresses, <<>>, q))
<1>1. PICK h : /\ h[0] = <<>>
               /\ \A i \in 1..Len(q) : h[i] = AddAddresses(h[i - 1], q[i])
               /\ h[Len(q)] = FoldLeft(AddAddresses, <<>>, q)
  BY BlockSteps
<1> DEFINE Good(n) == /\ h[n] \in Seq(STRING)
                      /\ \A j \in 1..n : Named(q[j]) \subseteq ToSet(h[n])
           T == {n \in 0..Len(q) : Good(n)}
<1>2. Len(q) \in Nat /\ DOMAIN q = 1..Len(q)
  BY LenProperties
<1>3. 0 \in T
  <2>1. h[0] \in Seq(STRING) /\ 1..0 = {}
    BY <1>1
  <2>2. QED
    BY <1>2, <2>1
<1>4. ASSUME NEW n \in 0..Len(q) - 1, n \in T
      PROVE  n + 1 \in T
  <2>1. n + 1 \in 1..Len(q) /\ (n + 1) - 1 = n /\ q[n + 1] \in Block
    BY <1>2
  <2>2. h[n + 1] = AddAddresses(h[n], q[n + 1])
    BY <1>1, <2>1
  <2>3. h[n + 1] \in Seq(STRING) /\ ToSet(h[n]) \cup Named(q[n + 1]) \subseteq ToSet(h[n + 1])
    BY <1>4, <2>1, <2>2, BlockAdded
  <2>4. \A j \in 1..n + 1 : j \in 1..n \/ j = n + 1
    BY <1>2
  <2>5. Good(n + 1)
    BY <1>4, <2>3, <2>4
  <2>6. QED
    BY <1>2, <2>1, <2>5
<1> HIDE DEF Good, T
<1>5. 0..Len(q) \subseteq T
  BY <1>2, <1>3, <1>4, InductionUpTo
<1>6. Good(Len(q))
  BY <1>2, <1>5 DEF T
<1>7. QED
  BY <1>1, <1>2, <1>6 DEF Good, ToSet

--------------------------------------------------------------------------------
(* The numbers of the node *)

LEMMA LinesGrow ==
  answers \subseteq answers' => \A s, a : Lines(s, a) \subseteq Lines(s, a)'
BY DEF Lines

(* What holds whatever is called: while the walk and what was answered     *)
(* before stay as they are.                                                *)
LEMMA TablesStay ==
  ASSUME UNCHANGED vars, answers \subseteq answers'
  PROVE  /\ \A T : Answered(T) => Answered(T)'
         /\ \A A : Covers(A) => Covers(A)'
<1>1. \A s, a : Lines(s, a) \subseteq Lines(s, a)'
  BY LinesGrow
<1>2. result' = result
  BY DEF vars
<1>3. ASSUME NEW T, Answered(T)
      PROVE  Answered(T)'
  BY <1>1, <1>3 DEF Answered
<1>4. ASSUME NEW A, Covers(A)
      PROVE  Covers(A)'
  BY <1>2, <1>4 DEF Covers
<1>5. QED
  BY <1>3, <1>4

LEMMA RowsStay == UNCHANGED vars => TopRows' = TopRows
BY DEF TopRows, vars

LEMMA NoCallIs ==
  /\ NoCall.st = "none" /\ NoCall.out = <<>>
  /\ NoCall \in [address : {"", "bootstrap"} \cup STRING, out : {<<>>} \cup {<<l>> : l \in Reply},
                 st : {"none", "open", "resolved", "rejected"}]
<1> DEFINE O == {<<>>} \cup {<<l>> : l \in Reply}
           S == {"none", "open", "resolved", "rejected"}
<1>1. <<>> \in O /\ "none" \in S
  OBVIOUS
<1>2. "" \in {"", "bootstrap"} \cup STRING
  OBVIOUS
<1> HIDE DEF O, S
<1>3. NoCall \in [address : {"", "bootstrap"} \cup STRING, out : O, st : S]
  BY <1>1, <1>2 DEF NoCall
<1>4. QED
  BY <1>3 DEF NoCall, O, S

LEMMA ProcessBlocksNumbers ==
  WalkInv /\ ReachInv /\ NumbersInv /\ ProcessBlocks /\ UNCHANGED vars => NumbersInv'
<1> SUFFICES ASSUME WalkInv, ReachInv, NumbersInv, ProcessBlocks, UNCHANGED vars
             PROVE  NumbersInv'
  OBVIOUS
<1>1. /\ step = "ls" /\ Returned /\ Returned' /\ call = NoCall /\ result' = result
      /\ UNCHANGED <<call, updates, minersTable, marketPower, answers>>
  <2>1. step = "ls"
    BY DEF ProcessBlocks
  <2>2. call = NoCall
    BY <2>1 DEF NumbersInv, CallInv
  <2>3. QED
    BY <2>2 DEF ProcessBlocks, Returned, vars
<1>2. CallInv' /\ call' \in [address : {"", "bootstrap"} \cup STRING, out : {<<>>} \cup {<<line>> : line \in Reply},
                             st : {"none", "open", "resolved", "rejected"}]'
  <2>1. call.out = <<>> /\ call.st = "none"
    BY <1>1 DEF NoCall
  <2>2. step' # "market"
    BY DEF ProcessBlocks
  <2>3. QED
    BY <1>1, <2>1, <2>2 DEF ProcessBlocks, CallInv, NumbersInv
<1>3. Answered(updates)' /\ Answered(minersTable)' /\ minersTable' = <<>>
  BY <1>1, TablesStay DEF NumbersInv, TableInv
<1>4. marketPower' = 1
  BY <1>1 DEF MarketIsAnswered, NumbersInv
<1>5. CASE result = <<>>
  <2>1. step' = "done" /\ addresses' = addresses
    BY <1>5 DEF ProcessBlocks
  <2>2. QED
    BY <1>1, <1>2, <1>3, <1>4, <1>5, <2>1 DEF MarketIsAnswered, NumbersInv, TableInv
<1>6. CASE result # <<>>
  <2>1. step' = "update" /\ addresses' = FoldLeft(AddAddresses, <<>>, result)
    BY <1>6 DEF ProcessBlocks
  <2>2. result \in Seq(Block)
    BY <1>1, ResultPicked DEF Picked
  <2>3. addresses' \in Seq(STRING) /\ \A b \in ToSet(result) : Named(b) \subseteq ToSet(addresses')
    BY <2>1, <2>2, AllNamed
  <2>4. Covers(ToSet(addresses) \cup DOMAIN updates)'
    BY <1>1, <2>3 DEF Covers, Named, Miner
  <2>5. QED
    BY <1>1, <1>2, <1>3, <1>4, <2>1, <2>3, <2>4 DEF MarketIsAnswered, NumbersInv, TableInv
<1>7. QED
  BY <1>5, <1>6

LEMMA UpdateNumbers == NumbersInv /\ Update /\ UNCHANGED vars => NumbersInv'
<1> SUFFICES ASSUME NumbersInv, Update, UNCHANGED vars PROVE NumbersInv'
  OBVIOUS
<1>1. /\ step = "update" /\ call = NoCall /\ Returned' /\ result' = result
      /\ addresses \in Seq(STRING)
      /\ UNCHANGED <<addresses, updates, minersTable, marketPower, answers>>
      /\ marketPower = 1 /\ minersTable = <<>>
  BY DEF MarketIsAnswered, Update, NumbersInv, TableInv, Returned, vars
<1>2. Answered(updates)' /\ Answered(minersTable)' /\ \A A : Covers(A) => Covers(A)'
  BY <1>1, TablesStay DEF NumbersInv, TableInv
<1>3. CASE addresses = <<>>
  <2>1. step' = "persist" /\ call' = NoCall
    BY <1>1, <1>3 DEF Update
  <2>2. ToSet(addresses) = {}
    BY <1>3 DEF ToSet
  <2>3. Covers(DOMAIN updates)'
    BY <1>1, <1>2, <2>2 DEF NumbersInv, TableInv
  <2>4. TableInv'
    BY <1>1, <1>2, <2>1, <2>3 DEF TableInv
  <2>5. CallInv'
    BY <1>1, <2>1, NoCallIs DEF NumbersInv, CallInv
  <2>6. call' \in [address : {"", "bootstrap"} \cup STRING, out : {<<>>} \cup {<<line>> : line \in Reply},
                   st : {"none", "open", "resolved", "rejected"}]'
    BY <1>1, <2>1 DEF NumbersInv
  <2>7. QED
    BY <1>1, <2>1, <2>4, <2>5, <2>6 DEF MarketIsAnswered, NumbersInv
<1>4. CASE addresses # <<>>
  <2>1. step' = "update" /\ call' = [address |-> Head(addresses), out |-> <<>>, st |-> "open"]
    BY <1>1, <1>4 DEF Update, Called, NoCall
  <2>2. Head(addresses) \in STRING
    BY <1>1, <1>4
  <2>3. TableInv'
    BY <1>1, <1>2, <2>1 DEF NumbersInv, TableInv
  <2>4. CallInv'
    BY <1>1, <1>4, <2>1 DEF NumbersInv, CallInv
  <2>5. call' \in [address : {"", "bootstrap"} \cup STRING, out : {<<>>} \cup {<<line>> : line \in Reply},
                   st : {"none", "open", "resolved", "rejected"}]'
    BY <2>1, <2>2
  <2>6. QED
    BY <1>1, <2>1, <2>3, <2>4, <2>5 DEF MarketIsAnswered, NumbersInv
<1>5. QED
  BY <1>3, <1>4

(* A line arrives, the stream breaks off or ends. *)
LEMMA StreamNumbers == NumbersInv /\ Stream /\ UNCHANGED vars => NumbersInv'
<1> SUFFICES ASSUME NumbersInv, Stream, UNCHANGED vars PROVE NumbersInv'
  OBVIOUS
<1>1. /\ call.st = "open" /\ Returned' = Returned /\ result' = result
      /\ UNCHANGED <<step, addresses, updates, minersTable, marketPower>>
      /\ answers \subseteq answers'
  BY DEF Stream, Data, HandleError, Complete, Returned, vars
<1>2. TableInv'
  <2>1. /\ Answered(updates)' /\ Answered(minersTable)'
        /\ \A A : Covers(A) => Covers(A)'
    BY <1>1, TablesStay DEF NumbersInv, TableInv
  <2>2. QED
    BY <1>1, <2>1 DEF NumbersInv, TableInv
<1>3. step \in {"update", "market"} /\ call # NoCall
  <2>1. NoCall.st = "none"
    BY DEF NoCall
  <2>2. QED
    BY <1>1, <2>1 DEF NumbersInv, CallInv
<1>4. marketPower' = 1 /\ step' # "done" /\ step' # "ls"
  BY <1>1, <1>3 DEF MarketIsAnswered, NumbersInv
<1>5. CASE \E line \in Reply : Data(line)
  <2>1. PICK line \in Reply : Data(line)
    BY <1>5
  <2>2. /\ call' = [call EXCEPT !.out = <<line>>]
        /\ [step |-> step, address |-> call.address, line |-> line] \in answers'
    BY <2>1 DEF Data
  <2>3. /\ call'.out = <<line>> /\ call'.st = call.st /\ call'.address = call.address
        /\ call' \in [address : {"", "bootstrap"} \cup STRING, out : {<<>>} \cup {<<l>> : l \in Reply},
                      st : {"none", "open", "resolved", "rejected"}]
    BY <2>2 DEF NumbersInv
  <2>4. CallInv'
    BY <1>1, <1>3, <2>2, <2>3, RowsStay DEF NumbersInv, CallInv
  <2>5. QED
    BY <1>1, <1>2, <1>4, <2>3, <2>4 DEF MarketIsAnswered, NumbersInv
<1>6. CASE HandleError \/ Complete
  <2>1. PICK st \in {"rejected", "resolved"} : call' = [call EXCEPT !.st = st]
    BY <1>6 DEF HandleError, Complete
  <2>2. /\ call'.out = call.out /\ call'.st = st /\ call'.address = call.address
        /\ call' \in [address : {"", "bootstrap"} \cup STRING, out : {<<>>} \cup {<<l>> : l \in Reply},
                      st : {"none", "open", "resolved", "rejected"}]
    BY <2>1 DEF NumbersInv
  <2>3. CallInv'
    BY <1>1, <1>3, <2>2, RowsStay DEF NumbersInv, CallInv
  <2>4. QED
    BY <1>1, <1>2, <1>4, <2>2, <2>3 DEF MarketIsAnswered, NumbersInv
<1>7. QED
  BY <1>5, <1>6 DEF Stream
(* The number of the line goes to the miner that was asked about, or into  *)
(* the market's power.                                                     *)
LEMMA LandsNumbers == NumbersInv /\ PowerLands /\ UNCHANGED vars => NumbersInv'
<1> SUFFICES ASSUME NumbersInv, PowerLands, UNCHANGED vars PROVE NumbersInv'
  OBVIOUS
<1>1. /\ call.st = "resolved" /\ call.out # <<>> /\ call' = NoCall /\ NoCall.st = "none"
      /\ NoCall.out = <<>>
      /\ Returned' = Returned /\ result' = result /\ UNCHANGED <<minersTable, answers>>
  BY DEF PowerLands, Throws, Returned, vars, NoCall
<1>2. step \in {"update", "market"} /\ call # NoCall /\ Returned
  BY <1>1 DEF NumbersInv, CallInv
<1>3. PICK line \in Reply :
        /\ call.out = <<line>>
        /\ [step |-> step, address |-> call.address, line |-> line] \in answers
  BY <1>1 DEF NumbersInv, CallInv
<1>4. /\ Power(call.out).miner = NumberOf(line, "power", 0)
      /\ Power(call.out).total = NumberOf(line, "total", 1)
  BY <1>3 DEF Power, NumberOf
<1>5. line \in Lines(step, call.address) /\ \A s, a : Lines(s, a)' = Lines(s, a)
  BY <1>1, <1>3 DEF Lines
<1>6. Answered(minersTable)' /\ \A T : Answered(T) => Answered(T)'
  BY <1>1, TablesStay DEF NumbersInv, TableInv
<1>7. call' \in [address : {"", "bootstrap"} \cup STRING, out : {<<>>} \cup {<<l>> : l \in Reply},
                 st : {"none", "open", "resolved", "rejected"}]
  BY <1>1, NoCallIs
<1>8. marketPower = 1
  BY <1>2 DEF MarketIsAnswered, NumbersInv
<1>9. CASE step = "update"
  <2>1. /\ step' = "update" /\ marketPower' = marketPower /\ addresses' = Tail(addresses)
        /\ updates' = Upserted(updates, [a \in {call.address} |-> Power(call.out).miner])
    BY <1>9 DEF PowerLands
  <2>2. /\ addresses \in Seq(STRING) /\ addresses # <<>> /\ call.address = Head(addresses)
    BY <1>2, <1>9 DEF NumbersInv, CallInv
  <2>3. /\ DOMAIN updates' = {call.address} \cup DOMAIN updates
        /\ updates'[call.address] = NumberOf(line, "power", 0)
        /\ \A a \in DOMAIN updates \ {call.address} : updates'[a] = updates[a]
    BY <1>4, <2>1 DEF Upserted
  <2>4. Answered(updates)'
    BY <1>5, <1>9, <2>3 DEF NumbersInv, TableInv, Answered
  <2>5. addresses' \in Seq(STRING) /\ ToSet(addresses) = {call.address} \cup ToSet(addresses')
    <3>1. /\ Head(addresses) = addresses[1] /\ Tail(addresses) \in Seq(STRING)
          /\ Len(addresses) \in Nat /\ Len(addresses) > 0
          /\ Len(Tail(addresses)) = Len(addresses) - 1
      BY <2>2, HeadTailProperties, LenProperties
    <3>2. \A i \in 1..Len(Tail(addresses)) : Tail(addresses)[i] = addresses[i + 1]
      BY <2>2, HeadTailProperties
    <3>3. /\ DOMAIN addresses = 1..Len(addresses) /\ Len(addresses) = Len(Tail(addresses)) + 1
          /\ DOMAIN Tail(addresses) = 1..Len(Tail(addresses)) /\ Len(Tail(addresses)) \in Nat
      BY <2>2, <3>1
    <3>4. ToSet(addresses) = {addresses[1]} \cup ToSet(Tail(addresses))
      BY <3>1, <3>2, <3>3, SetOfRest
    <3>5. QED
      BY <2>1, <2>2, <3>1, <3>4
  <2>6. Covers(ToSet(addresses) \cup DOMAIN updates)'
    <3>1. Covers(ToSet(addresses) \cup DOMAIN updates)
      BY <1>9 DEF NumbersInv, TableInv
    <3>2. ToSet(addresses') \cup DOMAIN updates' = ToSet(addresses) \cup DOMAIN updates
      BY <2>3, <2>5
    <3>3. QED
      BY <1>1, <3>1, <3>2 DEF Covers
  <2>7. TableInv'
    BY <1>1, <1>6, <1>9, <2>1, <2>4, <2>6 DEF NumbersInv, TableInv
  <2>8. CallInv'
    BY <1>1, <1>9, <2>1 DEF NumbersInv, CallInv
  <2>9. QED
    BY <1>1, <1>2, <1>7, <1>8, <2>1, <2>5, <2>7, <2>8 DEF MarketIsAnswered, NumbersInv
<1>10. CASE step = "market"
  <2>1. /\ step' = "done" /\ marketPower' = Power(call.out).total
        /\ UNCHANGED <<updates, addresses>>
    BY <1>10 DEF PowerLands
  <2>2. PICK b \in TopRows : call.address = Miner(b)
    BY <1>10 DEF NumbersInv, CallInv
  <2>3. line \in Lines("market", Miner(b))' /\ marketPower' = NumberOf(line, "total", 1)
    BY <1>4, <1>5, <1>10, <2>1, <2>2
  <2>4. TableInv'
    <3>1. Answered(updates)'
      BY <1>6, <2>1 DEF NumbersInv, TableInv
    <3>2. minersTable # <<>> => Covers(DOMAIN minersTable)'
      BY <1>1 DEF NumbersInv, TableInv, Covers
    <3>3. QED
      BY <1>1, <1>6, <2>1, <3>1, <3>2 DEF TableInv
  <2>5. CallInv'
    BY <1>1, <2>1 DEF CallInv
  <2>6. b \in TopRows'
    BY <2>2, RowsStay
  <2>7. \E c \in TopRows' : \E l \in Lines("market", Miner(c))' : marketPower' = NumberOf(l, "total", 1)
    BY <2>3, <2>6
  <2>8. MarketIsAnswered'
    BY <1>1, <1>10, <2>1, <2>7 DEF NumbersInv, CallInv, MarketIsAnswered
  <2>9. QED
    BY <1>1, <1>2, <1>7, <2>1, <2>4, <2>5, <2>8 DEF NumbersInv
<1>11. QED
  BY <1>2, <1>9, <1>10

(* The poll fails: nothing but the step and the call changes. *)
LEMMA FailsNumbers ==
  ASSUME NumbersInv, UNCHANGED vars, step' = "failed", step # "ls", step # "done",
         call' \in {NoCall, call}, call' = call => call = NoCall,
         UNCHANGED <<addresses, updates, minersTable, marketPower, answers>>
  PROVE  NumbersInv'
<1>1. Returned' /\ result' = result /\ call' = NoCall /\ NoCall.st = "none" /\ NoCall.out = <<>>
  BY DEF NumbersInv, Returned, vars, NoCall
<1>2. TableInv'
  <2>1. /\ Answered(updates)' /\ Answered(minersTable)'
        /\ \A A : Covers(A) => Covers(A)'
    BY TablesStay DEF NumbersInv, TableInv
  <2>2. QED
    BY <2>1 DEF NumbersInv, TableInv
<1>3. CallInv'
  BY <1>1 DEF CallInv
<1>4. call' \in [address : {"", "bootstrap"} \cup STRING, out : {<<>>} \cup {<<l>> : l \in Reply},
                 st : {"none", "open", "resolved", "rejected"}]
  BY <1>1, NoCallIs
<1>5. QED
  BY <1>1, <1>2, <1>3, <1>4 DEF MarketIsAnswered, NumbersInv

(* The upserts: whoever the blocks name has been asked about. *)
LEMMA PersistNumbers == NumbersInv /\ PersistMiners /\ UNCHANGED vars => NumbersInv'
<1> SUFFICES ASSUME NumbersInv, PersistMiners, UNCHANGED vars PROVE NumbersInv'
  OBVIOUS
<1>1. /\ step = "persist" /\ step' = "top" /\ Returned /\ Returned' /\ result' = result
      /\ UNCHANGED <<addresses, call, updates, marketPower, answers>>
      /\ minersTable' = Upserted(minersTable, updates)
  BY DEF PersistMiners, NumbersInv, Returned, vars
<1>2. /\ DOMAIN minersTable' = DOMAIN updates \cup DOMAIN minersTable
      /\ \A a \in DOMAIN updates : minersTable'[a] = updates[a]
      /\ \A a \in DOMAIN minersTable \ DOMAIN updates : minersTable'[a] = minersTable[a]
  BY <1>1 DEF Upserted
<1>3. Answered(updates)' /\ Answered(minersTable)'
  <2>1. \A s, a : Lines(s, a)' = Lines(s, a)
    BY <1>1 DEF Lines
  <2>2. Answered(updates) /\ Answered(minersTable)
    BY DEF NumbersInv, TableInv
  <2>3. Answered(updates)'
    BY <1>1, <2>1, <2>2 DEF Answered
  <2>4. ASSUME NEW a \in DOMAIN minersTable'
        PROVE  \E line \in Lines("update", a) : minersTable'[a] = NumberOf(line, "power", 0)
    <3>1. CASE a \in DOMAIN updates
      BY <1>2, <2>2, <3>1 DEF Answered
    <3>2. CASE a \notin DOMAIN updates
      BY <1>2, <2>2, <2>4, <3>2 DEF Answered
    <3>3. QED
      BY <3>1, <3>2
  <2>5. Answered(minersTable)'
    BY <2>1, <2>4 DEF Answered
  <2>6. QED
    BY <2>3, <2>5
<1>4. Covers(DOMAIN minersTable)'
  <2>1. Covers(DOMAIN updates)
    BY <1>1 DEF NumbersInv, TableInv
  <2>2. QED
    BY <1>1, <1>2, <2>1 DEF Covers
<1>5. TableInv'
  BY <1>1, <1>3, <1>4 DEF TableInv
<1>6. CallInv'
  <2>1. call = NoCall
    BY <1>1 DEF NumbersInv, CallInv
  <2>2. QED
    BY <1>1, <2>1, NoCallIs DEF NumbersInv, CallInv
<1>7. QED
  BY <1>1, <1>5, <1>6 DEF MarketIsAnswered, NumbersInv

LEMMA InitNumbers == PollInit => NumbersInv
<1> SUFFICES ASSUME PollInit PROVE NumbersInv
  OBVIOUS
<1>1. /\ step = "ls" /\ call = NoCall /\ addresses = <<>> /\ updates = <<>>
      /\ minersTable = <<>> /\ marketPower = 1
  BY DEF PollInit
<1>2. DOMAIN <<>> = {} /\ <<>> \in Seq(STRING)
  OBVIOUS
<1>3. Answered(updates) /\ Answered(minersTable)
  BY <1>1, <1>2 DEF Answered
<1>4. TableInv /\ CallInv
  BY <1>1, <1>3, NoCallIs DEF TableInv, CallInv
<1>5. QED
  BY <1>1, <1>2, <1>4, NoCallIs DEF MarketIsAnswered, NumbersInv

LEMMA PollNumbers ==
  WalkInv /\ ReachInv /\ NumbersInv /\ [PollNext]_<<vars, callVars>> => NumbersInv'
<1> SUFFICES ASSUME WalkInv, ReachInv, NumbersInv, [PollNext]_<<vars, callVars>>
             PROVE  NumbersInv'
  OBVIOUS
<1>1. CASE Next /\ UNCHANGED callVars
  <2>1. status = "walking"
    BY <1>1 DEF Next, Drop, Visit, Return, InflateThrows, Fail
  <2>2. step = "ls" /\ UNCHANGED <<step, addresses, call, updates, minersTable, marketPower, answers>>
    BY <1>1, <2>1 DEF NumbersInv, Returned, callVars
  <2>3. Answered(updates)' /\ Answered(minersTable)'
    BY <2>2 DEF NumbersInv, TableInv, Answered, Lines
  <2>4. call = NoCall
    BY <2>2 DEF NumbersInv, CallInv
  <2>5. TableInv' /\ CallInv'
    BY <2>2, <2>3, <2>4, NoCallIs DEF NumbersInv, TableInv, CallInv
  <2>6. QED
    BY <2>2, <2>5 DEF MarketIsAnswered, NumbersInv
<1>2. CASE UNCHANGED <<vars, callVars>>
  <2>1. /\ UNCHANGED <<step, addresses, call, updates, minersTable, marketPower, answers>>
        /\ result' = result /\ Returned' = Returned
    BY <1>2 DEF vars, callVars, Returned
  <2>2. /\ Answered(updates)' /\ Answered(minersTable)'
        /\ \A A : Covers(A) => Covers(A)'
    BY <1>2, <2>1, TablesStay DEF NumbersInv, TableInv
  <2>3. TableInv'
    BY <2>1, <2>2 DEF NumbersInv, TableInv
  <2>4. TopRows' = TopRows /\ \A s, a : Lines(s, a)' = Lines(s, a)
    BY <1>2, <2>1, RowsStay DEF Lines
  <2>5. CallInv'
    BY <2>1, <2>4 DEF NumbersInv, CallInv
  <2>6. MarketIsAnswered'
    BY <1>2, <2>1, <2>4 DEF NumbersInv, MarketIsAnswered, vars
  <2>7. QED
    BY <2>1, <2>3, <2>5, <2>6 DEF NumbersInv
<1>3. ASSUME UNCHANGED vars, PowerRejects \/ PersistRaises \/ DatabaseFails
      PROVE  NumbersInv'
  <2>1. /\ step' = "failed" /\ call' \in {NoCall, call}
        /\ UNCHANGED <<addresses, updates, minersTable, marketPower, answers>>
    BY <1>3 DEF PowerRejects, PersistRaises, DatabaseFails
  <2>2. call # NoCall \/ step \in {"persist", "top"}
    BY <1>3, NoCallIs DEF PowerRejects, PersistRaises, DatabaseFails
  <2>3. step # "ls" /\ step # "done"
    BY <2>2 DEF NumbersInv, CallInv
  <2>4. call' = call => call = NoCall
    BY <1>3, <2>2 DEF NumbersInv, CallInv, PowerRejects, PersistRaises, DatabaseFails
  <2>5. QED
    BY <1>3, <2>1, <2>3, <2>4, FailsNumbers
<1>4. ASSUME UNCHANGED vars, UpdateMarketPower
      PROVE  NumbersInv'
  <2>1. /\ step = "top" /\ step' = "market" /\ Returned /\ Returned' /\ result' = result
        /\ UNCHANGED <<addresses, updates, minersTable, marketPower, answers>>
    BY <1>4 DEF UpdateMarketPower, NumbersInv, Returned, vars
  <2>2. PICK b \in TopRows : call' = [address |-> Miner(b), out |-> <<>>, st |-> "open"]
    BY <1>4 DEF UpdateMarketPower, Called, NoCall
  <2>3. Miner(b) \in {"", "bootstrap"} \cup STRING
    <3>1. result \in Seq(Block)
      BY <2>1, ResultPicked DEF Picked
    <3>2. b \in Block
      BY <3>1 DEF ToSet, TopRows
    <3>3. QED
      BY <3>2, MinerCallsAssumption DEF Miner
  <2>4. /\ Answered(updates)' /\ Answered(minersTable)'
        /\ \A A : Covers(A) => Covers(A)'
    BY <1>4, <2>1, TablesStay DEF NumbersInv, TableInv
  <2>5. TableInv'
    BY <2>1, <2>4 DEF NumbersInv, TableInv
  <2>6. CallInv'
    BY <1>4, <2>1, <2>2, RowsStay DEF NumbersInv, CallInv
  <2>7. QED
    BY <2>1, <2>2, <2>3, <2>5, <2>6 DEF MarketIsAnswered, NumbersInv
<1>5. ASSUME UNCHANGED vars, NoTop
      PROVE  NumbersInv'
  <2>1. /\ step = "top" /\ step' = "done" /\ toBlock' = 0 /\ Returned /\ Returned'
        /\ UNCHANGED <<addresses, call, updates, minersTable, marketPower, answers>>
    BY <1>5 DEF NoTop, NumbersInv, Returned, vars
  <2>2. call = NoCall /\ marketPower' = 1
    BY <2>1 DEF NumbersInv, CallInv, MarketIsAnswered
  <2>3. /\ Answered(updates)' /\ Answered(minersTable)'
        /\ \A A : Covers(A) => Covers(A)'
    BY <1>5, <2>1, TablesStay DEF NumbersInv, TableInv
  <2>4. TableInv' /\ CallInv'
    BY <2>1, <2>2, <2>3, NoCallIs DEF NumbersInv, TableInv, CallInv
  <2>5. MarketIsAnswered'
    BY <2>1, <2>2 DEF MarketIsAnswered
  <2>6. QED
    BY <2>1, <2>4, <2>5 DEF NumbersInv
<1>6. QED
  BY <1>1, <1>2, <1>3, <1>4, <1>5, ProcessBlocksNumbers, UpdateNumbers, StreamNumbers,
     LandsNumbers, PersistNumbers
  DEF PollNext, Progress

(* The powers in the table and in memory are those the node has answered   *)
(* with, however its calls break off, and no miner that the blocks name is *)
(* left out of the upserts, whatever the blocks and their messages are.    *)
THEOREM NumbersFromTheNode == PollSpec => []NumbersAreTheNodes
<1>1. NumbersInv => NumbersAreTheNodes
  BY DEF NumbersInv, TableInv, NumbersAreTheNodes, Answered
<1>2. QED
  BY <1>1, InitNumbers, PollNumbers, PollReaches, PTL DEF PollSpec

--------------------------------------------------------------------------------
(* A poll is finite *)

(* How much of it is left. A walk has the queue and the blocks not found   *)
(* yet; whoever is asked has three events to come, Asked of them past, and *)
(* there are the rest of the addresses.                                    *)
Turn == [ls |-> 5, update |-> 4, persist |-> 3, top |-> 2, market |-> 1, done |-> 0, failed |-> 0]
Stage == IF status = "walking" THEN 6 ELSE IF status = "failed" THEN 0 ELSE Turn[step]

Unfound == Block \ (tipset \cup insertedParents)
Asked ==
  IF call.st = "none" THEN 0
  ELSE IF call.st # "open" THEN 3
  ELSE IF call.out = <<>> THEN 1 ELSE 2
Left ==
  IF status = "walking" THEN Len(heads) + Cardinality(Unfound)
  ELSE IF step = "update" THEN 4 * Len(addresses) - Asked
  ELSE 3 - Asked

(* The stages go down, and within a stage what is left. *)
Shrinks == Stage' < Stage \/ (Stage' = Stage /\ Left' < Left)

LEMMA WaitingOnes ==
  ASSUME WalkInv
  PROVE  Len(heads) \in Nat /\ IsFiniteSet(Unfound) /\ Cardinality(Unfound) \in Nat
<1>1. heads \in Seq(Block)
  BY DEF WalkInv, FetchInv
<1>2. IsFiniteSet(Unfound)
  BY DagAssumption, FS_Subset DEF Unfound
<1>3. QED
  BY <1>1, <1>2, LenProperties, FS_CardinalityType

LEMMA OrderLength ==
  ASSUME NEW S \in SUBSET Block, NEW q \in SetToSeqs(S)
  PROVE  IsFiniteSet(S) /\ Cardinality(S) \in Nat /\ q \in Seq(Block) /\ Len(q) = Cardinality(S)
<1>1. IsFiniteSet(S)
  BY DagAssumption, FS_Subset
<1>2. Cardinality(S) \in Nat
  BY <1>1, FS_CardinalityType
<1>3. q \in [1..Cardinality(S) -> S]
  BY DEF SetToSeqs
<1>4. q \in Seq(S) /\ Len(q) = Cardinality(S)
  BY <1>2, <1>3
<1>5. QED
  BY <1>1, <1>2, <1>4, SeqMonotonic

LEMMA DropShrinks ==
  ASSUME WalkInv, Drop
  PROVE  Shrinks
<1>1. /\ status = "walking" /\ status' = "walking" /\ heads \in Seq(Block) /\ heads # <<>>
      /\ heads' = Tail(heads) /\ tipset' = tipset /\ insertedParents' = insertedParents
  BY DEF Drop, WalkInv, FetchInv
<1>2. Len(heads') = Len(heads) - 1
  BY <1>1, TailOf
<1>3. Unfound' = Unfound
  BY <1>1 DEF Unfound
<1>4. Left' = Len(heads') + Cardinality(Unfound) /\ Left = Len(heads) + Cardinality(Unfound)
  BY <1>1, <1>3 DEF Left
<1>5. QED
  BY <1>1, <1>2, <1>4, WaitingOnes DEF Shrinks, Stage

(* What joins the queue was not found before. *)
LEMMA VisitShrinks ==
  ASSUME WalkInv, WalkInv', Visit
  PROVE  Shrinks
<1> DEFINE b == Head(heads)
           N == NewParents(b)
<1>1. /\ status = "walking" /\ status' = "walking" /\ heads \in Seq(Block) /\ heads # <<>>
      /\ insertedParents' = insertedParents \cup Parents[b] /\ tipset' = tipset
  BY DEF Visit, WalkInv, FetchInv
<1>2. PICK parents \in SetToSeqs(N) : heads' = Tail(heads) \o parents
  BY DEF Visit
<1>3. b \in Block /\ Tail(heads) \in Seq(Block) /\ Len(Tail(heads)) = Len(heads) - 1
  BY <1>1, TailOf
<1>4. N \in SUBSET Block
  BY <1>3, DagAssumption DEF NewParents
<1>5. /\ IsFiniteSet(N) /\ Cardinality(N) \in Nat
      /\ parents \in Seq(Block) /\ Len(parents) = Cardinality(N)
  BY <1>2, <1>4, OrderLength
<1>6. Len(heads') = Len(heads) - 1 + Cardinality(N)
  <2> DEFINE t == Tail(heads)
  <2>1. t \in Seq(Block) /\ Len(t) = Len(heads) - 1 /\ heads' = t \o parents
    BY <1>2, <1>3
  <2> HIDE DEF t, N
  <2>2. Len(t \o parents) = Len(t) + Len(parents)
    BY <1>5, <2>1, ConcatProperties
  <2>3. QED
    BY <1>5, <2>1, <2>2
<1>7. \A p \in N : p \notin tipset
  <2>1. N \subseteq insertedParents'
    BY <1>1 DEF NewParents
  <2>2. \A p \in insertedParents' : \A c \in tipset' : Height[p] < Height[c]
    BY DEF WalkInv, FetchInv
  <2>3. \A p \in N : Height[p] \in Nat
    BY <1>4, DagAssumption
  <2>4. QED
    BY <1>1, <2>1, <2>2, <2>3
<1>8. Unfound' = Unfound \ N /\ Unfound \cap N = N
  BY <1>1, <1>4, <1>7 DEF Unfound, NewParents
<1>9. Cardinality(Unfound') = Cardinality(Unfound) - Cardinality(N)
  <2> HIDE DEF N
  <2>1. Cardinality(Unfound \ N) = Cardinality(Unfound) - Cardinality(Unfound \cap N)
    BY WaitingOnes, FS_Difference
  <2>2. QED
    BY <1>8, <2>1
<1>10. Left' = Len(heads') + Cardinality(Unfound') /\ Left = Len(heads) + Cardinality(Unfound)
  BY <1>1 DEF Left
<1> HIDE DEF N
<1>11. QED
  BY <1>1, <1>5, <1>6, <1>9, <1>10, WaitingOnes DEF Shrinks, Stage

(* The walk comes to its end. *)
LEMMA WalkShrinks ==
  ASSUME WalkInv, WalkInv', NumbersInv, Next, UNCHANGED callVars
  PROVE  Shrinks
<1>1. ASSUME Return
      PROVE  Shrinks
  <2>1. status = "walking" /\ status' = "returned" /\ step' = step
    BY <1>1 DEF Return, callVars
  <2>2. step = "ls"
    BY <2>1 DEF NumbersInv, Returned
  <2>3. Stage = 6 /\ Stage' = 5
    BY <2>1, <2>2 DEF Stage, Turn
  <2>4. QED
    BY <2>3 DEF Shrinks
<1>2. ASSUME InflateThrows \/ Fail
      PROVE  Shrinks
  <2>1. status = "walking" /\ status' = "failed"
    BY <1>2 DEF InflateThrows, Fail, WalkFails
  <2>2. QED
    BY <2>1 DEF Shrinks, Stage
<1>3. QED
  BY <1>1, <1>2, DropShrinks, VisitShrinks DEF Next

(* So do the calls. *)
LEMMA CallsShrink ==
  ASSUME NumbersInv, NumbersInv', Stream \/ Progress \/ DatabaseFails, UNCHANGED vars
  PROVE  Shrinks
<1> DEFINE n == Len(addresses)
<1>1. addresses \in Seq(STRING) /\ n \in Nat /\ status' = status
  BY LenProperties DEF NumbersInv, vars
<1>2. step # "ls" => status = "returned"
  BY DEF NumbersInv, Returned
<1>3. call.st \in {"none", "open", "resolved", "rejected"}
  BY DEF NumbersInv
<1>4. call.st # "none" => step \in {"update", "market"} /\ call # NoCall
  BY NoCallIs DEF NumbersInv, CallInv
<1>5. ASSUME call.st = "open", call'.st = "open", call.out = <<>>, call'.out # <<>>,
             step' = step, addresses' = addresses
      PROVE  Shrinks
  <2>1. Stage' = Stage /\ status = "returned" /\ status' = "returned"
    BY <1>1, <1>2, <1>4, <1>5 DEF Stage
  <2>2. Asked = 1 /\ Asked' = 2
    BY <1>5 DEF Asked
  <2>3. Left' < Left
    BY <1>1, <1>5, <2>1, <2>2 DEF Left
  <2>4. QED
    BY <2>1, <2>3 DEF Shrinks
<1>6. ASSUME call.st = "open", call'.st \in {"resolved", "rejected"},
             step' = step, addresses' = addresses
      PROVE  Shrinks
  <2>1. Stage' = Stage /\ status = "returned" /\ status' = "returned"
    BY <1>1, <1>2, <1>4, <1>6 DEF Stage
  <2>2. Asked \in {1, 2} /\ Asked' = 3
    BY <1>6 DEF Asked
  <2>3. Left' < Left
    BY <1>1, <1>6, <2>1, <2>2 DEF Left
  <2>4. QED
    BY <2>1, <2>3 DEF Shrinks
<1>7. ASSUME Stream
      PROVE  Shrinks
  <2>1. ASSUME NEW line \in Reply, Data(line)
        PROVE  Shrinks
    <3>1. /\ call.st = "open" /\ call.out = <<>> /\ step' = step /\ addresses' = addresses
          /\ call' = [call EXCEPT !.out = <<line>>]
      BY <2>1 DEF Data
    <3>2. call'.st = "open" /\ call'.out # <<>>
      BY <3>1 DEF NumbersInv
    <3>3. QED
      BY <1>5, <3>1, <3>2
  <2>2. ASSUME HandleError \/ Complete
        PROVE  Shrinks
    <3>1. /\ call.st = "open" /\ step' = step /\ addresses' = addresses
          /\ call' \in {[call EXCEPT !.st = "rejected"], [call EXCEPT !.st = "resolved"]}
      BY <2>2 DEF HandleError, Complete
    <3>2. call'.st \in {"resolved", "rejected"}
      BY <3>1 DEF NumbersInv
    <3>3. QED
      BY <1>6, <3>1, <3>2
  <2>3. QED
    BY <1>7, <2>1, <2>2 DEF Stream
<1>8. ASSUME Update, addresses # <<>>
      PROVE  Shrinks
  <2>1. /\ step = "update" /\ step' = "update" /\ call = NoCall /\ addresses' = addresses
        /\ call' = [address |-> Head(addresses), out |-> <<>>, st |-> "open"]
    BY <1>8 DEF Update, Called, NoCall
  <2>2. Stage' = Stage /\ status = "returned" /\ status' = "returned"
    BY <1>1, <1>2, <2>1 DEF Stage
  <2>3. Asked = 0 /\ Asked' = 1
    BY <2>1, NoCallIs DEF Asked
  <2>4. Left' < Left
    BY <1>1, <2>1, <2>2, <2>3 DEF Left
  <2>5. QED
    BY <2>2, <2>4 DEF Shrinks
<1>9. ASSUME PowerLands, step = "update"
      PROVE  Shrinks
  <2>1. /\ call.st = "resolved" /\ call' = NoCall /\ step' = "update"
        /\ addresses' = Tail(addresses)
    BY <1>9 DEF PowerLands
  <2>2. Stage' = Stage /\ status = "returned" /\ status' = "returned"
    BY <1>1, <1>2, <1>9, <2>1 DEF Stage
  <2>3. addresses # <<>>
    BY <1>4, <1>9, <2>1 DEF NumbersInv, CallInv
  <2>4. Len(addresses') = n - 1
    BY <1>1, <2>1, <2>3, HeadTailProperties
  <2>5. Asked = 3 /\ Asked' = 0
    BY <2>1, NoCallIs DEF Asked
  <2>6. Left = 4 * n - 3 /\ Left' = 4 * Len(addresses') - 0
    BY <1>9, <2>1, <2>2, <2>5 DEF Left
  <2>7. QED
    BY <1>1, <2>2, <2>4, <2>6 DEF Shrinks
(* The other steps go on to a later stage. *)
<1>10. ASSUME step \in DOMAIN Turn, step' \in DOMAIN Turn, Turn[step'] < Turn[step],
              status = "returned"
       PROVE  Shrinks
  BY <1>1, <1>10 DEF Shrinks, Stage
<1>11. ASSUME ProcessBlocks
       PROVE  Shrinks
  <2>1. step = "ls" /\ status = "returned" /\ step' \in {"done", "update"}
    BY <1>11 DEF ProcessBlocks
  <2>2. QED
    BY <1>10, <2>1 DEF Turn
<1>12. ASSUME Update, addresses = <<>>
       PROVE  Shrinks
  <2>1. step = "update" /\ step' = "persist"
    BY <1>12 DEF Update
  <2>2. QED
    BY <1>2, <1>10, <2>1 DEF Turn
<1>13. ASSUME PowerLands, step # "update"
       PROVE  Shrinks
  <2>1. step = "market" /\ step' = "done"
    BY <1>4, <1>13 DEF PowerLands
  <2>2. QED
    BY <1>2, <1>10, <2>1 DEF Turn
<1>14. ASSUME PowerRejects \/ PersistRaises \/ DatabaseFails
       PROVE  Shrinks
  <2>1. step \in {"update", "market", "persist", "top"} /\ step' = "failed"
    BY <1>4, <1>14 DEF PowerRejects, PersistRaises, DatabaseFails
  <2>2. QED
    BY <1>2, <1>10, <2>1 DEF Turn
<1>15. ASSUME PersistMiners \/ UpdateMarketPower \/ NoTop
       PROVE  Shrinks
  <2>1. (step = "persist" /\ step' = "top") \/ (step = "top" /\ step' \in {"market", "done"})
    BY <1>15 DEF PersistMiners, UpdateMarketPower, NoTop
  <2>2. QED
    BY <1>2, <1>10, <2>1 DEF Turn
<1>16. QED
  BY <1>7, <1>8, <1>9, <1>11, <1>12, <1>13, <1>14, <1>15 DEF Progress

(* What is left is a number, so that it cannot shrink for ever. *)
TurnInv == status \in {"walking", "failed", "returned"} /\ step \in DOMAIN Turn

LEMMA TurnStep == TurnInv /\ [PollNext]_<<vars, callVars>> => TurnInv'
<1> SUFFICES ASSUME TurnInv, [PollNext]_<<vars, callVars>> PROVE TurnInv'
  OBVIOUS
<1>1. DOMAIN Turn = {"ls", "update", "persist", "top", "market", "done", "failed"}
  BY DEF Turn
<1> HIDE DEF Turn
<1>2. CASE Next /\ UNCHANGED callVars
  <2>1. step' = step
    BY <1>2 DEF callVars
  <2>2. status' \in {"walking", "failed", "returned"}
    BY <1>2 DEF TurnInv, Next, Drop, Visit, Return, InflateThrows, Fail, WalkFails
  <2>3. QED
    BY <1>1, <2>1, <2>2 DEF TurnInv
<1>3. CASE (Stream \/ Progress \/ DatabaseFails) /\ UNCHANGED vars
  <2>1. status' = status
    BY <1>3 DEF vars
  <2>2. step' \in DOMAIN Turn
    BY <1>1, <1>3 DEF TurnInv, Stream, Progress, Data, HandleError, Complete, ProcessBlocks,
       Update, PowerLands, PowerRejects, PersistMiners, PersistRaises, UpdateMarketPower,
       NoTop, DatabaseFails
  <2>3. QED
    BY <1>1, <2>1, <2>2 DEF TurnInv
<1>4. CASE UNCHANGED <<vars, callVars>>
  BY <1>1, <1>4 DEF TurnInv, vars, callVars
<1>5. QED
  BY <1>2, <1>3, <1>4 DEF PollNext

LEMMA LeftIsNumber == WalkInv /\ NumbersInv /\ TurnInv => Stage \in 0..6 /\ Left \in Nat
<1> SUFFICES ASSUME WalkInv, NumbersInv, TurnInv PROVE Stage \in 0..6 /\ Left \in Nat
  OBVIOUS
<1>1. Stage \in 0..6
  BY DEF Stage, Turn, TurnInv
<1>2. call.st # "none" => step \in {"update", "market"} /\ call # NoCall
  BY NoCallIs DEF NumbersInv, CallInv
<1>3. Asked \in 0..3 /\ (Asked # 0 => call # NoCall)
  BY <1>2 DEF Asked
<1>4. addresses \in Seq(STRING) /\ Len(addresses) \in Nat
  BY LenProperties DEF NumbersInv
<1>5. ASSUME status # "walking", step = "update"
      PROVE  4 * Len(addresses) - Asked \in Nat
  <2>1. Asked # 0 => Len(addresses) > 0
    <3>1. Asked # 0 => addresses # <<>>
      BY <1>3, <1>5 DEF NumbersInv, CallInv
    <3>2. addresses # <<>> => Len(addresses) # 0
      BY <1>4, EmptySeq
    <3>3. QED
      BY <1>4, <3>1, <3>2
  <2>2. QED
    BY <1>3, <1>4, <2>1
<1>6. Left \in Nat
  BY <1>3, <1>5, WaitingOnes DEF Left
<1>7. QED
  BY <1>1, <1>6

(* Every step of a poll, from ls to its end, leaves less of it to do, for  *)
(* any chain, blocks and answers: the walk does not go round (ls), and     *)
(* update() asks about each address once. So a poll has finitely many      *)
(* steps, and all that PollEnds needs further is that calls come to an end.*)
THEOREM PollIsFinite ==
  PollSpec => /\ [](Stage \in 0..6 /\ Left \in Nat)
              /\ [][Shrinks]_<<vars, callVars>>
<1>1. PollInit => TurnInv
  BY DEF PollInit, Init, TurnInv, Turn
<1>2. WalkInv /\ WalkInv' /\ NumbersInv /\ NumbersInv' /\ [PollNext]_<<vars, callVars>>
        => [Shrinks]_<<vars, callVars>>
  BY WalkShrinks, CallsShrink DEF PollNext
<1>3. QED
  BY <1>1, <1>2, TurnStep, LeftIsNumber, InitNumbers, PollNumbers, PollReaches, PTL DEF PollSpec
================================================================================
