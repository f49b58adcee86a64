--------------------------- MODULE ChainIngestProofs ---------------------------
(***************************************************************************)
(* Proofs about ChainIngest, for every DAG, head, message and depth that   *)
(* its assumptions admit.                                                  *)
(***************************************************************************)
EXTENDS ChainIngest, FiniteSetTheorems, TLAPS

--------------------------------------------------------------------------------
(* Facts about the DAG *)

(* The heights of a chain are finitely many natural numbers. *)
LEMMA ChainHeights ==
  ASSUME NEW T \in Heads
  PROVE  /\ Chain[T] \subseteq Block
         /\ IsFiniteSet(HeightsOf(Chain[T]))
         /\ \A b \in Chain[T] : Height[b] \in Nat
<1>1. Chain[T] \subseteq Block
  BY ChainAssumption
<1>2. IsFiniteSet(Chain[T])
  BY <1>1, DagAssumption, FS_Subset
<1>3. IsFiniteSet({Height[b] : b \in Chain[T]})
  <2> DEFINE f == [b \in Chain[T] |-> Height[b]]
  <2>1. f \in Surjection(Chain[T], HeightsOf(Chain[T]))
    BY DEF Surjection, HeightsOf
  <2>2. QED
    BY <1>2, <2>1, FS_Surjection DEF HeightsOf
<1>4. QED
  BY <1>1, <1>3, DagAssumption DEF HeightsOf

(* What lies below a deep block of a chain is deep in it. *)
LEMMA DeepIsPrefix ==
  ASSUME NEW T \in Heads
  PROVE  /\ Deep(T) \subseteq Chain[T]
         /\ \A a \in Chain[T], b \in Deep(T) : Height[a] <= Height[b] => a \in Deep(T)
<1>1. SUFFICES ASSUME NEW a \in Chain[T], NEW b \in Deep(T), Height[a] <= Height[b]
               PROVE  a \in Deep(T)
  BY DEF Deep
<1> DEFINE Above(c) == {k \in HeightsOf(Chain[T]) : k > Height[c]}
<1>2. IsFiniteSet(Above(a)) /\ IsFiniteSet(Above(b))
  BY ChainHeights, FS_Subset
<1>3. Above(b) \subseteq Above(a)
  <2>1. \A k \in HeightsOf(Chain[T]) : k \in Nat
    BY ChainHeights DEF HeightsOf
  <2>2. b \in Chain[T] /\ Height[a] \in Nat /\ Height[b] \in Nat
    BY ChainHeights DEF Deep
  <2>3. QED
    BY <1>1, <2>1, <2>2
<1>4. Cardinality(Above(b)) <= Cardinality(Above(a))
  BY <1>2, <1>3, FS_Subset
<1>5. Cardinality(Above(b)) >= FinalityDepth
  BY DEF Deep
<1>6. Cardinality(Above(a)) \in Nat /\ Cardinality(Above(b)) \in Nat
  BY <1>2, FS_CardinalityType
<1>7. Cardinality(Above(a)) >= FinalityDepth
  BY <1>4, <1>5, <1>6, FinalityAssumption
<1>8. QED
  BY <1>7 DEF Deep

(* What ls returns is deep in the chain it walked, holds everything of the *)
(* chain between toBlock and maxHeight, and reaches maxHeight.             *)
LEMMA ConfirmedIsDeep ==
  ASSUME NEW T \in Heads, NEW n \in Nat, NEW m \in MaxHeights(T, n)
  PROVE  /\ m \in Nat /\ n < m
         /\ UpTo(T, n, m) = {b \in Deep(T) : n < Height[b] /\ Height[b] <= m}
         /\ \E b \in UpTo(T, n, m) : Height[b] = m
<1> DEFINE H == HeightsOf(Unconfirmed(T, n))
           Above(k) == {j \in HeightsOf(Chain[T]) : j > k}
<1>1. PICK c \in Chain[T] : Height[c] = m /\ m > n
  BY DEF MaxHeights, HeightsOf, Unconfirmed
<1>2. m \in Nat
  BY <1>1, ChainHeights
<1>3. {k \in H : k > m} = Above(m)
  <2>1. \A b \in Chain[T] : Height[b] \in Nat
    BY ChainHeights
  <2>2. ASSUME NEW b \in Chain[T], Height[b] > m
        PROVE  Height[b] > n
    BY <1>1, <1>2, <2>1, <2>2
  <2>3. \A k : k \in Above(m) => k \in H
    BY <2>2 DEF HeightsOf, Unconfirmed
  <2>4. \A k : k \in H => k \in HeightsOf(Chain[T])
    BY DEF HeightsOf, Unconfirmed
  <2>5. QED
    BY <2>3, <2>4
<1>4. Cardinality(Above(m)) = ConfirmationHeights
  BY <1>3 DEF MaxHeights
<1>5. c \in Deep(T)
  BY <1>1, <1>4, FinalityAssumption DEF Deep, ConfirmationHeights
<1>6. UpTo(T, n, m) = {b \in Deep(T) : n < Height[b] /\ Height[b] <= m}
  BY <1>1, <1>5, DeepIsPrefix, ChainHeights DEF UpTo, Unconfirmed
<1>7. QED
  BY <1>1, <1>2, <1>5, <1>6

--------------------------------------------------------------------------------
(* Facts about one state *)

(* The query for the top row has an answer, of the height it should have. *)
LEMMA DbTopIsTop ==
  ASSUME TypeOK, TableInv
  PROVE  /\ DbTop \in Nat /\ IsDbTop(DbTop)
         /\ DbTop > 0 => IsRow(DbTop)
         /\ db # {} => DbTop > 0
<1>1. IsDbTop(DbTop) /\ DbTop \in HeightsOf(db) \cup {0}
  BY DEF TableInv, DbTop
<1>2. \A b \in db : Height[b] \in Nat
  BY DagAssumption DEF TypeOK
<1>3. QED
  BY <1>1, <1>2 DEF IsDbTop, IsRow, HeightsOf

(* The unseen messages of a commit get one row each, and exactly one. *)
LEMMA LastOfEachKeyUnique ==
  ASSUME NEW new \in SUBSET Block
  PROVE  \A r, q \in LastOfEachKey(new) : Key(r[1], r[2]) = Key(q[1], q[2]) => r = q
<1>1. SUFFICES ASSUME NEW r \in LastOfEachKey(new), NEW q \in LastOfEachKey(new),
                      Key(r[1], r[2]) = Key(q[1], q[2])
               PROVE  r = q
  OBVIOUS
<1>2. /\ r = <<r[1], r[2]>> /\ q = <<q[1], q[2]>>
      /\ r[1] \in new /\ q[1] \in new
      /\ r[2] \in Messages[r[1]] /\ q[2] \in Messages[q[1]]
  BY DEF LastOfEachKey, RowsOf
<1>3. Height[r[1]] = Height[q[1]] /\ r[2] = q[2]
  BY <1>1 DEF Key
<1>4. Rank[r[1]] <= Rank[q[1]] /\ Rank[q[1]] <= Rank[r[1]]
  BY <1>2, <1>3 DEF LastOfEachKey, RowsOf
<1>5. Rank[r[1]] = Rank[q[1]]
  BY <1>2, <1>4, MessageAssumption
<1>6. r[1] = q[1]
  BY <1>2, <1>3, <1>5, MessageAssumption
<1>7. QED
  BY <1>2, <1>3, <1>6

LEMMA LastOfEachKeyComplete ==
  ASSUME NEW new \in SUBSET Block, NEW b \in new, NEW m \in Messages[b]
  PROVE  \E r \in LastOfEachKey(new) : Key(r[1], r[2]) = Key(b, m)
<1> DEFINE S == {c \in new : Height[c] = Height[b] /\ m \in Messages[c]}
<1>1. b \in S /\ S \in SUBSET Block
  OBVIOUS
<1>2. PICK c \in S : \A d \in S : Rank[d] <= Rank[c]
  BY <1>1, MessageAssumption
<1>3. <<c, m>> \in LastOfEachKey(new)
  BY <1>2 DEF LastOfEachKey, RowsOf
<1>4. Key(c, m) = Key(b, m)
  BY <1>2 DEF Key
<1>5. QED
  BY <1>3, <1>4

--------------------------------------------------------------------------------
(* Steps *)

(* What depends on the node and the disk alone survives a step that leaves *)
(* both alone.                                                             *)
LEMMA DiskFrame ==
  ASSUME IInv, UNCHANGED <<nodeVars, diskVars>>
  PROVE  NodeInv' /\ TableInv' /\ UniqInv'
BY DEF IInv, nodeVars, diskVars, NodeInv, TableInv, UniqInv, OneRowPerMessage,
       EveryMessageCounted, IsDbTop, HeightsOf, Key, Covered

(* The node moves on: blocks settle above those that were, so the batch    *)
(* that a poll carries is still everything settled up to its maxHeight.    *)
LEMMA NewHeadStep ==
  ASSUME IInv, NEW T \in Heads, NewHead(T)
  PROVE  IInv'
<1> USE DEF IInv
<1>1. Deep(T) \subseteq Chain[T] /\ Chain[T] \subseteq Block
  BY DeepIsPrefix, ChainHeights
<1>2. \A b \in Block : Height[b] \in Nat
  BY DagAssumption
<1>3. TypeOK'
  BY <1>1 DEF TypeOK, NewHead, diskVars, topVars, pollVars
<1>4. NodeInv'
  <2>1. settled' \subseteq Chain[head']
    BY <1>1 DEF NewHead
  <2>2. ASSUME NEW b \in Chain[T], NEW s \in settled \cup Deep(T), Height[b] <= Height[s]
        PROVE  b \in settled \cup Deep(T)
    BY <2>2, DeepIsPrefix DEF NewHead
  <2>3. QED
    BY <2>1, <2>2 DEF NodeInv, NewHead
<1>5. ASSUME NEW b \in settled' \ settled, NEW s \in settled
      PROVE  Height[b] > Height[s]
  <2>1. b \in Chain[T] /\ s \in Chain[T]
    BY <1>1 DEF NewHead
  <2>2. ~(Height[b] <= Height[s])
    BY <2>1 DEF NewHead
  <2>3. QED
    BY <1>1, <1>2, <2>1, <2>2
<1>6. TableInv'
  <2>1. \A b \in Covered : b \in settled' /\ Height[b] > 0
    BY DEF TableInv, NewHead
  <2>2. ASSUME NEW b \in settled', NEW d \in Covered, 0 < Height[b], Height[b] <= Height[d]
        PROVE  b \in Covered
    <3>1. d \in settled /\ Height[d] \in Nat /\ Height[b] \in Nat
      BY <1>2, <1>3 DEF TableInv, TypeOK
    <3>2. b \in settled
      BY <1>5, <2>2, <3>1
    <3>3. QED
      BY <2>2, <3>2 DEF TableInv
  <2>3. QED
    BY <2>1, <2>2 DEF TableInv, NewHead, diskVars, IsDbTop, HeightsOf, Covered
<1>7. CursorInv'
  BY DEF CursorInv, NewHead, IsRow, IsDbTop, Covered, Unstarted, diskVars, topVars, pollVars
<1>8. BatchInv'
  <2>1. CASE pc \in Polling
    <3>1. PICK c \in batch : Height[c] = maxHeight
      BY <2>1 DEF BatchInv
    <3>2. c \in settled
      BY <2>1, <3>1 DEF BatchInv
    <3>3. \A b \in settled' \ settled : ~(Height[b] <= maxHeight)
      BY <1>2, <1>3, <1>5, <3>1, <3>2 DEF TypeOK
    <3>4. {b \in settled' : lastHeight < Height[b] /\ Height[b] <= maxHeight} = batch
      BY <2>1, <3>3 DEF BatchInv, NewHead
    <3>5. QED
      BY <3>1, <3>4 DEF BatchInv, NewHead, Covered, diskVars, pollVars
  <2>2. CASE pc \notin Polling
    BY <2>2 DEF BatchInv, NewHead, Polling
  <2>3. QED
    BY <2>1, <2>2
<1>9. UniqInv'
  BY DEF NewHead, diskVars, UniqInv, OneRowPerMessage, EveryMessageCounted, Key
<1>10. QED
  BY <1>3, <1>4, <1>6, <1>7, <1>8, <1>9

(* What a transaction is about to insert: it continues what is covered,    *)
(* and what of it the table does not hold is above all that it holds.      *)
LEMMA BatchFollows ==
  ASSUME IInv, pc = "persist"
  PROVE  /\ batch = {b \in settled : lastHeight < Height[b] /\ Height[b] <= maxHeight}
         /\ \E b \in batch : Height[b] = maxHeight
         /\ lastHeight \in Nat /\ maxHeight \in Nat /\ lastHeight < maxHeight
         /\ \A b \in settled :
              0 < Height[b] /\ Height[b] <= maxHeight => b \in Covered \cup batch
         /\ \A b \in batch \ db, d \in db : Height[d] < Height[b]
<1> USE DEF IInv
<1>1. \A b \in Block : Height[b] \in Nat
  BY DagAssumption
<1>2. db \subseteq Block /\ lost \subseteq Block /\ settled \subseteq Block
  BY DEF TypeOK
<1>3. /\ batch = {b \in settled : lastHeight < Height[b] /\ Height[b] <= maxHeight}
      /\ \E b \in batch : Height[b] = maxHeight
      /\ lastHeight \in Nat /\ maxHeight \in Nat /\ lastHeight < maxHeight
  BY <1>1 DEF BatchInv, Polling, TypeOK
<1>4. ASSUME NEW b \in settled, 0 < Height[b], Height[b] <= maxHeight
      PROVE  b \in Covered \cup batch
  <2>1. CASE lastHeight < Height[b]
    BY <1>3, <1>4, <2>1
  <2>2. CASE ~(lastHeight < Height[b])
    <3>1. Height[b] \in Nat /\ lastHeight > 0
      BY <1>1, <1>2, <1>3, <1>4, <2>2
    <3>2. PICK e \in Covered : Height[e] = lastHeight
      BY <3>1 DEF CursorInv
    <3>3. Height[b] <= Height[e]
      BY <1>3, <2>2, <3>1, <3>2
    <3>4. QED
      BY <1>4, <3>2, <3>3 DEF TableInv
  <2>3. QED
    BY <2>1, <2>2
<1>5. ASSUME NEW b \in batch \ db, NEW d \in db
      PROVE  Height[d] < Height[b]
  <2>1. SUFFICES ASSUME Height[b] <= Height[d]
                 PROVE  FALSE
    BY <1>1, <1>2, <1>3
  <2>2. b \in settled /\ lastHeight < Height[b] /\ 0 < Height[b]
    BY <1>1, <1>2, <1>3
  <2>3. b \in lost
    BY <2>1, <2>2 DEF TableInv, Covered
  <2>4. Height[d] < Height[b]
    BY <2>2, <2>3 DEF CursorInv, Unstarted
  <2>5. QED
    BY <1>1, <1>2, <1>3, <2>1, <2>4
<1>6. QED
  BY <1>3, <1>4, <1>5

(* Whatever becomes of the transaction, the batch is covered.              *)
LEMMA CoverStep ==
  ASSUME IInv, pc = "persist", UNCHANGED nodeVars,
         \/ db' = db \cup batch /\ lost' = lost \ batch
         \/ db' = db /\ lost' = lost \cup (batch \ db)
  PROVE  /\ db' \subseteq Block /\ db \subseteq db' /\ lost' \subseteq Block
         /\ Covered' = Covered \cup batch
         /\ NodeInv' /\ TableInv'
         /\ \A d \in db' : Height[d] <= lastHeight => d \in db
         /\ \A b \in lost', d \in db' : lastHeight < Height[b] => Height[d] < Height[b]
<1> USE DEF IInv
<1>1. \A b \in Block : Height[b] \in Nat
  BY DagAssumption
<1>2. /\ batch = {b \in settled : lastHeight < Height[b] /\ Height[b] <= maxHeight}
      /\ \E b \in batch : Height[b] = maxHeight
      /\ lastHeight \in Nat /\ maxHeight \in Nat /\ lastHeight < maxHeight
      /\ \A b \in settled :
           0 < Height[b] /\ Height[b] <= maxHeight => b \in Covered \cup batch
      /\ \A b \in batch \ db, d \in db : Height[d] < Height[b]
  BY BatchFollows
<1>3. /\ settled' = settled /\ head' = head
      /\ db \subseteq Block /\ lost \subseteq Block /\ batch \subseteq Block /\ settled \subseteq Block
  BY DEF nodeVars, TypeOK
<1>4. Covered' = Covered \cup batch
  BY DEF Covered
<1>5. NodeInv'
  BY <1>3 DEF NodeInv
<1>6. lost \subseteq settled
  BY DEF TableInv, Covered
<1>7. ASSUME NEW b \in lost', NEW d \in db'
      PROVE  /\ Height[b] # Height[d]
             /\ lastHeight < Height[b] => Height[d] < Height[b]
  <2>1. \A e \in lost, f \in db :
          Height[e] # Height[f] /\ (lastHeight < Height[e] => Height[f] < Height[e])
    BY DEF TableInv, CursorInv, Unstarted
  <2>2. CASE b \in lost /\ d \in db
    BY <2>1, <2>2
  <2>3. CASE b \in batch \ db /\ d \in db
    BY <1>1, <1>2, <1>3, <2>3
  <2>4. CASE b \in lost \ batch /\ d \in batch
    <3>1. b \in settled /\ Height[b] \in Nat /\ Height[d] \in Nat
      BY <1>1, <1>3, <1>6, <2>4
    <3>2. ~(lastHeight < Height[b] /\ Height[b] <= maxHeight)
      BY <1>2, <2>4, <3>1
    <3>3. lastHeight < Height[d] /\ Height[d] <= maxHeight
      BY <1>2, <2>4
    <3>4. QED
      BY <1>2, <3>1, <3>2, <3>3
  <2>5. QED
    BY <2>2, <2>3, <2>4
<1>8. TableInv'
  <2>1. \A b \in Covered' : b \in settled' /\ Height[b] > 0
    BY <1>1, <1>2, <1>3, <1>4 DEF TableInv
  <2>2. ASSUME NEW b \in settled, NEW d \in Covered', 0 < Height[b], Height[b] <= Height[d]
        PROVE  b \in Covered'
    <3>1. CASE d \in Covered
      BY <1>4, <2>2, <3>1 DEF TableInv
    <3>2. CASE d \in batch
      BY <1>1, <1>2, <1>3, <1>4, <2>2, <3>2
    <3>3. QED
      BY <1>4, <3>1, <3>2
  <2>3. \E n \in HeightsOf(db') \cup {0} : IsDbTop(n)'
    <3>1. PICK n \in HeightsOf(db) \cup {0} : IsDbTop(n)
      BY DEF TableInv
    <3>2. PICK c \in batch : Height[c] = maxHeight
      BY <1>2
    <3> DEFINE m == Height[c]
    <3>3. n \in Nat /\ m \in Nat
      BY <1>1, <1>3, <3>1 DEF HeightsOf
    <3>4. CASE db' = db
      BY <3>1, <3>4 DEF IsDbTop, HeightsOf
    <3>5. CASE db' = db \cup batch /\ n >= m
      <4>1. IsDbTop(n)'
        BY <1>1, <1>2, <1>3, <3>1, <3>2, <3>3, <3>5 DEF IsDbTop
      <4>2. n \in HeightsOf(db') \cup {0}
        BY <3>1, <3>5 DEF HeightsOf
      <4>3. QED
        BY <4>1, <4>2
    <3>6. CASE db' = db \cup batch /\ n < m
      <4>1. IsDbTop(m)'
        BY <1>1, <1>2, <1>3, <3>1, <3>2, <3>3, <3>6 DEF IsDbTop
      <4>2. m \in HeightsOf(db')
        BY <3>2, <3>6 DEF HeightsOf
      <4>3. QED
        BY <4>1, <4>2
    <3>7. QED
      BY <3>3, <3>4, <3>5, <3>6
  <2>4. QED
    BY <1>3, <1>7, <2>1, <2>2, <2>3 DEF TableInv
<1>9. \A d \in db' : Height[d] <= lastHeight => d \in db
  BY <1>1, <1>2, <1>3
<1>10. QED
  BY <1>3, <1>4, <1>5, <1>7, <1>8, <1>9

(* A commit, whether or not its acknowledgement arrives: its messages get  *)
(* rows whose keys no older row has.                                       *)
LEMMA CommitStep ==
  ASSUME IInv, pc = "persist", Commit, UNCHANGED nodeVars
  PROVE  /\ uniq' \subseteq db' \X UNION {Messages[b] : b \in Block}
         /\ UniqInv'
<1> USE DEF IInv
<1> DEFINE new == batch \ db
<1>1. uniq' = uniq \cup LastOfEachKey(new) /\ new \in SUBSET Block /\ db' = db \cup batch
  BY DEF Commit, TypeOK
<1>2. uniq' \subseteq db' \X UNION {Messages[b] : b \in Block}
  <2>1. LastOfEachKey(new) \subseteq db' \X UNION {Messages[b] : b \in Block}
    BY <1>1 DEF LastOfEachKey, RowsOf
  <2>2. QED
    BY <1>1, <2>1 DEF TypeOK
<1>3. ASSUME NEW r \in uniq, NEW q \in LastOfEachKey(new)
      PROVE  Height[r[1]] # Height[q[1]]
  <2>1. r[1] \in db /\ q[1] \in new
    BY DEF TypeOK, LastOfEachKey, RowsOf
  <2>2. Height[r[1]] \in Nat /\ Height[q[1]] \in Nat
    BY <1>1, <2>1, DagAssumption DEF TypeOK
  <2>3. QED
    BY <2>1, <2>2, BatchFollows
<1>4. OneRowPerMessage'
  <2>1. SUFFICES ASSUME NEW r \in uniq', NEW q \in uniq', Key(r[1], r[2]) = Key(q[1], q[2])
                 PROVE  r = q
    BY DEF OneRowPerMessage
  <2>2. Height[r[1]] = Height[q[1]]
    BY <2>1 DEF Key
  <2>3. CASE r \in uniq /\ q \in uniq
    BY <2>1, <2>3 DEF UniqInv, OneRowPerMessage
  <2>4. CASE r \in LastOfEachKey(new) /\ q \in LastOfEachKey(new)
    BY <1>1, <2>1, <2>4, LastOfEachKeyUnique
  <2>5. QED
    BY <1>1, <1>3, <2>2, <2>3, <2>4
<1>5. EveryMessageCounted'
  <2>1. SUFFICES ASSUME NEW b \in db', NEW m \in Messages[b]
                 PROVE  \E r \in uniq' : Key(r[1], r[2]) = Key(b, m)
    BY DEF EveryMessageCounted
  <2>2. CASE b \in db
    BY <1>1, <2>1, <2>2 DEF UniqInv, EveryMessageCounted
  <2>3. CASE b \in new
    BY <1>1, <2>1, <2>3, LastOfEachKeyComplete
  <2>4. QED
    BY <1>1, <2>2, <2>3
<1>6. QED
  BY <1>2, <1>4, <1>5 DEF UniqInv

(* ls answers: the batch is what is settled above the cursor. *)
LEMMA FetchStep ==
  ASSUME IInv, Fetch
  PROVE  IInv'
<1> USE DEF IInv
<1>1. PICK m \in MaxHeights(head, lastHeight) :
        maxHeight' = m /\ batch' = UpTo(head, lastHeight, m)
  BY DEF Fetch
<1>2. head \in Heads /\ lastHeight \in Nat /\ settled \subseteq Block
  BY DEF TypeOK
<1>3. /\ m \in Nat /\ lastHeight < m
      /\ batch' = {b \in Deep(head) : lastHeight < Height[b] /\ Height[b] <= m}
      /\ \E b \in batch' : Height[b] = m
  BY <1>1, <1>2, ConfirmedIsDeep
<1>4. Deep(head) \subseteq Chain[head] /\ Chain[head] \subseteq Block
  BY <1>2, DeepIsPrefix, ChainHeights
<1>5. TypeOK'
  BY <1>1, <1>3, <1>4 DEF Fetch, TypeOK, nodeVars, diskVars, topVars, Polling
<1>6. NodeInv' /\ TableInv' /\ UniqInv'
  BY DiskFrame DEF Fetch
<1>7. CursorInv'
  BY DEF CursorInv, Fetch, IsRow, IsDbTop, Covered, Unstarted, diskVars, topVars
<1>8. BatchInv'
  <2>1. Deep(head) \subseteq settled
    BY DEF NodeInv
  <2>2. PICK c \in Deep(head) : Height[c] = m
    BY <1>3
  <2>3. ASSUME NEW b \in settled, Height[b] <= m
        PROVE  b \in Deep(head)
    BY <1>2, <2>2, <2>3, DeepIsPrefix DEF NodeInv
  <2>4. batch' = {b \in settled : lastHeight < Height[b] /\ Height[b] <= m}
    BY <1>3, <2>1, <2>3
  <2>5. QED
    BY <1>1, <1>3, <2>4 DEF BatchInv, Fetch, Polling, nodeVars, diskVars
<1>9. QED
  BY <1>5, <1>6, <1>7, <1>8

(* The remaining steps leave node and table alone: what is left to show is *)
(* their effect on the cursor, the cached top and the poll.                *)
LEMMA StartStep ==
  ASSUME IInv, Start
  PROVE  IInv'
<1> USE DEF IInv
<1>1. DbTop \in Nat /\ IsDbTop(DbTop) /\ (DbTop > 0 => IsRow(DbTop))
  BY DbTopIsTop
<1>2. NodeInv' /\ TableInv' /\ UniqInv'
  BY DiskFrame DEF Start
<1>3. TypeOK'
  BY <1>1 DEF Start, TypeOK, nodeVars, diskVars, pollVars
<1>4. CursorInv'
  <2>1. \A b \in db \cup lost : Height[b] \in Nat
    BY DagAssumption DEF TypeOK
  <2>2. /\ lastHeight' \in Nat /\ IsDbTop(lastHeight') /\ topBlock' = lastHeight'
        /\ lastHeight' > 0 => IsRow(lastHeight')
    BY <1>1 DEF Start, CursorInv, TypeOK, Unstarted
  <2>3. /\ \A d \in db : Height[d] <= lastHeight' => topBlock' > 0
        /\ \A b \in lost, d \in db : lastHeight' < Height[b] => Height[d] < Height[b]
    BY <2>1, <2>2 DEF IsDbTop
  <2>4. /\ db' = db /\ lost' = lost /\ flight' = flight /\ pc' = "idle"
        /\ flight.st # "none" => topBlock' = 0
        /\ topBlock' > 0 => IsRow(topBlock')
        /\ flight.row > 0 => IsRow(flight.row)
    BY <2>2 DEF Start, CursorInv, diskVars, TypeOK
  <2>5. QED
    BY <2>2, <2>3, <2>4 DEF CursorInv, IsRow, Covered, Unstarted
<1>5. BatchInv'
  BY DEF Start, BatchInv, Polling
<1>6. QED
  BY <1>2, <1>3, <1>4, <1>5

LEMMA RefreshTopStep ==
  ASSUME IInv, RefreshTop
  PROVE  IInv'
<1> USE DEF IInv
<1>1. DbTop \in Nat /\ (DbTop > 0 => IsRow(DbTop)) /\ (db # {} => DbTop > 0)
  BY DbTopIsTop
<1>2. NodeInv' /\ TableInv' /\ UniqInv'
  BY DiskFrame DEF RefreshTop
<1>3. TypeOK'
  BY <1>1 DEF RefreshTop, TypeOK, nodeVars, diskVars, pollVars, Polling
<1>4. CursorInv'
  BY <1>1 DEF RefreshTop, CursorInv, IsRow, Covered, Unstarted, TypeOK, diskVars
<1>5. BatchInv'
  BY DEF RefreshTop, BatchInv, Covered, Polling, nodeVars, diskVars, pollVars
<1>6. QED
  BY <1>2, <1>3, <1>4, <1>5

(* A poll that gets through leaves its maxHeight as the cursor, which is   *)
(* the height of a covered block by then, and a top block in the cache if  *)
(* there is a row.                                                         *)
LEMMA UpdateMarketPowerStep ==
  ASSUME IInv, UpdateMarketPower
  PROVE  IInv' /\ lastHeight' >= lastHeight /\ topBlock' >= topBlock
<1> USE DEF IInv
<1>1. DbTop \in Nat /\ (DbTop > 0 => IsRow(DbTop)) /\ (db # {} => DbTop > 0)
  BY DbTopIsTop
<1>2. PICK c \in batch : Height[c] = maxHeight
  BY DEF UpdateMarketPower, BatchInv, Polling
<1>3. c \in Covered /\ lastHeight < maxHeight /\ lastHeight \in Nat /\ maxHeight \in Nat
  BY <1>2 DEF UpdateMarketPower, BatchInv, Polling, TypeOK
<1>4. /\ topBlock' \in Nat /\ topBlock' >= topBlock
      /\ topBlock' > 0 => IsRow(topBlock')
      /\ db # {} => topBlock' > 0
  BY <1>1 DEF UpdateMarketPower, TypeOK, CursorInv
<1>5. NodeInv' /\ TableInv' /\ UniqInv'
  BY DiskFrame DEF UpdateMarketPower
<1>6. TypeOK'
  BY <1>4 DEF UpdateMarketPower, EndPoll, TypeOK, nodeVars, diskVars
<1>7. CursorInv'
  <2>1. \A b \in lost, d \in db : maxHeight < Height[b] => Height[d] < Height[b]
    <3>1. \A b \in lost : Height[b] \in Nat
      BY DagAssumption DEF TypeOK
    <3>2. \A b \in lost, d \in db : lastHeight < Height[b] => Height[d] < Height[b]
      BY DEF UpdateMarketPower, CursorInv, Unstarted
    <3>3. QED
      BY <1>3, <3>1, <3>2
  <2>2. \E d \in Covered : Height[d] = maxHeight
    BY <1>2, <1>3
  <2>3. /\ db' = db /\ lost' = lost /\ flight' = flight /\ pc' = "idle"
        /\ lastHeight' = maxHeight
        /\ flight.st # "none" => topBlock' = 0
        /\ flight.row > 0 => IsRow(flight.row)
    BY DEF UpdateMarketPower, EndPoll, CursorInv, diskVars, TypeOK
  <2>4. QED
    BY <1>4, <2>1, <2>2, <2>3 DEF CursorInv, IsRow, Covered, Unstarted
<1>8. BatchInv'
  BY DEF UpdateMarketPower, EndPoll, BatchInv, Polling
<1>9. QED
  BY <1>3, <1>4, <1>5, <1>6, <1>7, <1>8 DEF UpdateMarketPower

(* The three ends of a transaction whose COMMIT is sent. *)
LEMMA CommitSteps ==
  ASSUME IInv, Persist \/ PersistLost \/ PersistUnacknowledged
  PROVE  IInv'
<1> USE DEF IInv
<1>1. pc = "persist" /\ UNCHANGED nodeVars
  BY DEF Persist, PersistLost, PersistUnacknowledged
<1>2. /\ \/ db' = db \cup batch /\ lost' = lost \ batch
         \/ db' = db /\ lost' = lost \cup (batch \ db)
      /\ UNCHANGED <<lastHeight, topBlock, flight>>
      /\ pc' \in {"refresh", "idle"}
  BY DEF Persist, PersistLost, PersistUnacknowledged, Commit, EndPoll, topVars
<1>3. /\ db' \subseteq Block /\ db \subseteq db' /\ lost' \subseteq Block
      /\ Covered' = Covered \cup batch
      /\ NodeInv' /\ TableInv'
      /\ \A d \in db' : Height[d] <= lastHeight => d \in db
      /\ \A b \in lost', d \in db' : lastHeight < Height[b] => Height[d] < Height[b]
  BY <1>1, <1>2, CoverStep
<1>4. uniq' \subseteq db' \X UNION {Messages[b] : b \in Block} /\ UniqInv'
  <2>1. CASE Persist \/ PersistUnacknowledged
    BY <1>1, <2>1, CommitStep DEF Persist, PersistUnacknowledged
  <2>2. CASE PersistLost
    BY <2>2 DEF PersistLost, UniqInv, OneRowPerMessage, EveryMessageCounted, TypeOK, Key
  <2>3. QED
    BY <2>1, <2>2
<1>5. TypeOK'
  BY <1>3, <1>4 DEF TypeOK, Persist, PersistLost, PersistUnacknowledged, EndPoll, nodeVars,
                    topVars, pollVars, Polling
<1>6. CursorInv'
  BY <1>2, <1>3 DEF CursorInv, IsRow, Unstarted
<1>7. BatchInv'
  BY <1>3 DEF BatchInv, Persist, PersistLost, PersistUnacknowledged, EndPoll, nodeVars,
              pollVars, Polling
<1>8. QED
  BY <1>3, <1>4, <1>5, <1>6, <1>7

(* API flights, their landing and failure, and the steps of a poll that    *)
(* only move it on or end it. *)
LEMMA TopSteps ==
  ASSUME IInv, ApiAskTop \/ DbAnswersTop \/ LandTop \/ TopFails
  PROVE  IInv'
<1> USE DEF IInv
<1>1. DbTop \in Nat /\ IsDbTop(DbTop) /\ (DbTop > 0 => IsRow(DbTop))
  BY DbTopIsTop
<1>2. NodeInv' /\ TableInv' /\ UniqInv'
  BY DiskFrame DEF ApiAskTop, DbAnswersTop, LandTop, TopFails
<1>3. TypeOK'
  BY <1>1 DEF ApiAskTop, DbAnswersTop, LandTop, TopFails, EndPoll, TypeOK, Flights, NoFlight,
              Polling, nodeVars, diskVars, pollVars
<1>4. BatchInv'
  BY DEF ApiAskTop, DbAnswersTop, LandTop, TopFails, EndPoll, BatchInv, Polling, Covered,
         nodeVars, diskVars, pollVars
<1>5. /\ UNCHANGED <<db, lost, lastHeight>>
      /\ pc' \in Unstarted <=> pc \in Unstarted
  BY DEF ApiAskTop, DbAnswersTop, LandTop, TopFails, EndPoll, Unstarted, diskVars
<1>6. /\ topBlock > 0 => topBlock' > 0
      /\ topBlock' > 0 => IsRow(topBlock')
      /\ flight'.row > 0 => IsRow(flight'.row)
      /\ flight'.st # "none" => topBlock' = 0
  BY <1>1 DEF ApiAskTop, DbAnswersTop, LandTop, TopFails, CursorInv, TypeOK, Flights, NoFlight
<1>7. CursorInv'
  <2>1. /\ lastHeight' > 0 => (\E d \in Covered : Height[d] = lastHeight)'
        /\ (\A d \in db : Height[d] <= lastHeight => topBlock > 0)'
    BY <1>5, <1>6 DEF CursorInv, Covered
  <2>2. /\ topBlock' > 0 => IsRow(topBlock)'
        /\ flight'.row > 0 => IsRow(flight.row)'
        /\ flight'.st # "none" => topBlock' = 0
    BY <1>5, <1>6 DEF IsRow
  <2>3. pc' \in Unstarted =>
          /\ lastHeight' = 0
          /\ topBlock' > 0 => IsDbTop(topBlock)'
          /\ flight'.row > 0 => IsDbTop(flight.row)'
    <3>1. pc' \in Unstarted => lastHeight' = 0
      BY <1>5 DEF CursorInv
    <3>2. pc' \in Unstarted /\ topBlock' > 0 => IsDbTop(topBlock)'
      <4>1. pc \in Unstarted /\ topBlock' > 0 =>
              \/ topBlock' = topBlock /\ IsDbTop(topBlock)
              \/ topBlock' = flight.row /\ IsDbTop(flight.row)
        BY DEF ApiAskTop, DbAnswersTop, LandTop, TopFails, CursorInv, TypeOK, Flights
      <4>2. QED
        BY <1>5, <4>1 DEF IsDbTop
    <3>3. pc' \in Unstarted /\ flight'.row > 0 => IsDbTop(flight.row)'
      <4>1. pc \in Unstarted /\ flight'.row > 0 =>
              \/ flight'.row = DbTop
              \/ flight'.row = flight.row /\ IsDbTop(flight.row)
        BY DEF ApiAskTop, DbAnswersTop, LandTop, TopFails, CursorInv, TypeOK, Flights, NoFlight
      <4>2. QED
        BY <1>1, <1>5, <4>1 DEF IsDbTop
    <3>4. QED
      BY <3>1, <3>2, <3>3
  <2>4. pc' \notin Unstarted =>
          (\A b \in lost, d \in db : lastHeight < Height[b] => Height[d] < Height[b])'
    BY <1>5 DEF CursorInv
  <2>5. QED
    BY <2>1, <2>2, <2>3, <2>4 DEF CursorInv
<1>8. QED
  BY <1>2, <1>3, <1>4, <1>7

LEMMA PollSteps ==
  ASSUME IInv, Boot \/ StartFails \/ UpdateMiners \/ JoinTop \/ PollFails \/ Crash
  PROVE  IInv'
<1> USE DEF IInv
<1>1. NodeInv' /\ TableInv' /\ UniqInv'
  BY DiskFrame DEF Boot, StartFails, UpdateMiners, JoinTop, PollFails, Crash
<1>2. TypeOK'
  BY DEF Boot, StartFails, UpdateMiners, JoinTop, PollFails, Crash, EndPoll, TypeOK, Flights, NoFlight,
         Polling, nodeVars, diskVars, topVars, pollVars
<1>3. CursorInv'
  <2>1. CASE Crash
    <3>1. \A d \in db : ~(Height[d] <= 0)
      BY DagAssumption DEF TypeOK, TableInv, Covered
    <3>2. QED
      BY <2>1, <3>1 DEF Crash, CursorInv, NoFlight, Unstarted, diskVars
  <2>2. CASE ~Crash
    <3>1. /\ UNCHANGED <<db, lost, lastHeight, topBlock, flight>>
          /\ pc' \in Unstarted <=> pc \in Unstarted
      BY <2>2 DEF Boot, StartFails, UpdateMiners, JoinTop, PollFails, EndPoll, Polling,
                  Unstarted, diskVars, topVars, pollVars
    <3>2. QED
      BY <3>1 DEF CursorInv, Covered, IsRow, IsDbTop
  <2>3. QED
    BY <2>1, <2>2
<1>4. BatchInv'
  BY DEF Boot, StartFails, UpdateMiners, JoinTop, PollFails, Crash, EndPoll, BatchInv, Polling,
         Covered, nodeVars, diskVars, topVars, pollVars
<1>5. QED
  BY <1>1, <1>2, <1>3, <1>4

--------------------------------------------------------------------------------
(* Theorems *)

LEMMA InitIInv == Init => IInv
<1> SUFFICES ASSUME Init
             PROVE  IInv
  OBVIOUS
<1>1. head \in Heads /\ settled = Deep(head)
  BY DEF Init
<1>2. Deep(head) \subseteq Chain[head] /\ Chain[head] \subseteq Block
  BY <1>1, DeepIsPrefix, ChainHeights
<1>3. TypeOK
  BY <1>1, <1>2 DEF Init, TypeOK, Flights, NoFlight
<1>4. NodeInv
  BY <1>1, DeepIsPrefix DEF NodeInv
<1>5. TableInv
  BY DEF Init, TableInv, IsDbTop, HeightsOf, Covered
<1>6. CursorInv /\ BatchInv
  BY DEF Init, CursorInv, BatchInv, NoFlight, Polling, Unstarted
<1>7. UniqInv
  BY DEF Init, UniqInv, OneRowPerMessage, EveryMessageCounted
<1>8. QED
  BY <1>3, <1>4, <1>5, <1>6, <1>7 DEF IInv

LEMMA NextIInv == IInv /\ [Next]_vars => IInv'
<1> SUFFICES ASSUME IInv, [Next]_vars
             PROVE  IInv'
  OBVIOUS
<1>1. CASE \E T \in Heads : NewHead(T)
  BY <1>1, NewHeadStep
<1>2. CASE ApiAskTop \/ DbAnswersTop \/ LandTop \/ TopFails
  BY <1>2, TopSteps
<1>3. CASE Boot \/ StartFails \/ UpdateMiners \/ JoinTop \/ PollFails \/ Crash
  BY <1>3, PollSteps
<1>4. CASE Persist \/ PersistLost \/ PersistUnacknowledged
  BY <1>4, CommitSteps
<1>5. CASE Start \/ Fetch \/ RefreshTop \/ UpdateMarketPower
  BY <1>5, StartStep, FetchStep, RefreshTopStep, UpdateMarketPowerStep
<1>6. CASE UNCHANGED vars
  <2>1. NodeInv' /\ TableInv' /\ UniqInv'
    BY <1>6, DiskFrame DEF vars
  <2>2. TypeOK' /\ CursorInv' /\ BatchInv'
    BY <1>6 DEF IInv, TypeOK, CursorInv, BatchInv, IsRow, IsDbTop, Covered, vars, nodeVars, diskVars, topVars,
                pollVars
  <2>3. QED
    BY <2>1, <2>2 DEF IInv
<1>7. QED
  BY <1>1, <1>2, <1>3, <1>4, <1>5, <1>6 DEF Next

(* The inductive invariant holds in every reachable state. *)
THEOREM Invariance == Spec => []IInv
<1>1. QED
  BY InitIInv, NextIInv, PTL DEF Spec

(* Every reachable state is of the types TypeOK gives. *)
THEOREM TypeCorrect == Spec => []TypeOK
<1>1. IInv => TypeOK
  BY DEF IInv
<1>2. QED
  BY <1>1, Invariance, PTL

(* No orphan is ever ingested (ChainClient.ls, Chainsaw._doPoll). *)
THEOREM NoOrphans == Spec => []CanonicalOnly
<1>1. IInv => CanonicalOnly
  BY DEF IInv, TableInv, NodeInv, CanonicalOnly, Covered
<1>2. QED
  BY <1>1, Invariance, PTL

(* The cursor never passes a settled block that is not in the table, but   *)
(* for what a COMMIT has acknowledged and rolled back.                     *)
THEOREM NothingSkipped == Spec => []NoSkippedBlock
<1>1. IInv => NoSkippedBlock
  <2>1. SUFFICES ASSUME IInv, NEW b \in settled, 0 < Height[b], Height[b] <= lastHeight
                 PROVE  b \in db \cup lost
    BY DEF NoSkippedBlock
  <2>2. Height[b] \in Nat /\ lastHeight \in Nat
    BY <2>1, DagAssumption DEF IInv, TypeOK
  <2>3. PICK d \in Covered : Height[d] = lastHeight
    BY <2>1, <2>2 DEF IInv, CursorInv
  <2>4. QED
    BY <2>1, <2>3 DEF IInv, TableInv, Covered
<1>2. QED
  BY <1>1, Invariance, PTL

(* A message has at most one row in unique_messages, ... *)
THEOREM CountedOnce == Spec => []OneRowPerMessage
<1>1. IInv => OneRowPerMessage
  BY DEF IInv, UniqInv
<1>2. QED
  BY <1>1, Invariance, PTL

(* ... and a message of an ingested block has one. *)
THEOREM CountedAtAll == Spec => []EveryMessageCounted
<1>1. IInv => EveryMessageCounted
  BY DEF IInv, UniqInv
<1>2. QED
  BY <1>1, Invariance, PTL

(* With a cursor at a row there is a top block to serve, in the table. *)
THEOREM TopExists == Spec => []ServedTopExists
<1>1. IInv => ServedTopExists
  BY DEF IInv, CursorInv, IsRow, ServedTopExists
<1>2. QED
  BY <1>1, Invariance, PTL

(* The served top and the cursor only move forward while the process lives. *)
THEOREM Forward == Spec => NeverBackwards
<1> DEFINE P == pc' # "down" => lastHeight' >= lastHeight /\ topBlock' >= topBlock
<1>1. IInv /\ [Next]_vars => [P]_vars
  <2> SUFFICES ASSUME IInv, Next
               PROVE  P
    OBVIOUS
  <2>1. topBlock \in Nat /\ lastHeight \in Nat
    BY DEF IInv, TypeOK
  <2>2. DbTop \in Nat /\ IsDbTop(DbTop)
    BY DbTopIsTop DEF IInv
  <2>3. CASE UNCHANGED <<topBlock, lastHeight>>
    BY <2>1, <2>3
  <2>4. CASE UpdateMarketPower
    BY <2>4, UpdateMarketPowerStep
  <2>5. CASE RefreshTop
    <3>1. topBlock > 0 => \E d \in db : Height[d] = topBlock
      BY DEF IInv, CursorInv, IsRow
    <3>2. DbTop >= topBlock
      BY <2>1, <2>2, <3>1 DEF IsDbTop
    <3>3. QED
      BY <2>1, <2>5, <3>2 DEF RefreshTop
  <2>6. CASE Start
    BY <2>1, <2>2, <2>6 DEF Start, IInv, CursorInv, Unstarted
  <2>7. CASE LandTop
    BY <2>1, <2>7 DEF LandTop, IInv, CursorInv, TypeOK, Flights
  <2>8. CASE Crash
    BY <2>8 DEF Crash
  <2>9. QED
    BY <2>3, <2>4, <2>5, <2>6, <2>7, <2>8
       DEF Next, NewHead, ApiAskTop, DbAnswersTop, TopFails, Boot, StartFails, Fetch, UpdateMiners,
           Persist, PersistLost, JoinTop, PollFails, PersistUnacknowledged, topVars
<1>2. QED
  BY <1>1, Invariance, PTL DEF Spec, NeverBackwards

(* Ingestion implements the ledger: whatever fails, is lost or crashes in  *)
(* between, the table grows by all that has settled between two heights,   *)
(* above its own rows, or a transaction with just that is lost.            *)
LEMMA InitLedger == IInv /\ Init => Ledger!Init
BY DEF Init, IInv, TypeOK, Ledger!Init

LEMMA NextLedger == IInv /\ [Next]_vars => [Ledger!Next]_<<settled, db, lost>>
<1> SUFFICES ASSUME IInv, Next
             PROVE  Ledger!Next \/ UNCHANGED <<settled, db, lost>>
  BY DEF vars, nodeVars, diskVars
<1>1. ASSUME NEW T \in Heads, NewHead(T)
      PROVE  Ledger!Finalize
  <2>1. settled' \subseteq Block /\ settled \subseteq Block /\ Deep(T) \subseteq Chain[T]
    BY <1>1, DeepIsPrefix, ChainHeights DEF IInv, TypeOK, NewHead
  <2>2. ASSUME NEW b \in settled' \ settled, NEW s \in settled
        PROVE  Height[b] > Height[s]
    <3>1. b \in Chain[T] /\ ~(Height[b] <= Height[s])
      BY <1>1, <2>1, <2>2 DEF NewHead
    <3>2. Height[b] \in Nat /\ Height[s] \in Nat
      BY <2>1, DagAssumption
    <3>3. QED
      BY <3>1, <3>2
  <2>3. QED
    BY <1>1, <2>1, <2>2 DEF NewHead, diskVars, Ledger!Finalize
<1>2. ASSUME pc = "persist"
      PROVE  batch \in Ledger!Batches /\ Ledger!Follows(batch)
  <2>1. PICK c \in batch : c \in settled /\ Height[c] = maxHeight
    BY <1>2, BatchFollows
  <2>2. lastHeight \in {0} \cup {Height[b] : b \in db \cup lost}
    BY <1>2, BatchFollows DEF IInv, CursorInv, Covered
  <2>3. batch = Ledger!Between(lastHeight, Height[c])
    BY <1>2, <2>1, BatchFollows DEF Ledger!Between
  <2>4. QED
    BY <1>2, <2>1, <2>2, <2>3, BatchFollows DEF Ledger!Batches, Ledger!Follows
<1>3. CASE Persist \/ PersistUnacknowledged
  BY <1>2, <1>3
     DEF Persist, PersistUnacknowledged, Commit, nodeVars, Ledger!Next, Ledger!Ingest
<1>4. CASE PersistLost
  BY <1>2, <1>4 DEF PersistLost, nodeVars, Ledger!Next, Ledger!Lose
<1>5. CASE UNCHANGED <<settled, db, lost>>
  BY <1>5
<1>6. QED
  BY <1>1, <1>3, <1>4, <1>5
     DEF Next, Ledger!Next, ApiAskTop, DbAnswersTop, LandTop, TopFails, Boot, Start, StartFails,
         Fetch, UpdateMiners, RefreshTop, JoinTop, UpdateMarketPower, PollFails, Crash, nodeVars,
         diskVars

THEOREM Refinement == Spec => ImplementsLedger
<1>1. QED
  BY Invariance, InitIInv, InitLedger, NextLedger, PTL DEF Spec, ImplementsLedger, Ledger!Spec
=============================================================================
