------------------------------- MODULE ChainWalk -------------------------------
(***************************************************************************)
(* ChainClient.ls(toBlock), one iteration of its while loop at a time: the *)
(* walk that ChainIngest's Fetch takes as a single step.  Each iteration   *)
(* awaits show/block, so the walk may end in an error at any of them.      *)
(***************************************************************************)
EXTENDS ChainData, Filtering

CONSTANTS
  ToBlocks,     \* values of toBlock, the Chainsaw's lastHeight
  Messages      \* [Block -> Seq of [method, to, chunks, bits]]: chunks of params, 0
                \* for none, and how many bits its second number takes

ASSUME ChainWalkAssumption ==
  /\ ToBlocks \subseteq Nat
  /\ Messages \in [Block -> Seq([method : STRING, to : STRING, chunks : Nat, bits : Nat])]

VARIABLES
  tipset,       \* what chain/head answered
  toBlock,
  heads,        \* the queue of CIDs to fetch
  insertedParents,
  heights,      \* distinct heights seen, the latest first
  unconfBlocks, \* blocks above toBlock, in the order they were fetched
  status,       \* "walking", "failed" or "returned"
  result        \* what ls returned

vars == <<tipset, toBlock, heads, insertedParents, heights, unconfBlocks, status, result>>

Init ==
  /\ tipset \in Heads /\ toBlock \in ToBlocks
  /\ heads \in SetToSeqs(tipset)
  /\ insertedParents = {}
  /\ heights = <<>> /\ unconfBlocks = <<>>
  /\ status = "walking" /\ result = <<>>

(* methodDecoders: how many decoders there are for the params of a method, *)
(* of which an ABIDecoder wants as many chunks. Other params stay as they  *)
(* are.                                                                    *)
Decoders == [addAsk |-> 2, createStorageMiner |-> 2, commitSector |-> 5]
Decodes(m) ==
  IF m.chunks # 0 /\ m.method \in DOMAIN Decoders THEN m.chunks = Decoders[m.method] ELSE TRUE

(* fetchBlock: every message of the block is inflated, also of one that is *)
(* dropped.                                                                *)
Inflates(b) == \A i \in DOMAIN Messages[b] : Decodes(Messages[b][i])

(* A block at or below toBlock is fetched and dropped. *)
DropNothing ==     \* a mutant: the dropped block stays in the queue
  /\ status = "walking" /\ heads # <<>> /\ Inflates(Head(heads))
  /\ Height[Head(heads)] <= toBlock
  /\ UNCHANGED vars

Drop ==
  /\ status = "walking" /\ heads # <<>> /\ Inflates(Head(heads))
  /\ Height[Head(heads)] <= toBlock
  /\ heads' = Tail(heads)
  /\ UNCHANGED <<tipset, toBlock, insertedParents, heights, unconfBlocks, status, result>>

AllParents(b) == Parents[b]     \* a mutant: no insertedParents

NewParents(b) == Parents[b] \ insertedParents

(* heights[0] != block.height, with heights[0] undefined at first *)
SeenHeight(h) == heights # <<>> /\ Head(heights) = h

VisitDepthFirst ==     \* a mutant: parents are put before the queue
  /\ status = "walking" /\ heads # <<>> /\ Inflates(Head(heads))
  /\ LET b == Head(heads)
     IN  /\ Height[b] > toBlock
         /\ \E parents \in SetToSeqs(NewParents(b)) : heads' = parents \o Tail(heads)
         /\ insertedParents' = insertedParents \cup Parents[b]
         /\ unconfBlocks' = Append(unconfBlocks, b)
         /\ heights' = IF SeenHeight(Height[b]) THEN heights ELSE Cons(Height[b], heights)
  /\ UNCHANGED <<tipset, toBlock, status, result>>

Visit ==
  /\ status = "walking" /\ heads # <<>> /\ Inflates(Head(heads))
  /\ LET b == Head(heads)
     IN  /\ Height[b] > toBlock
         /\ \E parents \in SetToSeqs(NewParents(b)) : heads' = Tail(heads) \o parents
         /\ insertedParents' = insertedParents \cup Parents[b]
         /\ unconfBlocks' = Append(unconfBlocks, b)
         /\ heights' = IF SeenHeight(Height[b]) THEN heights ELSE Cons(Height[b], heights)
  /\ UNCHANGED <<tipset, toBlock, status, result>>

(* heights.slice(0, -2) and the last element of what is left *)
PrunedByOne == SubSeq(heights, 1, Len(heights) - 1)     \* a mutant: slice(0, -1)

PrunedHeights == SubSeq(heights, 1, Len(heights) - ConfirmationHeights)

Confirmed == {b \in Block : PrunedHeights # <<>> /\ Height[b] <= Last(PrunedHeights)}

Return ==
  /\ status = "walking" /\ heads = <<>>
  /\ result' = Filter(unconfBlocks, Confirmed)
  /\ status' = "returned"
  /\ UNCHANGED <<tipset, toBlock, heads, insertedParents, heights, unconfBlocks>>

WalkFails ==
  /\ status' = "failed"
  /\ UNCHANGED <<tipset, toBlock, heads, insertedParents, heights, unconfBlocks, result>>

InflateThrows == status = "walking" /\ heads # <<>> /\ ~ Inflates(Head(heads)) /\ WalkFails

(* chain/head or show/block rejects. *)
Fail == status = "walking" /\ heads # <<>> /\ WalkFails

Next == Drop \/ Visit \/ Return \/ InflateThrows \/ Fail

(* The node answers every call; nothing makes it answer with an error. *)
WalkFairness == WF_vars(Drop \/ Visit \/ Return \/ InflateThrows)

--------------------------------------------------------------------------------
Returned == status = "returned"

(* What the walk returns is what ChainIngest takes it to return: the       *)
(* blocks above toBlock up to the third height from the top, or none when  *)
(* fewer than three heights are unseen.                                    *)
ReturnsConfirmed ==
  Returned =>
    ToSet(result) =
      UNION {UpTo(tipset, toBlock, m) : m \in MaxHeights(tipset, toBlock)}

(* "0th element is top block", and no block is returned twice although the *)
(* blocks of a tipset all name the same parents.                           *)
TopFirstNoRepeats ==
  Returned =>
    /\ \A i, j \in 1..Len(result) : i < j => Height[result[i]] >= Height[result[j]]
    /\ IsInjective(result)

(* A block is fetched at most once per walk: nothing that waits in the     *)
(* queue has been fetched, or waits there twice.                           *)
FetchedOnce == IsInjective(unconfBlocks \o heads)

(* The inductive invariant behind them, next to the order of the queue:    *)
(* nothing that was found is lost, nothing else is fetched, and heights    *)
(* are those of the blocks above toBlock, the lowest first.                *)
Reached(b) == b \in ToSet(unconfBlocks) \cup ToSet(heads) \/ Height[b] <= toBlock

HeightsInv ==
  /\ heights \in Seq(Nat)
  /\ \A i, j \in 1..Len(heights) : i < j => heights[i] < heights[j]
  /\ ToSet(heights) = HeightsOf(ToSet(unconfBlocks))

ReachInv ==
  /\ toBlock \in Nat
  /\ insertedParents \subseteq Chain[tipset]
  /\ \A b \in tipset \cup insertedParents : Reached(b)
  /\ \A b \in ToSet(unconfBlocks) : Parents[b] \subseteq insertedParents /\ Height[b] > toBlock
  /\ Returned => heads = <<>> /\ result = Filter(unconfBlocks, Confirmed)
=============================================================================
