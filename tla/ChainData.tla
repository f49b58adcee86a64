------------------------------- MODULE ChainData -------------------------------
(***************************************************************************)
(* The block DAG that the full node serves, as constant data: the blocks   *)
(* that may ever be mined, the tipsets that may ever be the node's head,   *)
(* and what ChainClient.ls (backend/src/client/ChainClient.ts) selects out *)
(* of the chain that hangs below such a head.                              *)
(***************************************************************************)
EXTENDS Integers, FiniteSets

CONSTANTS
  Block,        \* blocks, named by their CID (the code's tipsetHash)
  Height,       \* [Block -> Nat], Header.height
  Parents,      \* [Block -> SUBSET Block], Header.parents: one tipset, or {}
  Heads,        \* tipsets (sets of blocks) that chain/head may answer
  Chain         \* [Heads -> SUBSET Block], what hangs below a head

(* Tipsets: blocks of one height with the same parents. *)
IsTipset(T) ==
  \A a, b \in T : Height[a] = Height[b] /\ Parents[a] = Parents[b]

ASSUME DagAssumption ==
  /\ IsFiniteSet(Block)
  /\ Height \in [Block -> Nat]
  /\ Parents \in [Block -> SUBSET Block]
  /\ \A b \in Block : IsTipset(Parents[b])
  /\ \A b \in Block : \A p \in Parents[b] : Height[p] < Height[b]
  /\ Heads \subseteq SUBSET Block
  /\ \A T \in Heads : T # {} /\ IsTipset(T)

(* Chain[T] is the least set that holds T and the parents of its members. *)
ASSUME ChainAssumption ==
  /\ Chain \in [Heads -> SUBSET Block]
  /\ \A T \in Heads :
       /\ T \subseteq Chain[T]
       /\ \A b \in Chain[T] : Parents[b] \subseteq Chain[T]
       /\ \A S \in SUBSET Chain[T] :
            (T \subseteq S /\ \A b \in S : Parents[b] \subseteq S) => S = Chain[T]

HeightsOf(S) == {Height[b] : b \in S}

(* What ls(toBlock) visits and keeps: the blocks above toBlock. *)
Unconfirmed(T, toBlock) == {b \in Chain[T] : Height[b] > toBlock}

(* heights.slice(0, -2): the two topmost heights are not confirmed yet.    *)
(* MaxHeights is the singleton of prunedHeights' last element, or {} when  *)
(* the code's maxHeight is undefined.                                      *)
ConfirmationHeights == 2

MaxHeightsOffByOne(T, toBlock) ==     \* a mutant: slice(0, -1)
  LET H == HeightsOf(Unconfirmed(T, toBlock))
  IN  {m \in H : Cardinality({k \in H : k > m}) = ConfirmationHeights - 1}

MaxHeights(T, toBlock) ==
  LET H == HeightsOf(Unconfirmed(T, toBlock))
  IN  {m \in H : Cardinality({k \in H : k > m}) = ConfirmationHeights}

(* The blocks ls(toBlock) returns once it has found maxHeight. *)
UpTo(T, toBlock, maxHeight) ==
  {b \in Unconfirmed(T, toBlock) : Height[b] <= maxHeight}
=============================================================================
