----------------------------- MODULE MCChainIngest -----------------------------
(* ChainIngest on the DAG of MCChainDag; the siblings b1, b2 carry the     *)
(* same message m, and so do blocks of other heights.                      *)
EXTENDS ChainIngest, MCChainDag

(* Heads that the node may be at: both branches up to their ends. *)
MCIngestHeads == MCHeads \ {{"g"}, {"b1"}, {"f1"}}
MCIngestChain == [T \in MCIngestHeads |-> MCChain[T]]

MCMessages ==
  [b \in MCBlock |->
     CASE b \in {"b1", "b2"} -> {"m"}
       [] b \in {"c", "x", "f1", "f2"} -> {"m", "n"}
       [] OTHER -> {}]

MCRank == [b \in MCBlock |-> IF b \in {"b2", "f2", "x", "z"} THEN 1 ELSE 0]
=============================================================================
