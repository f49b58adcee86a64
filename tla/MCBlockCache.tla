------------------------------ MODULE MCBlockCache ------------------------------
(* BlockCache with the numbers of its configurations. *)
EXTENDS BlockCache, TLC

Symmetric == Permutations(Nodes) \cup Permutations(Requests)
===============================================================================
