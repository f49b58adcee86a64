------------------------------ MODULE MCChainDag ------------------------------
(***************************************************************************)
(* A small DAG for model checking: a trunk with a two-block tipset and a   *)
(* null round, and a fork that builds on only one of the two siblings.     *)
(*                                                                         *)
(*   height  0    1    2      3    4    5    6    7                        *)
(*   trunk   g -- a -- b1,b2  c         d -- e -- f1,f2                    *)
(*                       \                                                 *)
(*   fork                 b1  x -- y -- z                                  *)
(***************************************************************************)
EXTENDS Integers, FiniteSets, TLC

MCHeight ==
  "g" :> 0 @@ "a" :> 1 @@ "b1" :> 2 @@ "b2" :> 2 @@ "c" :> 3 @@ "d" :> 5 @@ "e" :> 6
  @@ "f1" :> 7 @@ "f2" :> 7 @@ "x" :> 3 @@ "y" :> 4 @@ "z" :> 5

MCBlock == DOMAIN MCHeight

MCParents ==
  "g" :> {} @@ "a" :> {"g"} @@ "b1" :> {"a"} @@ "b2" :> {"a"} @@ "c" :> {"b1", "b2"}
  @@ "d" :> {"c"} @@ "e" :> {"d"} @@ "f1" :> {"e"} @@ "f2" :> {"e"}
  @@ "x" :> {"b1"} @@ "y" :> {"x"} @@ "z" :> {"y"}

MCHeads ==
  {{"g"}, {"a"}, {"b1"}, {"b1", "b2"}, {"c"}, {"d"}, {"e"}, {"f1"}, {"f1", "f2"},
   {"x"}, {"y"}, {"z"}}

RECURSIVE Below(_)
Below(S) ==
  LET T == S \cup UNION {MCParents[b] : b \in S}
  IN  IF T = S THEN S ELSE Below(T)
MCChain == [T \in MCHeads |-> Below(T)]
=============================================================================
