-------------------------------- MODULE Filtering --------------------------------
(***************************************************************************)
(* filter of a list: SelectSeq, as a fold.                                 *)
(***************************************************************************)
EXTENDS SequencesExt

Filter(q, S) ==
  FoldLeft(LAMBDA kept, x : IF x \in S THEN Append(kept, x) ELSE kept, <<>>, q)
================================================================================
