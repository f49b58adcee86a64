------------------------------ MODULE ChainLedger ------------------------------
(***************************************************************************)
(* What ingestion promises to the queries of the stats DAOs, without node, *)
(* process or database: a ledger that only ever grows, by all the final    *)
(* blocks of some heights at a time, in the order of their heights.  What  *)
(* it passes over is one transaction's blocks, and known to be lost; it    *)
(* recovers them as long as it has nothing above them.                     *)
(***************************************************************************)
EXTENDS Integers

CONSTANTS Block, Height

VARIABLES
  final,    \* blocks that are final
  ledger,   \* blocks that are ingested
  lost      \* blocks that were to be ingested and are not there

Between(lo, hi) == {b \in final : lo < Height[b] /\ Height[b] <= hi}

(* The final blocks above a height that was reached, or all of them, up to *)
(* a higher one.  Those that the ledger does not hold come after it.       *)
Batches ==
  {Between(lo, Height[d]) :
     lo \in {0} \cup {Height[b] : b \in ledger \cup lost}, d \in final}
Follows(new) == \A b \in new \ ledger, r \in ledger : Height[r] < Height[b]

Init ==
  /\ final \subseteq Block
  /\ ledger = {} /\ lost = {}

(* More blocks become final, all above those that were. *)
Finalize ==
  /\ final' \subseteq Block
  /\ final \subseteq final'
  /\ \A b \in final' \ final, s \in final : Height[b] > Height[s]
  /\ UNCHANGED <<ledger, lost>>

(* The ledger grows by a batch. *)
Ingest(new) ==
  /\ Follows(new)
  /\ ledger' = ledger \cup new
  /\ lost' = lost \ new
  /\ UNCHANGED final

(* A batch is lost. *)
Lose(new) ==
  /\ Follows(new)
  /\ lost' = lost \cup (new \ ledger)
  /\ UNCHANGED <<final, ledger>>

Next == Finalize \/ \E new \in Batches : Ingest(new) \/ Lose(new)

Spec == Init /\ [][Next]_<<final, ledger, lost>>
=============================================================================
