----------------------------- MODULE Materialization -----------------------------
(***************************************************************************)
(* MaterializationService: the poll loop that appends to the tables of     *)
(* materialized statistics while ingestion grows the others, and what the  *)
(* queries then make of the tables.                                        *)
(***************************************************************************)
EXTENDS StorageStats, TokenStats

CONSTANT MaxFailures     \* bound: how often a call of a poll fails

ASSUME FailuresAssumption == MaxFailures \in Nat

VARIABLES
  stage,       \* where the poll is: "down", "waiting" for its timer, or before the second or third insert
  due,         \* when the timer fires
  failures

matVars == <<now, tables, stage, due, failures>>

MatInit ==
  /\ now = 0 /\ ingestedAt = <<>> /\ stage = "down" /\ due = 0 /\ failures = 0
  /\ circulation = {} /\ addresses = {} /\ usage = {} /\ minerCounts = {}

Tick ==
  /\ now < MaxNow /\ stage \in {"down", "waiting"}
  /\ now' = now + 1
  /\ UNCHANGED <<tables, stage, due, failures>>

(* The transaction of a poll of the Chainsaw. *)
IngestTipset ==
  /\ Tip < Len(Script)
  /\ ingestedAt' = Append(ingestedAt, now)
  /\ UNCHANGED <<now, circulation, addresses, usage, minerCounts, stage, due, failures>>

StartMaterializer ==
  /\ stage = "down"
  /\ stage' = "waiting"
  /\ due' = now
  /\ UNCHANGED <<now, tables, failures>>

(* The timer fires. At the last tick time goes on uncounted, as long as a  *)
(* table has no row of that tick.                                          *)
MaterializedNow ==
  \A table \in {circulation, addresses, usage, minerCounts} : \E r \in table : r.at = MaxNow
Due == stage = "waiting" /\ (now >= due \/ (now = MaxNow /\ ~ MaterializedNow))

MaterializeTokenStats ==
  /\ Due
  /\ addresses' = addresses \cup {[count |-> UniqueAddresses, at |-> now]}
  /\ circulation' = circulation \cup {[collateral |-> CollateralizedCoins,
                                       coins |-> Reward(Blocks), at |-> now]}
  /\ UNCHANGED <<now, ingestedAt, usage, minerCounts>>

(* The pledged total is multiplied by the size of a sector twice. *)
UsageRow ==
  [committed |-> Gigabytes(Cardinality({r \in UniqueMessages : r[2].method = "commitSector"})),
   pledged |-> Total(Value, Pledges(UniqueMessages)) * SectorSize * SectorSize,
   at |-> now]

MaterializeUtilizationStats ==
  /\ stage = "utilization"
  /\ usage' = usage \cup {UsageRow}
  /\ UNCHANGED <<now, ingestedAt, circulation, addresses, minerCounts>>

SaveMinerCounts ==
  /\ stage = "counts"
  /\ minerCounts' = minerCounts \cup {[count |-> MinerCount, at |-> now]}
  /\ UNCHANGED <<now, ingestedAt, circulation, addresses, usage>>

Insert == MaterializeTokenStats \/ MaterializeUtilizationStats \/ SaveMinerCounts

(* setTimeout(this.poll, FIVE_MINUTES), in the finally *)
SetTimer == stage' = "waiting" /\ due' = now + 1

GoOn ==
  \/ Due /\ stage' = "utilization" /\ UNCHANGED due
  \/ stage = "utilization" /\ stage' = "counts" /\ UNCHANGED due
  \/ stage = "counts" /\ SetTimer

Poll == Insert /\ GoOn /\ UNCHANGED failures

Failing ==
  /\ Due \/ stage \in {"utilization", "counts"}
  /\ failures < MaxFailures
  /\ failures' = failures + 1

(* A call rejects: those after it are skipped, the timer is set all the same. *)
FailForGood ==     \* a mutant: no finally
  Failing /\ stage' = "failed" /\ UNCHANGED <<now, tables, due>>
Fail ==
  Failing /\ SetTimer /\ UNCHANGED <<now, tables>>

(* Each insert is an executeTx: its COMMIT may be executed and reject all  *)
(* the same, or be answered with a ROLLBACK and go for a success (see      *)
(* PGPool).                                                                *)
Unacknowledged == Failing /\ Insert /\ SetTimer
Lost == Failing /\ GoOn /\ UNCHANGED <<now, tables>>

--------------------------------------------------------------------------------
(* The inductive invariant behind what the queries show: the totals of the *)
(* pledges and of the coins only grow, and a row has those of its time.    *)
IngestionInv ==
  /\ now \in Nat
  /\ ingestedAt \in Seq(0..now) /\ Tip <= Len(Script)
  /\ \A i, j \in 1..Tip : i < j => ingestedAt[i] <= ingestedAt[j]

UsageInv ==
  /\ IsFiniteSet(usage)
  /\ \A u \in usage : /\ u.committed \in Nat /\ u.pledged \in Nat /\ u.at \in 0..now
                      /\ u.pledged <= UsageRow.pledged
  /\ \A u, v \in usage : u.at < v.at => u.pledged <= v.pledged

CirculationInv ==
  /\ IsFiniteSet(circulation)
  /\ \A c \in circulation :
       /\ c.collateral \in Nat \cup {NaN} /\ c.coins \in Nat /\ c.coins <= Reward(Blocks)
       /\ c.collateral # NaN => c.collateral <= Total(Value, Pledges(UniqueMessages))

================================================================================
