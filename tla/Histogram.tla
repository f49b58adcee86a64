------------------------------- MODULE Histogram -------------------------------
(***************************************************************************)
(* The histograms of StorageStatsDAO.getCapacityHistogram (increment 500,  *)
(* nine buckets) and TokenStatsDAO.getTokenHoldingsHistogram (increment    *)
(* 500000, five buckets): width_bucket decides where an amount is counted, *)
(* generate_series how the bucket is labelled. Amounts are numeric: unit   *)
(* is how many of the model's steps make 1.                                *)
(***************************************************************************)
EXTENDS Integers, FiniteSets

(* PostgreSQL's width_bucket(a, low, high, count) *)
WidthBucket(a, low, high, count) ==
  IF a < low THEN 0
  ELSE IF a >= high THEN count + 1
  ELSE ((a - low) * count) \div (high - low) + 1

BucketStart(n, increment) == 1 + increment * (n - 1)
BucketEnd(n, increment) == increment * (n - 1) + increment

BucketEnded(a, unit, increment, buckets) ==     \* a mutant: bucketCount for bucketCount - 1
  WidthBucket(a, unit, unit * increment * (buckets + 1), buckets)

BucketOf(a, unit, increment, buckets) ==
  WidthBucket(a, unit, unit * increment * buckets, buckets)

(* What the row beyond the last bucket counts; its n is always 10. *)
Overflows(a, unit, increment, buckets) == a >= unit * (increment * buckets + 1)

(* amount: a function from addresses to amounts *)
Counts(amount, unit, increment, buckets) ==
  [n \in 1..buckets |->
     Cardinality({p \in DOMAIN amount : BucketOf(amount[p], unit, increment, buckets) = n})]
Overflow(amount, unit, increment, buckets) ==
  Cardinality({p \in DOMAIN amount : Overflows(amount[p], unit, increment, buckets)})
================================================================================
