------------------------------ MODULE StorageStats ------------------------------
(***************************************************************************)
(* The queries of PostgresStorageStatsDAO (service/dao/StorageStatsDAO.ts) *)
(* and the arithmetic it does on their rows. A series is a function from   *)
(* dates; a ratio is a pair <<numerator, denominator>>.                    *)
(*                                                                         *)
(* A sector is SectorSize / Unit GB. Amounts in GB count Fine parts of one,*)
(* for the pledged total is multiplied by the size of a sector twice.      *)
(***************************************************************************)
EXTENDS StatsTables, Histogram, Filtering

CONSTANTS
  SectorSize, Unit,
  CapacityIncrement, CapacityBuckets,   \* 500 and bucketCount - 1 = 9
  SizeClass                             \* FIVE_TB, in GB

ASSUME StorageAssumption ==
  /\ SectorSize \in Nat \ {0} /\ Unit \in Nat \ {0}
  /\ CapacityIncrement \in Nat \ {0, 1} /\ CapacityBuckets \in Nat \ {0}
  /\ SizeClass \in Nat

Fine == Unit * Unit
Gigabytes(sectors) == sectors * SectorSize * Unit
AsInteger(a) == ((2 * a + Fine) \div (2 * Fine)) * Fine     \* amount::integer

PledgesOn(dur, d, rows) == {r \in Pledges(rows) : Trunc(dur, SentAt(r)) = d}
PledgersOf(rows) == {r[2].from : r \in Pledges(rows)}

--------------------------------------------------------------------------------
(* Series *)

(* The greatest pledged total of each date; a date without one shows the   *)
(* greatest rounded total so far.                                          *)
PledgedOn(dur, d) == Max({0} \cup {u.pledged : u \in {v \in usage : Trunc(dur, v.at) = d}})

UnfilledStorageAmount(dur) ==     \* a mutant: nothing is carried over
  [d \in DurationSeries(dur) |-> PledgedOn(dur, d)]

HistoricalStorageAmount(dur) ==
  LET dates == DurationSeries(dur)
  IN  [d \in dates |->
         IF PledgedOn(dur, d) = 0
           THEN Max({AsInteger(PledgedOn(dur, e)) : e \in {x \in dates : x <= d}})
           ELSE PledgedOn(dur, d)]

Price(a) == a[2].price
AverageOf(S, f(_)) == IF S = {} THEN <<0, 1>> ELSE <<Total(f, S), Cardinality(S)>>

HistoricalStoragePrice(dur) ==
  [d \in DurationSeries(dur) |->
     AverageOf({a \in Asks : Trunc(dur, SentAt(a)) = d}, Price)]

HistoricalCollateral(dur) ==
  LET dates == DurationSeries(dur)
      amount == [e \in dates |-> Total(Value, PledgesOn(dur, e, UniqueMessages))]
  IN  [d \in dates |-> Total(LAMBDA e : amount[e], {e \in dates : e <= d})]

HistoricalCollateralPerGB(dur) ==
  [d \in DurationSeries(dur) |->
     LET collateral == Total(Value, PledgesOn(dur, d, UniqueMessages))
     IN  IF Gigabytes(collateral) > 0 THEN <<collateral, Gigabytes(collateral)>> ELSE <<0, 1>>]

(* Of each day, not only those of the series; here the gigabytes are those *)
(* that the messages' parameters name.                                     *)
CollateralPerGBOfDays ==
  LET rows(d) == PledgesOn("MONTH", d, UniqueMessages)
      gb(d) == Gigabytes(Total(LAMBDA r : r[2].sectors, rows(d)))
  IN  [d \in {Trunc("MONTH", SentAt(r)) : r \in Pledges(UniqueMessages)} |->
         IF gb(d) > 0 THEN <<Total(Value, rows(d)), gb(d)>> ELSE <<0, 1>>]

HistoricalMinerCounts(dur) ==
  [d \in DurationSeries(dur) |->
     Max({0} \cup {c.count : c \in {x \in minerCounts : Trunc(dur, x.at) = d}})]

(* Only the dates that have a row with pledges. *)
AnyUtilization(dur) ==     \* a mutant: no WHERE
  [d \in {x \in DurationSeries(dur) : \E u \in usage : Trunc(dur, u.at) = x} |->
     LET of == {u \in usage : Trunc(dur, u.at) = d}
     IN  <<Max({u.committed : u \in of}), Max({u.pledged : u \in of})>>]

HistoricalUtilization(dur) ==
  LET of(d) == {u \in usage : Trunc(dur, u.at) = d /\ u.pledged > 0}
  IN  [d \in {x \in DurationSeries(dur) : of(x) # {}} |->
         <<Max({u.committed : u \in of(d)}), Max({u.pledged : u \in of(d)})>>]

--------------------------------------------------------------------------------
(* The headline numbers *)

LastAmount(points) == points[Max(DOMAIN points)]
Before(points) == DOMAIN points \ {Max(DOMAIN points)}

Greater(p, q) == p[1] * q[2] > q[1] * p[2]
Trend(points) ==      \* of a series of ratios
  IF DOMAIN points = {} THEN <<0, 1>>
  ELSE LET ultimate == LastAmount(points)
           previous == IF Before(points) = {} THEN <<0, 1>> ELSE points[Max(Before(points))]
       IN  IF Greater(previous, <<0, 1>>)
             THEN <<ultimate[1] * previous[2] - previous[1] * ultimate[2],
                    previous[1] * ultimate[2]>>
             ELSE <<IF Greater(ultimate, <<0, 1>>) THEN 1 ELSE 0, 1>>

AmountStats ==
  LET data == HistoricalStorageAmount("MONTH")
  IN  [total |-> IF DOMAIN data = {} THEN 0 ELSE LastAmount(data),
       trend |-> Trend([d \in DOMAIN data |-> <<data[d], 1>>]),
       data |-> data]

CostStats ==
  LET data == HistoricalStoragePrice("MONTH")
      month == Reach["MONTH"] * Granule["MONTH"]
  IN  [average |-> AverageOf({a \in Asks : SentAt(a) > Trunc("MONTH", now) - month}, Price),
       trend |-> Trend(data),
       data |-> data]

--------------------------------------------------------------------------------
(* Pledges by size *)

(* getCapacityHistogram reads messages, getCostCapacityBySize reads        *)
(* unique_messages.                                                        *)
Capacities(rows) ==
  [p \in PledgersOf(rows) |->
     Gigabytes(Total(Value, {r \in Pledges(rows) : r[2].from = p}))]

CapacityHistogram ==
  LET amount == Capacities(Messages)
  IN  [rows |-> Counts(amount, Fine, CapacityIncrement, CapacityBuckets),
       beyond |-> Overflow(amount, Fine, CapacityIncrement, CapacityBuckets)]

InClass(gb, op) == IF op = "lt" THEN gb < SizeClass * Fine ELSE gb >= SizeClass * Fine

CostCapacityBySize(op) ==
  LET amount == Capacities(UniqueMessages)
      class == {p \in DOMAIN amount : InClass(amount[p], op)}
      committed(p) ==
        Gigabytes(Cardinality({r \in UniqueMessages :
                                 r[2].method = "commitSector" /\ r[2].from = p}))
      busy == {p \in class : committed(p) > 0 /\ committed(p) < amount[p]}
  IN  [count |-> Cardinality(class),
       averageCapacityGB |-> AverageOf(class, LAMBDA p : amount[p]),
       averageStoragePrice |-> AverageOf({a \in Asks : a[2].from \in class}, Price),
       utilization |-> [p \in busy |-> <<committed(p), amount[p]>>]]

--------------------------------------------------------------------------------
(* Miners *)

MinedBy(m, S) == {b \in S : MinerOf(b) = m}

(* getMinerByAddress finds one node at most; it has the label of its nick. *)
LabelOf(m) == IF ByAddress(m) = {} THEN m ELSE (CHOOSE n \in ByAddress(m) : TRUE).nick

(* One row per miner whose block, the top one if it claims more, is there. *)
Miners ==
  LET top == Script[Tip].height
      at(n) == Min({n.beats[LastSeen(n)], top})
      listed == {n \in ListMiners : \E b \in Blocks : HeightOf(b) = at(n)}
  IN  {[address |-> n.address, blockHeight |-> at(n),
        blockPercentage |-> <<Cardinality(MinedBy(n.address, Blocks)), Cardinality(Blocks)>>,
        isInConsensus |-> n.beats[LastSeen(n)] >= top] : n \in listed}

(* Of the blocks of the last ticks, as a share of all blocks; T are the    *)
(* four first. data has one entry per label.                               *)
Recent(ticks) == {b \in Blocks : MinerOf(b) # "" /\ TimeOf(b) > now - ticks}
TopFour(ticks) ==
  Tops({MinerOf(b) : b \in Recent(ticks)},
       LAMBDA m : Cardinality(MinedBy(m, Recent(ticks))), 4)
Distribution(ticks, T) ==
  LET share(m) == Cardinality(MinedBy(m, Recent(ticks)))
  IN  [data |-> [l \in {LabelOf(m) : m \in T} |->
                   share(CHOOSE m \in T : LabelOf(m) = l)],
       other |-> Cardinality(Blocks) - Total(share, T),
       whole |-> Cardinality(Blocks)]

(* Two miners of each day and "Other". percentageSum goes back to 0 when   *)
(* "Other" is pushed, which a day with one miner does not do. labels are   *)
(* left out: a nick that was seen gets the end of its address.             *)
Whole == 60       \* a share is a whole number of sixtieths: up to six blocks a day
MinedOn(d) == {b \in Blocks : Trunc("MONTH", TimeOf(b)) = d}
ShareOn(d, m) == (Whole * Cardinality(MinedBy(m, MinedOn(d)))) \div Cardinality(MinedOn(d))
TopTwo(d) == Tops({MinerOf(b) : b \in MinedOn(d)}, LAMBDA m : ShareOn(d, m), 2)

NeverReset(full, sum) == sum      \* a mutant: percentageSum only grows
PercentageSum(full, sum) == IF full THEN 0 ELSE sum

Evolve(acc, d) ==
  LET list == CHOOSE T \in TopTwo(d) : TRUE
      sum == acc.percentageSum + Total(LAMBDA m : ShareOn(d, m), list)
      full == Cardinality(list) = 2
  IN  [percentageSum |-> PercentageSum(full, sum),
       points |-> Append(acc.points, [category |-> d,
                                      data |-> [m \in list |-> ShareOn(d, m)],
                                      other |-> IF full THEN Whole - sum ELSE 0])]

Ticks == [t \in 1..now + 1 |-> t - 1]
DaysMined == Filter(Ticks, {d \in DurationSeries("MONTH") : MinedOn(d) # {}})

Evolution == FoldLeft(Evolve, [percentageSum |-> 0, points |-> <<>>], DaysMined).points
================================================================================
