--------------------------------- MODULE Units ---------------------------------
(***************************************************************************)
(* The numbers of charts and tables: utils/Filesize.ts and                 *)
(* OrderMagnitudeNumber.ts, which cut a size to the unit it fills and to   *)
(* one digit behind the point, or none.  A thousand is a parameter: TLC's  *)
(* integers do not reach a petabyte.                                       *)
(***************************************************************************)
EXTENDS Integers

CONSTANTS
  Thousand,   \* what one unit holds of the next smaller one
  Sizes       \* the sizes that the stats may have, in bytes

ASSUME UnitsAssumption == Thousand \in Nat /\ Thousand >= 10 /\ Sizes \subseteq Nat

VARIABLE size   \* one of the stats: the network's size, a miner's, or a bound of a bucket

(* SizeUnit, and Sizes of OrderMagnitudeNumber *)
Million == Thousand * Thousand
Billion == Thousand * Million
Trillion == Thousand * Billion
FileUnit == [KB |-> Thousand, MB |-> Million, GB |-> Billion, TB |-> Trillion,
             PB |-> Thousand * Trillion]
CountUnit == [K |-> Thousand, M |-> Million, B |-> Billion, T |-> Trillion, none |-> 1]

(* The first of UNITS_IN_ORDER that the size fills, or else a given one. *)
Largest(unit, n, smallest) ==
  LET filled == {u \in DOMAIN unit : n >= unit[u]}
  IN  IF filled = {} THEN smallest
      ELSE CHOOSE u \in filled : \A v \in filled : unit[v] <= unit[u]

(* BigNumber's toFixed: half goes up. *)
Tens(places) == IF places = 1 THEN 10 ELSE 1
ToFixed(n, unit, places) == (2 * (Tens(places) * n) + unit) \div (2 * unit)

(* smartUnitString: the whole part is subtracted as toFormat writes it,    *)
(* with a comma from a thousand up, which is no number then.               *)
NoPlaces(n, unit) == 0                  \* a mutant: toFixed(0), as on the home page
Places(n, unit) ==
  IF n < Thousand * unit /\ 10 * (n % unit) >= unit THEN 1 ELSE 0

Label(n, unit, u, places) ==
  [digits |-> ToFixed(n, unit[u], places), places |-> places, unit |-> unit[u]]

SmartUnit(n) == Largest(FileUnit, n, "MB")
HomeLabel(n) == Label(n, FileUnit, SmartUnit(n), 0)
SmartUnitString(n) ==
  Label(n, FileUnit, SmartUnit(n), Places(n, FileUnit[SmartUnit(n)]))
SmartSize(n) == Label(n, CountUnit, Largest(CountUnit, n, "none"), 1)

(* SET_STATS *)
SetSize(n) == size' = n

--------------------------------------------------------------------------------
(* Ten times the size that a reader takes from a label *)
Told(label) == label.digits * Tens(1 - label.places) * label.unit
OffBy(label, n) == IF Told(label) < 10 * n THEN 10 * n - Told(label) ELSE Told(label) - 10 * n

(* What labels tell of a size that has grown: the home page is off by half *)
(* the unit shown with it at most, a table by a tenth of it, up to a       *)
(* thousand of the largest unit, and an axis by half a tenth; and none of  *)
(* the three has fallen.                                                   *)
TellsSize ==
  size < size' =>
    LET home == HomeLabel(size') row == SmartUnitString(size') axis == SmartSize(size')
    IN  /\ OffBy(home, size') <= 5 * home.unit
        /\ OffBy(row, size') <= IF size' < Thousand * row.unit THEN row.unit ELSE 5 * row.unit
        /\ 2 * OffBy(axis, size') <= axis.unit
        /\ Told(HomeLabel(size)) <= Told(home)
        /\ Told(SmartUnitString(size)) <= Told(row)
        /\ Told(SmartSize(size)) <= Told(axis)

(* At whatever change of the unit, of the places or of the rounding, every *)
(* label tells its size to the digits that it has, and a greater size is   *)
(* never shown as less.                                                    *)
LabelsTellSizes == [][TellsSize]_size
================================================================================
