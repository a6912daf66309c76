-------------------------- MODULE IndicatorReadings --------------------------
(***************************************************************************)
(* The arithmetic of the four indicators (indicators/rsi.py, mapos.py,     *)
(* relrange.py, logvolratio.py), on lists newest first.  It is exact: a    *)
(* reading is a fraction <<numerator, denominator>>; rounding, overflow    *)
(* and the refusal of what is not finite are left out.  Two of the         *)
(* indicators take the logarithm of theirs.  As in polars an aggregate     *)
(* passes over a null, and an operation on one is null.                    *)
(***************************************************************************)
EXTENDS Integers, Sequences, FiniteSets

CONSTANT Null  \* an absent cell

(* drop_nulls                                                              *)
Stated(numbers) ==
  LET stated == {k \in DOMAIN numbers : numbers[k] # Null}
      place(n) == CHOOSE k \in stated : Cardinality({j \in stated : j < k}) = n - 1 IN
  [n \in 1 .. Cardinality(stated) |-> numbers[place(n)]]

(* list.sum                                                                *)
Total(numbers) ==
  LET stated == Stated(numbers)
      total[k \in 0 .. Len(stated)] == IF k = 0 THEN 0 ELSE total[k - 1] + stated[k]
  IN  total[Len(stated)]

Higher(a, b) ==
  CASE a = Null -> b [] b = Null -> a [] Null \notin {a, b} -> IF a > b THEN a ELSE b

Lower(a, b) ==
  CASE a = Null -> b [] b = Null -> a [] Null \notin {a, b} -> IF a < b THEN a ELSE b

Minus(a, b) == IF Null \in {a, b} THEN Null ELSE a - b

(* dividend over total / count, their mean.                                *)
OverMean(dividend, total, count) ==
  IF dividend = Null \/ count = 0 THEN Null ELSE <<dividend * count, total>>

Differences(numbers) ==
  Stated([k \in 1 .. Len(numbers) - 1 |-> Minus(numbers[k + 1], numbers[k])])

(* Faulty variant: newest first, a difference is the change negated.       *)
ChangesNewestFirst(closes) == Differences(closes)

(* list.reverse, diff, drop_nulls                                          *)
Changes(closes) == Differences([k \in DOMAIN closes |-> closes[Len(closes) + 1 - k]])

(* Nothing moved reads as the middle of the scale.                         *)
CutlersRSI(closes) ==
  LET changes  == Changes(closes)
      up       == Total([k \in DOMAIN changes |-> Higher(changes[k], 0)])
      down     == Total([k \in DOMAIN changes |-> Higher(-changes[k], 0)])
      movement == up + down IN
  IF movement = 0 THEN <<50, 1>> ELSE <<100 * up, movement>>

(* The current window is in its own mean.                                  *)
PriceToMovingAverage(closes) == OverMean(closes[1], Total(closes), Len(Stated(closes)))

(* Highs, lows and the closes one window earlier in one list, cut again    *)
(* into three that are aligned.                                            *)
TrueRanges(highs, lows, closes, period) ==
  LET packed == SubSeq(highs, 1, period) \o SubSeq(lows, 1, period)
                  \o SubSeq(Tail(closes), 1, period)
      slice(offset) == SubSeq(packed, offset + 1, offset + period)
      high == slice(0)
      low == slice(period)
      previous == slice(2 * period) IN
  [k \in 1 .. period |-> Minus(Higher(high[k], previous[k]), Lower(low[k], previous[k]))]

RelativeRange(highs, lows, closes, period) ==
  LET ranges == TrueRanges(highs, lows, closes, period) IN
  IF closes[1] = Null \/ Stated(ranges) = <<>> THEN Null
  ELSE <<Total(ranges), Len(Stated(ranges)) * closes[1]>>

(* The n-th of numbers in ascending order; of equals, the first is first.  *)
Ranked(numbers, n) ==
  LET ahead(k) == {j \in DOMAIN numbers : numbers[j] < numbers[k] \/ (numbers[j] = numbers[k] /\ j < k)} IN
  numbers[CHOOSE k \in DOMAIN numbers : Cardinality(ahead(k)) = n - 1]

(* list.median: twice the mean of the two in the middle.                   *)
TwiceMedian(numbers) ==
  LET stated == Stated(numbers)
      n == Len(stated) IN
  IF n = 0 THEN Null ELSE Ranked(stated, (n + 1) \div 2) + Ranked(stated, n \div 2 + 1)

(* The current window is not in its own baseline.                          *)
LogVolumeRatio(volumes) ==
  LET baseline == TwiceMedian(Tail(volumes)) IN
  IF Null \in {volumes[1], baseline} THEN Null ELSE <<2 * volumes[1], baseline>>

(* values, of the lists an indicator reads.                                *)
ReadingOf(indicator, lists, period) ==
  CASE indicator = "rsi"         -> CutlersRSI(lists.close)
    [] indicator = "mapos"       -> PriceToMovingAverage(lists.close)
    [] indicator = "relrange"    -> RelativeRange(lists.high, lists.low, lists.close, period)
    [] indicator = "logvolratio" -> LogVolumeRatio(lists.volume)

=============================================================================
