---------------------------- MODULE WindowEngine ----------------------------
(***************************************************************************)
(* windows/engine.py: the candles sorted once, each window a slice of them *)
(* between two binary searches, the aggregates read off the slice.  Rows   *)
(* are numbered from 0, as polars numbers them; row k is candles[k + 1].   *)
(***************************************************************************)
EXTENDS WindowReference

CONSTANTS NeutralHigh, NeutralLow  \* -inf and inf: beyond every price

OpenTime(candles) == [k \in DOMAIN candles |-> candles[k].open_time]

CloseTime(candles) == [k \in DOMAIN candles |-> candles[k].close_time]

InOpenOrder(candles) == IsSorted(OpenTime(candles), <=)

(* How many rows a stable sort puts before row i.                          *)
StablePlace(candles, i) ==
  1 + Cardinality({j \in DOMAIN candles :
        \/ candles[j].open_time < candles[i].open_time
        \/ candles[j].open_time = candles[i].open_time /\ j < i})

(* sort("open_time", maintain_order=True)                                  *)
SortedCandles(candles) ==
  [k \in DOMAIN candles |->
     candles[CHOOSE i \in DOMAIN candles : StablePlace(candles, i) = k]]

(* Series.search_sorted on an ascending series.                            *)
SearchLeft(times, x) == Cardinality({k \in DOMAIN times : times[k] < x})

SearchRight(times, x) == Cardinality({k \in DOMAIN times : times[k] <= x})

(* _window_bounds: the slice of a window is rows lower .. upper - 1.       *)
Lower(candles, tick, s) == SearchLeft(OpenTime(candles), tick - s.window)

(* Faulty variant: the other side of the search.                           *)
UpperWithoutLast(candles, tick, s) == SearchLeft(CloseTime(candles), tick)

Upper(candles, tick, s) == SearchRight(CloseTime(candles), tick)

Clip(position, candles) ==
  Max({0, Min({position, Len(candles) - 1})})

(* Faulty variant: the last row of the slice, ties ignored.                *)
LastOfSlice(candles, upper) == Clip(upper - 1, candles)

(* _boundary_prices: the first row of the run that shares the greatest     *)
(* open time of the slice.                                                 *)
TieStart(candles, upper) ==
  SearchLeft(OpenTime(candles), OpenTime(candles)[Clip(upper - 1, candles) + 1])

(* _merge_candles_and_ticks                                                *)
MergedRows(candles, ticks) ==
  {[key |-> candles[k].close_time, high |-> candles[k].high, low |-> candles[k].low] :
     k \in DOMAIN candles}
    \cup {[key |-> t, high |-> NeutralHigh, low |-> NeutralLow] : t \in ticks}

(* The rolling window of a tick's row reaches back W - d + 1 and is closed *)
(* on the right.                                                           *)
Reached(candles, ticks, tick, s, cadence) ==
  {m \in MergedRows(candles, ticks) :
     m.key > tick - (s.window - cadence + 1) /\ m.key <= tick}

(* A rolling maximum or minimum carries a NaN and passes over a null.      *)
Carried(cells, extreme) == IF NaN \in cells THEN NaN ELSE extreme

(* _rolling_extremes                                                       *)
RollingHigh(candles, ticks, tick, s, cadence) ==
  LET highs == {m.high : m \in Reached(candles, ticks, tick, s, cadence)}
  IN  Carried(highs, Max(highs \ {Null}))

RollingLow(candles, ticks, tick, s, cadence) ==
  LET lows == {m.low : m \in Reached(candles, ticks, tick, s, cadence)}
  IN  Carried(lows, Min(lows \ {Null}))

(* _window_volumes: the sum of a Series passes over nulls.                 *)
SliceVolume(candles, lower, upper) ==
  LET sum[k \in lower .. upper] ==
        IF k = lower THEN 0
        ELSE IF candles[k].volume = Null THEN sum[k - 1]
        ELSE Plus(sum[k - 1], candles[k].volume)
  IN  sum[upper]

(* The prefix sums of _traded_counts: neither a null nor a NaN has traded. *)
TradedBefore(candles, k) ==
  Cardinality({i \in 1 .. k : candles[i].volume # Null /\ Exceeds(candles[i].volume, 0)})

HasData(lower, upper) == upper - lower > 0

(* _build_output_frame, the row of one tick.                               *)
EngineRow(candles, ticks, tick, s, cadence) ==
  LET lower == Lower(candles, tick, s)
      upper == Upper(candles, tick, s) IN
  IF candles = <<>> \/ ~HasData(lower, upper) THEN EmptyRow(tick, s)
  ELSE [open_time |-> tick - s.window, close_time |-> tick,
        open   |-> candles[Clip(lower, candles) + 1].open,
        high   |-> RollingHigh(candles, ticks, tick, s, cadence),
        low    |-> RollingLow(candles, ticks, tick, s, cadence),
        close  |-> candles[TieStart(candles, upper) + 1].close,
        volume |-> SliceVolume(candles, lower, upper),
        src_count |-> upper - lower,
        coverage  |-> (upper - lower) * cadence,
        traded    |-> (TradedBefore(candles, upper) - TradedBefore(candles, lower)) * cadence]

FullyCovered(candles, tick, s, cadence) ==
  Upper(candles, tick, s) - Lower(candles, tick, s) = s.window \div cadence

EngineFullTicks(candles, s, cadence) ==
  {t \in WarmupCandidates(candles, s) : FullyCovered(candles, t, s, cadence)}

(* _skip_warmup_ticks; no tick at all stands for its ConfigError.          *)
EngineWarmupTicks(candles, s, cadence) ==
  LET full == EngineFullTicks(candles, s, cadence) IN
  {t \in WarmupCandidates(candles, s) : full # {} /\ t >= Min(full)}

=============================================================================
