--------------------------- MODULE WindowReference ---------------------------
(***************************************************************************)
(* windows/reference.py, the brute-force oracle: every candle against      *)
(* every tick, in the frame's own row order.                               *)
(***************************************************************************)
EXTENDS WindowResolution, SequencesExt

CONSTANTS Null, NaN  \* cells that are not numbers: validation refuses them

(* The row both implementations emit for a window with no candle in it.    *)
EmptyRow(tick, s) ==
  [open_time |-> tick - s.window, close_time |-> tick,
   open |-> Null, high |-> Null, low |-> Null, close |-> Null, volume |-> Null,
   src_count |-> 0, coverage |-> 0, traded |-> 0]

(* Of floats, which a NaN makes false; and their sum.                      *)
Exceeds(x, y) == NaN \notin {x, y} /\ x > y

Plus(x, y) == IF NaN \in {x, y} THEN NaN ELSE x + y

(* _included_candles, by their row numbers.                                *)
Included(candles, tick, window) ==
  {i \in DOMAIN candles : candles[i].open_time >= tick - window /\ candles[i].close_time <= tick}

CoverageSeconds(candles, included) ==
  LET sum[k \in 0 .. Len(candles)] ==
        IF k = 0 THEN 0
        ELSE sum[k - 1] + (IF k \in included THEN candles[k].close_time - candles[k].open_time ELSE 0)
  IN  sum[Len(candles)]

(* One turn of the loop in _compute_window_row.                            *)
Account(acc, c) ==
  [earliest |-> IF c.open_time < acc.earliest.open_time THEN c ELSE acc.earliest,
   latest   |-> IF c.open_time > acc.latest.open_time THEN c ELSE acc.latest,
   high     |-> IF Exceeds(c.high, acc.high) THEN c.high ELSE acc.high,
   low      |-> IF Exceeds(acc.low, c.low) THEN c.low ELSE acc.low,
   volume   |-> Plus(acc.volume, c.volume),
   coverage |-> acc.coverage + (c.close_time - c.open_time),
   traded   |-> IF Exceeds(c.volume, 0) THEN acc.traded + (c.close_time - c.open_time)
                ELSE acc.traded]

(* The loop, over what is included in row order.                           *)
Accounted(candles, included) ==
  LET first == candles[Min(included)]
      acc[k \in 0 .. Len(candles)] ==
        IF k = 0 THEN [earliest |-> first, latest |-> first, high |-> first.high, low |-> first.low,
                       volume |-> 0, coverage |-> 0, traded |-> 0]
        ELSE IF k \in included THEN Account(acc[k - 1], candles[k])
        ELSE acc[k - 1]
  IN  acc[Len(candles)]

(* The loop compares and adds these cells; None raises TypeError in both.  *)
StopsAt(candles, included) ==
  \E i \in included : Null \in {candles[i].high, candles[i].low, candles[i].volume}

(* _compute_window_row                                                     *)
ReferenceRow(candles, tick, s) ==
  LET included == Included(candles, tick, s.window)
      acc == Accounted(candles, included) IN
  IF included = {} THEN EmptyRow(tick, s)
  ELSE [open_time |-> tick - s.window, close_time |-> tick,
        open |-> acc.earliest.open, high |-> acc.high, low |-> acc.low,
        close |-> acc.latest.close, volume |-> acc.volume,
        src_count |-> Cardinality(included), coverage |-> acc.coverage, traded |-> acc.traded]

OpenTimes(candles) == {candles[i].open_time : i \in DOMAIN candles}

CloseTimes(candles) == {candles[i].close_time : i \in DOMAIN candles}

(* The ticks skip_warmup looks at, for a frame that is not empty.          *)
WarmupCandidates(candles, s) ==
  LET first == FirstTickAtOrAfter(Min(OpenTimes(candles)) + s.window, s)
      last  == LastTickAtOrBefore(Max(CloseTimes(candles)), s) IN
  {t \in first .. last : (t - first) % s.emit = 0}

(* _skip_warmup_ticks; no tick at all stands for its ConfigError.          *)
ReferenceWarmupTicks(candles, s) ==
  LET full == {t \in WarmupCandidates(candles, s) :
                 CoverageSeconds(candles, Included(candles, t, s.window)) = s.window} IN
  IF full = {} THEN {}
  ELSE GridTicks(Min(full), LastTickAtOrBefore(Max(CloseTimes(candles)), s) + 1, s)

=============================================================================
