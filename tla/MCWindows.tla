------------------------------ MODULE MCWindows ------------------------------
(***************************************************************************)
(* Small requests: every frame of up to three rows over seven instants, in *)
(* any order, with duplicates, overlaps, gaps and off-phase rows, and      *)
(* sorted ones of four; legal and illegal schedules; ranges that lie       *)
(* before, over and after the data, an empty one, skip_warmup, and a name  *)
(* of no rule; and a few frames with one cell that is no number.           *)
(***************************************************************************)
EXTENDS Windows

Times(n) == [1 .. n -> 0 .. 6]

Increasing(times) == \A i, j \in DOMAIN times : i < j => times[i] < times[j]

TimesOfFrames ==
  Times(0) \cup Times(1) \cup Times(2) \cup Times(3) \cup {s \in Times(4) : Increasing(s)}

(* Prices tell the rows apart; the extremes are at the row with the        *)
(* greatest number or with the least; every other row has no volume.       *)
RowOf(time, i, rising) ==
  [time |-> time, open |-> 10 + i, close |-> 20 + i,
   high |-> IF rising THEN 30 + i ELSE 30 - i,
   low  |-> IF rising THEN 5 - i ELSE 5 + i,
   volume |-> IF i % 2 = 1 THEN i ELSE 0]

FrameOf(times, rising) ==
  [complete |-> TRUE, rows |-> [i \in DOMAIN times |-> RowOf(times[i], i, rising)]]

TimeRange(start, end) == [kind |-> "range", start |-> start, end |-> end]

Warmup == [kind |-> "skip_warmup"]

Call(phase, window, emit, anchor, materialization, frame) ==
  [cadence |-> 2, phase |-> phase, window |-> window, emit |-> emit, anchor |-> anchor,
   materialization |-> materialization, frame |-> frame]

Blemished ==
  {[FrameOf(times, TRUE) EXCEPT !.rows[i][column] = cell] :
     times \in {<<0, 2, 4>>, <<4, 0, 2>>, <<0, 0, 4>>}, i \in 1 .. 3,
     column \in {"open", "high", "low", "close", "volume"}, cell \in {Null, NaN}}

Frames == {FrameOf(times, rising) : times \in TimesOfFrames, rising \in BOOLEAN} \cup Blemished

Aggregations ==
  {Call(s[1], s[2], s[3], s[4], m, frame) :
     s \in {<<0, 2, 2, 0>>, <<1, 4, 2, 3>>, <<0, 4, 4, 6>>, <<0, 6, 2, 0>>},
     m \in {TimeRange(-3, 9), Warmup},
     frame \in Frames}

SomeFrame == FrameOf(<<0, 2, 4>>, TRUE)

Refusals ==
  {Call(0, window, emit, anchor, m, SomeFrame) :
     window \in 0 .. 5, emit \in 0 .. 5, anchor \in 0 .. 5,
     m \in {TimeRange(2, 2), TimeRange(3, 4), TimeRange(20, 23), Warmup, [kind |-> "other"]}}
    \cup {Call(0, 2, 2, 0, m, [SomeFrame EXCEPT !.complete = FALSE]) : m \in {TimeRange(0, 4), Warmup}}

MCRequest == Aggregations \cup Refusals

MCNeutralHigh == -100

MCMaker == {"engine", "reference"}

=============================================================================
