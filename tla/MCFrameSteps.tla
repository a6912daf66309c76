---------------------------- MODULE MCFrameSteps ----------------------------
(***************************************************************************)
(* Small instances of FrameSteps: windows of four seconds emitted every    *)
(* two, five of them, so that a horizon of two steps has an interior.      *)
(* Close times are numbers of five bits, and the last of them cannot be    *)
(* moved on by a horizon of four.                                          *)
(***************************************************************************)
EXTENDS FrameSteps

Row(close_time, close, high, low, coverage, traded) ==
  [open_time |-> close_time - 4, close_time |-> close_time, close |-> close,
   high |-> high, low |-> low, coverage_seconds |-> coverage, traded_seconds |-> traded,
   added |-> <<>>]

AllColumns ==
  {"open_time", "close_time", "close", "high", "low", "coverage_seconds", "traded_seconds"}

FrameOf(rows) == [have |-> AllColumns, added |-> {}, rows |-> rows]

(* Prices that tell the bars apart, and rise and fall.                     *)
Closes == <<10, 12, 11, 13, 9>>

Bar(i, coverage, traded) ==
  Row(2 * i + 2, Closes[i], 20 + ((3 * i) % 5), 5 - ((2 * i) % 5), coverage, traded)

(* Every pattern of windows that meet the bars, miss one, or state none.   *)
Patterns ==
  {FrameOf([i \in 1 .. 5 |-> Bar(i, c[i], 2)]) : c \in [1 .. 5 -> {4, 2}]}
    \cup {FrameOf([i \in 1 .. 3 |-> Bar(i, c[i], 1)]) : c \in [1 .. 3 -> {4, 3, Null}]}
    \cup {FrameOf([i \in 1 .. 3 |-> Bar(i, 4, t[i])]) : t \in [1 .. 3 -> {Null, 0, 1}]}

Whole == FrameOf([i \in 1 .. 5 |-> Bar(i, 4, 2)])

(* A bar without a price, an unusual close, rows out of order or twice, no *)
(* close time, a window that ends before it begins, a worthless low,       *)
(* columns left out.                                                       *)
Oddities ==
  {[Whole EXCEPT !.rows[i][p] = x] : i \in {2, 4}, p \in {"close", "high", "low"}, x \in {Null, NaN}}
    \cup {[Whole EXCEPT !.rows[3][p] = x] : p \in {"close", "low"}, x \in {0, -1}}
    \cup {[Whole EXCEPT !.rows[2].close_time = x] : x \in {Null, 4, 9, 14}}
    \cup {[Whole EXCEPT !.rows[2] = [@ EXCEPT !.close_time = Null, !.coverage_seconds = 2]]}
    \cup {[Whole EXCEPT !.rows[2].open_time = 9], [Whole EXCEPT !.rows[5].close_time = 14]}
    \cup {[Whole EXCEPT !.rows = [i \in 1 .. 5 |-> @[6 - i]]],
          [Whole EXCEPT !.rows = <<@[2], @[1], @[3], @[5], @[4]>>],
          [Whole EXCEPT !.rows = <<@[1], @[2], @[4], @[5]>>],
          [Whole EXCEPT !.rows = <<>>]}
    \cup {[Whole EXCEPT !.have = @ \ missing] :
            missing \in {{"high"}, {"close", "open_time"}, {"traded_seconds"}}}

MCHistory == Patterns \cup Oddities

MCPolicy ==
  {[mode |-> m, part |-> 2, whole |-> 3, min_traded_seconds |-> 1] :
     m \in {"pass_through", "filter", "gate_strict", "gate_report"}}
    \cup {[mode |-> "filter", part |-> 1, whole |-> 1],
          [mode |-> "none", part |-> 1, whole |-> 1],
          [mode |-> "filter", part |-> 2, whole |-> 1, min_traded_seconds |-> 0],
          [mode |-> "filter", part |-> 1, whole |-> 1, min_traded_seconds |-> -1]}

Interval(start, end, flag) == [start |-> start, end |-> end, flag |-> flag]

Intervals ==
  <<Interval(5, 7, "halt"), Interval(2, 6, "outage"), Interval(3, 4, "halt"), Interval(8, 9, "halt")>>

MCSidecar ==
  {[usable |-> TRUE, rows |-> Intervals],
   [usable |-> TRUE, rows |-> <<>>],
   [usable |-> TRUE, rows |-> <<Interval(5, 5, "halt")>>],
   [usable |-> TRUE, rows |-> <<Interval(5, Null, "halt")>>],
   [usable |-> FALSE, rows |-> <<>>]}

File(rows) == [there |-> TRUE, typed |-> TRUE, named |-> TRUE, rows |-> rows]

MCSidecarFile ==
  {File(Tail(Intervals)), File(<<Interval(2, 6, "outage"), Interval(6, 6, "halt")>>)}
    \cup {[File(<<>>) EXCEPT ![x] = FALSE] : x \in {"there", "typed", "named"}}

MCRowCap == {Null, 0, 1, 2, 3}

MCReturnCall ==
  {[horizon |-> h, cadence |-> 2, method |-> "simple"] : h \in {0, 2, 3, 4}}
    \cup {[horizon |-> 2, cadence |-> 2, method |-> "log"]}

=============================================================================
