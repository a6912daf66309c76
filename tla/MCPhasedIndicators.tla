------------------------- MODULE MCPhasedIndicators -------------------------
(***************************************************************************)
(* Small instances of PhasedIndicators: frames of windows of two and of    *)
(* three seconds that close at any of the instants 1 to 6.                 *)
(***************************************************************************)
EXTENDS PhasedIndicators, SequencesExt

MCField == {"close", "high", "low", "volume", "traded_seconds"}

(* Cells tell the rows apart, and neither rise nor fall all along.         *)
Cells(i) ==
  LET level == (3 * i) % 7 IN
  [x \in MCField |->
     CASE x = "close" -> 10 + level [] x = "high" -> 11 + level [] x = "low" -> 9 + level
       [] x = "volume" -> 40 + ((5 * i) % 7) [] x = "traded_seconds" -> 2]

Row(close_time, window) ==
  [open_time |-> close_time - window, close_time |-> close_time, cells |-> Cells(close_time)]

FrameOf(closes, window) ==
  [complete |-> TRUE, rows |-> [k \in DOMAIN closes |-> Row(closes[k], window)]]

(* Every set of closes, ascending; and of four of them, what one window    *)
(* may lack.                                                               *)
Grids == {FrameOf(SetToSortSeq(S, <), 2) : S \in SUBSET (1 .. 6)}
           \cup {FrameOf(SetToSortSeq(S, <), 3) : S \in {{1, 3, 5}, {1, 2, 3, 4, 5}, {1, 4}, {1, 2, 4, 6}}}

Lacking ==
  {[FrameOf(closes, 2) EXCEPT !.rows[i].cells[x] = value] :
     closes \in {<<1, 2, 3, 4, 5>>, <<2, 4, 6>>}, i \in {2, 3},
     <<x, value>> \in {<<"traded_seconds", Null>>, <<"traded_seconds", 0>>,
                       <<"volume", Null>>, <<"close", 0>>, <<"volume", -1>>}}

Whole == FrameOf(<<1, 2, 3, 4, 5>>, 2)

Oddities ==
  {[Whole EXCEPT !.complete = FALSE],
   FrameOf(<<5, 4, 3, 2, 1>>, 2),
   FrameOf(<<1, 2, 2, 3>>, 2),
   FrameOf(<<1, 2, 4, 3, 5>>, 2),
   [Whole EXCEPT !.rows[2].close_time = Null],
   [Whole EXCEPT !.rows[2].open_time = Null],
   [Whole EXCEPT !.rows = [k \in DOMAIN @ |-> [@[k] EXCEPT !.open_time = Null]]],
   [Whole EXCEPT !.rows[3].open_time = 0]}

MCSource == Grids \cup Lacking \cup Oddities

MCRequest ==
  [window : {2, 3}, emit_every : {1, 2}, anchor : {0, 1}, lookback : 1 .. 3,
   min_traded_seconds : {1}]
    \cup {[window |-> 2, emit_every |-> e, anchor |-> 3, lookback |-> l, min_traded_seconds |-> m] :
            e \in {0, 4}, l \in {0, 2, 4}, m \in {-1, 0}}

(* A null inside a list, a list of another length, a column that is not    *)
(* there; and prices that rise, fall, stay and gap, over a longer lookback.*)
HandRow(lists) == [tick |-> 4, lists |-> [x \in MCField |-> lists]]

Bars(closes, reach) ==
  [tick |-> 4,
   lists |-> [x \in MCField |->
                [k \in DOMAIN closes |->
                   CASE x = "high" -> closes[k] + reach
                     [] x = "low"  -> closes[k] - reach
                     [] x \notin {"high", "low"} -> closes[k]]]]

MCHandBuilt ==
  {[lookback |-> 2, fields |-> MCField, rows |-> <<HandRow(<<5, 6>>), HandRow(list)>>] :
     list \in {<<5, Null>>, <<Null, 5>>, <<5>>, Null, <<5, 0>>}}
    \cup {[lookback |-> 2, fields |-> {"close"}, rows |-> <<HandRow(<<5, 6>>)>>],
          [lookback |-> 2, fields |-> MCField, rows |-> <<>>]}
    \cup {[lookback |-> 4, fields |-> MCField,
           rows |-> <<Bars(closes, 0), Bars(closes, 2), Bars(closes, -1)>>] :
            closes \in [1 .. 4 -> {1, 2, 5}]}

=============================================================================
