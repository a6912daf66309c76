----------------------------- MODULE PhasedGrid -----------------------------
(***************************************************************************)
(* indicators/frames.py as operators: what a phased lookback demands of    *)
(* its frame and its request, and the ticks it is emitted on.              *)
(*                                                                         *)
(* A frame is [complete, rows]: whether every required column is there,    *)
(* and its rows, each with its two times and its cells of the phased       *)
(* fields.  Times are less than 2^63 seconds apart, so differences are     *)
(* exact.                                                                  *)
(***************************************************************************)
EXTENDS Integers, Sequences, FiniteSets

CONSTANTS
  Null,          \* an absent cell
  Field,         \* the phased fields, traded_seconds among them
  MaxLookback    \* MAX_LOOKBACK

ASSUME GridAssumption == "traded_seconds" \in Field /\ MaxLookback \in Nat

(* _validated_lookback, _validated_threshold, _positive_seconds            *)
UsableRequest(c) ==
  /\ c.lookback \in 1 .. MaxLookback
  /\ c.min_traded_seconds >= 0
  /\ c.window > 0
  /\ c.emit_every > 0

Steps(f) == [i \in 1 .. Len(f.rows) - 1 |-> f.rows[i + 1].close_time - f.rows[i].close_time]

StepSizes(f) == {Steps(f)[i] : i \in DOMAIN Steps(f)}

Occurrences(f, step) == Cardinality({i \in DOMAIN Steps(f) : Steps(f)[i] = step})

LeastOf(S) == CHOOSE x \in S : \A y \in S : x <= y

(* steps.mode().min()                                                      *)
Cadence(f) ==
  LeastOf({s \in StepSizes(f) : \A u \in StepSizes(f) : Occurrences(f, u) <= Occurrences(f, s)})

(* _require_regular_grid: holes of whole steps are let through.            *)
RegularGrid(f) ==
  /\ \A i \in DOMAIN f.rows : f.rows[i].close_time # Null
  /\ Len(f.rows) >= 2
  /\ \A s \in StepSizes(f) : s > 0
  /\ \A s \in StepSizes(f) : s % Cadence(f) = 0

Spans(f) ==
  {IF f.rows[i].open_time = Null THEN Null ELSE f.rows[i].close_time - f.rows[i].open_time :
     i \in DOMAIN f.rows}

(* Sorting the spans for the message compares a null with a number.        *)
UnsortableSpans(f, c) ==
  /\ UsableRequest(c)
  /\ f.complete
  /\ RegularGrid(f)
  /\ Null \in Spans(f)
  /\ Spans(f) # {Null}

(* Faulty variant: nothing is asked of the window.                         *)
AnyCadence(f, c) == TRUE

(* _require_cadence_divides_window                                         *)
CadenceDividesWindow(f, c) == c.window % Cadence(f) = 0

(* _require_anchor_on_the_grid                                             *)
AnchorOnTheGrid(f, c) == f.rows[1].close_time % Cadence(f) = c.anchor % Cadence(f)

(* resolve_phased_grid                                                     *)
ResolvableGrid(f, c) ==
  /\ UsableRequest(c)
  /\ f.complete
  /\ RegularGrid(f)
  /\ Spans(f) = {c.window}
  /\ CadenceDividesWindow(f, c)
  /\ c.emit_every % Cadence(f) = 0
  /\ AnchorOnTheGrid(f, c)

(* _emit_ticks                                                             *)
EmitTicks(f, c) ==
  LET closes == {f.rows[i].close_time : i \in DOMAIN f.rows}
      lowest == LeastOf(closes)
      highest == CHOOSE x \in closes : \A y \in closes : x >= y
      offset == (lowest - c.anchor) % c.emit_every
      first == IF offset = 0 THEN lowest ELSE lowest + c.emit_every - offset
      count == IF first > highest THEN 0 ELSE (highest - first) \div c.emit_every + 1 IN
  [n \in 1 .. count |-> first + (n - 1) * c.emit_every]

=============================================================================
