-------------------------- MODULE WindowResolution --------------------------
(***************************************************************************)
(* windows/resolution.py: which schedules are legal and which instants the *)
(* emit grid holds.  The oracle and the engine share it.                   *)
(*                                                                         *)
(* A request r is one call of either: the profile's cadence and phase, the *)
(* window, emit cadence and anchor (durations in seconds, so naturals),    *)
(* the materialization and the source frame.  A schedule is what           *)
(* resolve_schedule returns for it.                                        *)
(***************************************************************************)
EXTENDS Integers, Sequences, FiniteSets

(* Faulty variant: the rules without the one on the anchor.                *)
ResolvableAnywhere(r) ==
  /\ r.window > 0 /\ r.emit > 0
  /\ r.window % r.cadence = 0 /\ r.emit % r.cadence = 0

(* validate_window_duration and validate_cadence, then each rule of        *)
(* resolve_schedule.                                                       *)
Resolvable(r) ==
  /\ r.window > 0
  /\ r.emit > 0
  /\ r.window >= r.cadence
  /\ r.emit >= r.cadence
  /\ r.window % r.cadence = 0
  /\ r.emit % r.cadence = 0
  /\ ((r.anchor % r.emit) - r.phase) % r.cadence = 0

ResolvedSchedule(r) ==
  [window |-> r.window, emit |-> r.emit, anchor |-> r.anchor % r.emit]

(* The least tick that is not before bound.                                *)
FirstTickAtOrAfter(bound, s) == bound + ((s.anchor - bound) % s.emit)

(* The greatest tick that is not after bound.                              *)
LastTickAtOrBefore(bound, s) == bound - ((bound - s.anchor) % s.emit)

(* _grid_ticks, the same in both: every emit seconds from the first tick,  *)
(* below end.                                                              *)
GridTicks(start, end, s) ==
  IF end <= start THEN {}
  ELSE LET first == FirstTickAtOrAfter(start, s) IN
       {t \in first .. end - 1 : (t - first) % s.emit = 0}

(* SourceProfile.derive_interval_bounds, and the columns read.             *)
Candle(r, i) ==
  LET row == r.frame.rows[i] IN
  [open_time  |-> row.time,
   close_time |-> row.time + r.cadence,
   open |-> row.open, high |-> row.high, low |-> row.low, close |-> row.close,
   volume |-> row.volume]

Candles(r) == [i \in DOMAIN r.frame.rows |-> Candle(r, i)]

=============================================================================
