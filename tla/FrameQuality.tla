---------------------------- MODULE FrameQuality ----------------------------
(***************************************************************************)
(* apply_quality_policy (windows/quality.py) as operators: the exact       *)
(* threshold, the mask every mode decides from, and the report.            *)
(*                                                                         *)
(* A frame is [have, added, rows]: the columns it has in the kind the      *)
(* steps demand, the names of the columns steps have added to it, and its  *)
(* rows, each with its cells and the values added.                         *)
(***************************************************************************)
EXTENDS Integers, Sequences, FiniteSets

CONSTANT Null  \* an absent cell

(* WindowQualityPolicy.__post_init__; a gate's mode is in the policy's.    *)
LegalPolicy(policy) ==
  /\ policy.mode \in {"pass_through", "filter", "gate_strict", "gate_report"}
  /\ 0 <= policy.part /\ policy.part <= policy.whole
  /\ policy.min_traded_seconds >= 0

(* A policy written before there was this threshold demands nothing.       *)
TradedDemand(payload) ==
  IF "min_traded_seconds" \in DOMAIN payload THEN payload.min_traded_seconds ELSE 0

(* from_dict                                                               *)
PolicyFromDict(payload) ==
  [mode |-> payload.mode, part |-> payload.part, whole |-> payload.whole,
   min_traded_seconds |-> TradedDemand(payload)]

(* _require_quality_columns                                                *)
Measured(f) == {"close_time", "coverage_seconds", "traded_seconds"} \subseteq f.have

(* Faulty variant: the threshold is rounded down.                          *)
FloorPassing(policy, window) == (policy.part * window) \div policy.whole

(* min_coverage is the decimal part / whole, of which window is taken      *)
(* exactly; the least whole second at or above it.                         *)
LeastPassing(policy, window) == -((-(policy.part * window)) \div policy.whole)

(* Faulty variant: an unstated measure offends against nothing.            *)
BelowIfStated(value, minimum) == value # Null /\ value < minimum

(* _below_mask: what is not stated does not meet the bar.                  *)
Below(value, minimum) == value = Null \/ value < minimum

LowCoverage(f, policy, window) ==
  {i \in DOMAIN f.rows : Below(f.rows[i].coverage_seconds, LeastPassing(policy, window))}

LowTraded(f, policy) ==
  {i \in DOMAIN f.rows : Below(f.rows[i].traded_seconds, policy.min_traded_seconds)}

(* _offending_mask: either bar missed.                                     *)
Offending(f, policy, window) == LowCoverage(f, policy, window) \cup LowTraded(f, policy)

Nulls(f, column) == {i \in DOMAIN f.rows : f.rows[i][column] = Null}

(* The first of them in row order, whose close time names it.              *)
First(offending) == CHOOSE i \in offending : \A j \in offending : i <= j

(* int(None): the offender a report would name states no close time.       *)
Unnameable(f, policy, window) ==
  LET offending == Offending(f, policy, window) IN
  offending # {} /\ f.rows[First(offending)].close_time = Null

(* _build_report                                                           *)
QualityReport(f, policy, window) ==
  LET offending == Offending(f, policy, window) IN
  [rows_checked   |-> Len(f.rows),
   threshold_seconds |-> <<policy.part * window, policy.whole>>,
   traded_threshold_seconds |-> policy.min_traded_seconds,
   offending      |-> Cardinality(offending),
   low_coverage   |-> Cardinality(LowCoverage(f, policy, window)),
   low_traded     |-> Cardinality(LowTraded(f, policy)),
   null_coverage  |-> Cardinality(Nulls(f, "coverage_seconds")),
   null_traded    |-> Cardinality(Nulls(f, "traded_seconds")),
   first          |-> IF offending = {} THEN Null
                      ELSE f.rows[First(offending)].close_time]

(* frame.filter(~mask): the others, in their order.                        *)
Without(f, offending) ==
  LET kept == (DOMAIN f.rows) \ offending
      row(k) == CHOOSE i \in kept : Cardinality({j \in kept : j < i}) = k - 1 IN
  [f EXCEPT !.rows = [k \in 1 .. Cardinality(kept) |-> @[row(k)]]]

=============================================================================
