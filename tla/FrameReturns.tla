---------------------------- MODULE FrameReturns ----------------------------
(***************************************************************************)
(* returns/alignment.py and returns/primitives.py as operators: the row a  *)
(* horizon away, found by close time, and the extremes of the interval in  *)
(* between, found by position on a grid without holes.                     *)
(*                                                                         *)
(* A return is the pair of prices it is taken of, later and earlier; of    *)
(* the two formulas it matters only on which pairs each has a finite       *)
(* value.  Rounding aside: a log return of a ratio below 2^-54 is null.    *)
(***************************************************************************)
EXTENDS FrameAnnotations

CONSTANTS
  NaN,   \* a floating cell that is no number
  Word   \* 2^64: close times are Int64

Int64 == -(Word \div 2) .. (Word \div 2) - 1

Wrapped(x) == ((x + Word \div 2) % Word) - Word \div 2

CloseTimes(f) == {f.rows[i].close_time : i \in DOMAIN f.rows}

(* resolve_horizon                                                         *)
ResolvableHorizon(horizon, cadence) ==
  /\ horizon > 0
  /\ cadence > 0
  /\ horizon % cadence = 0

(* _require_close_time_key                                                 *)
Keyed(f) ==
  /\ Null \notin CloseTimes(f)
  /\ \A i, j \in DOMAIN f.rows : f.rows[i].close_time = f.rows[j].close_time => i = j

Extremes(S) == {t \in S : (\A u \in S : t <= u) \/ (\A u \in S : t >= u)}

(* _require_representable_shift: the offset, and the extremes moved by it. *)
RepresentableShift(f, offset) ==
  /\ offset \in Int64
  /\ \A t \in Extremes(CloseTimes(f)) : t + offset \in Int64

(* require_alignable_frame                                                 *)
Alignable(f, offset) ==
  /\ {"close_time", "close"} \subseteq f.have
  /\ Keyed(f)
  /\ RepresentableShift(f, offset)

(* Faulty variant: holes of whole steps are let through, as for a lookup.  *)
GridWithHoles(f, cadence) ==
  \A i \in 2 .. Len(f.rows) :
    /\ f.rows[i].close_time > f.rows[i - 1].close_time
    /\ (f.rows[i].close_time - f.rows[i - 1].close_time) % cadence = 0

(* require_total_grid: a difference of two Int64 values is one too.        *)
TotalGrid(f, cadence) ==
  \A i \in 2 .. Len(f.rows) :
    Wrapped(f.rows[i].close_time - f.rows[i - 1].close_time) = cadence

(* shifted_close_times                                                     *)
Shifted(row, offset) == Wrapped(row.close_time + offset)

(* counterpart_closes: an equality join on close_time.                     *)
Counterpart(f, i, offset) ==
  LET matching == {j \in DOMAIN f.rows : f.rows[j].close_time = Shifted(f.rows[i], offset)} IN
  IF matching = {} THEN Null ELSE f.rows[CHOOSE j \in matching : TRUE].close

Unusable(price) == price = Null \/ price = NaN

(* _return_values: null where the formula has no finite value.             *)
ReturnOf(later, earlier, method) ==
  IF \/ Unusable(later) \/ Unusable(earlier) \/ earlier = 0
     \/ method = "log" /\ later * earlier <= 0
  THEN Null
  ELSE <<later, earlier>>

(* _masked_extremum_inputs: a bar without either price has neither.        *)
Masked(row) == Unusable(row.high) \/ Unusable(row.low)

(* Faulty variant: one row past the horizon competes.                      *)
FollowingAndOne(i, n) == i + 1 .. i + n + 1

(* The rows an extremum at row i is taken over: the n that follow.         *)
Following(i, n) == i + 1 .. i + n

(* _forward_extremum                                                       *)
ForwardExtremum(f, i, n, price, largest) ==
  LET interval == Following(i, n)
      prices == {f.rows[k][price] : k \in interval} IN
  IF ~(interval \subseteq DOMAIN f.rows) \/ (\E k \in interval : Masked(f.rows[k])) THEN Null
  ELSE CHOOSE x \in prices : \A y \in prices : IF largest THEN x >= y ELSE x <= y

=============================================================================
