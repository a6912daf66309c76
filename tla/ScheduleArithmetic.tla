------------------------- MODULE ScheduleArithmetic -------------------------
(***************************************************************************)
(* The arithmetic of schedules/generators.py that window, horizon and      *)
(* lookback schedules share, in whole units (seconds or periods).  An      *)
(* exact rational is a record of a numerator and a positive denominator.   *)
(* NoMinimum stands for a minimum of None; MaxTerms for                    *)
(* MAX_RESOLVED_WINDOWS.                                                   *)
(***************************************************************************)
EXTENDS Integers, Sequences, FiniteSetsExt

CONSTANT MaxTerms

ASSUME MaxTermsAssumption == MaxTerms \in Nat /\ MaxTerms >= 2

NoMinimum == -1

Roundings == {"nearest_ties_away", "nearest_ties_even"}

Rational == [num : Nat, den : Nat \ {0}]

Whole(n) == [num |-> n, den |-> 1]

Exceeds(value, n) == value.num > n * value.den

(* _quantize: to the nearest multiple of the grain, a tie by the rule.     *)
RoundsUp(value, grain, rounding) ==
  LET unit  == value.den * grain
      twice == 2 * (value.num % unit)
  IN  \/ twice > unit
      \/ /\ twice = unit
         /\ rounding = "nearest_ties_away" \/ (value.num \div unit) % 2 = 1

Quantize(value, grain, rounding) ==
  LET whole == value.num \div (value.den * grain)
  IN  grain * (IF RoundsUp(value, grain, rounding) THEN whole + 1 ELSE whole)

(* The recurrence x[n+1] = c * x[n] + x[n-1].  The denominators of the     *)
(* terms are 1, 1 and then a power of the coefficient's, each dividing the *)
(* next.                                                                   *)
Following(coefficient, last, before) ==
  [num |-> coefficient.num * last.num
           + coefficient.den * (last.den \div before.den) * before.num,
   den |-> coefficient.den * last.den]

(* A minimum of None leaves zero as the bound.                             *)
Floor(minimum) == IF minimum = NoMinimum THEN 0 ELSE minimum

InBounds(spec, n) == Floor(spec.minimum) <= n /\ n <= spec.maximum

(* require_endpoints_on_the_grain.                                         *)
EndpointsOnTheGrain(spec) ==
  /\ Quantize(Whole(spec.minimum), spec.grain, spec.rounding) >= spec.minimum
  /\ Quantize(Whole(spec.maximum), spec.grain, spec.rounding) <= spec.maximum

(* Faulty variant: a seed that is its own minimum is not looked at.        *)
SeedAboveItsFloorUnequal(spec) ==
  \/ spec.minimum = NoMinimum
  \/ spec.seed <= spec.minimum
  \/ Quantize(Whole(spec.seed), spec.grain, spec.rounding) >= spec.minimum

(* require_seed_above_its_own_floor.                                       *)
SeedAboveItsFloor(spec) ==
  \/ spec.minimum = NoMinimum
  \/ spec.seed < spec.minimum
  \/ Quantize(Whole(spec.seed), spec.grain, spec.rounding) >= spec.minimum

(* Faulty variant: only the bounds are asked of members stated by hand.    *)
MembersInBounds(spec, members) == \A i \in DOMAIN members : InBounds(spec, members[i])

(* require_members_within_spec.                                            *)
MembersWithinSpec(spec, members) ==
  \A i \in DOMAIN members : InBounds(spec, members[i]) /\ members[i] % spec.grain = 0

(* require_resolved_windows and require_resolved_periods.                  *)
ResolvedList(members) ==
  /\ members # <<>>
  /\ Len(members) <= MaxTerms
  /\ \A i \in DOMAIN members : members[i] > 0
  /\ \A i, j \in DOMAIN members : i # j => members[i] # members[j]

(* require_metallic_schedule, require_log_spaced_schedule and              *)
(* require_explicit_schedule.                                              *)
KeepsItsSpec(spec, members) ==
  /\ spec.kind = "metallic_recurrence" =>
       SeedAboveItsFloor(spec) /\ MembersWithinSpec(spec, members)
  /\ spec.kind = "log_spaced" =>
       EndpointsOnTheGrain(spec) /\ MembersWithinSpec(spec, members)

(* _resolve_emit: the largest cadence at or below W / K if the source can  *)
(* keep up with it, else the smallest that it can; nothing is refused      *)
(* (NoCadence).  allowed is a set: ascending order is how the code has the *)
(* last and the first of it.                                               *)
NoCadence == -1

AtOrBelowRatio(window, spec) == {a \in spec.allowed : a * spec.divisor <= window}

KeptUpWith(spec) == {a \in spec.allowed : a >= spec.source}

(* Faulty variant: what the source keeps up with is not asked of the ratio.*)
ResolveEmitUnchecked(window, spec) ==
  LET ratio == AtOrBelowRatio(window, spec) IN
  CASE ratio # {} -> Max(ratio)
    [] ratio = {} /\ KeptUpWith(spec) # {} -> Min(KeptUpWith(spec))
    [] OTHER -> NoCadence

(* Faulty variant: up to the largest that the source can keep up with.     *)
ResolveEmitCoarse(window, spec) ==
  LET ratio == AtOrBelowRatio(window, spec)
      usable == ratio # {} /\ Max(ratio) >= spec.source
  IN  CASE usable -> Max(ratio)
        [] ~usable /\ KeptUpWith(spec) # {} -> Max(KeptUpWith(spec))
        [] OTHER -> NoCadence

ResolveEmit(window, spec) ==
  LET ratio == AtOrBelowRatio(window, spec)
      usable == ratio # {} /\ Max(ratio) >= spec.source
  IN  CASE usable -> Max(ratio)
        [] ~usable /\ KeptUpWith(spec) # {} -> Min(KeptUpWith(spec))
        [] OTHER -> NoCadence

=============================================================================
