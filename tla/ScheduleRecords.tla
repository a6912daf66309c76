-------------------------- MODULE ScheduleRecords --------------------------
(***************************************************************************)
(* What a schedule or a cadence rule is, what its constructor demands, and *)
(* its written form: to_dict, schedule_id and from_dict of                 *)
(* schedules/generators.py, horizon.py, lookback.py and cadence.py, over   *)
(* the readers of schedules/identity.py.                                   *)
(*                                                                         *)
(* An artifact a is [role, spec, members]; its role is the key its members *)
(* are written under.  Windows, horizons and periods are schedules, pairs  *)
(* are those of a cadence rule.  In a payload a scalar is a sequence of    *)
(* components: a duration is its text, a period count one component of the *)
(* unit "int", null no component at all.  SHA-256 is taken to be free of   *)
(* collisions, so an id is the content it is the hash of.                  *)
(***************************************************************************)
EXTENDS ScheduleArithmetic, DurationText, FiniteSets

Roles == {"windows", "horizons", "periods", "pairs"}

KindsOf(role) ==
  IF role = "pairs" THEN {"w_over_k", "explicit_pairs"}
  ELSE {"metallic_recurrence", "log_spaced", "explicit"}

-----------------------------------------------------------------------------
(* The parameter classes, and what their fields are.                       *)

MetallicSpecs ==
  [kind : {"metallic_recurrence"}, coefficient : Rational, seed : Nat, grain : Nat,
   minimum : Nat \cup {NoMinimum}, maximum : Nat, rounding : Roundings]

LogSpacedSpecs ==
  [kind : {"log_spaced"}, count : Nat, minimum : Nat, maximum : Nat, grain : Nat,
   rounding : Roundings]

PeriodsSpecs == [kind : {"explicit"}, periods : Seq(Nat)]

WOverKSpecs == [kind : {"w_over_k"}, divisor : Nat, allowed : SUBSET Nat, source : Nat]

(* Nothing but a name.                                                     *)
NamedSpec(kind, spec) == spec = [kind |-> kind, name |-> spec.name]

IsSpec(role, spec) ==
  CASE spec.kind = "metallic_recurrence" -> role # "pairs" /\ spec \in MetallicSpecs
    [] spec.kind = "log_spaced" -> role # "pairs" /\ spec \in LogSpacedSpecs
    [] spec.kind = "explicit" /\ role = "periods" -> spec \in PeriodsSpecs
    [] spec.kind = "explicit" /\ role # "periods" ->
         role # "pairs" /\ NamedSpec("explicit", spec)
    [] spec.kind = "w_over_k" ->
         role = "pairs" /\ spec \in WOverKSpecs /\ IsFiniteSet(spec.allowed)
    [] spec.kind = "explicit_pairs" -> role = "pairs" /\ NamedSpec("explicit_pairs", spec)

IsArtifact(a) ==
  /\ a = [role |-> a.role, spec |-> a.spec, members |-> a.members]
  /\ a.role \in Roles
  /\ a.spec.kind \in KindsOf(a.role) /\ IsSpec(a.role, a.spec)
  /\ a.members \in Seq(IF a.role = "pairs" THEN [window : Nat, emit : Nat] ELSE Nat)

-----------------------------------------------------------------------------
(* The constructors of the parameter classes.                              *)

OrderedBounds(spec) ==
  spec.minimum = NoMinimum \/ (spec.minimum > 0 /\ spec.minimum <= spec.maximum)

MetallicSpec(spec) ==
  /\ spec.coefficient \in Rational /\ spec.coefficient.num > 0
  /\ spec.seed > 0 /\ spec.grain > 0 /\ spec.maximum > 0
  /\ OrderedBounds(spec)

LogSpacedSpec(spec) ==
  /\ spec.count \in 2 .. MaxTerms
  /\ spec.minimum > 0 /\ spec.maximum > 0 /\ spec.grain > 0
  /\ spec.minimum <= spec.maximum

WOverKSpec(spec) ==
  /\ spec.divisor \in Nat \ {0}
  /\ spec.allowed # {}
  /\ \A a \in spec.allowed : a > 0
  /\ spec.source > 0

Constructible(role, spec) ==
  /\ spec.kind = "metallic_recurrence" => MetallicSpec(spec)
  /\ spec.kind = "log_spaced" => LogSpacedSpec(spec)
  /\ spec.kind = "w_over_k" => WOverKSpec(spec)
  /\ role = "periods" /\ spec.kind = "explicit" =>
       \A i \in DOMAIN spec.periods : spec.periods[i] > 0

(* WindowSchedule, HorizonSchedule and LookbackSchedule.                   *)
ScheduleAccepts(spec, members) == ResolvedList(members) /\ KeepsItsSpec(spec, members)

(* WindowEmitPair and CadenceRule.                                         *)
RuleAccepts(spec, pairs) ==
  /\ \A i \in DOMAIN pairs : pairs[i].emit > 0
  /\ ResolvedList([i \in DOMAIN pairs |-> pairs[i].window])
  /\ spec.kind = "w_over_k" => \A i \in DOMAIN pairs : pairs[i].emit \in spec.allowed

Accepts(a) ==
  /\ Constructible(a.role, a.spec)
  /\ IF a.role = "pairs" THEN RuleAccepts(a.spec, a.members)
     ELSE ScheduleAccepts(a.spec, a.members)

-----------------------------------------------------------------------------
(* Writing: to_dict of the parameters, then of the whole.                  *)

Scalar(role, n) ==
  CASE n = NoMinimum -> <<>>
    [] n # NoMinimum /\ role = "periods" -> <<<<n, "int">>>>
    [] OTHER -> Format(n)

(* _normalized_allowed: repeats dropped, ascending.                         *)
Ascending(S) ==
  [i \in 1 .. Cardinality(S) |-> CHOOSE a \in S : Cardinality({b \in S : b < a}) = i - 1]

Scalars(role, list) == [i \in DOMAIN list |-> Scalar(role, list[i])]

(* A key more in a payload.                                                *)
With(payload, key, value) ==
  [k \in DOMAIN payload \cup {key} |-> IF k = key THEN value ELSE payload[k]]

(* limiting_ratio, of the duration schedules only: what it is computed     *)
(* from stands for the number.                                             *)
WithRatio(role, parameters, ratio) ==
  IF role = "periods" THEN parameters ELSE With(parameters, "limiting_ratio", ratio)

MetallicParameters(role, spec) ==
  WithRatio(role,
    [coefficient |-> spec.coefficient,
     seed |-> Scalar(role, spec.seed), grain |-> Scalar(role, spec.grain),
     minimum |-> Scalar(role, spec.minimum), maximum |-> Scalar(role, spec.maximum),
     rounding |-> spec.rounding],
    <<spec.coefficient.num, spec.coefficient.den>>)

LogSpacedParameters(role, spec) ==
  WithRatio(role,
    [count |-> spec.count,
     minimum |-> Scalar(role, spec.minimum), maximum |-> Scalar(role, spec.maximum),
     grain |-> Scalar(role, spec.grain), rounding |-> spec.rounding],
    <<spec.count, spec.minimum, spec.maximum>>)

ExplicitParameters(role, spec) ==
  IF role = "periods" THEN [periods |-> Scalars(role, spec.periods)]
  ELSE WithRatio(role, [name |-> spec.name], <<>>)

WOverKParameters(spec) ==
  [divisor |-> spec.divisor,
   allowed |-> [i \in DOMAIN Ascending(spec.allowed) |-> Format(Ascending(spec.allowed)[i])],
   source_cadence |-> Format(spec.source)]

Parameters(role, spec) ==
  CASE spec.kind = "metallic_recurrence" -> MetallicParameters(role, spec)
    [] spec.kind = "log_spaced" -> LogSpacedParameters(role, spec)
    [] spec.kind = "explicit" -> ExplicitParameters(role, spec)
    [] spec.kind = "w_over_k" -> WOverKParameters(spec)
    [] spec.kind = "explicit_pairs" -> [name |-> spec.name]

WrittenMembers(a) ==
  IF a.role = "pairs"
  THEN [i \in DOMAIN a.members |->
          <<Format(a.members[i].window), Format(a.members[i].emit)>>]
  ELSE Scalars(a.role, a.members)

(* _identity_payload: what the id is the hash of.                          *)
Identity(a) ==
  [kind |-> a.spec.kind, parameters |-> Parameters(a.role, a.spec),
   role |-> a.role, members |-> WrittenMembers(a)]

Written(a) == With(Identity(a), "id", Identity(a))

-----------------------------------------------------------------------------
(* Reading: duration_from_payload and validated_period, then from_dict.    *)

Readable(role, json) ==
  IF role = "periods" THEN json \in Seq((Nat \ {0}) \X {"int"}) /\ Len(json) = 1
  ELSE Parses(json)

Reading(role, json) == IF role = "periods" THEN json[1][1] ELSE SecondsOf(json)

IsList(jsons) == jsons \in Seq(ToSet(jsons))

AllReadable(role, jsons) ==
  IsList(jsons) /\ \A i \in DOMAIN jsons : Readable(role, jsons[i])

Readings(role, jsons) == [i \in DOMAIN jsons |-> Reading(role, jsons[i])]

(* optional_duration_from_payload and optional_period.                     *)
ReadableMinimum(role, json) == json = <<>> \/ Readable(role, json)

ReadMinimum(role, json) == IF json = <<>> THEN NoMinimum ELSE Reading(role, json)

(* require_keys; the ratio is demanded and then ignored.                   *)
HasKeys(role, p, keys) ==
  keys \cup (IF role = "periods" THEN {} ELSE {"limiting_ratio"}) \subseteq DOMAIN p

(* from_dict of each parameter class: what it demands, what it returns.    *)
MetallicReadable(role, p) ==
  /\ HasKeys(role, p, {"coefficient", "seed", "grain", "minimum", "maximum", "rounding"})
  /\ \A key \in {"seed", "grain", "maximum"} : Readable(role, p[key])
  /\ ReadableMinimum(role, p.minimum)
  /\ p.rounding \in Roundings

ReadMetallic(role, p) ==
  [kind |-> "metallic_recurrence", coefficient |-> p.coefficient,
   seed |-> Reading(role, p.seed), grain |-> Reading(role, p.grain),
   minimum |-> ReadMinimum(role, p.minimum), maximum |-> Reading(role, p.maximum),
   rounding |-> p.rounding]

LogSpacedReadable(role, p) ==
  /\ HasKeys(role, p, {"count", "minimum", "maximum", "grain", "rounding"})
  /\ \A key \in {"minimum", "maximum", "grain"} : Readable(role, p[key])
  /\ p.rounding \in Roundings

ReadLogSpaced(role, p) ==
  [kind |-> "log_spaced", count |-> p.count,
   minimum |-> Reading(role, p.minimum), maximum |-> Reading(role, p.maximum),
   grain |-> Reading(role, p.grain), rounding |-> p.rounding]

ExplicitReadable(role, p) ==
  IF role = "periods" THEN "periods" \in DOMAIN p /\ AllReadable(role, p.periods)
  ELSE HasKeys(role, p, {"name"})

ReadExplicit(role, p) ==
  IF role = "periods" THEN [kind |-> "explicit", periods |-> Readings(role, p.periods)]
  ELSE [kind |-> "explicit", name |-> p.name]

WOverKReadable(p) ==
  /\ {"divisor", "allowed", "source_cadence"} \subseteq DOMAIN p
  /\ AllReadable("pairs", p.allowed) /\ Parses(p.source_cadence)

ReadWOverK(p) ==
  [kind |-> "w_over_k", divisor |-> p.divisor,
   allowed |-> ToSet(Readings("pairs", p.allowed)), source |-> SecondsOf(p.source_cadence)]

ParametersReadable(role, kind, p) ==
  CASE kind = "metallic_recurrence" -> MetallicReadable(role, p)
    [] kind = "log_spaced" -> LogSpacedReadable(role, p)
    [] kind = "explicit" -> ExplicitReadable(role, p)
    [] kind = "w_over_k" -> WOverKReadable(p)
    [] kind = "explicit_pairs" -> "name" \in DOMAIN p

ReadSpec(role, kind, p) ==
  CASE kind = "metallic_recurrence" -> ReadMetallic(role, p)
    [] kind = "log_spaced" -> ReadLogSpaced(role, p)
    [] kind = "explicit" -> ReadExplicit(role, p)
    [] kind = "w_over_k" -> ReadWOverK(p)
    [] kind = "explicit_pairs" -> [kind |-> kind, name |-> p.name]

MembersReadable(role, jsons) ==
  IF role = "pairs"
  THEN IsList(jsons) /\ \A i \in DOMAIN jsons : Parses(jsons[i][1]) /\ Parses(jsons[i][2])
  ELSE AllReadable(role, jsons)

ReadMembers(role, jsons) ==
  IF role = "pairs"
  THEN [i \in DOMAIN jsons |->
          [window |-> SecondsOf(jsons[i][1]), emit |-> SecondsOf(jsons[i][2])]]
  ELSE Readings(role, jsons)

WellFormed(role, payload) ==
  /\ payload.role = role
  /\ payload.kind \in KindsOf(role)
  /\ ParametersReadable(role, payload.kind, payload.parameters)
  /\ MembersReadable(role, payload.members)

ReadArtifact(role, payload) ==
  [role |-> role, spec |-> ReadSpec(role, payload.kind, payload.parameters),
   members |-> ReadMembers(role, payload.members)]

(* Faulty variant: the recorded id is not compared with the contents.      *)
ReadsUnchecked(role, payload) ==
  WellFormed(role, payload) /\ Accepts(ReadArtifact(role, payload))

(* from_dict: keys, kind, parameters and members, then the constructor,    *)
(* then require_recorded_id.                                               *)
Reads(role, payload) ==
  /\ WellFormed(role, payload)
  /\ Accepts(ReadArtifact(role, payload))
  /\ payload.id = Identity(ReadArtifact(role, payload))

=============================================================================
