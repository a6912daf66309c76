----------------------------- MODULE Schedules -----------------------------
(***************************************************************************)
(* A caller of schedules/: has a schedule generated, gives one, asks for a *)
(* registered one or builds one by hand; has a cadence rule resolved;      *)
(* writes what it has, edits what was written, and has it read again by    *)
(* any of the four readers.                                                *)
(*                                                                         *)
(* A generation goes term by term and then value by value.  Log-spaced     *)
(* points are computed with 50 digits: here an interior point is some      *)
(* multiple of 1 / PointDen next to the exact one.  Warnings and wording   *)
(* are left out, and so is dedup, of which there is one rule.              *)
(***************************************************************************)
EXTENDS ScheduleRecords

CONSTANTS
  Requests,     \* [role, spec]: what a generator may be asked for
  RuleRequests, \* [windows, spec]: what w_over_k may be asked for
  Divisors,     \* the K a schedule may be paired by with itself
  Given,        \* artifacts a caller may state: lists, pairs, records by hand
  EditValues,   \* what a number in a payload may be changed to
  MaxEdits, PointDen

(* The earlier scales that registry.py keeps, in minutes.                  *)
MetallicLegacy2025 == <<1, 3, 7, 18, 47, 122, 318, 829, 2163, 5643, 14723>>

(* Numbers where numbers are due; what the constructors refuse may occur.  *)
ASSUME SchedulesAssumption ==
  /\ MaxTerms >= Len(MetallicLegacy2025)
  /\ \A r \in Requests :
       r.role \in Roles \ {"pairs"} /\ r.spec \in MetallicSpecs \cup LogSpacedSpecs
  /\ \A r \in RuleRequests :
       /\ r.windows \in Seq(Nat)
       /\ r.spec \in WOverKSpecs /\ IsFiniteSet(r.spec.allowed)
  /\ Divisors \subseteq Nat
  /\ \A a \in Given : IsArtifact(a)
  /\ MaxEdits \in Nat
  /\ PointDen \in Nat \ {0}

VARIABLES
  pc,        \* "idle", "recur", "resolve", "made", "written", "read", "refused"
  request,   \* what was asked for, until something is made
  terms,     \* the exact values generated
  taken,     \* how many of them are resolved
  kept,      \* the members so far
  artifact,  \* the schedule or rule the caller has
  origin,    \* how it came about, or where a call was refused
  payload,   \* what is written of it
  edits,     \* the kinds of edit made to that
  reading    \* what a reader made of it

vars == <<pc, request, terms, taken, kept, artifact, origin, payload, edits, reading>>

Nothing == <<>>

Init ==
  /\ pc = "idle"
  /\ request = Nothing
  /\ terms = <<>> /\ taken = 0 /\ kept = <<>>
  /\ artifact = Nothing /\ origin = "none"
  /\ payload = Nothing /\ edits = <<>> /\ reading = Nothing

Stored == <<payload, edits, reading>>

(* A call that raises ConfigError, and why.                                *)
Refuse(why) ==
  /\ pc' = "refused" /\ origin' = why
  /\ UNCHANGED <<artifact, payload, edits, reading>>

(* A constructor's verdict on a.                                           *)
Construct(a, how) ==
  \/ /\ Accepts(a)
     /\ pc' = "made" /\ artifact' = a /\ origin' = how
     /\ UNCHANGED Stored
  \/ /\ ~Accepts(a)
     /\ Refuse(how)

-----------------------------------------------------------------------------
(* The generators: the parameters, then the rule on seed or endpoints.     *)

Acceptable(r) == Constructible(r.role, r.spec) /\ KeepsItsSpec(r.spec, <<>>)

RefuseRequest(r) ==
  /\ pc = "idle"
  /\ ~Acceptable(r)
  /\ Refuse("parameters")
  /\ request' = r
  /\ UNCHANGED <<terms, taken, kept>>

BeginRecurrence(r) ==
  /\ pc = "idle"
  /\ r.spec.kind = "metallic_recurrence" /\ Acceptable(r)
  /\ pc' = "recur"
  /\ request' = r
  /\ terms' = <<Whole(r.spec.seed), Whole(r.spec.seed)>>
  /\ UNCHANGED <<taken, kept, artifact, origin, Stored>>

(* The numerators next to the exact point k of a ladder, the geometric     *)
(* mean of the bounds with weights steps - k and k.                        *)
NextToPoint(spec, k) ==
  LET steps == spec.count - 1
      exact == PointDen ^ steps * spec.minimum ^ (steps - k) * spec.maximum ^ k
  IN  {m \in PointDen * spec.minimum .. PointDen * spec.maximum :
         (m - 1) ^ steps < exact /\ exact < (m + 1) ^ steps}

Interiors(spec) ==
  LET inner == 1 .. spec.count - 2 IN
  {x \in [inner -> UNION {NextToPoint(spec, k) : k \in inner}] :
     /\ \A k \in inner : x[k] \in NextToPoint(spec, k)
     /\ \A k, l \in inner : k < l => x[k] <= x[l]}

(* log_spaced_values: the bounds themselves at the ends.                   *)
PlacePoints(r) ==
  /\ pc = "idle"
  /\ r.spec.kind = "log_spaced" /\ Acceptable(r)
  /\ pc' = "resolve"
  /\ request' = r
  /\ \E x \in Interiors(r.spec) :
       terms' = <<Whole(r.spec.minimum)>>
                \o [k \in DOMAIN x |-> [num |-> x[k], den |-> PointDen]]
                \o <<Whole(r.spec.maximum)>>
  /\ UNCHANGED <<taken, kept, artifact, origin, Stored>>

(* The entry points, one of each kind for each role.                       *)
Asks(r, role, kind) == r.role = role /\ r.spec.kind = kind

MetallicRecurrence(r) ==
  Asks(r, "windows", "metallic_recurrence") /\ (RefuseRequest(r) \/ BeginRecurrence(r))

MetallicHorizons(r) ==
  Asks(r, "horizons", "metallic_recurrence") /\ (RefuseRequest(r) \/ BeginRecurrence(r))

MetallicLookback(r) ==
  Asks(r, "periods", "metallic_recurrence") /\ (RefuseRequest(r) \/ BeginRecurrence(r))

LogSpaced(r) ==
  Asks(r, "windows", "log_spaced") /\ (RefuseRequest(r) \/ PlacePoints(r))

LogSpacedHorizons(r) ==
  Asks(r, "horizons", "log_spaced") /\ (RefuseRequest(r) \/ PlacePoints(r))

LogSpacedLookback(r) ==
  Asks(r, "periods", "log_spaced") /\ (RefuseRequest(r) \/ PlacePoints(r))

-----------------------------------------------------------------------------
(* recurrence_values.                                                      *)

NextTerm ==
  Following(request.spec.coefficient, terms[Len(terms)], terms[Len(terms) - 1])

(* Faulty variant: the extra term is left out.                             *)
PassMaximumBare ==
  /\ pc = "recur"
  /\ Exceeds(NextTerm, request.spec.maximum)
  /\ pc' = "resolve"
  /\ UNCHANGED <<request, terms, taken, kept, artifact, origin, Stored>>

(* The first term past the maximum is generated too: rounding may bring it *)
(* back.                                                                   *)
PassMaximum ==
  /\ pc = "recur"
  /\ Exceeds(NextTerm, request.spec.maximum)
  /\ terms' = Append(terms, NextTerm)
  /\ pc' = "resolve"
  /\ UNCHANGED <<request, taken, kept, artifact, origin, Stored>>

(* Faulty variant: one term beyond the cap.                                *)
AppendTermLate ==
  /\ pc = "recur"
  /\ ~Exceeds(NextTerm, request.spec.maximum)
  /\ Len(terms) <= MaxTerms
  /\ terms' = Append(terms, NextTerm)
  /\ UNCHANGED <<pc, request, taken, kept, artifact, origin, Stored>>

AppendTerm ==
  /\ pc = "recur"
  /\ ~Exceeds(NextTerm, request.spec.maximum)
  /\ Len(terms) < MaxTerms
  /\ terms' = Append(terms, NextTerm)
  /\ UNCHANGED <<pc, request, taken, kept, artifact, origin, Stored>>

(* Faulty variant: a cap that is never met exactly.                        *)
RefuseSlowGrowthLate ==
  /\ pc = "recur"
  /\ ~Exceeds(NextTerm, request.spec.maximum)
  /\ Len(terms) > MaxTerms
  /\ Refuse("slow growth")
  /\ UNCHANGED <<request, terms, taken, kept>>

RefuseSlowGrowth ==
  /\ pc = "recur"
  /\ ~Exceeds(NextTerm, request.spec.maximum)
  /\ Len(terms) >= MaxTerms
  /\ Refuse("slow growth")
  /\ UNCHANGED <<request, terms, taken, kept>>

-----------------------------------------------------------------------------
(* resolve_values.                                                         *)

Resolved(value) == Quantize(value, request.spec.grain, request.spec.rounding)

Keeps(n) ==
  /\ InBounds(request.spec, n)
  /\ \A i \in DOMAIN kept : kept[i] # n

(* A value quantized, bounded, and dropped if it repeats one.              *)
ResolveValue ==
  /\ pc = "resolve"
  /\ taken < Len(terms)
  /\ LET n == Resolved(terms[taken + 1]) IN
       /\ n # 0
       /\ kept' = IF Keeps(n) THEN Append(kept, n) ELSE kept
  /\ taken' = taken + 1
  /\ UNCHANGED <<pc, request, terms, artifact, origin, Stored>>

RefuseNothingLeft ==
  /\ pc = "resolve"
  /\ taken < Len(terms)
  /\ Resolved(terms[taken + 1]) = 0
  /\ Refuse("quantizes to nothing")
  /\ UNCHANGED <<request, terms, taken, kept>>

RefuseAllExcluded ==
  /\ pc = "resolve"
  /\ taken = Len(terms)
  /\ kept = <<>>
  /\ Refuse("all excluded")
  /\ UNCHANGED <<request, terms, taken, kept>>

FinishGeneration ==
  /\ pc = "resolve"
  /\ taken = Len(terms)
  /\ kept # <<>>
  /\ Construct([role |-> request.role, spec |-> request.spec, members |-> kept],
               "generation")
  /\ UNCHANGED <<request, terms, taken, kept>>

-----------------------------------------------------------------------------
(* What a caller states itself; the constructors are public too.           *)

State(a) ==
  /\ pc = "idle"
  /\ Construct(a, "statement")
  /\ UNCHANGED <<request, terms, taken, kept>>

Listed(a, role) == a.role = role /\ a.spec.kind = "explicit"

Explicit(a) == Listed(a, "windows") /\ State(a)

ExplicitHorizons(a) == Listed(a, "horizons") /\ State(a)

ExplicitLookback(a) ==
  Listed(a, "periods") /\ a.members = a.spec.periods /\ State(a)

ExplicitPairs(a) == a.spec.kind = "explicit_pairs" /\ State(a)

(* A record put together by hand, whatever its parameters would generate.  *)
BuildByHand(a) ==
  /\ \/ a.spec.kind \notin {"explicit", "explicit_pairs"}
     \/ Listed(a, "periods") /\ a.members # a.spec.periods
  /\ State(a)

(* named_schedule; a name that is not registered is refused.               *)
NamedSchedule ==
  /\ pc = "idle"
  /\ Construct([role |-> "windows",
                spec |-> [kind |-> "explicit", name |-> "metallic-legacy-2025"],
                members |-> [i \in DOMAIN MetallicLegacy2025 |->
                               60 * MetallicLegacy2025[i]]],
               "registry")
  /\ UNCHANGED <<request, terms, taken, kept>>

(* w_over_k.                                                               *)
RuleFor(windows, spec) ==
  [role |-> "pairs", spec |-> spec,
   members |-> [i \in DOMAIN windows |->
                  [window |-> windows[i], emit |-> ResolveEmit(windows[i], spec)]]]

Pairable(windows, spec) ==
  /\ WOverKSpec(spec)
  /\ \A i \in DOMAIN windows :
       windows[i] > 0 /\ ResolveEmit(windows[i], spec) # NoCadence

ResolveRule(windows, spec, how) ==
  /\ request' = [role |-> "pairs", windows |-> windows, spec |-> spec]
  /\ \/ Pairable(windows, spec) /\ Construct(RuleFor(windows, spec), how)
     \/ ~Pairable(windows, spec) /\ Refuse("no cadence")
  /\ UNCHANGED <<terms, taken, kept>>

AskRule(r) == pc = "idle" /\ ResolveRule(r.windows, r.spec, "rule")

(* A schedule as its own allowed set, over candles of its grain.           *)
PairWithItself(k) ==
  /\ pc = "made"
  /\ artifact.role = "windows" /\ artifact.spec.kind # "explicit"
  /\ ResolveRule(artifact.members,
       [kind |-> "w_over_k", divisor |-> k, allowed |-> ToSet(artifact.members),
        source |-> artifact.spec.grain],
       "own rule")

-----------------------------------------------------------------------------
(* to_dict, what may become of a payload outside the program, from_dict.   *)

ToDict ==
  /\ pc = "made"
  /\ pc' = "written"
  /\ payload' = Written(artifact)
  /\ UNCHANGED <<request, terms, taken, kept, artifact, origin, edits, reading>>

(* A duration in seconds alone, or with weeks of which there are none.     *)
Respellings(text) ==
  IF Parses(text)
  THEN {other \in {<<<<SecondsOf(text), "s">>>>, <<<<0, "w">>>> \o text} : Parses(other)}
  ELSE {}

ByPair == artifact.role = "pairs"

RespelledMembers(p) ==
  IF ByPair
  THEN {[p EXCEPT !.members[1] = <<text, @[2]>>] : text \in Respellings(p.members[1][1])}
  ELSE {[p EXCEPT !.members[1] = text] : text \in Respellings(p.members[1])}

StatedKeys(p) == {"seed", "grain", "maximum", "source_cadence"} \cap DOMAIN p.parameters

Restated(p, key, json) == [p EXCEPT !.parameters = [@ EXCEPT ![key] = json]]

RespelledParameters(p) ==
  UNION {{Restated(p, key, text) : text \in Respellings(p.parameters[key])} :
           key \in StatedKeys(p)}

RestatedRatio(p) ==
  {Restated(p, key, <<0>>) : key \in {"limiting_ratio"} \cap DOMAIN p.parameters}

ChangedMembers(p) ==
  LET written(n) == IF ByPair THEN <<Format(n), Format(n)>> ELSE Scalar(artifact.role, n)
      last == Len(p.members)
  IN  {[p EXCEPT !.members = SubSeq(@, 1, last - 1)], [p EXCEPT !.members = Reverse(@)]}
      \cup {[p EXCEPT !.members = Append(@, written(n))] : n \in EditValues}
      \cup {[p EXCEPT !.members[last] = written(n)] : n \in EditValues}

ChangedParameters(p) ==
  LET keys == DOMAIN p.parameters IN
  {Restated(p, key, Scalar(artifact.role, n)) :
     key \in StatedKeys(p) \cup ({"minimum"} \cap keys), n \in EditValues \cup {NoMinimum}}
  \cup {Restated(p, key, rounding) : key \in {"rounding"} \cap keys, rounding \in Roundings}
  \cup {Restated(p, key, p.parameters[key] + 1) : key \in {"count", "divisor"} \cap keys}
  \cup {Restated(p, key, "another") : key \in {"name"} \cap keys}
  \cup {[p EXCEPT !.parameters = [k \in keys \ {key} |-> @[k]]] : key \in keys}

Relabelled(p) ==
  {[p EXCEPT !.role = role] : role \in Roles \cup {"none"}}
  \cup {[p EXCEPT !.kind = kind] : kind \in UNION {KindsOf(role) : role \in Roles}}

Edit(kind, results) ==
  /\ pc = "written"
  /\ Len(edits) < MaxEdits /\ payload.members # <<>>
  /\ payload' \in results
  /\ edits' = Append(edits, kind)
  /\ UNCHANGED <<pc, request, terms, taken, kept, artifact, origin, reading>>

Respell == Edit("spelling", RespelledMembers(payload) \cup RespelledParameters(payload))

RestateRatio == Edit("ratio", RestatedRatio(payload))

Change ==
  Edit("content", (ChangedMembers(payload) \cup ChangedParameters(payload)
                   \cup Relabelled(payload)) \ {payload})

FromDict(role) ==
  /\ pc = "written"
  /\ pc' = "read"
  /\ reading' = IF Reads(role, payload) THEN ReadArtifact(role, payload) ELSE Nothing
  /\ UNCHANGED <<request, terms, taken, kept, artifact, origin, payload, edits>>

WindowScheduleFromDict == FromDict("windows")

HorizonScheduleFromDict == FromDict("horizons")

LookbackScheduleFromDict == FromDict("periods")

CadenceRuleFromDict == FromDict("pairs")

-----------------------------------------------------------------------------
Generate ==
  \/ PassMaximum \/ AppendTerm \/ RefuseSlowGrowth
  \/ ResolveValue \/ RefuseNothingLeft \/ RefuseAllExcluded \/ FinishGeneration

Next ==
  \/ \E r \in Requests :
       \/ MetallicRecurrence(r) \/ MetallicHorizons(r) \/ MetallicLookback(r)
       \/ LogSpaced(r) \/ LogSpacedHorizons(r) \/ LogSpacedLookback(r)
  \/ Generate
  \/ \E a \in Given :
       \/ Explicit(a) \/ ExplicitHorizons(a) \/ ExplicitLookback(a) \/ ExplicitPairs(a)
       \/ BuildByHand(a)
  \/ NamedSchedule
  \/ \E r \in RuleRequests : AskRule(r)
  \/ \E k \in Divisors : PairWithItself(k)
  \/ ToDict
  \/ Respell \/ RestateRatio \/ Change
  \/ WindowScheduleFromDict \/ HorizonScheduleFromDict
  \/ LookbackScheduleFromDict \/ CadenceRuleFromDict

Spec == Init /\ [][Next]_vars

(* A generation that has begun keeps running: it is one call, and waits    *)
(* for nobody.                                                             *)
FairSpec == Spec /\ WF_vars(Generate)

-----------------------------------------------------------------------------
(* What is of the type it should be: a generation's progress, and what the *)
(* caller has once something was made.                                     *)
TypeOK ==
  /\ pc \in {"idle", "recur", "resolve", "made", "written", "read", "refused"}
  /\ terms \in Seq(Rational)
  /\ taken \in 0 .. Len(terms)
  /\ kept \in Seq(Nat \ {0})
  /\ pc \in {"made", "written", "read"} => artifact.role \in Roles
  /\ Len(edits) <= MaxEdits

(* No generator's answer is refused by the constructor it is handed to: in *)
(* particular one term beyond the cap leaves no more members than the cap  *)
(* (generators.py: recurrence_values against require_resolved_windows).    *)
(* Nor is a registered schedule, or the rule of a schedule with itself.    *)
OwnConstructorAccepts ==
  pc = "refused" => origin \notin {"generation", "registry", "own rule"}

(* The recurrence as a sequence without end, of which Reach terms are      *)
(* looked at.                                                              *)
Sequence(spec, reach) ==
  LET x[n \in 1 .. reach] ==
        IF n <= 2 THEN Whole(spec.seed)
        ELSE Following(spec.coefficient, x[n - 1], x[n - 2])
  IN  x

Reach == MaxTerms + 3

Generated == pc = "made" /\ origin = "generation"

(* A metallic schedule has, in ascending order, every quantized value of   *)
(* the endless recurrence that lies in its bounds, and no other: stopping  *)
(* one term past the maximum loses nothing that rounding brings back       *)
(* (generators.py: recurrence_values, resolve_values).                     *)
GeneratedAreTheSequences ==
  Generated /\ artifact.spec.kind = "metallic_recurrence" =>
    LET spec == artifact.spec
        all == {Quantize(Sequence(spec, Reach)[n], spec.grain, spec.rounding) :
                  n \in 1 .. Reach}
    IN  /\ ToSet(artifact.members) = {n \in all : InBounds(spec, n)}
        /\ \A i \in 1 .. Len(artifact.members) - 1 :
             artifact.members[i] < artifact.members[i + 1]

(* The points a caller names are members: a seed that is not below the     *)
(* minimum comes first, and the bounds of a ladder come first and last     *)
(* (generators.py: the two rules that refuse a grain that would drop them).*)
NamedPointsAreKept ==
  Generated =>
    LET spec == artifact.spec
        rounded(n) == Quantize(Whole(n), spec.grain, spec.rounding)
        members == artifact.members
    IN  /\ spec.kind = "metallic_recurrence" /\ spec.seed >= Floor(spec.minimum) =>
             members[1] = rounded(spec.seed)
        /\ spec.kind = "log_spaced" =>
             /\ members[1] = rounded(spec.minimum)
             /\ members[Len(members)] = rounded(spec.maximum)

(* A generation that has begun ends, also of a recurrence that hardly      *)
(* grows (generators.py: the cap on terms).                                *)
EveryGenerationEnds == pc \in {"recur", "resolve"} ~> pc \notin {"recur", "resolve"}

Ruled == pc = "made" /\ origin \in {"rule", "own rule"}

(* Each window emits at an allowed cadence the source can keep up with,    *)
(* the largest at or below W / K if there is one and the least if not; and *)
(* only a set with no such cadence is refused (cadence.py: _resolve_emit). *)
EmitIsPromised ==
  /\ Ruled =>
       \A i \in DOMAIN artifact.members :
         LET pair == artifact.members[i]
             spec == artifact.spec
             fit == {a \in KeptUpWith(spec) : a * spec.divisor <= pair.window}
         IN  /\ pair.emit \in KeptUpWith(spec)
             /\ pair.emit = IF fit # {} THEN Max(fit) ELSE Min(KeptUpWith(spec))
  /\ origin = "no cadence" /\ WOverKSpec(request.spec)
       /\ (\A i \in DOMAIN request.windows : request.windows[i] > 0) =>
       KeptUpWith(request.spec) = {}

(* A longer window never emits more often than a shorter one of its rule   *)
(* (cadence.py: quantizing down and snapping up together).                 *)
EmitGrowsWithTheWindow ==
  Ruled =>
    \A i, j \in DOMAIN artifact.members :
      artifact.members[i].window <= artifact.members[j].window =>
        artifact.members[i].emit <= artifact.members[j].emit

Engine == INSTANCE WindowResolution

(* A schedule that states a grain, generated or built by hand, paired with *)
(* itself over candles of that grain: the window engine takes every pair,  *)
(* at any phase (generators.py: require_members_within_spec, cadence.py:   *)
(* _resolve_emit, against windows/resolution.py: resolve_schedule).        *)
PairsResolve ==
  pc = "made" /\ origin = "own rule" =>
    LET grain == artifact.spec.source IN
    \A i \in DOMAIN artifact.members, phase \in 0 .. grain - 1 :
      Engine!Resolvable([window |-> artifact.members[i].window,
                         emit |-> artifact.members[i].emit,
                         cadence |-> grain, phase |-> phase, anchor |-> phase])

(* What was written and at most respelled is read back as it was by its    *)
(* own reader (to_dict against from_dict, in every role).                  *)
WrittenReadsBack ==
  pc = "written" /\ "content" \notin ToSet(edits) =>
    /\ Reads(artifact.role, payload)
    /\ ReadArtifact(artifact.role, payload) = artifact

(* Whatever any reader accepts is what was written: a payload changed      *)
(* without deriving its id again is refused by every reader, and no role   *)
(* is taken for another (identity.py: require_recorded_id).                *)
ChangesAreNoticed ==
  pc = "read" => reading \in {Nothing, artifact}

=============================================================================
