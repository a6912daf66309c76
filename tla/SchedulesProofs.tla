--------------------------- MODULE SchedulesProofs ---------------------------
(***************************************************************************)
(* Proofs about Schedules, for every set of requests and every cap.        *)
(***************************************************************************)
EXTENDS Schedules, FiniteSetTheorems, WellFoundedInduction, TLAPS

-----------------------------------------------------------------------------
(* Arithmetic.                                                             *)

(* The least element of a set of naturals.                                 *)
LEMMA LeastOfNat ==
  ASSUME NEW T \in SUBSET Nat, T # {}
  PROVE  \E x \in T : \A y \in T : x <= y
<1> DEFINE R == OpToRel(<, Nat)
<1>1. IsWellFoundedOn(R, Nat)
  BY NatLessThanWellFounded
<1> HIDE DEF R
<1>2. PICK x \in T : \A y \in T : <<y, x>> \notin R
  BY <1>1, WFMin
<1>3. \A y \in T : ~(y < x)
  BY <1>2 DEF R, OpToRel
<1> QED
  BY <1>3

(* The greatest element of a bounded one.                                  *)
LEMMA GreatestOfBounded ==
  ASSUME NEW T \in SUBSET Nat, T # {}, NEW n \in Nat, \A y \in T : y <= n
  PROVE  \E x \in T : \A y \in T : x >= y
<1> DEFINE U == {n - y : y \in T}
<1>1. U \in SUBSET Nat /\ U # {}
  <2>1. PICK y \in T : TRUE
    OBVIOUS
  <2>2. n - y \in U
    BY <2>1
  <2>3. \A z \in T : n - z \in Nat
    OBVIOUS
  <2> QED
    BY <2>2, <2>3
<1>2. PICK u \in U : \A v \in U : u <= v
  BY <1>1, LeastOfNat
<1>3. PICK x \in T : u = n - x
  BY <1>2
<1>4. ASSUME NEW y \in T PROVE x >= y
  <2>1. n - x <= n - y /\ x \in Nat /\ y \in Nat
    BY <1>2, <1>3
  <2> QED
    BY <2>1
<1> QED
  BY <1>4

(* So Min and Max are what they are called.                                *)
LEMMA MinIsLeast ==
  ASSUME NEW T \in SUBSET Nat, T # {}
  PROVE  Min(T) \in T /\ \A y \in T : Min(T) <= y
BY LeastOfNat DEF Min

LEMMA MaxIsGreatest ==
  ASSUME NEW T \in SUBSET Nat, T # {}, NEW n \in Nat, \A y \in T : y <= n
  PROVE  Max(T) \in T /\ \A y \in T : Max(T) >= y
BY GreatestOfBounded DEF Max

(* A multiple leaves no remainder, and what leaves none is a multiple.     *)
LEMMA MultipleHasNoRemainder ==
  ASSUME NEW m \in Nat \ {0}, NEW k \in Int
  PROVE  (m * k) % m = 0
OBVIOUS

LEMMA NoRemainderIsMultiple ==
  ASSUME NEW m \in Nat \ {0}, NEW x \in Int, x % m = 0
  PROVE  \E k \in Int : x = m * k
<1> DEFINE q == x \div m
<1>1. q \in Int /\ x = m * q
  OBVIOUS
<1> HIDE DEF q
<1> QED
  BY <1>1

(* A positive number without remainder is not below its factor.            *)
LEMMA PositiveMultiple ==
  ASSUME NEW m \in Nat \ {0}, NEW x \in Nat \ {0}, x % m = 0
  PROVE  x >= m
OBVIOUS

(* _quantize yields a whole number of grains.                              *)
LEMMA QuantizeIsOnTheGrain ==
  ASSUME NEW value \in Rational, NEW grain \in Nat \ {0}, NEW rounding
  PROVE  /\ Quantize(value, grain, rounding) \in Nat
         /\ Quantize(value, grain, rounding) % grain = 0
<1> DEFINE whole == value.num \div (value.den * grain)
           k == IF RoundsUp(value, grain, rounding) THEN whole + 1 ELSE whole
<1>1. value.num \in Nat /\ value.den \in Nat \ {0}
  BY DEF Rational
<1>2. value.den * grain \in Nat \ {0}
  BY <1>1
<1>3. whole \in Nat
  BY <1>1, <1>2
<1>4. k \in Nat
  BY <1>3
<1> HIDE DEF whole
<1>5. Quantize(value, grain, rounding) = grain * k
  BY DEF Quantize, whole
<1> HIDE DEF k
<1>6. grain * k \in Nat
  BY <1>4
<1> QED
  BY <1>4, <1>5, <1>6, MultipleHasNoRemainder

(* The recurrence stays among the rationals.                               *)
LEMMA FollowingIsRational ==
  ASSUME NEW c \in Rational, NEW x \in Rational, NEW y \in Rational
  PROVE  Following(c, x, y) \in Rational
<1>1. /\ c.num \in Nat /\ c.den \in Nat \ {0}
      /\ x.num \in Nat /\ x.den \in Nat \ {0}
      /\ y.num \in Nat /\ y.den \in Nat \ {0}
  BY DEF Rational
<1>2. x.den \div y.den \in Nat
  BY <1>1
<1> DEFINE q == x.den \div y.den
<1> HIDE DEF q
<1>3. c.num * x.num \in Nat /\ c.den * q * y.num \in Nat /\ c.den * x.den \in Nat \ {0}
  BY <1>1, <1>2 DEF q
<1>4. c.num * x.num + c.den * q * y.num \in Nat
  BY <1>3
<1>5. Following(c, x, y) = [num |-> c.num * x.num + c.den * q * y.num, den |-> c.den * x.den]
  BY DEF Following, q
<1> QED
  BY <1>3, <1>4, <1>5 DEF Rational

-----------------------------------------------------------------------------
(* Cadence rules.                                                          *)

RuleSpec(spec) ==
  /\ spec.kind = "w_over_k"
  /\ spec.divisor \in Nat /\ spec.allowed \in SUBSET Nat /\ spec.source \in Nat

LEMMA SourceIsPositive ==
  ASSUME NEW spec, RuleSpec(spec), WOverKSpec(spec)
  PROVE  spec.source \in Nat \ {0}
BY DEF RuleSpec, WOverKSpec

(* The cadences that serve a window: at or below W / K, and not faster     *)
(* than the source.                                                        *)
Fit(window, spec) == {a \in KeptUpWith(spec) : a * spec.divisor <= window}

LEMMA RatioIsBounded ==
  ASSUME NEW window \in Nat, NEW spec, RuleSpec(spec), WOverKSpec(spec)
  PROVE  /\ AtOrBelowRatio(window, spec) \in SUBSET Nat
         /\ Fit(window, spec) \in SUBSET Nat
         /\ Fit(window, spec) \subseteq AtOrBelowRatio(window, spec)
         /\ \A a \in AtOrBelowRatio(window, spec) : a <= window
<1> DEFINE K == spec.divisor
<1>1. K \in Nat \ {0}
  BY DEF RuleSpec, WOverKSpec
<1> HIDE DEF K
<1>2. ASSUME NEW a \in Nat, a * K <= window PROVE a <= window
  <2>1. K - 1 \in Nat
    BY <1>1
  <2>2. a * (K - 1) \in Nat
    BY <2>1
  <2>3. a * K = a + a * (K - 1)
    BY <1>1
  <2> QED
    BY <1>1, <1>2, <2>2, <2>3
<1> QED
  BY <1>2 DEF K, RuleSpec, AtOrBelowRatio, KeptUpWith, Fit

(* _resolve_emit computes the greatest fitting cadence, else the least the *)
(* source keeps up with, else none.                                        *)
LEMMA ResolveEmitMeans ==
  ASSUME NEW window \in Nat, NEW spec, RuleSpec(spec), WOverKSpec(spec)
  PROVE  ResolveEmit(window, spec) =
           IF KeptUpWith(spec) = {} THEN NoCadence
           ELSE IF Fit(window, spec) # {} THEN Max(Fit(window, spec))
           ELSE Min(KeptUpWith(spec))
<1> DEFINE ratio == AtOrBelowRatio(window, spec)
           fit == Fit(window, spec)
<1>1. /\ ratio \in SUBSET Nat /\ fit \in SUBSET Nat /\ fit \subseteq ratio
      /\ \A a \in ratio : a <= window
  BY RatioIsBounded
<1>2. \A a \in ratio : a >= spec.source <=> a \in fit
  BY DEF AtOrBelowRatio, KeptUpWith, Fit
<1>3. spec.source \in Nat /\ fit \subseteq KeptUpWith(spec)
  BY DEF RuleSpec, Fit
<1> HIDE DEF ratio, fit
<1>4. CASE fit # {}
  <2>1. Max(ratio) \in ratio /\ \A a \in ratio : Max(ratio) >= a
    BY <1>1, <1>4, MaxIsGreatest
  <2>2. PICK a \in fit : a \in ratio /\ a >= spec.source
    BY <1>1, <1>2, <1>4
  <2> DEFINE top == Max(ratio)
  <2>3. top >= spec.source
    <3>1. top \in Nat /\ a \in Nat /\ top >= a
      BY <1>1, <2>1, <2>2
    <3> HIDE DEF top
    <3> QED
      BY <1>3, <2>2, <3>1
  <2>4. Max(ratio) \in fit
    BY <1>2, <2>1, <2>3
  <2>5. Max(fit) \in fit /\ \A b \in fit : Max(fit) >= b
    BY <1>1, <1>4, MaxIsGreatest
  <2>6. Max(fit) = top
    <3> DEFINE best == Max(fit)
    <3>1. best \in Nat /\ top \in Nat /\ best >= top /\ top >= best
      BY <1>1, <2>1, <2>4, <2>5
    <3> HIDE DEF best, top
    <3>2. best = top
      BY <3>1
    <3> QED
      BY <3>2 DEF best
  <2> QED
    BY <1>1, <1>3, <1>4, <2>3, <2>6 DEF ResolveEmit, ratio, fit
<1>5. CASE fit = {}
  <2>1. ~(ratio # {} /\ Max(ratio) >= spec.source)
    BY <1>1, <1>2, <1>5, MaxIsGreatest
  <2> QED
    BY <1>5, <2>1 DEF ResolveEmit, ratio, fit
<1> QED
  BY <1>4, <1>5

(* So it is an allowed cadence, positive, that the source keeps up with.   *)
LEMMA EmitServes ==
  ASSUME NEW window \in Nat, NEW spec, RuleSpec(spec), WOverKSpec(spec),
         ResolveEmit(window, spec) # NoCadence
  PROVE  /\ KeptUpWith(spec) # {}
         /\ ResolveEmit(window, spec) \in KeptUpWith(spec)
         /\ ResolveEmit(window, spec) \in spec.allowed
         /\ ResolveEmit(window, spec) \in Nat \ {0}
<1>1. KeptUpWith(spec) # {}
  BY ResolveEmitMeans
<1>2. KeptUpWith(spec) \in SUBSET Nat /\ KeptUpWith(spec) \subseteq spec.allowed
  BY DEF KeptUpWith, RuleSpec
<1>3. Fit(window, spec) \in SUBSET Nat /\ Fit(window, spec) \subseteq KeptUpWith(spec)
      /\ \A a \in Fit(window, spec) : a <= window
  BY RatioIsBounded DEF Fit
<1>4. ResolveEmit(window, spec) \in KeptUpWith(spec)
  BY <1>1, <1>2, <1>3, ResolveEmitMeans, MinIsLeast, MaxIsGreatest, ZenonT(60)
<1>5. \A a \in spec.allowed : a \in Nat \ {0}
  BY DEF RuleSpec, WOverKSpec
<1> QED
  BY <1>1, <1>2, <1>4, <1>5

(* It does not fall as the window grows.                                   *)
LEMMA EmitIsMonotone ==
  ASSUME NEW short \in Nat, NEW long \in Nat, short <= long,
         NEW spec, RuleSpec(spec), WOverKSpec(spec), KeptUpWith(spec) # {}
  PROVE  ResolveEmit(short, spec) <= ResolveEmit(long, spec)
<1> DEFINE K == KeptUpWith(spec)
           few == Fit(short, spec)
           many == Fit(long, spec)
<1>1. K \in SUBSET Nat /\ few \subseteq K /\ many \subseteq K
  BY DEF KeptUpWith, RuleSpec, Fit
<1>2. few \subseteq many
  <2>1. ASSUME NEW a \in Nat, a * spec.divisor <= short PROVE a * spec.divisor <= long
    BY <2>1 DEF RuleSpec
  <2> QED
    BY <1>1, <2>1 DEF Fit
<1>3. /\ \A a \in few : a <= short
      /\ \A a \in many : a <= long
  BY RatioIsBounded
<1>4. /\ ResolveEmit(short, spec) = IF few # {} THEN Max(few) ELSE Min(K)
      /\ ResolveEmit(long, spec) = IF many # {} THEN Max(many) ELSE Min(K)
  BY ResolveEmitMeans
<1> HIDE DEF K, few, many
<1>5. Min(K) \in K /\ \A a \in K : Min(K) <= a
  BY <1>1, MinIsLeast DEF K
<1>6. CASE few # {}
  <2>1. Max(few) \in many /\ \A a \in many : Max(many) >= a
    BY <1>1, <1>2, <1>3, <1>6, MaxIsGreatest
  <2> QED
    BY <1>1, <1>2, <1>4, <1>6, <2>1
<1>7. CASE few = {} /\ many # {}
  <2>1. Max(many) \in K
    BY <1>1, <1>3, <1>7, MaxIsGreatest
  <2> QED
    BY <1>4, <1>5, <1>7, <2>1
<1>8. CASE many = {}
  BY <1>1, <1>2, <1>4, <1>5, <1>8
<1> QED
  BY <1>6, <1>7, <1>8

-----------------------------------------------------------------------------
(* The inductive invariant.  A generation that runs has acceptable         *)
(* parameters; a recurrence has at most MaxTerms terms, one more when it   *)
(* has passed its maximum, and the first two are the seed; what is kept    *)
(* would pass the constructor, and the second seed is not kept, which      *)
(* makes room for the extra term.                                          *)

Recurs == request.spec.kind = "metallic_recurrence"

Begun ==
  /\ pc = "idle" => origin = "none" /\ terms = <<>> /\ taken = 0 /\ kept = <<>>
  /\ pc \in {"recur", "resolve"} =>
       request \in Requests /\ Acceptable(request) /\ origin = "none"

TermsSoFar ==
  /\ pc = "recur" =>
       /\ Recurs /\ Len(terms) \in 2 .. MaxTerms /\ terms[1] = terms[2]
       /\ taken = 0 /\ kept = <<>>
  /\ pc = "resolve" =>
       IF Recurs THEN Len(terms) \in 3 .. MaxTerms + 1 /\ terms[1] = terms[2]
       ELSE Len(terms) <= MaxTerms

KeptSoFar ==
  pc = "resolve" =>
    /\ \A i, j \in DOMAIN kept : i # j => kept[i] # kept[j]
    /\ MembersWithinSpec(request.spec, kept)
    /\ Len(kept) <= taken
    /\ Recurs /\ taken >= 1 => ~Keeps(Resolved(terms[1]))
    /\ Recurs /\ taken >= 2 => Len(kept) < taken

(* A schedule that states a grain passed its constructor.                  *)
ScheduleSoFar ==
  pc = "made" /\ artifact.role = "windows" /\ artifact.spec.kind # "explicit" =>
    /\ Accepts(artifact)
    /\ artifact.spec.kind \in {"metallic_recurrence", "log_spaced"}
    /\ artifact.members \in Seq(Nat) /\ artifact.spec.grain \in Nat \ {0}

(* A rule is the one resolved for the windows it was asked for.            *)
RuleSoFar ==
  /\ Ruled =>
       /\ request.windows \in Seq(Nat) /\ RuleSpec(request.spec)
       /\ Pairable(request.windows, request.spec)
       /\ artifact = RuleFor(request.windows, request.spec)
  /\ Ruled /\ origin = "own rule" =>
       /\ request.spec.allowed = ToSet(request.windows)
       /\ \A i \in DOMAIN request.windows : request.windows[i] % request.spec.source = 0
  /\ origin = "no cadence" =>
       /\ pc = "refused"
       /\ request.windows \in Seq(Nat) /\ RuleSpec(request.spec)
       /\ ~Pairable(request.windows, request.spec)

EditKinds == {"spelling", "ratio", "content"}

SoFar ==
  /\ TypeOK /\ edits \in Seq(EditKinds)
  /\ Begun /\ TermsSoFar /\ KeptSoFar /\ ScheduleSoFar /\ RuleSoFar
  /\ OwnConstructorAccepts

LEMMA InitSoFar == Init => SoFar
BY SchedulesAssumption
   DEF Init, SoFar, TypeOK, Begun, TermsSoFar, KeptSoFar, ScheduleSoFar, RuleSoFar,
       OwnConstructorAccepts, Ruled, Nothing

(* What the parameters of an acceptable request are.                       *)
LEMMA AcceptableRequests ==
  ASSUME NEW r \in Requests, Acceptable(r)
  PROVE  /\ r.role \in Roles \ {"pairs"}
         /\ r.spec.grain \in Nat \ {0} /\ r.spec.maximum \in Nat
         /\ r.spec.minimum \in Nat \cup {NoMinimum}
         /\ \/ /\ r.spec.kind = "metallic_recurrence"
               /\ r.spec.coefficient \in Rational /\ r.spec.seed \in Nat
            \/ /\ r.spec.kind = "log_spaced"
               /\ r.spec.count \in 2 .. MaxTerms /\ r.spec.minimum \in Nat
<1>1. /\ r.role \in Roles \ {"pairs"}
      /\ r.spec.grain \in Nat /\ r.spec.maximum \in Nat
      /\ r.spec.minimum \in Nat \cup {NoMinimum}
      /\ \/ /\ r.spec.kind = "metallic_recurrence"
            /\ r.spec.coefficient \in Rational /\ r.spec.seed \in Nat
         \/ r.spec.kind = "log_spaced" /\ r.spec.count \in Nat
  <2>1. r.role \in Roles \ {"pairs"} /\ r.spec \in MetallicSpecs \cup LogSpacedSpecs
    BY SchedulesAssumption
  <2> QED
    BY <2>1 DEF MetallicSpecs, LogSpacedSpecs
<1>2. Constructible(r.role, r.spec)
  BY DEF Acceptable
<1>3. CASE r.spec.kind = "metallic_recurrence"
  <2>1. r.spec.grain > 0
    BY <1>2, <1>3 DEF Constructible, MetallicSpec
  <2> QED
    BY <1>1, <1>3, <2>1
<1>4. CASE r.spec.kind = "log_spaced"
  <2>1. LogSpacedSpec(r.spec)
    BY <1>2, <1>4 DEF Constructible
  <2>2. r.spec.minimum \in Nat
    BY <1>1, <2>1 DEF LogSpacedSpec, NoMinimum
  <2>3. r.spec.count \in 2 .. MaxTerms
    BY <1>1, <1>4, <2>1, MaxTermsAssumption DEF LogSpacedSpec
  <2> QED
    BY <1>1, <1>4, <2>1, <2>2, <2>3 DEF LogSpacedSpec
<1> QED
  BY <1>1, <1>3, <1>4

(* Members within the specification of an acceptable request, distinct and *)
(* within the cap, pass the constructor.                                   *)
LEMMA KeptAreAccepted ==
  ASSUME NEW r \in Requests, Acceptable(r), NEW members \in Seq(Nat \ {0}),
         members # <<>>, Len(members) <= MaxTerms,
         \A i, j \in DOMAIN members : i # j => members[i] # members[j],
         MembersWithinSpec(r.spec, members)
  PROVE  Accepts([role |-> r.role, spec |-> r.spec, members |-> members])
<1>1. ResolvedList(members)
  BY DEF ResolvedList
<1>2. r.role # "pairs" /\ r.spec.kind \in {"metallic_recurrence", "log_spaced"}
  BY AcceptableRequests
<1>3. Constructible(r.role, r.spec) /\ KeepsItsSpec(r.spec, <<>>)
  BY DEF Acceptable
<1>4. KeepsItsSpec(r.spec, members)
  BY <1>2, <1>3 DEF KeepsItsSpec
<1> QED
  BY <1>1, <1>2, <1>3, <1>4 DEF Accepts, ScheduleAccepts

(* The points of a ladder are rationals, count of them.                    *)
LEMMA LadderTerms ==
  ASSUME NEW r \in Requests, Acceptable(r), r.spec.kind = "log_spaced",
         NEW x \in Interiors(r.spec)
  PROVE  LET points == <<Whole(r.spec.minimum)>>
                       \o [k \in DOMAIN x |-> [num |-> x[k], den |-> PointDen]]
                       \o <<Whole(r.spec.maximum)>>
         IN  points \in Seq(Rational) /\ Len(points) = r.spec.count
<1> DEFINE inner == [k \in DOMAIN x |-> [num |-> x[k], den |-> PointDen]]
           m == r.spec.count - 2
<1>1. /\ m \in Nat /\ r.spec.minimum \in Nat /\ r.spec.maximum \in Nat
      /\ r.spec.count = m + 2 /\ r.spec.count \in Nat
  BY AcceptableRequests, MaxTermsAssumption
<1>2. DOMAIN x = 1 .. m
  BY DEF Interiors
<1>3. \A k \in 1 .. m : x[k] \in NextToPoint(r.spec, k)
  BY DEF Interiors
<1>4. \A k \in 1 .. m : x[k] \in Nat
  <2>1. PointDen * r.spec.minimum \in Nat /\ PointDen * r.spec.maximum \in Nat
    BY <1>1, SchedulesAssumption, SMTT(60)
  <2>2. PointDen * r.spec.minimum .. PointDen * r.spec.maximum \subseteq Nat
    BY <2>1
  <2>3. \A k \in 1 .. m : NextToPoint(r.spec, k) \subseteq Nat
    BY <2>2 DEF NextToPoint
  <2> QED
    BY <1>3, <2>3
<1> HIDE DEF m
<1>5. inner \in [1 .. m -> Rational]
  BY <1>2, <1>4, SchedulesAssumption DEF Rational
<1> HIDE DEF inner
<1>6. inner \in Seq(Rational) /\ Len(inner) = m
  BY <1>1, <1>5
<1>7. Whole(r.spec.minimum) \in Rational /\ Whole(r.spec.maximum) \in Rational
  BY <1>1 DEF Whole, Rational
<1>8. /\ <<Whole(r.spec.minimum)>> \o inner \in Seq(Rational)
      /\ Len(<<Whole(r.spec.minimum)>> \o inner) = m + 1
  BY <1>1, <1>6, <1>7
<1>9. /\ <<Whole(r.spec.minimum)>> \o inner \o <<Whole(r.spec.maximum)>> \in Seq(Rational)
      /\ Len(<<Whole(r.spec.minimum)>> \o inner \o <<Whole(r.spec.maximum)>>) = m + 2
  BY <1>1, <1>7, <1>8
<1> QED
  BY <1>1, <1>9 DEF inner

-----------------------------------------------------------------------------
(* Each step keeps it.  First what does not make anything.                 *)

LEMMA StutterSoFar == SoFar /\ UNCHANGED vars => SoFar'
<1> SUFFICES ASSUME SoFar, UNCHANGED vars PROVE SoFar'
  OBVIOUS
<1>1. /\ pc' = pc /\ request' = request /\ terms' = terms /\ taken' = taken /\ kept' = kept
      /\ artifact' = artifact /\ origin' = origin /\ edits' = edits
  BY DEF vars
<1> QED
  BY <1>1, ZenonT(60) DEF SoFar, TypeOK, Begun, TermsSoFar, KeptSoFar, ScheduleSoFar, RuleSoFar,
              OwnConstructorAccepts, Ruled, Recurs, Keeps, Resolved

(* A refusal, whatever becomes of the request, if it is none of what       *)
(* OwnConstructorAccepts is about.                                         *)
LEMMA RefuseSoFar ==
  ASSUME SoFar, NEW why, Refuse(why), UNCHANGED <<terms, taken, kept>>,
         why \notin {"generation", "registry", "own rule", "no cadence"}
  PROVE  SoFar'
BY DEF Refuse, SoFar, TypeOK, Begun, TermsSoFar, KeptSoFar, ScheduleSoFar, RuleSoFar,
       OwnConstructorAccepts, Ruled

LEMMA WriteSoFar ==
  ASSUME SoFar,
         \/ ToDict
         \/ \E kind \in EditKinds : \E S : Edit(kind, S)
         \/ \E role \in Roles : FromDict(role)
  PROVE  SoFar'
<1>1. /\ UNCHANGED <<request, terms, taken, kept, artifact, origin>>
      /\ pc' \in {"written", "read"} /\ pc \in {"made", "written"}
  BY DEF ToDict, Edit, FromDict
<1>2. edits' \in Seq(EditKinds) /\ Len(edits') <= MaxEdits
  <2>1. ASSUME NEW kind \in EditKinds, NEW S, Edit(kind, S)
        PROVE  edits' \in Seq(EditKinds) /\ Len(edits') <= MaxEdits
    <3>1. edits \in Seq(EditKinds)
      BY DEF SoFar
    <3>2. kind \in EditKinds
      BY <2>1
    <3>3. MaxEdits \in Nat
      BY SchedulesAssumption
    <3>4. edits' = Append(edits, kind) /\ Len(edits) < MaxEdits
      BY <2>1 DEF Edit
    <3> QED
      BY <3>1, <3>2, <3>3, <3>4
  <2>2. ASSUME edits' = edits PROVE edits' \in Seq(EditKinds) /\ Len(edits') <= MaxEdits
    BY <2>2 DEF SoFar, TypeOK
  <2> QED
    BY <2>1, <2>2 DEF ToDict, FromDict
<1> QED
  BY <1>1, <1>2 DEF SoFar, TypeOK, Begun, TermsSoFar, KeptSoFar, ScheduleSoFar, RuleSoFar,
                    OwnConstructorAccepts, Ruled

-----------------------------------------------------------------------------
(* Generations.                                                            *)

LEMMA BeginSoFar ==
  ASSUME SoFar, NEW r \in Requests, BeginRecurrence(r) \/ PlacePoints(r)
  PROVE  SoFar'
<1>1. /\ pc = "idle" /\ request' = r /\ Acceptable(r) /\ UNCHANGED <<taken, kept, origin, edits>>
  BY DEF BeginRecurrence, PlacePoints, Stored
<1>2. taken = 0 /\ kept = <<>> /\ origin = "none"
  BY <1>1 DEF SoFar, Begun
<1>3. Acceptable(request')
  BY <1>1
<1>4. CASE BeginRecurrence(r)
  <2>1. /\ pc' = "recur" /\ r.spec.kind = "metallic_recurrence"
        /\ terms' = <<Whole(r.spec.seed), Whole(r.spec.seed)>>
    BY <1>4 DEF BeginRecurrence
  <2>2. Whole(r.spec.seed) \in Rational
    BY <1>1, <2>1, AcceptableRequests DEF Whole, Rational
  <2> DEFINE w == Whole(r.spec.seed)
  <2> HIDE DEF w
  <2>3. /\ terms' \in Seq(Rational) /\ Len(terms') = 2 /\ terms'[1] = terms'[2]
    BY <2>1, <2>2 DEF w
  <2> QED
    BY <1>1, <1>2, <1>3, <2>1, <2>3, MaxTermsAssumption
       DEF SoFar, TypeOK, Begun, TermsSoFar, KeptSoFar, ScheduleSoFar, RuleSoFar,
           OwnConstructorAccepts, Ruled, Recurs
<1>5. CASE PlacePoints(r)
  <2>1. pc' = "resolve" /\ r.spec.kind = "log_spaced"
    BY <1>5 DEF PlacePoints
  <2>2. terms' \in Seq(Rational) /\ Len(terms') = r.spec.count
    BY <1>1, <1>5, <2>1, LadderTerms DEF PlacePoints
  <2>3. Len(terms') <= MaxTerms /\ Len(terms') \in Nat
    BY <1>1, <2>1, <2>2, AcceptableRequests, MaxTermsAssumption
  <2>4. MembersWithinSpec(r.spec, <<>>)
    BY DEF MembersWithinSpec
  <2>5. Begun'
    BY <1>1, <1>2, <1>3, <2>1 DEF Begun
  <2>6. TermsSoFar'
    BY <1>1, <2>1, <2>3 DEF TermsSoFar, Recurs
  <2>7. KeptSoFar'
    BY <1>1, <1>2, <2>1, <2>4 DEF KeptSoFar, Recurs
  <2>8. TypeOK'
    BY <1>1, <1>2, <2>1, <2>2, <2>3 DEF SoFar, TypeOK
  <2> QED
    BY <1>1, <1>2, <2>1, <2>5, <2>6, <2>7, <2>8
       DEF SoFar, ScheduleSoFar, RuleSoFar, OwnConstructorAccepts, Ruled
<1> QED
  BY <1>4, <1>5

LEMMA TermSoFar ==
  ASSUME SoFar, AppendTerm \/ PassMaximum
  PROVE  SoFar'
<1>1. /\ pc = "recur" /\ terms' = Append(terms, NextTerm)
      /\ UNCHANGED <<request, taken, kept, artifact, origin, edits>>
  BY DEF AppendTerm, PassMaximum, Stored
<1>2. /\ request \in Requests /\ Acceptable(request) /\ origin = "none" /\ Recurs
      /\ Len(terms) \in 2 .. MaxTerms /\ terms[1] = terms[2] /\ taken = 0 /\ kept = <<>>
  BY <1>1 DEF SoFar, Begun, TermsSoFar
<1>3. terms \in Seq(Rational) /\ Len(terms) \in Nat /\ MaxTerms \in Nat
  BY MaxTermsAssumption DEF SoFar, TypeOK
<1>4. NextTerm \in Rational
  <2>1. request.spec.coefficient \in Rational
    BY <1>2, AcceptableRequests DEF Recurs
  <2>2. terms[Len(terms)] \in Rational /\ terms[Len(terms) - 1] \in Rational
    BY <1>2, <1>3
  <2> QED
    BY <2>1, <2>2, FollowingIsRational DEF NextTerm
<1>5. /\ terms' \in Seq(Rational) /\ Len(terms') = Len(terms) + 1
      /\ terms'[1] = terms'[2]
  BY <1>1, <1>2, <1>3, <1>4
<1>6. CASE AppendTerm
  <2>1. pc' = "recur" /\ Len(terms) < MaxTerms
    BY <1>6 DEF AppendTerm
  <2> QED
    BY <1>1, <1>2, <1>3, <1>5, <2>1
       DEF SoFar, TypeOK, Begun, TermsSoFar, KeptSoFar, ScheduleSoFar, RuleSoFar,
           OwnConstructorAccepts, Ruled, Recurs
<1>7. CASE PassMaximum
  <2>1. pc' = "resolve"
    BY <1>7 DEF PassMaximum
  <2>2. MembersWithinSpec(request.spec, <<>>)
    BY DEF MembersWithinSpec
  <2>3. Begun' /\ TermsSoFar'
    BY <1>1, <1>2, <1>3, <1>5, <2>1 DEF Begun, TermsSoFar, Recurs
  <2>4. KeptSoFar'
    BY <1>1, <1>2, <2>1, <2>2 DEF KeptSoFar, Recurs
  <2>5. TypeOK'
    BY <1>1, <1>2, <1>3, <1>5, <2>1 DEF SoFar, TypeOK
  <2> QED
    BY <1>1, <1>2, <2>1, <2>3, <2>4, <2>5
       DEF SoFar, ScheduleSoFar, RuleSoFar, OwnConstructorAccepts, Ruled
<1> QED
  BY <1>6, <1>7

(* What a value resolves to, and what the constructor would say of it.     *)
LEMMA ResolvedIsOnTheGrain ==
  ASSUME request \in Requests, Acceptable(request), NEW value \in Rational
  PROVE  Resolved(value) \in Nat /\ Resolved(value) % request.spec.grain = 0
BY AcceptableRequests, QuantizeIsOnTheGrain DEF Resolved

LEMMA ValueSoFar ==
  ASSUME SoFar, ResolveValue
  PROVE  SoFar'
<1> DEFINE n == Resolved(terms[taken + 1])
<1>1. /\ pc = "resolve" /\ taken < Len(terms) /\ n # 0 /\ taken' = taken + 1
      /\ kept' = IF Keeps(n) THEN Append(kept, n) ELSE kept
      /\ UNCHANGED <<pc, request, terms, artifact, origin, edits>>
  BY DEF ResolveValue, Stored
<1>2. request \in Requests /\ Acceptable(request) /\ origin = "none"
  BY <1>1 DEF SoFar, Begun
<1>3. terms \in Seq(Rational) /\ Len(terms) \in Nat /\ taken \in 0 .. Len(terms)
      /\ kept \in Seq(Nat \ {0})
  BY DEF SoFar, TypeOK
<1>4. n \in Nat \ {0} /\ n % request.spec.grain = 0
  BY <1>1, <1>2, <1>3, ResolvedIsOnTheGrain
<1>5. /\ \A i, j \in DOMAIN kept : i # j => kept[i] # kept[j]
      /\ MembersWithinSpec(request.spec, kept)
      /\ Len(kept) <= taken /\ Len(kept) \in Nat
      /\ Recurs /\ taken >= 1 => ~Keeps(Resolved(terms[1]))
      /\ Recurs /\ taken >= 2 => Len(kept) < taken
  BY <1>1, <1>3 DEF SoFar, KeptSoFar
<1>6. Recurs => terms[1] = terms[2]
  BY <1>1 DEF SoFar, TermsSoFar
<1> DEFINE first == Resolved(terms[1])
<1>7. Recurs /\ taken = 1 => n = first /\ ~Keeps(n)
  BY <1>5, <1>6
<1>8. Recurs /\ taken = 0 => n = first
  OBVIOUS
<1>9. taken' \in 0 .. Len(terms)
  BY <1>1, <1>3
<1> HIDE DEF n, first
<1>10. /\ kept' \in Seq(Nat \ {0})
       /\ Len(kept') <= taken' /\ (Recurs /\ taken' >= 2 => Len(kept') < taken')
  <2>1. CASE Keeps(n)
    <3>1. kept' = Append(kept, n) /\ Len(kept') = Len(kept) + 1
      BY <1>1, <1>3, <1>4, <2>1
    <3>2. kept' \in Seq(Nat \ {0})
      BY <1>3, <1>4, <3>1
    <3>3. Recurs /\ taken' >= 2 => taken >= 2
      BY <1>1, <1>3, <1>7, <2>1
    <3> QED
      BY <1>1, <1>3, <1>5, <3>1, <3>2, <3>3
  <2>2. CASE ~Keeps(n)
    BY <1>1, <1>3, <1>5, <2>2
  <2> QED
    BY <2>1, <2>2
<1>11. /\ \A i, j \in DOMAIN kept' : i # j => kept'[i] # kept'[j]
       /\ MembersWithinSpec(request.spec, kept')
       /\ InBounds(request.spec, n) => \E i \in DOMAIN kept' : kept'[i] = n
       /\ \A i \in DOMAIN kept : i \in DOMAIN kept' /\ kept'[i] = kept[i]
  <2>1. CASE Keeps(n)
    <3>1. kept' = Append(kept, n) /\ DOMAIN kept = 1 .. Len(kept)
          /\ DOMAIN kept' = 1 .. Len(kept) + 1
          /\ kept'[Len(kept) + 1] = n
          /\ \A i \in DOMAIN kept : kept'[i] = kept[i]
      BY <1>1, <1>3, <1>4, <2>1
    <3>2. InBounds(request.spec, n) /\ \A i \in DOMAIN kept : kept[i] # n
      BY <2>1 DEF Keeps
    <3> QED
      BY <1>4, <1>5, <3>1, <3>2 DEF MembersWithinSpec
  <2>2. CASE ~Keeps(n)
    BY <1>1, <1>5, <2>2 DEF Keeps
  <2> QED
    BY <2>1, <2>2
<1>12. Recurs => ~Keeps(Resolved(terms[1]))'
  <2>1. Keeps(Resolved(terms[1]))' <=>
          InBounds(request.spec, first) /\ \A i \in DOMAIN kept' : kept'[i] # first
    BY <1>1 DEF Keeps, Resolved, first
  <2>2. CASE taken = 0
    BY <1>8, <1>11, <2>1, <2>2
  <2>3. CASE taken # 0
    <3>1. taken >= 1
      BY <1>3, <2>3
    <3>2. Recurs => ~Keeps(first)
      BY <1>5, <3>1 DEF first
    <3> QED
      BY <1>11, <2>1, <3>2 DEF Keeps
  <2> QED
    BY <2>2, <2>3
<1>13. KeptSoFar'
  BY <1>1, <1>10, <1>11, <1>12 DEF KeptSoFar, Recurs
<1>14. TypeOK'
  BY <1>1, <1>9, <1>10 DEF SoFar, TypeOK
<1>15. Begun' /\ TermsSoFar'
  BY <1>1, <1>2 DEF SoFar, Begun, TermsSoFar, Recurs
<1> QED
  BY <1>1, <1>2, <1>13, <1>14, <1>15
     DEF SoFar, ScheduleSoFar, RuleSoFar, OwnConstructorAccepts, Ruled

(* The constructor takes what was generated.                               *)
LEMMA FinishSoFar ==
  ASSUME SoFar, FinishGeneration
  PROVE  SoFar'
<1> DEFINE a == [role |-> request.role, spec |-> request.spec, members |-> kept]
<1>1. /\ pc = "resolve" /\ taken = Len(terms) /\ kept # <<>> /\ Construct(a, "generation")
      /\ UNCHANGED <<request, terms, taken, kept>>
  BY DEF FinishGeneration
<1>2. request \in Requests /\ Acceptable(request)
  BY <1>1 DEF SoFar, Begun
<1>3. kept \in Seq(Nat \ {0}) /\ Len(kept) \in Nat /\ Len(terms) \in Nat /\ MaxTerms \in Nat
  BY MaxTermsAssumption DEF SoFar, TypeOK
<1>4. Len(kept) <= MaxTerms
  <2>1. CASE Recurs
    <3>1. Len(terms) \in 3 .. MaxTerms + 1 /\ Len(kept) < Len(terms)
      BY <1>1, <1>3, <2>1 DEF SoFar, TermsSoFar, KeptSoFar
    <3> QED
      BY <1>3, <3>1
  <2>2. CASE ~Recurs
    <3>1. Len(terms) <= MaxTerms /\ Len(kept) <= Len(terms)
      BY <1>1, <1>3, <2>2 DEF SoFar, TermsSoFar, KeptSoFar
    <3> QED
      BY <1>3, <3>1
  <2> QED
    BY <2>1, <2>2
<1>5. /\ \A i, j \in DOMAIN kept : i # j => kept[i] # kept[j]
      /\ MembersWithinSpec(request.spec, kept)
  BY <1>1 DEF SoFar, KeptSoFar
<1>6. Accepts(a)
  BY <1>1, <1>2, <1>3, <1>4, <1>5, KeptAreAccepted
<1>7. /\ pc' = "made" /\ artifact' = a /\ origin' = "generation" /\ UNCHANGED edits
  BY <1>1, <1>6 DEF Construct, Refuse, Stored
<1>8. /\ a.role \in Roles /\ a.spec.grain \in Nat \ {0} /\ a.members \in Seq(Nat)
      /\ a.spec.kind \in {"metallic_recurrence", "log_spaced"}
  BY <1>2, <1>3, AcceptableRequests
<1> HIDE DEF a
<1> QED
  BY <1>1, <1>6, <1>7, <1>8
     DEF SoFar, TypeOK, Begun, TermsSoFar, KeptSoFar, ScheduleSoFar, RuleSoFar,
         OwnConstructorAccepts, Ruled

-----------------------------------------------------------------------------
(* What is stated, registered or resolved.                                 *)

LEMMA StateSoFar ==
  ASSUME SoFar, NEW a \in Given, State(a)
  PROVE  SoFar'
<1>1. /\ pc = "idle" /\ Construct(a, "statement") /\ UNCHANGED <<request, terms, taken, kept>>
  BY DEF State
<1>2. CASE Refuse("statement")
  BY <1>1, <1>2, RefuseSoFar
<1>3. CASE ~Refuse("statement")
  <2>1. /\ pc' = "made" /\ artifact' = a /\ origin' = "statement" /\ Accepts(a)
        /\ UNCHANGED edits
    BY <1>1, <1>3 DEF Construct, Stored
  <2>2. a.role \in Roles /\ a.spec.kind \in KindsOf(a.role)
    BY SchedulesAssumption DEF IsArtifact
  <2>3. ASSUME a.role = "windows", a.spec.kind # "explicit"
        PROVE  /\ a.spec.kind \in {"metallic_recurrence", "log_spaced"}
               /\ a.members \in Seq(Nat) /\ a.spec.grain \in Nat \ {0}
    <3>1. a.spec.kind \in {"metallic_recurrence", "log_spaced"}
      BY <2>2, <2>3 DEF KindsOf
    <3>2. a.members \in Seq(Nat) /\ a.spec.grain \in Nat
      <4>1. IsSpec(a.role, a.spec) /\ a.members \in Seq(Nat)
        BY <2>3, SchedulesAssumption DEF IsArtifact
      <4> QED
        BY <3>1, <4>1 DEF IsSpec, MetallicSpecs, LogSpacedSpecs
    <3>3. a.spec.grain > 0
      BY <2>1, <3>1 DEF Accepts, Constructible, MetallicSpec, LogSpacedSpec
    <3> QED
      BY <3>1, <3>2, <3>3
  <2> QED
    BY <1>1, <2>1, <2>2, <2>3
       DEF SoFar, TypeOK, Begun, TermsSoFar, KeptSoFar, ScheduleSoFar, RuleSoFar,
           OwnConstructorAccepts, Ruled
<1> QED
  BY <1>2, <1>3

(* The registered schedule is one the constructor takes.                   *)
LEMMA ElevenDistinct ==
  ASSUME NEW list \in [1 .. 11 -> Nat \ {0}],
         \A i, j \in 1 .. 11 : i # j => list[i] # list[j], MaxTerms >= 11
  PROVE  ResolvedList(list)
<1>1. Len(list) = 11 /\ DOMAIN list = 1 .. 11
  OBVIOUS
<1>2. \A i \in 1 .. 11 : list[i] \in Nat \ {0}
  OBVIOUS
<1>3. \A i \in 1 .. 11 : list[i] > 0
  BY <1>2
<1>4. list # <<>>
  <2>1. DOMAIN <<>> = {} /\ 1 \in 1 .. 11
    OBVIOUS
  <2> QED
    BY <1>1, <2>1
<1> QED
  BY <1>1, <1>3, <1>4 DEF ResolvedList

LEMMA NamedSoFar ==
  ASSUME SoFar, NamedSchedule
  PROVE  SoFar'
<1> DEFINE list == [i \in DOMAIN MetallicLegacy2025 |-> 60 * MetallicLegacy2025[i]]
           a == [role |-> "windows",
                 spec |-> [kind |-> "explicit", name |-> "metallic-legacy-2025"],
                 members |-> list]
<1>1. pc = "idle" /\ Construct(a, "registry") /\ UNCHANGED <<request, terms, taken, kept>>
  BY DEF NamedSchedule
<1>2. ResolvedList(list)
  <2>1. DOMAIN MetallicLegacy2025 = 1 .. 11 /\ Len(MetallicLegacy2025) = 11
    BY DEF MetallicLegacy2025
  <2>2. \A i \in 1 .. 11 : MetallicLegacy2025[i] \in Nat \ {0}
    BY DEF MetallicLegacy2025
  <2>3. \A i, j \in 1 .. 11 : i < j => MetallicLegacy2025[i] < MetallicLegacy2025[j]
    BY DEF MetallicLegacy2025
  <2>4. list \in [1 .. 11 -> Nat \ {0}]
    BY <2>1, <2>2
  <2>6. \A i, j \in 1 .. 11 : i # j => list[i] # list[j]
    <3>1. ASSUME NEW i \in 1 .. 11, NEW j \in 1 .. 11, i < j PROVE list[i] # list[j]
      <4>1. MetallicLegacy2025[i] < MetallicLegacy2025[j]
        BY <2>3, <3>1
      <4>2. list[i] = 60 * MetallicLegacy2025[i] /\ list[j] = 60 * MetallicLegacy2025[j]
        BY <2>1
      <4> QED
        BY <2>2, <4>1, <4>2
    <3>2. ASSUME NEW i \in 1 .. 11, NEW j \in 1 .. 11, i # j PROVE list[i] # list[j]
      <4>1. i < j \/ j < i
        BY <3>2
      <4> QED
        BY <3>1, <4>1
    <3> QED
      BY <3>2
  <2>7. MaxTerms >= 11
    BY <2>1, SchedulesAssumption
  <2> HIDE DEF list
  <2> QED
    BY <2>4, <2>6, <2>7, ElevenDistinct
<1> HIDE DEF list
<1>3. Accepts(a)
  BY <1>2 DEF Accepts, Constructible, ScheduleAccepts, KeepsItsSpec
<1>4. /\ pc' = "made" /\ artifact' = a /\ origin' = "registry" /\ UNCHANGED edits
  BY <1>1, <1>3 DEF Construct, Refuse, Stored
<1>5. a.role \in Roles /\ a.spec.kind = "explicit"
  BY DEF Roles
<1> HIDE DEF a
<1> QED
  BY <1>1, <1>4, <1>5
     DEF SoFar, TypeOK, Begun, TermsSoFar, KeptSoFar, ScheduleSoFar, RuleSoFar,
         OwnConstructorAccepts, Ruled

(* The rule of a list that a constructor took is taken too.                *)
LEMMA RulesAreAccepted ==
  ASSUME NEW windows \in Seq(Nat), NEW spec, RuleSpec(spec),
         Pairable(windows, spec), ResolvedList(windows)
  PROVE  Accepts(RuleFor(windows, spec))
<1> DEFINE rule == RuleFor(windows, spec)
           pairs == rule.members
<1>1. /\ rule.role = "pairs" /\ rule.spec = spec /\ DOMAIN pairs = DOMAIN windows
      /\ \A i \in DOMAIN windows : /\ pairs[i].window = windows[i]
                                  /\ pairs[i].emit = ResolveEmit(windows[i], spec)
  BY DEF RuleFor
<1>2. \A i \in DOMAIN windows : windows[i] \in Nat
  OBVIOUS
<1>3. WOverKSpec(spec) /\ \A i \in DOMAIN windows : ResolveEmit(windows[i], spec) # NoCadence
  BY DEF Pairable
<1>4. \A i \in DOMAIN windows : /\ ResolveEmit(windows[i], spec) \in spec.allowed
                               /\ ResolveEmit(windows[i], spec) \in Nat \ {0}
  BY <1>2, <1>3, EmitServes
<1> HIDE DEF rule, pairs
<1>5. \A i \in DOMAIN pairs : pairs[i].emit > 0 /\ pairs[i].emit \in spec.allowed
  BY <1>1, <1>4
<1>6. [i \in DOMAIN pairs |-> pairs[i].window] = windows
  <2>1. windows = [i \in DOMAIN windows |-> windows[i]]
    OBVIOUS
  <2> QED
    BY <1>1, <2>1
<1>7. RuleAccepts(spec, pairs)
  BY <1>5, <1>6 DEF RuleAccepts
<1>8. Constructible("pairs", spec)
  BY <1>3 DEF Constructible, RuleSpec
<1>9. rule.members = pairs
  BY DEF pairs
<1> QED
  BY <1>1, <1>7, <1>8, <1>9 DEF Accepts, rule

LEMMA RuleStepSoFar ==
  ASSUME SoFar, NEW windows \in Seq(Nat), NEW spec, RuleSpec(spec),
         NEW how \in {"rule", "own rule"}, ResolveRule(windows, spec, how),
         pc \in {"idle", "made"},
         how = "own rule" =>
           /\ ResolvedList(windows)
           /\ spec.allowed = ToSet(windows)
           /\ \A i \in DOMAIN windows : windows[i] % spec.source = 0
  PROVE  SoFar'
<1>1. /\ request'.windows = windows /\ request'.spec = spec
      /\ UNCHANGED <<terms, taken, kept>>
  BY DEF ResolveRule
<1>2. CASE Pairable(windows, spec) /\ Construct(RuleFor(windows, spec), how)
  <2>1. CASE Accepts(RuleFor(windows, spec))
    <3>1. /\ pc' = "made" /\ artifact' = RuleFor(windows, spec) /\ origin' = how
          /\ UNCHANGED edits
      BY <1>2, <2>1 DEF Construct, Stored, Refuse
    <3>2. RuleFor(windows, spec).role = "pairs"
      BY DEF RuleFor
    <3> QED
      BY <1>1, <1>2, <3>1, <3>2
         DEF SoFar, TypeOK, Begun, TermsSoFar, KeptSoFar, ScheduleSoFar, RuleSoFar,
             OwnConstructorAccepts, Ruled, Roles
  <2>2. CASE ~Accepts(RuleFor(windows, spec))
    <3>1. Refuse(how) /\ how = "rule"
      BY <1>2, <2>2, RulesAreAccepted DEF Construct
    <3> QED
      BY <1>1, <3>1, RefuseSoFar
  <2> QED
    BY <2>1, <2>2
<1>3. CASE ~Pairable(windows, spec) /\ Refuse("no cadence")
  BY <1>1, <1>3
     DEF Refuse, SoFar, TypeOK, Begun, TermsSoFar, KeptSoFar, ScheduleSoFar, RuleSoFar,
         OwnConstructorAccepts, Ruled
<1> QED
  BY <1>2, <1>3 DEF ResolveRule

LEMMA AskRuleSoFar ==
  ASSUME SoFar, NEW r \in RuleRequests, AskRule(r)
  PROVE  SoFar'
<1>1. r.windows \in Seq(Nat) /\ RuleSpec(r.spec)
  BY SchedulesAssumption DEF RuleSpec, WOverKSpecs
<1> QED
  BY <1>1, RuleStepSoFar DEF AskRule

LEMMA OwnRuleSoFar ==
  ASSUME SoFar, NEW k \in Divisors, PairWithItself(k)
  PROVE  SoFar'
<1> DEFINE spec == [kind |-> "w_over_k", divisor |-> k,
                    allowed |-> ToSet(artifact.members), source |-> artifact.spec.grain]
<1>1. /\ pc = "made" /\ artifact.role = "windows" /\ artifact.spec.kind # "explicit"
      /\ ResolveRule(artifact.members, spec, "own rule")
  BY DEF PairWithItself
<1>2. /\ Accepts(artifact) /\ artifact.spec.kind \in {"metallic_recurrence", "log_spaced"}
      /\ artifact.members \in Seq(Nat) /\ artifact.spec.grain \in Nat \ {0}
  BY <1>1 DEF SoFar, ScheduleSoFar
<1>3. k \in Nat
  BY SchedulesAssumption
<1>4. ToSet(artifact.members) \in SUBSET Nat
  BY <1>2 DEF ToSet
<1>5. RuleSpec(spec)
  BY <1>2, <1>3, <1>4 DEF RuleSpec
<1>6. /\ ResolvedList(artifact.members)
      /\ \A i \in DOMAIN artifact.members : artifact.members[i] % artifact.spec.grain = 0
  BY <1>1, <1>2 DEF Accepts, ScheduleAccepts, KeepsItsSpec, MembersWithinSpec
<1>7. spec.allowed = ToSet(artifact.members) /\ spec.source = artifact.spec.grain
  OBVIOUS
<1> HIDE DEF spec
<1> QED
  BY <1>1, <1>2, <1>5, <1>6, <1>7, RuleStepSoFar

-----------------------------------------------------------------------------
(* The theorems.                                                           *)

LEMMA NextSoFar == SoFar /\ [Next]_vars => SoFar'
<1> SUFFICES ASSUME SoFar, [Next]_vars PROVE SoFar'
  OBVIOUS
<1>1. CASE UNCHANGED vars
  BY <1>1, StutterSoFar
<1>2. ASSUME NEW r \in Requests,
             \/ MetallicRecurrence(r) \/ MetallicHorizons(r) \/ MetallicLookback(r)
             \/ LogSpaced(r) \/ LogSpacedHorizons(r) \/ LogSpacedLookback(r)
      PROVE  SoFar'
  <2>1. RefuseRequest(r) \/ BeginRecurrence(r) \/ PlacePoints(r)
    BY <1>2 DEF MetallicRecurrence, MetallicHorizons, MetallicLookback,
                LogSpaced, LogSpacedHorizons, LogSpacedLookback
  <2>2. CASE RefuseRequest(r)
    BY <2>2, RefuseSoFar DEF RefuseRequest
  <2> QED
    BY <2>1, <2>2, BeginSoFar
<1>3. CASE Generate
  <2>1. CASE RefuseSlowGrowth \/ RefuseNothingLeft \/ RefuseAllExcluded
    BY <2>1, RefuseSoFar DEF RefuseSlowGrowth, RefuseNothingLeft, RefuseAllExcluded
  <2> QED
    BY <1>3, <2>1, TermSoFar, ValueSoFar, FinishSoFar DEF Generate
<1>4. ASSUME NEW a \in Given,
             \/ Explicit(a) \/ ExplicitHorizons(a) \/ ExplicitLookback(a) \/ ExplicitPairs(a)
             \/ BuildByHand(a)
      PROVE  SoFar'
  <2>1. State(a)
    BY <1>4 DEF Explicit, ExplicitHorizons, ExplicitLookback, ExplicitPairs, BuildByHand
  <2> QED
    BY <2>1, StateSoFar
<1>5. CASE \/ Respell \/ RestateRatio \/ Change
  <2>1. \E kind \in EditKinds : \E S : Edit(kind, S)
    BY <1>5 DEF Respell, RestateRatio, Change, EditKinds
  <2> QED
    BY <2>1, WriteSoFar
<1>6. CASE \/ WindowScheduleFromDict \/ HorizonScheduleFromDict
           \/ LookbackScheduleFromDict \/ CadenceRuleFromDict
  <2>1. \E role \in Roles : FromDict(role)
    BY <1>6 DEF WindowScheduleFromDict, HorizonScheduleFromDict, LookbackScheduleFromDict,
                CadenceRuleFromDict, Roles
  <2> QED
    BY <2>1, WriteSoFar
<1> QED
  BY <1>1, <1>2, <1>3, <1>4, <1>5, <1>6, NamedSoFar, AskRuleSoFar, OwnRuleSoFar, WriteSoFar
     DEF Next

LEMMA ScheduleInvariant == Spec => []SoFar
BY InitSoFar, NextSoFar, PTL DEF Spec

(* Whatever is asked for, progress and what the caller has are of their    *)
(* types: nothing kept is zero, and no more values are resolved than were  *)
(* generated.                                                              *)
THEOREM TypeCorrect == Spec => []TypeOK
<1>1. SoFar => TypeOK
  BY DEF SoFar
<1> QED
  BY <1>1, ScheduleInvariant, PTL

(* No constructor refuses what the library's own generators, registry and  *)
(* rules hand to it, at any cap: the term past the maximum is made up for  *)
(* by the seed, which comes twice.                                         *)
THEOREM ConstructorsAgree == Spec => []OwnConstructorAccepts
<1>1. SoFar => OwnConstructorAccepts
  BY DEF SoFar
<1> QED
  BY <1>1, ScheduleInvariant, PTL

(* What a resolved rule is, in the terms of the theorems below.            *)
LEMMA RuledPairs ==
  ASSUME SoFar, Ruled
  PROVE  /\ RuleSpec(artifact.spec) /\ WOverKSpec(artifact.spec)
         /\ artifact.spec = request.spec
         /\ DOMAIN artifact.members = DOMAIN request.windows
         /\ \A i \in DOMAIN artifact.members :
              /\ artifact.members[i].window \in Nat \ {0}
              /\ artifact.members[i].window = request.windows[i]
              /\ artifact.members[i].emit =
                    ResolveEmit(artifact.members[i].window, artifact.spec)
              /\ ResolveEmit(artifact.members[i].window, artifact.spec) # NoCadence
<1>1. /\ request.windows \in Seq(Nat) /\ RuleSpec(request.spec)
      /\ Pairable(request.windows, request.spec)
      /\ artifact = RuleFor(request.windows, request.spec)
  BY DEF SoFar, RuleSoFar
<1>2. /\ artifact.spec = request.spec
      /\ DOMAIN artifact.members = DOMAIN request.windows
      /\ \A i \in DOMAIN request.windows :
           /\ artifact.members[i].window = request.windows[i]
           /\ artifact.members[i].emit = ResolveEmit(request.windows[i], request.spec)
  BY <1>1 DEF RuleFor
<1>3. /\ WOverKSpec(request.spec)
      /\ \A i \in DOMAIN request.windows :
           request.windows[i] > 0 /\ ResolveEmit(request.windows[i], request.spec) # NoCadence
  BY <1>1 DEF Pairable
<1>4. \A i \in DOMAIN request.windows : request.windows[i] \in Nat
  BY <1>1
<1> QED
  BY <1>1, <1>2, <1>3, <1>4

(* Every window of every rule emits at the promised cadence, and a rule is *)
(* refused only for want of one.                                           *)
THEOREM EmitsAreThePromised == Spec => []EmitIsPromised
<1>1. SoFar => EmitIsPromised
  <2> SUFFICES ASSUME SoFar PROVE EmitIsPromised
    OBVIOUS
  <2>1. ASSUME Ruled, NEW i \in DOMAIN artifact.members
        PROVE  LET pair == artifact.members[i]
                   spec == artifact.spec
                   fit == {a \in KeptUpWith(spec) : a * spec.divisor <= pair.window}
               IN  /\ pair.emit \in KeptUpWith(spec)
                   /\ pair.emit = IF fit # {} THEN Max(fit) ELSE Min(KeptUpWith(spec))
    <3> DEFINE spec == artifact.spec
               window == artifact.members[i].window
    <3>1. /\ RuleSpec(spec) /\ WOverKSpec(spec) /\ window \in Nat
          /\ artifact.members[i].emit = ResolveEmit(window, spec)
          /\ ResolveEmit(window, spec) # NoCadence
      BY <2>1, RuledPairs
    <3> HIDE DEF spec, window
    <3>2. /\ KeptUpWith(spec) # {} /\ artifact.members[i].emit \in KeptUpWith(spec)
      BY <3>1, EmitServes
    <3>3. artifact.members[i].emit =
            IF Fit(window, spec) # {} THEN Max(Fit(window, spec)) ELSE Min(KeptUpWith(spec))
      BY <3>1, <3>2, ResolveEmitMeans
    <3> QED
      BY <3>2, <3>3 DEF Fit, spec, window
  <2>2. ASSUME origin = "no cadence", WOverKSpec(request.spec),
               \A i \in DOMAIN request.windows : request.windows[i] > 0
        PROVE  KeptUpWith(request.spec) = {}
    <3>1. /\ request.windows \in Seq(Nat) /\ RuleSpec(request.spec)
          /\ ~Pairable(request.windows, request.spec)
      BY <2>2 DEF SoFar, RuleSoFar
    <3>2. PICK i \in DOMAIN request.windows :
            ResolveEmit(request.windows[i], request.spec) = NoCadence
      BY <2>2, <3>1 DEF Pairable
    <3> DEFINE window == request.windows[i]
    <3>3. window \in Nat
      BY <3>1
    <3>4. ResolveEmit(window, request.spec) = NoCadence
      BY <3>2
    <3> HIDE DEF window
    <3>5. SUFFICES ASSUME KeptUpWith(request.spec) # {} PROVE FALSE
      OBVIOUS
    <3>6. Fit(window, request.spec) \in SUBSET Nat
          /\ \A a \in Fit(window, request.spec) : a <= window
      BY <2>2, <3>1, <3>3, RatioIsBounded
    <3>7. KeptUpWith(request.spec) \in SUBSET Nat
      BY <3>1 DEF RuleSpec, KeptUpWith
    <3>8. ResolveEmit(window, request.spec) \in Nat
      BY <2>2, <3>1, <3>3, <3>5, <3>6, <3>7, ResolveEmitMeans, MinIsLeast, MaxIsGreatest, ZenonT(60)
    <3> QED
      BY <3>4, <3>8 DEF NoCadence
  <2> QED
    BY <2>1, <2>2 DEF EmitIsPromised
<1> QED
  BY <1>1, ScheduleInvariant, PTL

(* In every rule a longer window emits at the same cadence or a slower one.*)
THEOREM EmitsGrow == Spec => []EmitGrowsWithTheWindow
<1>1. SoFar => EmitGrowsWithTheWindow
  <2> SUFFICES ASSUME SoFar, Ruled,
                      NEW i \in DOMAIN artifact.members, NEW j \in DOMAIN artifact.members,
                      artifact.members[i].window <= artifact.members[j].window
               PROVE  artifact.members[i].emit <= artifact.members[j].emit
    BY DEF EmitGrowsWithTheWindow
  <2> DEFINE short == artifact.members[i].window
             long == artifact.members[j].window
             spec == artifact.spec
  <2>1. /\ RuleSpec(spec) /\ WOverKSpec(spec) /\ short \in Nat /\ long \in Nat /\ short <= long
        /\ artifact.members[i].emit = ResolveEmit(short, spec)
        /\ artifact.members[j].emit = ResolveEmit(long, spec)
        /\ ResolveEmit(short, spec) # NoCadence
    BY RuledPairs
  <2> HIDE DEF short, long, spec
  <2>2. KeptUpWith(spec) # {}
    BY <2>1, EmitServes
  <2> QED
    BY <2>1, <2>2, EmitIsMonotone
<1> QED
  BY <1>1, ScheduleInvariant, PTL

(* A phase reduced by a multiple of the grain keeps its place on the grain.*)
LEMMA AnchorIsOnTheGrain ==
  ASSUME NEW grain \in Nat \ {0}, NEW emit \in Nat \ {0}, emit % grain = 0, NEW phase \in Nat
  PROVE  ((phase % emit) - phase) % grain = 0
<1>1. PICK k \in Int : emit = grain * k
  BY NoRemainderIsMultiple
<1> DEFINE q == phase \div emit
<1>2. q \in Int /\ phase = emit * q + (phase % emit) /\ phase % emit \in Int
  OBVIOUS
<1> HIDE DEF q
<1>3. (phase % emit) - phase = -(emit * q)
  BY <1>2
<1>4. -(emit * q) = grain * (-(k * q)) /\ -(k * q) \in Int
  BY <1>1, <1>2
<1> QED
  BY <1>3, <1>4, MultipleHasNoRemainder

(* So the engine takes a pair of multiples of the source cadence.          *)
LEMMA MultiplesAreResolvable ==
  ASSUME NEW grain \in Nat \ {0}, NEW window \in Nat \ {0}, NEW emit \in Nat \ {0},
         window % grain = 0, emit % grain = 0, NEW phase \in 0 .. grain - 1
  PROVE  Engine!Resolvable([window |-> window, emit |-> emit, cadence |-> grain,
                            phase |-> phase, anchor |-> phase])
<1>1. phase \in Nat
  OBVIOUS
<1>2. ((phase % emit) - phase) % grain = 0
  BY <1>1, AnchorIsOnTheGrain
<1>3. emit >= grain /\ window >= grain
  BY PositiveMultiple
<1> QED
  BY <1>2, <1>3 DEF Engine!Resolvable

(* The window engine takes every pair that a schedule with a grain makes   *)
(* with itself, at any cap, grain and phase.                               *)
THEOREM PairsAreResolvable == Spec => []PairsResolve
<1>1. SoFar => PairsResolve
  <2> SUFFICES ASSUME SoFar, pc = "made", origin = "own rule" PROVE PairsResolve
    BY DEF PairsResolve
  <2> DEFINE spec == artifact.spec
             grain == spec.source
             pairs == artifact.members
  <2>1. Ruled
    BY DEF Ruled
  <2>2. /\ RuleSpec(spec) /\ WOverKSpec(spec) /\ spec = request.spec
        /\ \A i \in DOMAIN pairs :
             /\ i \in DOMAIN request.windows
             /\ pairs[i].window \in Nat \ {0} /\ pairs[i].window = request.windows[i]
             /\ pairs[i].emit = ResolveEmit(pairs[i].window, spec)
             /\ ResolveEmit(pairs[i].window, spec) # NoCadence
    BY <2>1, RuledPairs
  <2>3. /\ spec.allowed = ToSet(request.windows)
        /\ \A k \in DOMAIN request.windows : request.windows[k] % grain = 0
    BY <2>1, <2>2 DEF SoFar, RuleSoFar
  <2> HIDE DEF spec, pairs
  <2>4. grain \in Nat \ {0}
    BY <2>2, SourceIsPositive
  <2>5. \A i \in DOMAIN pairs : pairs[i].emit \in spec.allowed /\ pairs[i].emit \in Nat \ {0}
    <3>1. RuleSpec(spec) /\ WOverKSpec(spec)
      BY <2>2
    <3>2. \A i \in DOMAIN pairs :
            /\ pairs[i].window \in Nat
            /\ pairs[i].emit = ResolveEmit(pairs[i].window, spec)
            /\ ResolveEmit(pairs[i].window, spec) # NoCadence
      BY <2>2
    <3> QED
      BY <3>1, <3>2, EmitServes
  <2>6. \A a \in spec.allowed : a % grain = 0
    BY <2>3 DEF ToSet
  <2> HIDE DEF grain
  <2>7. \A i \in DOMAIN pairs : \A phase \in 0 .. grain - 1 :
          Engine!Resolvable([window |-> pairs[i].window, emit |-> pairs[i].emit,
                             cadence |-> grain, phase |-> phase, anchor |-> phase])
    BY <2>2, <2>3, <2>4, <2>5, <2>6, MultiplesAreResolvable
  <2> QED
    BY <2>7 DEF PairsResolve, spec, grain, pairs
<1> QED
  BY <1>1, ScheduleInvariant, PTL


-----------------------------------------------------------------------------
(* Rationals in order, and rounding that keeps the order.                  *)

(* The order of the rationals.                                             *)
AtMost(x, y) == x.num * y.den <= y.num * x.den

(* A positive factor cancels.                                              *)
LEMMA Cancelled ==
  ASSUME NEW k \in Nat \ {0}, NEW x \in Int, NEW y \in Int, k * x <= k * y
  PROVE  x <= y
<1> SUFFICES ASSUME x - y \in Nat \ {0} PROVE FALSE
  OBVIOUS
<1> DEFINE d == x - y
<1>1. d \in Nat \ {0} /\ k * d = k * x - k * y
  OBVIOUS
<1> HIDE DEF d
<1>2. k * d >= k
  BY <1>1
<1> QED
  BY <1>1, <1>2

(* A natural factor keeps the order.                                       *)
LEMMA Scaled ==
  ASSUME NEW k \in Nat, NEW x \in Int, NEW y \in Int, x <= y
  PROVE  k * x <= k * y
<1> DEFINE d == y - x
<1>1. d \in Nat /\ k * d = k * y - k * x
  OBVIOUS
<1> HIDE DEF d
<1>2. k * d \in Nat
  BY <1>1
<1> QED
  BY <1>1, <1>2

(* Where a number is not above another, neither is its whole part, and     *)
(* where those are the same, neither is what is left.                      *)
LEMMA WholeParts ==
  ASSUME NEW u \in Nat \ {0}, NEW v \in Nat \ {0},
         NEW p \in Nat, NEW q \in Nat, NEW r \in 0 .. u - 1, NEW s \in 0 .. v - 1,
         (u * p + r) * v <= (v * q + s) * u
  PROVE  p <= q /\ (p = q => r * v <= s * u)
<1> DEFINE uv == u * v
<1>1. /\ uv \in Nat \ {0} /\ (u * p + r) * v = uv * p + r * v
      /\ (v * q + s) * u = uv * q + s * u
  OBVIOUS
<1>2. r * v \in Nat /\ s * u \in Nat /\ s * u < uv
  <2>1. v - s \in Nat \ {0} /\ s \in Nat /\ r \in Nat
    OBVIOUS
  <2>2. uv - s * u = u * (v - s)
    BY <2>1
  <2>3. u * (v - s) \in Nat \ {0}
    BY <2>1
  <2> QED
    BY <1>1, <2>1, <2>2, <2>3
<1> HIDE DEF uv
<1>3. p <= q
  <2> SUFFICES ASSUME p - q \in Nat \ {0} PROVE FALSE
    OBVIOUS
  <2> DEFINE d == p - q
  <2>1. d \in Nat \ {0} /\ uv * p = uv * q + uv * d
    BY <1>1
  <2> HIDE DEF d
  <2>2. uv * d >= uv /\ uv * q \in Nat
    BY <1>1, <2>1
  <2> QED
    BY <1>1, <1>2, <2>1, <2>2
<1>4. p = q => r * v <= s * u
  <2>1. uv * q \in Nat
    BY <1>1
  <2> QED
    BY <1>1, <1>2, <2>1
<1> QED
  BY <1>3, <1>4

(* What is left of the lesser reaches half only if the other does.         *)
LEMMA HalvesInOrder ==
  ASSUME NEW u \in Nat \ {0}, NEW v \in Nat \ {0},
         NEW r \in Nat, NEW s \in Nat, r * v <= s * u, 2 * r >= u
  PROVE  2 * s >= v /\ (2 * s = v => 2 * r = u)
<1> DEFINE uv == u * v
<1>1. /\ v * u = uv /\ u * v = uv /\ u * (2 * s) = 2 * (s * u) /\ v * (2 * r) = 2 * (r * v)
      /\ s * u \in Nat /\ r * v \in Nat /\ uv \in Nat
      /\ 2 * r \in Int /\ 2 * s \in Int
  OBVIOUS
<1>2. v * u <= v * (2 * r)
  <2>1. v \in Nat /\ u \in Int /\ 2 * r \in Int /\ u <= 2 * r
    OBVIOUS
  <2> QED
    BY <2>1, Scaled
<1> HIDE DEF uv
<1>3. u * v <= u * (2 * s)
  BY <1>1, <1>2
<1>4. v <= 2 * s
  BY <1>1, <1>3, Cancelled
<1>5. ASSUME 2 * s = v PROVE 2 * r = u
  <2>1. u * (2 * s) = uv
    BY <1>1, <1>5
  <2>2. v * (2 * r) <= v * u
    BY <1>1, <2>1
  <2>3. 2 * r <= u
    BY <1>1, <2>2, Cancelled
  <2> QED
    BY <1>1, <2>3
<1> QED
  BY <1>1, <1>4, <1>5

(* A number is its whole part and what is left.                            *)
LEMMA WholeAndRest ==
  ASSUME NEW n \in Nat, NEW m \in Nat \ {0}
  PROVE  n \div m \in Nat /\ n % m \in 0 .. m - 1 /\ n = m * (n \div m) + (n % m)
OBVIOUS

(* Under either rule, rounding to the grid keeps the order.                *)
LEMMA QuantizeIsMonotone ==
  ASSUME NEW x \in Rational, NEW y \in Rational, AtMost(x, y),
         NEW grain \in Nat \ {0}, NEW rounding
  PROVE  Quantize(x, grain, rounding) <= Quantize(y, grain, rounding)
<1> DEFINE u == x.den * grain
           v == y.den * grain
           p == x.num \div u
           q == y.num \div v
           r == x.num % u
           s == y.num % v
           up == RoundsUp(x, grain, rounding)
           vp == RoundsUp(y, grain, rounding)
<1>1. x.num \in Nat /\ x.den \in Nat \ {0} /\ y.num \in Nat /\ y.den \in Nat \ {0}
  BY DEF Rational
<1>2. u \in Nat \ {0} /\ v \in Nat \ {0} /\ x.num * v <= y.num * u
  <2> DEFINE a == x.num * y.den
             b == y.num * x.den
  <2>1. a \in Int /\ b \in Int /\ a <= b
    BY <1>1 DEF AtMost
  <2>2. x.num * v = grain * a /\ y.num * u = grain * b
    BY <1>1
  <2> HIDE DEF a, b, u, v
  <2>3. grain * a <= grain * b
    BY <2>1, Scaled
  <2>4. u \in Nat \ {0} /\ v \in Nat \ {0}
    BY <1>1 DEF u, v
  <2> QED
    BY <2>2, <2>3, <2>4
<1>3. /\ up <=> 2 * r > u \/ (2 * r = u /\ (rounding = "nearest_ties_away" \/ p % 2 = 1))
      /\ vp <=> 2 * s > v \/ (2 * s = v /\ (rounding = "nearest_ties_away" \/ q % 2 = 1))
  BY DEF RoundsUp
<1>4. /\ Quantize(x, grain, rounding) = grain * (IF up THEN p + 1 ELSE p)
      /\ Quantize(y, grain, rounding) = grain * (IF vp THEN q + 1 ELSE q)
  BY DEF Quantize
<1> HIDE DEF u, v
<1>5. /\ p \in Nat /\ r \in 0 .. u - 1 /\ x.num = u * p + r
      /\ q \in Nat /\ s \in 0 .. v - 1 /\ y.num = v * q + s
  BY <1>1, <1>2, WholeAndRest
<1> HIDE DEF p, q, r, s, up, vp
<1>6. p <= q /\ (p = q => r * v <= s * u)
  BY <1>2, <1>5, WholeParts
<1>7. ASSUME p = q, up PROVE vp
  <2>1. r \in Nat /\ s \in Nat /\ r * v <= s * u /\ 2 * r >= u
    BY <1>2, <1>3, <1>5, <1>6, <1>7
  <2>2. 2 * s >= v /\ (2 * s = v => 2 * r = u)
    BY <1>2, <2>1, HalvesInOrder
  <2> QED
    BY <1>2, <1>3, <1>7, <2>1, <2>2
<1> DEFINE k == IF up THEN p + 1 ELSE p
           l == IF vp THEN q + 1 ELSE q
<1>8. k \in Int /\ l \in Int /\ k <= l
  BY <1>5, <1>6, <1>7
<1> HIDE DEF k, l
<1>9. grain * k <= grain * l
  BY <1>8, Scaled
<1> QED
  BY <1>4, <1>9 DEF k, l

(* A point of the grid rounds to itself.                                   *)
LEMMA QuantizeKeepsTheGrid ==
  ASSUME NEW n \in Nat, NEW grain \in Nat \ {0}, n % grain = 0, NEW rounding
  PROVE  Quantize(Whole(n), grain, rounding) = n
<1> DEFINE k == n \div grain
<1>1. k \in Nat /\ n = grain * k
  OBVIOUS
<1>2. /\ Whole(n).num = n /\ Whole(n).den = 1 /\ 1 * grain = grain
      /\ 2 * (n % grain) = 0 /\ grain # 0
  BY DEF Whole
<1>3. ~RoundsUp(Whole(n), grain, rounding)
  BY <1>2 DEF RoundsUp
<1> QED
  BY <1>1, <1>2, <1>3 DEF Quantize

(* The order is transitive.                                                *)
LEMMA AtMostIsTransitive ==
  ASSUME NEW x \in Rational, NEW y \in Rational, NEW z \in Rational,
         AtMost(x, y), AtMost(y, z)
  PROVE  AtMost(x, z)
<1> DEFINE a == x.num  b == x.den  c == y.num  d == y.den  e == z.num  f == z.den
<1>1. /\ a \in Nat /\ b \in Nat \ {0} /\ c \in Nat /\ d \in Nat \ {0}
      /\ e \in Nat /\ f \in Nat \ {0} /\ a * d <= c * b /\ c * f <= e * d
  BY DEF Rational, AtMost
<1> HIDE DEF a, b, c, d, e, f
<1>2. f * (a * d) <= f * (c * b) /\ b * (c * f) <= b * (e * d)
  <2>1. a * d \in Int /\ c * b \in Int /\ c * f \in Int /\ e * d \in Int
    BY <1>1
  <2> QED
    BY <1>1, <2>1, Scaled
<1>3. f * (a * d) = d * (a * f) /\ f * (c * b) = b * (c * f) /\ b * (e * d) = d * (e * b)
      /\ a * f \in Int /\ e * b \in Int /\ d * (a * f) \in Int /\ b * (c * f) \in Int
      /\ d * (e * b) \in Int
  BY <1>1
<1>4. d * (a * f) <= d * (e * b)
  BY <1>2, <1>3
<1>5. a * f <= e * b
  BY <1>1, <1>3, <1>4, Cancelled
<1> QED
  BY <1>5 DEF AtMost, a, b, e, f

-----------------------------------------------------------------------------
(* The recurrence, as far as it is asked for.                              *)

(* What Sequence is chosen to be.                                          *)
IsSequence(x, spec, reach) ==
  x = [n \in 1 .. reach |-> IF n <= 2 THEN Whole(spec.seed)
                            ELSE Following(spec.coefficient, x[n - 1], x[n - 2])]

(* There is one: the shortest reach without one would have its             *)
(* predecessor's and one term more.                                        *)
LEMMA SequencesExist ==
  ASSUME NEW spec, NEW reach \in Nat
  PROVE  \E x : IsSequence(x, spec, reach)
<1> DEFINE none == {n \in Nat : \A x : ~IsSequence(x, spec, n)}
<1> SUFFICES ASSUME none # {} PROVE FALSE
  OBVIOUS
<1>1. PICK n \in none : \A m \in none : n <= m
  <2>1. none \in SUBSET Nat
    OBVIOUS
  <2> HIDE DEF none
  <2> QED
    BY <2>1, LeastOfNat
<1>2. n # 0
  <2>1. IsSequence([k \in 1 .. 0 |-> 0], spec, 0)
    BY DEF IsSequence
  <2> QED
    BY <1>1, <2>1
<1>3. n - 1 \in Nat /\ n - 1 \notin none
  BY <1>1, <1>2
<1>4. PICK x : IsSequence(x, spec, n - 1)
  BY <1>3
<1> DEFINE last == IF n <= 2 THEN Whole(spec.seed)
                   ELSE Following(spec.coefficient, x[n - 1], x[n - 2])
           y == [k \in 1 .. n |-> IF k = n THEN last ELSE x[k]]
<1>5. DOMAIN x = 1 .. n - 1 /\ \A k \in 1 .. n - 1 :
        x[k] = IF k <= 2 THEN Whole(spec.seed) ELSE Following(spec.coefficient, x[k - 1], x[k - 2])
  BY <1>3, <1>4 DEF IsSequence
<1>6. ASSUME NEW k \in 1 .. n
      PROVE  y[k] = IF k <= 2 THEN Whole(spec.seed)
                    ELSE Following(spec.coefficient, y[k - 1], y[k - 2])
  <2>1. k # n => k \in 1 .. n - 1
    BY <1>1
  <2>2. k > 2 => k - 1 \in 1 .. n /\ k - 2 \in 1 .. n /\ k - 1 # n /\ k - 2 # n
    BY <1>1
  <2> QED
    BY <1>5, <2>1, <2>2
<1>7. IsSequence(y, spec, n)
  <2>1. y = [k \in 1 .. n |-> y[k]]
    OBVIOUS
  <2> HIDE DEF y
  <2> QED
    BY <1>6, <2>1 DEF IsSequence
<1> QED
  BY <1>1, <1>7

(* So Sequence has the recurrence's terms.                                 *)
LEMMA SequenceIs ==
  ASSUME NEW spec, NEW reach \in Nat
  PROVE  /\ DOMAIN Sequence(spec, reach) = 1 .. reach
         /\ \A n \in 1 .. reach :
              Sequence(spec, reach)[n] =
                IF n <= 2 THEN Whole(spec.seed)
                ELSE Following(spec.coefficient, Sequence(spec, reach)[n - 1],
                               Sequence(spec, reach)[n - 2])
<1>1. Sequence(spec, reach) = CHOOSE x : IsSequence(x, spec, reach)
  BY DEF Sequence, IsSequence
<1>2. IsSequence(Sequence(spec, reach), spec, reach)
  BY <1>1, SequencesExist
<1> DEFINE x == Sequence(spec, reach)
<1>3. IsSequence(x, spec, reach)
  BY <1>2
<1> HIDE DEF x
<1> QED
  BY <1>3 DEF IsSequence, x

-----------------------------------------------------------------------------
(* The recurrence never falls.                                             *)

(* Of two terms that follow one another, the later has a denominator that  *)
(* is a multiple m of the other's and is not the lesser, and the one that  *)
(* follows them is not the lesser either.                                  *)
FollowsBy(c, x, y, m) ==
  /\ y.den = m * x.den
  /\ m * x.num <= y.num
  /\ c.den * y.num <= c.num * y.num + c.den * m * x.num

(* The multiple is some positive number.                                   *)
Follows(c, x, y) == \E m \in Nat \ {0} : FollowsBy(c, x, y, m)

(* What follows is not the lesser.                                         *)
LEMMA FollowsIsAtMost ==
  ASSUME NEW c, NEW x \in Rational, NEW y \in Rational, Follows(c, x, y)
  PROVE  AtMost(x, y)
<1>1. PICK m \in Nat \ {0} : y.den = m * x.den /\ m * x.num <= y.num
  BY DEF Follows, FollowsBy
<1> DEFINE a == x.num  b == x.den  d == y.num
<1>2. a \in Nat /\ b \in Nat \ {0} /\ d \in Nat
  BY DEF Rational
<1>3. AtMost(x, y) <=> a * (m * b) <= d * b
  BY <1>1 DEF AtMost
<1>4. m * a <= d
  BY <1>1
<1> HIDE DEF a, b, d
<1>5. b * (m * a) <= b * d
  <2>1. m * a \in Int
    BY <1>1, <1>2
  <2> QED
    BY <1>2, <1>4, <2>1, Scaled
<1>6. b * (m * a) = a * (m * b) /\ b * d = d * b
  BY <1>1, <1>2
<1> QED
  BY <1>3, <1>5, <1>6

(* A new term follows the term before it.                                  *)
LEMMA FollowingFollows ==
  ASSUME NEW c \in Rational, NEW x \in Rational, NEW y \in Rational, Follows(c, x, y)
  PROVE  Follows(c, y, Following(c, y, x))
<1>1. PICK m \in Nat \ {0} : FollowsBy(c, x, y, m)
  BY DEF Follows
<1> DEFINE p == c.num  q == c.den  a == x.num  b == x.den  d == y.num  e == y.den
           z == p * d + q * m * a
<1>2. /\ p \in Nat /\ q \in Nat \ {0} /\ a \in Nat /\ b \in Nat \ {0}
      /\ d \in Nat /\ e \in Nat \ {0}
  BY DEF Rational
<1>3. e = m * b /\ m * a <= d /\ q * d <= z
  BY <1>1 DEF FollowsBy
<1>4. Following(c, y, x) = [num |-> p * d + q * (e \div b) * a, den |-> q * e]
  BY DEF Following
<1> HIDE DEF p, q, a, b, d, e
<1>5. e \div b = m
  BY <1>1, <1>2, <1>3
<1>6. Following(c, y, x).num = z /\ Following(c, y, x).den = q * e
  BY <1>4, <1>5
<1>7. z \in Nat /\ m * a \in Nat /\ q * d \in Nat
  BY <1>1, <1>2
<1>8. q * z <= p * z + q * q * d
  <2>1. q * z = p * (q * d) + q * (q * (m * a))
    BY <1>1, <1>2
  <2> HIDE DEF z
  <2>2. p * (q * d) <= p * z
    BY <1>2, <1>3, <1>7, Scaled
  <2>3. q * (m * a) <= q * d
    BY <1>2, <1>3, <1>7, Scaled
  <2>4. q * (m * a) \in Int /\ q * d \in Int
    BY <1>2, <1>7
  <2>5. q * (q * (m * a)) <= q * (q * d)
    BY <1>2, <2>3, <2>4, Scaled
  <2>6. /\ q * (q * d) = q * q * d /\ p * (q * d) \in Int /\ p * z \in Int
        /\ q * (q * (m * a)) \in Int /\ q * (q * d) \in Int
    BY <1>2, <1>7, <2>4
  <2> QED
    BY <2>1, <2>2, <2>5, <2>6
<1> HIDE DEF z
<1>9. FollowsBy(c, y, Following(c, y, x), q)
  BY <1>3, <1>6, <1>8 DEF FollowsBy, p, q, d, e
<1> QED
  BY <1>2, <1>9 DEF Follows

(* The second seed follows the first.                                      *)
LEMMA SeedsFollow ==
  ASSUME NEW c \in Rational, NEW n \in Nat
  PROVE  Whole(n) \in Rational /\ Follows(c, Whole(n), Whole(n))
<1>1. Whole(n) \in Rational /\ Whole(n).num = n /\ Whole(n).den = 1
  BY DEF Whole, Rational
<1> DEFINE p == c.num  q == c.den
<1>2. p \in Nat /\ q \in Nat \ {0} /\ c.num = p /\ c.den = q
  BY DEF Rational
<1> HIDE DEF p, q
<1>3. p * n \in Nat /\ q * n \in Nat /\ q * 1 * n = q * n
  BY <1>2
<1>4. FollowsBy(c, Whole(n), Whole(n), 1)
  BY <1>1, <1>2, <1>3 DEF FollowsBy
<1> QED
  BY <1>1, <1>4 DEF Follows

(* So the recurrence never falls. *)
LEMMA SequenceFollows ==
  ASSUME NEW spec, spec.coefficient \in Rational, spec.seed \in Nat, NEW reach \in Nat
  PROVE  LET x == Sequence(spec, reach) IN
         /\ \A n \in 1 .. reach : x[n] \in Rational
         /\ \A n \in 1 .. reach - 1 : Follows(spec.coefficient, x[n], x[n + 1])
<1> DEFINE x == Sequence(spec, reach)
           c == spec.coefficient
           seed == Whole(spec.seed)
           fine(n) == x[n] \in Rational /\ (n > 1 => Follows(c, x[n - 1], x[n]))
           bad == {n \in 1 .. reach : ~fine(n)}
<1>1. /\ DOMAIN x = 1 .. reach
      /\ \A n \in 1 .. reach : x[n] = IF n <= 2 THEN seed ELSE Following(c, x[n - 1], x[n - 2])
  BY SequenceIs
<1>2. seed \in Rational /\ Follows(c, seed, seed) /\ c \in Rational
  BY SeedsFollow
<1> HIDE DEF x, c, seed
<1>3. bad = {}
  <2> SUFFICES ASSUME bad # {} PROVE FALSE
    OBVIOUS
  <2>1. PICK n \in bad : \A m \in bad : n <= m
    <3>1. bad \in SUBSET Nat
      OBVIOUS
    <3> HIDE DEF bad
    <3> QED
      BY <3>1, LeastOfNat
  <2>2. n \in 1 .. reach /\ ~fine(n)
    BY <2>1
  <2>3. \A m \in 1 .. n - 1 : fine(m)
    <3> TAKE m \in 1 .. n - 1
    <3>1. m \in 1 .. reach /\ ~(n <= m)
      BY <2>2
    <3> QED
      BY <2>1, <3>1
  <2>4. CASE n <= 2
    <3>1. x[n] = seed /\ (n > 1 => x[n - 1] = seed)
      BY <1>1, <2>2, <2>4
    <3> QED
      BY <1>2, <2>2, <3>1
  <2>5. CASE n > 2
    <3>1. n - 1 \in 1 .. n - 1 /\ n - 2 \in 1 .. n - 1 /\ (n - 1) - 1 = n - 2 /\ n - 1 > 1
      BY <2>2, <2>5
    <3>2. x[n - 1] \in Rational /\ x[n - 2] \in Rational /\ Follows(c, x[n - 2], x[n - 1])
      <4>1. fine(n - 1) /\ fine(n - 2)
        BY <2>3, <3>1
      <4> QED
        BY <3>1, <4>1
    <3>3. x[n] = Following(c, x[n - 1], x[n - 2])
      BY <1>1, <2>2, <2>5
    <3> QED
      BY <1>2, <2>2, <3>2, <3>3, FollowingIsRational, FollowingFollows
  <2> QED
    BY <2>2, <2>4, <2>5
<1>4. \A n \in 1 .. reach : fine(n)
  BY <1>3
<1>5. ASSUME NEW n \in 1 .. reach - 1 PROVE Follows(c, x[n], x[n + 1])
  <2>1. n + 1 \in 1 .. reach /\ n + 1 > 1 /\ (n + 1) - 1 = n
    OBVIOUS
  <2>2. fine(n + 1)
    BY <1>4, <2>1
  <2> QED
    BY <2>1, <2>2
<1> QED
  BY <1>4, <1>5 DEF x, c

(* Nor does any later term fall below an earlier one.                      *)
LEMMA SequenceAscends ==
  ASSUME NEW spec, spec.coefficient \in Rational, spec.seed \in Nat, NEW reach \in Nat,
         NEW i \in 1 .. reach, NEW j \in i .. reach
  PROVE  AtMost(Sequence(spec, reach)[i], Sequence(spec, reach)[j])
<1> DEFINE x == Sequence(spec, reach)
           bad == {n \in i .. reach : ~AtMost(x[i], x[n])}
<1>1. /\ \A n \in 1 .. reach : x[n] \in Rational
      /\ \A n \in 1 .. reach - 1 : AtMost(x[n], x[n + 1])
  BY SequenceFollows, FollowsIsAtMost
<1> HIDE DEF x
<1>2. bad = {}
  <2> SUFFICES ASSUME bad # {} PROVE FALSE
    OBVIOUS
  <2>1. PICK n \in bad : \A m \in bad : n <= m
    <3>1. bad \in SUBSET Nat
      OBVIOUS
    <3> HIDE DEF bad
    <3> QED
      BY <3>1, LeastOfNat
  <2>2. n \in i .. reach /\ ~AtMost(x[i], x[n])
    BY <2>1
  <2>3. n # i
    <3>1. x[i].num * x[i].den \in Int
      BY <1>1 DEF Rational
    <3>2. AtMost(x[i], x[i])
      BY <3>1 DEF AtMost
    <3> QED
      BY <2>2, <3>2
  <2>4. n - 1 \in i .. reach /\ n - 1 \in 1 .. reach - 1 /\ n - 1 \notin bad /\ (n - 1) + 1 = n
    BY <2>1, <2>2, <2>3
  <2>5. AtMost(x[i], x[n - 1]) /\ AtMost(x[n - 1], x[n])
    BY <1>1, <2>4
  <2>6. x[i] \in Rational /\ x[n - 1] \in Rational /\ x[n] \in Rational
    BY <1>1, <2>2, <2>4
  <2> QED
    BY <2>2, <2>5, <2>6, AtMostIsTransitive
<1> QED
  BY <1>2 DEF x

-----------------------------------------------------------------------------
(* What is known of the values of a schedule being generated.              *)

(* Values are being resolved, or a generated schedule has been made of     *)
(* them.                                                                   *)
Resolving == pc = "resolve" \/ Generated

(* The points of a ladder run from bound to bound without falling. *)
IsLadder(points, spec) ==
  /\ Len(points) >= 2
  /\ points[1] = Whole(spec.minimum) /\ points[Len(points)] = Whole(spec.maximum)
  /\ \A i, j \in DOMAIN points : i <= j => AtMost(points[i], points[j])

(* Terms drawn are the first of the recurrence.                            *)
IsStart(xs, spec) ==
  /\ Len(xs) \in 2 .. MaxTerms + 1
  /\ \A i \in DOMAIN xs : xs[i] = Sequence(spec, Reach)[i]

(* The terms are the recurrence's up to the one past the maximum, or a     *)
(* ladder.                                                                 *)
ValuesSoFar ==
  /\ pc = "recur" => IsStart(terms, request.spec)
  /\ Resolving =>
       /\ request \in Requests /\ Acceptable(request)
       /\ Recurs => /\ IsStart(terms, request.spec)
                    /\ Exceeds(terms[Len(terms)], request.spec.maximum)
       /\ ~Recurs => IsLadder(terms, request.spec)

(* What is kept is, in order, every value so far within the bounds; a      *)
(* generated schedule holds it.                                            *)
MembersSoFar ==
  /\ Resolving =>
       /\ \A i \in DOMAIN kept :
            /\ InBounds(request.spec, kept[i])
            /\ \E k \in 1 .. taken : kept[i] = Resolved(terms[k])
       /\ \A k \in 1 .. taken : InBounds(request.spec, Resolved(terms[k])) =>
            \E i \in DOMAIN kept : kept[i] = Resolved(terms[k])
       /\ \A i, j \in DOMAIN kept : i < j => kept[i] < kept[j]
  /\ Generated =>
       /\ artifact.spec = request.spec /\ artifact.members = kept
       /\ taken = Len(terms) /\ kept # <<>>

-----------------------------------------------------------------------------
(* Its terms do not fall.                                                  *)

(* Reach is past every term the cap allows.                                *)
LEMMA ReachIs == Reach \in Nat /\ MaxTerms + 1 < Reach /\ MaxTerms \in Nat
BY MaxTermsAssumption DEF Reach

(* Whatever is resolved does not fall, so neither do its members. *)
LEMMA TermsAscend ==
  ASSUME SoFar, ValuesSoFar, Resolving
  PROVE  \A i, j \in DOMAIN terms : i <= j => AtMost(terms[i], terms[j])
<1>1. request \in Requests /\ Acceptable(request)
  BY DEF ValuesSoFar
<1>2. CASE Recurs
  <2>1. /\ request.spec.coefficient \in Rational /\ request.spec.seed \in Nat
        /\ Len(terms) \in 2 .. MaxTerms + 1
        /\ \A i \in DOMAIN terms : terms[i] = Sequence(request.spec, Reach)[i]
    BY <1>1, <1>2, AcceptableRequests DEF ValuesSoFar, IsStart, Recurs
  <2>2. DOMAIN terms = 1 .. Len(terms)
    BY DEF SoFar, TypeOK
  <2>3. ASSUME NEW i \in DOMAIN terms, NEW j \in DOMAIN terms, i <= j
        PROVE  AtMost(terms[i], terms[j])
    <3>1. Reach \in Nat /\ i \in 1 .. Reach /\ j \in i .. Reach
      BY <2>1, <2>2, <2>3, ReachIs
    <3> QED
      BY <2>1, <3>1, SequenceAscends
  <2> QED
    BY <2>3
<1>3. CASE ~Recurs
  BY <1>3 DEF ValuesSoFar, IsLadder
<1> QED
  BY <1>2, <1>3

(* Nor do the values they are rounded to.                                  *)
LEMMA ResolvedAscend ==
  ASSUME SoFar, ValuesSoFar, Resolving, NEW i \in DOMAIN terms, NEW j \in DOMAIN terms, i <= j
  PROVE  /\ Resolved(terms[i]) \in Nat /\ Resolved(terms[j]) \in Nat
         /\ Resolved(terms[i]) <= Resolved(terms[j])
<1>1. request \in Requests /\ Acceptable(request)
  BY DEF ValuesSoFar
<1>2. terms[i] \in Rational /\ terms[j] \in Rational /\ AtMost(terms[i], terms[j])
  BY TermsAscend DEF SoFar, TypeOK
<1>3. request.spec.grain \in Nat \ {0}
  BY <1>1, AcceptableRequests
<1> QED
  BY <1>1, <1>2, <1>3, QuantizeIsMonotone, ResolvedIsOnTheGrain DEF Resolved

(* Nothing is resolved at first.                                           *)
LEMMA InitValues == Init => ValuesSoFar /\ MembersSoFar
BY DEF Init, ValuesSoFar, MembersSoFar, Resolving, Generated

(* A recurrence starts with the two seeds.                                 *)
LEMMA BeginValues ==
  ASSUME SoFar, NEW r \in Requests, BeginRecurrence(r)
  PROVE  ValuesSoFar' /\ MembersSoFar'
<1>1. /\ pc' = "recur" /\ request' = r
      /\ terms' = <<Whole(r.spec.seed), Whole(r.spec.seed)>>
  BY DEF BeginRecurrence
<1> DEFINE x == Sequence(r.spec, Reach)
           w == Whole(r.spec.seed)
<1>2. x[1] = w /\ x[2] = w
  <2>1. Reach \in Nat /\ 1 \in 1 .. Reach /\ 2 \in 1 .. Reach
    BY ReachIs
  <2> QED
    BY <2>1, SequenceIs
<1>3. terms' = <<w, w>>
  BY <1>1
<1> HIDE DEF x, w
<1>4. /\ Len(terms') = 2 /\ DOMAIN terms' = 1 .. 2 /\ terms'[1] = w /\ terms'[2] = w
  BY <1>3
<1>5. IsStart(terms', r.spec)
  <2>1. \A i \in DOMAIN terms' : terms'[i] = x[i]
    BY <1>2, <1>4
  <2>2. Len(terms') \in 2 .. MaxTerms + 1
    BY <1>4, MaxTermsAssumption
  <2> QED
    BY <2>1, <2>2 DEF IsStart, x
<1> QED
  BY <1>1, <1>5 DEF ValuesSoFar, MembersSoFar, Resolving, Generated, IsStart

(* The points between two bounds are a ladder.                             *)
LEMMA PointsAreALadder ==
  ASSUME NEW spec, spec.minimum \in Nat, spec.maximum \in Nat, spec.minimum <= spec.maximum,
         NEW m \in Nat, NEW inner \in [1 .. m -> Rational],
         \A k \in 1 .. m : /\ AtMost(Whole(spec.minimum), inner[k])
                           /\ AtMost(inner[k], Whole(spec.maximum)),
         \A k, l \in 1 .. m : k < l => AtMost(inner[k], inner[l])
  PROVE  IsLadder(<<Whole(spec.minimum)>> \o inner \o <<Whole(spec.maximum)>>, spec)
<1> DEFINE low == Whole(spec.minimum)
           high == Whole(spec.maximum)
           points == <<low>> \o inner \o <<high>>
<1>1. low \in Rational /\ high \in Rational /\ AtMost(low, high)
  BY DEF Whole, Rational, AtMost
<1>2. \A k \in 1 .. m : /\ inner[k] \in Rational
                        /\ AtMost(low, inner[k]) /\ AtMost(inner[k], high)
  OBVIOUS
<1>3. inner \in Seq(Rational) /\ Len(inner) = m
  OBVIOUS
<1> HIDE DEF low, high
<1>4. /\ Len(<<low>> \o inner) = m + 1 /\ <<low>> \o inner \in Seq(Rational)
      /\ \A k \in 1 .. m + 1 : (<<low>> \o inner)[k] = IF k = 1 THEN low ELSE inner[k - 1]
  BY <1>1, <1>3
<1>5. /\ points \in Seq(Rational) /\ Len(points) = m + 2
      /\ \A k \in 1 .. m + 2 :
           points[k] = IF k = 1 THEN low ELSE IF k = m + 2 THEN high ELSE inner[k - 1]
  BY <1>1, <1>4
<1>6. DOMAIN points = 1 .. m + 2
  BY <1>5
<1> HIDE DEF points
<1>7. ASSUME NEW x \in Rational PROVE AtMost(x, x)
  BY DEF AtMost, Rational
<1>8. ASSUME NEW i \in 1 .. m + 2, NEW j \in 1 .. m + 2, i <= j
      PROVE  AtMost(points[i], points[j])
  <2>1. CASE i = j
    <3>1. points[i] \in Rational
      BY <1>5, <1>6
    <3> QED
      BY <1>7, <2>1, <3>1
  <2>2. CASE i = 1 /\ j = m + 2
    BY <1>1, <1>5, <2>2
  <2>3. CASE i = 1 /\ j \in 2 .. m + 1
    <3>1. j - 1 \in 1 .. m /\ points[j] = inner[j - 1] /\ points[i] = low
      BY <1>5, <2>3
    <3> QED
      BY <1>2, <3>1
  <2>4. CASE i \in 2 .. m + 1 /\ j = m + 2
    <3>1. i - 1 \in 1 .. m /\ points[i] = inner[i - 1] /\ points[j] = high
      BY <1>5, <2>4
    <3> QED
      BY <1>2, <3>1
  <2>5. CASE i \in 2 .. m + 1 /\ j \in 2 .. m + 1 /\ i < j
    <3>1. /\ i - 1 \in 1 .. m /\ points[i] = inner[i - 1]
          /\ j - 1 \in 1 .. m /\ points[j] = inner[j - 1] /\ i - 1 < j - 1
      BY <1>5, <2>5
    <3> QED
      BY <3>1
  <2> QED
    BY <1>8, <2>1, <2>2, <2>3, <2>4, <2>5
<1>9. points[1] = low /\ points[Len(points)] = high /\ Len(points) >= 2
  BY <1>5
<1>10. IsLadder(points, spec)
  BY <1>6, <1>8, <1>9 DEF IsLadder, low, high
<1> QED
  BY <1>10 DEF points, low, high

(* Placing them starts a ladder.                                           *)
LEMMA PlaceValues ==
  ASSUME SoFar, NEW r \in Requests, PlacePoints(r)
  PROVE  ValuesSoFar' /\ MembersSoFar'
<1>1. /\ pc' = "resolve" /\ request' = r /\ r.spec.kind = "log_spaced" /\ Acceptable(r)
      /\ UNCHANGED <<taken, kept>> /\ taken = 0 /\ kept = <<>>
      /\ pc = "idle" /\ origin' = origin
  BY DEF PlacePoints, SoFar, Begun
<1>2. PICK x \in Interiors(r.spec) :
        terms' = <<Whole(r.spec.minimum)>>
                 \o [k \in DOMAIN x |-> [num |-> x[k], den |-> PointDen]]
                 \o <<Whole(r.spec.maximum)>>
  BY DEF PlacePoints
<1> DEFINE low == r.spec.minimum
           high == r.spec.maximum
           m == r.spec.count - 2
           inner == [k \in DOMAIN x |-> [num |-> x[k], den |-> PointDen]]
<1>3. /\ low \in Nat /\ high \in Nat /\ m \in Nat /\ low <= high
      /\ PointDen \in Nat \ {0}
  <2>1. LogSpacedSpec(r.spec)
    BY <1>1 DEF Acceptable, Constructible
  <2> QED
    BY <1>1, <2>1, AcceptableRequests, MaxTermsAssumption, SchedulesAssumption DEF LogSpacedSpec
<1>4. /\ DOMAIN x = 1 .. m
      /\ \A k \in 1 .. m : x[k] \in PointDen * low .. PointDen * high
      /\ \A k, l \in 1 .. m : k < l => x[k] <= x[l]
  <2>1. DOMAIN x = 1 .. m
    BY DEF Interiors
  <2>2. \A k \in 1 .. m : x[k] \in NextToPoint(r.spec, k)
    BY DEF Interiors
  <2>3. \A k : NextToPoint(r.spec, k) \subseteq PointDen * low .. PointDen * high
    BY DEF NextToPoint
  <2>4. \A k, l \in 1 .. m : k < l => x[k] <= x[l]
    BY DEF Interiors
  <2> QED
    BY <2>1, <2>2, <2>3, <2>4
<1> HIDE DEF m
<1>5. PointDen * low \in Nat /\ PointDen * high \in Nat
  BY <1>3
<1>6. ASSUME NEW k \in 1 .. m
      PROVE  /\ x[k] \in Nat
             /\ inner[k] = [num |-> x[k], den |-> PointDen]
             /\ AtMost(Whole(low), inner[k]) /\ AtMost(inner[k], Whole(high))
  <2>1. x[k] \in PointDen * low .. PointDen * high
    BY <1>4
  <2>2. x[k] \in Nat /\ PointDen * low <= x[k] /\ x[k] <= PointDen * high
    BY <1>5, <2>1
  <2>3. inner[k] = [num |-> x[k], den |-> PointDen]
    <3>1. k \in DOMAIN x
      BY <1>4
    <3> QED
      BY <3>1
  <2>4. low * PointDen = PointDen * low /\ high * PointDen = PointDen * high
    BY <1>3
  <2> QED
    BY <1>3, <1>4, <2>2, <2>3, <2>4 DEF AtMost, Whole
<1>7. inner \in [1 .. m -> Rational]
  BY <1>3, <1>4, <1>6 DEF Rational
<1> HIDE DEF inner
<1>8. ASSUME NEW k \in 1 .. m, NEW l \in 1 .. m, k < l PROVE AtMost(inner[k], inner[l])
  <2>1. x[k] <= x[l] /\ x[k] \in Nat /\ x[l] \in Nat
    BY <1>4, <1>6, <1>8
  <2>2. PointDen * x[k] <= PointDen * x[l]
    BY <1>3, <2>1, Scaled
  <2>3. /\ inner[k].num = x[k] /\ inner[k].den = PointDen
        /\ inner[l].num = x[l] /\ inner[l].den = PointDen
    <3>1. /\ inner[k] = [num |-> x[k], den |-> PointDen]
          /\ inner[l] = [num |-> x[l], den |-> PointDen]
      BY <1>6, Zenon
    <3> QED
      BY <3>1
  <2>4. x[k] * PointDen = PointDen * x[k] /\ x[l] * PointDen = PointDen * x[l]
    BY <1>3, <2>1
  <2> QED
    BY <2>2, <2>3, <2>4 DEF AtMost
<1>9. IsLadder(terms', r.spec)
  <2>1. terms' = <<Whole(r.spec.minimum)>> \o inner \o <<Whole(r.spec.maximum)>>
    BY <1>2 DEF inner
  <2> QED
    BY <1>3, <1>6, <1>7, <1>8, <2>1, PointsAreALadder
<1>10. ValuesSoFar'
  <2>1. IsLadder(terms, request.spec)'
    BY <1>1, <1>9 DEF IsLadder
  <2> QED
    BY <1>1, <2>1 DEF ValuesSoFar, Recurs, Acceptable
<1>11. ~Generated'
  BY <1>1 DEF Generated
<1>12. MembersSoFar'
  BY <1>1, <1>11 DEF MembersSoFar
<1> QED
  BY <1>10, <1>12

-----------------------------------------------------------------------------
(* The values, step by step.                                               *)

(* A term drawn is the recurrence's next; drawing ends past the maximum.   *)
LEMMA TermValues ==
  ASSUME SoFar, ValuesSoFar, AppendTerm \/ PassMaximum
  PROVE  ValuesSoFar' /\ MembersSoFar'
<1>1. /\ pc = "recur" /\ terms' = Append(terms, NextTerm)
      /\ UNCHANGED <<request, taken, kept, origin>>
  BY DEF AppendTerm, PassMaximum, Stored
<1>2. /\ request \in Requests /\ Acceptable(request) /\ origin = "none" /\ Recurs
      /\ Len(terms) \in 2 .. MaxTerms /\ taken = 0 /\ kept = <<>>
      /\ IsStart(terms, request.spec)
  BY <1>1 DEF SoFar, Begun, TermsSoFar, ValuesSoFar
<1>3. terms \in Seq(Rational) /\ NextTerm \in Rational
  <2>1. request.spec.coefficient \in Rational /\ terms \in Seq(Rational)
    BY <1>2, AcceptableRequests DEF Recurs, SoFar, TypeOK
  <2>2. terms[Len(terms)] \in Rational /\ terms[Len(terms) - 1] \in Rational
    BY <1>2, <2>1, ReachIs
  <2> QED
    BY <2>1, <2>2, FollowingIsRational DEF NextTerm
<1> DEFINE n == Len(terms)
           x == Sequence(request.spec, Reach)
           c == request.spec.coefficient
<1>4. n \in 2 .. MaxTerms /\ DOMAIN terms = 1 .. n /\ \A i \in 1 .. n : terms[i] = x[i]
  BY <1>2, <1>3 DEF IsStart
<1>5. n + 1 \in 1 .. Reach /\ n + 1 > 2 /\ (n + 1) - 1 = n /\ (n + 1) - 2 = n - 1
      /\ n - 1 \in 1 .. n /\ n \in 1 .. n
  BY <1>4, ReachIs
<1>6. x[n + 1] = Following(c, x[n], x[n - 1])
  <2>1. Reach \in Nat
    BY ReachIs
  <2>2. \A k \in 1 .. Reach : k > 2 => x[k] = Following(c, x[k - 1], x[k - 2])
    BY <2>1, SequenceIs
  <2> HIDE DEF x, c, n
  <2>3. x[n + 1] = Following(c, x[(n + 1) - 1], x[(n + 1) - 2])
    BY <1>5, <2>2
  <2> QED
    BY <1>5, <2>3
<1>7. NextTerm = x[n + 1]
  BY <1>4, <1>5, <1>6 DEF NextTerm
<1> HIDE DEF x, n
<1>8. /\ Len(terms') = n + 1 /\ DOMAIN terms' = 1 .. n + 1
      /\ \A i \in 1 .. n + 1 : terms'[i] = x[i]
  <2>1. Len(terms') = n + 1 /\ DOMAIN terms' = 1 .. n + 1
        /\ \A i \in 1 .. n + 1 : terms'[i] = IF i = n + 1 THEN NextTerm ELSE terms[i]
    BY <1>1, <1>3, <1>4 DEF n
  <2>2. \A i \in 1 .. n + 1 : i # n + 1 => i \in 1 .. n
    BY <1>4
  <2> QED
    BY <1>4, <1>7, <2>1, <2>2
<1>9. IsStart(terms', request.spec)
  BY <1>4, <1>8, ReachIs DEF IsStart, x
<1>10. IsStart(terms, request.spec)'
  BY <1>1, <1>9 DEF IsStart
<1>11. ~Generated'
  BY <1>1, <1>2 DEF Generated
<1>12. CASE AppendTerm
  BY <1>10, <1>11, <1>12 DEF AppendTerm, ValuesSoFar, MembersSoFar, Resolving
<1>13. CASE PassMaximum
  <2>1. pc' = "resolve" /\ Exceeds(NextTerm, request.spec.maximum)
    BY <1>13 DEF PassMaximum
  <2>2. terms'[Len(terms')] = NextTerm
    BY <1>4, <1>7, <1>8, ReachIs
  <2>3. Exceeds(terms[Len(terms)], request.spec.maximum)'
    BY <1>1, <2>1, <2>2
  <2>4. ValuesSoFar'
    BY <1>1, <1>2, <1>10, <2>1, <2>3 DEF ValuesSoFar, Recurs, Acceptable
  <2>5. MembersSoFar'
    BY <1>1, <1>2, <1>11, <2>1 DEF MembersSoFar
  <2> QED
    BY <2>4, <2>5
<1> QED
  BY <1>12, <1>13

(* A step that draws no term keeps what is known of the terms.             *)
LEMMA SameValues ==
  ASSUME ValuesSoFar, Resolving, UNCHANGED <<request, terms>>, pc' # "recur"
  PROVE  ValuesSoFar'
<1>1. request' = request /\ terms' = terms
  OBVIOUS
<1> QED
  BY <1>1 DEF ValuesSoFar, Recurs, IsStart, IsLadder

(* A value resolved is kept if it is within the bounds and new: it comes   *)
(* last.                                                                   *)
LEMMA ValueMembers ==
  ASSUME SoFar, ValuesSoFar, MembersSoFar, ResolveValue
  PROVE  ValuesSoFar' /\ MembersSoFar'
<1> DEFINE n == Resolved(terms[taken + 1])
           value(k) == Resolved(terms[k])
           within(m) == InBounds(request.spec, m)
<1>1. /\ pc = "resolve" /\ taken < Len(terms) /\ n # 0 /\ taken' = taken + 1
      /\ kept' = IF Keeps(n) THEN Append(kept, n) ELSE kept
      /\ UNCHANGED <<pc, request, terms, origin>>
  BY DEF ResolveValue, Stored
<1>2. Resolving /\ ~Generated'
  BY <1>1 DEF Resolving, Generated
<1>3. /\ terms \in Seq(Rational) /\ Len(terms) \in Nat /\ taken \in 0 .. Len(terms)
      /\ kept \in Seq(Nat \ {0}) /\ DOMAIN terms = 1 .. Len(terms)
  BY DEF SoFar, TypeOK
<1>4. /\ taken \in Nat /\ taken + 1 \in DOMAIN terms
      /\ \A k \in 1 .. taken : k \in DOMAIN terms /\ k <= taken + 1
  BY <1>1, <1>3
<1>5. /\ n \in Nat
      /\ \A k \in 1 .. taken : value(k) \in Nat /\ value(k) <= n
  BY <1>2, <1>4, ResolvedAscend
<1>6. /\ \A i \in DOMAIN kept : within(kept[i]) /\ \E k \in 1 .. taken : kept[i] = value(k)
      /\ \A k \in 1 .. taken : within(value(k)) => \E i \in DOMAIN kept : kept[i] = value(k)
      /\ \A i, j \in DOMAIN kept : i < j => kept[i] < kept[j]
  BY <1>2 DEF MembersSoFar
<1>7. value(taken + 1) = n
  OBVIOUS
<1>8. /\ Resolving' <=> TRUE
      /\ \A k : Resolved(terms[k])' = value(k)
      /\ \A m : InBounds(request.spec, m)' <=> within(m)
  BY <1>1 DEF Resolving, Resolved
<1>9. Keeps(n) <=> within(n) /\ \A i \in DOMAIN kept : kept[i] # n
  BY DEF Keeps
<1> HIDE DEF n, value, within
<1>10. \A k \in 1 .. taken + 1 : k \in 1 .. taken \/ k = taken + 1
  BY <1>4
<1>11. /\ \A i \in DOMAIN kept' :
             within(kept'[i]) /\ \E k \in 1 .. taken + 1 : kept'[i] = value(k)
       /\ \A k \in 1 .. taken + 1 : within(value(k)) => \E i \in DOMAIN kept' : kept'[i] = value(k)
       /\ \A i, j \in DOMAIN kept' : i < j => kept'[i] < kept'[j]
  <2>1. CASE Keeps(n)
    <3>1. /\ DOMAIN kept = 1 .. Len(kept) /\ Len(kept) \in Nat
          /\ DOMAIN kept' = 1 .. Len(kept) + 1
          /\ kept'[Len(kept) + 1] = n
          /\ \A i \in DOMAIN kept : kept'[i] = kept[i] /\ kept[i] \in Nat
      BY <1>1, <1>3, <1>5, <2>1
    <3>2. \A i \in DOMAIN kept' : i \in DOMAIN kept \/ i = Len(kept) + 1
      BY <3>1
    <3>3. \A k \in 1 .. taken : k \in 1 .. taken + 1
      BY <1>4
    <3>4. taken + 1 \in 1 .. taken + 1
      BY <1>4
    <3>5. ASSUME NEW i \in DOMAIN kept'
          PROVE  within(kept'[i]) /\ \E k \in 1 .. taken + 1 : kept'[i] = value(k)
      <4>1. CASE i \in DOMAIN kept
        BY <1>6, <3>1, <3>3, <4>1
      <4>2. CASE i = Len(kept) + 1
        BY <1>7, <1>9, <2>1, <3>1, <3>4, <4>2
      <4> QED
        BY <3>2, <4>1, <4>2
    <3>6. ASSUME NEW k \in 1 .. taken + 1, within(value(k))
          PROVE  \E i \in DOMAIN kept' : kept'[i] = value(k)
      <4>1. CASE k \in 1 .. taken
        <5>1. PICK i \in DOMAIN kept : kept[i] = value(k)
          BY <1>6, <3>6, <4>1
        <5>2. i \in DOMAIN kept' /\ kept'[i] = value(k)
          BY <3>1, <5>1
        <5> QED
          BY <5>2
      <4>2. CASE k = taken + 1
        <5>1. Len(kept) + 1 \in DOMAIN kept'
          BY <3>1
        <5> QED
          BY <1>7, <3>1, <4>2, <5>1
      <4> QED
        BY <1>10, <4>1, <4>2
    <3>7. ASSUME NEW i \in DOMAIN kept', NEW j \in DOMAIN kept', i < j
          PROVE  kept'[i] < kept'[j]
      <4>1. i \in DOMAIN kept
        BY <3>1, <3>7
      <4>2. CASE j \in DOMAIN kept
        BY <1>6, <3>1, <3>7, <4>1, <4>2
      <4>3. CASE j = Len(kept) + 1
        <5>1. PICK k \in 1 .. taken : kept[i] = value(k)
          BY <1>6, <4>1
        <5>2. kept[i] <= n /\ kept[i] # n /\ kept[i] \in Nat
          BY <1>5, <1>9, <2>1, <3>1, <4>1, <5>1
        <5> QED
          BY <1>5, <3>1, <4>1, <4>3, <5>2
      <4> QED
        BY <3>2, <4>2, <4>3
    <3> QED
      BY <3>5, <3>6, <3>7
  <2>2. CASE ~Keeps(n)
    <3>1. kept' = kept
      BY <1>1, <2>2
    <3>2. \A k \in 1 .. taken : k \in 1 .. taken + 1
      BY <1>4
    <3>3. within(n) => \E i \in DOMAIN kept : kept[i] = n
      BY <1>9, <2>2
    <3> QED
      BY <1>6, <1>7, <1>10, <3>1, <3>2, <3>3
  <2> QED
    BY <2>1, <2>2
<1>12. MembersSoFar'
  BY <1>1, <1>2, <1>8, <1>11 DEF MembersSoFar
<1>13. ValuesSoFar'
  BY <1>1, <1>2, SameValues
<1> QED
  BY <1>12, <1>13

(* The schedule made of them has them as its members.                      *)
LEMMA FinishMembers ==
  ASSUME SoFar, ValuesSoFar, MembersSoFar, FinishGeneration
  PROVE  ValuesSoFar' /\ MembersSoFar'
<1>1. /\ pc = "resolve" /\ taken = Len(terms) /\ kept # <<>>
      /\ UNCHANGED <<request, terms, taken, kept>>
      /\ Construct([role |-> request.role, spec |-> request.spec, members |-> kept], "generation")
  BY DEF FinishGeneration
<1>2. Resolving
  BY <1>1 DEF Resolving
<1>3. /\ pc' # "recur" /\ pc' # "resolve"
      /\ Generated' => artifact'.spec = request.spec /\ artifact'.members = kept
  BY <1>1 DEF Construct, Refuse, Generated
<1>4. /\ request' = request /\ terms' = terms /\ taken' = taken /\ kept' = kept
      /\ \A k : Resolved(terms[k])' = Resolved(terms[k])
  BY <1>1 DEF Resolved
<1>5. MembersSoFar'
  BY <1>1, <1>2, <1>3, <1>4 DEF MembersSoFar
<1>6. ValuesSoFar'
  BY <1>1, <1>2, <1>3, SameValues
<1> QED
  BY <1>5, <1>6

(* Every step keeps both.                                                  *)
LEMMA NextValues ==
  ASSUME SoFar, ValuesSoFar, MembersSoFar, [Next]_vars
  PROVE  ValuesSoFar' /\ MembersSoFar'
<1>1. ASSUME pc' \notin {"recur", "resolve"}, ~Generated' PROVE ValuesSoFar' /\ MembersSoFar'
  BY <1>1 DEF ValuesSoFar, MembersSoFar, Resolving
<1>2. CASE UNCHANGED vars
  <2>1. /\ pc' = pc /\ request' = request /\ terms' = terms /\ taken' = taken /\ kept' = kept
        /\ artifact' = artifact /\ origin' = origin
    BY <1>2 DEF vars
  <2>2. \A k : Resolved(terms[k])' = Resolved(terms[k])
    BY <2>1 DEF Resolved
  <2>3. Resolving' = Resolving /\ Generated' = Generated /\ Recurs' = Recurs
    BY <2>1 DEF Resolving, Generated, Recurs
  <2>4. ValuesSoFar'
    BY <2>1, <2>3 DEF ValuesSoFar, IsStart, IsLadder
  <2>5. MembersSoFar'
    BY <2>1, <2>2, <2>3 DEF MembersSoFar
  <2> QED
    BY <2>4, <2>5
<1>3. ASSUME NEW r \in Requests,
             \/ MetallicRecurrence(r) \/ MetallicHorizons(r) \/ MetallicLookback(r)
             \/ LogSpaced(r) \/ LogSpacedHorizons(r) \/ LogSpacedLookback(r)
      PROVE  ValuesSoFar' /\ MembersSoFar'
  <2>1. RefuseRequest(r) \/ BeginRecurrence(r) \/ PlacePoints(r)
    BY <1>3 DEF MetallicRecurrence, MetallicHorizons, MetallicLookback,
                LogSpaced, LogSpacedHorizons, LogSpacedLookback
  <2>2. CASE RefuseRequest(r)
    BY <1>1, <2>2 DEF RefuseRequest, Refuse, Generated
  <2> QED
    BY <2>1, <2>2, BeginValues, PlaceValues
<1>4. CASE Generate
  <2>1. CASE RefuseSlowGrowth \/ RefuseNothingLeft \/ RefuseAllExcluded
    BY <1>1, <2>1
       DEF RefuseSlowGrowth, RefuseNothingLeft, RefuseAllExcluded, Refuse, Generated
  <2> QED
    BY <1>4, <2>1, TermValues, ValueMembers, FinishMembers DEF Generate
<1>5. CASE \/ \E a \in Given :
                \/ Explicit(a) \/ ExplicitHorizons(a) \/ ExplicitLookback(a)
                \/ ExplicitPairs(a) \/ BuildByHand(a)
           \/ NamedSchedule
           \/ \E r \in RuleRequests : AskRule(r)
           \/ \E k \in Divisors : PairWithItself(k)
  <2>1. ASSUME NEW a, NEW how, how # "generation", Construct(a, how) \/ Refuse(how)
        PROVE  pc' \notin {"recur", "resolve"} /\ ~Generated'
    BY <2>1 DEF Construct, Refuse, Generated
  <2>2. ASSUME NEW a, State(a) PROVE pc' \notin {"recur", "resolve"} /\ ~Generated'
    BY <2>1, <2>2 DEF State
  <2>3. ASSUME NamedSchedule PROVE pc' \notin {"recur", "resolve"} /\ ~Generated'
    BY <2>1, <2>3 DEF NamedSchedule
  <2>4. ASSUME NEW windows, NEW spec, NEW how \in {"rule", "own rule"},
               ResolveRule(windows, spec, how)
        PROVE  pc' \notin {"recur", "resolve"} /\ ~Generated'
    BY <2>1, <2>4 DEF ResolveRule
  <2>5. \/ \E a \in Given : State(a)
        \/ NamedSchedule
        \/ \E r \in RuleRequests : ResolveRule(r.windows, r.spec, "rule")
        \/ \E k \in Divisors :
             ResolveRule(artifact.members,
               [kind |-> "w_over_k", divisor |-> k, allowed |-> ToSet(artifact.members),
                source |-> artifact.spec.grain], "own rule")
    BY <1>5 DEF Explicit, ExplicitHorizons, ExplicitLookback, ExplicitPairs, BuildByHand,
                AskRule, PairWithItself
  <2>6. pc' \notin {"recur", "resolve"} /\ ~Generated'
    BY <2>2, <2>3, <2>4, <2>5
  <2> QED
    BY <1>1, <2>6
<1>6. CASE \/ ToDict \/ Respell \/ RestateRatio \/ Change
           \/ WindowScheduleFromDict \/ HorizonScheduleFromDict
           \/ LookbackScheduleFromDict \/ CadenceRuleFromDict
  <2>1. pc' \in {"written", "read"}
    BY <1>6 DEF ToDict, Respell, RestateRatio, Change, Edit, WindowScheduleFromDict,
                HorizonScheduleFromDict, LookbackScheduleFromDict, CadenceRuleFromDict, FromDict
  <2> QED
    BY <1>1, <2>1 DEF Generated
<1> QED
  BY <1>2, <1>3, <1>4, <1>5, <1>6 DEF Next

(* So both always hold.                                                    *)
LEMMA ValueInvariant == Spec => [](SoFar /\ ValuesSoFar /\ MembersSoFar)
BY InitSoFar, NextSoFar, InitValues, NextValues, PTL DEF Spec

-----------------------------------------------------------------------------
(* Generated schedules are what was asked for.                             *)

(* What is known of a schedule that was just generated.                    *)
LEMMA GeneratedIs ==
  ASSUME SoFar, ValuesSoFar, MembersSoFar, Generated
  PROVE  /\ Resolving
         /\ request \in Requests /\ Acceptable(request)
         /\ artifact.spec = request.spec /\ artifact.members = kept
         /\ kept \in Seq(Nat \ {0}) /\ kept # <<>> /\ Len(kept) \in Nat \ {0}
         /\ DOMAIN kept = 1 .. Len(kept)
         /\ Len(terms) \in Nat /\ Len(terms) >= 2 /\ DOMAIN terms = 1 .. Len(terms)
         /\ \A i \in DOMAIN kept :
              /\ InBounds(request.spec, kept[i])
              /\ \E k \in DOMAIN terms : kept[i] = Resolved(terms[k])
         /\ \A k \in DOMAIN terms : InBounds(request.spec, Resolved(terms[k])) =>
              \E i \in DOMAIN kept : kept[i] = Resolved(terms[k])
         /\ \A i, j \in DOMAIN kept : i < j => kept[i] < kept[j]
<1>1. /\ Resolving /\ request \in Requests /\ Acceptable(request)
      /\ artifact.spec = request.spec /\ artifact.members = kept
      /\ taken = Len(terms) /\ kept # <<>>
  BY DEF Resolving, ValuesSoFar, MembersSoFar
<1>2. /\ kept \in Seq(Nat \ {0}) /\ Len(kept) \in Nat \ {0} /\ DOMAIN kept = 1 .. Len(kept)
      /\ Len(terms) \in Nat /\ DOMAIN terms = 1 .. Len(terms)
  BY <1>1 DEF SoFar, TypeOK
<1>3. Len(terms) >= 2
  BY <1>1, <1>2, MaxTermsAssumption DEF ValuesSoFar, IsStart, IsLadder
<1> QED
  BY <1>1, <1>2, <1>3 DEF MembersSoFar

(* A value past a bound that rounds to one of the grid's points within it  *)
(* is the rounding of every value between.                                 *)
LEMMA RoundedBackIsRoundedBefore ==
  ASSUME NEW x \in Rational, NEW y \in Rational, AtMost(x, y),
         NEW maximum \in Nat, Exceeds(x, maximum),
         NEW grain \in Nat \ {0}, NEW rounding, Quantize(y, grain, rounding) <= maximum
  PROVE  Quantize(x, grain, rounding) = Quantize(y, grain, rounding)
<1> DEFINE n == Quantize(y, grain, rounding)
           k == Quantize(x, grain, rounding)
<1>1. n \in Nat /\ n % grain = 0 /\ k \in Nat /\ n <= maximum
  BY QuantizeIsOnTheGrain
<1>2. k <= n
  BY QuantizeIsMonotone
<1> HIDE DEF n, k
<1>3. Whole(n) \in Rational /\ AtMost(Whole(n), x)
  <2> DEFINE a == x.num
             b == x.den
  <2>1. a \in Nat /\ b \in Nat \ {0} /\ a > maximum * b
    BY DEF Rational, Exceeds
  <2> HIDE DEF a, b
  <2>2. b * n <= b * maximum
    BY <1>1, <2>1, Scaled
  <2>3. n * b = b * n /\ maximum * b = b * maximum /\ n * b \in Int /\ maximum * b \in Int
    BY <1>1, <2>1
  <2>4. n * b <= a * 1
    BY <2>1, <2>2, <2>3
  <2> QED
    BY <1>1, <2>4 DEF AtMost, Whole, Rational, a, b
<1>4. Quantize(Whole(n), grain, rounding) = n
  BY <1>1, QuantizeKeepsTheGrid
<1>5. n <= k
  BY <1>3, <1>4, QuantizeIsMonotone DEF k
<1>6. n = k
  BY <1>1, <1>2, <1>5
<1> QED
  BY <1>6 DEF n, k

(* At any cap, coefficient, grain and rounding a metallic schedule is the  *)
(* endless recurrence, quantized, within its bounds and in order: the one  *)
(* term past the maximum is as many as are ever needed.                    *)
THEOREM SchedulesAreTheSequences == Spec => []GeneratedAreTheSequences
<1>1. SoFar /\ ValuesSoFar /\ MembersSoFar => GeneratedAreTheSequences
  <2> SUFFICES ASSUME SoFar, ValuesSoFar, MembersSoFar, Generated,
                      artifact.spec.kind = "metallic_recurrence"
               PROVE  GeneratedAreTheSequences
    BY DEF GeneratedAreTheSequences
  <2> DEFINE spec == artifact.spec
             x == Sequence(spec, Reach)
             members == artifact.members
             value(n) == Quantize(x[n], spec.grain, spec.rounding)
             all == {value(n) : n \in 1 .. Reach}
             last == Len(terms)
  <2>1. /\ Resolving /\ request \in Requests /\ Acceptable(request)
        /\ spec = request.spec /\ members = kept
        /\ DOMAIN members = 1 .. Len(members) /\ Len(members) \in Nat
        /\ DOMAIN terms = 1 .. last /\ last \in Nat
        /\ \A i \in DOMAIN members :
             InBounds(spec, members[i]) /\ \E k \in 1 .. last : members[i] = Resolved(terms[k])
        /\ \A k \in 1 .. last : InBounds(spec, Resolved(terms[k])) =>
             \E i \in DOMAIN members : members[i] = Resolved(terms[k])
        /\ \A i, j \in DOMAIN members : i < j => members[i] < members[j]
    BY GeneratedIs, ZenonT(60)
  <2>2. /\ spec.coefficient \in Rational /\ spec.seed \in Nat
        /\ spec.grain \in Nat \ {0} /\ spec.maximum \in Nat
    BY <2>1, AcceptableRequests
  <2>3. /\ last \in 1 .. Reach /\ Reach \in Nat
        /\ \A k \in 1 .. last : k \in 1 .. Reach /\ terms[k] = x[k]
        /\ Exceeds(x[last], spec.maximum)
    <3>1. /\ IsStart(terms, spec) /\ Exceeds(terms[last], spec.maximum)
      BY <2>1 DEF ValuesSoFar, Recurs
    <3>2. last \in 2 .. MaxTerms + 1 /\ \A k \in 1 .. last : terms[k] = x[k]
      BY <2>1, <3>1 DEF IsStart
    <3>3. last \in 1 .. last /\ last \in 1 .. Reach /\ \A k \in 1 .. last : k \in 1 .. Reach
      BY <3>2, ReachIs
    <3> QED
      BY <3>1, <3>2, <3>3, ReachIs
  <2>4. \A k \in 1 .. last : Resolved(terms[k]) = value(k)
    BY <2>1, <2>3 DEF Resolved
  <2>5. /\ \A n \in 1 .. Reach : x[n] \in Rational
        /\ \A n \in last .. Reach : AtMost(x[last], x[n])
    BY <2>2, <2>3, SequenceFollows, SequenceAscends
  <2> HIDE DEF x, spec, members, last
  <2>6. ASSUME NEW n \in 1 .. Reach, InBounds(spec, value(n))
        PROVE  \E i \in DOMAIN members : members[i] = value(n)
    <3>1. CASE n \in 1 .. last
      BY <2>1, <2>4, <2>6, <3>1
    <3>2. CASE n \in last .. Reach
      <4>1. value(n) <= spec.maximum
        BY <2>6 DEF InBounds
      <4>2. value(last) = value(n)
        BY <2>2, <2>3, <2>5, <3>2, <4>1, RoundedBackIsRoundedBefore
      <4>3. last \in 1 .. last
        BY <2>1, <2>3
      <4> QED
        BY <2>1, <2>4, <2>6, <4>2, <4>3
    <3>3. n \in 1 .. last \/ n \in last .. Reach
      BY <2>3
    <3> QED
      BY <3>1, <3>2, <3>3
  <2>7. ASSUME NEW i \in DOMAIN members
        PROVE  InBounds(spec, members[i]) /\ \E n \in 1 .. Reach : members[i] = value(n)
    BY <2>1, <2>3, <2>4
  <2> HIDE DEF value
  <2>8. ToSet(members) = {n \in all : InBounds(spec, n)}
    BY <2>6, <2>7 DEF ToSet
  <2>9. ASSUME NEW i \in 1 .. Len(members) - 1 PROVE members[i] < members[i + 1]
    <3>1. i \in DOMAIN members /\ i + 1 \in DOMAIN members /\ i < i + 1
      BY <2>1
    <3> QED
      BY <2>1, <3>1
  <2> QED
    BY <2>8, <2>9 DEF GeneratedAreTheSequences, x, spec, members, value
<1> QED
  BY <1>1, ValueInvariant, PTL

(* Whatever the grain does to them, the seed comes first if it is not      *)
(* below the minimum, and the bounds of a ladder come first and last.      *)
THEOREM NamedPointsStay == Spec => []NamedPointsAreKept
<1>1. SoFar /\ ValuesSoFar /\ MembersSoFar => NamedPointsAreKept
  <2> SUFFICES ASSUME SoFar, ValuesSoFar, MembersSoFar, Generated PROVE NamedPointsAreKept
    BY DEF NamedPointsAreKept
  <2> DEFINE spec == artifact.spec
             members == artifact.members
             rounded(n) == Quantize(Whole(n), spec.grain, spec.rounding)
             first == Resolved(terms[1])
             last == Resolved(terms[Len(terms)])
  <2>1. /\ Resolving /\ request \in Requests /\ Acceptable(request)
        /\ spec = request.spec /\ members = kept
        /\ members \in Seq(Nat \ {0}) /\ Len(members) \in Nat \ {0}
        /\ DOMAIN members = 1 .. Len(members)
        /\ DOMAIN terms = 1 .. Len(terms) /\ Len(terms) \in Nat /\ Len(terms) >= 2
        /\ \A i \in DOMAIN members :
             InBounds(spec, members[i]) /\ \E k \in DOMAIN terms : members[i] = Resolved(terms[k])
        /\ \A k \in DOMAIN terms : InBounds(spec, Resolved(terms[k])) =>
             \E i \in DOMAIN members : members[i] = Resolved(terms[k])
        /\ \A i, j \in DOMAIN members : i < j => members[i] < members[j]
    BY GeneratedIs
  <2>2. /\ first \in Nat /\ last \in Nat /\ first <= last
        /\ \A k \in DOMAIN terms : first <= Resolved(terms[k]) /\ Resolved(terms[k]) <= last
    <3>1. /\ 1 \in DOMAIN terms /\ Len(terms) \in DOMAIN terms /\ 1 <= Len(terms)
          /\ \A k \in DOMAIN terms : 1 <= k /\ k <= Len(terms)
      BY <2>1
    <3> QED
      BY <2>1, <3>1, ResolvedAscend
  <2>3. \A i \in DOMAIN members : members[i] \in Nat /\ first <= members[i] /\ members[i] <= last
    BY <2>1, <2>2
  <2>4. 1 \in DOMAIN members /\ Len(members) \in DOMAIN members
    BY <2>1
  <2>5. 1 \in DOMAIN terms /\ Len(terms) \in DOMAIN terms
    BY <2>1
  <2>6. InBounds(spec, first) => members[1] = first
    <3> SUFFICES ASSUME InBounds(spec, first) PROVE members[1] = first
      OBVIOUS
    <3>1. PICK i \in DOMAIN members : members[i] = first
      BY <2>1, <2>5
    <3> HIDE DEF members, first
    <3>2. i = 1 \/ 1 < i
      BY <2>1, <3>1
    <3>3. members[1] <= members[i]
      BY <2>1, <2>3, <2>4, <3>1, <3>2, SMTT(60)
    <3> QED
      BY <2>2, <2>3, <2>4, <3>1, <3>3
  <2>7. InBounds(spec, last) => members[Len(members)] = last
    <3> SUFFICES ASSUME InBounds(spec, last) PROVE members[Len(members)] = last
      OBVIOUS
    <3> DEFINE n == Len(members)
    <3>1. PICK i \in DOMAIN members : members[i] = last
      BY <2>1, <2>5
    <3>2. n \in DOMAIN members /\ DOMAIN members = 1 .. n /\ n \in Nat
      BY <2>1, <2>4
    <3>3. i < n => members[i] < members[n]
      BY <2>1, <3>2
    <3>4. members[n] \in Nat /\ members[i] \in Nat /\ members[n] <= last
      BY <2>3, <3>2
    <3> HIDE DEF members, last, n
    <3>5. i = n \/ i < n
      BY <3>2
    <3>6. members[n] = last
      BY <2>2, <3>1, <3>3, <3>4, <3>5
    <3> QED
      BY <3>6 DEF n
  <2>8. ASSUME spec.kind = "metallic_recurrence", spec.seed >= Floor(spec.minimum)
        PROVE  members[1] = rounded(spec.seed)
    <3>1. /\ spec.seed \in Nat /\ spec.maximum \in Nat /\ spec.minimum \in Nat \cup {NoMinimum}
      BY <2>1, <2>8, AcceptableRequests
    <3>2. first = rounded(spec.seed)
      <4>1. IsStart(terms, spec)
        BY <2>1, <2>8 DEF ValuesSoFar, Recurs
      <4>2. terms[1] = Sequence(spec, Reach)[1]
        BY <2>5, <4>1 DEF IsStart
      <4>3. 1 \in 1 .. Reach /\ Reach \in Nat
        BY ReachIs
      <4>4. Sequence(spec, Reach)[1] = Whole(spec.seed)
        BY <4>3, SequenceIs
      <4> QED
        BY <2>1, <4>2, <4>4 DEF Resolved
    <3>3. Floor(spec.minimum) <= first
      <4>1. SeedAboveItsFloor(spec)
        BY <2>1, <2>8 DEF Acceptable, KeepsItsSpec
      <4>2. CASE spec.minimum = NoMinimum
        BY <2>2, <4>2 DEF Floor
      <4>3. CASE spec.minimum # NoMinimum
        BY <2>8, <3>1, <3>2, <4>1, <4>3 DEF SeedAboveItsFloor, Floor
      <4> QED
        BY <4>2, <4>3
    <3>4. first <= spec.maximum
      BY <2>1, <2>2, <2>3, <2>4, <3>1 DEF InBounds
    <3> QED
      BY <2>6, <3>2, <3>3, <3>4 DEF InBounds
  <2>9. ASSUME spec.kind = "log_spaced"
        PROVE  /\ members[1] = rounded(spec.minimum)
               /\ members[Len(members)] = rounded(spec.maximum)
    <3>1. /\ spec.minimum \in Nat /\ spec.maximum \in Nat
      BY <2>1, <2>9, AcceptableRequests
    <3>2. IsLadder(terms, spec)
      BY <2>1, <2>9 DEF ValuesSoFar, Recurs
    <3>3. first = rounded(spec.minimum) /\ last = rounded(spec.maximum)
      BY <2>1, <3>2 DEF IsLadder, Resolved
    <3>4. EndpointsOnTheGrain(spec)
      BY <2>1, <2>9 DEF Acceptable, KeepsItsSpec
    <3>5. spec.minimum <= first /\ last <= spec.maximum /\ Floor(spec.minimum) = spec.minimum
      BY <3>1, <3>3, <3>4 DEF EndpointsOnTheGrain, Floor, NoMinimum
    <3>6. InBounds(spec, first) /\ InBounds(spec, last)
      BY <2>2, <3>1, <3>5 DEF InBounds
    <3> QED
      BY <2>6, <2>7, <3>3, <3>6
  <2> QED
    BY <2>8, <2>9 DEF NamedPointsAreKept
<1> QED
  BY <1>1, ValueInvariant, PTL

-----------------------------------------------------------------------------
(* Durations.                                                              *)

(* Induction up to n, over the set of the numbers that have a property.    *)
LEMMA UpTo ==
  ASSUME NEW n \in Nat, NEW T, 0 \in T, \A i \in 1 .. n : i - 1 \in T => i \in T
  PROVE  0 .. n \subseteq T
<1> DEFINE bad == {i \in 0 .. n : i \notin T}
<1> SUFFICES ASSUME bad # {} PROVE FALSE
  OBVIOUS
<1>1. PICK k \in bad : \A j \in bad : k <= j
  <2>1. bad \in SUBSET Nat
    OBVIOUS
  <2> HIDE DEF bad
  <2> QED
    BY <2>1, LeastOfNat
<1>2. k \in 1 .. n /\ k \notin T
  BY <1>1
<1>3. k - 1 \in 0 .. n /\ ~(k <= k - 1)
  BY <1>2
<1>4. k - 1 \in T
  BY <1>1, <1>3
<1> QED
  BY <1>2, <1>4

UnitNames == ToSet(Units)

LEMMA UnitFacts ==
  /\ Units \in [1 .. 5 -> UnitNames] /\ Len(Units) = 5 /\ DOMAIN Units = 1 .. 5
  /\ \A i \in 1 .. 5 : UnitSeconds[Units[i]] \in Nat \ {0} /\ Rank(Units[i]) = i
  /\ \A unit \in UnitNames : UnitSeconds[unit] \in Nat \ {0}
  /\ UnitSeconds[Units[5]] = 1
  /\ Units[1] = "w" /\ Units[5] = "s" /\ "s" \in UnitNames /\ "w" \in UnitNames
<1>1. Len(Units) = 5 /\ DOMAIN Units = 1 .. 5
  BY DEF Units
<1>2. /\ Units[1] = "w" /\ Units[2] = "d" /\ Units[3] = "h" /\ Units[4] = "m" /\ Units[5] = "s"
  BY DEF Units
<1>3. UnitNames = {"w", "d", "h", "m", "s"}
  BY <1>1, <1>2 DEF UnitNames, ToSet
<1>4. /\ UnitSeconds["w"] = 604800 /\ UnitSeconds["d"] = 86400 /\ UnitSeconds["h"] = 3600
      /\ UnitSeconds["m"] = 60 /\ UnitSeconds["s"] = 1
  BY DEF UnitSeconds
<1>5. \A i, j \in 1 .. 5 : Units[i] = Units[j] => i = j
  BY <1>2
<1>6. \A i \in 1 .. 5 : Rank(Units[i]) = i
  <2> TAKE i \in 1 .. 5
  <2>1. Rank(Units[i]) = CHOOSE j \in 1 .. 5 : Units[j] = Units[i]
    BY <1>1 DEF Rank
  <2>2. Rank(Units[i]) \in 1 .. 5 /\ Units[Rank(Units[i])] = Units[i]
    BY <2>1
  <2> QED
    BY <1>5, <2>2
<1>7. \A i \in 1 .. 5 : Units[i] \in UnitNames
  BY <1>2, <1>3
<1>8. Units \in [1 .. 5 -> UnitNames]
  BY <1>1, <1>7 DEF Units
<1>9. \A unit \in UnitNames : UnitSeconds[unit] \in Nat \ {0}
  BY <1>3, <1>4
<1> QED
  BY <1>1, <1>2, <1>4, <1>6, <1>7, <1>8, <1>9

(* The totals of Duration.parse, component by component.                   *)
Worth(component) == component[1] * UnitSeconds[component[2]]

IsTotals(total, text, n) ==
  total = [i \in 0 .. n |-> IF i = 0 THEN 0 ELSE total[i - 1] + Worth(text[i])]

LEMMA TotalsExist ==
  ASSUME NEW text, NEW n \in Nat
  PROVE  \E total : IsTotals(total, text, n)
<1> DEFINE T == {k \in Nat : \E total : IsTotals(total, text, k)}
<1>1. 0 \in T
  <2>1. IsTotals([i \in 0 .. 0 |-> 0], text, 0)
    BY DEF IsTotals
  <2> QED
    BY <2>1
<1>2. ASSUME NEW k \in 1 .. n, k - 1 \in T PROVE k \in T
  <2>1. PICK total : IsTotals(total, text, k - 1)
    BY <1>2
  <2>2. /\ DOMAIN total = 0 .. k - 1
        /\ \A i \in 0 .. k - 1 : total[i] = IF i = 0 THEN 0 ELSE total[i - 1] + Worth(text[i])
    BY <2>1 DEF IsTotals
  <2> DEFINE last == total[k - 1] + Worth(text[k])
             longer == [i \in 0 .. k |-> IF i = k THEN last ELSE total[i]]
  <2>3. ASSUME NEW i \in 0 .. k
        PROVE  longer[i] = IF i = 0 THEN 0 ELSE longer[i - 1] + Worth(text[i])
    <3>1. i # k => i \in 0 .. k - 1
      OBVIOUS
    <3>2. i # 0 => i - 1 \in 0 .. k /\ i - 1 # k
      OBVIOUS
    <3> QED
      BY <2>2, <3>1, <3>2
  <2>4. longer = [i \in 0 .. k |-> longer[i]]
    OBVIOUS
  <2> HIDE DEF longer
  <2>5. IsTotals(longer, text, k)
    BY <2>3, <2>4 DEF IsTotals
  <2> QED
    BY <2>5
<1> HIDE DEF T
<1>3. n \in T
  BY <1>1, <1>2, UpTo
<1> QED
  BY <1>3 DEF T

(* Whatever keeps the totals of some other text a number of components     *)
(* further on computes the same.                                           *)
LEMMA TotalsAgree ==
  ASSUME NEW n \in Nat, NEW d \in Nat, NEW m \in Nat, n + d <= m,
         NEW text, NEW other, NEW total, NEW others,
         IsTotals(total, text, n), IsTotals(others, other, m),
         others[d] = 0, \A i \in 1 .. n : Worth(other[i + d]) = Worth(text[i])
  PROVE  others[n + d] = total[n]
<1> DEFINE T == {i \in Nat : i <= n => others[i + d] = total[i]}
<1>1. 0 \in T
  BY DEF IsTotals
<1>2. ASSUME NEW i \in 1 .. n, i - 1 \in T PROVE i \in T
  <2>1. others[i + d - 1] = total[i - 1]
    <3>1. i - 1 <= n /\ (i - 1) + d = i + d - 1
      OBVIOUS
    <3> QED
      BY <1>2, <3>1
  <2>2. total[i] = total[i - 1] + Worth(text[i])
    BY DEF IsTotals
  <2>3. i + d \in 0 .. m /\ i + d # 0
    OBVIOUS
  <2>4. others[i + d] = others[i + d - 1] + Worth(other[i + d])
    BY <2>3 DEF IsTotals
  <2> QED
    BY <2>1, <2>2, <2>4
<1> HIDE DEF T
<1>3. n \in T
  BY <1>1, <1>2, UpTo
<1> QED
  BY <1>3 DEF T

LEMMA SecondsAre ==
  ASSUME NEW text, Len(text) \in Nat
  PROVE  \E total : IsTotals(total, text, Len(text)) /\ SecondsOf(text) = total[Len(text)]
<1> DEFINE n == Len(text)
           total == CHOOSE f : IsTotals(f, text, n)
<1>1. IsTotals(total, text, n)
  <2>1. \E f : IsTotals(f, text, n)
    BY TotalsExist
  <2> QED
    BY <2>1
<1>2. SecondsOf(text) = total[n]
  BY DEF SecondsOf, IsTotals, Worth
<1> QED
  BY <1>1, <1>2

LEMMA SecondsOfNothing == SecondsOf(<<>>) = 0
<1>1. Len(<<>>) = 0
  OBVIOUS
<1>2. PICK total : IsTotals(total, <<>>, 0) /\ SecondsOf(<<>>) = total[0]
  BY <1>1, SecondsAre
<1> QED
  BY <1>2 DEF IsTotals

LEMMA SecondsOfMore ==
  ASSUME NEW text \in Texts, NEW component
  PROVE  SecondsOf(Append(text, component)) = SecondsOf(text) + Worth(component)
<1> DEFINE n == Len(text)
           more == Append(text, component)
<1>1. n \in Nat /\ Len(more) = n + 1 /\ more[n + 1] = component
      /\ \A i \in 1 .. n : more[i] = text[i]
  BY DEF Texts
<1>2. PICK total : IsTotals(total, text, n) /\ SecondsOf(text) = total[n]
  BY <1>1, SecondsAre
<1>3. PICK others : IsTotals(others, more, n + 1) /\ SecondsOf(more) = others[n + 1]
  <2>1. n + 1 \in Nat
    BY <1>1
  <2> HIDE DEF more
  <2>2. \E others : IsTotals(others, more, Len(more)) /\ SecondsOf(more) = others[Len(more)]
    BY <1>1, <2>1, SecondsAre
  <2> QED
    BY <1>1, <2>2
<1> HIDE DEF n, more
<1>4. others[0] = 0 /\ others[n + 1] = others[n] + Worth(component)
  BY <1>1, <1>3 DEF IsTotals
<1>5. others[n + 0] = total[n]
  BY <1>1, <1>2, <1>3, <1>4, TotalsAgree
<1> QED
  BY <1>1, <1>2, <1>3, <1>4, <1>5 DEF more

LEMMA SecondsOfOne ==
  ASSUME NEW component, Worth(component) \in Nat
  PROVE  SecondsOf(<<component>>) = Worth(component)
<1>1. <<>> \in Texts
  BY DEF Texts
<1>2. <<component>> = Append(<<>>, component)
  OBVIOUS
<1>3. SecondsOf(Append(<<>>, component)) = SecondsOf(<<>>) + Worth(component)
  BY <1>1, SecondsOfMore
<1>4. SecondsOf(<<component>>) = 0 + Worth(component)
  BY <1>2, <1>3, SecondsOfNothing
<1> QED
  BY <1>4

(* No weeks before a text change nothing.                                  *)
LEMMA SecondsOfNoWeeks ==
  ASSUME NEW text \in Texts
  PROVE  SecondsOf(<<<<0, "w">>>> \o text) = SecondsOf(text)
<1> DEFINE n == Len(text)
           zero == <<0, "w">>
           more == <<zero>> \o text
<1>1. Worth(zero) = 0
  BY UnitFacts DEF Worth
<1> HIDE DEF zero
<1>2. n \in Nat /\ Len(more) = n + 1 /\ more[1] = zero
      /\ \A i \in 1 .. n : more[i + 1] = text[i]
  BY DEF Texts
<1>3. PICK total : IsTotals(total, text, n) /\ SecondsOf(text) = total[n]
  BY <1>2, SecondsAre
<1>4. PICK others : IsTotals(others, more, n + 1) /\ SecondsOf(more) = others[n + 1]
  <2>1. n + 1 \in Nat
    BY <1>2
  <2> HIDE DEF more
  <2>2. \E others : IsTotals(others, more, Len(more)) /\ SecondsOf(more) = others[Len(more)]
    BY <1>2, <2>1, SecondsAre
  <2> QED
    BY <1>2, <2>2
<1> HIDE DEF n, more
<1>5. others[1] = 0
  BY <1>1, <1>2, <1>4 DEF IsTotals
<1>6. others[n + 1] = total[n]
  BY <1>2, <1>3, <1>4, <1>5, TotalsAgree
<1> QED
  BY <1>3, <1>4, <1>6 DEF more, zero

LEMMA WorthIsNatural ==
  ASSUME NEW component \in Nat \X UnitNames
  PROVE  Worth(component) \in Nat
<1>1. component[1] \in Nat /\ UnitSeconds[component[2]] \in Nat
  BY UnitFacts
<1> DEFINE a == component[1]  b == UnitSeconds[component[2]]
<1> HIDE DEF a, b
<1>2. a * b \in Nat
  BY <1>1 DEF a, b
<1> QED
  BY <1>2 DEF a, b, Worth

LEMMA SecondsAreNatural ==
  ASSUME NEW text \in Texts
  PROVE  SecondsOf(text) \in Nat
<1> DEFINE n == Len(text)
<1>1. n \in Nat /\ \A i \in 1 .. n : text[i] \in Nat \X UnitNames
  BY DEF Texts, UnitNames
<1>2. PICK total : IsTotals(total, text, n) /\ SecondsOf(text) = total[n]
  BY <1>1, SecondsAre
<1> HIDE DEF n
<1> DEFINE T == {i \in Nat : i <= n => total[i] \in Nat}
<1>3. 0 \in T
  BY <1>1, <1>2 DEF IsTotals
<1>4. ASSUME NEW i \in 1 .. n, i - 1 \in T PROVE i \in T
  <2>1. total[i - 1] \in Nat
    BY <1>1, <1>4
  <2>2. total[i] = total[i - 1] + Worth(text[i])
    BY <1>1, <1>2 DEF IsTotals
  <2>3. Worth(text[i]) \in Nat
    BY <1>1, WorthIsNatural
  <2> QED
    BY <2>1, <2>2, <2>3
<1> HIDE DEF T
<1>5. n \in T
  BY <1>1, <1>3, <1>4, UpTo
<1> QED
  BY <1>1, <1>2, <1>5 DEF T

(* The loop of _format_seconds.                                            *)
Parts(before, i) ==
  LET value == before.remaining \div UnitSeconds[Units[i]]
  IN  [remaining |-> before.remaining % UnitSeconds[Units[i]],
       parts |-> IF value = 0 THEN before.parts
                 ELSE Append(before.parts, <<value, Units[i]>>)]

Undivided(seconds) == [remaining |-> seconds, parts |-> <<>>]

IsLoop(loop, seconds, n) ==
  loop = [i \in 0 .. n |-> IF i = 0 THEN Undivided(seconds) ELSE Parts(loop[i - 1], i)]

LEMMA LoopsExist ==
  ASSUME NEW seconds, NEW n \in Nat
  PROVE  \E loop : IsLoop(loop, seconds, n)
<1> DEFINE T == {k \in Nat : \E loop : IsLoop(loop, seconds, k)}
<1>1. 0 \in T
  <2>1. IsLoop([i \in 0 .. 0 |-> Undivided(seconds)], seconds, 0)
    BY DEF IsLoop
  <2> QED
    BY <2>1
<1>2. ASSUME NEW k \in 1 .. n, k - 1 \in T PROVE k \in T
  <2>1. PICK loop : IsLoop(loop, seconds, k - 1)
    BY <1>2
  <2>2. /\ DOMAIN loop = 0 .. k - 1
        /\ \A i \in 0 .. k - 1 :
             loop[i] = IF i = 0 THEN Undivided(seconds) ELSE Parts(loop[i - 1], i)
    BY <2>1 DEF IsLoop
  <2> DEFINE last == Parts(loop[k - 1], k)
             longer == [i \in 0 .. k |-> IF i = k THEN last ELSE loop[i]]
  <2>3. ASSUME NEW i \in 0 .. k
        PROVE  longer[i] = IF i = 0 THEN Undivided(seconds) ELSE Parts(longer[i - 1], i)
    <3>1. i # k => i \in 0 .. k - 1
      OBVIOUS
    <3>2. i # 0 => i - 1 \in 0 .. k /\ i - 1 # k
      OBVIOUS
    <3> QED
      BY <2>2, <3>1, <3>2
  <2>4. longer = [i \in 0 .. k |-> longer[i]]
    OBVIOUS
  <2> HIDE DEF longer
  <2>5. IsLoop(longer, seconds, k)
    BY <2>3, <2>4 DEF IsLoop
  <2> QED
    BY <2>5
<1> HIDE DEF T
<1>3. n \in T
  BY <1>1, <1>2, UpTo
<1> QED
  BY <1>3 DEF T

LEMMA AfterUnitsLoops ==
  ASSUME NEW seconds
  PROVE  IsLoop(AfterUnits(seconds), seconds, 5)
<1> DEFINE loop == CHOOSE f : IsLoop(f, seconds, 5)
<1>1. \E f : IsLoop(f, seconds, 5)
  BY LoopsExist
<1>2. IsLoop(loop, seconds, 5)
  BY <1>1
<1>3. AfterUnits(seconds) = loop
  BY UnitFacts DEF AfterUnits, IsLoop, Parts, Undivided
<1> HIDE DEF loop
<1> QED
  BY <1>2, <1>3

(* A text of the first i units, descending.                                *)
Descends(text, i) ==
  /\ text \in Texts
  /\ \A j \in 1 .. Len(text) : Rank(text[j][2]) \in 1 .. i
  /\ \A j \in 1 .. Len(text) - 1 : Rank(text[j][2]) < Rank(text[j + 1][2])

(* What holds of the parts when the first i units are dealt with.          *)
Divided(state, seconds, i) ==
  /\ state.remaining \in Nat
  /\ Descends(state.parts, i)
  /\ SecondsOf(state.parts) + state.remaining = seconds

LEMMA Quotient ==
  ASSUME NEW x \in Nat, NEW m \in Nat \ {0}
  PROVE  /\ x \div m \in Nat /\ x % m \in 0 .. m - 1
         /\ (x \div m) * m + (x % m) = x
OBVIOUS

LEMMA AppendedRanks ==
  ASSUME NEW text, NEW component \in Nat \X UnitNames, NEW i \in 1 .. 5,
         Rank(component[2]) = i, Descends(text, i - 1)
  PROVE  Descends(Append(text, component), i)
<1> DEFINE n == Len(text)
           more == Append(text, component)
<1>0. /\ text \in Texts
      /\ \A j \in 1 .. Len(text) : Rank(text[j][2]) \in 1 .. i - 1
      /\ \A j \in 1 .. Len(text) - 1 : Rank(text[j][2]) < Rank(text[j + 1][2])
  BY DEF Descends
<1>1. more \in Texts
  BY <1>0 DEF Texts, UnitNames
<1>2. n \in Nat /\ Len(more) = n + 1 /\ more[n + 1] = component
      /\ \A j \in 1 .. n : more[j] = text[j]
  BY <1>0 DEF Texts
<1> HIDE DEF n, more
<1>3. ASSUME NEW j \in 1 .. n + 1 PROVE Rank(more[j][2]) \in 1 .. i
  <2>1. CASE j = n + 1
    BY <1>2, <2>1
  <2>2. CASE j # n + 1
    <3>1. j \in 1 .. n
      BY <1>2, <2>2
    <3>2. Rank(text[j][2]) \in 1 .. i - 1
      BY <1>0, <3>1 DEF n
    <3> QED
      BY <1>2, <3>1, <3>2
  <2> QED
    BY <2>1, <2>2
<1>4. ASSUME NEW j \in 1 .. n PROVE Rank(more[j][2]) < Rank(more[j + 1][2])
  <2>1. CASE j = n
    <3>1. n \in 1 .. Len(text)
      BY <1>2, <2>1 DEF n
    <3>2. Rank(text[n][2]) \in 1 .. i - 1
      BY <1>0, <3>1
    <3>3. more[j] = text[n] /\ more[j + 1] = component
      BY <1>2, <2>1
    <3> QED
      BY <3>2, <3>3
  <2>2. CASE j # n
    <3>1. j \in 1 .. n - 1 /\ j + 1 \in 1 .. n
      BY <1>2, <2>2
    <3>2. Rank(text[j][2]) < Rank(text[j + 1][2])
      BY <1>0, <3>1 DEF n
    <3> QED
      BY <1>2, <3>1, <3>2
  <2> QED
    BY <2>1, <2>2
<1>5. Descends(more, i)
  BY <1>1, <1>2, <1>3, <1>4 DEF Descends
<1> QED
  BY <1>5 DEF more

LEMMA DividedFurther ==
  ASSUME NEW state, NEW seconds \in Nat, NEW i \in 1 .. 5, Divided(state, seconds, i - 1)
  PROVE  Divided(Parts(state, i), seconds, i)
<1> DEFINE size == UnitSeconds[Units[i]]
           value == state.remaining \div size
           rest == state.remaining % size
           text == state.parts
           after == Parts(state, i)
           component == <<value, Units[i]>>
<1>1. size \in Nat \ {0} /\ Units[i] \in UnitNames /\ Rank(Units[i]) = i
  BY UnitFacts
<1>2. /\ state.remaining \in Nat /\ text \in Texts /\ Descends(text, i - 1)
      /\ SecondsOf(text) + state.remaining = seconds
  BY DEF Divided, Descends
<1>3. value \in Nat /\ rest \in Nat /\ value * size + rest = state.remaining
  <2> DEFINE x == state.remaining
  <2>1. x \in Nat
    BY <1>2
  <2> HIDE DEF size, x
  <2>2. /\ x \div size \in Nat /\ x % size \in 0 .. size - 1
        /\ (x \div size) * size + (x % size) = x
    BY <1>1, <2>1, Quotient
  <2> QED
    BY <1>1, <2>2 DEF x
<1>4. Worth(component) = value * size
  BY DEF Worth
<1>5. after.remaining = rest
      /\ after.parts = IF value = 0 THEN text ELSE Append(text, component)
  BY DEF Parts
<1>6. component \in Nat \X UnitNames /\ component[2] = Units[i]
  <2> HIDE DEF value
  <2> QED
    BY <1>1, <1>3
<1>7. SecondsOf(text) \in Nat
  BY <1>2, SecondsAreNatural
<1>8. value * size \in Nat
  <2> HIDE DEF value, size
  <2> QED
    BY <1>1, <1>3
<1> HIDE DEF size, value, rest, text, after, component
<1>9. CASE value = 0
  <2>1. value * size = 0
    BY <1>1, <1>9
  <2>2. rest = state.remaining
    BY <1>2, <1>3, <2>1
  <2>3. after.parts = text
    BY <1>5, <1>9
  <2>4. Descends(text, i)
    BY <1>2 DEF Descends
  <2>5. Divided(after, seconds, i)
    BY <1>2, <1>3, <1>5, <2>2, <2>3, <2>4 DEF Divided
  <2> QED
    BY <2>5 DEF after
<1>10. CASE value # 0
  <2>1. after.parts = Append(text, component)
    BY <1>5, <1>10
  <2>2. SecondsOf(after.parts) = SecondsOf(text) + value * size
    BY <1>2, <1>4, <2>1, SecondsOfMore
  <2>3. SecondsOf(after.parts) + rest = seconds
    BY <1>2, <1>3, <1>7, <1>8, <2>2
  <2>4. Descends(Append(text, component), i)
    BY <1>1, <1>2, <1>6, AppendedRanks
  <2>5. Divided(after, seconds, i)
    BY <1>3, <1>5, <2>1, <2>3, <2>4 DEF Divided
  <2> QED
    BY <2>5 DEF after
<1> QED
  BY <1>9, <1>10

(* The canonical text of a duration parses back to it (duration.py:        *)
(* _format_seconds against Duration.parse).                                *)
THEOREM FormatParsesBack ==
  \A n \in Nat : Parses(Format(n)) /\ SecondsOf(Format(n)) = n
<1> SUFFICES ASSUME NEW n \in Nat PROVE Parses(Format(n)) /\ SecondsOf(Format(n)) = n
  OBVIOUS
<1>1. CASE n = 0
  <2> DEFINE zero == <<0, "s">>
  <2>1. Format(n) = <<zero>>
    BY <1>1 DEF Format
  <2>2. Worth(zero) = 0 /\ zero \in Nat \X UnitNames
    BY UnitFacts DEF Worth
  <2> HIDE DEF zero
  <2>3. SecondsOf(<<zero>>) = 0
    BY <2>2, SecondsOfOne
  <2>4. <<zero>> \in Texts /\ <<zero>> # <<>> /\ Len(<<zero>>) = 1
    BY <2>2 DEF Texts, UnitNames
  <2>5. 1 .. Len(<<zero>>) - 1 = {}
    BY <2>4
  <2> QED
    BY <1>1, <2>1, <2>3, <2>4, <2>5 DEF Parses
<1>2. CASE n # 0
  <2> DEFINE loop == AfterUnits(n)
             T == {i \in Nat : i <= 5 => Divided(loop[i], n, i)}
  <2>1. IsLoop(loop, n, 5)
    BY AfterUnitsLoops
  <2> HIDE DEF loop
  <2>2. /\ loop[0] = Undivided(n)
        /\ \A i \in 1 .. 5 : loop[i] = Parts(loop[i - 1], i)
    BY <2>1 DEF IsLoop
  <2>3. Divided(loop[0], n, 0)
    <3>1. loop[0].remaining = n /\ loop[0].parts = <<>>
      BY <2>2 DEF Undivided
    <3>2. <<>> \in Texts /\ Len(<<>>) = 0
      BY DEF Texts
    <3>3. Descends(<<>>, 0)
      BY <3>2 DEF Descends
    <3> QED
      BY <3>1, <3>3, SecondsOfNothing DEF Divided
  <2>4. 0 \in T
    BY <2>3
  <2>5. ASSUME NEW i \in 1 .. 5, i - 1 \in T PROVE i \in T
    <3>1. Divided(loop[i - 1], n, i - 1)
      BY <2>5
    <3>2. Divided(loop[i], n, i)
      BY <2>2, <3>1, DividedFurther
    <3> QED
      BY <3>2
  <2>6. 5 \in T
    <3> HIDE DEF T
    <3> QED
      BY <2>4, <2>5, UpTo
  <2>7. Divided(loop[5], n, 5)
    BY <2>6
  <2>8. loop[5].remaining = 0
    <3>1. loop[5].remaining = loop[4].remaining % UnitSeconds[Units[5]]
      BY <2>2 DEF Parts
    <3>2. 4 \in T
      <4> HIDE DEF T
      <4> QED
        BY <2>4, <2>5, UpTo
    <3>3. loop[4].remaining \in Nat
      BY <3>2 DEF Divided
    <3> QED
      BY <3>1, <3>3, UnitFacts
  <2>9. Format(n) = loop[5].parts
    BY <1>2, UnitFacts DEF Format, loop
  <2> DEFINE text == loop[5].parts
  <2>10. text \in Texts /\ SecondsOf(text) = n
    <3>1. text \in Texts /\ SecondsOf(text) + loop[5].remaining = n
      BY <2>7 DEF Divided, Descends
    <3>2. SecondsOf(text) \in Nat
      BY <3>1, SecondsAreNatural
    <3> QED
      BY <2>8, <3>1, <3>2
  <2>11. text # <<>>
    BY <1>2, <2>10, SecondsOfNothing
  <2>12. \A j \in 1 .. Len(text) - 1 : Rank(text[j][2]) < Rank(text[j + 1][2])
    BY <2>7 DEF Divided, Descends
  <2> QED
    BY <2>9, <2>10, <2>11, <2>12 DEF Parses
<1> QED
  BY <1>1, <1>2

(* A text spelled otherwise is as long.                                    *)
LEMMA RespellingsKeepSeconds ==
  ASSUME NEW text, NEW other \in Respellings(text)
  PROVE  Parses(text) /\ Parses(other) /\ SecondsOf(other) = SecondsOf(text)
<1>1. Parses(text) /\ Parses(other)
      /\ other \in {<<<<SecondsOf(text), "s">>>>, <<<<0, "w">>>> \o text}
  BY DEF Respellings
<1>2. text \in Texts
  BY <1>1 DEF Parses
<1>3. CASE other = <<<<SecondsOf(text), "s">>>>
  <2> DEFINE n == SecondsOf(text)
             component == <<n, "s">>
  <2>1. n \in Nat
    BY <1>2, SecondsAreNatural
  <2> HIDE DEF n
  <2>2. Worth(component) = n
    BY <2>1, UnitFacts DEF Worth
  <2> HIDE DEF component
  <2>3. SecondsOf(<<component>>) = n
    BY <2>1, <2>2, SecondsOfOne
  <2> QED
    BY <1>1, <1>3, <2>3 DEF component, n
<1>4. CASE other = <<<<0, "w">>>> \o text
  BY <1>1, <1>2, <1>4, SecondsOfNoWeeks
<1> QED
  BY <1>1, <1>3, <1>4

-----------------------------------------------------------------------------
(* An allowed set is listed in ascending order, each member once.          *)

Below(S, a) == {b \in S : b < a}

LEMMA AscendingLists ==
  ASSUME NEW S \in SUBSET Nat, IsFiniteSet(S)
  PROVE  Ascending(S) \in Seq(S) /\ ToSet(Ascending(S)) = S
<1> DEFINE n == Cardinality(S)
           rank == [a \in S |-> Cardinality(Below(S, a)) + 1]
<1>1. n \in Nat
  BY FS_CardinalityType
<1>2. ASSUME NEW a \in S PROVE /\ Cardinality(Below(S, a)) \in 0 .. n - 1
  <2>1. Below(S, a) \in SUBSET S /\ Below(S, a) # S
    BY DEF Below
  <2>2. /\ IsFiniteSet(Below(S, a)) /\ Cardinality(Below(S, a)) <= n
        /\ (n = Cardinality(Below(S, a)) => S = Below(S, a))
    BY <2>1, FS_Subset
  <2>3. Cardinality(Below(S, a)) \in Nat
    BY <2>2, FS_CardinalityType
  <2> QED
    BY <1>1, <2>1, <2>2, <2>3
<1>3. ASSUME NEW a \in S, NEW b \in S, a < b
      PROVE  Cardinality(Below(S, a)) # Cardinality(Below(S, b))
  <2>1. Below(S, a) \in SUBSET Below(S, b) /\ a \in Below(S, b) /\ a \notin Below(S, a)
    <3>1. \A c \in S : c < a => c < b
      BY <1>3
    <3>2. a \in Nat /\ ~(a < a)
      OBVIOUS
    <3> QED
      BY <1>3, <3>1, <3>2 DEF Below
  <2>2. IsFiniteSet(Below(S, b))
    <3>1. Below(S, b) \in SUBSET S
      BY DEF Below
    <3> QED
      BY <3>1, FS_Subset
  <2>3. Cardinality(Below(S, b)) = Cardinality(Below(S, a)) => Below(S, b) = Below(S, a)
    BY <2>1, <2>2, FS_Subset
  <2> QED
    BY <2>1, <2>3
<1>4. \A a, b \in S : Cardinality(Below(S, a)) = Cardinality(Below(S, b)) => a = b
  <2>1. \A a, b \in S : a < b \/ b < a \/ a = b
    OBVIOUS
  <2> QED
    BY <1>3, <2>1
<1>5. rank \in [S -> 1 .. n]
  <2>1. \A a \in S : Cardinality(Below(S, a)) + 1 \in 1 .. n
    BY <1>1, <1>2
  <2> QED
    BY <2>1
<1>6. \A a, b \in S : rank[a] = rank[b] => a = b
  <2>1. \A a, b \in S : rank[a] = rank[b] => Cardinality(Below(S, a)) = Cardinality(Below(S, b))
    BY <1>2
  <2> QED
    BY <1>4, <2>1
<1>7. rank \in Injection(S, 1 .. n)
  BY <1>5, <1>6 DEF Injection, IsInjective
<1>8. IsFiniteSet(1 .. n) /\ Cardinality(1 .. n) = n
  BY <1>1, FS_Interval
<1>9. rank \in Surjection(S, 1 .. n)
  <2> HIDE DEF rank, n
  <2>1. Cardinality(S) = Cardinality(1 .. n)
    BY <1>8 DEF n
  <2> QED
    BY <1>7, <1>8, <2>1, FS_Injection
<1>10. \A i \in 1 .. n : \E a \in S : rank[a] = i
  BY <1>9 DEF Surjection
<1> DEFINE chosen(i) == CHOOSE a \in S : Cardinality(Below(S, a)) = i - 1
<1>11. ASSUME NEW i \in 1 .. n
       PROVE  chosen(i) \in S /\ Cardinality(Below(S, chosen(i))) = i - 1
  <2>1. PICK a \in S : rank[a] = i
    BY <1>10
  <2>2. Cardinality(Below(S, a)) = i - 1
    BY <1>1, <1>2, <2>1
  <2> QED
    BY <2>2
<1>12. Ascending(S) = [i \in 1 .. n |-> chosen(i)]
  BY DEF Ascending, Below
<1> HIDE DEF chosen, rank, n
<1>13. Ascending(S) \in [1 .. n -> S]
  BY <1>11, <1>12
<1>14. \A a \in S : \E i \in 1 .. n : Ascending(S)[i] = a
  <2> SUFFICES ASSUME NEW a \in S PROVE \E i \in 1 .. n : Ascending(S)[i] = a
    OBVIOUS
  <2> DEFINE i == Cardinality(Below(S, a)) + 1
  <2>1. i \in 1 .. n /\ i - 1 = Cardinality(Below(S, a))
    BY <1>1, <1>2
  <2> HIDE DEF i
  <2>2. chosen(i) \in S /\ Cardinality(Below(S, chosen(i))) = Cardinality(Below(S, a))
    BY <1>11, <2>1
  <2>3. chosen(i) = a
    BY <1>4, <2>2
  <2> QED
    BY <1>12, <2>1, <2>3
<1>15. Ascending(S) \in Seq(S)
  BY <1>1, <1>13
<1>16. ToSet(Ascending(S)) = S
  <2> DEFINE list == Ascending(S)
  <2> HIDE DEF list
  <2>1. list \in [1 .. n -> S] /\ \A a \in S : \E i \in 1 .. n : list[i] = a
    BY <1>13, <1>14 DEF list
  <2>2. {list[i] : i \in 1 .. n} = S
    BY <2>1
  <2>3. ToSet(list) = S
    BY <2>1, <2>2 DEF ToSet
  <2> QED
    BY <2>3 DEF list
<1> QED
  BY <1>15, <1>16

-----------------------------------------------------------------------------
(* What is written is read as it was.                                      *)

LEMMA ScalarIsRead ==
  ASSUME NEW role \in Roles, NEW n \in Nat, role = "periods" => n > 0
  PROVE  /\ Readable(role, Scalar(role, n)) /\ Reading(role, Scalar(role, n)) = n
         /\ Scalar(role, n) # <<>>
<1>1. n # NoMinimum
  BY DEF NoMinimum
<1>2. CASE role = "periods"
  <2> DEFINE component == <<n, "int">>
  <2>1. Scalar(role, n) = <<component>>
    BY <1>1, <1>2 DEF Scalar
  <2>2. component \in (Nat \ {0}) \X {"int"} /\ component[1] = n
    BY <1>2
  <2> HIDE DEF component
  <2>3. /\ <<component>> \in Seq((Nat \ {0}) \X {"int"}) /\ Len(<<component>>) = 1
        /\ <<component>>[1][1] = n /\ <<component>> # <<>>
    BY <2>2
  <2> QED
    BY <1>2, <2>1, <2>3 DEF Readable, Reading
<1>3. CASE role # "periods"
  <2>1. Scalar(role, n) = Format(n)
    BY <1>1, <1>3 DEF Scalar
  <2>2. Parses(Format(n)) /\ SecondsOf(Format(n)) = n
    BY FormatParsesBack
  <2> QED
    BY <1>3, <2>1, <2>2 DEF Readable, Reading, Parses
<1> QED
  BY <1>2, <1>3

LEMMA MinimumIsRead ==
  ASSUME NEW role \in Roles, NEW n \in Nat \cup {NoMinimum},
         role = "periods" /\ n # NoMinimum => n > 0
  PROVE  /\ ReadableMinimum(role, Scalar(role, n))
         /\ ReadMinimum(role, Scalar(role, n)) = n
<1>1. CASE n = NoMinimum
  <2>1. Scalar(role, n) = <<>>
    BY <1>1 DEF Scalar
  <2> QED
    BY <1>1, <2>1 DEF ReadableMinimum, ReadMinimum
<1>2. CASE n # NoMinimum
  BY <1>2, ScalarIsRead DEF ReadableMinimum, ReadMinimum
<1> QED
  BY <1>1, <1>2

(* A list whose every scalar is read as it was.                            *)
LEMMA ListIsRead ==
  ASSUME NEW role \in Roles, NEW list \in Seq(Nat),
         role = "periods" => \A i \in DOMAIN list : list[i] > 0
  PROVE  /\ AllReadable(role, Scalars(role, list))
         /\ Readings(role, Scalars(role, list)) = list
<1> DEFINE n == Len(list)
           jsons == Scalars(role, list)
<1>1. n \in Nat /\ DOMAIN list = 1 .. n /\ list \in [1 .. n -> Nat]
  OBVIOUS
<1> HIDE DEF n
<1>2. jsons = [i \in 1 .. n |-> Scalar(role, list[i])]
  BY <1>1 DEF Scalars
<1>3. \A i \in 1 .. n : /\ Readable(role, Scalar(role, list[i]))
                       /\ Reading(role, Scalar(role, list[i])) = list[i]
  BY <1>1, ScalarIsRead
<1> HIDE DEF jsons
<1>4. DOMAIN jsons = 1 .. n /\ jsons \in [1 .. n -> ToSet(jsons)]
  BY <1>2 DEF ToSet
<1>5. AllReadable(role, jsons)
  BY <1>1, <1>2, <1>3, <1>4 DEF AllReadable, IsList
<1>6. Readings(role, jsons) = list
  <2>1. Readings(role, jsons) = [i \in 1 .. n |-> list[i]]
    BY <1>2, <1>3, <1>4 DEF Readings
  <2>2. list = [i \in 1 .. n |-> list[i]]
    BY <1>1
  <2> QED
    BY <2>1, <2>2
<1> QED
  BY <1>5, <1>6 DEF jsons

(* The ratio beside the parameters changes none of them.                   *)
Beside(p, role, parameters) ==
  /\ DOMAIN p = DOMAIN parameters \cup (IF role = "periods" THEN {} ELSE {"limiting_ratio"})
  /\ \A key \in DOMAIN parameters : p[key] = parameters[key]

LEMMA RatioIsBeside ==
  ASSUME NEW role, NEW parameters, NEW ratio, "limiting_ratio" \notin DOMAIN parameters
  PROVE  Beside(WithRatio(role, parameters, ratio), role, parameters)
BY DEF WithRatio, With, Beside

LEMMA MetallicIsRead ==
  ASSUME NEW role \in Roles, NEW spec \in MetallicSpecs, MetallicSpec(spec),
         NEW p, p = MetallicParameters(role, spec)
  PROVE  MetallicReadable(role, p) /\ ReadMetallic(role, p) = spec
<1> DEFINE parameters ==
             [coefficient |-> spec.coefficient,
              seed |-> Scalar(role, spec.seed), grain |-> Scalar(role, spec.grain),
              minimum |-> Scalar(role, spec.minimum), maximum |-> Scalar(role, spec.maximum),
              rounding |-> spec.rounding]
           keys == {"coefficient", "seed", "grain", "minimum", "maximum", "rounding"}
<1>1. /\ spec.kind = "metallic_recurrence" /\ spec.seed \in Nat /\ spec.grain \in Nat
      /\ spec.minimum \in Nat \cup {NoMinimum} /\ spec.maximum \in Nat
      /\ spec.rounding \in Roundings
      /\ spec = [kind |-> spec.kind, coefficient |-> spec.coefficient, seed |-> spec.seed,
                 grain |-> spec.grain, minimum |-> spec.minimum, maximum |-> spec.maximum,
                 rounding |-> spec.rounding]
  BY DEF MetallicSpecs
<1>2. /\ spec.seed > 0 /\ spec.grain > 0 /\ spec.maximum > 0
      /\ spec.minimum # NoMinimum => spec.minimum > 0
  BY DEF MetallicSpec, OrderedBounds
<1>3. DOMAIN parameters = keys
  OBVIOUS
<1>4. /\ parameters.coefficient = spec.coefficient /\ parameters.rounding = spec.rounding
      /\ parameters.seed = Scalar(role, spec.seed) /\ parameters.grain = Scalar(role, spec.grain)
      /\ parameters.minimum = Scalar(role, spec.minimum)
      /\ parameters.maximum = Scalar(role, spec.maximum)
  OBVIOUS
<1> DEFINE ratio == <<spec.coefficient.num, spec.coefficient.den>>
<1>5. p = WithRatio(role, parameters, ratio)
  BY DEF MetallicParameters
<1> HIDE DEF parameters, ratio
<1>6. /\ DOMAIN p = keys \cup (IF role = "periods" THEN {} ELSE {"limiting_ratio"})
      /\ \A key \in keys : p[key] = parameters[key]
  <2>1. "limiting_ratio" \notin DOMAIN parameters
    BY <1>3
  <2>2. Beside(p, role, parameters)
    BY <1>5, <2>1, RatioIsBeside
  <2> QED
    BY <1>3, <2>2 DEF Beside
<1>7. /\ p.coefficient = spec.coefficient /\ p.rounding = spec.rounding
      /\ p.seed = Scalar(role, spec.seed) /\ p.grain = Scalar(role, spec.grain)
      /\ p.minimum = Scalar(role, spec.minimum) /\ p.maximum = Scalar(role, spec.maximum)
  BY <1>4, <1>6
<1>8. /\ Readable(role, p.seed) /\ Reading(role, p.seed) = spec.seed
      /\ Readable(role, p.grain) /\ Reading(role, p.grain) = spec.grain
      /\ Readable(role, p.maximum) /\ Reading(role, p.maximum) = spec.maximum
  BY <1>1, <1>2, <1>7, ScalarIsRead
<1>9. ReadableMinimum(role, p.minimum) /\ ReadMinimum(role, p.minimum) = spec.minimum
  BY <1>1, <1>2, <1>7, MinimumIsRead
<1>10. MetallicReadable(role, p)
  BY <1>1, <1>6, <1>7, <1>8, <1>9 DEF MetallicReadable, HasKeys
<1>11. ReadMetallic(role, p) = spec
  BY <1>1, <1>7, <1>8, <1>9 DEF ReadMetallic
<1> QED
  BY <1>10, <1>11

LEMMA LogSpacedIsRead ==
  ASSUME NEW role \in Roles, NEW spec \in LogSpacedSpecs, LogSpacedSpec(spec),
         NEW p, p = LogSpacedParameters(role, spec)
  PROVE  LogSpacedReadable(role, p) /\ ReadLogSpaced(role, p) = spec
<1> DEFINE parameters ==
             [count |-> spec.count,
              minimum |-> Scalar(role, spec.minimum), maximum |-> Scalar(role, spec.maximum),
              grain |-> Scalar(role, spec.grain), rounding |-> spec.rounding]
           keys == {"count", "minimum", "maximum", "grain", "rounding"}
<1>1. /\ spec.kind = "log_spaced" /\ spec.minimum \in Nat /\ spec.maximum \in Nat
      /\ spec.grain \in Nat /\ spec.rounding \in Roundings
      /\ spec = [kind |-> spec.kind, count |-> spec.count, minimum |-> spec.minimum,
                 maximum |-> spec.maximum, grain |-> spec.grain, rounding |-> spec.rounding]
  BY DEF LogSpacedSpecs
<1>2. spec.minimum > 0 /\ spec.grain > 0 /\ spec.maximum > 0
  BY DEF LogSpacedSpec
<1>3. DOMAIN parameters = keys
  OBVIOUS
<1>4. /\ parameters.count = spec.count /\ parameters.rounding = spec.rounding
      /\ parameters.grain = Scalar(role, spec.grain)
      /\ parameters.minimum = Scalar(role, spec.minimum)
      /\ parameters.maximum = Scalar(role, spec.maximum)
  OBVIOUS
<1> DEFINE ratio == <<spec.count, spec.minimum, spec.maximum>>
<1>5. p = WithRatio(role, parameters, ratio)
  BY DEF LogSpacedParameters
<1> HIDE DEF parameters, ratio
<1>6. /\ DOMAIN p = keys \cup (IF role = "periods" THEN {} ELSE {"limiting_ratio"})
      /\ \A key \in keys : p[key] = parameters[key]
  <2>1. "limiting_ratio" \notin DOMAIN parameters
    BY <1>3
  <2>2. Beside(p, role, parameters)
    BY <1>5, <2>1, RatioIsBeside
  <2> QED
    BY <1>3, <2>2 DEF Beside
<1>7. /\ p.count = spec.count /\ p.rounding = spec.rounding
      /\ p.grain = Scalar(role, spec.grain)
      /\ p.minimum = Scalar(role, spec.minimum) /\ p.maximum = Scalar(role, spec.maximum)
  BY <1>4, <1>6
<1>8. /\ Readable(role, p.minimum) /\ Reading(role, p.minimum) = spec.minimum
      /\ Readable(role, p.grain) /\ Reading(role, p.grain) = spec.grain
      /\ Readable(role, p.maximum) /\ Reading(role, p.maximum) = spec.maximum
  BY <1>1, <1>2, <1>7, ScalarIsRead
<1>9. LogSpacedReadable(role, p)
  BY <1>1, <1>6, <1>7, <1>8 DEF LogSpacedReadable, HasKeys
<1>10. ReadLogSpaced(role, p) = spec
  BY <1>1, <1>7, <1>8 DEF ReadLogSpaced
<1> QED
  BY <1>9, <1>10

LEMMA PeriodsAreRead ==
  ASSUME NEW spec \in PeriodsSpecs, \A i \in DOMAIN spec.periods : spec.periods[i] > 0,
         NEW p, p = ExplicitParameters("periods", spec)
  PROVE  ExplicitReadable("periods", p) /\ ReadExplicit("periods", p) = spec
<1>1. spec.kind = "explicit" /\ spec.periods \in Seq(Nat)
      /\ spec = [kind |-> spec.kind, periods |-> spec.periods]
  BY DEF PeriodsSpecs
<1>2. DOMAIN p = {"periods"} /\ p.periods = Scalars("periods", spec.periods)
  BY DEF ExplicitParameters
<1>3. "periods" \in Roles
  BY DEF Roles
<1>4. AllReadable("periods", p.periods) /\ Readings("periods", p.periods) = spec.periods
  BY <1>1, <1>2, <1>3, ListIsRead
<1> QED
  BY <1>1, <1>2, <1>4 DEF ExplicitReadable, ReadExplicit

LEMMA NameIsRead ==
  ASSUME NEW role \in Roles \ {"periods"}, NEW spec, NamedSpec("explicit", spec),
         NEW p, p = ExplicitParameters(role, spec)
  PROVE  ExplicitReadable(role, p) /\ ReadExplicit(role, p) = spec
<1> DEFINE parameters == [name |-> spec.name]
<1> DEFINE ratio == <<>>
<1>1. p = WithRatio(role, parameters, ratio)
  BY DEF ExplicitParameters
<1>2. DOMAIN parameters = {"name"} /\ parameters.name = spec.name
      /\ "limiting_ratio" \notin DOMAIN parameters
  OBVIOUS
<1> HIDE DEF parameters, ratio
<1>3. /\ DOMAIN p = DOMAIN parameters \cup (IF role = "periods" THEN {} ELSE {"limiting_ratio"})
      /\ \A key \in DOMAIN parameters : p[key] = parameters[key]
  <2>1. Beside(p, role, parameters)
    BY <1>1, <1>2, RatioIsBeside
  <2> QED
    BY <2>1 DEF Beside
<1>4. DOMAIN p = {"name", "limiting_ratio"} /\ p.name = spec.name
  BY <1>2, <1>3
<1> QED
  BY <1>4 DEF ExplicitReadable, ReadExplicit, HasKeys, NamedSpec

LEMMA WOverKIsRead ==
  ASSUME NEW spec \in WOverKSpecs, IsFiniteSet(spec.allowed),
         NEW p, p = WOverKParameters(spec)
  PROVE  WOverKReadable(p) /\ ReadWOverK(p) = spec
<1> DEFINE list == Ascending(spec.allowed)
<1>1. /\ spec.kind = "w_over_k" /\ spec.allowed \in SUBSET Nat /\ spec.source \in Nat
      /\ spec = [kind |-> spec.kind, divisor |-> spec.divisor, allowed |-> spec.allowed,
                 source |-> spec.source]
  BY DEF WOverKSpecs
<1>2. list \in Seq(spec.allowed) /\ ToSet(list) = spec.allowed
  BY <1>1, AscendingLists
<1>3. list \in Seq(Nat)
  <2> HIDE DEF list
  <2> QED
    BY <1>1, <1>2
<1>4. /\ DOMAIN p = {"divisor", "allowed", "source_cadence"}
      /\ p.divisor = spec.divisor /\ p.source_cadence = Format(spec.source)
      /\ p.allowed = [i \in DOMAIN list |-> Format(list[i])]
  BY DEF WOverKParameters
<1> HIDE DEF list
<1>5. p.allowed = Scalars("pairs", list)
  <2>1. \A i \in DOMAIN list : Scalar("pairs", list[i]) = Format(list[i])
    BY <1>3 DEF Scalar, NoMinimum
  <2> QED
    BY <1>4, <2>1 DEF Scalars
<1>6. "pairs" \in Roles
  BY DEF Roles
<1>7. AllReadable("pairs", p.allowed) /\ Readings("pairs", p.allowed) = list
  BY <1>3, <1>5, <1>6, ListIsRead
<1>8. Parses(p.source_cadence) /\ SecondsOf(p.source_cadence) = spec.source
  BY <1>1, <1>4, FormatParsesBack
<1>9. WOverKReadable(p)
  BY <1>4, <1>7, <1>8 DEF WOverKReadable
<1>10. ReadWOverK(p) = spec
  BY <1>1, <1>2, <1>4, <1>7, <1>8 DEF ReadWOverK
<1> QED
  BY <1>9, <1>10

(* The parameters of any kind.                                             *)
LEMMA SpecIsRead ==
  ASSUME NEW role \in Roles, NEW spec, spec.kind \in KindsOf(role), IsSpec(role, spec),
         Constructible(role, spec), NEW p, p = Parameters(role, spec)
  PROVE  /\ ParametersReadable(role, spec.kind, p)
         /\ ReadSpec(role, spec.kind, p) = spec
<1>1. \/ spec.kind = "metallic_recurrence" \/ spec.kind = "log_spaced"
      \/ spec.kind = "explicit" \/ spec.kind = "w_over_k" \/ spec.kind = "explicit_pairs"
  BY DEF KindsOf
<1>2. CASE spec.kind = "metallic_recurrence"
  <2>1. spec \in MetallicSpecs /\ MetallicSpec(spec) /\ p = MetallicParameters(role, spec)
    BY <1>2 DEF IsSpec, Constructible, Parameters
  <2>2. MetallicReadable(role, p) /\ ReadMetallic(role, p) = spec
    BY <2>1, MetallicIsRead
  <2> QED
    BY <1>2, <2>2 DEF ParametersReadable, ReadSpec
<1>3. CASE spec.kind = "log_spaced"
  <2>1. spec \in LogSpacedSpecs /\ LogSpacedSpec(spec) /\ p = LogSpacedParameters(role, spec)
    BY <1>3 DEF IsSpec, Constructible, Parameters
  <2>2. LogSpacedReadable(role, p) /\ ReadLogSpaced(role, p) = spec
    BY <2>1, LogSpacedIsRead
  <2> QED
    BY <1>3, <2>2 DEF ParametersReadable, ReadSpec
<1>4. CASE spec.kind = "explicit"
  <2>1. p = ExplicitParameters(role, spec)
    BY <1>4 DEF Parameters
  <2>2. ExplicitReadable(role, p) /\ ReadExplicit(role, p) = spec
    <3>1. CASE role = "periods"
      <4>1. spec \in PeriodsSpecs /\ \A i \in DOMAIN spec.periods : spec.periods[i] > 0
        BY <1>4, <3>1 DEF IsSpec, Constructible
      <4> QED
        BY <2>1, <3>1, <4>1, PeriodsAreRead
    <3>2. CASE role # "periods"
      <4>1. NamedSpec("explicit", spec)
        BY <1>4, <3>2 DEF IsSpec
      <4> QED
        BY <2>1, <3>2, <4>1, NameIsRead
    <3> QED
      BY <3>1, <3>2
  <2> QED
    BY <1>4, <2>2 DEF ParametersReadable, ReadSpec
<1>5. CASE spec.kind = "w_over_k"
  <2>1. spec \in WOverKSpecs /\ IsFiniteSet(spec.allowed) /\ p = WOverKParameters(spec)
    BY <1>5 DEF IsSpec, Parameters
  <2>2. WOverKReadable(p) /\ ReadWOverK(p) = spec
    BY <2>1, WOverKIsRead
  <2> QED
    BY <1>5, <2>2 DEF ParametersReadable, ReadSpec
<1>6. CASE spec.kind = "explicit_pairs"
  <2>1. NamedSpec("explicit_pairs", spec) /\ p = [name |-> spec.name]
    BY <1>6 DEF IsSpec, Parameters
  <2> QED
    BY <1>6, <2>1 DEF ParametersReadable, ReadSpec, NamedSpec
<1> QED
  BY <1>1, <1>2, <1>3, <1>4, <1>5, <1>6

PairRecords == [window : Nat, emit : Nat]

LEMMA PairsAreRead ==
  ASSUME NEW pairs \in Seq(PairRecords), NEW jsons,
         jsons = [i \in DOMAIN pairs |-> <<Format(pairs[i].window), Format(pairs[i].emit)>>]
  PROVE  MembersReadable("pairs", jsons) /\ ReadMembers("pairs", jsons) = pairs
<1> DEFINE n == Len(pairs)
<1>1. n \in Nat /\ DOMAIN pairs = 1 .. n /\ pairs \in [1 .. n -> PairRecords]
  OBVIOUS
<1> HIDE DEF n
<1>2. ASSUME NEW i \in 1 .. n
      PROVE  /\ pairs[i].window \in Nat /\ pairs[i].emit \in Nat
             /\ pairs[i] = [window |-> pairs[i].window, emit |-> pairs[i].emit]
  <2>1. pairs[i] \in PairRecords
    BY <1>1
  <2> QED
    BY <2>1 DEF PairRecords
<1>3. DOMAIN jsons = 1 .. n /\ jsons \in [1 .. n -> ToSet(jsons)]
  BY <1>1 DEF ToSet
<1>4. ASSUME NEW i \in 1 .. n
      PROVE  /\ Parses(jsons[i][1]) /\ SecondsOf(jsons[i][1]) = pairs[i].window
             /\ Parses(jsons[i][2]) /\ SecondsOf(jsons[i][2]) = pairs[i].emit
  <2>1. jsons[i][1] = Format(pairs[i].window) /\ jsons[i][2] = Format(pairs[i].emit)
    BY <1>1
  <2> QED
    BY <1>2, <2>1, FormatParsesBack
<1>5. MembersReadable("pairs", jsons)
  <2>1. IsList(jsons)
    BY <1>1, <1>3 DEF IsList
  <2> QED
    BY <1>3, <1>4, <2>1 DEF MembersReadable
<1>6. ReadMembers("pairs", jsons) = pairs
  <2>1. ReadMembers("pairs", jsons) =
          [i \in 1 .. n |-> [window |-> SecondsOf(jsons[i][1]), emit |-> SecondsOf(jsons[i][2])]]
    BY <1>3 DEF ReadMembers
  <2>2. pairs = [i \in 1 .. n |-> pairs[i]]
    BY <1>1
  <2>3. \A i \in 1 .. n :
          [window |-> SecondsOf(jsons[i][1]), emit |-> SecondsOf(jsons[i][2])] = pairs[i]
    BY <1>2, <1>4
  <2> QED
    BY <2>1, <2>2, <2>3
<1> QED
  BY <1>5, <1>6

LEMMA MembersAreRead ==
  ASSUME NEW a, IsArtifact(a), Accepts(a), NEW jsons, jsons = WrittenMembers(a)
  PROVE  MembersReadable(a.role, jsons) /\ ReadMembers(a.role, jsons) = a.members
<1>1. a.role \in Roles
  BY DEF IsArtifact
<1>2. CASE a.role = "pairs"
  <2>1. a.members \in Seq(PairRecords)
    BY <1>2 DEF IsArtifact, PairRecords
  <2>2. jsons = [i \in DOMAIN a.members |->
                   <<Format(a.members[i].window), Format(a.members[i].emit)>>]
    BY <1>2 DEF WrittenMembers
  <2> QED
    BY <1>2, <2>1, <2>2, PairsAreRead
<1>3. CASE a.role # "pairs"
  <2>1. a.members \in Seq(Nat)
    BY <1>3 DEF IsArtifact
  <2>2. \A i \in DOMAIN a.members : a.members[i] > 0
    BY <1>3 DEF Accepts, ScheduleAccepts, ResolvedList
  <2>3. jsons = Scalars(a.role, a.members)
    BY <1>3 DEF WrittenMembers
  <2>4. AllReadable(a.role, jsons) /\ Readings(a.role, jsons) = a.members
    BY <1>1, <2>1, <2>2, <2>3, ListIsRead
  <2> QED
    BY <1>3, <2>4 DEF MembersReadable, ReadMembers
<1> QED
  BY <1>2, <1>3

(* A payload that has what the identity of a is made of.                   *)
States(payload_, identity) ==
  /\ payload_.kind = identity.kind /\ payload_.parameters = identity.parameters
  /\ payload_.role = identity.role /\ payload_.members = identity.members

LEMMA ReadsAsWritten ==
  ASSUME NEW a, IsArtifact(a), Accepts(a), NEW p, States(p, Identity(a))
  PROVE  WellFormed(a.role, p) /\ ReadArtifact(a.role, p) = a
<1>1. /\ p.kind = a.spec.kind /\ p.parameters = Parameters(a.role, a.spec)
      /\ p.role = a.role /\ p.members = WrittenMembers(a)
  BY DEF States, Identity
<1>2. /\ a.role \in Roles /\ a.spec.kind \in KindsOf(a.role) /\ IsSpec(a.role, a.spec)
      /\ a = [role |-> a.role, spec |-> a.spec, members |-> a.members]
  BY DEF IsArtifact
<1>3. Constructible(a.role, a.spec)
  BY DEF Accepts
<1>4. /\ ParametersReadable(a.role, a.spec.kind, p.parameters)
      /\ ReadSpec(a.role, a.spec.kind, p.parameters) = a.spec
  BY <1>1, <1>2, <1>3, SpecIsRead
<1>5. MembersReadable(a.role, p.members) /\ ReadMembers(a.role, p.members) = a.members
  BY <1>1, MembersAreRead
<1> QED
  BY <1>1, <1>2, <1>4, <1>5 DEF WellFormed, ReadArtifact

(* Two artifacts of one id are one: the id names everything a record       *)
(* states, its role included (the schedule_id of generators.py,            *)
(* lookback.py, horizon.py and cadence.py).                                *)
THEOREM IdentityIsInjective ==
  \A a, b : IsArtifact(a) /\ Accepts(a) /\ IsArtifact(b) /\ Accepts(b) =>
              (Identity(a) = Identity(b) => a = b)
<1> SUFFICES ASSUME NEW a, NEW b, IsArtifact(a), Accepts(a), IsArtifact(b), Accepts(b),
                    Identity(a) = Identity(b)
             PROVE  a = b
  OBVIOUS
<1>1. a.role = b.role
  BY DEF Identity
<1> DEFINE p == Identity(a)
<1>2. States(p, Identity(a)) /\ States(p, Identity(b))
  BY DEF States
<1> HIDE DEF p
<1>3. ReadArtifact(a.role, p) = a /\ ReadArtifact(b.role, p) = b
  BY <1>2, ReadsAsWritten
<1> QED
  BY <1>1, <1>3

-----------------------------------------------------------------------------
(* What is read and taken by the constructor is of its type.               *)

(* The members of a list are finitely many.                                *)
LEMMA FiniteList ==
  ASSUME NEW list \in Seq(Nat)
  PROVE  ToSet(list) \in SUBSET Nat /\ IsFiniteSet(ToSet(list))
<1> DEFINE n == Len(list)
           T == ToSet(list)
<1>1. n \in Nat /\ list \in [1 .. n -> Nat] /\ DOMAIN list = 1 .. n
  OBVIOUS
<1> HIDE DEF n
<1>2. T = {list[i] : i \in 1 .. n}
  BY <1>1 DEF ToSet
<1>3. list \in Surjection(1 .. n, T) /\ T \in SUBSET Nat
  <2>1. list \in [1 .. n -> T]
    BY <1>1, <1>2
  <2> QED
    BY <1>1, <1>2, <2>1 DEF Surjection
<1>4. IsFiniteSet(1 .. n)
  BY <1>1, FS_Interval
<1> HIDE DEF T
<1>5. IsFiniteSet(T)
  BY <1>3, <1>4, FS_Surjection
<1> QED
  BY <1>3, <1>5 DEF T

LEMMA ReadingIsNatural ==
  ASSUME NEW role, NEW json, Readable(role, json)
  PROVE  Reading(role, json) \in Nat
<1>1. CASE role = "periods"
  <2>1. json \in Seq((Nat \ {0}) \X {"int"}) /\ Len(json) = 1
    BY <1>1 DEF Readable
  <2>2. json[1] \in (Nat \ {0}) \X {"int"}
    BY <2>1
  <2>3. json[1][1] \in Nat
    BY <2>2
  <2> QED
    BY <1>1, <2>3 DEF Reading
<1>2. CASE role # "periods"
  BY <1>2, SecondsAreNatural DEF Readable, Reading, Parses
<1> QED
  BY <1>1, <1>2

LEMMA MinimumIsNatural ==
  ASSUME NEW role, NEW json, ReadableMinimum(role, json)
  PROVE  ReadMinimum(role, json) \in Nat \cup {NoMinimum}
BY ReadingIsNatural DEF ReadableMinimum, ReadMinimum

LEMMA ReadingsAreNatural ==
  ASSUME NEW role, NEW jsons, AllReadable(role, jsons)
  PROVE  Readings(role, jsons) \in Seq(Nat)
<1> DEFINE n == Len(jsons)
<1>1. jsons \in Seq(ToSet(jsons)) /\ \A i \in DOMAIN jsons : Readable(role, jsons[i])
  BY DEF AllReadable, IsList
<1>2. n \in Nat /\ DOMAIN jsons = 1 .. n
  BY <1>1
<1> HIDE DEF n
<1>3. \A i \in 1 .. n : Reading(role, jsons[i]) \in Nat
  BY <1>1, <1>2, ReadingIsNatural
<1>4. Readings(role, jsons) \in [1 .. n -> Nat]
  BY <1>2, <1>3 DEF Readings
<1> QED
  BY <1>2, <1>4

LEMMA ReadSpecIsSpec ==
  ASSUME NEW role \in Roles, NEW kind \in KindsOf(role), NEW p,
         ParametersReadable(role, kind, p), Constructible(role, ReadSpec(role, kind, p))
  PROVE  /\ ReadSpec(role, kind, p).kind = kind
         /\ IsSpec(role, ReadSpec(role, kind, p))
<1> DEFINE spec == ReadSpec(role, kind, p)
<1>1. \/ kind = "metallic_recurrence" \/ kind = "log_spaced"
      \/ kind = "explicit" \/ kind = "w_over_k" \/ kind = "explicit_pairs"
  BY DEF KindsOf
<1>2. CASE kind = "metallic_recurrence"
  <2>1. spec = ReadMetallic(role, p) /\ MetallicReadable(role, p) /\ role # "pairs"
    BY <1>2 DEF ReadSpec, ParametersReadable, KindsOf
  <2>2. /\ Readable(role, p.seed) /\ Readable(role, p.grain) /\ Readable(role, p.maximum)
        /\ ReadableMinimum(role, p.minimum) /\ p.rounding \in Roundings
    BY <2>1 DEF MetallicReadable
  <2>3. /\ Reading(role, p.seed) \in Nat /\ Reading(role, p.grain) \in Nat
        /\ Reading(role, p.maximum) \in Nat /\ ReadMinimum(role, p.minimum) \in Nat \cup {NoMinimum}
    BY <2>2, ReadingIsNatural, MinimumIsNatural
  <2>4. spec.kind = kind /\ spec.coefficient = p.coefficient
    BY <1>2, <2>1 DEF ReadMetallic
  <2>5. p.coefficient \in Rational
    BY <1>2, <2>4 DEF Constructible, MetallicSpec
  <2>6. spec \in MetallicSpecs
    BY <2>1, <2>2, <2>3, <2>5 DEF ReadMetallic, MetallicSpecs
  <2> QED
    BY <1>2, <2>1, <2>4, <2>6 DEF IsSpec
<1>3. CASE kind = "log_spaced"
  <2>1. spec = ReadLogSpaced(role, p) /\ LogSpacedReadable(role, p) /\ role # "pairs"
    BY <1>3 DEF ReadSpec, ParametersReadable, KindsOf
  <2>2. /\ Readable(role, p.minimum) /\ Readable(role, p.grain) /\ Readable(role, p.maximum)
        /\ p.rounding \in Roundings
    BY <2>1 DEF LogSpacedReadable
  <2>3. /\ Reading(role, p.minimum) \in Nat /\ Reading(role, p.grain) \in Nat
        /\ Reading(role, p.maximum) \in Nat
    BY <2>2, ReadingIsNatural
  <2>4. spec.kind = kind /\ spec.count = p.count
    BY <1>3, <2>1 DEF ReadLogSpaced
  <2>5. p.count \in Nat
    <3>1. p.count \in 2 .. MaxTerms
      BY <1>3, <2>4 DEF Constructible, LogSpacedSpec
    <3> QED
      BY <3>1, MaxTermsAssumption
  <2>6. spec \in LogSpacedSpecs
    BY <2>1, <2>2, <2>3, <2>5 DEF ReadLogSpaced, LogSpacedSpecs
  <2> QED
    BY <1>3, <2>1, <2>4, <2>6 DEF IsSpec
<1>4. CASE kind = "explicit"
  <2>1. spec = ReadExplicit(role, p) /\ ExplicitReadable(role, p) /\ role # "pairs"
    BY <1>4 DEF ReadSpec, ParametersReadable, KindsOf
  <2>2. CASE role = "periods"
    <3>1. spec = [kind |-> "explicit", periods |-> Readings(role, p.periods)]
      BY <2>1, <2>2 DEF ReadExplicit
    <3>2. Readings(role, p.periods) \in Seq(Nat)
      BY <2>1, <2>2, ReadingsAreNatural DEF ExplicitReadable
    <3>3. spec \in PeriodsSpecs /\ spec.kind = kind
      BY <1>4, <3>1, <3>2 DEF PeriodsSpecs
    <3> QED
      BY <1>4, <2>2, <3>3 DEF IsSpec
  <2>3. CASE role # "periods"
    <3>1. spec = [kind |-> "explicit", name |-> p.name]
      BY <2>1, <2>3 DEF ReadExplicit
    <3>2. NamedSpec("explicit", spec) /\ spec.kind = kind
      BY <1>4, <3>1 DEF NamedSpec
    <3> QED
      BY <1>4, <2>1, <2>3, <3>2 DEF IsSpec
  <2> QED
    BY <2>2, <2>3
<1>5. CASE kind = "w_over_k"
  <2>1. spec = ReadWOverK(p) /\ WOverKReadable(p) /\ role = "pairs"
    BY <1>5 DEF ReadSpec, ParametersReadable, KindsOf
  <2> DEFINE list == Readings("pairs", p.allowed)
             source == SecondsOf(p.source_cadence)
  <2>2. list \in Seq(Nat) /\ source \in Nat
    BY <2>1, ReadingsAreNatural, SecondsAreNatural DEF WOverKReadable, Parses
  <2>3. spec = [kind |-> "w_over_k", divisor |-> p.divisor, allowed |-> ToSet(list),
                source |-> source]
    BY <2>1 DEF ReadWOverK
  <2> HIDE DEF list, source
  <2>4. ToSet(list) \in SUBSET Nat /\ IsFiniteSet(ToSet(list))
    BY <2>2, FiniteList
  <2>5. spec.kind = kind /\ spec.divisor = p.divisor
    BY <1>5, <2>3
  <2>6. p.divisor \in Nat
    BY <1>5, <2>5 DEF Constructible, WOverKSpec
  <2>7. spec \in WOverKSpecs /\ IsFiniteSet(spec.allowed)
    BY <2>2, <2>3, <2>4, <2>6 DEF WOverKSpecs
  <2> QED
    BY <1>5, <2>1, <2>5, <2>7 DEF IsSpec
<1>6. CASE kind = "explicit_pairs"
  <2>1. spec = [kind |-> "explicit_pairs", name |-> p.name] /\ role = "pairs"
    BY <1>6 DEF ReadSpec, KindsOf
  <2>2. NamedSpec("explicit_pairs", spec) /\ spec.kind = kind
    BY <1>6, <2>1 DEF NamedSpec
  <2> QED
    BY <1>6, <2>1, <2>2 DEF IsSpec
<1> QED
  BY <1>1, <1>2, <1>3, <1>4, <1>5, <1>6

LEMMA ReadMembersAreMembers ==
  ASSUME NEW role \in Roles, NEW jsons, MembersReadable(role, jsons)
  PROVE  ReadMembers(role, jsons) \in Seq(IF role = "pairs" THEN PairRecords ELSE Nat)
<1>1. CASE role = "pairs"
  <2> DEFINE n == Len(jsons)
  <2>1. /\ jsons \in Seq(ToSet(jsons))
        /\ \A i \in DOMAIN jsons : Parses(jsons[i][1]) /\ Parses(jsons[i][2])
    BY <1>1 DEF MembersReadable, IsList
  <2>2. n \in Nat /\ DOMAIN jsons = 1 .. n
    BY <2>1
  <2> HIDE DEF n
  <2>3. \A i \in 1 .. n : SecondsOf(jsons[i][1]) \in Nat /\ SecondsOf(jsons[i][2]) \in Nat
    BY <2>1, <2>2, SecondsAreNatural DEF Parses
  <2>4. \A i \in 1 .. n :
          [window |-> SecondsOf(jsons[i][1]), emit |-> SecondsOf(jsons[i][2])] \in PairRecords
    BY <2>3 DEF PairRecords
  <2>5. ReadMembers(role, jsons) \in [1 .. n -> PairRecords]
    BY <1>1, <2>2, <2>4 DEF ReadMembers
  <2> QED
    BY <1>1, <2>2, <2>5
<1>2. CASE role # "pairs"
  BY <1>2, ReadingsAreNatural DEF MembersReadable, ReadMembers
<1> QED
  BY <1>1, <1>2

LEMMA ReadArtifactIsArtifact ==
  ASSUME NEW role \in Roles, NEW p, WellFormed(role, p), Accepts(ReadArtifact(role, p))
  PROVE  IsArtifact(ReadArtifact(role, p))
<1> DEFINE spec == ReadSpec(role, p.kind, p.parameters)
           members == ReadMembers(role, p.members)
           b == ReadArtifact(role, p)
<1>1. b = [role |-> role, spec |-> spec, members |-> members]
  BY DEF ReadArtifact
<1>2. p.kind \in KindsOf(role) /\ ParametersReadable(role, p.kind, p.parameters)
      /\ MembersReadable(role, p.members)
  BY DEF WellFormed
<1> HIDE DEF b
<1>3. b.role = role /\ b.spec = spec /\ b.members = members
  BY <1>1
<1>4. Constructible(role, spec)
  BY <1>3 DEF Accepts, b
<1>5. spec.kind = p.kind /\ IsSpec(role, spec)
  BY <1>2, <1>4, ReadSpecIsSpec
<1>6. members \in Seq(IF role = "pairs" THEN [window : Nat, emit : Nat] ELSE Nat)
  BY <1>2, ReadMembersAreMembers DEF PairRecords
<1> HIDE DEF spec, members
<1>7. IsArtifact(b)
  BY <1>1, <1>2, <1>3, <1>5, <1>6 DEF IsArtifact
<1> QED
  BY <1>7 DEF b

-----------------------------------------------------------------------------
(* The invariant behind the theorems on written forms: what the caller has *)
(* is of its type and taken by its constructor; a payload keeps its keys   *)
(* and the id it was written with; and one that was at most respelled      *)
(* still reads as the artifact.                                            *)

IsPayload(p) == DOMAIN p = {"kind", "parameters", "role", "members", "id"}

ReadsAs(a, p) == WellFormed(a.role, p) /\ ReadArtifact(a.role, p) = a

RecordsSoFar ==
  /\ pc \in {"made", "written", "read"} => IsArtifact(artifact) /\ Accepts(artifact)
  /\ pc \in {"written", "read"} => IsPayload(payload) /\ payload.id = Identity(artifact)
  /\ pc = "written" /\ "content" \notin ToSet(edits) => ReadsAs(artifact, payload)
  /\ ChangesAreNoticed

LEMMA InitRecords == Init => RecordsSoFar
BY DEF Init, RecordsSoFar, ChangesAreNoticed

LEMMA FunctionIsList ==
  ASSUME NEW S, NEW n \in Nat, NEW f \in [1 .. n -> S]
  PROVE  f \in Seq(S)
OBVIOUS

(* A step on which nothing is made, written or read.                       *)
LEMMA UnmadeRecords ==
  ASSUME pc' \notin {"made", "written", "read"}
  PROVE  RecordsSoFar'
BY DEF RecordsSoFar, ChangesAreNoticed

LEMMA ConstructRecords ==
  ASSUME NEW a, IsArtifact(a), NEW how, Construct(a, how)
  PROVE  RecordsSoFar'
<1>1. CASE Refuse(how)
  BY <1>1, UnmadeRecords DEF Refuse
<1>2. CASE ~Refuse(how)
  BY <1>2 DEF Construct, RecordsSoFar, ChangesAreNoticed
<1> QED
  BY <1>1, <1>2

LEMMA FinishRecords ==
  ASSUME SoFar, FinishGeneration
  PROVE  RecordsSoFar'
<1> DEFINE a == [role |-> request.role, spec |-> request.spec, members |-> kept]
<1>1. pc = "resolve" /\ Construct(a, "generation")
  BY DEF FinishGeneration
<1>2. request \in Requests /\ kept \in Seq(Nat)
  BY <1>1 DEF SoFar, TypeOK, Begun
<1>3. /\ request.role \in Roles \ {"pairs"}
      /\ request.spec \in MetallicSpecs \cup LogSpacedSpecs
  BY <1>2, SchedulesAssumption
<1>4. /\ request.spec.kind \in {"metallic_recurrence", "log_spaced"}
      /\ IsSpec(request.role, request.spec)
  <2>1. CASE request.spec \in MetallicSpecs
    <3>1. request.spec.kind = "metallic_recurrence"
      BY <2>1 DEF MetallicSpecs
    <3> QED
      BY <1>3, <2>1, <3>1 DEF IsSpec
  <2>2. CASE request.spec \in LogSpacedSpecs
    <3>1. request.spec.kind = "log_spaced"
      BY <2>2 DEF LogSpacedSpecs
    <3> QED
      BY <1>3, <2>2, <3>1 DEF IsSpec
  <2> QED
    BY <1>3, <2>1, <2>2
<1>5. IsArtifact(a)
  BY <1>2, <1>3, <1>4 DEF IsArtifact, KindsOf
<1> HIDE DEF a
<1> QED
  BY <1>1, <1>5, ConstructRecords

LEMMA NamedRecords ==
  ASSUME NamedSchedule
  PROVE  RecordsSoFar'
<1> DEFINE list == [i \in DOMAIN MetallicLegacy2025 |-> 60 * MetallicLegacy2025[i]]
           spec == [kind |-> "explicit", name |-> "metallic-legacy-2025"]
           a == [role |-> "windows", spec |-> spec, members |-> list]
<1>1. Construct(a, "registry")
  BY DEF NamedSchedule
<1>2. list \in Seq(Nat)
  <2>1. DOMAIN MetallicLegacy2025 = 1 .. 11
    BY DEF MetallicLegacy2025
  <2>2. \A i \in 1 .. 11 : MetallicLegacy2025[i] \in Nat
    BY DEF MetallicLegacy2025
  <2>3. list \in [1 .. 11 -> Nat]
    BY <2>1, <2>2
  <2> HIDE DEF list
  <2> QED
    BY <2>3, FunctionIsList
<1> HIDE DEF list
<1>3. IsSpec("windows", spec) /\ spec.kind = "explicit"
  BY DEF IsSpec, NamedSpec
<1> HIDE DEF spec
<1>4. IsArtifact(a)
  BY <1>2, <1>3 DEF IsArtifact, KindsOf, Roles
<1> HIDE DEF a
<1> QED
  BY <1>1, <1>4, ConstructRecords

(* A rule's emits are cadences, and its allowed set is finite.             *)
LEMMA RuleIsArtifact ==
  ASSUME NEW windows \in Seq(Nat), NEW spec \in WOverKSpecs, IsFiniteSet(spec.allowed),
         Pairable(windows, spec)
  PROVE  IsArtifact(RuleFor(windows, spec))
<1> DEFINE rule == RuleFor(windows, spec)
           pairs == [i \in DOMAIN windows |->
                       [window |-> windows[i], emit |-> ResolveEmit(windows[i], spec)]]
<1>1. rule = [role |-> "pairs", spec |-> spec, members |-> pairs]
  BY DEF RuleFor
<1>2. RuleSpec(spec) /\ spec.kind = "w_over_k"
  BY DEF RuleSpec, WOverKSpecs
<1>3. WOverKSpec(spec) /\ \A i \in DOMAIN windows : ResolveEmit(windows[i], spec) # NoCadence
  BY DEF Pairable
<1>4. \A i \in DOMAIN windows : windows[i] \in Nat
  OBVIOUS
<1>5. \A i \in DOMAIN windows : ResolveEmit(windows[i], spec) \in Nat
  BY <1>2, <1>3, <1>4, EmitServes
<1>6. pairs \in [1 .. Len(windows) -> PairRecords] /\ Len(windows) \in Nat
  <2>1. DOMAIN windows = 1 .. Len(windows) /\ Len(windows) \in Nat
    OBVIOUS
  <2> QED
    BY <1>4, <1>5, <2>1 DEF PairRecords
<1> HIDE DEF pairs
<1>7. pairs \in Seq([window : Nat, emit : Nat])
  <2>1. pairs \in Seq(PairRecords)
    BY <1>6, FunctionIsList
  <2> QED
    BY <2>1 DEF PairRecords
<1>8. IsSpec("pairs", spec)
  BY <1>2 DEF IsSpec
<1> HIDE DEF rule
<1>9. IsArtifact(rule)
  BY <1>1, <1>2, <1>7, <1>8 DEF IsArtifact, KindsOf, Roles
<1> QED
  BY <1>9 DEF rule

LEMMA RuleStepRecords ==
  ASSUME NEW windows \in Seq(Nat), NEW spec \in WOverKSpecs, IsFiniteSet(spec.allowed),
         NEW how, ResolveRule(windows, spec, how)
  PROVE  RecordsSoFar'
<1>1. CASE Pairable(windows, spec) /\ Construct(RuleFor(windows, spec), how)
  <2>1. IsArtifact(RuleFor(windows, spec))
    BY <1>1, RuleIsArtifact
  <2> QED
    BY <1>1, <2>1, ConstructRecords
<1>2. CASE Refuse("no cadence")
  BY <1>2, UnmadeRecords DEF Refuse
<1> QED
  BY <1>1, <1>2 DEF ResolveRule

LEMMA OwnRuleRecords ==
  ASSUME SoFar, NEW k \in Divisors, PairWithItself(k)
  PROVE  RecordsSoFar'
<1> DEFINE spec == [kind |-> "w_over_k", divisor |-> k,
                    allowed |-> ToSet(artifact.members), source |-> artifact.spec.grain]
<1>1. /\ pc = "made" /\ artifact.role = "windows" /\ artifact.spec.kind # "explicit"
      /\ ResolveRule(artifact.members, spec, "own rule")
  BY DEF PairWithItself
<1>2. artifact.members \in Seq(Nat) /\ artifact.spec.grain \in Nat
  BY <1>1 DEF SoFar, ScheduleSoFar
<1>3. k \in Nat
  BY SchedulesAssumption
<1>4. ToSet(artifact.members) \in SUBSET Nat
  BY <1>2 DEF ToSet
<1>5. IsFiniteSet(ToSet(artifact.members))
  BY <1>2, FiniteList
<1>6. spec \in WOverKSpecs /\ IsFiniteSet(spec.allowed)
  BY <1>2, <1>3, <1>4, <1>5 DEF WOverKSpecs
<1> HIDE DEF spec
<1> QED
  BY <1>1, <1>2, <1>6, RuleStepRecords

LEMMA ToDictRecords ==
  ASSUME RecordsSoFar, ToDict
  PROVE  RecordsSoFar'
<1>1. /\ pc = "made" /\ pc' = "written" /\ payload' = Written(artifact)
      /\ artifact' = artifact /\ edits' = edits
  BY DEF ToDict
<1>2. IsArtifact(artifact) /\ Accepts(artifact)
  BY <1>1 DEF RecordsSoFar
<1> DEFINE p == Written(artifact)
<1>3. IsPayload(p) /\ p.id = Identity(artifact) /\ States(p, Identity(artifact))
  BY DEF Written, With, Identity, IsPayload, States
<1> HIDE DEF p
<1>4. ReadsAs(artifact, p)
  BY <1>2, <1>3, ReadsAsWritten DEF ReadsAs
<1> QED
  BY <1>1, <1>2, <1>3, <1>4 DEF RecordsSoFar, ChangesAreNoticed, p

(* Two scalars of a payload that a reader tells not apart.                 *)
SameScalar(x, y) == x = y \/ (Parses(x) /\ Parses(y) /\ SecondsOf(x) = SecondsOf(y))

(* A period count is no duration's text.                                   *)
LEMMA PeriodIsNoText ==
  ASSUME NEW json, Readable("periods", json)
  PROVE  ~Parses(json)
<1>1. json \in Seq((Nat \ {0}) \X {"int"}) /\ Len(json) = 1
  BY DEF Readable
<1>2. json[1] \in (Nat \ {0}) \X {"int"}
  BY <1>1
<1>3. ASSUME Parses(json) PROVE FALSE
  <2>1. json \in Texts
    BY <1>3 DEF Parses
  <2>2. json[1] \in Nat \X ToSet(Units)
    BY <1>1, <2>1 DEF Texts
  <2>3. "int" \notin ToSet(Units)
    BY DEF ToSet, Units
  <2> QED
    BY <1>2, <2>2, <2>3
<1> QED
  BY <1>3

LEMMA SameScalarsReadTheSame ==
  ASSUME NEW role, NEW x, NEW y, SameScalar(x, y), Readable(role, x)
  PROVE  Readable(role, y) /\ Reading(role, y) = Reading(role, x)
<1>1. CASE x = y
  BY <1>1
<1>2. CASE x # y
  <2>1. Parses(x) /\ Parses(y) /\ SecondsOf(x) = SecondsOf(y)
    BY <1>2 DEF SameScalar
  <2>2. role # "periods"
    BY <2>1, PeriodIsNoText
  <2> QED
    BY <2>1, <2>2 DEF Readable, Reading
<1> QED
  BY <1>1, <1>2

(* Parameters that differ in what no reader tells apart, or in the ratio.  *)
SameParameters(p, q) ==
  /\ DOMAIN q = DOMAIN p
  /\ \A key \in {"seed", "grain", "maximum", "source_cadence"} \cap DOMAIN p :
       SameScalar(p[key], q[key])
  /\ \A key \in DOMAIN p \ {"seed", "grain", "maximum", "source_cadence", "limiting_ratio"} :
       q[key] = p[key]

LEMMA SameParametersReadTheSame ==
  ASSUME NEW role, NEW kind \in KindsOf(role), NEW p, NEW q, SameParameters(p, q),
         ParametersReadable(role, kind, p)
  PROVE  ParametersReadable(role, kind, q) /\ ReadSpec(role, kind, q) = ReadSpec(role, kind, p)
<1>1. DOMAIN q = DOMAIN p
  BY DEF SameParameters
<1>2. ASSUME NEW key \in {"seed", "grain", "maximum", "source_cadence"} \cap DOMAIN p,
             Readable(role, p[key])
      PROVE  Readable(role, q[key]) /\ Reading(role, q[key]) = Reading(role, p[key])
  <2>1. SameScalar(p[key], q[key])
    BY DEF SameParameters
  <2> QED
    BY <1>2, <2>1, SameScalarsReadTheSame
<1>3. ASSUME NEW key \in {"coefficient", "minimum", "rounding", "count", "periods", "name",
                         "divisor", "allowed"} \cap DOMAIN p
      PROVE  q[key] = p[key]
  BY <1>3 DEF SameParameters
<1>4. CASE kind = "metallic_recurrence"
  <2>1. MetallicReadable(role, p)
    BY <1>4 DEF ParametersReadable
  <2>2. {"coefficient", "seed", "grain", "minimum", "maximum", "rounding"} \subseteq DOMAIN p
    BY <2>1 DEF MetallicReadable, HasKeys
  <2>3. /\ q.coefficient = p.coefficient /\ q.minimum = p.minimum
        /\ q.rounding = p.rounding
    BY <1>3, <2>2
  <2>4. /\ Readable(role, p.seed) /\ Readable(role, p.grain) /\ Readable(role, p.maximum)
        /\ ReadableMinimum(role, p.minimum) /\ p.rounding \in Roundings
    BY <2>1 DEF MetallicReadable
  <2>5. /\ Readable(role, q.seed) /\ Reading(role, q.seed) = Reading(role, p.seed)
        /\ Readable(role, q.grain) /\ Reading(role, q.grain) = Reading(role, p.grain)
        /\ Readable(role, q.maximum) /\ Reading(role, q.maximum) = Reading(role, p.maximum)
    BY <1>2, <2>2, <2>4
  <2>6. MetallicReadable(role, q)
    <3>1. HasKeys(role, q, {"coefficient", "seed", "grain", "minimum", "maximum", "rounding"})
      BY <1>1, <2>1 DEF MetallicReadable, HasKeys
    <3>2. \A key \in {"seed", "grain", "maximum"} : Readable(role, q[key])
      BY <2>5
    <3> QED
      BY <2>3, <2>4, <3>1, <3>2 DEF MetallicReadable
  <2>7. ReadMetallic(role, q) = ReadMetallic(role, p)
    BY <2>3, <2>5 DEF ReadMetallic
  <2> QED
    BY <1>4, <2>6, <2>7 DEF ParametersReadable, ReadSpec
<1>5. CASE kind = "log_spaced"
  <2>1. LogSpacedReadable(role, p)
    BY <1>5 DEF ParametersReadable
  <2>2. {"count", "minimum", "maximum", "grain", "rounding"} \subseteq DOMAIN p
    BY <2>1 DEF LogSpacedReadable, HasKeys
  <2>3. q.count = p.count /\ q.minimum = p.minimum /\ q.rounding = p.rounding
    BY <1>3, <2>2
  <2>4. /\ Readable(role, p.minimum) /\ Readable(role, p.grain) /\ Readable(role, p.maximum)
        /\ p.rounding \in Roundings
    BY <2>1 DEF LogSpacedReadable
  <2>5. /\ Readable(role, q.grain) /\ Reading(role, q.grain) = Reading(role, p.grain)
        /\ Readable(role, q.maximum) /\ Reading(role, q.maximum) = Reading(role, p.maximum)
    BY <1>2, <2>2, <2>4
  <2>6. LogSpacedReadable(role, q)
    <3>1. HasKeys(role, q, {"count", "minimum", "maximum", "grain", "rounding"})
      BY <1>1, <2>1 DEF LogSpacedReadable, HasKeys
    <3>2. \A key \in {"minimum", "maximum", "grain"} : Readable(role, q[key])
      BY <2>3, <2>4, <2>5
    <3> QED
      BY <2>3, <2>4, <3>1, <3>2 DEF LogSpacedReadable
  <2>7. ReadLogSpaced(role, q) = ReadLogSpaced(role, p)
    BY <2>3, <2>5 DEF ReadLogSpaced
  <2> QED
    BY <1>5, <2>6, <2>7 DEF ParametersReadable, ReadSpec
<1>6. CASE kind = "explicit"
  <2>1. ExplicitReadable(role, p)
    BY <1>6 DEF ParametersReadable
  <2>2. ExplicitReadable(role, q) /\ ReadExplicit(role, q) = ReadExplicit(role, p)
    <3>1. CASE role = "periods"
      <4>1. "periods" \in DOMAIN p
        BY <2>1, <3>1 DEF ExplicitReadable
      <4>2. q.periods = p.periods
        BY <1>3, <4>1
      <4> QED
        BY <1>1, <2>1, <3>1, <4>2 DEF ExplicitReadable, ReadExplicit
    <3>2. CASE role # "periods"
      <4>1. HasKeys(role, p, {"name"}) /\ "name" \in DOMAIN p
        BY <2>1, <3>2 DEF ExplicitReadable, HasKeys
      <4>2. q.name = p.name /\ HasKeys(role, q, {"name"})
        BY <1>1, <1>3, <4>1 DEF HasKeys
      <4> QED
        BY <3>2, <4>2 DEF ExplicitReadable, ReadExplicit
    <3> QED
      BY <3>1, <3>2
  <2> QED
    BY <1>6, <2>2 DEF ParametersReadable, ReadSpec
<1>7. CASE kind = "w_over_k"
  <2>1. WOverKReadable(p) /\ role = "pairs"
    BY <1>7 DEF ParametersReadable, KindsOf
  <2>2. {"divisor", "allowed", "source_cadence"} \subseteq DOMAIN p
    BY <2>1 DEF WOverKReadable
  <2>3. q.divisor = p.divisor /\ q.allowed = p.allowed
    BY <1>3, <2>2
  <2>4. Readable(role, p.source_cadence)
    BY <2>1 DEF WOverKReadable, Readable
  <2>5. Readable(role, q.source_cadence)
        /\ Reading(role, q.source_cadence) = Reading(role, p.source_cadence)
    BY <1>2, <2>2, <2>4
  <2>6. Parses(q.source_cadence) /\ SecondsOf(q.source_cadence) = SecondsOf(p.source_cadence)
    BY <2>1, <2>5 DEF Readable, Reading
  <2>7. WOverKReadable(q) /\ ReadWOverK(q) = ReadWOverK(p)
    BY <1>1, <2>1, <2>3, <2>6 DEF WOverKReadable, ReadWOverK
  <2> QED
    BY <1>7, <2>7 DEF ParametersReadable, ReadSpec
<1>8. CASE kind = "explicit_pairs"
  <2>1. "name" \in DOMAIN p
    BY <1>8 DEF ParametersReadable
  <2>2. q.name = p.name
    BY <1>3, <2>1
  <2> QED
    BY <1>1, <1>8, <2>1, <2>2 DEF ParametersReadable, ReadSpec
<1> QED
  BY <1>4, <1>5, <1>6, <1>7, <1>8 DEF KindsOf

(* A list of which one entry is replaced is a list.                        *)
LEMMA ReplacedIsList ==
  ASSUME NEW jsons, IsList(jsons), NEW i \in DOMAIN jsons, NEW json,
         NEW others, others = [jsons EXCEPT ![i] = json]
  PROVE  IsList(others)
<1>1. jsons \in Seq(ToSet(jsons))
  BY DEF IsList
<1>2. Len(jsons) \in Nat /\ DOMAIN jsons = 1 .. Len(jsons)
  BY <1>1
<1>3. DOMAIN others = 1 .. Len(jsons) /\ others = [k \in 1 .. Len(jsons) |-> others[k]]
  BY <1>2
<1>4. \A k \in 1 .. Len(jsons) : others[k] \in ToSet(others)
  BY <1>3 DEF ToSet
<1>5. others \in [1 .. Len(jsons) -> ToSet(others)]
  BY <1>3, <1>4
<1>6. others \in Seq(ToSet(others))
  BY <1>2, <1>5, FunctionIsList
<1> QED
  BY <1>6 DEF IsList

(* The first member respelled, of a pair its window.                       *)
FirstRespelled(role, jsons, text, others) ==
  IF role = "pairs"
  THEN text \in Respellings(jsons[1][1]) /\ others = [jsons EXCEPT ![1] = <<text, jsons[1][2]>>]
  ELSE text \in Respellings(jsons[1]) /\ others = [jsons EXCEPT ![1] = text]

LEMMA SameMembersReadTheSame ==
  ASSUME NEW role \in Roles, NEW jsons, MembersReadable(role, jsons), jsons # <<>>,
         NEW text, NEW others,
         FirstRespelled(role, jsons, text, others)
  PROVE  MembersReadable(role, others) /\ ReadMembers(role, others) = ReadMembers(role, jsons)
<1>1. IsList(jsons)
  BY DEF MembersReadable, AllReadable
<1>2. 1 \in DOMAIN jsons /\ DOMAIN others = DOMAIN jsons
  <2>1. jsons \in Seq(ToSet(jsons))
    BY <1>1 DEF IsList
  <2> QED
    BY <2>1 DEF FirstRespelled
<1>3. IsList(others)
  BY <1>1, <1>2, ReplacedIsList DEF FirstRespelled
<1>4. \A i \in DOMAIN jsons : i # 1 => others[i] = jsons[i]
  BY DEF FirstRespelled
<1>5. CASE role = "pairs"
  <2>1. /\ Parses(text) /\ SecondsOf(text) = SecondsOf(jsons[1][1])
    BY <1>5, RespellingsKeepSeconds DEF FirstRespelled
  <2>2. others[1] = <<text, jsons[1][2]>>
    BY <1>2, <1>5 DEF FirstRespelled
  <2>3. others[1][1] = text /\ others[1][2] = jsons[1][2]
    BY <2>2
  <2>4. \A i \in DOMAIN jsons : Parses(jsons[i][1]) /\ Parses(jsons[i][2])
    BY <1>5 DEF MembersReadable
  <2>5. \A i \in DOMAIN jsons :
          /\ Parses(others[i][1]) /\ Parses(others[i][2])
          /\ SecondsOf(others[i][1]) = SecondsOf(jsons[i][1])
          /\ SecondsOf(others[i][2]) = SecondsOf(jsons[i][2])
    BY <1>4, <2>1, <2>3, <2>4
  <2>6. MembersReadable(role, others)
    BY <1>2, <1>3, <1>5, <2>5 DEF MembersReadable
  <2>7. ReadMembers(role, others) = ReadMembers(role, jsons)
    BY <1>2, <1>5, <2>5 DEF ReadMembers
  <2> QED
    BY <2>6, <2>7
<1>6. CASE role # "pairs"
  <2>1. \A i \in DOMAIN jsons : Readable(role, jsons[i])
    BY <1>6 DEF MembersReadable, AllReadable
  <2>2. SameScalar(jsons[1], others[1])
    <3>1. /\ Parses(jsons[1]) /\ Parses(text) /\ SecondsOf(text) = SecondsOf(jsons[1])
      BY <1>6, RespellingsKeepSeconds DEF FirstRespelled
    <3>2. others[1] = text
      BY <1>2, <1>6 DEF FirstRespelled
    <3> QED
      BY <3>1, <3>2 DEF SameScalar
  <2>3. ASSUME NEW i \in DOMAIN jsons
        PROVE  Readable(role, others[i]) /\ Reading(role, others[i]) = Reading(role, jsons[i])
    <3>1. SameScalar(jsons[i], others[i])
      BY <1>4, <2>2 DEF SameScalar
    <3> QED
      BY <2>1, <3>1, SameScalarsReadTheSame
  <2>4. AllReadable(role, others)
    BY <1>2, <1>3, <2>3 DEF AllReadable
  <2>5. Readings(role, others) = Readings(role, jsons)
    BY <1>2, <2>3 DEF Readings
  <2> QED
    BY <1>6, <2>4, <2>5 DEF MembersReadable, ReadMembers
<1> QED
  BY <1>5, <1>6

(* An edit leaves the id alone, and every key where it is.                 *)
Kept(p, q) == IsPayload(q) /\ q.id = p.id

LEMMA RestatedIs ==
  ASSUME NEW p, IsPayload(p), NEW key, NEW json
  PROVE  LET q == Restated(p, key, json) IN
         /\ Kept(p, q)
         /\ q.kind = p.kind /\ q.role = p.role /\ q.members = p.members
         /\ q.parameters = [p.parameters EXCEPT ![key] = json]
BY DEF Restated, IsPayload, Kept

LEMMA RespelledMembersRead ==
  ASSUME NEW p, IsPayload(p), NEW q \in RespelledMembers(p), p.members # <<>>
  PROVE  Kept(p, q) /\ (artifact.role \in Roles /\ ReadsAs(artifact, p) => ReadsAs(artifact, q))
<1>1. PICK text, others : /\ FirstRespelled(artifact.role, p.members, text, others)
                         /\ q = [p EXCEPT !.members = others]
  <2>1. CASE artifact.role = "pairs"
    <3>1. PICK text \in Respellings(p.members[1][1]) :
            q = [p EXCEPT !.members = [p.members EXCEPT ![1] = <<text, p.members[1][2]>>]]
      BY <2>1 DEF RespelledMembers, ByPair
    <3> QED
      BY <2>1, <3>1 DEF FirstRespelled
  <2>2. CASE artifact.role # "pairs"
    <3>1. PICK text \in Respellings(p.members[1]) :
            q = [p EXCEPT !.members = [p.members EXCEPT ![1] = text]]
      BY <2>2 DEF RespelledMembers, ByPair
    <3> QED
      BY <2>2, <3>1 DEF FirstRespelled
  <2> QED
    BY <2>1, <2>2
<1>2. /\ Kept(p, q) /\ q.kind = p.kind /\ q.role = p.role /\ q.parameters = p.parameters
      /\ q.members = others
  BY <1>1 DEF IsPayload, Kept
<1>3. ASSUME artifact.role \in Roles, ReadsAs(artifact, p) PROVE ReadsAs(artifact, q)
  <2>1. WellFormed(artifact.role, p) /\ ReadArtifact(artifact.role, p) = artifact
    BY <1>3 DEF ReadsAs
  <2>2. MembersReadable(artifact.role, p.members)
    BY <2>1 DEF WellFormed
  <2>3. /\ MembersReadable(artifact.role, q.members)
        /\ ReadMembers(artifact.role, q.members) = ReadMembers(artifact.role, p.members)
    BY <1>1, <1>2, <1>3, <2>2, SameMembersReadTheSame
  <2>4. WellFormed(artifact.role, q)
    BY <1>2, <2>1, <2>3 DEF WellFormed
  <2>5. ReadArtifact(artifact.role, q) = ReadArtifact(artifact.role, p)
    BY <1>2, <2>3 DEF ReadArtifact
  <2> QED
    BY <2>1, <2>4, <2>5 DEF ReadsAs
<1> QED
  BY <1>2, <1>3

(* A parameter respelled, or the ratio restated.                           *)
LEMMA RestatedReads ==
  ASSUME NEW p, IsPayload(p), NEW key \in DOMAIN p.parameters, NEW json,
         \/ key = "limiting_ratio"
         \/ /\ key \in {"seed", "grain", "maximum", "source_cadence"}
            /\ json \in Respellings(p.parameters[key]),
         NEW q, q = Restated(p, key, json)
  PROVE  Kept(p, q) /\ (ReadsAs(artifact, p) => ReadsAs(artifact, q))
<1>1. /\ Kept(p, q) /\ q.kind = p.kind /\ q.role = p.role /\ q.members = p.members
      /\ q.parameters = [p.parameters EXCEPT ![key] = json]
  BY RestatedIs
<1>2. SameParameters(p.parameters, q.parameters)
  <2>1. \A k \in DOMAIN p.parameters : k # key => q.parameters[k] = p.parameters[k]
    BY <1>1
  <2>2. DOMAIN q.parameters = DOMAIN p.parameters /\ q.parameters[key] = json
    BY <1>1
  <2>3. ASSUME key # "limiting_ratio"
        PROVE  SameScalar(p.parameters[key], q.parameters[key])
    BY <2>2, <2>3, RespellingsKeepSeconds DEF SameScalar
  <2>4. \A k \in {"seed", "grain", "maximum", "source_cadence"} \cap DOMAIN p.parameters :
          SameScalar(p.parameters[k], q.parameters[k])
    BY <2>1, <2>3 DEF SameScalar
  <2>5. \A k \in DOMAIN p.parameters
              \ {"seed", "grain", "maximum", "source_cadence", "limiting_ratio"} :
          q.parameters[k] = p.parameters[k]
    BY <2>1
  <2> QED
    BY <2>2, <2>4, <2>5 DEF SameParameters
<1>3. ASSUME ReadsAs(artifact, p) PROVE ReadsAs(artifact, q)
  <2>1. WellFormed(artifact.role, p) /\ ReadArtifact(artifact.role, p) = artifact
    BY <1>3 DEF ReadsAs
  <2>2. /\ p.kind \in KindsOf(artifact.role)
        /\ ParametersReadable(artifact.role, p.kind, p.parameters)
    BY <2>1 DEF WellFormed
  <2>3. /\ ParametersReadable(artifact.role, p.kind, q.parameters)
        /\ ReadSpec(artifact.role, p.kind, q.parameters)
             = ReadSpec(artifact.role, p.kind, p.parameters)
    BY <1>2, <2>2, SameParametersReadTheSame
  <2>4. WellFormed(artifact.role, q)
    BY <1>1, <2>1, <2>3 DEF WellFormed
  <2>5. ReadArtifact(artifact.role, q) = ReadArtifact(artifact.role, p)
    BY <1>1, <2>3 DEF ReadArtifact
  <2> QED
    BY <2>1, <2>4, <2>5 DEF ReadsAs
<1> QED
  BY <1>1, <1>3

LEMMA ChangesKeep ==
  ASSUME NEW p, IsPayload(p),
         NEW q \in ChangedMembers(p) \cup ChangedParameters(p) \cup Relabelled(p)
  PROVE  Kept(p, q)
<1>1. CASE q \in ChangedMembers(p)
  <2>1. \E members : q = [p EXCEPT !.members = members]
    BY <1>1 DEF ChangedMembers
  <2> QED
    BY <2>1 DEF IsPayload, Kept
<1>2. CASE q \in ChangedParameters(p)
  <2>1. \/ \E key, json : q = Restated(p, key, json)
        \/ \E key : q = [p EXCEPT !.parameters =
                           [k \in DOMAIN p.parameters \ {key} |-> p.parameters[k]]]
    BY <1>2 DEF ChangedParameters
  <2>2. \E parameters : q = [p EXCEPT !.parameters = parameters]
    BY <2>1 DEF Restated
  <2> QED
    BY <2>2 DEF IsPayload, Kept
<1>3. CASE q \in Relabelled(p)
  BY <1>3 DEF Relabelled, IsPayload, Kept
<1> QED
  BY <1>1, <1>2, <1>3

LEMMA EditRecords ==
  ASSUME SoFar, RecordsSoFar, NEW kind \in EditKinds, NEW results, Edit(kind, results),
         \A q \in results :
           /\ Kept(payload, q)
           /\ kind # "content" /\ artifact.role \in Roles /\ ReadsAs(artifact, payload) =>
                ReadsAs(artifact, q)
  PROVE  RecordsSoFar'
<1>1. /\ pc = "written" /\ pc' = "written" /\ payload' \in results /\ artifact' = artifact
      /\ edits' = Append(edits, kind)
  BY DEF Edit
<1>2. /\ IsArtifact(artifact) /\ Accepts(artifact)
      /\ IsPayload(payload) /\ payload.id = Identity(artifact)
  BY <1>1 DEF RecordsSoFar
<1>3. IsPayload(payload') /\ payload'.id = Identity(artifact)
  BY <1>1, <1>2 DEF Kept
<1>4. ASSUME "content" \notin ToSet(edits') PROVE ReadsAs(artifact, payload')
  <2>1. kind # "content" /\ "content" \notin ToSet(edits)
    <3>1. edits \in Seq(EditKinds)
      BY DEF SoFar
    <3>2. edits'[Len(edits) + 1] = kind /\ Len(edits) + 1 \in DOMAIN edits'
      BY <1>1, <3>1
    <3>3. \A i \in DOMAIN edits : i \in DOMAIN edits' /\ edits'[i] = edits[i]
      BY <1>1, <3>1
    <3> QED
      BY <1>4, <3>2, <3>3 DEF ToSet
  <2>2. ReadsAs(artifact, payload)
    BY <1>1, <2>1 DEF RecordsSoFar
  <2>3. artifact.role \in Roles
    BY <1>2 DEF IsArtifact
  <2> QED
    BY <1>1, <2>1, <2>2, <2>3
<1> QED
  BY <1>1, <1>2, <1>3, <1>4 DEF RecordsSoFar, ReadsAs, ChangesAreNoticed

LEMMA EditsRecords ==
  ASSUME SoFar, RecordsSoFar, Respell \/ RestateRatio \/ Change
  PROVE  RecordsSoFar'
<1>1. pc = "written" /\ payload.members # <<>>
  BY DEF Respell, RestateRatio, Change, Edit
<1>2. IsPayload(payload)
  BY <1>1 DEF RecordsSoFar
<1>3. CASE Respell
  <2> DEFINE results == RespelledMembers(payload) \cup RespelledParameters(payload)
  <2>1. ASSUME NEW q \in results
        PROVE  Kept(payload, q)
               /\ (artifact.role \in Roles /\ ReadsAs(artifact, payload) => ReadsAs(artifact, q))
    <3>1. CASE q \in RespelledMembers(payload)
      BY <1>1, <1>2, <3>1, RespelledMembersRead
    <3>2. CASE q \in RespelledParameters(payload)
      <4>1. PICK key \in StatedKeys(payload) :
              \E text \in Respellings(payload.parameters[key]) : q = Restated(payload, key, text)
        BY <3>2 DEF RespelledParameters
      <4>2. PICK text \in Respellings(payload.parameters[key]) : q = Restated(payload, key, text)
        BY <4>1
      <4>3. /\ key \in DOMAIN payload.parameters
            /\ key \in {"seed", "grain", "maximum", "source_cadence"}
        BY DEF StatedKeys
      <4> QED
        BY <1>2, <4>2, <4>3, RestatedReads
    <3> QED
      BY <3>1, <3>2
  <2>2. Edit("spelling", results) /\ "spelling" \in EditKinds
    BY <1>3 DEF Respell, EditKinds
  <2> HIDE DEF results
  <2> QED
    BY <2>1, <2>2, EditRecords
<1>4. CASE RestateRatio
  <2>1. ASSUME NEW q \in RestatedRatio(payload)
        PROVE  Kept(payload, q) /\ (ReadsAs(artifact, payload) => ReadsAs(artifact, q))
    <3>1. /\ "limiting_ratio" \in DOMAIN payload.parameters
          /\ q = Restated(payload, "limiting_ratio", <<0>>)
      BY DEF RestatedRatio
    <3> QED
      BY <1>2, <3>1, RestatedReads
  <2>2. Edit("ratio", RestatedRatio(payload)) /\ "ratio" \in EditKinds
    BY <1>4 DEF RestateRatio, EditKinds
  <2> QED
    BY <2>1, <2>2, EditRecords
<1>5. CASE Change
  <2> DEFINE results == (ChangedMembers(payload) \cup ChangedParameters(payload)
                         \cup Relabelled(payload)) \ {payload}
  <2>1. \A q \in results : Kept(payload, q)
    BY <1>2, ChangesKeep
  <2>2. Edit("content", results) /\ "content" \in EditKinds
    BY <1>5 DEF Change, EditKinds
  <2> HIDE DEF results
  <2> QED
    BY <2>1, <2>2, EditRecords
<1> QED
  BY <1>3, <1>4, <1>5

(* What a reader makes of a payload has the id of the artifact, and so is  *)
(* the artifact.                                                           *)
LEMMA FromDictRecords ==
  ASSUME RecordsSoFar, NEW role \in Roles, FromDict(role)
  PROVE  RecordsSoFar'
<1>1. /\ pc = "written" /\ pc' = "read" /\ UNCHANGED <<artifact, payload, edits>>
      /\ reading' = IF Reads(role, payload) THEN ReadArtifact(role, payload) ELSE Nothing
  BY DEF FromDict
<1>2. /\ IsArtifact(artifact) /\ Accepts(artifact)
      /\ IsPayload(payload) /\ payload.id = Identity(artifact)
  BY <1>1 DEF RecordsSoFar
<1>3. reading' \in {Nothing, artifact}
  <2>1. CASE Reads(role, payload)
    <3> DEFINE b == ReadArtifact(role, payload)
    <3>1. WellFormed(role, payload) /\ Accepts(b) /\ payload.id = Identity(b)
      BY <2>1 DEF Reads
    <3>2. IsArtifact(b)
      BY <3>1, ReadArtifactIsArtifact
    <3> HIDE DEF b
    <3>3. b = artifact
      BY <1>2, <3>1, <3>2, IdentityIsInjective
    <3> QED
      BY <1>1, <2>1, <3>3 DEF b
  <2>2. CASE ~Reads(role, payload)
    BY <1>1, <2>2
  <2> QED
    BY <2>1, <2>2
<1> QED
  BY <1>1, <1>2, <1>3 DEF RecordsSoFar, ChangesAreNoticed

LEMMA NextRecords == SoFar /\ RecordsSoFar /\ [Next]_vars => RecordsSoFar'
<1> SUFFICES ASSUME SoFar, RecordsSoFar, [Next]_vars PROVE RecordsSoFar'
  OBVIOUS
<1>1. CASE UNCHANGED vars
  BY <1>1 DEF vars, RecordsSoFar, ReadsAs, ChangesAreNoticed
<1>2. ASSUME NEW r \in Requests,
             \/ MetallicRecurrence(r) \/ MetallicHorizons(r) \/ MetallicLookback(r)
             \/ LogSpaced(r) \/ LogSpacedHorizons(r) \/ LogSpacedLookback(r)
      PROVE  RecordsSoFar'
  <2>1. RefuseRequest(r) \/ BeginRecurrence(r) \/ PlacePoints(r)
    BY <1>2 DEF MetallicRecurrence, MetallicHorizons, MetallicLookback,
                LogSpaced, LogSpacedHorizons, LogSpacedLookback
  <2>2. pc' \in {"refused", "recur", "resolve"}
    BY <2>1 DEF RefuseRequest, Refuse, BeginRecurrence, PlacePoints
  <2> QED
    BY <2>2, UnmadeRecords
<1>3. CASE Generate
  <2>1. CASE ~FinishGeneration
    <3>1. pc' \in {"refused", "recur", "resolve"}
      <4>1. CASE PassMaximum \/ AppendTerm \/ ResolveValue
        BY <4>1 DEF PassMaximum, AppendTerm, ResolveValue
      <4>2. CASE RefuseSlowGrowth \/ RefuseNothingLeft \/ RefuseAllExcluded
        BY <4>2 DEF RefuseSlowGrowth, RefuseNothingLeft, RefuseAllExcluded, Refuse
      <4> QED
        BY <1>3, <2>1, <4>1, <4>2 DEF Generate
    <3> QED
      BY <3>1, UnmadeRecords
  <2> QED
    BY <2>1, FinishRecords
<1>4. ASSUME NEW a \in Given,
             \/ Explicit(a) \/ ExplicitHorizons(a) \/ ExplicitLookback(a) \/ ExplicitPairs(a)
             \/ BuildByHand(a)
      PROVE  RecordsSoFar'
  <2>1. State(a)
    BY <1>4 DEF Explicit, ExplicitHorizons, ExplicitLookback, ExplicitPairs, BuildByHand
  <2>2. IsArtifact(a) /\ Construct(a, "statement")
    BY <2>1, SchedulesAssumption DEF State
  <2> QED
    BY <2>2, ConstructRecords
<1>5. ASSUME NEW r \in RuleRequests, AskRule(r) PROVE RecordsSoFar'
  <2>1. r.windows \in Seq(Nat) /\ r.spec \in WOverKSpecs /\ IsFiniteSet(r.spec.allowed)
    BY SchedulesAssumption
  <2>2. ResolveRule(r.windows, r.spec, "rule")
    BY <1>5 DEF AskRule
  <2> QED
    BY <2>1, <2>2, RuleStepRecords
<1>6. CASE \/ WindowScheduleFromDict \/ HorizonScheduleFromDict
           \/ LookbackScheduleFromDict \/ CadenceRuleFromDict
  <2>1. \E role \in Roles : FromDict(role)
    BY <1>6 DEF WindowScheduleFromDict, HorizonScheduleFromDict, LookbackScheduleFromDict,
                CadenceRuleFromDict, Roles
  <2> QED
    BY <2>1, FromDictRecords
<1> QED
  BY <1>1, <1>2, <1>3, <1>4, <1>5, <1>6, NamedRecords, OwnRuleRecords, ToDictRecords,
     EditsRecords
     DEF Next

LEMMA RecordInvariant == Spec => [](SoFar /\ RecordsSoFar)
<1>1. Init => SoFar /\ RecordsSoFar
  BY InitSoFar, InitRecords
<1>2. SoFar /\ RecordsSoFar /\ [Next]_vars => (SoFar /\ RecordsSoFar)'
  BY NextSoFar, NextRecords
<1> QED
  BY <1>1, <1>2, PTL DEF Spec

(* Whatever was made, by whatever generator or hand, and however often its *)
(* written form was respelled or its ratio restated, its own reader takes  *)
(* what was written and returns the same artifact.                         *)
THEOREM WrittenIsReadBack == Spec => []WrittenReadsBack
<1>1. SoFar /\ RecordsSoFar => WrittenReadsBack
  BY DEF RecordsSoFar, ReadsAs, WrittenReadsBack, Reads
<1> QED
  BY <1>1, RecordInvariant, PTL

(* However a payload was changed without deriving its id again, none of    *)
(* the four readers returns anything but the artifact it was written from, *)
(* and no role is taken for another.                                       *)
THEOREM NoChangeIsTaken == Spec => []ChangesAreNoticed
<1>1. SoFar /\ RecordsSoFar => ChangesAreNoticed
  BY DEF RecordsSoFar
<1> QED
  BY <1>1, RecordInvariant, PTL

=============================================================================
