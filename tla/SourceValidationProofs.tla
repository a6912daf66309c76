----------------------- MODULE SourceValidationProofs -----------------------
(***************************************************************************)
(* Proofs about SourceValidation and SnapshotContinuity, for every         *)
(* profile, frame, history and manifest.                                   *)
(***************************************************************************)
EXTENDS SnapshotContinuity, WellFoundedInduction, FiniteSetTheorems, TLAPS

(* The least element of a set of naturals.                                 *)
LEMMA LeastElement ==
  ASSUME NEW T \in SUBSET Nat, T # {}
  PROVE  \E x \in T : \A y \in T : x <= y
<1> DEFINE R == OpToRel(<, Nat)
<1>1. IsWellFoundedOn(R, Nat)
  BY NatLessThanWellFounded
<1> HIDE DEF R
<1>2. PICK x \in T : \A y \in T : <<y, x>> \notin R
  BY <1>1, WFMin
<1>3. \A y \in T : <<y, x>> \in R <=> y < x
  BY DEF R, OpToRel
<1>4. \A y \in T : ~(y < x)
  BY <1>2, <1>3
<1>5. \A y \in T : x <= y
  BY <1>4
<1> QED
  BY <1>5

(* What lies in 0 .. m - 1 is its own remainder by m.                      *)
LEMMA ModOfSmall ==
  ASSUME NEW m \in Nat \ {0}, NEW x \in 0 .. m - 1
  PROVE  x % m = x
OBVIOUS

(* A multiple divided by its factor.                                       *)
LEMMA DivOfMultiple ==
  ASSUME NEW m \in Nat \ {0}, NEW k \in Int
  PROVE  (m * k) \div m = k
OBVIOUS

(* A positive number that leaves no remainder, one factor less.            *)
LEMMA DivLessOne ==
  ASSUME NEW m \in Nat \ {0}, NEW x \in Int, x > m, x % m = 0
  PROVE  /\ (x - m) \div m \in Nat \ {0}
         /\ x - m = m * ((x - m) \div m)
<1> DEFINE q == x \div m
<1>1. q \in Int /\ x = m * q
  OBVIOUS
<1> HIDE DEF q
<1>2. x - m = m * (q - 1)
  BY <1>1
<1>3. (x - m) \div m = q - 1
  BY <1>1, <1>2, DivOfMultiple
<1>4. ASSUME q <= 1 PROVE FALSE
  <2>1. 1 - q \in Nat
    BY <1>1, <1>4
  <2>2. m * (1 - q) >= 0
    BY <2>1
  <2> QED
    BY <1>1, <2>2
<1> QED
  BY <1>1, <1>2, <1>3, <1>4

(* Within its width a difference is the difference.                        *)
LEMMA WrapOfSmall ==
  ASSUME NEW x \in Int, 2 * x \in -Word .. Word - 1
  PROVE  Wrap(x) = x
<1>1. Word \in Nat \ {0} /\ Word = 2 * (Word \div 2) /\ Word \div 2 \in Nat
  BY LimitAssumption
<1>2. x + Word \div 2 \in 0 .. Word - 1
  BY <1>1
<1>3. (x + Word \div 2) % Word = x + Word \div 2
  BY <1>1, <1>2, ModOfSmall
<1> QED
  BY <1>1, <1>3 DEF Wrap

(* What is computed from the frame alone does not change while it is       *)
(* checked.                                                                *)
LEMMA FrameFixed ==
  ASSUME frame' = frame
  PROVE  /\ Present' = Present /\ WrongKind' = WrongKind
         /\ NullCells' = NullCells /\ NonFiniteCells' = NonFiniteCells
         /\ Usable' = Usable /\ Height' = Height
         /\ OffPhase' = OffPhase /\ NotIncreasing' = NotIncreasing
         /\ Overlapping' = Overlapping /\ Irregular' = Irregular
         /\ GapEnds' = GapEnds /\ ReportedGaps' = ReportedGaps
         /\ \A i : Gap(i)' = Gap(i)
BY DEF Present, WrongKind, NullCells, NonFiniteCells, Usable, Height, OffPhase, NotIncreasing,
       Overlapping, Irregular, GapEnds, ReportedGaps, Gap, Cells, Rows, Steps, Time, Diff

(* A finding about nothing is none, and none of these is about a gap.      *)
LEMMA AboutNothing ==
  ASSUME NEW kind, NEW S
  PROVE  /\ About(kind, S) = {} <=> S = {}
         /\ \A f \in About(kind, S) : f.kind = kind
<1>1. CASE S = {}
  BY <1>1 DEF About
<1>2. CASE S # {}
  <2> DEFINE finding == [kind |-> kind, count |-> Cardinality(S)]
  <2>1. About(kind, S) = {finding}
    BY <1>2 DEF About
  <2>2. finding.kind = kind
    OBVIOUS
  <2> HIDE DEF finding
  <2> QED
    BY <1>2, <2>1, <2>2
<1> QED
  BY <1>1, <1>2

(* Fewer than two rows make no step.                                       *)
LEMMA NoSteps ==
  ASSUME Height \in Nat, Height < 2
  PROVE  /\ NotIncreasing = {} /\ Overlapping = {} /\ Irregular = {} /\ GapEnds = {}
         /\ ReportedGaps = {}
BY DEF NotIncreasing, Overlapping, Irregular, GapEnds, ReportedGaps, Steps

-----------------------------------------------------------------------------
(* The inductive invariant: as long as nothing was found, each check that  *)
(* has run saw nothing; the row checks run over usable timestamps only and *)
(* the gap check over increasing ones; a strict call returns with no       *)
(* findings.                                                               *)

ValidationTypes ==
  /\ RawFrame(frame)
  /\ mode \in {"strict", "report"}
  /\ stage \in Stage
  /\ answer \in {"none", "refused", "report"}

CleanSoFar ==
  findings = {} =>
    /\ stage # "schema" => Column \ Present = {} /\ WrongKind = {}
    /\ stage \notin {"schema", "nulls"} => NullCells = {}
    /\ stage \notin {"schema", "nulls", "finite"} => NonFiniteCells = {}
    /\ stage \notin {"schema", "nulls", "finite", "phase"} => OffPhase = {}
    /\ stage \notin {"schema", "nulls", "finite", "phase", "monotonic"} => NotIncreasing = {}
    /\ stage \in {"irregular", "gaps", "report", "done"} => Overlapping = {}
    /\ stage \in {"gaps", "report", "done"} => Irregular = {}
    /\ stage \in {"report", "done"} => ReportedGaps = {}

RowChecksMakeSense ==
  /\ stage \in {"phase", "monotonic", "overlap", "irregular", "gaps"} => Usable
  /\ stage \in {"overlap", "irregular", "gaps"} => NotIncreasing = {}
  /\ GapFindings # {} => Usable /\ NotIncreasing = {}
  /\ GapFindings \subseteq {Gap(i) : i \in GapEnds}

StrictMeansClean ==
  /\ stage # "done" => answer = "none"
  /\ answer = "report" /\ mode = "strict" => findings = {}

ChecksSoFar == ValidationTypes /\ CleanSoFar /\ RowChecksMakeSense /\ StrictMeansClean

(* Nothing has been found or checked yet.                                  *)
LEMMA InitChecks == ValidationInit => ChecksSoFar
BY LimitAssumption, FrameAssumption
   DEF ValidationInit, ChecksSoFar, ValidationTypes, CleanSoFar, RowChecksMakeSense,
   StrictMeansClean, Stage, GapFindings

(* What is added to the findings is added to the gaps among them.          *)
LEMMA GapFindingsGrow ==
  ASSUME NEW found, findings' = findings \cup found
  PROVE  GapFindings' = GapFindings \cup {f \in found : f.kind = "gap"}
BY DEF GapFindings

(* A check that finds no gap leaves the gap findings as they are.          *)
LEMMA NoGapFound ==
  ASSUME NEW kind, NEW S, kind # "gap", findings' = findings \cup About(kind, S)
  PROVE  GapFindings' = GapFindings
BY GapFindingsGrow, AboutNothing

(* A frame with the declared columns and no null has usable timestamps.    *)
LEMMA CompleteIsUsable ==
  ASSUME Column \ Present = {}, WrongKind = {}, NullCells = {}
  PROVE  Usable
<1>1. Stamp \in Present /\ Stamp \notin WrongKind
  BY ProfileAssumption
<1>2. ASSUME NEW i \in Rows PROVE Cells(Stamp)[i] # Null
  <2>1. <<Stamp, i>> \in Present \X Rows
    BY <1>1
  <2> QED
    BY <2>1 DEF NullCells
<1> QED
  BY <1>1, <1>2 DEF Usable

(* Every step of the validation keeps the invariant.                       *)
LEMMA StepChecks == ChecksSoFar /\ [ValidationNext]_validation => ChecksSoFar'
<1> SUFFICES ASSUME ChecksSoFar, [ValidationNext]_validation PROVE ChecksSoFar'
  OBVIOUS
<1> USE DEF ChecksSoFar, ValidationTypes, CleanSoFar, RowChecksMakeSense, StrictMeansClean
<1>1. CASE CheckSchema
  <2>1. GapFindings' = GapFindings
    BY <1>1, NoGapFound DEF CheckSchema, Go
  <2> QED
    BY <1>1, <2>1, FrameFixed, AboutNothing DEF CheckSchema, Go, Stage
<1>2. CASE CheckNulls
  <2>1. GapFindings' = GapFindings
    BY <1>2, NoGapFound DEF CheckNulls, Go
  <2> QED
    BY <1>2, <2>1, FrameFixed, AboutNothing DEF CheckNulls, Go, Stage
<1>3. CASE CheckNonFinite
  <2>1. GapFindings' = GapFindings
    BY <1>3, NoGapFound DEF CheckNonFinite, Go
  <2>2. findings' = {} => Usable
    BY <1>3, CompleteIsUsable DEF CheckNonFinite, Go
  <2> QED
    BY <1>3, <2>1, <2>2, FrameFixed, AboutNothing DEF CheckNonFinite, Go, Stage
<1>4. CASE CheckPhase
  <2>1. GapFindings' = GapFindings
    BY <1>4, NoGapFound DEF CheckPhase, Go
  <2>2. Height \in Nat
    BY DEF Height, RawFrame
  <2> QED
    BY <1>4, <2>1, <2>2, FrameFixed, AboutNothing, NoSteps DEF CheckPhase, Go, Stage
<1>5. CASE CheckMonotonic
  <2>1. GapFindings' = GapFindings
    BY <1>5, NoGapFound DEF CheckMonotonic, Go
  <2> QED
    BY <1>5, <2>1, FrameFixed, AboutNothing DEF CheckMonotonic, Go, Stage
<1>6. CASE CheckOverlap
  <2>1. GapFindings' = GapFindings
    BY <1>6, NoGapFound DEF CheckOverlap, Go
  <2> QED
    BY <1>6, <2>1, FrameFixed, AboutNothing DEF CheckOverlap, Go, Stage
<1>7. CASE CheckIrregularInterval
  <2>1. GapFindings' = GapFindings
    BY <1>7, NoGapFound DEF CheckIrregularInterval, Go
  <2> QED
    BY <1>7, <2>1, FrameFixed, AboutNothing DEF CheckIrregularInterval, Go, Stage
<1>8. CASE CheckGaps
  <2>1. GapFindings' \subseteq GapFindings \cup {Gap(i) : i \in ReportedGaps}
    BY <1>8, GapFindingsGrow, ZenonT(60) DEF CheckGaps, Go
  <2>2. ReportedGaps \subseteq GapEnds
    BY DEF ReportedGaps
  <2>3. findings' = {} => ReportedGaps = {}
    BY <1>8 DEF CheckGaps, Go
  <2>4. Usable' /\ NotIncreasing' = {}
    BY <1>8, FrameFixed DEF CheckGaps, Go
  <2>5. GapFindings' \subseteq {Gap(i) : i \in GapEnds}'
    BY <1>8, <2>1, <2>2, FrameFixed DEF CheckGaps, Go
  <2> QED
    BY <1>8, <2>3, <2>4, <2>5, FrameFixed DEF CheckGaps, Go, Stage
<1>9. CASE Report
  <2>1. GapFindings' = GapFindings
    BY <1>9 DEF Report, GapFindings
  <2> QED
    BY <1>9, <2>1, FrameFixed DEF Report, Stage
<1>10. CASE UNCHANGED validation
  <2>1. GapFindings' = GapFindings
    BY <1>10 DEF validation, GapFindings
  <2> QED
    BY <1>10, <2>1, FrameFixed DEF validation
<1> QED
  BY <1>1, <1>2, <1>3, <1>4, <1>5, <1>6, <1>7, <1>8, <1>9, <1>10 DEF ValidationNext

(* The invariant holds throughout.                                         *)
THEOREM ChecksAreSound == ValidationSpec => []ChecksSoFar
BY InitChecks, StepChecks, PTL DEF ValidationSpec

-----------------------------------------------------------------------------
(* What a frame that passes is                                             *)

(* Of any gaps there are, the first is reported.                           *)
LEMMA SomeGapIsReported ==
  ASSUME ReportedGaps = {}, Height \in Nat
  PROVE  GapEnds = {}
<1> SUFFICES ASSUME GapEnds # {} PROVE FALSE
  OBVIOUS
<1>1. GapEnds \in SUBSET Nat
  BY DEF GapEnds, Steps
<1>2. PICK i \in GapEnds : \A j \in GapEnds : i <= j
  BY <1>1, LeastElement
<1>3. {j \in GapEnds : j < i} = {}
  <2>1. \A j \in GapEnds : i \in Nat /\ j \in Nat /\ i <= j
    BY <1>1, <1>2
  <2>2. \A j \in GapEnds : ~(j < i)
    BY <2>1
  <2> QED
    BY <2>2
<1>4. Cardinality({j \in GapEnds : j < i}) = 0
  BY <1>3, FS_EmptySet
<1>5. 0 < MaxGapFindings
  BY LimitAssumption
<1>6. i \in ReportedGaps
  BY <1>2, <1>4, <1>5 DEF ReportedGaps
<1> QED
  BY <1>6

(* Timestamps of usable rows are numbers, and every step is between rows.  *)
LEMMA UsableCells ==
  ASSUME RawFrame(frame), Usable
  PROVE  /\ Height \in Nat
         /\ \A i \in Rows : Time(i) \in Int64
         /\ \A i \in Steps : i \in Rows /\ i - 1 \in Rows
<1>1. Height \in Nat
  BY DEF Height, RawFrame
<1>2. Stamp \in DOMAIN frame.columns /\ frame.columns[Stamp].kind = "integer"
  BY ProfileAssumption DEF Usable, Present, WrongKind
<1>3. ASSUME NEW i \in Rows PROVE Time(i) \in Int64
  BY <1>2, <1>3, ProfileAssumption DEF RawFrame, Usable, Rows, Height, Time, Cells
<1>4. \A i \in Steps : i \in Rows /\ i - 1 \in Rows
  BY <1>1 DEF Steps, Rows
<1> QED
  BY <1>1, <1>3, <1>4

(* Without a wrap the steps between them are their differences.            *)
LEMMA UsableTimes ==
  ASSUME RawFrame(frame), Usable, NoWrap
  PROVE  /\ Height \in Nat
         /\ \A i \in Rows : Time(i) \in Int
         /\ \A i \in Steps : i \in Rows /\ i - 1 \in Rows /\ Diff(i) = Time(i) - Time(i - 1)
<1>1. Height \in Nat
  BY UsableCells
<1>3. \A i \in Rows : Time(i) \in Int
  BY UsableCells, LimitAssumption DEF Int64
<1>4. ASSUME NEW i \in Steps
      PROVE  i \in Rows /\ i - 1 \in Rows /\ Diff(i) = Time(i) - Time(i - 1)
  <2>1. i \in Rows /\ i - 1 \in Rows
    BY <1>1, <1>4 DEF Steps, Rows
  <2>2. Time(i) - Time(i - 1) \in Int /\ 2 * (Time(i) - Time(i - 1)) \in -Word .. Word - 1
    BY <1>3, <2>1 DEF NoWrap
  <2> QED
    BY <2>1, <2>2, WrapOfSmall DEF Diff
<1> QED
  BY <1>1, <1>3, <1>4

(* Of two numbers of one width the difference wraps by one word at most.   *)
LEMMA WrapOfDifference ==
  ASSUME NEW x \in Int64, NEW y \in Int64
  PROVE  /\ x \in Int /\ y \in Int /\ Wrap(x - y) \in Int
         /\ Wrap(x - y) \in {x - y - Word, x - y, x - y + Word}
<1> DEFINE h == Word \div 2
           z == x - y + h
<1>1. Word \in Nat \ {0} /\ h \in Nat /\ Word = 2 * h
  BY LimitAssumption
<1>2. x \in Int /\ y \in Int /\ x - y > -Word /\ x - y < Word
  BY <1>1 DEF Int64
<1> HIDE DEF h
<1>3. z \in Int /\ z > -Word /\ z < 2 * Word
  BY <1>1, <1>2
<1>4. z % Word \in {z - Word, z, z + Word}
  <2>1. CASE z < 0
    <3>1. z + Word \in 0 .. Word - 1
      BY <1>1, <1>3, <2>1
    <3>2. (z + Word) % Word = z % Word
      BY <1>1, <1>3
    <3> QED
      BY <1>1, <3>1, <3>2, ModOfSmall
  <2>2. CASE 0 <= z /\ z < Word
    BY <1>1, <1>3, <2>2, ModOfSmall
  <2>3. CASE Word <= z
    <3>1. z - Word \in 0 .. Word - 1
      BY <1>1, <1>3, <2>3
    <3>2. (z - Word) % Word = z % Word
      BY <1>1, <1>3
    <3> QED
      BY <1>1, <3>1, <3>2, ModOfSmall
  <2> QED
    BY <1>1, <1>3, <2>1, <2>2, <2>3
<1>5. Wrap(x - y) = (z % Word) - h
  BY DEF Wrap, h
<1>6. z - h = x - y
  BY <1>1, <1>2
<1> QED
  BY <1>1, <1>2, <1>3, <1>4, <1>5, <1>6

(* Two numbers of one phase differ by a multiple of the cadence.           *)
LEMMA SamePhase ==
  ASSUME NEW m \in Nat \ {0}, NEW x \in Int, NEW y \in Int, x % m = y % m
  PROVE  (x - y) % m = 0
<1> DEFINE p == x \div m
           q == y \div m
<1>1. p \in Int /\ q \in Int /\ x = m * p + (x % m) /\ y = m * q + (y % m)
  OBVIOUS
<1> HIDE DEF p, q
<1>2. x - y = m * (p - q)
  BY <1>1
<1>3. p - q \in Int
  BY <1>1
<1>4. \A k \in Int : (m * k) % m = 0
  OBVIOUS
<1> QED
  BY <1>2, <1>3, <1>4

(* A wrapped difference of one cadence between rows of one phase is a      *)
(* difference of one cadence, unless the cadence divides the word.         *)
LEMMA PhaseCatchesTheWrap ==
  ASSUME NEW x \in Int64, NEW y \in Int64, x % Cadence = y % Cadence,
         Wrap(x - y) = Cadence, Word % Cadence # 0
  PROVE  x = y + Cadence
<1>1. Cadence \in Nat \ {0} /\ Word \in Nat
  BY ProfileAssumption, LimitAssumption
<1>2. x \in Int /\ y \in Int /\ Cadence \in {x - y - Word, x - y, x - y + Word}
  BY WrapOfDifference
<1>3. (x - y) % Cadence = 0
  BY <1>1, <1>2, SamePhase
<1>4. PICK k \in Int : x - y = Cadence * k
  <2> DEFINE d == x - y
             q == d \div Cadence
  <2>1. d \in Int /\ d % Cadence = 0
    BY <1>2, <1>3
  <2> HIDE DEF d
  <2>2. q \in Int /\ d = Cadence * q + (d % Cadence)
    BY <1>1, <2>1
  <2> HIDE DEF q
  <2>3. d = Cadence * q
    BY <1>1, <2>1, <2>2
  <2> QED
    BY <2>2, <2>3 DEF d
<1>5. \A n \in Int : (Cadence * n) % Cadence = 0
  BY <1>1
<1>6. CASE Cadence = x - y - Word
  <2>1. Word = Cadence * (k - 1)
    BY <1>1, <1>2, <1>4, <1>6
  <2> QED
    BY <1>4, <1>5, <2>1
<1>7. CASE Cadence = x - y + Word
  <2>1. Word = Cadence * (1 - k)
    BY <1>1, <1>2, <1>4, <1>7
  <2> QED
    BY <1>4, <1>5, <2>1
<1>8. CASE Cadence = x - y
  BY <1>1, <1>2, <1>8
<1> QED
  BY <1>2, <1>6, <1>7, <1>8

(* With nothing to say about a step, its difference is one cadence.        *)
LEMMA StepsOfOneCadence ==
  ASSUME RawFrame(frame), Usable, NotIncreasing = {}, Overlapping = {}, Irregular = {}, GapEnds = {}
  PROVE  \A i \in Steps : Diff(i) = Cadence
<1> TAKE i \in Steps
<1>1. /\ i \in Rows /\ i - 1 \in Rows
      /\ Time(i) \in Int64 /\ Time(i - 1) \in Int64
  BY UsableCells
<1>2. Diff(i) \in Int /\ Cadence \in Nat \ {0}
  BY <1>1, WrapOfDifference, ProfileAssumption DEF Diff
<1>3. Diff(i) > 0
  BY <1>2 DEF NotIncreasing
<1>4. Diff(i) >= Cadence
  BY <1>2, <1>3 DEF Overlapping
<1>5. ~(Diff(i) > Cadence)
  BY <1>2 DEF Irregular, GapEnds
<1> QED
  BY <1>2, <1>4, <1>5

(* If no difference wrapped, or the rows are on the phase and the cadence  *)
(* does not divide the word, the rows are one cadence apart.               *)
LEMMA NothingLeft ==
  ASSUME RawFrame(frame), Usable, NoWrap \/ Word % Cadence # 0, OffPhase = {},
         NotIncreasing = {}, Overlapping = {}, Irregular = {}, GapEnds = {}
  PROVE  \A i \in Steps : Time(i) = Time(i - 1) + Cadence
<1> TAKE i \in Steps
<1>1. /\ i \in Rows /\ i - 1 \in Rows
      /\ Time(i) \in Int64 /\ Time(i - 1) \in Int64
  BY UsableCells
<1>2. Diff(i) = Cadence
  BY StepsOfOneCadence
<1>3. Cadence \in Nat \ {0}
  BY ProfileAssumption
<1>7. CASE NoWrap
  BY <1>1, <1>2, <1>3, <1>7, UsableTimes
<1>8. CASE Word % Cadence # 0
  <2>1. Time(i) % Cadence = Time(i - 1) % Cadence
    BY <1>1 DEF OffPhase
  <2> QED
    BY <1>1, <1>2, <1>8, <2>1, PhaseCatchesTheWrap DEF Diff
<1> QED
  BY <1>7, <1>8

LEMMA SoundIsComplete == ChecksSoFar => PassedIsCompleteGrid
<1> SUFFICES ASSUME ChecksSoFar, Accepted, NoWrap \/ Word % Cadence # 0
             PROVE  /\ Present = Column
                    /\ WrongKind = {}
                    /\ NullCells = {}
                    /\ NonFiniteCells = {}
                    /\ \A i \in Rows : Time(i) % Cadence = Phase
                    /\ \A i \in Steps : Time(i) = Time(i - 1) + Cadence
  BY DEF PassedIsCompleteGrid
<1>1. findings = {} /\ stage = "done" /\ RawFrame(frame)
  BY DEF ChecksSoFar, Accepted, StrictMeansClean, ValidationTypes
<1>2. /\ Column \ Present = {} /\ WrongKind = {} /\ NullCells = {} /\ NonFiniteCells = {}
      /\ OffPhase = {} /\ NotIncreasing = {} /\ Overlapping = {} /\ Irregular = {}
      /\ ReportedGaps = {}
  BY <1>1 DEF ChecksSoFar, CleanSoFar
<1>3. Usable
  BY <1>2, CompleteIsUsable
<1>4. GapEnds = {}
  BY <1>1, <1>2, <1>3, UsableCells, SomeGapIsReported
<1>5. \A i \in Steps : Time(i) = Time(i - 1) + Cadence
  BY <1>1, <1>2, <1>3, <1>4, NothingLeft
<1>6. \A i \in Rows : Time(i) % Cadence = Phase
  BY <1>2 DEF OffPhase
<1>7. Present = Column
  BY <1>2 DEF Present
<1> QED
  BY <1>2, <1>5, <1>6, <1>7

(* A frame that strict validation lets pass, or report mode has nothing to *)
(* say about, is a complete grid of the declared columns.                  *)
THEOREM PassedFramesAreComplete == ValidationSpec => []PassedIsCompleteGrid
BY ChecksAreSound, SoundIsComplete, PTL

-----------------------------------------------------------------------------
(* What a gap finding says                                                 *)

(* Rows that each come after the row before come after every earlier row:  *)
(* the first row that did not would have to come before its predecessor.   *)
LEMMA InOrder ==
  ASSUME RawFrame(frame), Usable, NoWrap, NotIncreasing = {},
         NEW i \in Rows, NEW k \in Rows, i < k
  PROVE  Time(i) < Time(k)
<1> DEFINE Bad == {j \in Rows : i < j /\ ~(Time(i) < Time(j))}
<1> SUFFICES ASSUME Bad # {} PROVE FALSE
  OBVIOUS
<1>1. Height \in Nat /\ \A j \in Rows : Time(j) \in Int
  BY UsableTimes
<1>2. Bad \in SUBSET Nat
  BY <1>1 DEF Rows
<1>3. PICK j \in Bad : \A b \in Bad : j <= b
  BY <1>2, LeastElement
<1>4. j \in Steps /\ j - 1 \in Rows /\ i <= j - 1
  BY <1>1, <1>3 DEF Rows, Steps
<1>5. j - 1 \notin Bad
  BY <1>1, <1>3, <1>4 DEF Rows
<1>6. Time(i) <= Time(j - 1)
  <2>1. CASE i = j - 1
    BY <1>1, <2>1
  <2>2. CASE i < j - 1
    BY <1>1, <1>4, <1>5, <2>2
  <2> QED
    BY <1>1, <1>4, <2>1, <2>2 DEF Rows
<1>7. Diff(j) = Time(j) - Time(j - 1)
  BY <1>4, UsableTimes
<1>8. Diff(j) > 0
  BY <1>1, <1>4, <1>7 DEF NotIncreasing, Rows, Steps
<1>9. Time(i) < Time(j)
  BY <1>1, <1>3, <1>4, <1>6, <1>7, <1>8
<1> QED
  BY <1>3, <1>9

(* A gap before row i lies between two rows and holds a whole number of    *)
(* candles.                                                                *)
LEMMA GapIsAbsence ==
  ASSUME RawFrame(frame), Usable, NoWrap, NotIncreasing = {}, NEW i \in GapEnds
  PROVE  /\ \A j \in Rows : Time(j) < Gap(i).start \/ Time(j) >= Gap(i).end
         /\ \E h, j \in Rows : Time(h) = Gap(i).start - Cadence /\ Time(j) = Gap(i).end
         /\ Gap(i).count > 0
         /\ Gap(i).end - Gap(i).start = Gap(i).count * Cadence
<1> DEFINE D == Diff(i)
<1>1. Height \in Nat /\ (\A j \in Rows : Time(j) \in Int) /\ Cadence \in Nat \ {0}
  BY UsableTimes, ProfileAssumption
<1>2. i \in Rows /\ i - 1 \in Rows /\ i \in Steps /\ D = Time(i) - Time(i - 1)
  BY UsableTimes DEF GapEnds
<1>3. D \in Int /\ D > Cadence /\ D % Cadence = 0
  BY <1>1, <1>2 DEF GapEnds
<1>4. /\ Gap(i).start = Time(i - 1) + Cadence
      /\ Gap(i).end = Time(i)
      /\ Gap(i).count = (Time(i) - (Time(i - 1) + Cadence)) \div Cadence
  BY DEF Gap
<1>5. Time(i) - (Time(i - 1) + Cadence) = D - Cadence
  BY <1>1, <1>2
<1>6. /\ Gap(i).count \in Nat \ {0}
      /\ D - Cadence = Cadence * Gap(i).count
  BY <1>1, <1>3, <1>4, <1>5, DivLessOne
<1>7. Gap(i).end - Gap(i).start = Gap(i).count * Cadence
  BY <1>1, <1>2, <1>4, <1>5, <1>6
<1>8. ASSUME NEW j \in Rows PROVE Time(j) < Gap(i).start \/ Time(j) >= Gap(i).end
  <2>1. i \in Nat /\ j \in Nat
    BY <1>1, <1>2 DEF Rows
  <2>2. CASE j < i
    <3>1. Time(j) <= Time(i - 1)
      <4>1. CASE j = i - 1
        BY <1>1, <1>2, <4>1
      <4>2. CASE j < i - 1
        BY <1>1, <1>2, <4>2, InOrder
      <4> QED
        BY <2>1, <2>2, <4>1, <4>2
    <3> QED
      BY <1>1, <1>2, <1>4, <3>1
  <2>3. CASE i <= j
    <3>1. CASE j = i
      BY <1>1, <1>2, <1>4, <3>1
    <3>2. CASE i < j
      BY <1>1, <1>2, <1>4, <3>2, InOrder
    <3> QED
      BY <2>1, <2>3, <3>1, <3>2
  <2> QED
    BY <2>1, <2>2, <2>3
<1>9. \E h, j \in Rows : Time(h) = Gap(i).start - Cadence /\ Time(j) = Gap(i).end
  BY <1>1, <1>2, <1>4
<1> QED
  BY <1>6, <1>7, <1>8, <1>9

LEMMA SoundGaps == ChecksSoFar => GapsAreAbsences
<1> SUFFICES ASSUME ChecksSoFar, NoWrap, NEW f \in GapFindings
             PROVE  /\ \A i \in Rows : Time(i) < f.start \/ Time(i) >= f.end
                    /\ \E i, j \in Rows : Time(i) = f.start - Cadence /\ Time(j) = f.end
                    /\ f.count > 0
                    /\ f.end - f.start = f.count * Cadence
  BY DEF GapsAreAbsences
<1>1. RawFrame(frame) /\ Usable /\ NotIncreasing = {}
  BY DEF ChecksSoFar, ValidationTypes, RowChecksMakeSense
<1>2. PICK i \in GapEnds : f = Gap(i)
  BY DEF ChecksSoFar, RowChecksMakeSense
<1> QED
  BY <1>1, <1>2, GapIsAbsence

(* No gap finding names a candle that is there, however many rows, gaps    *)
(* and findings a frame has.                                               *)
THEOREM GapFindingsAreTrue == ValidationSpec => []GapsAreAbsences
BY ChecksAreSound, SoundGaps, PTL

-----------------------------------------------------------------------------
(* That no missing candle goes unreported.  The invariant: as long as no   *)
(* row was found fault with, each row check that has run saw nothing, and  *)
(* the gap findings are those of the reported gaps.                        *)

RowsInOrder == \A f \in findings : f.kind \notin RowKinds

RowsSoFar ==
  /\ stage \notin {"report", "done"} => GapFindings = {}
  /\ Usable /\ RowsInOrder =>
       /\ stage \notin {"schema", "nulls", "finite", "phase"} => OffPhase = {}
       /\ stage \notin {"schema", "nulls", "finite", "phase", "monotonic"} => NotIncreasing = {}
       /\ stage \in {"irregular", "gaps", "report", "done"} => Overlapping = {}
       /\ stage \in {"gaps", "report", "done"} => Irregular = {}
       /\ stage \in {"report", "done"} => GapFindings = {Gap(i) : i \in ReportedGaps}

(* A check that adds no row kind saw nothing, if its kind is one.          *)
LEMMA NothingWasFound ==
  ASSUME NEW kind, NEW S, findings' = findings \cup About(kind, S), RowsInOrder'
  PROVE  /\ RowsInOrder
         /\ kind \in RowKinds => S = {}
<1>1. RowsInOrder
  BY DEF RowsInOrder, RowKinds
<1>2. ASSUME kind \in RowKinds PROVE S = {}
  <2>1. \A f \in About(kind, S) : f \in findings' /\ f.kind = kind
    BY AboutNothing
  <2>2. About(kind, S) = {}
    BY <1>2, <2>1 DEF RowsInOrder, RowKinds
  <2> QED
    BY <2>2, AboutNothing
<1> QED
  BY <1>1, <1>2

LEMMA InitRows == ValidationInit => RowsSoFar
BY DEF ValidationInit, RowsSoFar, GapFindings

LEMMA StepRows == ChecksSoFar /\ RowsSoFar /\ [ValidationNext]_validation => RowsSoFar'
<1> SUFFICES ASSUME ChecksSoFar, RowsSoFar, [ValidationNext]_validation PROVE RowsSoFar'
  OBVIOUS
<1> USE DEF RowsSoFar
<1>0. RawFrame(frame) /\ stage \in Stage
  BY DEF ChecksSoFar, ValidationTypes
<1>1. CASE CheckSchema
  BY <1>1, NoGapFound, FrameFixed DEF CheckSchema, Go
<1>2. CASE CheckNulls
  BY <1>2, NoGapFound, FrameFixed DEF CheckNulls, Go
<1>3. CASE CheckNonFinite
  <2>1. GapFindings' = GapFindings
    BY <1>3, NoGapFound DEF CheckNonFinite, Go
  <2> QED
    BY <1>3, <2>1, FrameFixed DEF CheckNonFinite, Go
<1>4. CASE CheckPhase
  <2>1. GapFindings' = GapFindings /\ GapFindings = {}
    BY <1>4, NoGapFound DEF CheckPhase, Go
  <2>2. RowsInOrder' => OffPhase = {}
    BY <1>4, NothingWasFound DEF CheckPhase, Go, RowKinds
  <2>3. Height \in Nat
    BY <1>0 DEF Height, RawFrame
  <2>4. ReportedGaps = {} => {Gap(i) : i \in ReportedGaps} = {}
    OBVIOUS
  <2>5. CASE Height < 2
    BY <1>4, <2>1, <2>2, <2>3, <2>4, <2>5, NoSteps, FrameFixed DEF CheckPhase, Go
  <2>6. CASE ~(Height < 2)
    BY <1>4, <2>1, <2>2, <2>6, FrameFixed DEF CheckPhase, Go
  <2> QED
    BY <2>5, <2>6
<1>5. CASE CheckMonotonic
  <2>1. GapFindings' = GapFindings /\ GapFindings = {}
    BY <1>5, NoGapFound DEF CheckMonotonic, Go
  <2>2. RowsInOrder' => RowsInOrder /\ NotIncreasing = {}
    BY <1>5, NothingWasFound DEF CheckMonotonic, Go, RowKinds
  <2> QED
    BY <1>5, <2>1, <2>2, FrameFixed DEF CheckMonotonic, Go
<1>6. CASE CheckOverlap
  <2>1. GapFindings' = GapFindings
    BY <1>6, NoGapFound DEF CheckOverlap, Go
  <2>2. RowsInOrder' => RowsInOrder /\ Overlapping = {}
    BY <1>6, NothingWasFound DEF CheckOverlap, Go, RowKinds
  <2> QED
    BY <1>6, <2>1, <2>2, FrameFixed DEF CheckOverlap, Go
<1>7. CASE CheckIrregularInterval
  <2>1. GapFindings' = GapFindings
    BY <1>7, NoGapFound DEF CheckIrregularInterval, Go
  <2>2. RowsInOrder' => RowsInOrder /\ Irregular = {}
    BY <1>7, NothingWasFound DEF CheckIrregularInterval, Go, RowKinds
  <2> QED
    BY <1>7, <2>1, <2>2, FrameFixed DEF CheckIrregularInterval, Go
<1>8. CASE CheckGaps
  <2>1. \A i : Gap(i).kind = "gap"
    BY DEF Gap
  <2>2. GapFindings' = {Gap(i) : i \in ReportedGaps}
    <3> DEFINE found == {Gap(i) : i \in ReportedGaps}
    <3>1. \A f \in found : f.kind = "gap"
      BY <2>1
    <3>2. findings' = findings \cup found /\ GapFindings = {}
      BY <1>8 DEF CheckGaps, Go
    <3> HIDE DEF found
    <3>3. {f \in found : f.kind = "gap"} = found
      BY <3>1
    <3>4. GapFindings' = found
      BY <3>2, <3>3, GapFindingsGrow
    <3> QED
      BY <3>4 DEF found
  <2>3. {Gap(i) : i \in ReportedGaps}' = {Gap(i) : i \in ReportedGaps}
    BY <1>8, FrameFixed DEF CheckGaps, Go
  <2>4. RowsInOrder' => RowsInOrder
    BY <1>8 DEF CheckGaps, Go, RowsInOrder, RowKinds
  <2> QED
    BY <1>8, <2>2, <2>3, <2>4, FrameFixed DEF CheckGaps, Go
<1>9. CASE Report
  <2>1. GapFindings' = GapFindings /\ RowsInOrder' = RowsInOrder
    BY <1>9 DEF Report, GapFindings, RowsInOrder
  <2>2. {Gap(i) : i \in ReportedGaps}' = {Gap(i) : i \in ReportedGaps}
    BY <1>9, FrameFixed DEF Report
  <2> QED
    BY <1>9, <2>1, <2>2, FrameFixed DEF Report
<1>10. CASE UNCHANGED validation
  <2>1. GapFindings' = GapFindings /\ RowsInOrder' = RowsInOrder
    BY <1>10 DEF validation, GapFindings, RowsInOrder
  <2>2. {Gap(i) : i \in ReportedGaps}' = {Gap(i) : i \in ReportedGaps}
    BY <1>10, FrameFixed DEF validation
  <2> QED
    BY <1>10, <2>1, <2>2, FrameFixed DEF validation
<1> QED
  BY <1>1, <1>2, <1>3, <1>4, <1>5, <1>6, <1>7, <1>8, <1>9, <1>10 DEF ValidationNext

(* The number of smaller elements is another one for every element of a    *)
(* finite set of naturals, and takes every value below its size.           *)
LEMMA Ranks ==
  ASSUME NEW G \in SUBSET Nat, IsFiniteSet(G),
         NEW rank, rank = [x \in G |-> Cardinality({y \in G : y < x})]
  PROVE  rank \in Bijection(G, 0 .. Cardinality(G) - 1)
<1> DEFINE n == Cardinality(G)
           Below(x) == {y \in G : y < x}
<1>1. n \in Nat
  BY FS_CardinalityType
<1>2. ASSUME NEW x \in G
      PROVE  IsFiniteSet(Below(x)) /\ Cardinality(Below(x)) \in 0 .. n - 1
  <2>1. Below(x) \subseteq G /\ x \notin Below(x)
    BY <1>2
  <2>2. IsFiniteSet(Below(x)) /\ Cardinality(Below(x)) <= n /\ (Cardinality(Below(x)) = n => Below(x) = G)
    BY <2>1, FS_Subset
  <2>3. Cardinality(Below(x)) \in Nat
    BY <2>2, FS_CardinalityType
  <2> HIDE DEF Below
  <2> QED
    BY <1>1, <2>1, <2>2, <2>3
<1>3. ASSUME NEW x \in G, NEW z \in G, x < z
      PROVE  Cardinality(Below(x)) # Cardinality(Below(z))
  <2>1. Below(x) \subseteq Below(z) /\ x \in Below(z) /\ x \notin Below(x)
    <3>1. x \in Nat /\ z \in Nat /\ ~(x < x)
      OBVIOUS
    <3>2. ASSUME NEW y \in Below(x) PROVE y \in Below(z)
      <4>1. y \in Nat /\ y < x
        OBVIOUS
      <4> QED
        BY <1>3, <3>1, <4>1
    <3> QED
      BY <1>3, <3>1, <3>2
  <2>2. IsFiniteSet(Below(z))
    BY <1>2
  <2>3. Cardinality(Below(x)) = Cardinality(Below(z)) => Below(x) = Below(z)
    BY <2>1, <2>2, FS_Subset
  <2> QED
    BY <2>1, <2>3
<1>4. rank \in [G -> 0 .. n - 1]
  BY <1>2
<1>5. ASSUME NEW x \in G, NEW z \in G, rank[x] = rank[z] PROVE x = z
  <2>1. x \in Nat /\ z \in Nat
    OBVIOUS
  <2>2. ~(x < z) /\ ~(z < x)
    BY <1>3, <1>5
  <2> QED
    BY <2>1, <2>2
<1>6. rank \in Injection(G, 0 .. n - 1)
  BY <1>4, <1>5 DEF Injection, IsInjective
<1>7. IsFiniteSet(0 .. n - 1) /\ Cardinality(0 .. n - 1) = n
  <2>1. 0 \in Int /\ n - 1 \in Int
    BY <1>1
  <2> QED
    BY <1>1, <2>1, FS_Interval
<1> HIDE DEF n
<1>8. rank \in Surjection(G, 0 .. n - 1)
  BY <1>6, <1>7, FS_Injection DEF n
<1> QED
  BY <1>6, <1>8 DEF Bijection, n

(* Of a finite set with at least m elements, the m first are m.            *)
LEMMA FirstOfMany ==
  ASSUME NEW G \in SUBSET Nat, IsFiniteSet(G), NEW m \in Nat, m <= Cardinality(G)
  PROVE  LET first == {x \in G : Cardinality({y \in G : y < x}) < m} IN
         IsFiniteSet(first) /\ Cardinality(first) = m
<1> DEFINE rank == [x \in G |-> Cardinality({y \in G : y < x})]
           first == {x \in G : Cardinality({y \in G : y < x}) < m}
           low == [x \in first |-> rank[x]]
           n == Cardinality(G)
<1>1. n \in Nat
  BY FS_CardinalityType
<1>2. rank \in Bijection(G, 0 .. n - 1)
  BY Ranks
<1>3. first = {x \in G : rank[x] < m}
  OBVIOUS
<1> HIDE DEF rank, first
<1>4. low \in Injection(first, 0 .. m - 1) /\ low \in Surjection(first, 0 .. m - 1)
  <2>1. \A x \in first : x \in G /\ rank[x] \in 0 .. n - 1 /\ rank[x] < m
    BY <1>2, <1>3 DEF Bijection, Injection
  <2>2. low \in [first -> 0 .. m - 1]
    BY <1>1, <2>1
  <2>3. \A x, z \in first : low[x] = low[z] => x = z
    BY <1>2, <2>1 DEF Bijection, Injection, IsInjective
  <2>4. \A k \in 0 .. m - 1 : \E x \in first : low[x] = k
    <3> TAKE k \in 0 .. m - 1
    <3>1. k \in 0 .. n - 1 /\ k < m
      BY <1>1
    <3>2. PICK x \in G : rank[x] = k
      BY <1>2, <3>1 DEF Bijection, Surjection
    <3> QED
      BY <1>3, <3>1, <3>2
  <2> QED
    BY <2>2, <2>3, <2>4 DEF Injection, Surjection, IsInjective
<1>5. IsFiniteSet(0 .. m - 1) /\ Cardinality(0 .. m - 1) = m
  <2>1. 0 \in Int /\ m - 1 \in Int
    OBVIOUS
  <2>2. Cardinality(0 .. m - 1) = IF 0 > m - 1 THEN 0 ELSE (m - 1) - 0 + 1
    BY <2>1, FS_Interval
  <2>3. IsFiniteSet(0 .. m - 1)
    BY <2>1, FS_Interval
  <2> QED
    BY <2>2, <2>3
<1>6. IsFiniteSet(first)
  <2>1. first \subseteq G
    BY DEF first
  <2> QED
    BY <2>1, FS_Subset
<1> HIDE DEF low
<1>7. Cardinality(first) = m
  BY <1>4, <1>5, FS_Injection
<1> QED
  BY <1>6, <1>7 DEF first

(* A candle missing between the first row and the last is missing before   *)
(* the first row after it, and that row ends a gap.                        *)
LEMMA AbsenceIsInAGap ==
  ASSUME RawFrame(frame), Usable, NoWrap, OffPhase = {}, NotIncreasing = {}, Irregular = {},
         Height >= 2, NEW t \in Time(1) .. Time(Height), t % Cadence = Phase,
         \A i \in Rows : Time(i) # t
  PROVE  \E i \in GapEnds : /\ Gap(i).start <= t /\ t < Gap(i).end
                            /\ \A j \in GapEnds : j < i => Gap(j).end <= t
                            /\ \A j \in GapEnds : i < j => t < Gap(j).start
<1> DEFINE After == {i \in Rows : t < Time(i)}
<1>1. /\ Height \in Nat /\ Cadence \in Nat \ {0}
      /\ \A i \in Rows : Time(i) \in Int
      /\ \A i \in Steps : i \in Rows /\ i - 1 \in Rows /\ Diff(i) = Time(i) - Time(i - 1)
  BY UsableTimes, ProfileAssumption
<1>2. 1 \in Rows /\ Height \in Rows /\ Rows \subseteq Nat
  BY <1>1 DEF Rows
<1>3. t \in Int /\ Time(1) < t /\ t < Time(Height)
  BY <1>1, <1>2
<1>4. Height \in After /\ After \in SUBSET Nat
  BY <1>2, <1>3
<1>5. PICK i \in After : \A j \in After : i <= j
  BY <1>4, LeastElement
<1>6. i # 1 /\ i \in Rows /\ t < Time(i)
  BY <1>1, <1>2, <1>3, <1>5
<1>7. i \in Steps /\ i \in Nat /\ i - 1 \in Rows
  BY <1>1, <1>6 DEF Rows, Steps
<1>8. Time(i - 1) < t
  <2>1. i - 1 \notin After
    BY <1>5, <1>7
  <2> QED
    BY <1>1, <1>3, <1>7, <2>1
<1> HIDE DEF After
<1>9. /\ Time(i - 1) + Cadence <= t
      /\ Diff(i) > Cadence
  <2>1. Time(i - 1) \in Int /\ Time(i - 1) % Cadence = t % Cadence
    BY <1>1, <1>7 DEF OffPhase
  <2>2. t - Time(i - 1) \in Int /\ (t - Time(i - 1)) % Cadence = 0
    BY <1>1, <1>3, <2>1, SamePhase
  <2>3. t - Time(i - 1) >= Cadence
    <3> DEFINE d == t - Time(i - 1)
    <3>1. d \in Int /\ d % Cadence = 0 /\ d > 0
      BY <1>3, <1>8, <2>1, <2>2
    <3> HIDE DEF d
    <3>2. d < Cadence => d % Cadence = d
      BY <1>1, <3>1, ModOfSmall
    <3>3. d >= Cadence
      BY <1>1, <3>1, <3>2
    <3> QED
      BY <3>3 DEF d
  <2> QED
    BY <1>1, <1>3, <1>6, <1>7, <2>1, <2>3
<1>10. i \in GapEnds
  BY <1>7, <1>9 DEF Irregular, GapEnds
<1>11. Gap(i).start <= t /\ t < Gap(i).end
  BY <1>6, <1>9 DEF Gap
<1>12. ASSUME NEW j \in GapEnds, j < i PROVE Gap(j).end <= t
  <2>1. j \in Rows /\ j \in Nat
    BY <1>1, <1>2 DEF GapEnds
  <2>2. CASE j = i - 1
    BY <1>1, <1>3, <1>7, <1>8, <2>2 DEF Gap
  <2>3. CASE j < i - 1
    <3>1. Time(j) < Time(i - 1)
      BY <1>7, <2>1, <2>3, InOrder
    <3>2. Time(j) \in Int /\ Time(i - 1) \in Int
      BY <1>1, <1>7, <2>1
    <3> QED
      BY <1>3, <1>8, <3>1, <3>2 DEF Gap
  <2> QED
    BY <1>7, <1>12, <2>1, <2>2, <2>3
<1>13. ASSUME NEW j \in GapEnds, i < j PROVE t < Gap(j).start
  <2>1. j \in Rows /\ j \in Nat /\ j - 1 \in Rows
    BY <1>1, <1>2 DEF GapEnds
  <2>2. Time(i) \in Int /\ Time(j - 1) \in Int
    BY <1>1, <1>6, <2>1
  <2>3. Time(i) <= Time(j - 1)
    <3>1. CASE i = j - 1
      BY <2>2, <3>1
    <3>2. CASE i < j - 1
      BY <1>6, <2>1, <2>2, <3>2, InOrder
    <3> QED
      BY <1>7, <1>13, <2>1, <3>1, <3>2
  <2> QED
    BY <1>1, <1>3, <1>6, <2>2, <2>3 DEF Gap
<1> QED
  BY <1>10, <1>11, <1>12, <1>13

(* Different rows end different gaps.                                      *)
LEMMA GapsDiffer ==
  ASSUME RawFrame(frame), Usable, NoWrap, NotIncreasing = {},
         NEW i \in GapEnds, NEW j \in GapEnds, i # j
  PROVE  Gap(i) # Gap(j)
<1>1. /\ Height \in Nat /\ i \in Rows /\ j \in Rows
      /\ Time(i) \in Int /\ Time(j) \in Int
  BY UsableTimes DEF GapEnds
<1>2. i \in Nat /\ j \in Nat
  BY <1>1 DEF Rows
<1>3. Time(i) # Time(j)
  <2>1. CASE i < j
    BY <1>1, <2>1, InOrder
  <2>2. CASE j < i
    BY <1>1, <2>2, InOrder
  <2> QED
    BY <1>2, <2>1, <2>2
<1>4. Gap(i).end = Time(i) /\ Gap(j).end = Time(j)
  BY DEF Gap
<1> QED
  BY <1>3, <1>4

(* With the cap reached there are as many findings as it allows.           *)
LEMMA CapIsFull ==
  ASSUME RawFrame(frame), Usable, NoWrap, NotIncreasing = {},
         NEW i \in GapEnds, i \notin ReportedGaps
  PROVE  /\ Cardinality({Gap(j) : j \in ReportedGaps}) = MaxGapFindings
         /\ \A j \in ReportedGaps : j < i
<1>1. Height \in Nat /\ MaxGapFindings \in Nat
  BY LimitAssumption DEF RawFrame, Height
<1>2. GapEnds \in SUBSET Nat /\ IsFiniteSet(GapEnds)
  <2>1. 2 \in Int /\ Height \in Int /\ GapEnds \subseteq 2 .. Height
    BY <1>1 DEF GapEnds, Steps
  <2>2. IsFiniteSet(2 .. Height)
    BY <2>1, FS_Interval
  <2>3. IsFiniteSet(GapEnds)
    BY <2>1, <2>2, FS_Subset
  <2>4. 2 .. Height \subseteq Nat
    BY <2>1
  <2> QED
    BY <2>1, <2>3, <2>4
<1> DEFINE Before(j) == {k \in GapEnds : k < j}
<1>3. ASSUME NEW j \in GapEnds
      PROVE  IsFiniteSet(Before(j)) /\ Cardinality(Before(j)) \in Nat
                /\ Cardinality(Before(j)) <= Cardinality(GapEnds)
  <2>1. Before(j) \in SUBSET GapEnds
    OBVIOUS
  <2> HIDE DEF Before
  <2> QED
    BY <1>2, <2>1, FS_Subset, FS_CardinalityType
<1>4. ~(Cardinality(Before(i)) < MaxGapFindings)
  BY DEF ReportedGaps
<1>5. MaxGapFindings <= Cardinality(GapEnds)
  <2>1. Cardinality(GapEnds) \in Nat
    BY <1>2, FS_CardinalityType
  <2> QED
    BY <1>1, <1>3, <1>4, <2>1
<1>6. IsFiniteSet(ReportedGaps) /\ Cardinality(ReportedGaps) = MaxGapFindings
  BY <1>1, <1>2, <1>5, FirstOfMany DEF ReportedGaps
<1>7. ASSUME NEW j \in ReportedGaps PROVE j < i
  <2>1. j \in GapEnds /\ Cardinality(Before(j)) < MaxGapFindings
    BY DEF ReportedGaps
  <2>2. j \in Nat /\ i \in Nat /\ i # j
    BY <1>2, <2>1
  <2>3. ASSUME i < j PROVE FALSE
    <3>1. Before(i) \in SUBSET Before(j)
      <4>1. ASSUME NEW k \in Before(i) PROVE k \in Before(j)
        <5>1. k \in Nat /\ k < i /\ k \in GapEnds
          BY <1>2
        <5> QED
          BY <2>2, <2>3, <5>1
      <4> QED
        BY <4>1
    <3>2. Cardinality(Before(i)) <= Cardinality(Before(j))
      BY <1>3, <2>1, <3>1, FS_Subset
    <3> HIDE DEF Before
    <3> QED
      BY <1>1, <1>3, <1>4, <2>1, <3>2
  <2> QED
    BY <2>2, <2>3
<1> DEFINE found == {Gap(j) : j \in ReportedGaps}
           name == [j \in ReportedGaps |-> Gap(j)]
<1>8. name \in Bijection(ReportedGaps, found)
  <2>1. \A j, k \in ReportedGaps : name[j] = name[k] => j = k
    BY GapsDiffer DEF ReportedGaps
  <2> QED
    BY <2>1 DEF Bijection, Injection, Surjection, IsInjective
<1>9. Cardinality(found) = Cardinality(ReportedGaps)
  <2>1. ExistsBijection(ReportedGaps, found)
    BY <1>8 DEF ExistsBijection
  <2> HIDE DEF found
  <2> QED
    BY <1>6, <2>1, FS_Bijection
<1> QED
  BY <1>6, <1>7, <1>9

LEMMA RowsAreReported == ChecksSoFar /\ RowsSoFar => EveryAbsenceIsReported
<1> SUFFICES ASSUME ChecksSoFar, RowsSoFar, stage = "done", Usable, NoWrap, Height >= 2,
                    RowsInOrder, NEW t \in Time(1) .. Time(Height), t % Cadence = Phase,
                    \A i \in Rows : Time(i) # t
             PROVE  \/ Cardinality({f \in GapFindings : f.start <= t /\ t < f.end}) = 1
                    \/ Cardinality(GapFindings) = MaxGapFindings /\ \A f \in GapFindings : f.end <= t
  BY DEF EveryAbsenceIsReported, RowsInOrder
<1> DEFINE covering == {f \in GapFindings : f.start <= t /\ t < f.end}
<1>1. /\ RawFrame(frame) /\ OffPhase = {} /\ NotIncreasing = {} /\ Irregular = {}
      /\ GapFindings = {Gap(i) : i \in ReportedGaps}
  BY DEF RowsSoFar, ChecksSoFar, ValidationTypes
<1>2. PICK i \in GapEnds : /\ Gap(i).start <= t /\ t < Gap(i).end
                           /\ \A j \in GapEnds : j < i => Gap(j).end <= t
                           /\ \A j \in GapEnds : i < j => t < Gap(j).start
  BY <1>1, AbsenceIsInAGap
<1>3. /\ t \in Int /\ ReportedGaps \subseteq GapEnds
      /\ \A j \in GapEnds : j \in Nat /\ Gap(j).start \in Int /\ Gap(j).end \in Int
  <2>1. /\ Height \in Nat /\ \A k \in Rows : Time(k) \in Int
        /\ \A k \in Steps : k \in Rows /\ k - 1 \in Rows
        /\ Cadence \in Nat
    BY <1>1, UsableTimes, ProfileAssumption
  <2>2. GapEnds \subseteq Steps /\ Steps \subseteq Nat
    BY <2>1 DEF GapEnds, Steps
  <2> QED
    BY <2>1, <2>2 DEF Gap, ReportedGaps, Rows
<1>4. CASE i \in ReportedGaps
  <2>1. Gap(i) \in covering
    BY <1>1, <1>2, <1>4
  <2>2. ASSUME NEW f \in covering PROVE f = Gap(i)
    <3>1. PICK j \in ReportedGaps : f = Gap(j)
      BY <1>1
    <3>2. ~(j < i) /\ ~(i < j)
      BY <1>2, <1>3, <2>2, <3>1
    <3> QED
      BY <1>3, <3>1, <3>2
  <2>3. covering = {Gap(i)}
    BY <2>1, <2>2
  <2>4. Cardinality(covering) = 1
    BY <2>3, FS_Singleton
  <2> QED
    BY <2>4
<1>5. CASE i \notin ReportedGaps
  <2>1. /\ Cardinality({Gap(j) : j \in ReportedGaps}) = MaxGapFindings
        /\ \A j \in ReportedGaps : j < i
    BY <1>1, <1>5, CapIsFull
  <2>2. \A f \in GapFindings : f.end <= t
    BY <1>1, <1>2, <1>3, <2>1
  <2> QED
    BY <1>1, <2>1, <2>2
<1> QED
  BY <1>4, <1>5

(* Every candle missing between two rows is in one gap finding and one     *)
(* only, or the findings have run up to the cap before it.                 *)
THEOREM NoAbsenceIsMissed == ValidationSpec => []EveryAbsenceIsReported
<1>1. ValidationSpec => [](ChecksSoFar /\ RowsSoFar)
  BY InitChecks, StepChecks, InitRows, StepRows, PTL DEF ValidationSpec
<1> QED
  BY <1>1, RowsAreReported, PTL

-----------------------------------------------------------------------------
(* The rows against the manifest (SnapshotContinuity).                     *)

(* What was read stays what the entry made of the history.                 *)
AsHandedIn ==
  /\ RawFrame(history)
  /\ entry # "validate" => manifest \in Statement
  /\ frame = IF entry = "read" THEN FirstRows(history, RowCap(manifest)) ELSE history
  /\ verdict # "none" => entry # "validate"

(* A right history gives the checks nothing to find.                       *)
FaithfulIsClean == entry # "validate" /\ Faithful(history, manifest) => findings = {}

(* The first rows of a raw frame are one.                                  *)
LEMMA FirstRowsAreRaw ==
  ASSUME NEW f, RawFrame(f), NEW n \in Nat
  PROVE  /\ RawFrame(FirstRows(f, n))
         /\ FirstRows(f, n).height = IF f.height < n THEN f.height ELSE n
         /\ DOMAIN FirstRows(f, n).columns = DOMAIN f.columns
         /\ \A c \in Column \cap DOMAIN f.columns :
              /\ f.columns[c].kind = FirstRows(f, n).columns[c].kind
              /\ \A i \in 1 .. FirstRows(f, n).height :
                   FirstRows(f, n).columns[c].cells[i] = f.columns[c].cells[i]
<1> DEFINE h == Smaller(f.height, n)
<1>1. f.height \in Nat /\ h \in Nat /\ h <= f.height /\ h = (IF f.height < n THEN f.height ELSE n)
  BY DEF RawFrame, Smaller
<1> HIDE DEF h
<1>2. FirstRows(f, n) = [height  |-> h,
                         columns |-> [c \in DOMAIN f.columns |->
                                        [kind  |-> f.columns[c].kind,
                                         cells |-> [i \in 1 .. h |-> f.columns[c].cells[i]]]]]
  BY DEF FirstRows, h
<1>3. 1 .. h \subseteq 1 .. f.height
  BY <1>1
<1>4. FirstRows(f, n).height = h /\ DOMAIN FirstRows(f, n).columns = DOMAIN f.columns
  BY <1>2
<1>5. \A c \in DOMAIN f.columns :
        /\ f.columns[c].kind = FirstRows(f, n).columns[c].kind
        /\ \A i \in 1 .. h : FirstRows(f, n).columns[c].cells[i] = f.columns[c].cells[i]
  BY <1>2
<1> HIDE DEF RawFrame
<1>6. RawFrame(FirstRows(f, n))
  BY <1>1, <1>3, <1>4, <1>5 DEF RawFrame
<1> QED
  BY <1>1, <1>4, <1>5, <1>6

(* Rows one wrapped cadence apart are never further apart than they should *)
(* be: a wrap takes a row back, never forward.                             *)
LEMMA NeverFurther ==
  ASSUME RawFrame(frame), Usable, \A i \in Steps : Diff(i) = Cadence,
         NEW i \in Rows, NEW k \in Rows, i <= k
  PROVE  Time(k) - Time(i) <= (k - i) * Cadence
<1> DEFINE Far == {j \in Rows : i <= j /\ ~(Time(j) - Time(i) <= (j - i) * Cadence)}
<1> SUFFICES ASSUME Far # {} PROVE FALSE
  OBVIOUS
<1>1. /\ Height \in Nat /\ Cadence \in Nat \ {0} /\ Word \in Nat
      /\ \A j \in Rows : Time(j) \in Int64 /\ Time(j) \in Int
  BY UsableCells, ProfileAssumption, LimitAssumption DEF Int64
<1>2. Far \in SUBSET Nat
  BY <1>1 DEF Rows
<1>3. PICK j \in Far : \A b \in Far : j <= b
  BY <1>2, LeastElement
<1>4. j \in Rows /\ i <= j /\ j \in Nat /\ i \in Nat
  BY <1>1, <1>3 DEF Rows
<1>5. j # i
  <2>1. Time(i) - Time(i) <= (i - i) * Cadence
    BY <1>1, <1>4
  <2> QED
    BY <1>3, <2>1
<1>6. j \in Steps /\ j - 1 \in Rows /\ i <= j - 1 /\ j - 1 \notin Far
  <2>1. j \in Steps /\ j - 1 \in Rows /\ i <= j - 1
    BY <1>1, <1>4, <1>5 DEF Rows, Steps
  <2>2. ~(j <= j - 1)
    BY <1>4
  <2> QED
    BY <1>3, <2>1, <2>2
<1>7. Time(j - 1) - Time(i) <= (j - 1 - i) * Cadence
  BY <1>6
<1>8. Time(j) - Time(j - 1) <= Cadence
  <2>1. Wrap(Time(j) - Time(j - 1)) = Cadence
    BY <1>6 DEF Diff
  <2>2. /\ Time(j) \in Int /\ Time(j - 1) \in Int
        /\ Cadence \in {Time(j) - Time(j - 1) - Word, Time(j) - Time(j - 1), Time(j) - Time(j - 1) + Word}
    BY <1>1, <1>4, <1>6, <2>1, WrapOfDifference
  <2>3. Time(j) - Time(j - 1) < Word
    <3>1. Word = 2 * (Word \div 2) /\ Word \div 2 \in Nat
      BY LimitAssumption
    <3> QED
      BY <1>1, <1>4, <1>6, <3>1 DEF Int64
  <2> QED
    BY <1>1, <2>2, <2>3
<1>9. (j - 1 - i) * Cadence + Cadence = (j - i) * Cadence
  BY <1>1, <1>4
<1>10. Time(j) - Time(i) <= (j - i) * Cadence
  BY <1>1, <1>4, <1>6, <1>7, <1>8, <1>9
<1> QED
  BY <1>3, <1>10

(* With both ends where they should be, so is every row.                   *)
LEMMA EndsPinTheRows ==
  ASSUME RawFrame(frame), Usable, \A i \in Steps : Diff(i) = Cadence, Height >= 1,
         Time(Height) = Time(1) + (Height - 1) * Cadence
  PROVE  \A i \in Rows : Time(i) = Time(1) + (i - 1) * Cadence
<1> TAKE i \in Rows
<1>1. /\ Height \in Nat /\ Cadence \in Nat \ {0}
      /\ \A j \in Rows : Time(j) \in Int
  BY UsableCells, ProfileAssumption, LimitAssumption DEF Int64
<1>2. 1 \in Rows /\ Height \in Rows /\ 1 <= i /\ i <= Height /\ i \in Nat
  BY <1>1 DEF Rows
<1>3. Time(i) - Time(1) <= (i - 1) * Cadence
  BY <1>2, NeverFurther
<1>4. Time(Height) - Time(i) <= (Height - i) * Cadence
  BY <1>2, NeverFurther
<1>5. (Height - 1) * Cadence = (i - 1) * Cadence + (Height - i) * Cadence
  BY <1>1, <1>2
<1>6. (i - 1) * Cadence \in Int /\ (Height - i) * Cadence \in Int /\ (Height - 1) * Cadence \in Int
  BY <1>1, <1>2
<1> QED
  BY <1>1, <1>2, <1>3, <1>4, <1>5, <1>6

(* What the frame at hand says about the history it is of.                 *)
LEMMA WhatWasRead ==
  ASSUME AsHandedIn, entry # "validate"
  PROVE  /\ RawFrame(frame) /\ manifest \in Statement
         /\ Height = manifest.row_count <=> history.height = manifest.row_count
         /\ DOMAIN frame.columns = DOMAIN history.columns
         /\ \A c \in Column \cap DOMAIN frame.columns :
              /\ history.columns[c].kind = frame.columns[c].kind
              /\ \A i \in Rows : Cells(c)[i] = history.columns[c].cells[i]
<1>1. /\ RawFrame(history) /\ manifest \in Statement
      /\ manifest.row_count \in Nat \ {0} /\ history.height \in Nat
  BY StatementAssumption DEF AsHandedIn, RawFrame
<1>2. CASE entry = "read"
  <2> DEFINE n == RowCap(manifest)
  <2>1. n = manifest.row_count + 1 /\ n \in Nat
    BY <1>1 DEF RowCap
  <2>2. frame = FirstRows(history, n)
    BY <1>2 DEF AsHandedIn
  <2> HIDE DEF n
  <2>3. /\ RawFrame(frame)
        /\ frame.height = IF history.height < n THEN history.height ELSE n
        /\ DOMAIN frame.columns = DOMAIN history.columns
        /\ \A c \in Column \cap DOMAIN history.columns :
             /\ history.columns[c].kind = frame.columns[c].kind
             /\ \A i \in 1 .. frame.height : frame.columns[c].cells[i] = history.columns[c].cells[i]
    <3> DEFINE f == FirstRows(history, n)
    <3>1. /\ RawFrame(f)
          /\ f.height = IF history.height < n THEN history.height ELSE n
          /\ DOMAIN f.columns = DOMAIN history.columns
          /\ \A c \in Column \cap DOMAIN history.columns :
               /\ history.columns[c].kind = f.columns[c].kind
               /\ \A i \in 1 .. f.height : f.columns[c].cells[i] = history.columns[c].cells[i]
      <4>1. RawFrame(history) /\ n \in Nat
        BY <1>1, <2>1
      <4>2. RawFrame(FirstRows(history, n))
        BY <4>1, FirstRowsAreRaw
      <4>3. FirstRows(history, n).height = IF history.height < n THEN history.height ELSE n
        BY <4>1, FirstRowsAreRaw
      <4>4. DOMAIN FirstRows(history, n).columns = DOMAIN history.columns
        BY <4>1, FirstRowsAreRaw
      <4> QED
        BY <4>1, <4>2, <4>3, <4>4, FirstRowsAreRaw
    <3>2. frame = f
      BY <2>2
    <3> HIDE DEF f
    <3> QED
      BY <3>1, <3>2
  <2>4. Height = manifest.row_count <=> history.height = manifest.row_count
    BY <1>1, <2>1, <2>3 DEF Height
  <2> QED
    BY <1>1, <2>3, <2>4 DEF Height, Rows, Cells
<1>3. CASE entry # "read"
  <2>1. frame = history
    BY <1>3 DEF AsHandedIn
  <2> QED
    BY <1>1, <2>1 DEF Height, Rows, Cells
<1> QED
  BY <1>2, <1>3

(* A whole number of cadences later the phase is the same.                 *)
LEMMA PhaseOfLater ==
  ASSUME NEW m \in Nat \ {0}, NEW x \in Int, NEW k \in Int
  PROVE  (x + k * m) % m = x % m
<1> DEFINE q == x \div m
           r == x % m
<1>1. q \in Int /\ r \in 0 .. m - 1 /\ x = m * q + r
  OBVIOUS
<1> HIDE DEF q, r
<1>2. x + k * m = m * (q + k) + r /\ q + k \in Int
  BY <1>1
<1>3. \A p \in Int : (m * p + r) % m = r
  BY <1>1
<1> QED
  BY <1>2, <1>3, SMTT(60) DEF r

(* A right history has nothing for the checks to find, as long as its      *)
(* cadence is a number an Int64 holds.                                     *)
LEMMA FaithfulRows ==
  ASSUME AsHandedIn, entry # "validate", Faithful(history, manifest), Cadence < Word \div 2
  PROVE  /\ RawFrame(frame) /\ manifest \in Statement
         /\ Height = manifest.row_count
         /\ \A i \in Rows : Time(i) = manifest.first_timestamp + (i - 1) * Cadence
         /\ Column \ Present = {} /\ WrongKind = {} /\ NullCells = {} /\ NonFiniteCells = {}
         /\ OffPhase = {} /\ NotIncreasing = {} /\ Overlapping = {} /\ Irregular = {}
         /\ GapEnds = {} /\ ReportedGaps = {}
<1> DEFINE first == manifest.first_timestamp
<1>1. /\ RawFrame(frame) /\ manifest \in Statement /\ first \in Int
      /\ Height = manifest.row_count /\ Height \in Nat /\ history.height = Height
      /\ Cadence \in Nat \ {0} /\ Stamp \in Column
  BY WhatWasRead, StatementAssumption, ProfileAssumption DEF Faithful
<1>2. Present = Column
  BY WhatWasRead DEF Faithful, Present
<1>3. ASSUME NEW c \in Column
      PROVE  /\ frame.columns[c].kind = DeclaredKind[c]
             /\ \A i \in Rows : Cells(c)[i] = history.columns[c].cells[i]
                                  /\ Cells(c)[i] \notin {Null, NaN, Text}
  <2>1. c \in Column \cap DOMAIN frame.columns
    BY <1>2 DEF Present
  <2> QED
    BY <1>1, <2>1, WhatWasRead DEF Faithful, Rows
<1>4. WrongKind = {} /\ NullCells = {} /\ NonFiniteCells = {}
  BY <1>2, <1>3 DEF WrongKind, NullCells, NonFiniteCells
<1>5. \A i \in Rows : Time(i) = first + (i - 1) * Cadence
  BY <1>1, <1>3 DEF Time, Faithful, Rows
<1>6. first % Cadence = Phase
  BY DEF Faithful
<1> HIDE DEF first
<1>7. OffPhase = {}
  <2>1. ASSUME NEW i \in Rows PROVE Time(i) % Cadence = Phase
    <3>1. i - 1 \in Int
      BY <1>1 DEF Rows
    <3> QED
      BY <1>1, <1>5, <1>6, <3>1, PhaseOfLater
  <2> QED
    BY <2>1 DEF OffPhase
<1>8. ASSUME NEW i \in Steps PROVE Diff(i) = Cadence
  <2>1. i \in Rows /\ i - 1 \in Rows /\ i \in Nat
    BY <1>1 DEF Steps, Rows
  <2>2. (i - 1) * Cadence = (i - 1 - 1) * Cadence + Cadence
    BY <1>1, <2>1
  <2>3. (i - 1 - 1) * Cadence \in Int
    BY <1>1, <2>1
  <2>4. Time(i) - Time(i - 1) = Cadence
    BY <1>1, <1>5, <2>1, <2>2, <2>3
  <2>5. 2 * Cadence \in -Word .. Word - 1
    <3>1. Word \in Nat /\ Word = 2 * (Word \div 2) /\ Word \div 2 \in Nat
      BY LimitAssumption
    <3> QED
      BY <1>1, <3>1
  <2> QED
    BY <1>1, <2>4, <2>5, WrapOfSmall DEF Diff
<1>9. NotIncreasing = {} /\ Overlapping = {} /\ Irregular = {} /\ GapEnds = {}
  BY <1>1, <1>8 DEF NotIncreasing, Overlapping, Irregular, GapEnds
<1>10. ReportedGaps = {}
  BY <1>9 DEF ReportedGaps
<1> QED
  BY <1>1, <1>2, <1>4, <1>5, <1>7, <1>9, <1>10 DEF first

(* Then no check adds a finding.                                           *)
LEMMA NothingToFind ==
  ASSUME Column \ Present = {}, WrongKind = {}, NullCells = {}, NonFiniteCells = {},
         OffPhase = {}, NotIncreasing = {}, Overlapping = {}, Irregular = {}, ReportedGaps = {},
         ValidationNext, findings = {}
  PROVE  findings' = {}
<1>1. \A kind : About(kind, {}) = {}
  BY DEF About
<1>2. (Column \ Present) \cup WrongKind = {}
  OBVIOUS
<1>3. {Gap(i) : i \in {}} = {}
  OBVIOUS
<1> QED
  BY <1>1, <1>2, <1>3 DEF ValidationNext, CheckSchema, CheckNulls, CheckNonFinite, CheckPhase, CheckMonotonic,
     CheckOverlap, CheckIrregularInterval, CheckGaps, Report, Go

(* A history none of whose checks, its manifest's included, found fault    *)
(* is the right one.                                                       *)
LEMMA FaultlessIsFaithful ==
  ASSUME AsHandedIn, entry # "validate", ChecksSoFar, stage = "done", findings = {},
         SpanMismatch(manifest) = {}, RowCountMismatch = {},
         BoundsReadable => BoundMismatches = {}
  PROVE  Faithful(history, manifest)
<1> DEFINE first == manifest.first_timestamp
           last == manifest.last_timestamp
           count == manifest.row_count
<1>1. /\ RawFrame(frame) /\ manifest \in Statement
      /\ first \in Int /\ last \in Int /\ count \in Nat \ {0}
      /\ Cadence \in Nat \ {0} /\ Stamp \in Column
  BY WhatWasRead, StatementAssumption, ProfileAssumption
<1>2. /\ Column \ Present = {} /\ WrongKind = {} /\ NullCells = {} /\ NonFiniteCells = {}
      /\ OffPhase = {} /\ NotIncreasing = {} /\ Overlapping = {} /\ Irregular = {}
      /\ ReportedGaps = {}
  BY DEF ChecksSoFar, CleanSoFar
<1>3. Usable
  BY <1>2, CompleteIsUsable
<1>4. Height = count /\ history.height = count /\ Height \in Nat /\ Height >= 1
  BY <1>1, WhatWasRead DEF RowCountMismatch
<1>5. GapEnds = {}
  BY <1>2, <1>4, SomeGapIsReported
<1>6. \A i \in Steps : Diff(i) = Cadence
  BY <1>1, <1>2, <1>3, <1>5, StepsOfOneCadence
<1>7. Time(1) = first /\ Time(Height) = last
  <2>1. BoundsReadable
    BY <1>3, <1>4 DEF BoundsReadable, Usable
  <2> QED
    BY <2>1 DEF BoundMismatches
<1>8. last = first + (count - 1) * Cadence
  <2> DEFINE span == last - first
             q == span \div Cadence
  <2>1. span % Cadence = 0 /\ q + 1 = count
    BY DEF SpanMismatch
  <2>2. span \in Int
    BY <1>1
  <2> HIDE DEF span
  <2>3. q \in Int /\ span = q * Cadence
    BY <1>1, <2>1, <2>2
  <2> HIDE DEF q
  <2>4. q = count - 1
    BY <1>1, <2>1, <2>3
  <2>5. span = (count - 1) * Cadence
    BY <2>3, <2>4
  <2> QED
    BY <1>1, <2>5 DEF span
<1>9. \A i \in Rows : Time(i) = first + (i - 1) * Cadence
  BY <1>1, <1>3, <1>4, <1>6, <1>7, <1>8, EndsPinTheRows
<1>10. ASSUME NEW c \in Column
       PROVE  /\ c \in DOMAIN history.columns
              /\ history.columns[c].kind = DeclaredKind[c]
              /\ \A i \in Rows : /\ Cells(c)[i] = history.columns[c].cells[i]
                                 /\ Cells(c)[i] \notin {Null, NaN, Text}
  <2>1. c \in Present /\ c \in Column \cap DOMAIN frame.columns
    BY <1>2 DEF Present
  <2>2. frame.columns[c].kind = DeclaredKind[c] /\ DeclaredKind[c] \in {"integer", "floating"}
    BY <1>2, <2>1, ProfileAssumption DEF WrongKind
  <2>3. ASSUME NEW i \in Rows PROVE Cells(c)[i] \notin {Null, NaN, Text}
    <3>1. <<c, i>> \in Present \X Rows
      BY <2>1
    <3>2. Cells(c)[i] # Null
      BY <1>2, <3>1 DEF NullCells
    <3>3. DeclaredKind[c] = "floating" => Cells(c)[i] # NaN
      BY <1>2, <2>2, <3>1 DEF NonFiniteCells
    <3>4. i \in 1 .. frame.height
      BY DEF Rows, Height
    <3>5. Cells(c)[i] # Text /\ (frame.columns[c].kind = "integer" => Cells(c)[i] # NaN)
      BY <1>1, <2>1, <2>2, <3>4 DEF RawFrame, Cells
    <3> QED
      BY <2>2, <3>2, <3>3, <3>5
  <2> QED
    BY <2>1, <2>2, <2>3, WhatWasRead
<1>11. first % Cadence = Phase
  BY <1>2, <1>4, <1>7 DEF OffPhase, Rows
<1>12. \A i \in Rows : history.columns[Stamp].cells[i] = first + (i - 1) * Cadence
  BY <1>1, <1>9, <1>10 DEF Time
<1> QED
  BY <1>4, <1>8, <1>10, <1>11, <1>12 DEF Faithful, Rows

ContinuitySoFar ==
  ChecksSoFar /\ RowsSoFar /\ AsHandedIn /\ FaithfulIsClean /\ PassesExactlyWhenFaithful

LEMMA InitContinuity == ContinuityInit => ContinuitySoFar
<1> SUFFICES ASSUME ContinuityInit PROVE ContinuitySoFar
  OBVIOUS
<1>1. RawFrame(history) /\ (entry # "validate" => manifest \in Statement)
  BY FrameAssumption, HistoryAssumption DEF ContinuityInit
<1>2. AsHandedIn
  BY <1>1 DEF ContinuityInit, AsHandedIn
<1>3. RawFrame(frame)
  BY <1>1, <1>2, WhatWasRead DEF AsHandedIn
<1>4. ChecksSoFar
  BY <1>3, LimitAssumption DEF ContinuityInit, ChecksSoFar, ValidationTypes, CleanSoFar, RowChecksMakeSense,
     StrictMeansClean, Stage, GapFindings
<1>5. RowsSoFar
  BY DEF ContinuityInit, RowsSoFar, GapFindings
<1>6. FaithfulIsClean /\ PassesExactlyWhenFaithful
  BY DEF ContinuityInit, FaithfulIsClean, PassesExactlyWhenFaithful
<1> QED
  BY <1>2, <1>4, <1>5, <1>6 DEF ContinuitySoFar

(* The seam checks read the frame and judge it once: a right history, and  *)
(* no other, passes; none of them raises a ValueError on a right one.      *)
LEMMA StepContinuity ==
  ASSUME Cadence < Word \div 2
  PROVE  ContinuitySoFar /\ [ContinuityNext]_<<validation, continuity>> => ContinuitySoFar'
<1> SUFFICES ASSUME ContinuitySoFar, [ContinuityNext]_<<validation, continuity>>
             PROVE  ContinuitySoFar'
  OBVIOUS
<1> USE DEF ContinuitySoFar
<1> DEFINE first == manifest.first_timestamp
           last == manifest.last_timestamp
<1>1. CASE Validate
  <2>1. ValidationNext /\ UNCHANGED continuity
    BY <1>1 DEF Validate
  <2>2. ChecksSoFar' /\ RowsSoFar'
    BY <2>1, StepChecks, StepRows
  <2>3. frame' = frame
    BY <2>1 DEF ValidationNext, CheckSchema, CheckNulls, CheckNonFinite, CheckPhase, CheckMonotonic,
       CheckOverlap, CheckIrregularInterval, CheckGaps, Report, Go
  <2>4. AsHandedIn'
    BY <2>1, <2>3 DEF AsHandedIn, continuity
  <2>5. FaithfulIsClean'
    <3> SUFFICES ASSUME entry # "validate", Faithful(history, manifest) PROVE findings' = {}
      BY <2>1 DEF FaithfulIsClean, continuity
    <3> QED
      BY <2>1, FaithfulRows, NothingToFind DEF FaithfulIsClean
  <2>6. PassesExactlyWhenFaithful'
    BY <2>1 DEF PassesExactlyWhenFaithful, continuity
  <2> QED
    BY <2>2, <2>4, <2>5, <2>6
<1>2. ASSUME UNCHANGED validation, UNCHANGED <<history, manifest, entry>>,
             verdict' # "none" => entry # "validate"
      PROVE  ChecksSoFar' /\ RowsSoFar' /\ AsHandedIn' /\ FaithfulIsClean'
  <2>1. ChecksSoFar' /\ RowsSoFar'
    BY <1>2, StepChecks, StepRows
  <2> QED
    BY <1>2, <2>1 DEF AsHandedIn, FaithfulIsClean, validation
<1>3. CASE BoundsNotNumbers
  <2>1. ChecksSoFar' /\ RowsSoFar' /\ AsHandedIn' /\ FaithfulIsClean'
    BY <1>2, <1>3 DEF BoundsNotNumbers
  <2>2. entry # "validate" /\ BoundsReadable /\ ~(Bounds \subseteq Int)
    BY <1>3 DEF BoundsNotNumbers
  <2>3. ASSUME Faithful(history, manifest) PROVE FALSE
    <3>1. /\ RawFrame(frame) /\ manifest \in Statement
          /\ \A i \in Rows : Time(i) = first + (i - 1) * Cadence
      BY <2>2, <2>3, FaithfulRows
    <3>2. Height \in Nat /\ 1 \in Rows /\ Height \in Rows /\ Cadence \in Nat /\ first \in Int
      BY <2>2, <3>1, ProfileAssumption, StatementAssumption DEF BoundsReadable, RawFrame, Height, Rows
    <3>3. \A i \in Rows : (i - 1) * Cadence \in Int
      BY <3>2 DEF Rows
    <3>4. Time(1) \in Int /\ Time(Height) \in Int
      BY <3>1, <3>2, <3>3
    <3> QED
      BY <2>2, <3>4 DEF Bounds
  <2>4. verdict' = "value_error" /\ history' = history /\ manifest' = manifest
    BY <1>3 DEF BoundsNotNumbers
  <2>5. PassesExactlyWhenFaithful'
    BY <2>3, <2>4 DEF PassesExactlyWhenFaithful
  <2> QED
    BY <2>1, <2>5
<1>4. CASE CheckSeams
  <2>1. ChecksSoFar' /\ RowsSoFar' /\ AsHandedIn' /\ FaithfulIsClean'
    BY <1>2, <1>4 DEF CheckSeams
  <2>2. /\ entry # "validate" /\ stage = "done"
        /\ seams' = SpanMismatch(manifest) \cup RowCountMismatch
                      \cup (IF BoundsReadable THEN BoundMismatches ELSE {})
        /\ verdict' = IF seams' = {} /\ findings = {} THEN "passed" ELSE "continuity_error"
        /\ history' = history /\ manifest' = manifest
    BY <1>4 DEF CheckSeams
  <2>3. ASSUME seams' = {}, findings = {} PROVE Faithful(history, manifest)
    <3>1. /\ SpanMismatch(manifest) = {} /\ RowCountMismatch = {}
          /\ BoundsReadable => BoundMismatches = {}
      BY <2>2, <2>3
    <3> QED
      BY <2>2, <2>3, <3>1, FaultlessIsFaithful
  <2>4. ASSUME Faithful(history, manifest) PROVE seams' = {} /\ findings = {}
    <3>1. /\ RawFrame(frame) /\ manifest \in Statement /\ Height = manifest.row_count
          /\ \A i \in Rows : Time(i) = first + (i - 1) * Cadence
      BY <2>2, <2>4, FaithfulRows
    <3>2. /\ first \in Int /\ last \in Int /\ Height \in Nat \ {0} /\ Cadence \in Nat \ {0}
          /\ last = first + (Height - 1) * Cadence
      BY <2>4, <3>1, StatementAssumption, ProfileAssumption DEF Faithful
    <3>3. Time(1) = first /\ Time(Height) = last
      <4>1. 1 \in Rows /\ Height \in Rows /\ (1 - 1) * Cadence = 0
        BY <3>2 DEF Rows
      <4> QED
        BY <3>1, <3>2, <4>1
    <3>4. SpanMismatch(manifest) = {}
      <4> DEFINE k == Height - 1
                 span == last - first
      <4>1. k \in Int /\ span = Cadence * k
        BY <3>2
      <4>2. k + 1 = manifest.row_count
        BY <3>1, <3>2
      <4> HIDE DEF k
      <4>3. span \div Cadence = k /\ span % Cadence = 0
        BY <3>2, <4>1, DivOfMultiple
      <4> QED
        BY <4>2, <4>3 DEF SpanMismatch
    <3>5. RowCountMismatch = {} /\ BoundMismatches = {}
      BY <3>1, <3>3 DEF RowCountMismatch, BoundMismatches
    <3>6. seams' = {}
      BY <2>2, <3>4, <3>5
    <3> QED
      BY <2>2, <2>4, <3>6 DEF FaithfulIsClean
  <2>5. PassesExactlyWhenFaithful'
    BY <2>2, <2>3, <2>4 DEF PassesExactlyWhenFaithful
  <2> QED
    BY <2>1, <2>5
<1>5. CASE UNCHANGED <<validation, continuity>>
  <2>1. ChecksSoFar' /\ RowsSoFar' /\ AsHandedIn' /\ FaithfulIsClean'
    BY <1>2, <1>5 DEF continuity, AsHandedIn
  <2> QED
    BY <1>5, <2>1 DEF PassesExactlyWhenFaithful, continuity
<1> QED
  BY <1>1, <1>3, <1>4, <1>5 DEF ContinuityNext

(* A history passes exactly when it is, in full, the one its manifest      *)
(* states, though only its first rows were read: for every cadence an      *)
(* Int64 holds, timestamps that wrap included.                             *)
THEOREM OnlyTheStatedHistoryPasses ==
  ASSUME Cadence < Word \div 2
  PROVE  ContinuitySpec => []PassesExactlyWhenFaithful
<1>1. ContinuityInit => ContinuitySoFar
  BY InitContinuity
<1>2. ContinuitySoFar /\ [ContinuityNext]_<<validation, continuity>> => ContinuitySoFar'
  BY StepContinuity
<1>3. ContinuitySoFar => PassesExactlyWhenFaithful
  BY DEF ContinuitySoFar
<1> QED
  BY <1>1, <1>2, <1>3, PTL DEF ContinuitySpec

(* The seam checks leave the findings alone: what holds of the checks on   *)
(* their own holds of them when a manifest is at hand, whatever was read.  *)
THEOREM ChecksHoldUnderAManifest ==
  ContinuitySpec => [](PassedIsCompleteGrid /\ GapsAreAbsences /\ EveryAbsenceIsReported)
<1>1. ContinuityInit => ChecksSoFar /\ RowsSoFar
  BY InitContinuity DEF ContinuitySoFar
<1>2. ChecksSoFar /\ RowsSoFar /\ [ContinuityNext]_<<validation, continuity>>
        => (ChecksSoFar /\ RowsSoFar)'
  <2>1. [ContinuityNext]_<<validation, continuity>> => [ValidationNext]_validation
    BY DEF ContinuityNext, Validate, BoundsNotNumbers, CheckSeams
  <2> QED
    BY <2>1, StepChecks, StepRows
<1>3. ChecksSoFar /\ RowsSoFar => PassedIsCompleteGrid /\ GapsAreAbsences /\ EveryAbsenceIsReported
  BY SoundIsComplete, SoundGaps, RowsAreReported
<1> QED
  BY <1>1, <1>2, <1>3, PTL DEF ContinuitySpec

=============================================================================
