-------------------------- MODULE SourceValidation --------------------------
(***************************************************************************)
(* validate_source_frame (source/validation.py): the sequence of checks a  *)
(* raw frame goes through, each adding its findings, and the places where  *)
(* the sequence is left early because a later check would read nonsense.   *)
(*                                                                         *)
(* A frame holds, for each column that is present, the kind of its dtype   *)
(* and one cell per row.  Of a price cell it matters only whether it is a  *)
(* finite number; a cell of the timestamp column is the number itself.     *)
(* Samples and messages of a finding are left out; the rows it is about    *)
(* stand for them.                                                         *)
(***************************************************************************)
EXTENDS Integers, Sequences, FiniteSets

CONSTANTS
  Column,         \* the columns the profile declares: raw_schema
  DeclaredKind,   \* [Column -> {"integer", "floating"}]
  Stamp,          \* profile.timestamp_column
  Cadence,        \* profile.cadence, in seconds
  Phase,          \* profile.phase, in seconds
  Null,           \* an absent cell
  NaN,            \* a cell of a floating column that is no finite number
  Number,         \* any finite cell of a price column
  Text,           \* a cell of a column that is not numeric
  MaxGapFindings, \* _MAX_GAP_FINDINGS
  Word,           \* 2^64: differences of timestamps are Int64
  Frame,          \* the frames that may be handed in
  Mode            \* the modes it may be called with: {"strict", "report"}

(* SourceProfile.__post_init__ refuses anything else.                      *)
ASSUME ProfileAssumption ==
  /\ DeclaredKind \in [Column -> {"integer", "floating"}]
  /\ Stamp \in Column
  /\ DeclaredKind[Stamp] = "integer"
  /\ Cadence \in Nat \ {0}
  /\ Phase \in 0 .. Cadence - 1

ASSUME LimitAssumption ==
  /\ MaxGapFindings \in Nat \ {0}
  /\ Word \in Nat /\ Word > 0 /\ Word % 2 = 0
  /\ Mode \subseteq {"strict", "report"}
  /\ {Null, NaN, Number, Text} \cap Int = {}

(* The timestamps are cast to Int64.                                       *)
Int64 == -(Word \div 2) .. Word \div 2 - 1

(* A frame is rectangular: a column that is present has a cell for every   *)
(* row, and the cells its kind can hold.                                   *)
RawFrame(f) ==
  /\ f.height \in Nat
  /\ \A c \in Column \cap DOMAIN f.columns : \A i \in 1 .. f.height :
       LET column == f.columns[c]
           cell   == column.cells[i]
       IN
       /\ column.kind \in {"integer", "floating"} => cell # Text
       /\ column.kind = "integer" => cell # NaN
       /\ c = Stamp /\ column.kind = "integer" => cell \in Int64 \cup {Null}

ASSUME FrameAssumption == \A f \in Frame : RawFrame(f)

VARIABLES
  frame,     \* the frame under validation
  mode,      \* the mode of the call
  stage,     \* the check that runs next
  findings,  \* what the checks so far have found
  answer     \* how the call ended

validation == <<frame, mode, stage, findings, answer>>

Stage == {"schema", "nulls", "finite", "phase", "monotonic", "overlap",
          "irregular", "gaps", "report", "done"}

Height == frame.height

(* Columns the profile does not declare are not looked at.                 *)
Present == Column \cap DOMAIN frame.columns

Cells(c) == frame.columns[c].cells

Rows == 1 .. Height

ValidationInit ==
  /\ frame \in Frame
  /\ mode \in Mode
  /\ stage = "schema"
  /\ findings = {}
  /\ answer = "none"

-----------------------------------------------------------------------------
(* What the checks compute                                                 *)

WrongKind == {c \in Present : frame.columns[c].kind # DeclaredKind[c]}

NullCells == {cell \in Present \X Rows : Cells(cell[1])[cell[2]] = Null}

(* Only columns declared floating that arrived as floats are scanned.      *)
NonFiniteCells ==
  {cell \in Present \X Rows :
     /\ DeclaredKind[cell[1]] = "floating"
     /\ frame.columns[cell[1]].kind = "floating"
     /\ Cells(cell[1])[cell[2]] = NaN}

(* _timestamp_column_is_usable: present, an integer column, and null-free. *)
Usable ==
  /\ Stamp \in Present
  /\ Stamp \notin WrongKind
  /\ \A i \in Rows : Cells(Stamp)[i] # Null

Time(i) == Cells(Stamp)[i]

(* Subtraction of two Int64 columns keeps their width.                     *)
Wrap(x) == ((x + Word \div 2) % Word) - Word \div 2

(* The step from the row before, for every row but the first.              *)
Diff(i) == Wrap(Time(i) - Time(i - 1))

Steps == 2 .. Height

(* Faulty variant: the steps between rows are trusted with the others.     *)
OffPhaseAtTheStart == {i \in Rows : i = 1 /\ Time(i) % Cadence # Phase}

OffPhase == {i \in Rows : Time(i) % Cadence # Phase}

NotIncreasing == {i \in Steps : Diff(i) <= 0}

Overlapping == {i \in Steps : Diff(i) > 0 /\ Diff(i) < Cadence}

Irregular == {i \in Steps : Diff(i) > Cadence /\ Diff(i) % Cadence # 0}

GapEnds == {i \in Steps : Diff(i) > Cadence /\ Diff(i) % Cadence = 0}

(* Faulty variant: the cap keeps the last gaps instead of the first.       *)
LaterGaps == {i \in GapEnds : Cardinality({j \in GapEnds : j > i}) < MaxGapFindings}

(* The first _MAX_GAP_FINDINGS of them, in row order.                      *)
ReportedGaps == {i \in GapEnds : Cardinality({j \in GapEnds : j < i}) < MaxGapFindings}

(* A finding about rows or cells, if there are any.                        *)
About(kind, offending) ==
  IF offending = {} THEN {} ELSE {[kind |-> kind, count |-> Cardinality(offending)]}

(* The half-open interval of the candles missing before row i.             *)
Gap(i) ==
  LET start == Time(i - 1) + Cadence IN
  [kind  |-> "gap",
   count |-> (Time(i) - start) \div Cadence,
   start |-> start,
   end   |-> Time(i)]

-----------------------------------------------------------------------------
(* The checks, in the order _run_checks makes them                         *)

Go(next, found) ==
  /\ findings' = findings \cup found
  /\ stage' = next
  /\ UNCHANGED <<frame, mode, answer>>

CheckSchema ==
  /\ stage = "schema"
  /\ Go("nulls", About("schema", (Column \ Present) \cup WrongKind))

CheckNulls ==
  /\ stage = "nulls"
  /\ Go("finite", About("null_values", NullCells))

CheckNonFinite ==
  /\ stage = "finite"
  /\ Go(IF Usable THEN "phase" ELSE "report", About("non_finite_values", NonFiniteCells))

CheckPhase ==
  /\ stage = "phase"
  /\ Go(IF Height < 2 THEN "report" ELSE "monotonic", About("off_phase", OffPhase))

(* Faulty variant: the sequence goes on over an unsorted frame.            *)
CheckMonotonicAndGoOn ==
  /\ stage = "monotonic"
  /\ Go("overlap", About("non_increasing_timestamps", NotIncreasing))

(* Differences of unsorted timestamps mean nothing to the checks below.    *)
CheckMonotonic ==
  /\ stage = "monotonic"
  /\ Go(IF NotIncreasing = {} THEN "overlap" ELSE "report",
        About("non_increasing_timestamps", NotIncreasing))

CheckOverlap ==
  /\ stage = "overlap"
  /\ Go("irregular", About("overlapping_intervals", Overlapping))

CheckIrregularInterval ==
  /\ stage = "irregular"
  /\ Go("gaps", About("irregular_interval", Irregular))

CheckGaps ==
  /\ stage = "gaps"
  /\ Go("report", {Gap(i) : i \in ReportedGaps})

(* SourceValidationError in strict mode, the report otherwise.             *)
Report ==
  /\ stage = "report"
  /\ answer' = IF mode = "strict" /\ findings # {} THEN "refused" ELSE "report"
  /\ stage' = "done"
  /\ UNCHANGED <<frame, mode, findings>>

ValidationNext ==
  \/ CheckSchema \/ CheckNulls \/ CheckNonFinite \/ CheckPhase \/ CheckMonotonic
  \/ CheckOverlap \/ CheckIrregularInterval \/ CheckGaps \/ Report

ValidationSpec == ValidationInit /\ [][ValidationNext]_validation

-----------------------------------------------------------------------------
(* What must hold                                                          *)

(* The call let the frame pass: strict mode returned, or report mode had   *)
(* nothing to report.                                                      *)
Accepted == answer = "report" /\ (mode = "strict" \/ findings = {})

(* No difference of two timestamps leaves the width of an Int64.           *)
NoWrap == Usable => \A i, j \in Rows : 2 * (Time(i) - Time(j)) \in -Word .. Word - 1

(* A frame that passes is a complete grid: every declared column of its    *)
(* declared kind with no null and no non-finite cell, the first row on the *)
(* declared phase, and each row one cadence after the one before.  At a    *)
(* cadence that divides 2^64 rows 2^63 seconds apart may pass for          *)
(* neighbours; at any other, a difference that wraps to one cadence is     *)
(* between rows of which one is off the phase.                             *)
PassedIsCompleteGrid ==
  Accepted /\ (NoWrap \/ Word % Cadence # 0) =>
    /\ Present = Column
    /\ WrongKind = {}
    /\ NullCells = {}
    /\ NonFiniteCells = {}
    /\ \A i \in Rows : Time(i) % Cadence = Phase
    /\ \A i \in Steps : Time(i) = Time(i - 1) + Cadence

GapFindings == {f \in findings : f.kind = "gap"}

(* A gap finding never names a candle that is there: no row of the frame,  *)
(* wherever it stands, lies in the interval; the interval runs from one    *)
(* cadence after a row to another row; and its count is of the candles     *)
(* missing in it.  ("can misreport a timestamp that is actually present as *)
(* a gap boundary", validation.py:25, is what the early returns prevent.)  *)
GapsAreAbsences ==
  NoWrap => \A f \in GapFindings :
    /\ \A i \in Rows : Time(i) < f.start \/ Time(i) >= f.end
    /\ \E i, j \in Rows : Time(i) = f.start - Cadence /\ Time(j) = f.end
    /\ f.count > 0
    /\ f.end - f.start = f.count * Cadence

RowKinds == {"off_phase", "non_increasing_timestamps", "overlapping_intervals",
             "irregular_interval"}

(* Every candle missing between two rows is in exactly one gap finding,    *)
(* when the rows are otherwise in order; past the cap, the earliest ones   *)
(* are still all reported.                                                 *)
EveryAbsenceIsReported ==
  stage = "done" /\ Usable /\ NoWrap /\ Height >= 2
      /\ (\A f \in findings : f.kind \notin RowKinds) =>
    \A t \in Time(1) .. Time(Height) :
      LET covering == {f \in GapFindings : f.start <= t /\ t < f.end} IN
      t % Cadence = Phase /\ (\A i \in Rows : Time(i) # t) =>
        \/ Cardinality(covering) = 1
        \/ Cardinality(GapFindings) = MaxGapFindings /\ \A f \in GapFindings : f.end <= t

=============================================================================
