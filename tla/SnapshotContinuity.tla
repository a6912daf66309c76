------------------------- MODULE SnapshotContinuity -------------------------
(***************************************************************************)
(* read_snapshot_frame and verify_snapshot_continuity                      *)
(* (snapshot/continuity.py): the rows of a history against what its        *)
(* manifest states.  Reading a fetched file stops one row past the number  *)
(* of rows the manifest states; verifying a frame at hand takes all of it. *)
(* Either way the frame goes through SourceValidation's checks first, and  *)
(* then through the seam checks.                                           *)
(***************************************************************************)
EXTENDS SourceValidation

CONSTANTS
  History,   \* what may be handed in: frames as they are in full
  Statement, \* the manifests: [row_count, first_timestamp, last_timestamp]
  Entry      \* "read", a fetched file, "verify", a frame at hand, or
             \* "validate", the checks without a manifest

(* What parse_manifest lets through.                                       *)
ASSUME StatementAssumption ==
  \A m \in Statement :
    /\ m.row_count \in Nat \ {0}
    /\ m.first_timestamp \in Int
    /\ m.last_timestamp \in Int
    /\ m.first_timestamp <= m.last_timestamp

ASSUME HistoryAssumption == \A f \in History : RawFrame(f)

VARIABLES
  history,  \* the rows in full, of which frame is what was read
  manifest, \* what the manifest states
  entry,    \* the function that was called
  seams,    \* the seam mismatches found
  verdict   \* how the call ended

continuity == <<history, manifest, entry, seams, verdict>>

Smaller(a, b) == IF a < b THEN a ELSE b

(* read_csv(n_rows=n): the first n rows.                                   *)
FirstRows(f, n) ==
  LET height == Smaller(f.height, n) IN
  [height  |-> height,
   columns |-> [c \in DOMAIN f.columns |->
                  [kind  |-> f.columns[c].kind,
                   cells |-> [i \in 1 .. height |-> f.columns[c].cells[i]]]]]

(* Faulty variant: reading stops at the stated number of rows.             *)
JustTheRows(m) == m.row_count

(* max_rows: one row past the declaration.                                 *)
RowCap(m) == m.row_count + 1

NoStatement == "none"

(* A file is read with the declared dtypes, whatever it holds; a frame at  *)
(* hand has those its caller gave it.                                      *)
ContinuityInit ==
  /\ entry \in Entry
  /\ history \in IF entry = "validate" THEN Frame ELSE History
  /\ manifest \in IF entry = "validate" THEN {NoStatement} ELSE Statement
  /\ entry = "read" => \A c \in Column \cap DOMAIN history.columns :
                        history.columns[c].kind = DeclaredKind[c]
  /\ frame = IF entry = "read" THEN FirstRows(history, RowCap(manifest)) ELSE history
  /\ mode \in IF entry = "validate" THEN Mode ELSE {"report"}
  /\ stage = "schema"
  /\ findings = {}
  /\ answer = "none"
  /\ seams = {}
  /\ verdict = "none"

-----------------------------------------------------------------------------
(* _check_manifest_span: do the three statements agree among themselves?   *)
SpanMismatch(m) ==
  LET span == m.last_timestamp - m.first_timestamp IN
  IF span % Cadence = 0 /\ span \div Cadence + 1 = m.row_count
  THEN {} ELSE {"manifest_span"}

RowCountMismatch == IF Height = manifest.row_count THEN {} ELSE {"row_count"}

(* _bounds_are_readable: unlike Usable, it does not ask for the kind.      *)
BoundsReadable ==
  /\ Height > 0
  /\ Stamp \in Present
  /\ \A i \in Rows : Cells(Stamp)[i] # Null

(* int(...) of the first and last cell.                                    *)
Bounds == {Time(1), Time(Height)}

BoundMismatches ==
  (IF Time(1) = manifest.first_timestamp THEN {} ELSE {"first_timestamp"})
    \cup (IF Time(Height) = manifest.last_timestamp THEN {} ELSE {"last_timestamp"})

(* The timestamp column holds what int() refuses: the ValueError it raises *)
(* is nobody's to catch.                                                   *)
BoundsNotNumbers ==
  /\ stage = "done" /\ entry # "validate"
  /\ verdict = "none"
  /\ BoundsReadable
  /\ ~(Bounds \subseteq Int)
  /\ verdict' = "value_error"
  /\ UNCHANGED <<validation, history, manifest, entry, seams>>

(* _build_report and _enforce.                                             *)
CheckSeams ==
  /\ stage = "done" /\ entry # "validate"
  /\ verdict = "none"
  /\ BoundsReadable => Bounds \subseteq Int
  /\ seams' = SpanMismatch(manifest) \cup RowCountMismatch
                \cup (IF BoundsReadable THEN BoundMismatches ELSE {})
  /\ verdict' = IF seams' = {} /\ findings = {} THEN "passed" ELSE "continuity_error"
  /\ UNCHANGED <<validation, history, manifest, entry>>

Validate == ValidationNext /\ UNCHANGED continuity

ContinuityNext == Validate \/ BoundsNotNumbers \/ CheckSeams

ContinuitySpec == ContinuityInit /\ [][ContinuityNext]_<<validation, continuity>>

-----------------------------------------------------------------------------
(* What must hold                                                          *)

(* The rows in full are what the manifest states: row_count of them, on    *)
(* the grid, from its first timestamp to its last, every declared cell in  *)
(* order.                                                                  *)
Faithful(f, m) ==
  /\ Column \subseteq DOMAIN f.columns
  /\ \A c \in Column :
       /\ f.columns[c].kind = DeclaredKind[c]
       /\ \A i \in 1 .. f.height : f.columns[c].cells[i] \notin {Null, NaN, Text}
  /\ f.height = m.row_count
  /\ \A i \in 1 .. f.height :
       f.columns[Stamp].cells[i] = m.first_timestamp + (i - 1) * Cadence
  /\ m.first_timestamp % Cadence = Phase
  /\ m.last_timestamp = m.first_timestamp + (m.row_count - 1) * Cadence

(* A history passes exactly when it is the one its manifest describes.     *)
(* For a file the reading of which was cut off one row past the statement, *)
(* this says the cut changes nothing: no longer file passes on its first   *)
(* rows, and no right one fails for it.                                    *)
PassesExactlyWhenFaithful ==
  verdict # "none" => (verdict = "passed" <=> Faithful(history, manifest))

=============================================================================
