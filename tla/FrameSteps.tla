----------------------------- MODULE FrameSteps -----------------------------
(***************************************************************************)
(* The steps a caller composes over a window frame, in any order and any   *)
(* number: a quality policy, an annotation join, backward and forward      *)
(* returns, forward excursions.  Each takes a frame and returns one, or    *)
(* refuses and leaves the caller's as it was.                              *)
(*                                                                         *)
(* The same calls are made on two frames: the whole history, and what was  *)
(* known of it at Now.                                                     *)
(***************************************************************************)
EXTENDS FrameReturns

CONSTANTS
  History,      \* the frames a caller may begin with
  Window,       \* W, the length of a frame's windows
  Cadence,      \* E, the cadence a frame's rows are emitted at
  Policy,       \* quality policies, as they are written
  Sidecar,      \* annotations of a caller's own
  SidecarFile,  \* annotations in files
  RowCap,       \* caps on the rows of one, Null for none
  ReturnCall,   \* [horizon, cadence, method] of returns and excursions
  Now,          \* the instant known is cut at
  MaxSteps      \* bound on the calls made (TLC only)

(* A null, a number that is none, and the numbers are told apart.          *)
ASSUME CellAssumption ==
  /\ Null \notin Int /\ NaN \notin Int /\ NaN # Null
  /\ Null \notin Int \X Int
  /\ Word \in Nat \ {0} /\ Word % 2 = 0

(* What the constructors of durations let through, and numbers where       *)
(* numbers are due.                                                        *)
ASSUME StepsAssumption ==
  /\ Window \in Nat \ {0}
  /\ Cadence \in Nat \ {0}
  /\ Now \in Int
  /\ MaxSteps \in Nat
  /\ \A p \in Policy : p.whole \in Nat \ {0} /\ p.part \in Int /\ TradedDemand(p) \in Int
  /\ RowCap \subseteq Int \cup {Null}
  /\ \A c \in ReturnCall :
       c.horizon \in Nat /\ c.cadence \in Nat /\ c.method \in {"simple", "log"}

(* A row of a frame no step has worked on: every cell may be null.         *)
WindowRow ==
  LET Time == Int64 \cup {Null}
      Price == Int \cup {Null, NaN}
      Measure == Int \cup {Null} IN
  [open_time : Time, close_time : Time, close : Price, high : Price, low : Price,
   coverage_seconds : Measure, traded_seconds : Measure, added : {<<>>}]

ASSUME HistoryAssumption ==
  \A f \in History :
    /\ f = [have |-> f.have, added |-> {}, rows |-> f.rows]
    /\ f.rows \in Seq(WindowRow)

(* The bounds of an interval are instants, where they are not null.        *)
ASSUME SidecarAssumption ==
  LET IsTable(rows) ==
        /\ rows \in Seq({rows[k] : k \in DOMAIN rows})
        /\ \A k \in DOMAIN rows : {rows[k].start, rows[k].end} \subseteq Int64 \cup {Null} IN
  /\ \A own \in Sidecar : own.usable => IsTable(own.rows)
  /\ \A file \in SidecarFile : file.typed /\ file.named => IsTable(file.rows)

VARIABLES
  history,  \* the frame the caller began with
  frame,    \* what the calls have made of it
  known,    \* what they have made of its rows that had closed by Now
  outcome,  \* how the last call ended
  report,   \* the report of the last quality policy, Null before
  sidecar,  \* the annotations a file was read into, and it; Null before
  bars,     \* auxiliary: the policies that filtered, as they were written
  joined,   \* auxiliary: the annotations that were joined, Null before
  steps     \* how many calls were made

steps_vars == <<history, frame, known, outcome, report, sidecar, bars, joined, steps>>

(* The rows that had closed by an instant, in their order.                 *)
ClosedBy(f, instant) ==
  Without(f, {i \in DOMAIN f.rows : f.rows[i].close_time = Null \/ f.rows[i].close_time > instant})

StepsInit ==
  /\ history \in History
  /\ frame = history
  /\ known = ClosedBy(history, Now)
  /\ outcome = "none"
  /\ report = Null
  /\ sidecar = Null
  /\ bars = {}
  /\ joined = Null
  /\ steps = 0

-----------------------------------------------------------------------------
(* with_columns: values is a function from names to one value per row.     *)
WithColumns(f, values) ==
  LET cells(i) == [c \in f.added \cup DOMAIN values |->
                     IF c \in DOMAIN values THEN values[c][i] ELSE f.rows[i].added[c]] IN
  [f EXCEPT !.added = @ \cup DOMAIN values,
            !.rows = [i \in DOMAIN f.rows |-> [f.rows[i] EXCEPT !.added = cells(i)]]]

(* require_absent_columns                                                  *)
AbsentColumns(f, names) == f.added \cap names = {}

(* A call that makes this of the frame, and that of what was known.        *)
Call(ended, made, madeOfKnown) ==
  /\ steps < MaxSteps
  /\ steps' = steps + 1
  /\ outcome' = ended
  /\ frame' = made
  /\ known' = madeOfKnown
  /\ UNCHANGED history

(* A call over each of the two frames, where it is accepted.               *)
Compose(Accepts(_), Makes(_)) ==
  /\ Call(IF Accepts(frame) THEN "ok" ELSE "config_error",
          IF Accepts(frame) THEN Makes(frame) ELSE frame,
          IF Accepts(known) THEN Makes(known) ELSE known)
  /\ UNCHANGED <<report, sidecar, bars>>

-----------------------------------------------------------------------------
(* apply_quality_policy                                                    *)

(* The constructor of the policy refuses, whatever the frame.              *)
RefusePolicy(policy) ==
  /\ ~LegalPolicy(policy)
  /\ Call("config_error", frame, known)
  /\ UNCHANGED <<report, sidecar, bars, joined>>

RefuseUnmeasured ==
  /\ ~Measured(frame)
  /\ Call("config_error", frame, known)
  /\ UNCHANGED <<report, sidecar, bars, joined>>

(* The report is made before the mode is looked at.                        *)
CannotReport(policy) ==
  /\ Measured(frame)
  /\ Unnameable(frame, policy, Window)
  /\ Call("type_error", frame, known)
  /\ UNCHANGED <<report, sidecar, bars, joined>>

Reported(policy) ==
  /\ Measured(frame)
  /\ ~Unnameable(frame, policy, Window)
  /\ report' = QualityReport(frame, policy, Window)
  /\ UNCHANGED <<sidecar, joined>>

(* PASS_THROUGH, and GATE in report mode, whatever the report says.        *)
MeasureOnly(policy) ==
  /\ policy.mode \in {"pass_through", "gate_report"}
  /\ Reported(policy)
  /\ Call("ok", frame, known)
  /\ UNCHANGED bars

FilterWindows(policy, written) ==
  /\ policy.mode = "filter"
  /\ Reported(policy)
  /\ Call("ok", Without(frame, Offending(frame, policy, Window)),
                Without(known, Offending(known, policy, Window)))
  /\ bars' = bars \cup {written}

StrictGate(policy) ==
  /\ policy.mode = "gate_strict"
  /\ Reported(policy)
  /\ Call(IF report'.offending = 0 THEN "ok" ELSE "coverage_error", frame, known)
  /\ UNCHANGED bars

ApplyQualityPolicy ==
  \/ RefuseUnmeasured
  \/ \E written \in Policy : LET policy == PolicyFromDict(written) IN
       \/ RefusePolicy(policy)
       \/ /\ LegalPolicy(policy)
          /\ \/ CannotReport(policy)
             \/ MeasureOnly(policy) \/ FilterWindows(policy, written) \/ StrictGate(policy)

-----------------------------------------------------------------------------
(* read_annotations: a file is refused whole, never read in part.          *)
ReadAnnotations(file, cap) ==
  /\ sidecar = Null
  /\ Call(ReadVerdict(file, cap), frame, known)
  /\ sidecar' = IF outcome' # "ok" THEN Null
                ELSE [read |-> [usable |-> TRUE, rows |-> Table(file, cap)], file |-> file]
  /\ UNCHANGED <<report, bars, joined>>

-----------------------------------------------------------------------------
(* annotate_windows                                                        *)

FlagsColumn == <<"annotation", "flags">>

OverlapColumn == <<"annotation", "overlap_seconds">>

Annotations(f, annotations) ==
  [c \in {FlagsColumn, OverlapColumn} |->
     [i \in DOMAIN f.rows |-> IF c = FlagsColumn THEN Flags(f.rows[i], annotations)
                                                  ELSE OverlapSeconds(f.rows[i], annotations)]]

(* What may be joined, and what it was read from.                          *)
Joinable ==
  {[read |-> own, file |-> own] : own \in Sidecar}
    \cup (IF sidecar = Null THEN {} ELSE {sidecar})

AnnotateWindows(annotations, original) ==
  /\ annotations.usable => SoundSidecar(annotations)
  /\ LET Accepts(f) ==
           Bounded(f) /\ annotations.usable /\ AbsentColumns(f, {FlagsColumn, OverlapColumn})
         Makes(f) == WithColumns(f, Annotations(f, annotations)) IN
     /\ Compose(Accepts, Makes)
     /\ joined' = IF Accepts(frame) THEN original ELSE joined

(* The data of a sidecar is at fault, not the call; nothing else is        *)
(* looked at but the frame's bounds.                                       *)
RefuseSidecar(annotations) ==
  /\ annotations.usable /\ ~SoundSidecar(annotations)
  /\ Call(IF Bounded(frame) THEN "annotation_error" ELSE "config_error", frame, known)
  /\ UNCHANGED <<report, sidecar, bars, joined>>

-----------------------------------------------------------------------------
(* add_backward_returns, add_forward_returns, add_forward_excursions       *)

Column(kind, c) == <<kind, c.method, c.horizon>>

AddBackwardReturns(c) ==
  LET column == Column("backward", c)
      Value(f, i) == ReturnOf(f.rows[i].close, Counterpart(f, i, -c.horizon), c.method)
      Accepts(f) ==
        /\ ResolvableHorizon(c.horizon, c.cadence)
        /\ Alignable(f, -c.horizon)
        /\ AbsentColumns(f, {column})
      Makes(f) == WithColumns(f, [x \in {column} |-> [i \in DOMAIN f.rows |-> Value(f, i)]]) IN
  Compose(Accepts, Makes) /\ UNCHANGED joined

AddForwardReturns(c) ==
  LET column == Column("forward", c)
      available == Column("forward_available_at", c)
      Value(f, i) == ReturnOf(Counterpart(f, i, c.horizon), f.rows[i].close, c.method)
      Accepts(f) ==
        /\ ResolvableHorizon(c.horizon, c.cadence)
        /\ Alignable(f, c.horizon)
        /\ AbsentColumns(f, {column, available})
      Makes(f) ==
        WithColumns(f, [x \in {column, available} |-> [i \in DOMAIN f.rows |->
          IF x = column THEN Value(f, i) ELSE Shifted(f.rows[i], c.horizon)]]) IN
  Compose(Accepts, Makes) /\ UNCHANGED joined

AddForwardExcursions(c) ==
  LET favorable == Column("mfe", c)
      adverse == Column("mae", c)
      available == Column("excursion_available_at", c)
      n == c.horizon \div c.cadence
      Value(f, i, x) ==
        CASE x = favorable -> ReturnOf(ForwardExtremum(f, i, n, "high", TRUE), f.rows[i].close, c.method)
          [] x = adverse   -> ReturnOf(ForwardExtremum(f, i, n, "low", FALSE), f.rows[i].close, c.method)
          [] x = available -> Shifted(f.rows[i], c.horizon)
      Accepts(f) ==
        /\ ResolvableHorizon(c.horizon, c.cadence)
        /\ Alignable(f, c.horizon)
        /\ {"high", "low"} \subseteq f.have
        /\ TotalGrid(f, c.cadence)
        /\ AbsentColumns(f, {favorable, adverse, available})
      Makes(f) ==
        WithColumns(f, [x \in {favorable, adverse, available} |->
                          [i \in DOMAIN f.rows |-> Value(f, i, x)]]) IN
  Compose(Accepts, Makes) /\ UNCHANGED joined

StepsNext ==
  \/ ApplyQualityPolicy
  \/ \E file \in SidecarFile, cap \in RowCap : ReadAnnotations(file, cap)
  \/ \E s \in Joinable : AnnotateWindows(s.read, s.file) \/ RefuseSidecar(s.read)
  \/ \E c \in ReturnCall :
       AddBackwardReturns(c) \/ AddForwardReturns(c) \/ AddForwardExcursions(c)

StepsSpec == StepsInit /\ [][StepsNext]_steps_vars

-----------------------------------------------------------------------------
(* What must hold                                                          *)

(* min_coverage is compared exactly, as the rational it was written as,    *)
(* and what is not stated does not meet it.                                *)
Meets(row, part, whole, least_traded) ==
  /\ row.coverage_seconds # Null /\ row.coverage_seconds * whole >= part
  /\ row.traded_seconds # Null /\ row.traded_seconds >= least_traded

(* As the policy was written: without a threshold of trading, none.        *)
MeetsBar(row, written) ==
  Meets(row, written.part * Window, written.whole,
        IF "min_traded_seconds" \in DOMAIN written THEN written.min_traded_seconds ELSE 0)

Bare(row) == [row EXCEPT !.added = <<>>]

(* The rows of the history that no policy was to drop.                     *)
Passing ==
  {j \in DOMAIN history.rows : \A written \in bars : MeetsBar(history.rows[j], written)}

(* "rows below the threshold or stating no coverage dropped, the rest in   *)
(* their original order" (quality.py:808): after any calls a frame has     *)
(* just the rows of the history that meet every bar exactly, each after    *)
(* as many as do before it, and no step has changed a cell of theirs.      *)
KeptRowsAreThePassing ==
  /\ Len(frame.rows) = Cardinality(Passing)
  /\ \A j \in Passing :
       Bare(frame.rows[1 + Cardinality({i \in Passing : i < j})]) = history.rows[j]

(* The rows that miss the bars a report states are as many as it counts,   *)
(* and the first of them is the one it names.                              *)
StatesItsVerdict(r, f) ==
  LET missing == {i \in DOMAIN f.rows :
                    ~Meets(f.rows[i], r.threshold_seconds[1], r.threshold_seconds[2],
                           r.traded_threshold_seconds)} IN
  /\ r.offending = Cardinality(missing)
  /\ missing # {} => \E i \in missing :
       (\A j \in missing : i <= j) /\ r.first = f.rows[i].close_time

(* "a caller re-deriving a verdict from this value gets the same answer    *)
(* the policy gave" (quality.py:456): whatever a step reports of a frame   *)
(* is so, and a strict gate refuses only over a row that misses a bar.     *)
ReportStatesTheVerdict ==
  [][report' # report =>
       /\ StatesItsVerdict(report', frame)
       /\ outcome' = "coverage_error" => report'.offending > 0]_steps_vars

Seconds(from, to) == IF Null \in {from, to} THEN {} ELSE from .. to - 1

(* "Two intervals covering the same seconds count those seconds once"      *)
(* (annotations.py:24): the overlap of a window is the number of its       *)
(* seconds inside any interval, however the sidecar orders, nests or       *)
(* repeats them, and its flags are those of the intervals that share a     *)
(* second with it.  If it was read from a file, those are all of the       *)
(* file's: "a silently shortened sidecar would be a silent drop on ingest" *)
(* (annotations.py:304).                                                   *)
OverlapIsTheUnion ==
  OverlapColumn \in frame.added =>
    \A i \in DOMAIN frame.rows :
      LET row == frame.rows[i]
          inside(k) == Seconds(row.open_time, row.close_time)
                         \cap Seconds(joined.rows[k].start, joined.rows[k].end) IN
      /\ row.added[OverlapColumn] = Cardinality(UNION {inside(k) : k \in DOMAIN joined.rows})
      /\ Seconds(row.open_time, row.close_time) # {} =>
           row.added[FlagsColumn] =
             {joined.rows[k].flag : k \in {k \in DOMAIN joined.rows : inside(k) # {}}}

Between(from, to) == {j \in DOMAIN history.rows : history.rows[j].close_time \in from .. to}

At(instant) == history.rows[CHOOSE j \in DOMAIN history.rows : history.rows[j].close_time = instant]

OnItsGrid(f) ==
  \A i, j \in DOMAIN f.rows : (f.rows[i].close_time - f.rows[j].close_time) % Cadence = 0

Stated(row, columns, column) == column \in columns /\ row.added[column] # Null

StatesPair(row, columns, column, at, pair) ==
  Stated(row, columns, column) => Between(at, at) # {} /\ row.added[column] = pair

(* A return is of the two closes exactly a horizon apart.                  *)
ReturnsAreTheHistorys(row, columns, c) ==
  LET before == row.close_time - c.horizon
      after == row.close_time + c.horizon IN
  /\ StatesPair(row, columns, Column("backward", c), before, <<row.close, At(before).close>>)
  /\ StatesPair(row, columns, Column("forward", c), after, <<At(after).close, row.close>>)

(* An excursion is of the extreme of every bar in (t, t + H], none of them *)
(* missing; simple ones are both stated or neither.                        *)
ExcursionsAreTheHistorys(row, columns, c) ==
  LET interval == Between(row.close_time + 1, row.close_time + c.horizon)
      complete == Cardinality(interval) * Cadence = c.horizon
      highs == {history.rows[j].high : j \in interval}
      lows == {history.rows[j].low : j \in interval}
      favorable == Column("mfe", c)
      adverse == Column("mae", c) IN
  /\ Stated(row, columns, favorable) /\ OnItsGrid(history) =>
       complete /\ \E x \in highs :
         row.added[favorable] = <<x, row.close>> /\ \A y \in highs : x >= y
  /\ Stated(row, columns, adverse) /\ OnItsGrid(history) =>
       complete /\ \E x \in lows :
         row.added[adverse] = <<x, row.close>> /\ \A y \in lows : x <= y
  /\ c.method = "simple" =>
       (Stated(row, columns, favorable) <=> Stated(row, columns, adverse))

(* A value that is stated is the one the history gives, whatever was       *)
(* filtered out of the frame first; an excursion's, of a history emitted   *)
(* at the cadence.  ("An extremum reads the bars inside its interval, so a *)
(* missing row does not make the answer null, it makes it wrong",          *)
(* alignment.py:397, is what the refusals prevent.)                        *)
ValuesAreTheHistorys ==
  Keyed(history) => \A i \in DOMAIN frame.rows, c \in ReturnCall :
    /\ ReturnsAreTheHistorys(frame.rows[i], frame.added, c)
    /\ ExcursionsAreTheHistorys(frame.rows[i], frame.added, c)

(* When a value may first be used.                                         *)
AvailableAt(column, t) == IF column[1] \in {"forward", "mfe", "mae"} THEN t + column[3] ELSE t

(* A column of a row means the same where no less had been known.          *)
SameByNow(column, row, knownRow) ==
  Bare(row) = Bare(knownRow) /\ AvailableAt(column, row.close_time) <= Now =>
    row.added[column] = knownRow.added[column]

(* "it may be read at t without knowing anything that had not happened     *)
(* yet" (primitives.py:24), and "every forward value carries its own       *)
(* available_at" (primitives.py:43): a column a call adds to the history   *)
(* it also adds to what was known at Now, with the same value, or the same *)
(* null, in every row whose value had become available by then.            *)
NoLookAhead ==
  [][\A column \in frame'.added \ frame.added :
       /\ column \in known'.added
       /\ column \notin known.added =>
            \A i \in DOMAIN frame'.rows, j \in DOMAIN known'.rows :
              SameByNow(column, frame'.rows[i], known'.rows[j])]_steps_vars

=============================================================================
