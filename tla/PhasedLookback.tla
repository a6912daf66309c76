--------------------------- MODULE PhasedLookback ---------------------------
(***************************************************************************)
(* A phased lookback of either implementation: by one join per phase       *)
(* (indicators/phased.py) or by scans, a tick at a time (reference.py).    *)
(***************************************************************************)
EXTENDS PhasedGrid

CONSTANTS
  Source,   \* the frames a caller may hold
  Request   \* [window, emit_every, anchor, lookback, min_traded_seconds]

CellsOf(f) == {f.rows[i].cells[x] : i \in DOMAIN f.rows, x \in Field}

(* Whole seconds and counts, as the types demand, in a frame that has its  *)
(* columns; an absent cell is no number and no list.                       *)
ASSUME LookbackAssumption ==
  /\ Null \notin Int
  /\ \A f \in Source : f.complete =>
       /\ Len(f.rows) \in Nat /\ DOMAIN f.rows = 1 .. Len(f.rows)
       /\ \A i \in DOMAIN f.rows :
            /\ {f.rows[i].open_time, f.rows[i].close_time} \subseteq Int \cup {Null}
            /\ f.rows[i].cells["traded_seconds"] \in Int \cup {Null}
       /\ Null \notin Seq(CellsOf(f))
  /\ \A c \in Request :
       {c.window, c.emit_every, c.anchor, c.lookback, c.min_traded_seconds} \subseteq Int

VARIABLES
  source,    \* the frame
  request,   \* what was asked of it
  impl,      \* "joins" or "scans"
  stage,     \* what is next: "resolve", "gather", or "done"
  gathered,  \* joins: the phases joined so far, each a row of cells per tick;
             \* scans: the lists of the ticks assembled so far
  answer     \* how the call ended and its rows, Null before

lookback_vars == <<source, request, impl, stage, gathered, answer>>

LookbackInit ==
  /\ source \in Source
  /\ request \in Request
  /\ impl \in {"joins", "scans"}
  /\ stage = "resolve"
  /\ gathered = <<>>
  /\ answer = Null

Ended(outcome, rows) ==
  /\ answer' = [outcome |-> outcome, rows |-> rows]
  /\ stage' = "done"
  /\ UNCHANGED <<source, request, impl, gathered>>

RefuseGrid ==
  /\ stage = "resolve"
  /\ ~ResolvableGrid(source, request)
  /\ Ended(IF UnsortableSpans(source, request) THEN "type_error" ELSE "config_error", <<>>)

ResolveGrid ==
  /\ stage = "resolve"
  /\ ResolvableGrid(source, request)
  /\ stage' = "gather"
  /\ UNCHANGED <<source, request, impl, gathered, answer>>

Ticks == EmitTicks(source, request)

(* A list per field, all of them null together.                            *)
NoLists == [x \in Field |-> Null]

Answered(lists) == [n \in DOMAIN Ticks |-> [tick |-> Ticks[n], lists |-> lists[n]]]

-----------------------------------------------------------------------------
(* phased_lookback                                                         *)

(* Faulty variant: a window is let through whatever was traded in it.      *)
AdmittedAll(f, c) == DOMAIN f.rows

(* _admitted: a null comparison is dropped by the filter too.              *)
Admitted(f, c) ==
  {i \in DOMAIN f.rows :
     /\ f.rows[i].cells["traded_seconds"] # Null
     /\ f.rows[i].cells["traded_seconds"] >= c.min_traded_seconds}

NoCells == [x \in Field |-> Null]

(* _join_phase: a left join, every tick keeping its place.                 *)
Joined(f, c, phase, tick) ==
  LET offset == phase * c.window
      matching == {i \in Admitted(f, c) : f.rows[i].close_time + offset = tick} IN
  IF matching = {} THEN NoCells ELSE f.rows[CHOOSE i \in matching : TRUE].cells

JoinPhase ==
  /\ stage = "gather" /\ impl = "joins"
  /\ Len(gathered) < request.lookback
  /\ gathered' = Append(gathered,
       [n \in DOMAIN Ticks |-> Joined(source, request, Len(gathered), Ticks[n])])
  /\ UNCHANGED <<source, request, impl, stage, answer>>

(* One mask over every phase of every field.                               *)
Incomplete(n) == \E k \in DOMAIN gathered, x \in Field : gathered[k][n][x] = Null

MaskIncomplete ==
  /\ stage = "gather" /\ impl = "joins"
  /\ Len(gathered) = request.lookback
  /\ Ended("ok", Answered([n \in DOMAIN Ticks |->
       IF Incomplete(n) THEN NoLists
       ELSE [x \in Field |-> [k \in DOMAIN gathered |-> gathered[k][n][x]]]]))

-----------------------------------------------------------------------------
(* phased_lookback_reference                                               *)

Matched(tick, phase) ==
  {i \in DOMAIN source.rows : source.rows[i].close_time = tick - phase * request.window}

Refused(row) ==
  \/ row.cells["traded_seconds"] = Null
  \/ row.cells["traded_seconds"] < request.min_traded_seconds
  \/ \E x \in Field : row.cells[x] = Null

(* _assemble                                                               *)
Assemble(tick) ==
  LET phases == 0 .. request.lookback - 1
      found(phase) == source.rows[CHOOSE i \in Matched(tick, phase) : TRUE] IN
  IF \E phase \in phases : Cardinality(Matched(tick, phase)) # 1 \/ Refused(found(phase))
  THEN NoLists
  ELSE [x \in Field |-> [k \in 1 .. request.lookback |-> found(k - 1).cells[x]]]

AssembleTick ==
  /\ stage = "gather" /\ impl = "scans"
  /\ Len(gathered) < Len(Ticks)
  /\ gathered' = Append(gathered, Assemble(Ticks[Len(gathered) + 1]))
  /\ UNCHANGED <<source, request, impl, stage, answer>>

AssembleFrame ==
  /\ stage = "gather" /\ impl = "scans"
  /\ Len(gathered) = Len(Ticks)
  /\ Ended("ok", Answered(gathered))

LookbackNext ==
  \/ RefuseGrid \/ ResolveGrid
  \/ JoinPhase \/ MaskIncomplete
  \/ AssembleTick \/ AssembleFrame

-----------------------------------------------------------------------------
(* What must hold                                                          *)

(* The windows a tick reads, newest first.                                 *)
Instant(tick, k) == tick - (k - 1) * request.window

WindowsAt(instant) == {i \in DOMAIN source.rows : source.rows[i].close_time = instant}

Present(row) ==
  /\ \A x \in Field : row.cells[x] # Null
  /\ row.cells["traded_seconds"] >= request.min_traded_seconds

FullyPresent(tick) ==
  \A k \in 1 .. request.lookback : \E i \in WindowsAt(Instant(tick, k)) : Present(source.rows[i])

(* The frame is one ascending grid of the stated window, and the commonest *)
(* of its steps measures everything a lookup adds to a close time.         *)
Lawful ==
  LET rows == source.rows
      steps == StepSizes(source)
      commonest == {s \in steps : \A u \in steps : Occurrences(source, u) <= Occurrences(source, s)} IN
  /\ UsableRequest(request) /\ source.complete
  /\ \A i \in DOMAIN rows : Null \notin {rows[i].open_time, rows[i].close_time}
  /\ Len(rows) > 1
  /\ \A i, j \in DOMAIN rows : i < j => rows[i].close_time < rows[j].close_time
  /\ \A i \in DOMAIN rows : rows[i].close_time = rows[i].open_time + request.window
  /\ \E d \in commonest :
       \A x \in steps \cup {request.window, request.emit_every, rows[1].close_time - request.anchor} :
         x % d = 0

(* "The rule, stated once so the fast path can be tested against it"       *)
(* (reference.py:10): either implementation accepts exactly the lawful     *)
(* requests, answers at every instant of the emit grid inside the frame's  *)
(* range, and gives there the cells of the windows ending at t, t - W, ... *)
(* if all are present, and nulls in every column if one is not.            *)
PhasedAnswerIsPromised ==
  stage = "done" =>
    /\ answer.outcome = "ok" <=> Lawful
    /\ answer.outcome = "ok" =>
         LET rows == answer.rows
             closes == {source.rows[i].close_time : i \in DOMAIN source.rows} IN
         /\ {rows[n].tick : n \in DOMAIN rows} =
              {t \in LeastOf(closes) .. source.rows[Len(source.rows)].close_time :
                 (t - request.anchor) % request.emit_every = 0}
         /\ \A m, n \in DOMAIN rows : m < n => rows[m].tick < rows[n].tick
         /\ \A n \in DOMAIN rows, x \in Field :
              LET t == rows[n].tick IN
              IF FullyPresent(t)
              THEN /\ DOMAIN rows[n].lists[x] = 1 .. request.lookback
                   /\ \A k \in 1 .. request.lookback : \E i \in WindowsAt(Instant(t, k)) :
                        rows[n].lists[x][k] = source.rows[i].cells[x]
              ELSE rows[n].lists[x] = Null

(* A whole number of least steps inside a step that is longer.             *)
InAHole(instant) ==
  \E i \in 1 .. Len(source.rows) - 1 :
    LET before == source.rows[i].close_time IN
    /\ before < instant /\ instant < source.rows[i + 1].close_time
    /\ (instant - before) % LeastOf(StepSizes(source)) = 0

(* "Every lookup would miss and every output would be null" (frames.py:422)*)
(* is never the answer of a call that is let through: a null output means  *)
(* that history has not begun, that a row of the grid is missing, or that  *)
(* a window is there and not present.                                      *)
NullsAreOfTheHistory ==
  stage = "done" /\ answer.outcome = "ok" =>
    \A n \in DOMAIN answer.rows, x \in Field :
      answer.rows[n].lists[x] = Null =>
        \E k \in 1 .. request.lookback :
          LET instant == Instant(answer.rows[n].tick, k) IN
          \/ instant < source.rows[1].close_time
          \/ InAHole(instant)
          \/ \E i \in WindowsAt(instant) : ~Present(source.rows[i])

=============================================================================
