--------------------------- MODULE WindowContract ---------------------------
(***************************************************************************)
(* What a window aggregation promises, whichever implementation is called: *)
(* what the answer to a request is, stated by comprehension over the       *)
(* frame's rows, with no row order, no sorting and no search.  A cell that *)
(* is not a number leaves open its own column, of the windows that hold    *)
(* it, and nothing else.                                                   *)
(***************************************************************************)
EXTENDS Integers, Sequences, FiniteSets, FiniteSetsExt

CONSTANTS
  Request,   \* the calls that may be made
  Null, NaN  \* cells that are not numbers

VARIABLES request, answer

contract == <<request, answer>>

Refused == [refused |-> TRUE]

Raised == [raised |-> TRUE]

Pending == [pending |-> TRUE]

Rows(r) == DOMAIN r.frame.rows

Opens(r, i) == r.frame.rows[i].time

Closes(r, i) == Opens(r, i) + r.cadence

(* Exact containment in [t - window, t).                                   *)
Contained(r, t) == {i \in Rows(r) : Opens(r, i) >= t - r.window /\ Closes(r, i) <= t}

(* Of rows that share an open time the one published first.                *)
Earliest(r, S) ==
  CHOOSE i \in S : \A j \in S \ {i} :
    Opens(r, i) < Opens(r, j) \/ (Opens(r, i) = Opens(r, j) /\ i < j)

Latest(r, S) ==
  CHOOSE i \in S : \A j \in S \ {i} :
    Opens(r, i) > Opens(r, j) \/ (Opens(r, i) = Opens(r, j) /\ i < j)

Cells(r, S, column) == {r.frame.rows[i][column] : i \in S}

Numbers(cells) == cells \cap {Null, NaN} = {}

(* The volume of the rows in S.                                            *)
Volume(r, S) ==
  LET sum[k \in 0 .. Len(r.frame.rows)] ==
        IF k = 0 THEN 0 ELSE sum[k - 1] + (IF k \in S THEN r.frame.rows[k].volume ELSE 0)
  IN  sum[Len(r.frame.rows)]

Selected(r, t, row) ==
  LET S == Contained(r, t) IN
  IF S = {}
  THEN \A column \in {"open", "high", "low", "close", "volume"} : row[column] = Null
  ELSE /\ row.open = r.frame.rows[Earliest(r, S)].open
       /\ row.close = r.frame.rows[Latest(r, S)].close

Combined(r, t, row) ==
  LET S == Contained(r, t)
      stated(column) == S # {} /\ Numbers(Cells(r, S, column))
  IN  /\ stated("high") => row.high = Max(Cells(r, S, "high"))
      /\ stated("low") => row.low = Min(Cells(r, S, "low"))
      /\ stated("volume") => row.volume = Volume(r, S)

Counted(r, t, row) ==
  LET S == Contained(r, t)
      traded == {i \in S : Numbers(Cells(r, {i}, "volume")) /\ r.frame.rows[i].volume > 0}
  IN  /\ row.src_count = Cardinality(S)
      /\ row.coverage = Cardinality(S) * r.cadence
      /\ row.traded = Cardinality(traded) * r.cadence

(* The row of the window that closes at t.                                 *)
IsWindow(r, t, row) ==
  /\ row.open_time = t - r.window /\ row.close_time = t
  /\ Selected(r, t, row) /\ Combined(r, t, row) /\ Counted(r, t, row)

OnGrid(r, t) == (t - r.anchor) % r.emit = 0

(* Window and emit cadence are positive multiples of the source cadence    *)
(* and some instant of the grid, hence every one, can be a close time.     *)
LegalSchedule(r) ==
  /\ r.window \in {k * r.cadence : k \in 1 .. r.window}
  /\ r.emit \in {k * r.cadence : k \in 1 .. r.emit}
  /\ \E t \in 0 .. r.emit * r.cadence : OnGrid(r, t) /\ (t - r.phase) % r.cadence = 0

(* The ticks between a whole window after the first open and the last      *)
(* close.                                                                  *)
Reachable(r) ==
  {t \in Min({Opens(r, i) : i \in Rows(r)}) + r.window .. Max({Closes(r, i) : i \in Rows(r)}) :
     OnGrid(r, t)}

Full(r, t) == Cardinality(Contained(r, t)) * r.cadence = r.window

WarmTicks(r) ==
  {t \in Reachable(r) : \E u \in Reachable(r) : u <= t /\ Full(r, u)}

(* The ticks to emit; none is an answer for a range and a refusal for      *)
(* skip_warmup.                                                            *)
Ticks(r) ==
  IF r.materialization.kind = "range"
  THEN {t \in r.materialization.start .. r.materialization.end - 1 : OnGrid(r, t)}
  ELSE IF Rows(r) = {} THEN {} ELSE WarmTicks(r)

Answerable(r) ==
  /\ LegalSchedule(r)
  /\ r.frame.complete
  /\ \/ r.materialization.kind = "range"
     \/ r.materialization.kind = "skip_warmup" /\ Ticks(r) # {}

(* Cells are compared and summed, and some are null.                       *)
MayRaise(r) ==
  \E t \in Ticks(r), column \in {"high", "low", "volume"} :
    Null \in Cells(r, Contained(r, t), column)

ContractInit ==
  /\ request \in Request
  /\ answer = Pending

Answer ==
  /\ answer = Pending
  /\ \/ ~Answerable(request) /\ answer' = Refused
     \/ /\ Answerable(request)
        /\ \/ MayRaise(request) /\ answer' = Raised
           \/ /\ "rows" \in DOMAIN answer'
              /\ DOMAIN answer'.rows = Ticks(request)
              /\ \A t \in Ticks(request) : IsWindow(request, t, answer'.rows[t])
  /\ UNCHANGED request

ContractSpec == ContractInit /\ [][Answer]_contract

=============================================================================
