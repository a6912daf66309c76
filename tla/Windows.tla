------------------------------- MODULE Windows -------------------------------
(***************************************************************************)
(* compute_windows and compute_reference_windows as calls: resolve the     *)
(* schedule, read the candles, resolve the ticks, build the rows.  Either  *)
(* may refuse (ConfigError) at each of the first three steps.              *)
(*                                                                         *)
(* Neither validates its frame: prices and volumes may be null or NaN, on  *)
(* which the two are documented to disagree.  Timestamps are numbers.      *)
(***************************************************************************)
EXTENDS WindowEngine

CONSTANTS
  Request,  \* the calls that may be made
  Maker     \* {"engine", "reference"}

(* Durations are naturals and the cadence is positive (SourceProfile and   *)
(* Duration refuse others); bounds and timestamps are whole seconds.       *)
ASSUME RequestAssumption ==
  \A r \in Request :
    /\ r.cadence \in Nat \ {0}
    /\ r.phase \in 0 .. r.cadence - 1
    /\ r.window \in Nat /\ r.emit \in Nat /\ r.anchor \in Nat
    /\ r.materialization.kind = "range" =>
         r.materialization.start \in Int /\ r.materialization.end \in Int
    /\ Len(r.frame.rows) \in Nat /\ DOMAIN r.frame.rows = 1 .. Len(r.frame.rows)
    /\ \A i \in DOMAIN r.frame.rows : r.frame.rows[i].time \in Int

(* Prices and volumes are numbers where they are not null or NaN.          *)
ASSUME MakerAssumption ==
  /\ Maker \subseteq {"engine", "reference"}
  /\ Null # NaN /\ {Null, NaN} \cap Int = {} /\ {NeutralHigh, NeutralLow} \subseteq Int
  /\ \A r \in Request : \A i \in DOMAIN r.frame.rows :
       /\ {r.frame.rows[i].high, r.frame.rows[i].low, r.frame.rows[i].volume} \subseteq Int \cup {Null, NaN}
       /\ r.frame.rows[i].high \notin {Null, NaN} => NeutralHigh < r.frame.rows[i].high
       /\ r.frame.rows[i].low \notin {Null, NaN} => NeutralLow > r.frame.rows[i].low

VARIABLES
  maker,    \* which of the two is called
  request,  \* with what
  stage,    \* its next step
  candles,  \* what it holds of the frame
  ticks,    \* the emit ticks it has resolved
  answer    \* what it returned

windows == <<maker, request, stage, candles, ticks, answer>>

(* What a call that has not returned, and one that raised, has returned.   *)
Pending == [pending |-> TRUE]

Refused == [refused |-> TRUE]

Raised == [raised |-> TRUE]

Schedule == ResolvedSchedule(request)

WindowsInit ==
  /\ maker \in Maker
  /\ request \in Request
  /\ stage = "resolve"
  /\ candles = <<>>
  /\ ticks = {}
  /\ answer = Pending

Refuse ==
  /\ stage' = "done"
  /\ answer' = Refused
  /\ UNCHANGED <<maker, request, candles, ticks>>

(* resolve_schedule                                                        *)
Resolve ==
  /\ stage = "resolve"
  /\ Resolvable(request)
  /\ stage' = "extract"
  /\ UNCHANGED <<maker, request, candles, ticks, answer>>

RefuseSchedule == stage = "resolve" /\ ~Resolvable(request) /\ Refuse

(* _extract_candles: the engine sorts unless the rows are in order.        *)
ExtractCandles ==
  /\ stage = "extract"
  /\ request.frame.complete
  /\ candles' = IF maker = "engine" /\ ~InOpenOrder(Candles(request))
                THEN SortedCandles(Candles(request))
                ELSE Candles(request)
  /\ stage' = "ticks"
  /\ UNCHANGED <<maker, request, ticks, answer>>

RefuseColumns == stage = "extract" /\ ~request.frame.complete /\ Refuse

WarmupTicks ==
  IF candles = <<>> THEN {}
  ELSE IF maker = "engine" THEN EngineWarmupTicks(candles, Schedule, request.cadence)
  ELSE ReferenceWarmupTicks(candles, Schedule)

Emit(resolved) ==
  /\ ticks' = resolved
  /\ stage' = "build"
  /\ UNCHANGED <<maker, request, candles, answer>>

(* _resolve_ticks: an explicit range may hold no tick,                     *)
ResolveRange ==
  /\ stage = "ticks"
  /\ request.materialization.kind = "range"
  /\ Emit(GridTicks(request.materialization.start, request.materialization.end, Schedule))

(* skip_warmup may not,                                                    *)
ResolveWarmup ==
  /\ stage = "ticks"
  /\ request.materialization.kind = "skip_warmup"
  /\ WarmupTicks # {}
  /\ Emit(WarmupTicks)

(* and any other name names no rule.                                       *)
RefuseTicks ==
  /\ stage = "ticks"
  /\ \/ request.materialization.kind = "skip_warmup" /\ WarmupTicks = {}
     \/ request.materialization.kind \notin {"range", "skip_warmup"}
  /\ Refuse

Row(tick) ==
  IF maker = "engine" THEN EngineRow(candles, ticks, tick, Schedule, request.cadence)
  ELSE ReferenceRow(candles, tick, Schedule)

Stops ==
  /\ maker = "reference"
  /\ \E t \in ticks : StopsAt(candles, Included(candles, t, Schedule.window))

(* _build_output_frame                                                     *)
Build ==
  /\ stage = "build"
  /\ ~Stops
  /\ answer' = [rows |-> [t \in ticks |-> Row(t)]]
  /\ stage' = "done"
  /\ UNCHANGED <<maker, request, candles, ticks>>

(* A null stops the oracle with a bare TypeError.                          *)
RaiseOnNull ==
  /\ stage = "build"
  /\ Stops
  /\ answer' = Raised
  /\ stage' = "done"
  /\ UNCHANGED <<maker, request, candles, ticks>>

WindowsNext ==
  \/ Resolve \/ RefuseSchedule
  \/ ExtractCandles \/ RefuseColumns
  \/ ResolveRange \/ ResolveWarmup \/ RefuseTicks
  \/ Build \/ RaiseOnNull

WindowsSpec == WindowsInit /\ [][WindowsNext]_windows

-----------------------------------------------------------------------------
(* What must hold                                                          *)

(* Both implementations promise the same thing, on unsorted, duplicated,   *)
(* off-phase and gapped frames as much as on a complete grid               *)
(* (engine.py:24-28), and refuse the same requests (engine.py:325-329).  A *)
(* cell that is null or NaN is felt in its own column of its own windows,  *)
(* or stops the oracle, and counts are right in every window.              *)
Contract == INSTANCE WindowContract

ImplementsContract == Contract!ContractSpec

(* Every tick resolved, from a stated range or from the data, is on the    *)
(* caller's grid and can be the close of a source candle: one test of the  *)
(* reduced anchor stands for the whole grid (resolution.py:250-254).       *)
TicksAreCloses ==
  \A t \in ticks :
    /\ (t - request.anchor) % request.emit = 0
    /\ (t - request.phase) % request.cadence = 0

Answered == "rows" \in DOMAIN answer

Second(from, to) == from .. to - 1

Covered == UNION {Second(request.frame.rows[i].time, request.frame.rows[i].time + request.cadence) :
                    i \in DOMAIN request.frame.rows}

(* What source validation guarantees but for gaps: rows on the phase and   *)
(* strictly increasing.                                                    *)
Validated ==
  /\ \A i \in DOMAIN request.frame.rows : request.frame.rows[i].time % request.cadence = request.phase
  /\ \A i, j \in DOMAIN request.frame.rows :
       i < j => request.frame.rows[i].time < request.frame.rows[j].time

(* Coverage is time: over a validated frame the coverage a window reports  *)
(* is exactly the number of its seconds some candle of the frame spans,    *)
(* so it is the window's length just when nothing is missing in it.        *)
CoverageIsTime ==
  Answered /\ Validated => \A t \in DOMAIN answer.rows :
    answer.rows[t].coverage = Cardinality(Second(t - request.window, t) \cap Covered)

IsFull(t) == Second(t - request.window, t) \subseteq Covered

(* Every instant of the caller's grid that a full window could end at.     *)
FullEnds ==
  {t \in {j + request.cadence : j \in {request.frame.rows[i].time : i \in DOMAIN request.frame.rows}} :
     (t - request.anchor) % request.emit = 0 /\ IsFull(t)}

(* Warmup ends where it can: over a validated frame, skip_warmup emits the *)
(* tick of the first full window there is at all (the ticks it never scans *)
(* hold none, reference.py:502-507), every tick after it up to the last    *)
(* close, and nothing before; and it refuses only if there is none, unless *)
(* a null stops it.                                                        *)
WarmupEndsAtTheFirstFullWindow ==
  stage = "done" /\ answer # Raised /\ Validated
      /\ Resolvable(request) /\ request.frame.complete
      /\ request.materialization.kind = "skip_warmup" =>
    IF FullEnds = {} THEN answer = Refused
    ELSE /\ Answered
         /\ DOMAIN answer.rows =
              {t \in Min(FullEnds) .. Max(Covered) + 1 : (t - request.anchor) % request.emit = 0}

=============================================================================
