-------------------------- MODULE PhasedIndicators --------------------------
(***************************************************************************)
(* A chain of add_indicator calls (indicators/primitives.py) on what a     *)
(* phased lookback answered, or on a record a caller built by hand.        *)
(*                                                                         *)
(* A record is [lookback, fields, rows]: the lookback its grid states, the *)
(* phased fields its frame has in their kinds, and its rows of lists.  A   *)
(* reading keeps the lists it is computed from beside its value.           *)
(***************************************************************************)
EXTENDS PhasedLookback

Arithmetic == INSTANCE IndicatorReadings

CONSTANTS
  HandBuilt,   \* records of a caller's own
  Period,      \* periods asked for
  MaxAdds      \* bound on the calls made (TLC only)

(* Cells are numbers where they are not absent, and so are the entries of  *)
(* the lists of a phased field.                                            *)
ASSUME ChainAssumption ==
  /\ Period \subseteq Int
  /\ \A f \in Source : f.complete =>
       \A i \in DOMAIN f.rows, x \in Field : f.rows[i].cells[x] \in Int \cup {Null}
  /\ \A r \in HandBuilt : \A n \in DOMAIN r.rows, x \in r.fields :
       LET list == r.rows[n].lists[x] IN list = Null \/ list \in Seq(Int \cup {Null})

VARIABLES
  record,    \* what indicators are added to, Null before there is one
  readings,  \* the columns added: from [indicator, period] to a reading per row
  reply,     \* how the last call ended
  adds       \* how many calls were made

chain_vars == <<lookback_vars, record, readings, reply, adds>>

Indicator == {"rsi", "mapos", "relrange", "logvolratio"}

(* lookback: differences and baselines need one window more.               *)
LookbackOf(indicator, period) == IF indicator = "mapos" THEN period ELSE period + 1

FieldsOf(indicator) ==
  CASE indicator \in {"rsi", "mapos"} -> {"close"}
    [] indicator = "relrange"         -> {"close", "high", "low"}
    [] indicator = "logvolratio"      -> {"volume"}

PositiveFields(indicator) ==
  CASE indicator = "rsi"                   -> {}
    [] indicator \in {"mapos", "relrange"} -> {"close"}
    [] indicator = "logvolratio"           -> {"volume"}

Lists(field) == {record.rows[n].lists[field] : n \in DOMAIN record.rows} \ {Null}

(* require_phased_inputs                                                   *)
PhasedInputs(indicator, period) ==
  /\ period > 0
  /\ record.lookback = LookbackOf(indicator, period)
  /\ FieldsOf(indicator) \subseteq record.fields
  /\ \A x \in FieldsOf(indicator) : \A list \in Lists(x) : Len(list) = record.lookback

(* require_positive_inputs: of the present values only.                    *)
PositiveInputs(indicator) ==
  \A x \in PositiveFields(indicator) : \A list \in Lists(x) :
    \A k \in DOMAIN list : list[k] = Null \/ list[k] > 0

(* Faulty variant: only a list that is not there is missing.               *)
HasMissingList(indicator, row) == \E x \in FieldsOf(indicator) : row.lists[x] = Null

(* has_missing_input: a list that is not there, or a null inside one.      *)
HasMissingInput(indicator, row) ==
  \E x \in FieldsOf(indicator) :
    row.lists[x] = Null \/ (\E k \in DOMAIN row.lists[x] : row.lists[x][k] = Null)

NoReading == [null |-> TRUE]

(* values                                                                  *)
Reading(indicator, period, row) ==
  LET lists == [x \in FieldsOf(indicator) |-> row.lists[x]] IN
  IF HasMissingInput(indicator, row) THEN NoReading
  ELSE [null |-> FALSE, lists |-> lists,
        value |-> Arithmetic!ReadingOf(indicator, lists, period)]

(* A record is a lookback's answer, or one made without any lookback.      *)
BuiltByHand ==
  /\ source = Null /\ request = Null /\ answer = Null
  /\ impl = "none" /\ stage = "none" /\ gathered = <<>>
  /\ record \in HandBuilt

ChainInit ==
  /\ \/ LookbackInit /\ record = Null
     \/ BuiltByHand
  /\ readings = <<>>
  /\ reply = "none"
  /\ adds = 0

KeepAnswer ==
  /\ stage = "done" /\ record = Null
  /\ answer.outcome = "ok"
  /\ record' = [lookback |-> request.lookback, fields |-> Field, rows |-> answer.rows]
  /\ UNCHANGED <<lookback_vars, readings, reply, adds>>

(* add_indicator                                                           *)
AddIndicator(indicator, period) ==
  LET column == <<indicator, period>> IN
  /\ record # Null
  /\ adds < MaxAdds
  /\ adds' = adds + 1
  /\ reply' = IF ~PhasedInputs(indicator, period) THEN "config_error"
              ELSE IF ~PositiveInputs(indicator) THEN "data_error"
              ELSE IF column \in DOMAIN readings THEN "config_error"
              ELSE "ok"
  /\ readings' =
       IF reply' # "ok" THEN readings
       ELSE [c \in DOMAIN readings \cup {column} |->
               IF c = column
               THEN [n \in DOMAIN record.rows |-> Reading(indicator, period, record.rows[n])]
               ELSE readings[c]]
  /\ UNCHANGED <<lookback_vars, record>>

ChainNext ==
  \/ record = Null /\ LookbackNext /\ UNCHANGED <<record, readings, reply, adds>>
  \/ KeepAnswer
  \/ \E indicator \in Indicator, period \in Period : AddIndicator(indicator, period)

ChainSpec == ChainInit /\ [][ChainNext]_chain_vars

-----------------------------------------------------------------------------
(* What must hold                                                          *)

(* The windows an indicator's definition reads at a period: P changes of   *)
(* P + 1 closes, P true ranges and one predecessor, a volume and the P     *)
(* before it; a mean of P.                                                 *)
WindowsRead(indicator, period) ==
  IF indicator \in {"rsi", "relrange", "logvolratio"} THEN 1 + period ELSE period

(* "Null exactly where the tick's inputs were": every reading, whichever   *)
(* were added before it, is of as many values of each of its fields as the *)
(* period calls for, none of them null, also of a record built by hand     *)
(* ("An aggregation would skip the null and average over one fewer input   *)
(* than the period says there are", primitives.py:306); of a lookback's    *)
(* answer it is there just when all those windows of the frame are         *)
(* present, and is of the cells of those windows.                          *)
ReadingsReadWholeWindows ==
  \A column \in DOMAIN readings : \A n \in DOMAIN record.rows :
    LET reading == readings[column][n]
        count == WindowsRead(column[1], column[2])
        t == record.rows[n].tick IN
    /\ ~reading.null =>
         \A x \in DOMAIN reading.lists :
           /\ Len(reading.lists[x]) = count
           /\ \A k \in 1 .. count : reading.lists[x][k] # Null
    /\ answer # Null =>
         /\ ~reading.null <=> FullyPresent(t)
         /\ ~reading.null =>
              \A k \in 1 .. count : \E i \in WindowsAt(Instant(t, k)) :
                \A x \in DOMAIN reading.lists :
                  reading.lists[x][k] = source.rows[i].cells[x]

SameFraction(x, y) == x[2] # 0 /\ x[1] * y[2] = y[1] * x[2]

Magnitude(x) == IF x < 0 THEN -x ELSE x

GreatestIn(S) == CHOOSE x \in S : \A y \in S : x >= y

SumOf(terms) ==
  LET sum[k \in 0 .. Len(terms)] == IF k = 0 THEN 0 ELSE sum[k - 1] + terms[k]
  IN  sum[Len(terms)]

(* The definitions, by the windows counted back from the tick: window k    *)
(* and the one before it, window k + 1.  Means cancel their divisors.      *)
Gains(close, period) == SumOf([k \in 1 .. period |-> GreatestIn({close[k] - close[k + 1], 0})])

Losses(close, period) == SumOf([k \in 1 .. period |-> GreatestIn({close[k + 1] - close[k], 0})])

IsRSI(value, close, period) ==
  LET gains == Gains(close, period)
      losses == Losses(close, period) IN
  SameFraction(value, IF losses > 0
                      THEN <<100 * (losses + gains) - 100 * losses, losses + gains>>
                      ELSE IF gains > 0 THEN <<100, 1>> ELSE <<50, 1>>)

TrueRange(lists, k) ==
  GreatestIn({lists.high[k] - lists.low[k],
              Magnitude(lists.high[k] - lists.close[k + 1]),
              Magnitude(lists.low[k] - lists.close[k + 1])})

(* As many numbers are below a median as above it, but for the middle ones.*)
IsTwiceMedian(twice, numbers) ==
  \E i, j \in DOMAIN numbers :
    /\ twice = numbers[i] + numbers[j]
    /\ numbers[i] <= numbers[j]
    /\ \A m \in {i, j} :
         /\ 2 * Cardinality({k \in DOMAIN numbers : numbers[k] < numbers[m]}) <= Len(numbers)
         /\ 2 * Cardinality({k \in DOMAIN numbers : numbers[k] > numbers[m]}) <= Len(numbers)
    /\ numbers[i] < numbers[j] =>
         2 * Cardinality({k \in DOMAIN numbers : numbers[k] < numbers[j]}) = Len(numbers)

IsDefined(indicator, period, lists, value) ==
  CASE indicator = "rsi" -> IsRSI(value, lists.close, period)
    [] indicator = "mapos" ->
         SameFraction(value,
           <<period * lists.close[1], SumOf([k \in 1 .. period |-> lists.close[k]])>>)
    [] indicator = "relrange" ->
         (\A k \in 1 .. period : lists.low[k] <= lists.high[k]) =>
           SameFraction(value,
             <<SumOf([k \in 1 .. period |-> TrueRange(lists, k)]), period * lists.close[1]>>)
    [] indicator = "logvolratio" ->
         /\ value[1] = 2 * lists.volume[1]
         /\ IsTwiceMedian(value[2], SubSeq(lists.volume, 2, period + 1))

(* Every reading is what its indicator is documented to be, of windows     *)
(* told apart by time: the share of movement that was upward with its      *)
(* three conventions (rsi.py:3), the close over the mean that holds it     *)
(* (mapos.py:3), the mean of the greatest of three ranges, each against    *)
(* the close one window earlier (relrange.py:3), the volume over the       *)
(* median of the ones before it (logvolratio.py:3); and an RSI is on its   *)
(* scale, and the logarithms are of positive numbers.                      *)
ReadingsAreTheirDefinitions ==
  \A column \in DOMAIN readings : \A n \in DOMAIN record.rows :
    LET indicator == column[1]
        reading == readings[column][n] IN
    ~reading.null =>
      /\ IsDefined(indicator, column[2], reading.lists, reading.value)
      /\ indicator = "rsi" => 0 <= reading.value[1] /\ reading.value[1] <= 100 * reading.value[2]
      /\ indicator \in {"mapos", "logvolratio"} => reading.value[1] > 0 /\ reading.value[2] > 0

=============================================================================
