--------------------------- MODULE MCSourceChecks ---------------------------
(***************************************************************************)
(* Small instances of SourceValidation and SnapshotContinuity: a timestamp *)
(* column and one price column.  RowFrames has every sequence of up to     *)
(* four timestamps, sorted or not, with gaps, duplicates and off-phase     *)
(* rows, and with two rows a wrapped step apart; ColumnFrames has two      *)
(* rows, either column missing, of the wrong kind, or with bad cells.      *)
(* AnyHistory is smaller, for each is held against every manifest of one   *)
(* to three rows.                                                          *)
(***************************************************************************)
EXTENDS SnapshotContinuity

MCColumn == {"timestamp", "price"}

MCDeclaredKind == [c \in MCColumn |-> IF c = "timestamp" THEN "integer" ELSE "floating"]

FrameOf(times, price) ==
  [height  |-> Len(times),
   columns |-> [c \in MCColumn |-> IF c = "timestamp"
                                   THEN [kind |-> "integer", cells |-> times]
                                   ELSE [kind |-> "floating", cells |-> price]]]

TimesUpTo(n, times) == UNION {[1 .. k -> times] : k \in 0 .. n}

WellFormed(sequences) == {FrameOf(s, [i \in DOMAIN s |-> Number]) : s \in sequences}

RowFrames == WellFormed(TimesUpTo(4, (-1 .. 7) \cup {10, 13, -12}))

StampColumns ==
  [kind : {"integer"}, cells : [1 .. 2 -> {Null, 0, 1, 4}]]
    \cup {[kind |-> "floating", cells |-> <<NaN, Number>>],
          [kind |-> "other", cells |-> <<Text, Text>>]}

PriceColumns ==
  [kind : {"floating"}, cells : [1 .. 2 -> {Null, NaN, Number}]]
    \cup [kind : {"integer"}, cells : [1 .. 2 -> {Null, Number}]]
    \cup {[kind |-> "other", cells |-> <<Text, Null>>]}

ColumnFrames ==
  {[height |-> 2, columns |-> [c \in {"timestamp", "price"} |-> IF c = "timestamp" THEN s ELSE p]] :
      s \in StampColumns, p \in PriceColumns}
    \cup {[height |-> 2, columns |-> [c \in {"timestamp"} |-> s]] : s \in StampColumns}
    \cup {[height |-> 2, columns |-> [c \in {"price"} |-> p]] : p \in PriceColumns}
    \cup {[height |-> 2, columns |-> [c \in {"timestamp", "price", "trades"} |->
              IF c = "timestamp" THEN s ELSE [kind |-> "other", cells |-> <<Null, Text>>]]] :
            s \in StampColumns}

AnyFrame == RowFrames \cup ColumnFrames

AnyMode == {"strict", "report"}

-----------------------------------------------------------------------------
Instants == {1, 2, 4, 7, 10}

Rowwise ==
  {FrameOf(s, [i \in DOMAIN s |-> Number]) : s \in TimesUpTo(4, Instants)}
    \cup {FrameOf(<<1, 4>>, p) : p \in [1 .. 2 -> {Number, NaN, Null}]}

(* What a caller may hold who built the frame elsewhere.                   *)
Unread ==
  Rowwise
    \cup {FrameOf(s, <<Number, Number>>) : s \in [1 .. 2 -> {1, 4, Null}]}
    \cup {[height |-> 2, columns |-> [c \in {"price"} |-> [kind |-> "floating", cells |-> <<Number, Number>>]]]}

OddTimes ==
  {[kind |-> "other", cells |-> <<Text, Text>>],
   [kind |-> "floating", cells |-> <<1, NaN>>],
   [kind |-> "floating", cells |-> <<1, 4>>]}

OddFrames ==
  {[height |-> 2,
    columns |-> [c \in MCColumn |-> IF c = "timestamp"
                                    THEN t
                                    ELSE [kind |-> "floating", cells |-> <<Number, Number>>]]] :
      t \in OddTimes}

(* A column the profile does not declare is nobody's business.             *)
WithTrades(f) ==
  [height  |-> f.height,
   columns |-> [c \in MCColumn \cup {"trades"} |->
                  IF c \in MCColumn THEN f.columns[c]
                  ELSE [kind |-> "other", cells |-> [i \in 1 .. f.height |-> Null]]]]

AnyHistory == Unread \cup OddFrames \cup {WithTrades(f) : f \in WellFormed({<<1, 4>>, <<1, 7>>})}

MCStatement ==
  {m \in [row_count : 1 .. 3, first_timestamp : {1, 2, 4}, last_timestamp : {1, 2, 4, 7}] :
      m.first_timestamp <= m.last_timestamp}

=============================================================================
