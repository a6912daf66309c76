---------------------------- MODULE DurationText ----------------------------
(***************************************************************************)
(* temporal/duration.py: a duration is a whole number of seconds, and has  *)
(* a compact text.  A text is the sequence of its components, each an      *)
(* amount and a unit; what the grammar does not admit (a sign, a space, a  *)
(* unit in capitals) is a component whose unit is not in Units.  The limit *)
(* on the digits of an amount is left out.                                 *)
(***************************************************************************)
EXTENDS Integers, Sequences, SequencesExt

(* Largest first: the order drives parsing and formatting.                 *)
Units == <<"w", "d", "h", "m", "s">>

UnitSeconds == [w |-> 604800, d |-> 86400, h |-> 3600, m |-> 60, s |-> 1]

Rank(unit) == CHOOSE i \in DOMAIN Units : Units[i] = unit

(* Duration.parse: the grammar, then strictly descending units.            *)
Texts == Seq(Nat \X ToSet(Units))

Parses(text) ==
  /\ text \in Texts /\ text # <<>>
  /\ \A i \in 1 .. Len(text) - 1 : Rank(text[i][2]) < Rank(text[i + 1][2])

(* Its total_seconds, component by component.                              *)
SecondsOf(text) ==
  LET total[i \in 0 .. Len(text)] ==
        IF i = 0 THEN 0 ELSE total[i - 1] + text[i][1] * UnitSeconds[text[i][2]]
  IN  total[Len(text)]

(* Faulty variant: one unit's remainder is taken of the whole again.       *)
AfterUnitsForgetting(seconds) ==
  LET loop[i \in 0 .. Len(Units)] ==
        IF i = 0 THEN [remaining |-> seconds, parts |-> <<>>]
        ELSE LET before == loop[i - 1]
                 value == seconds \div UnitSeconds[Units[i]]
             IN  [remaining |-> before.remaining % UnitSeconds[Units[i]],
                  parts |-> IF value = 0 THEN before.parts
                            ELSE Append(before.parts, <<value, Units[i]>>)]
  IN  loop

(* The loop of _format_seconds: after each unit, what remains and the      *)
(* parts so far, zero amounts left out.                                    *)
AfterUnits(seconds) ==
  LET loop[i \in 0 .. Len(Units)] ==
        IF i = 0 THEN [remaining |-> seconds, parts |-> <<>>]
        ELSE LET before == loop[i - 1]
                 value == before.remaining \div UnitSeconds[Units[i]]
             IN  [remaining |-> before.remaining % UnitSeconds[Units[i]],
                  parts |-> IF value = 0 THEN before.parts
                            ELSE Append(before.parts, <<value, Units[i]>>)]
  IN  loop

(* _format_seconds: "0s" for nothing.                                      *)
Format(seconds) ==
  IF seconds = 0 THEN <<<<0, "s">>>> ELSE AfterUnits(seconds)[Len(Units)].parts

=============================================================================
