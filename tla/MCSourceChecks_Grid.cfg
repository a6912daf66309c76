CONSTANTS
  Column <- MCColumn
  DeclaredKind <- MCDeclaredKind
  Stamp = "timestamp"
  Cadence = 3
  Phase = 1
  Null = Null
  NaN = NaN
  Number = Number
  Text = Text
  MaxGapFindings = 1
  Word = 28
  Frame <- AnyFrame
  Mode <- AnyMode
  History <- AnyHistory
  Statement <- MCStatement
  Entry = {"read", "verify", "validate"}
SPECIFICATION ContinuitySpec
CHECK_DEADLOCK FALSE
INVARIANT PassesExactlyWhenFaithful
INVARIANT PassedIsCompleteGrid
INVARIANT GapsAreAbsences
INVARIANT EveryAbsenceIsReported
