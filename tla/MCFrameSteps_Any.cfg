CONSTANTS
  Null = Null
  NaN = NaN
  Word = 32
  History <- MCHistory
  Window = 4
  Cadence = 2
  Policy <- MCPolicy
  Sidecar <- MCSidecar
  SidecarFile <- MCSidecarFile
  RowCap <- MCRowCap
  ReturnCall <- MCReturnCall
  Now = 8
  MaxSteps = 3
SPECIFICATION StepsSpec
CHECK_DEADLOCK FALSE
INVARIANT KeptRowsAreThePassing
INVARIANT OverlapIsTheUnion
INVARIANT ValuesAreTheHistorys
PROPERTY ReportStatesTheVerdict
PROPERTY NoLookAhead
