CONSTANTS
  Null = Null
  NaN = NaN
  NeutralHigh <- MCNeutralHigh
  NeutralLow = 100
  Request <- MCRequest
  Maker <- MCMaker
SPECIFICATION WindowsSpec
CHECK_DEADLOCK FALSE
INVARIANT TicksAreCloses
INVARIANT CoverageIsTime
INVARIANT WarmupEndsAtTheFirstFullWindow
PROPERTY ImplementsContract
