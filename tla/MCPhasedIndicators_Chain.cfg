CONSTANTS
  Null = Null
  Field <- MCField
  MaxLookback = 3
  Source <- MCSource
  Request <- MCRequest
  HandBuilt <- MCHandBuilt
  Period = {0, 1, 2, 3}
  MaxAdds = 2
SPECIFICATION ChainSpec
CHECK_DEADLOCK FALSE
INVARIANT PhasedAnswerIsPromised
INVARIANT NullsAreOfTheHistory
INVARIANT ReadingsReadWholeWindows
INVARIANT ReadingsAreTheirDefinitions
