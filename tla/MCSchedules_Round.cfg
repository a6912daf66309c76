SPECIFICATION FairSpec
CONSTANTS
  MaxTerms = 11
  Requests <- MCRequests
  RuleRequests <- MCRuleRequests
  Divisors = {1, 2, 3}
  Given <- MCGiven
  EditValues <- MCEditValues
  MaxEdits = 1
  PointDen = 2
CHECK_DEADLOCK FALSE
INVARIANT OwnConstructorAccepts
INVARIANT GeneratedAreTheSequences
INVARIANT NamedPointsAreKept
INVARIANT EmitIsPromised
INVARIANT EmitGrowsWithTheWindow
INVARIANT PairsResolve
INVARIANT WrittenReadsBack
INVARIANT ChangesAreNoticed
PROPERTY EveryGenerationEnds
