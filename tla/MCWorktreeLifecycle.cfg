CONSTANTS
  s1 = s1
  None = None
  Spaces <- MCSpaces
  Legacy <- MCSpaces
  MaxTip = 2
  MaxFaults = 2
SPECIFICATION LiveSpec
INVARIANT TypeOK
PROPERTIES ReadyMeansLocked SeenForeignLocksHold WorkSurvives RecordGoesLast OwnedResourceSpec
PROPERTIES CreationsSettle DeletionsSettleUnlessHalfRemoved
