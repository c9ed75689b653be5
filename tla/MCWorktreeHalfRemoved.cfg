CONSTANTS
  s1 = s1
  None = None
  Spaces <- MCSpaces
  Legacy = {}
  MaxTip = 2
  MaxFaults = 1
SPECIFICATION LiveSpec
PROPERTY DeletionsSettle
