CONSTANTS
  s1 = s1
  None = None
  Spaces <- MCSpaces
  Legacy = {}
  MaxTip = 2
  MaxFaults = 0
SPECIFICATION LiveSpec
PROPERTY ForeignLocksHold
