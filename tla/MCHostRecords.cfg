CONSTANTS
  i1 = i1
  i2 = i2
  s1 = s1
  f1 = f1
  None = None
  Instances <- MCInstances
  Sessions <- MCSessions
  Files <- MCFiles
  Owner <- MCOwner
  Terminals <- MCUsers
  Removers <- MCUsers
  MaxFaults = 1
SPECIFICATION LiveSpec
INVARIANTS OwnMarkersAreRecorded FilesAreRecorded
PROPERTIES ForeignMarkersHold AttachmentsKept RecordsSettle
