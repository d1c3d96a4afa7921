CONSTANTS
  Slots = 4
  PageRecs = 2
  OldSize = 4
  NewSize = 3
  IdleLimit = 2
  MaxReply = 3
  MaxFaults = 2
SPECIFICATION FairUpdateSpec
INVARIANTS AckedIsWritten SuccessMeansImage
PROPERTIES LeftAlone EventuallyUpdated
