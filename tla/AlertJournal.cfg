CONSTANTS
  Bits = {2, 5, 13, 20}
  Shared = {2, 20}
  Unmapped = {}
  LowFuel = {}
  Diagnosis = {2, 5}
  Capacity = 2
  QueryTicks = 2
  MaxActs = 3
SPECIFICATION FairSpec
INVARIANTS ListIsCurrent PopupFollows
PROPERTIES WholeJournalTaken EventuallyListed
