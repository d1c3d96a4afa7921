CONSTANTS
  Data = {d1, d2, d3}
  Capacity = 2
  Wrap = 6
  NoData = NoData
  Torn = Torn
SPECIFICATION FairSpec
INVARIANTS NoSlotRace
PROPERTIES ImplementsFifo EventuallyDrained
