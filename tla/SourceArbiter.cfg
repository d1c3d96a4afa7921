CONSTANTS
  Installed = {"TUNER", "CD", "AUX"}
  MaxRetries = 3
  ConfirmTicks = 2
  DebounceTicks = 2
  SettleTicks = 1
  MaxWire = 2
  MaxActs = 3
SPECIFICATION FairSpec
INVARIANTS ListNotForgotten WaitKnowsItsPulse ShownWhenUnfiltered
PROPERTIES NoPassingSource EventuallyTruthful
