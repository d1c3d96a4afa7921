CONSTANTS
  Models = {1, 2}
  BeatUnits = 1
  LateUnits = 1
  GapUnits = 1
  ResyncUnits = 2
  TpmsUnits = 1
  MaxFaults = 2
SPECIFICATION Spec
INVARIANTS FourBeatsHeal BurstHasReason
PROPERTIES EventuallyInSync
