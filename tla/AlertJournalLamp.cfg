CONSTANTS
  Bits = {2, 13, 20}
  Shared = {2, 20}
  Unmapped = {}
  LowFuel = {13}
  Diagnosis = {2}
  Capacity = 1
  QueryTicks = 2
  MaxActs = 1
SPECIFICATION Spec
INVARIANT LampMeansAlert
