CONSTANTS
  Settings = {"lock", "radar"}
  MdfUnits = 2
  MaxActs = 4
SPECIFICATION Spec
INVARIANTS NoChoiceLost StaleOnlyAfterRefusal
PROPERTIES EventuallyAdopted
