CONSTANTS
  Stalk = {"volUp", "volDown", "next"}
  ButtonCount = 2
  DemandTicks = 3
  StatusTicks = 2
  Scopes = {{"keys", "reverse"}, {"console", "doors"}, {"tyres", "reverse"}, {"climate"}}
  MaxActs = 4
SPECIFICATION Spec
INVARIANTS NoStuckKey ShownIsCurrent MeasuredStays
PROPERTIES NoUnaskedClimate
