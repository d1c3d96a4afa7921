CONSTANTS
  SilenceTicks = 3
SPECIFICATION ParkedSpec
INVARIANTS PowerHasCause HuPowerFollowsState NoPhantomTrigger
PROPERTIES KeyPowersHu KnobPowersHu SilenceSleeps
