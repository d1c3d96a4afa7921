CONSTANTS
  LongTicks = 1
  PulseTicks = 3
  IdleTicks = 4
  PeriodTicks = 2
  MaxLost = 2
  MaxActs = 3
SPECIFICATION FairPagesSpec
INVARIANTS NoUnaskedReset ResetArrives PageAnnounced PagesFollow
PROPERTIES EventuallyClosed
