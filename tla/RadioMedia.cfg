CONSTANTS
  Installed = {"tuner", "CD", "CDC"}
  Pieces = 3
  Loud = 5
  Scopes = {{"source", "cd", "hu"}, {"station", "list"}, {"source", "list"}, {"list", "text"}, {"source", "sound"}}
  MaxActs = 3
SPECIFICATION MediaSpec
INVARIANTS NoGhostPlayback WholeTransfers TruthfulAtRest
