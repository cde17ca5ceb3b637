CONSTANTS
  Symbols <- TwoSymbols
  MaxSessions = 2
  ChunkSize = 2
  MaxSeq <- Lengths
  Targets <- Places
  Scenarios <- Quiet
  MaxBatch = 1
  AnyTime = FALSE
  MaxCommands = 1
  MaxCrashes = 0
SPECIFICATION Spec
PROPERTIES LogNeverRewritten
CHECK_DEADLOCK FALSE
