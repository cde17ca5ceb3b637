CONSTANTS
  Symbols <- OneSymbol
  MaxSessions = 2
  ChunkSize = 2
  MaxSeq <- Lengths
  Targets <- Places
  Scenarios <- Halting
  MaxBatch = 1
  AnyTime = FALSE
  MaxCommands = 3
  MaxCrashes = 1
SPECIFICATION Spec
INVARIANTS SessionsClosed ReplayShowsPrefix LiveShowsLog LogTellsHalts ReplayComplete
PROPERTIES ImplementsRecords RecordedLogsFixed CrashHaltEnds ReplayEnds
CHECK_DEADLOCK FALSE
