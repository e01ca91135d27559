SPECIFICATION ReconnectSpec
CONSTANTS
  Device = {d1}
  Tasks = {t1}
  Runs <- EveryTask
  Capacity <- OneSlot
  Priorities = {0, 1}
  MaxJobs = 2
  MaxSessions = 2
  MaxRetries = 1
  CpuFallback = TRUE
  SweepsRun = TRUE
  ExactReports = FALSE
  NoSession = NoSession
  CpuRunner = CpuRunner
INVARIANT RetryBudget
INVARIANT BusyMatchesLoad
INVARIANT LeaseIsWorkedOn
PROPERTY OnlyLiveLeaseCompletes
CHECK_DEADLOCK FALSE
