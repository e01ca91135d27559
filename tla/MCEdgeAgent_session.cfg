\* One agent against the service, with the sweeps scheduled.
SPECIFICATION AgentSpec
CONSTANTS
  Device = {d1}
  Tasks = {t1}
  Priorities = {1}
  MaxJobs = 1
  MaxSessions = 2
  MaxRetries = 1
  CpuFallback = TRUE
  SweepsRun = TRUE
  ExactReports = TRUE
  NoSession = NoSession
  CpuRunner = CpuRunner
  Runs <- EveryTask
  Capacity <- OneSlot
PROPERTY SessionIsRegained
CHECK_DEADLOCK FALSE
