\* Nothing calls the sweeps, as in the application api/main.py starts.
SPECIFICATION FairSpec
CONSTANTS
  d1 = d1
  d2 = d2
  t1 = t1
  t2 = t2
  Device = {d1, d2}
  Tasks = {t1, t2}
  Runs <- MCRuns
  Capacity <- MCMixedSlots
  Priorities = {1}
  MaxJobs = 1
  MaxSessions = 2
  MaxRetries = 1
  CpuFallback = TRUE
  SweepsRun = FALSE
  ExactReports = TRUE
  NoSession = NoSession
  CpuRunner = CpuRunner
PROPERTY LeaseIsRecovered
CHECK_DEADLOCK FALSE
