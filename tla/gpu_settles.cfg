SPECIFICATION FairSpec
CONSTANTS
  Runs = {r1}
  Departed = departed
  NoOwner = nobody
  Clients = {c1}
  Maintainers = {m1}
  JOB_MAX_ATTEMPTS = 1
  UseGpuWorker = TRUE
  AllowLocalFallback = FALSE
  LeaseOutlivesRun = TRUE
  MaxCopies = 1
  MaxFaults = 1
  MaxReopens = 0
PROPERTIES Settles
CHECK_DEADLOCK FALSE
