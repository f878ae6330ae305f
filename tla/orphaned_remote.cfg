SPECIFICATION Spec
CONSTANTS
  Runs = {r1, r2}
  Departed = departed
  NoOwner = nobody
  Clients = {c1}
  Maintainers = {m1}
  JOB_MAX_ATTEMPTS = 1
  UseGpuWorker = TRUE
  AllowLocalFallback = FALSE
  LeaseOutlivesRun = TRUE
  MaxCopies = 1
  MaxFaults = 0
  MaxReopens = 0
SYMMETRY Symmetry
INVARIANT CancelledStopsRemote
CHECK_DEADLOCK FALSE
