SPECIFICATION Spec
CONSTANTS
  Runs = {r1, r2}
  Departed = departed
  NoOwner = nobody
  Clients = {c1, c2}
  Maintainers = {}
  JOB_MAX_ATTEMPTS = 2
  UseGpuWorker = TRUE
  AllowLocalFallback = FALSE
  LeaseOutlivesRun = TRUE
  MaxCopies = 1
  MaxFaults = 2
  MaxReopens = 0
SYMMETRY Symmetry
INVARIANTS CompletedMeansRemoteDone
CHECK_DEADLOCK FALSE
