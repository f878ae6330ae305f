SPECIFICATION Spec
CONSTANTS
  Runs = {r1, r2}
  Departed = departed
  NoOwner = nobody
  Clients = {c1, c2}
  Maintainers = {m1}
  JOB_MAX_ATTEMPTS = 2
  UseGpuWorker = TRUE
  AllowLocalFallback = FALSE
  LeaseOutlivesRun = TRUE
  MaxCopies = 1
  MaxFaults = 0
  MaxReopens = 1
SYMMETRY Symmetry
PROPERTY DeletesTerminalOnly
CHECK_DEADLOCK FALSE
