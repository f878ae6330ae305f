SPECIFICATION Spec
CONSTANTS
  Runs = {r1, r2}
  Departed = departed
  NoOwner = nobody
  Clients = {c1}
  Maintainers = {m1}
  JOB_MAX_ATTEMPTS = 2
  UseGpuWorker = FALSE
  AllowLocalFallback = FALSE
  LeaseOutlivesRun = TRUE
  MaxCopies = 1
  MaxFaults = 1
  MaxReopens = 0
SYMMETRY Symmetry
INVARIANTS LeaseInv SingleExecution
PROPERTIES CompletedByOwner CancelWins
CHECK_DEADLOCK FALSE
