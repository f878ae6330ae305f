SPECIFICATION Spec
CONSTANTS
  Runs = {r1, r2}
  Departed = departed
  NoOwner = nobody
  Clients = {c1}
  Maintainers = {m1}
  JOB_MAX_ATTEMPTS = 1
  UseGpuWorker = TRUE
  AllowLocalFallback = TRUE
  LeaseOutlivesRun = TRUE
  MaxCopies = 1
  MaxFaults = 1
  MaxReopens = 1
SYMMETRY Symmetry
INVARIANTS AttemptsBounded
PROPERTIES KeepsPromise
CHECK_DEADLOCK FALSE
