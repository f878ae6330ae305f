SPECIFICATION Spec
CONSTANTS
  Jobs = {j1, j2, j3, j4}
  Owners = {o1, o2, o3}
  Keys = {k1}
  None = none
  Requests = {p1, p2}
  JOB_MAX_ACTIVE = 2
  JOB_MAX_ACTIVE_PER_OWNER = 1
  MaxFaults = 1
SYMMETRY Symmetry
INVARIANTS WithinCapacity KeyIsUnique InputKept
PROPERTIES Promised
CHECK_DEADLOCK FALSE
