SPECIFICATION GpuWorkerSpec
CONSTANTS
    c1 = c1
    c2 = c2
    s1 = s1
    s2 = s2
    k1 = k1
    ApiContainers = {c1, c2}
    Submissions = {s1, s2}
    Cancels = {}
    PARALLEL_BRANCHES <- MCBranches
    Specialists = {"specialists"}
    Deployments <- MCFaultless
CHECK_DEADLOCK FALSE
INVARIANT ReservedAtomically
