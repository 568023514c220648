SPECIFICATION PoolSpec
CONSTANTS
    Producers = {p1, p2}
    Consumers = {w1, w2}
    Items = {j1, j2, j3}
    Capacity = 0
    MaxDst = 0
    ParentCancels = TRUE
INVARIANTS
    JobInOnePlace
    CloseHonoursOwedJobs
PROPERTIES
    PoolMakesProgress
CHECK_DEADLOCK FALSE
