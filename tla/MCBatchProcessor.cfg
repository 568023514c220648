SPECIFICATION BatchSpec
CONSTANTS
    s1 = s1
    s2 = s2
    s3 = s3
    s4 = s4
    r1 = r1
    r2 = r2
    NoTimer = NoTimer
    Spans = {s1, s2, s3, s4}
    Resources = {r1, r2}
    ResourceOf <- MCResourceOf
    MaxBatchSize = 2
    Timers = {t1, t2, t3}
    MaxPayload = 2
INVARIANTS
    SpansExactlyOnce
    WaitingSpansHaveTimer
    ExportsAreBounded
PROPERTIES
    SpansAreSent
