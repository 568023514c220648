SPECIFICATION BackendsSpec
CONSTANTS
    a1 = a1
    a2 = a2
    b1 = b1
    c1 = c1
    A = A
    B = B
    C = C
    Spans = {a1, a2, b1, c1}
    TraceIds = {A, B, C}
    SpanInfo <- MCSpanInfo
    Width = 3
    MaxTraces = 2
    Queries <- MCQueries
    Readers = {r1, r2}
    MaxPayload = 2
    NoAnswer = NoAnswer
    Writers = {w1, w2}
    Threshold = 2
    Attempts = 2
    Window = 0
    MaxNow = 2
    MaxWrites = 3
    KafkaData = {p1, p2}
    Garbage = {g}
    Callers = {k1, k2}
    BatchSize = 1
    MaxConns = 2
    MaxFetch = 2
    MaxFaults = 1
    MaxRestarts = 1
INVARIANTS
    NewestTracesKept
    
    ResponsesOnlyGrow
    InfluxWritesAreSound
    SinkFollowsLog
    PayloadsAccountedFor
PROPERTIES
    LogIsHandedOn
CHECK_DEADLOCK FALSE
