SPECIFICATION TailSpec
CONSTANTS
    a1 = a1
    a2 = a2
    b1 = b1
    c1 = c1
    A = A
    B = B
    C = C
    Spans = {a1, a2, b1, c1}
    TraceIds = {A, B, C}
    SpanInfo <- MCSpanInfo
    Policies <- MCPolicies
    Width = 3
    DecisionWait = 2
    MaxTraces = 2
    MaxPayload = 2
    MayStop = {"shutdown"}
PROPERTY ShutdownDecidesAll
CHECK_DEADLOCK FALSE
