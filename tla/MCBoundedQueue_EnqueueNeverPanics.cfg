SPECIFICATION QueueSpec
CONSTANTS
    Producers = {p1, p2}
    Consumers = {c1, c2}
    Items = {i1, i2, i3}
    Capacity = 2
    MaxDst = 2
INVARIANT
    EnqueueNeverPanics
