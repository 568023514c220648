SPECIFICATION PipelineSpec
CONSTANTS
    r1 = r1
    Loop = Loop
    Producers = {r1, h1}
    Consumers = {Loop}
    Items = {t1, t2, t3}
    Capacity = 2
    MaxDst = 0
    ReceiverSeq <- OneReceiver
    NExporters = 2
    MayFail = {"receiverStart", "receiverShutdown", "exporterShutdown"}
    ParentCancels = TRUE
INVARIANTS
    FanOutInOrder
    OwedItemsAreHandled
    ReceiversNeverPanic
PROPERTIES
    NoExportAfterStop
    PipelineImplementsFifo
    PipelineMakesProgress
CHECK_DEADLOCK FALSE
