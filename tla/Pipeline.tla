------------------------------ MODULE Pipeline ------------------------------
(***************************************************************************)
(* internal/pipeline/pipeline.go: receivers hand trace data to             *)
(* ConsumeTraces, which enqueues it; one goroutine (consumeLoop) dequeues, *)
(* runs the processors and fans out to the exporters.  Start launches the  *)
(* goroutine and then the receivers, Shutdown stops the receivers, closes  *)
(* the queue, cancels the goroutine, waits for it and stops the exporters. *)
(*                                                                         *)
(* The producers of the queue are the registered receivers, which Shutdown *)
(* stops, and the other callers of ConsumeTraces (the HTTP handlers that   *)
(* cmd/ginger mounts), which it does not know.                             *)
(***************************************************************************)
EXTENDS BoundedQueue, Subsequences

CONSTANTS
    ReceiverSeq,    \* Pipeline.receivers, in the order of AddReceiver
    NExporters,     \* len(Pipeline.exporters)
    MayFail,        \* which calls may return an error: subset of FailPoints
    ParentCancels,  \* whether the context passed to Start may be cancelled
    Loop            \* the consumeLoop goroutine, the only consumer

FailPoints == {"receiverStart", "receiverShutdown", "exporterShutdown"}

ASSUME PipelineAssumption ==
    /\ ReceiverSeq \in Seq(Producers)
    /\ NExporters \in Nat
    /\ MayFail \subseteq FailPoints
    /\ ParentCancels \in BOOLEAN
    /\ Consumers = {Loop}

Registered == ToSet(ReceiverSeq)
Exporters == 1 .. NExporters

VARIABLES
    ctl,        \* progress of Start and Shutdown
    idx,        \* index of the receiver or exporter their loop is at
    live,       \* callers that may call ConsumeTraces
    loop,       \* where consumeLoop is
    draining,   \* consumeLoop is inside drain()
    td,         \* the item in processAndExport, as a set of at most one
    next,       \* index of the exporter processAndExport calls next
    ctx,        \* the context of consumeLoop: live, or who cancelled it first
    owed,       \* history: items accepted before the cancellation
    dropped,    \* history: items a processor returned an error for
    out,        \* history: exporter -> items passed to ExportTraces
    stopped     \* exporters whose Shutdown was called

loopVars == <<loop, draining, td, next, dropped, out>>
ctlVars == <<ctl, idx, live, ctx, owed, stopped>>
pipeVars == <<queueVars, loopVars, ctlVars>>

Controls == {"new", "starting", "running", "startFailed", "stopReceivers",
             "closeQueue", "cancel", "wait", "stopExporters", "stopped", "failed"}
LoopPlaces == {"none", "top", "dequeue", "idle", "drain", "process", "export", "exit"}

PipelineTypeOK ==
    /\ QueueTypeOK
    /\ ctl \in Controls
    /\ idx \in Nat \ {0}
    /\ live \in SUBSET Producers
    /\ loop \in LoopPlaces
    /\ draining \in BOOLEAN
    /\ td \in SUBSET Items
    /\ next \in 1 .. NExporters + 1
    /\ ctx \in {"live", "parent", "shutdown"}
    /\ owed \in SUBSET Items
    /\ dropped \in SUBSET Items
    /\ out \in [Exporters -> Seq(Items)]
    /\ stopped \in SUBSET Exporters

PipelineInit ==
    /\ QueueInit
    /\ ctl = "new"
    /\ idx = 1
    /\ live = {}
    /\ loop = "none"
    /\ draining = FALSE
    /\ td = {}
    /\ next = 1
    /\ ctx = "live"
    /\ owed = {}
    /\ dropped = {}
    /\ out = [e \in Exporters |-> << >>]
    /\ stopped = {}

-----------------------------------------------------------------------------
(* ConsumeTraces: an Enqueue by a live receiver or by an HTTP handler.     *)
ConsumeTraces(p) ==
    /\ \/ p \in live /\ \E x \in Items : Call(p, "Enqueue", x)
       \/ Send(p)
       \/ SendOnClosed(p)
       \/ EnqueueFull(p)
    /\ UNCHANGED <<loopVars, ctlVars>>

-----------------------------------------------------------------------------
(* consumeLoop *)

After == IF draining THEN "drain" ELSE "top"

ExitsUndrained == loop' = "exit" /\ UNCHANGED draining  \* mutant: drain() not called
StartDraining == loop' = "drain" /\ draining' = TRUE

(* The select at the top of the loop.                                      *)
LoopTop ==
    /\ loop = "top"
    /\ IF ctx # "live" THEN StartDraining ELSE loop' = "dequeue" /\ UNCHANGED draining
    /\ UNCHANGED <<queueVars, ctlVars, td, next, dropped, out>>

(* Dequeue finds an item, in the loop or in drain().                       *)
LoopTake ==
    /\ loop \in {"dequeue", "drain"}
    /\ Dequeue(Loop)
    /\ td' = {Head(ch)}
    /\ loop' = "process"
    /\ UNCHANGED <<ctlVars, draining, next, dropped, out>>

EndsWhenEmpty == "exit"                \* mutant of SleepPlace: empty taken for closed
SleepPlace == "idle"

(* Dequeue finds nothing: the loop sleeps, drain() returns.                *)
LoopEmpty ==
    /\ loop \in {"dequeue", "drain"}
    /\ ch = << >>
    /\ loop' = IF loop = "drain" THEN "exit" ELSE SleepPlace
    /\ UNCHANGED <<queueVars, ctlVars, draining, td, next, dropped, out>>

(* The 5 ms sleep ends, or the cancellation ends it.                       *)
LoopWake ==
    /\ loop = "idle"
    /\ \/ ctx # "live" /\ StartDraining
       \/ loop' = "top" /\ UNCHANGED draining
    /\ UNCHANGED <<queueVars, ctlVars, td, next, dropped, out>>

IgnoresError == next' = 1 /\ loop' = "export" /\ UNCHANGED td  \* mutant: no return
DropOnError == td' = {} /\ loop' = After /\ UNCHANGED next

(* The processors: one of them returns an error, or all pass the data on.  *)
Process ==
    /\ loop = "process"
    /\ \/ /\ dropped' = dropped \cup td
          /\ DropOnError
       \/ /\ next' = 1
          /\ loop' = "export"
          /\ UNCHANGED <<td, dropped>>
    /\ UNCHANGED <<queueVars, ctlVars, draining, out>>

(* ExportTraces of one exporter; its error is not looked at.               *)
Export ==
    /\ loop = "export"
    /\ next <= NExporters
    /\ \E x \in td : out' = [out EXCEPT ![next] = Append(@, x)]
    /\ next' = next + 1
    /\ UNCHANGED <<queueVars, ctlVars, loop, draining, td, dropped>>

ExportDone ==
    /\ loop = "export"
    /\ next > NExporters
    /\ td' = {}
    /\ loop' = After
    /\ UNCHANGED <<queueVars, ctlVars, draining, next, dropped, out>>

ConsumeLoop ==
    \/ LoopTop \/ LoopTake \/ LoopEmpty \/ LoopWake
    \/ Process \/ Export \/ ExportDone

-----------------------------------------------------------------------------
(* Start *)

StartLoop ==
    /\ ctl = "new"
    /\ loop' = "top"
    /\ ctl' = "starting"
    /\ UNCHANGED <<queueVars, draining, td, next, dropped, out, idx, live, ctx,
                   owed, stopped>>

(* r.Start: the receiver begins to call ConsumeTraces.                     *)
StartReceiver ==
    /\ ctl = "starting"
    /\ idx <= Len(ReceiverSeq)
    /\ \/ /\ live' = live \cup {ReceiverSeq[idx]}
          /\ idx' = idx + 1
          /\ UNCHANGED ctl
       \/ /\ "receiverStart" \in MayFail
          /\ ctl' = "startFailed"
          /\ UNCHANGED <<idx, live>>
    /\ UNCHANGED <<queueVars, loopVars, ctx, owed, stopped>>

(* Start returns nil; cmd/ginger then starts its HTTP servers.             *)
Started ==
    /\ ctl = "starting"
    /\ idx > Len(ReceiverSeq)
    /\ ctl' = "running"
    /\ live' = live \cup (Producers \ Registered)
    /\ UNCHANGED <<queueVars, loopVars, idx, ctx, owed, stopped>>

-----------------------------------------------------------------------------
(* Shutdown *)

BeginShutdown ==
    /\ ctl \in {"running", "startFailed"}
    /\ ctl' = "stopReceivers"
    /\ idx' = 1
    /\ UNCHANGED <<queueVars, loopVars, live, ctx, owed, stopped>>

Quiescent(r) == call[r] = None

(* r.Shutdown: returns once the receiver's goroutines have ended.          *)
StopReceiver ==
    /\ ctl = "stopReceivers"
    /\ idx <= Len(ReceiverSeq)
    /\ \/ /\ Quiescent(ReceiverSeq[idx])
          /\ live' = live \ {ReceiverSeq[idx]}
          /\ idx' = idx + 1
          /\ UNCHANGED ctl
       \/ /\ "receiverShutdown" \in MayFail
          /\ ctl' = "failed"
          /\ UNCHANGED <<idx, live>>
    /\ UNCHANGED <<queueVars, loopVars, ctx, owed, stopped>>

ClosesFirst ==                         \* mutant of CloseIntake: before the receivers
    /\ ctl = "stopReceivers"
    /\ CloseQueue
    /\ ctl' = "cancel"
    /\ UNCHANGED <<loopVars, idx, live, ctx, owed, stopped>>

CloseIntake ==
    /\ ctl = "stopReceivers"
    /\ idx > Len(ReceiverSeq)
    /\ CloseQueue
    /\ ctl' = "cancel"
    /\ UNCHANGED <<loopVars, idx, live, ctx, owed, stopped>>

Cancel(who) ==
    IF ctx = "live" THEN ctx' = who /\ owed' = ToSet(accepted)
                    ELSE UNCHANGED <<ctx, owed>>

CancelLoop ==
    /\ ctl = "cancel"
    /\ Cancel("shutdown")
    /\ ctl' = "wait"
    /\ UNCHANGED <<queueVars, loopVars, idx, live, stopped>>

NoWait == TRUE                         \* mutant of LoopEnded: wg.Wait() is missing
LoopEnded == loop = "exit"

(* wg.Wait() returns.                                                      *)
WaitForLoop ==
    /\ ctl = "wait"
    /\ LoopEnded
    /\ ctl' = "stopExporters"
    /\ idx' = 1
    /\ UNCHANGED <<queueVars, loopVars, live, ctx, owed, stopped>>

(* exp.Shutdown: an error ends Shutdown before the next exporter.          *)
StopExporter ==
    /\ ctl = "stopExporters"
    /\ idx <= NExporters
    /\ stopped' = stopped \cup {idx}
    /\ \/ idx' = idx + 1 /\ UNCHANGED ctl
       \/ "exporterShutdown" \in MayFail /\ ctl' = "failed" /\ UNCHANGED idx
    /\ UNCHANGED <<queueVars, loopVars, live, ctx, owed>>

EndShutdown ==
    /\ ctl = "stopExporters"
    /\ idx > NExporters
    /\ ctl' = "stopped"
    /\ UNCHANGED <<queueVars, loopVars, idx, live, ctx, owed, stopped>>

(* Everything Shutdown does after BeginShutdown.                           *)
Shutdown ==
    \/ StopReceiver \/ CloseIntake \/ CancelLoop \/ WaitForLoop
    \/ StopExporter \/ EndShutdown

(* The owner of the context passed to Start cancels it.                    *)
ParentCancel ==
    /\ ParentCancels
    /\ ctl # "new"
    /\ ctx = "live"
    /\ Cancel("parent")
    /\ UNCHANGED <<queueVars, loopVars, ctl, idx, live, stopped>>

PipelineNext ==
    \/ \E p \in Producers : ConsumeTraces(p)
    \/ ConsumeLoop
    \/ StartLoop \/ StartReceiver \/ Started
    \/ BeginShutdown \/ Shutdown
    \/ ParentCancel

(* The loop, a Shutdown in progress and an Enqueue in progress run on.     *)
PipelineFairness ==
    /\ WF_pipeVars(ConsumeLoop)
    /\ WF_pipeVars(Shutdown)
    /\ \A p \in Producers :
          WF_pipeVars((Send(p) \/ SendOnClosed(p) \/ EnqueueFull(p))
                      /\ UNCHANGED <<loopVars, ctlVars>>)

PipelineSpec == PipelineInit /\ [][PipelineNext]_pipeVars /\ PipelineFairness

-----------------------------------------------------------------------------
(* Correctness *)

(* The items processAndExport has returned for.                            *)
Handled == IF td = {} THEN delivered ELSE Front(delivered)

(* The dequeued items whose turn for exporter e is over.                   *)
Offered(e) == IF loop = "export" /\ e < next THEN delivered ELSE Handled

(* Fan-out: every exporter is given what the processors let through of the *)
(* dequeued items, once each and in the order of the queue, and one that   *)
(* comes later in the list is behind by at most the current item.          *)
FanOutInOrder ==
    /\ PipelineTypeOK
    /\ \A e \in Exporters :
        /\ ToSet(out[e]) = ToSet(Offered(e)) \ dropped
        /\ IsInjective(out[e])
        /\ InOrderOf(out[e], Offered(e))

(* pipeline.go:99, "receivers, then drain, then exporters": consumeLoop    *)
(* does not exit before it has handled every item accepted before it was   *)
(* cancelled.  When Shutdown is what cancels it, after closing the queue,  *)
(* that is every item for which ConsumeTraces returned nil.                *)
OwedItemsAreHandled ==
    loop = "exit" =>
        /\ td = {}
        /\ owed \subseteq ToSet(delivered)
        /\ ctx = "shutdown" => delivered = accepted

(* No exporter is called after its Shutdown.                               *)
NoExportAfterStop == [][\A e \in stopped : out'[e] = out[e]]_pipeVars

(* A receiver that Shutdown stops never meets the closed queue: it has     *)
(* returned from ConsumeTraces before the queue is closed.                 *)
ReceiversNeverPanic == panicked \cap Registered = {}

(* The pipeline as a whole is a FIFO buffer.  Unless the context of Start  *)
(* was cancelled, it reports itself finished (Shutdown returns nil) only   *)
(* when it is drained, and is silent from then on.                         *)
PipeFifo == INSTANCE FifoDelivery WITH
                open <- ~closed,
                done <- Handled,
                finished <- (ctl = "stopped" /\ ctx = "shutdown")
PipelineImplementsFifo == PipeFifo!FifoSpec

(* Shutdown returns: neither a receiver nor the loop blocks it for ever.   *)
ShutdownReturns == (ctl = "stopReceivers") ~> (ctl \in {"stopped", "failed"})

(* Every accepted item is processed in the end, shut down or not, unless   *)
(* it came after a cancellation of the context of Start.                   *)
AcceptedAreHandled ==
    \A x \in Items : (x \in ToSet(accepted)) ~>
        (x \in ToSet(Handled) \/ (ctx = "parent" /\ x \notin owed))

(* Both: the pipeline stops when it is told to, and not before its work is *)
(* done.                                                                   *)
PipelineMakesProgress == ShutdownReturns /\ AcceptedAreHandled
=============================================================================
