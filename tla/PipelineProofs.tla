---------------------------- MODULE PipelineProofs --------------------------
(***************************************************************************)
(* Theorems about Pipeline, for any receivers, handlers, exporters, queue  *)
(* capacity and failures, with or without a cancellation from outside.     *)
(***************************************************************************)
EXTENDS Pipeline, BoundedQueueProofs

-----------------------------------------------------------------------------
(* The pipeline as a user of its queue *)

(* ConsumeTraces is an Enqueue and consumeLoop receives with Dequeue: what *)
(* the pipeline does to its queue is what the queue allows.                *)
LEMMA PipeStepIsQueueStep ==
    ASSUME [PipelineNext]_pipeVars
    PROVE  [QueueNext]_queueVars
<1>1. ASSUME NEW p \in Producers, ConsumeTraces(p) PROVE QueueNext
  BY <1>1 DEF ConsumeTraces, QueueNext, Produce, Ops
<1>2. CASE ConsumeLoop
  <2>1. CASE LoopTake
    BY <2>1, PipelineAssumption DEF LoopTake, QueueNext, Consume
  <2> QED
    BY <1>2, <2>1 DEF ConsumeLoop, LoopTop, LoopEmpty, LoopWake, Process, Export,
                      ExportDone, queueVars
<1>3. CASE CloseIntake
  BY <1>3 DEF CloseIntake, QueueNext
<1>4. CASE \/ StartLoop \/ StartReceiver \/ Started \/ BeginShutdown \/ StopReceiver
           \/ CancelLoop \/ WaitForLoop \/ StopExporter \/ EndShutdown \/ ParentCancel
           \/ UNCHANGED pipeVars
  BY <1>4 DEF StartLoop, StartReceiver, Started, BeginShutdown, StopReceiver,
              CancelLoop, WaitForLoop, StopExporter, EndShutdown, ParentCancel, pipeVars
<1> QED
  BY <1>1, <1>2, <1>3, <1>4 DEF PipelineNext, Shutdown

(* A pipeline is a way of using its queue: everything BoundedQueueProofs   *)
(* shows of the queue holds of the trace data in a pipeline.               *)
THEOREM PipelineUsesQueue == PipelineSpec => QueueSpec
<1>1. PipelineInit => QueueInit
  BY DEF PipelineInit
<1>2. [PipelineNext]_pipeVars => [QueueNext]_queueVars
  BY PipeStepIsQueueStep
<1> QED
  BY <1>1, <1>2, PTL DEF PipelineSpec, QueueSpec

-----------------------------------------------------------------------------
(* Type correctness *)

(* A new pipeline has the right type.                                      *)
LEMMA PipeTypeInit == PipelineInit => PipelineTypeOK
<1> SUFFICES ASSUME PipelineInit PROVE PipelineTypeOK
  OBVIOUS
<1>1. out \in [Exporters -> Seq(Items)]
  BY DEF PipelineInit
<1>2. next \in 1 .. NExporters + 1
  BY PipelineAssumption DEF PipelineInit
<1>3. QueueTypeOK
  BY TypeInit DEF PipelineInit
<1>4. ctl \in Controls /\ loop \in LoopPlaces /\ idx \in Nat \ {0}
  BY DEF PipelineInit, Controls, LoopPlaces
<1>5. /\ live = {} /\ td = {} /\ owed = {} /\ dropped = {} /\ stopped = {}
      /\ draining = FALSE /\ ctx = "live"
  BY DEF PipelineInit
<1> QED
  BY <1>1, <1>2, <1>3, <1>4, <1>5 DEF PipelineTypeOK

(* Every step keeps the type.                                              *)
LEMMA PipeTypeStep ==
    ASSUME QueueTypeOK', PipelineTypeOK, [PipelineNext]_pipeVars
    PROVE  PipelineTypeOK'
<1> USE DEF PipelineTypeOK
<1>1. ASSUME NEW p \in Producers, ConsumeTraces(p) PROVE PipelineTypeOK'
  BY <1>1 DEF ConsumeTraces, loopVars, ctlVars
<1>2. CASE LoopTake
  <2>1. Head(ch) \in Items
    BY <1>2, HeadTailProperties DEF LoopTake, Dequeue, Recv, QueueTypeOK
  <2> QED
    BY <1>2, <2>1 DEF LoopTake, LoopPlaces, ctlVars
<1>3. CASE LoopTop \/ LoopEmpty \/ LoopWake
  BY <1>3 DEF LoopTop, LoopEmpty, LoopWake, StartDraining, SleepPlace, LoopPlaces, ctlVars
<1>4. CASE Process
  BY <1>4, PipelineAssumption DEF Process, DropOnError, After, LoopPlaces, ctlVars
<1>5. CASE Export
  <2>1. next \in Exporters /\ next + 1 \in 1 .. NExporters + 1
    BY <1>5, PipelineAssumption DEF Export, Exporters
  <2>2. PICK x \in td : out' = [out EXCEPT ![next] = Append(@, x)]
    BY <1>5 DEF Export
  <2>3. Append(out[next], x) \in Seq(Items)
    BY <2>1, AppendProperties
  <2>4. out' \in [Exporters -> Seq(Items)]
    BY <2>1, <2>2, <2>3
  <2> QED
    BY <1>5, <2>1, <2>4 DEF Export, ctlVars
<1>6. CASE ExportDone
  BY <1>6 DEF ExportDone, After, LoopPlaces, ctlVars
<1>7. CASE StartLoop \/ Started \/ BeginShutdown \/ CloseIntake \/ WaitForLoop \/ EndShutdown
  BY <1>7 DEF StartLoop, Started, BeginShutdown, CloseIntake, WaitForLoop, EndShutdown,
              LoopPlaces, Controls, loopVars
<1>8. CASE StartReceiver \/ StopReceiver
  <2>1. ASSUME NEW i \in Nat, 1 <= i, i <= Len(ReceiverSeq)
        PROVE  ReceiverSeq[i] \in Producers
    BY <2>1, PipelineAssumption, ElementOfSeq, LenProperties
  <2>2. idx' \in Nat \ {0} /\ ctl' \in Controls
    BY <1>8 DEF StartReceiver, StopReceiver, Controls
  <2>3. live' \in SUBSET Producers
    <3>1. CASE StopReceiver
      BY <3>1 DEF StopReceiver
    <3>2. CASE StartReceiver
      BY <3>2, <2>1 DEF StartReceiver
    <3> QED
      BY <1>8, <3>1, <3>2
  <2> QED
    BY <1>8, <2>2, <2>3 DEF StartReceiver, StopReceiver, loopVars
<1>9. CASE StopExporter
  <2>1. idx \in Exporters
    BY <1>9, PipelineAssumption DEF StopExporter, Exporters
  <2> QED
    BY <1>9, <2>1 DEF StopExporter, loopVars, Controls
<1>10. CASE CancelLoop \/ ParentCancel
  <2>1. ToSet(accepted) \in SUBSET Items
    BY ElementOfSeq, LenProperties DEF QueueTypeOK, ToSet
  <2> QED
    BY <1>10, <2>1 DEF CancelLoop, ParentCancel, Cancel, loopVars, Controls
<1>11. CASE UNCHANGED pipeVars
  BY <1>11 DEF pipeVars, loopVars, ctlVars
<1> QED
  BY <1>1, <1>2, <1>3, <1>4, <1>5, <1>6, <1>7, <1>8, <1>9, <1>10, <1>11
     DEF PipelineNext, ConsumeLoop, Shutdown

-----------------------------------------------------------------------------
(* The receivers and the closed queue *)

(* How far Shutdown has come and which receivers are out of ConsumeTraces: *)
(* those its loop has passed, and all of them once the queue is closed.    *)
ReceiversInv ==
    /\ ctl \in {"cancel", "wait", "stopExporters", "stopped"} => closed
    /\ closed => ctl \in {"cancel", "wait", "stopExporters", "stopped", "failed"}
    /\ closed => \A r \in Registered : call[r] = None /\ r \notin live
    /\ ctl = "stopReceivers" =>
          \A i \in 1 .. Len(ReceiverSeq) :
             i < idx => call[ReceiverSeq[i]] = None /\ ReceiverSeq[i] \notin live
    /\ ReceiversNeverPanic

(* A new pipeline is open.                                                 *)
LEMMA ReceiversInit == PipelineInit => ReceiversInv
BY DEF PipelineInit, QueueInit, ReceiversInv, ReceiversNeverPanic

(* The registered receivers are the elements of the list.                  *)
LEMMA RegisteredByIndex ==
    /\ \A r \in Registered : \E i \in 1 .. Len(ReceiverSeq) : r = ReceiverSeq[i]
    /\ \A i \in 1 .. Len(ReceiverSeq) : ReceiverSeq[i] \in Registered
    /\ Registered \subseteq Producers
BY PipelineAssumption, ElementOfSeq, LenProperties DEF Registered, ToSet

(* Every step keeps ReceiversInv.                                          *)
LEMMA ReceiversStep ==
    ASSUME PipelineTypeOK, ReceiversInv, [PipelineNext]_pipeVars
    PROVE  ReceiversInv'
<1> USE DEF ReceiversInv, ReceiversNeverPanic
<1>1. ASSUME NEW p \in Producers, ConsumeTraces(p) PROVE ReceiversInv'
  <2>1. /\ UNCHANGED <<closed, ctl, idx, live>>
        /\ \A q \in Producers : call[q] = None /\ q \notin live => call'[q] = None
    BY <1>1 DEF ConsumeTraces, Call, Send, SendOnClosed, EnqueueFull, Return, ctlVars,
                PipelineTypeOK, QueueTypeOK
  <2>2. panicked' \cap Registered = {}
    BY <1>1 DEF ConsumeTraces, Call, Send, SendOnClosed, EnqueueFull
  <2>3. \A i \in 1 .. Len(ReceiverSeq) : ReceiverSeq[i] \in Producers
    BY RegisteredByIndex
  <2> QED
    BY <2>1, <2>2, <2>3, RegisteredByIndex
<1>2. CASE ConsumeLoop
  <2>1. UNCHANGED <<closed, call, panicked, ctl, idx, live>>
    BY <1>2 DEF ConsumeLoop, LoopTop, LoopTake, Dequeue, Recv, producerVars, LoopEmpty,
                LoopWake, Process, Export, ExportDone, queueVars, ctlVars
  <2> QED
    BY <2>1
<1>3. CASE StartLoop \/ StartReceiver \/ Started
  BY <1>3 DEF StartLoop, StartReceiver, Started, queueVars
<1>4. CASE BeginShutdown
  <2>1. \A i \in 1 .. Len(ReceiverSeq) : ~(i < 1)
    BY PipelineAssumption, LenProperties
  <2> QED
    BY <1>4, <2>1 DEF BeginShutdown, queueVars
<1>5. CASE StopReceiver
  <2>1. UNCHANGED <<closed, call, panicked>>
    BY <1>5 DEF StopReceiver, queueVars
  <2>2. CASE ctl' = "failed"
    BY <1>5, <2>1, <2>2 DEF StopReceiver
  <2>3. CASE ctl' # "failed"
    <3>1. /\ call[ReceiverSeq[idx]] = None /\ live' = live \ {ReceiverSeq[idx]}
          /\ idx' = idx + 1 /\ ctl' = ctl /\ ctl = "stopReceivers"
      BY <1>5, <2>3 DEF StopReceiver, Quiescent
    <3>2. \A i \in 1 .. Len(ReceiverSeq) : i < idx + 1 => i < idx \/ i = idx
      BY PipelineAssumption, LenProperties DEF PipelineTypeOK
    <3> QED
      BY <2>1, <3>1, <3>2
  <2> QED
    BY <2>2, <2>3
<1>6. CASE CloseIntake
  <2>1. /\ closed' /\ ctl' = "cancel" /\ ctl = "stopReceivers"
        /\ idx > Len(ReceiverSeq)
        /\ UNCHANGED <<call, panicked, live, idx>>
    BY <1>6 DEF CloseIntake, CloseQueue, producerVars
  <2>2. \A i \in 1 .. Len(ReceiverSeq) : i < idx
    BY <2>1, PipelineAssumption, LenProperties DEF PipelineTypeOK
  <2>3. \A r \in Registered : call[r] = None /\ r \notin live
    BY <2>1, <2>2, RegisteredByIndex
  <2> QED
    BY <2>1, <2>3
<1>7. CASE CancelLoop \/ WaitForLoop \/ StopExporter \/ EndShutdown
  BY <1>7 DEF CancelLoop, WaitForLoop, StopExporter, EndShutdown, queueVars
<1>8. CASE ParentCancel \/ UNCHANGED pipeVars
  BY <1>8 DEF ParentCancel, pipeVars, queueVars, ctlVars
<1> QED
  BY <1>1, <1>2, <1>3, <1>4, <1>5, <1>6, <1>7, <1>8 DEF PipelineNext, Shutdown

(* The state in which the other theorems are shown.                        *)
LEMMA PipelineTypeInvariant == PipelineSpec => []PipelineTypeOK
<1>1. QueueInv => QueueTypeOK
  BY DEF QueueInv
<1>2. QueueTypeOK' /\ PipelineTypeOK /\ [PipelineNext]_pipeVars => PipelineTypeOK'
  BY PipeTypeStep
<1> QED
  BY <1>1, <1>2, PipeTypeInit, PipelineUsesQueue, QueueInvariant, PTL DEF PipelineSpec

(* What Shutdown knows of the receivers holds of the specification.        *)
LEMMA ReceiversInvariant == PipelineSpec => []ReceiversInv
<1>1. PipelineTypeOK /\ ReceiversInv /\ [PipelineNext]_pipeVars => ReceiversInv'
  BY ReceiversStep
<1> QED
  BY <1>1, ReceiversInit, PipelineTypeInvariant, PTL DEF PipelineSpec

(* A receiver that Shutdown stops never meets the closed queue, in any     *)
(* interleaving of its ConsumeTraces calls with Shutdown, whichever        *)
(* receiver fails to stop.                                                 *)
THEOREM PipelineReceiversNeverPanic == PipelineSpec => []ReceiversNeverPanic
<1>1. ReceiversInv => ReceiversNeverPanic
  BY DEF ReceiversInv
<1> QED
  BY <1>1, ReceiversInvariant, PTL

-----------------------------------------------------------------------------
(* consumeLoop, against Start and Shutdown *)

(* Where the loop is, what it holds and how far Start and Shutdown are.    *)
LoopInv ==
    /\ ctl = "new" => loop = "none"
    /\ ctl \in {"stopExporters", "stopped"} => loop = "exit"
    /\ stopped # {} => loop = "exit"
    /\ td # {} <=> loop \in {"process", "export"}
    /\ \A x \in td : td = {x} /\ delivered # << >> /\ x = Last(delivered)
    /\ loop = "drain" => draining
    /\ draining => ctx # "live"

(* The loop of a new pipeline has not been launched.                       *)
LEMMA LoopInit == PipelineInit => LoopInv
BY DEF PipelineInit, LoopInv

(* What consumeLoop does keeps LoopInv.                                    *)
LEMMA LoopStepByLoop ==
    ASSUME PipelineTypeOK, LoopInv, ConsumeLoop
    PROVE  LoopInv'
<1> USE DEF LoopInv
<1>1. UNCHANGED ctlVars
  BY DEF ConsumeLoop, LoopTop, LoopTake, LoopEmpty, LoopWake, Process, Export, ExportDone
<1>2. loop \notin {"none", "exit"} /\ ctl \notin {"new", "stopExporters", "stopped"}
      /\ stopped = {}
  BY DEF ConsumeLoop, LoopTop, LoopTake, LoopEmpty, LoopWake, Process, Export, ExportDone
<1>3. CASE LoopTop \/ LoopEmpty \/ LoopWake
  BY <1>1, <1>2, <1>3 DEF LoopTop, LoopEmpty, LoopWake, StartDraining, SleepPlace,
                          queueVars, ctlVars
<1>4. CASE LoopTake
  <2>1. /\ delivered \in Seq(Items) /\ Head(ch) \in Items
        /\ delivered' = Append(delivered, Head(ch))
    BY <1>4, HeadTailProperties DEF LoopTake, Dequeue, Recv, PipelineTypeOK, QueueTypeOK
  <2>2. Last(delivered') = Head(ch) /\ delivered' # << >>
    BY <2>1, FrontOfAppend
  <2> QED
    BY <1>1, <1>2, <1>4, <2>2 DEF LoopTake, ctlVars
<1>5. CASE Process
  BY <1>1, <1>2, <1>5 DEF Process, DropOnError, After, queueVars, ctlVars
<1>6. CASE Export \/ ExportDone
  BY <1>1, <1>2, <1>6 DEF Export, ExportDone, After, queueVars, ctlVars
<1> QED
  BY <1>3, <1>4, <1>5, <1>6 DEF ConsumeLoop

(* Every step keeps LoopInv.                                               *)
LEMMA LoopStep ==
    ASSUME PipelineTypeOK, LoopInv, [PipelineNext]_pipeVars
    PROVE  LoopInv'
<1> USE DEF LoopInv
<1>1. ASSUME NEW p \in Producers, ConsumeTraces(p) PROVE LoopInv'
  <2>1. UNCHANGED <<delivered, loopVars, ctlVars>>
    BY <1>1 DEF ConsumeTraces, Call, Send, SendOnClosed, EnqueueFull, consumerVars
  <2> QED
    BY <2>1 DEF loopVars, ctlVars
<1>2. CASE StartLoop \/ StartReceiver \/ Started \/ BeginShutdown \/ StopReceiver
  BY <1>2 DEF StartLoop, StartReceiver, Started, BeginShutdown, StopReceiver, queueVars,
              loopVars
<1>3. CASE CloseIntake \/ WaitForLoop \/ StopExporter \/ EndShutdown
  BY <1>3 DEF CloseIntake, CloseQueue, consumerVars, WaitForLoop, LoopEnded,
              StopExporter, EndShutdown, queueVars, loopVars
<1>4. CASE CancelLoop \/ ParentCancel
  BY <1>4 DEF CancelLoop, ParentCancel, Cancel, queueVars, loopVars
<1>5. CASE UNCHANGED pipeVars
  BY <1>5 DEF pipeVars, queueVars, loopVars, ctlVars
<1> QED
  BY <1>1, <1>2, <1>3, <1>4, <1>5, LoopStepByLoop DEF PipelineNext, Shutdown

(* LoopInv holds of the specification.                                     *)
LEMMA LoopInvariant == PipelineSpec => []LoopInv
<1>1. PipelineTypeOK /\ LoopInv /\ [PipelineNext]_pipeVars => LoopInv'
  BY LoopStep
<1> QED
  BY <1>1, LoopInit, PipelineTypeInvariant, PTL DEF PipelineSpec

(* No exporter is called after its Shutdown: Shutdown waits for the loop   *)
(* to end, and a loop that has ended does not run again.                   *)
THEOREM PipelineNoExportAfterStop == PipelineSpec => NoExportAfterStop
<1>1. ASSUME LoopInv, [PipelineNext]_pipeVars
      PROVE  [\A e \in stopped : out'[e] = out[e]]_pipeVars
  <2>1. CASE Export
    BY <1>1, <2>1 DEF Export, LoopInv
  <2>2. CASE ~Export
    <3>1. ASSUME PipelineNext PROVE out' = out
      BY <2>2, <3>1 DEF PipelineNext, ConsumeTraces, ConsumeLoop, LoopTop, LoopTake,
           LoopEmpty, LoopWake, Process, ExportDone, StartLoop, StartReceiver, Started,
           BeginShutdown, Shutdown, StopReceiver, CloseIntake, CancelLoop, WaitForLoop,
           StopExporter, EndShutdown, ParentCancel, loopVars
    <3> QED
      BY <1>1, <3>1
  <2> QED
    BY <2>1, <2>2
<1> QED
  BY <1>1, LoopInvariant, PTL DEF PipelineSpec, NoExportAfterStop

-----------------------------------------------------------------------------
(* What the loop owes when it ends *)

(* The items owed are fixed by the first cancellation; the loop ends only  *)
(* on an empty queue that it finds after that.                             *)
OwedInv ==
    /\ ctx = "live" => owed = {}
    /\ ctx = "shutdown" => closed
    /\ owed \subseteq ToSet(accepted)
    /\ loop = "exit" =>
          /\ ctx # "live"
          /\ owed \subseteq ToSet(delivered)
          /\ ctx = "shutdown" => delivered = accepted

(* A new pipeline owes nothing.                                            *)
LEMMA OwedInit == PipelineInit => OwedInv
BY DEF PipelineInit, OwedInv

(* Every step keeps OwedInv.                                               *)
LEMMA OwedStep ==
    ASSUME QueueInv, LoopInv, ReceiversInv, OwedInv, [PipelineNext]_pipeVars
    PROVE  OwedInv'
<1>1. /\ ToSet(accepted) \subseteq ToSet(accepted')
      /\ ToSet(delivered) \subseteq ToSet(delivered')
      /\ closed => closed' /\ accepted' = accepted
  BY PipeStepIsQueueStep, QueueOnlyGrows
<1>2. ASSUME UNCHANGED <<ctx, owed>>, loop = "exit" => delivered' = delivered,
             loop' = "exit" => loop = "exit"
      PROVE  OwedInv'
  BY <1>1, <1>2 DEF OwedInv
<1>3. ASSUME NEW p \in Producers, ConsumeTraces(p) PROVE OwedInv'
  BY <1>2, <1>3 DEF ConsumeTraces, Call, Send, SendOnClosed, EnqueueFull, consumerVars,
                    loopVars, ctlVars
<1>4. CASE LoopEmpty
  <2>1. delivered = accepted
    BY <1>4, EmptyIsDelivered DEF LoopEmpty
  <2>2. loop' = "exit" => draining
    BY <1>4 DEF LoopEmpty, LoopInv, SleepPlace
  <2> QED
    BY <1>1, <1>4, <2>1, <2>2 DEF LoopEmpty, LoopInv, OwedInv, ctlVars, queueVars
<1>5. CASE LoopTop \/ LoopTake \/ LoopWake \/ Process \/ Export \/ ExportDone
  <2>1. loop # "exit" /\ loop' # "exit" /\ UNCHANGED <<ctx, owed>>
    BY <1>5 DEF LoopTop, LoopTake, LoopWake, Process, Export, ExportDone, StartDraining,
                DropOnError, After, ctlVars
  <2> QED
    BY <1>2, <2>1
<1>6. CASE CancelLoop \/ ParentCancel
  <2>1. UNCHANGED <<closed, accepted, delivered, loop>>
    BY <1>6 DEF CancelLoop, ParentCancel, queueVars, loopVars
  <2>2. CASE ctx = "live"
    <3>1. ctx' # "live" /\ owed' = ToSet(accepted) /\ (ctx' = "shutdown" => closed)
      BY <1>6, <2>2 DEF CancelLoop, ParentCancel, Cancel, ReceiversInv
    <3> QED
      BY <2>1, <2>2, <3>1 DEF OwedInv
  <2>3. CASE ctx # "live"
    BY <1>6, <2>1, <2>3 DEF CancelLoop, ParentCancel, Cancel, OwedInv
  <2> QED
    BY <2>2, <2>3
<1>7. CASE \/ StartLoop \/ StartReceiver \/ Started \/ BeginShutdown \/ StopReceiver
           \/ CloseIntake \/ WaitForLoop \/ StopExporter \/ EndShutdown
           \/ UNCHANGED pipeVars
  <2>1. UNCHANGED <<ctx, owed, delivered>> /\ (loop' = "exit" => loop = "exit")
    BY <1>7 DEF StartLoop, StartReceiver, Started, BeginShutdown, StopReceiver,
                CloseIntake, CloseQueue, consumerVars, WaitForLoop, StopExporter,
                EndShutdown, pipeVars, queueVars, loopVars, ctlVars
  <2> QED
    BY <1>2, <2>1
<1> QED
  BY <1>3, <1>4, <1>5, <1>6, <1>7 DEF PipelineNext, ConsumeLoop, Shutdown

(* OwedInv holds of the specification.                                     *)
LEMMA OwedInvariant == PipelineSpec => []OwedInv
<1>1. QueueInv /\ LoopInv /\ ReceiversInv /\ OwedInv /\ [PipelineNext]_pipeVars => OwedInv'
  BY OwedStep
<1> QED
  BY <1>1, OwedInit, LoopInvariant, ReceiversInvariant, PipelineUsesQueue, QueueInvariant,
     PTL DEF PipelineSpec

(* consumeLoop never ends before it has handled what was accepted before   *)
(* it was cancelled, which is everything when Shutdown cancels it.         *)
THEOREM PipelineOwedItemsAreHandled == PipelineSpec => []OwedItemsAreHandled
<1>1. LoopInv /\ OwedInv => OwedItemsAreHandled
  BY DEF LoopInv, OwedInv, OwedItemsAreHandled
<1> QED
  BY <1>1, LoopInvariant, OwedInvariant, PTL

-----------------------------------------------------------------------------
(* Refinement of FifoDelivery *)

(* Without an item in processAndExport, all dequeued items are handled.    *)
LEMMA NothingCurrent == td = {} => Handled = delivered
BY DEF Handled

(* The item in processAndExport is the last one dequeued, and it is new.   *)
LEMMA CurrentItem ==
    ASSUME QueueInv, LoopInv, NEW x \in td
    PROVE  /\ td = {x} /\ x \in Items
           /\ Handled \in Seq(Items)
           /\ delivered = Append(Handled, x)
           /\ x \notin ToSet(Handled)
<1>1. /\ td = {x} /\ delivered # << >> /\ x = Last(delivered)
      /\ Handled = Front(delivered)
  BY DEF LoopInv, Handled
<1>2. /\ delivered \in Seq(Items) /\ ch \in Seq(Items)
      /\ accepted = delivered \o ch /\ IsInjective(accepted)
  BY DEF QueueInv, QueueTypeOK, FifoExactlyOnce
<1>3. Handled \in Seq(Items) /\ x \in Items /\ delivered = Append(Handled, x)
  BY <1>1, <1>2, FrontAndLast
<1>4. IsInjective(delivered)
  BY <1>2, InjectiveOfConcat
<1>5. x \notin ToSet(Handled)
  BY <1>3, <1>4, InjectiveOfAppend
<1> QED
  BY <1>1, <1>3, <1>5

(* Dequeuing an item does not change what has been handled.                *)
LEMMA TakeKeepsHandled ==
    ASSUME QueueInv, LoopInv, LoopTake
    PROVE  Handled' = Handled
<1>1. /\ td = {} /\ td' # {} /\ delivered' = Append(delivered, Head(ch))
      /\ delivered \in Seq(Items) /\ Head(ch) \in Items
  BY HeadTailProperties
     DEF LoopInv, LoopTake, Dequeue, Recv, QueueInv, QueueTypeOK
<1>2. Front(delivered') = delivered
  BY <1>1, FrontOfAppend
<1> QED
  BY <1>1, <1>2 DEF Handled

(* Every step of the pipeline is a step of the abstract buffer or leaves   *)
(* it alone: the item leaves the buffer when processAndExport returns.     *)
LEMMA PipeFifoStep ==
    ASSUME QueueInv, PipelineTypeOK, LoopInv, ReceiversInv, OwedInv, [PipelineNext]_pipeVars
    PROVE  [PipeFifo!FifoNext]_PipeFifo!fifoVars
<1> DEFINE Finished == ctl = "stopped" /\ ctx = "shutdown"
<1>1. ASSUME UNCHANGED <<closed, accepted>>, Handled' = Handled, Finished' = Finished
      PROVE  UNCHANGED PipeFifo!fifoVars
  BY <1>1 DEF PipeFifo!fifoVars
<1>2. ASSUME NEW p \in Producers, ConsumeTraces(p)
      PROVE  PipeFifo!Accept \/ UNCHANGED PipeFifo!fifoVars
  <2>1. Handled' = Handled /\ Finished' = Finished /\ closed' = closed
    BY <1>2 DEF ConsumeTraces, Call, Send, SendOnClosed, EnqueueFull, consumerVars,
                loopVars, ctlVars, Handled
  <2>2. CASE Send(p)
    <3>1. /\ accepted \in Seq(Items) /\ call[p].item \in Items
          /\ accepted' = Append(accepted, call[p].item) /\ ~closed
      BY <2>2 DEF Send, ChanOpen, QueueInv, QueueTypeOK, Calls
    <3>2. IsPrefix(accepted, accepted')
      BY <3>1, PrefixOfAppend
    <3> QED
      BY <2>1, <3>1, <3>2 DEF PipeFifo!Accept, PipeFifo!IsPrefix, IsPrefix
  <2>3. CASE ~Send(p)
    <3>1. accepted' = accepted
      BY <1>2, <2>3 DEF ConsumeTraces, Call, SendOnClosed, EnqueueFull
    <3> QED
      BY <1>1, <2>1, <3>1
  <2> QED
    BY <2>2, <2>3
<1>3. CASE LoopTake
  <2>1. UNCHANGED <<closed, accepted>> /\ Finished' = Finished
    BY <1>3 DEF LoopTake, Dequeue, Recv, producerVars, ctlVars
  <2> QED
    BY <1>1, <1>3, <2>1, TakeKeepsHandled
<1>4. ASSUME td' = {}, td # {}, UNCHANGED <<queueVars, ctlVars>>
      PROVE  PipeFifo!Deliver
  <2>1. PICK x \in td : TRUE
    BY <1>4
  <2>2. /\ Handled \in Seq(Items) /\ x \in Items /\ delivered = Append(Handled, x)
    BY CurrentItem
  <2>3. Handled' = delivered
    BY <1>4 DEF Handled, queueVars
  <2>4. IsPrefix(Handled, Handled')
    BY <2>2, <2>3, PrefixOfAppend
  <2>5. delivered \in Seq(Items) /\ ch \in Seq(Items) /\ accepted = delivered \o ch
    BY DEF QueueInv, QueueTypeOK, FifoExactlyOnce
  <2>6. IsPrefix(Handled', accepted)
    BY <2>3, <2>5, PrefixOfConcat
  <2>7. ~Finished /\ ~Finished'
    BY <1>4 DEF LoopInv, ctlVars
  <2>8. UNCHANGED <<closed, accepted>>
    BY <1>4 DEF queueVars
  <2> QED
    BY <2>4, <2>6, <2>7, <2>8 DEF PipeFifo!Deliver, PipeFifo!IsPrefix, IsPrefix
<1>5. ASSUME UNCHANGED <<queueVars, td>>, Finished' = Finished
      PROVE  UNCHANGED PipeFifo!fifoVars
  BY <1>1, <1>5 DEF Handled, queueVars
<1>6. CASE LoopTop \/ LoopEmpty \/ LoopWake \/ Process \/ Export \/ ExportDone
  <2>1. /\ UNCHANGED <<queueVars, ctlVars>>
        /\ td' = td \/ (td' = {} /\ td # {})
    BY <1>6 DEF LoopTop, LoopEmpty, LoopWake, Process, DropOnError, Export, ExportDone,
                LoopInv
  <2>2. Finished' = Finished
    BY <2>1 DEF ctlVars
  <2> QED
    BY <1>4, <1>5, <2>1, <2>2 DEF PipeFifo!FifoNext
<1>7. CASE CloseIntake
  <2>1. /\ closed' = TRUE /\ UNCHANGED <<accepted, delivered, td>>
        /\ ~Finished /\ ~Finished' /\ ctl = "stopReceivers"
    BY <1>7 DEF CloseIntake, CloseQueue, producerVars, consumerVars, loopVars
  <2>2. closed = FALSE
    BY <2>1 DEF ReceiversInv, QueueInv, QueueTypeOK
  <2> QED
    BY <2>1, <2>2 DEF PipeFifo!FifoNext, PipeFifo!Close, Handled
<1>8. CASE EndShutdown
  <2>1. /\ UNCHANGED <<queueVars, td, ctx>> /\ loop = "exit" /\ td = {} /\ closed
        /\ ctl' = "stopped" /\ ctl # "stopped"
    BY <1>8 DEF EndShutdown, LoopInv, loopVars, ReceiversInv
  <2>2. CASE ctx = "shutdown"
    <3>1. Handled = delivered /\ delivered = accepted
      BY <2>1, <2>2 DEF OwedInv, Handled
    <3>2. Handled' = Handled /\ UNCHANGED <<closed, accepted>>
      BY <2>1 DEF Handled, queueVars
    <3> QED
      BY <2>1, <2>2, <3>1, <3>2 DEF PipeFifo!FifoNext, PipeFifo!Finish
  <2>3. CASE ctx # "shutdown"
    BY <1>5, <2>1, <2>3
  <2> QED
    BY <2>2, <2>3
<1>9. CASE \/ StartLoop \/ StartReceiver \/ Started \/ BeginShutdown \/ StopReceiver
           \/ CancelLoop \/ WaitForLoop \/ StopExporter \/ ParentCancel
           \/ UNCHANGED pipeVars
  <2>1. UNCHANGED <<queueVars, td>>
    BY <1>9 DEF StartLoop, StartReceiver, Started, BeginShutdown, StopReceiver,
                CancelLoop, WaitForLoop, StopExporter, ParentCancel, pipeVars, loopVars
  <2>2. Finished' = Finished
    BY <1>9 DEF StartLoop, StartReceiver, Started, BeginShutdown, StopReceiver, Cancel,
                CancelLoop, WaitForLoop, StopExporter, ParentCancel, pipeVars, ctlVars
  <2> QED
    BY <1>5, <2>1, <2>2
<1> HIDE DEF Finished
<1> QED
  BY <1>2, <1>3, <1>6, <1>7, <1>8, <1>9
     DEF PipelineNext, ConsumeLoop, Shutdown, PipeFifo!FifoNext

(* The pipeline as a whole implements the abstract FIFO buffer: what       *)
(* ConsumeTraces took in is handled once and in order, and Shutdown says   *)
(* that it is done only when nothing is left.                              *)
THEOREM PipelineRefinesFifo == PipelineSpec => PipelineImplementsFifo
<1>1. PipelineInit => PipeFifo!FifoInit
  BY DEF PipelineInit, QueueInit, PipeFifo!FifoInit, Handled
<1>2. QueueInv /\ PipelineTypeOK /\ LoopInv /\ ReceiversInv /\ OwedInv
        /\ [PipelineNext]_pipeVars => [PipeFifo!FifoNext]_PipeFifo!fifoVars
  BY PipeFifoStep
<1> QED
  BY <1>1, <1>2, PipelineTypeInvariant, LoopInvariant, ReceiversInvariant, OwedInvariant,
     PipelineUsesQueue, QueueInvariant, PTL
     DEF PipelineSpec, PipelineImplementsFifo, PipeFifo!FifoSpec

-----------------------------------------------------------------------------
(* Fan-out *)

(* Exporter e has been given what was let through of seq, in its order.    *)
GivenInOrder(e, seq) ==
    /\ ToSet(out[e]) = ToSet(seq) \ dropped
    /\ IsInjective(out[e])
    /\ InOrderOf(out[e], seq)

(* Only handled items were dropped; each exporter is up to date.           *)
FanOutInv ==
    /\ dropped \subseteq ToSet(Handled)
    /\ \A e \in Exporters : GivenInOrder(e, Offered(e))

(* No exporter of a new pipeline has been called.                          *)
LEMMA FanOutInit == PipelineInit => FanOutInv
<1> SUFFICES ASSUME PipelineInit PROVE FanOutInv
  OBVIOUS
<1>1. ToSet(<< >>) = {} /\ IsInjective(<< >>) /\ InOrderOf(<< >>, << >>)
  BY DEF ToSet, IsInjective, InOrderOf
<1>2. Handled = << >> /\ dropped = {} /\ loop # "export"
  BY DEF PipelineInit, QueueInit, Handled
<1>3. \A e \in Exporters : out[e] = << >> /\ Offered(e) = << >>
  BY <1>2 DEF PipelineInit, Offered
<1> QED
  BY <1>1, <1>2, <1>3 DEF FanOutInv, GivenInOrder

(* Every step keeps FanOutInv.                                             *)
LEMMA FanOutStep ==
    ASSUME QueueInv, PipelineTypeOK, LoopInv, FanOutInv, [PipelineNext]_pipeVars
    PROVE  FanOutInv'
<1>1. ASSUME UNCHANGED <<dropped, out>>, Handled' = Handled,
             \A e \in Exporters : Offered(e)' = Offered(e)
      PROVE  FanOutInv'
  BY <1>1 DEF FanOutInv, GivenInOrder
<1>2. ASSUME UNCHANGED <<dropped, out, delivered, td, next>>,
             (loop = "export") <=> (loop' = "export")
      PROVE  FanOutInv'
  BY <1>1, <1>2 DEF Handled, Offered
<1>3. ASSUME NEW p \in Producers, ConsumeTraces(p) PROVE FanOutInv'
  BY <1>2, <1>3 DEF ConsumeTraces, Call, Send, SendOnClosed, EnqueueFull, consumerVars,
                    loopVars
<1>4. CASE LoopTop \/ LoopEmpty \/ LoopWake
  BY <1>2, <1>4 DEF LoopTop, LoopEmpty, LoopWake, StartDraining, SleepPlace, queueVars
<1>5. CASE LoopTake
  <2>1. loop # "export" /\ loop' # "export" /\ UNCHANGED <<dropped, out>>
    BY <1>5 DEF LoopTake
  <2> QED
    BY <1>1, <1>5, <2>1, TakeKeepsHandled DEF Offered
<1>6. CASE Process
  <2>1. PICK x \in td : TRUE
    BY <1>6 DEF Process, LoopInv
  <2>2. /\ td = {x} /\ x \in Items /\ Handled \in Seq(Items)
        /\ delivered = Append(Handled, x) /\ x \notin ToSet(Handled)
    BY CurrentItem
  <2>3. loop = "process" /\ UNCHANGED <<delivered, out>>
    BY <1>6 DEF Process, queueVars
  <2>4. CASE dropped' = dropped \cup td /\ DropOnError
    <3>1. /\ dropped' = dropped \cup {x} /\ Handled' = delivered
          /\ \A e \in Exporters : Offered(e) = Handled /\ Offered(e)' = delivered
      BY <2>2, <2>3, <2>4 DEF DropOnError, After, Handled, Offered
    <3>2. ToSet(delivered) = ToSet(Handled) \cup {x}
      BY <2>2, ToSetAppend
    <3>3. ASSUME NEW e \in Exporters PROVE GivenInOrder(e, Offered(e))'
      <4>1. /\ out'[e] = out[e] /\ out[e] \in Seq(Items)
            /\ ToSet(out[e]) = ToSet(Handled) \ dropped
            /\ IsInjective(out[e]) /\ InOrderOf(out[e], Handled)
        BY <2>3, <3>1 DEF FanOutInv, GivenInOrder, PipelineTypeOK
      <4>2. InOrderOf(out[e], delivered)
        BY <2>2, <4>1, InOrderOfLonger
      <4>3. ToSet(out[e]) = ToSet(delivered) \ (dropped \cup {x})
        BY <2>2, <3>2, <4>1
      <4> QED
        BY <3>1, <4>1, <4>2, <4>3 DEF GivenInOrder
    <3>4. dropped' \subseteq ToSet(Handled)'
      BY <3>1, <3>2 DEF FanOutInv
    <3> QED
      BY <3>3, <3>4 DEF FanOutInv
  <2>5. CASE next' = 1 /\ loop' = "export" /\ UNCHANGED <<td, dropped>>
    <3>1. \A e \in Exporters : ~(e < 1)
      BY PipelineAssumption DEF Exporters
    <3>2. Handled' = Handled
      BY <2>3, <2>5 DEF Handled
    <3>3. \A e \in Exporters : Offered(e)' = Offered(e)
      BY <2>3, <2>5, <3>1, <3>2 DEF Offered
    <3> QED
      BY <1>1, <2>3, <2>5, <3>2, <3>3
  <2> QED
    BY <1>6, <2>4, <2>5 DEF Process
<1>7. CASE Export
  <2>1. PICK x \in td : out' = [out EXCEPT ![next] = Append(@, x)]
    BY <1>7 DEF Export
  <2>2. /\ td = {x} /\ x \in Items /\ Handled \in Seq(Items)
        /\ delivered = Append(Handled, x) /\ x \notin ToSet(Handled)
    BY CurrentItem
  <2>3. /\ loop = "export" /\ loop' = "export" /\ next \in Exporters /\ next' = next + 1
        /\ UNCHANGED <<delivered, td, dropped>>
    BY <1>7, PipelineAssumption DEF Export, queueVars, Exporters, PipelineTypeOK
  <2>4. Handled' = Handled
    BY <2>3 DEF Handled
  <2>5. ASSUME NEW e \in Exporters, e # next PROVE GivenInOrder(e, Offered(e))'
    <3>1. out'[e] = out[e]
      BY <2>1, <2>5 DEF PipelineTypeOK
    <3>2. e < next + 1 <=> e < next
      BY <2>3, <2>5, PipelineAssumption DEF Exporters
    <3>3. Offered(e)' = Offered(e)
      BY <2>3, <2>4, <3>2 DEF Offered
    <3> QED
      BY <2>3, <3>1, <3>3 DEF FanOutInv, GivenInOrder
  <2>6. GivenInOrder(next, Offered(next))
    BY <2>3 DEF FanOutInv
  <2>7. /\ Offered(next) = Handled
        /\ \A e \in Exporters : e = next => Offered(e)' = delivered
    <3>1. next < next + 1 /\ ~(next < next)
      BY <2>3, PipelineAssumption DEF Exporters
    <3> QED
      BY <2>3, <3>1 DEF Offered
  <2>8. ASSUME NEW e \in Exporters, e = next PROVE GivenInOrder(e, Offered(e))'
    <3>1. /\ out[e] \in Seq(Items) /\ out'[e] = Append(out[e], x)
          /\ ToSet(out[e]) = ToSet(Handled) \ dropped
          /\ IsInjective(out[e]) /\ InOrderOf(out[e], Handled)
      BY <2>1, <2>6, <2>7, <2>8 DEF GivenInOrder, PipelineTypeOK
    <3>2. x \notin dropped /\ x \notin ToSet(out[e])
      BY <2>2, <3>1 DEF FanOutInv
    <3>3. /\ ToSet(out'[e]) = ToSet(out[e]) \cup {x}
          /\ ToSet(delivered) = ToSet(Handled) \cup {x}
      BY <2>2, <3>1, ToSetAppend
    <3>4. ToSet(out'[e]) = ToSet(delivered) \ dropped
      BY <3>1, <3>2, <3>3
    <3>5. IsInjective(out'[e])
      BY <2>2, <3>1, <3>2, InjectiveAppend
    <3>6. ToSet(out[e]) \subseteq ToSet(Handled)
      BY <3>1
    <3>7. InOrderOf(out'[e], delivered)
      BY <2>2, <3>1, <3>6, InOrderOfAppend
    <3> QED
      BY <2>3, <2>7, <2>8, <3>4, <3>5, <3>7 DEF GivenInOrder
  <2> QED
    BY <2>3, <2>4, <2>5, <2>8 DEF FanOutInv
<1>8. CASE ExportDone
  <2>1. PICK x \in td : TRUE
    BY <1>8 DEF ExportDone, LoopInv
  <2>2. /\ x \in Items /\ Handled \in Seq(Items) /\ delivered = Append(Handled, x)
    BY CurrentItem
  <2>3. /\ loop = "export" /\ loop' # "export" /\ next > NExporters /\ td' = {}
        /\ UNCHANGED <<delivered, dropped, out>>
    BY <1>8 DEF ExportDone, After, queueVars
  <2>4. Handled' = delivered
    BY <2>3 DEF Handled
  <2>5. \A e \in Exporters : e < next
    BY <2>3, PipelineAssumption DEF Exporters, PipelineTypeOK
  <2>6. \A e \in Exporters : Offered(e) = delivered /\ Offered(e)' = delivered
    BY <2>3, <2>4, <2>5 DEF Offered
  <2>7. ToSet(delivered) = ToSet(Handled) \cup {x}
    BY <2>2, ToSetAppend
  <2> QED
    BY <2>3, <2>4, <2>6, <2>7 DEF FanOutInv, GivenInOrder
<1>9. CASE StartLoop
  BY <1>2, <1>9 DEF StartLoop, LoopInv, queueVars
<1>10. CASE \/ StartReceiver \/ Started \/ BeginShutdown \/ StopReceiver \/ CloseIntake
            \/ CancelLoop \/ WaitForLoop \/ StopExporter \/ EndShutdown \/ ParentCancel
            \/ UNCHANGED pipeVars
  <2>1. UNCHANGED <<dropped, out, delivered, td, next, loop>>
    BY <1>10 DEF StartReceiver, Started, BeginShutdown, StopReceiver, CloseIntake,
                 CloseQueue, consumerVars, CancelLoop, WaitForLoop, StopExporter,
                 EndShutdown, ParentCancel, pipeVars, queueVars, loopVars
  <2> QED
    BY <1>2, <2>1
<1> QED
  BY <1>3, <1>4, <1>5, <1>6, <1>7, <1>8, <1>9, <1>10
     DEF PipelineNext, ConsumeLoop, Shutdown

(* Every exporter is given what the processors let through, once each and  *)
(* in the order of the queue, for any number of exporters.                 *)
THEOREM PipelineFansOutInOrder == PipelineSpec => []FanOutInOrder
<1>1. QueueInv /\ PipelineTypeOK /\ LoopInv /\ FanOutInv /\ [PipelineNext]_pipeVars
        => FanOutInv'
  BY FanOutStep
<1>2. PipelineTypeOK /\ FanOutInv => FanOutInOrder
  BY DEF FanOutInv, GivenInOrder, FanOutInOrder
<1> QED
  BY <1>1, <1>2, FanOutInit, PipelineTypeInvariant, LoopInvariant, PipelineUsesQueue,
     QueueInvariant, PTL DEF PipelineSpec
=============================================================================
