---------------------------- MODULE BoundedQueue ----------------------------
(***************************************************************************)
(* internal/queue/bounded.go: a bounded FIFO queue made of a Go channel, a *)
(* flag `closed` and a mutex that guards the flag only.  Enqueue and       *)
(* EnqueueWait read the flag under the mutex and send after releasing it,  *)
(* so a call is two steps: Call reads the flag, one of Send, SendOnClosed, *)
(* EnqueueFull and EnqueueWaitCancelled ends it.                           *)
(*                                                                         *)
(* The receiving operations are one step per channel operation.  WorkerPool*)
(* and Pipeline extend this module and receive through Recv.               *)
(***************************************************************************)
EXTENDS Integers, Sequences, SequencesExt

CONSTANTS
    Producers,  \* goroutines that call Enqueue and EnqueueWait
    Consumers,  \* goroutines that receive
    Items,      \* distinct payloads; each is offered to the queue once
    Capacity,   \* the argument of NewBoundedQueue
    MaxDst      \* bound: longest slice passed to DrainTo

ASSUME QueueAssumption == Capacity \in Int /\ MaxDst \in Nat

(* NewBoundedQueue: a capacity that is not positive becomes 1.             *)
Cap == IF Capacity <= 0 THEN 1 ELSE Capacity

VARIABLES
    ch,         \* the channel's buffer, oldest item first
    closed,     \* BoundedQueue.closed; close(ch) happens in the same step
    call,       \* producer -> the call that has passed its closed check
    refused,    \* items whose call answered false or an error
    panicked,   \* producers whose send hit the closed channel
    accepted,   \* history: items whose send succeeded, in order
    delivered,  \* history: items received, in order
    drain,      \* consumer -> slots left in the dst of a running DrainTo
    phantom     \* consumer operations that returned the zero value as an item

queueVars ==
    <<ch, closed, call, refused, panicked, accepted, delivered, drain, phantom>>

Ops == {"Enqueue", "EnqueueWait"}
Calls == [op : Ops, item : Items]
None == [op |-> "none"]
ReceiveOps == {"DequeueWait", "DrainTo"}

QueueTypeOK ==
    /\ ch \in Seq(Items)
    /\ closed \in BOOLEAN
    /\ call \in [Producers -> Calls \cup {None}]
    /\ refused \in SUBSET Items
    /\ panicked \in SUBSET Producers
    /\ accepted \in Seq(Items)
    /\ delivered \in Seq(Items)
    /\ drain \in [Consumers -> 0 .. MaxDst]
    /\ phantom \in SUBSET ReceiveOps

QueueInit ==
    /\ ch = << >>
    /\ closed = FALSE
    /\ call = [p \in Producers |-> None]
    /\ refused = {}
    /\ panicked = {}
    /\ accepted = << >>
    /\ delivered = << >>
    /\ drain = [c \in Consumers |-> 0]
    /\ phantom = {}

-----------------------------------------------------------------------------
(* Producers *)

producerVars == <<call, refused, panicked, accepted>>
consumerVars == <<delivered, drain, phantom>>

InFlight == {call[p].item : p \in {q \in Producers : call[q] # None}}

Fresh(x) == x \notin ToSet(accepted) \cup refused \cup InFlight

(* The closed check, under the mutex: a closed queue answers at once.      *)
Call(p, op, x) ==
    /\ call[p] = None
    /\ p \notin panicked
    /\ Fresh(x)
    /\ IF closed
       THEN refused' = refused \cup {x} /\ UNCHANGED call
       ELSE call' = [call EXCEPT ![p] = [op |-> op, item |-> x]] /\ UNCHANGED refused
    /\ UNCHANGED <<ch, closed, panicked, accepted, consumerVars>>

ResendsOnSuccess(p) == UNCHANGED call  \* mutant of Return: no return after the send
Return(p) == call' = [call EXCEPT ![p] = None]

RoomForOneMore == Len(ch) <= Cap       \* mutant of HasRoom: buffer one too long
HasRoom == Len(ch) < Cap

ChanOpen == ~closed

(* The select takes the send case: the channel is open and has room.       *)
Send(p) ==
    /\ call[p] # None
    /\ ChanOpen
    /\ HasRoom
    /\ ch' = Append(ch, call[p].item)
    /\ accepted' = Append(accepted, call[p].item)
    /\ Return(p)
    /\ UNCHANGED <<closed, refused, panicked, consumerVars>>

(* A send on a closed channel panics, in a blocked select too.             *)
SendOnClosed(p) ==
    /\ call[p] # None
    /\ closed
    /\ panicked' = panicked \cup {p}
    /\ Return(p)
    /\ UNCHANGED <<ch, closed, refused, accepted, consumerVars>>

(* Enqueue takes the default case only when the send cannot proceed.       *)
EnqueueFull(p) ==
    /\ call[p] # None
    /\ call[p].op = "Enqueue"
    /\ ChanOpen
    /\ ~HasRoom
    /\ refused' = refused \cup {call[p].item}
    /\ Return(p)
    /\ UNCHANGED <<ch, closed, panicked, accepted, consumerVars>>

(* ctx.Done() is ready; select may take it even when the send is ready.    *)
EnqueueWaitCancelled(p) ==
    /\ call[p] # None
    /\ call[p].op = "EnqueueWait"
    /\ refused' = refused \cup {call[p].item}
    /\ Return(p)
    /\ UNCHANGED <<ch, closed, panicked, accepted, consumerVars>>

Produce(p) ==
    \/ \E op \in Ops, x \in Items : Call(p, op, x)
    \/ Send(p)
    \/ SendOnClosed(p)
    \/ EnqueueFull(p)
    \/ EnqueueWaitCancelled(p)

-----------------------------------------------------------------------------
(* Consumers *)

RecvNewest ==                          \* mutant of Recv: a stack, not a queue
    /\ ch # << >>
    /\ ch' = Front(ch)
    /\ delivered' = Append(delivered, Last(ch))
    /\ UNCHANGED <<closed, producerVars>>

(* A receive that finds an item, on an open or on a closed channel.        *)
Recv ==
    /\ ch # << >>
    /\ ch' = Tail(ch)
    /\ delivered' = Append(delivered, Head(ch))
    /\ UNCHANGED <<closed, producerVars>>

(* Dequeue and DequeueWait when an item is there.                          *)
Dequeue(c) ==
    /\ drain[c] = 0
    /\ Recv
    /\ UNCHANGED <<drain, phantom>>

ClosedFlag == closed                   \* mutant of ClosedAndEmpty: items not looked at
ClosedAndEmpty == closed /\ ch = << >>

(* DequeueWait does not look at `ok`: on a closed, empty channel it        *)
(* returns the zero value and a nil error.                                 *)
DequeueWaitClosed(c) ==
    /\ drain[c] = 0
    /\ ClosedAndEmpty
    /\ phantom' = phantom \cup {"DequeueWait"}
    /\ UNCHANGED <<ch, closed, producerVars, delivered, drain>>

SlotLeft(c) == drain[c] > 0

(* DrainTo(dst) with len(dst) = n.                                         *)
StartDrain(c, n) ==
    /\ drain[c] = 0
    /\ drain' = [drain EXCEPT ![c] = n]
    /\ UNCHANGED <<ch, closed, producerVars, delivered, phantom>>

DrainItem(c) ==
    /\ SlotLeft(c)
    /\ Recv
    /\ drain' = [drain EXCEPT ![c] = @ - 1]
    /\ UNCHANGED phantom

(* DrainTo on a closed, empty channel receives zero values and counts them.*)
DrainClosed(c) ==
    /\ SlotLeft(c)
    /\ ClosedAndEmpty
    /\ drain' = [drain EXCEPT ![c] = @ - 1]
    /\ phantom' = phantom \cup {"DrainTo"}
    /\ UNCHANGED <<ch, closed, producerVars, delivered>>

(* The default case: open and empty.                                       *)
DrainEmpty(c) ==
    /\ SlotLeft(c)
    /\ ~closed
    /\ ch = << >>
    /\ drain' = [drain EXCEPT ![c] = 0]
    /\ UNCHANGED <<ch, closed, producerVars, delivered, phantom>>

Consume(c) ==
    \/ Dequeue(c)
    \/ DequeueWaitClosed(c)
    \/ \E n \in 1 .. MaxDst : StartDrain(c, n)
    \/ DrainItem(c)
    \/ DrainClosed(c)
    \/ DrainEmpty(c)

(* Close: idempotent, sets the flag and closes the channel under the mutex.*)
CloseQueue ==
    /\ closed' = TRUE
    /\ UNCHANGED <<ch, producerVars, consumerVars>>

QueueNext ==
    \/ \E p \in Producers : Produce(p)
    \/ \E c \in Consumers : Consume(c)
    \/ CloseQueue

QueueSpec == QueueInit /\ [][QueueNext]_queueVars

-----------------------------------------------------------------------------
(* Correctness *)

(* Every item that Enqueue or EnqueueWait reported as taken is either      *)
(* still buffered or was received once, in the order of the sends, and the *)
(* buffer never outgrows the channel's capacity.                           *)
FifoExactlyOnce ==
    /\ accepted = delivered \o ch
    /\ Len(ch) <= Cap
    /\ IsInjective(accepted)

(* The answer of Enqueue and EnqueueWait is the truth: an item whose call  *)
(* answered false or an error was not, and will not be, received; an item  *)
(* whose call is still open has not entered the channel.                   *)
AnswersAreTruthful ==
    /\ refused \cap ToSet(accepted) = {}
    /\ InFlight \cap (refused \cup ToSet(accepted)) = {}
    /\ \A p, q \in Producers :
          p # q /\ call[p] # None /\ call[q] # None => call[p].item # call[q].item

(* DequeueWait and DrainTo ignore `ok` and may pass off the zero value as  *)
(* an item, but only when the queue is closed and drained for good: a      *)
(* caller that stops at a zero value leaves nothing behind.                *)
ZeroMeansDrained == phantom # {} => closed /\ ch = << >> /\ delivered = accepted

(* "After closing, Enqueue and EnqueueWait will fail": once Close has run  *)
(* nothing enters the channel, whatever the open calls do, and the queue   *)
(* is never opened again.                                                  *)
CloseStopsIntake == [][closed => closed' /\ accepted' = accepted]_queueVars

(* The queue implements the abstract buffer.  It never tells anyone that   *)
(* it is drained: that is left to its owners, WorkerPool and Pipeline.     *)
Fifo == INSTANCE FifoDelivery WITH
            open <- ~closed, done <- delivered, finished <- FALSE
ImplementsFifo == Fifo!FifoSpec

(* bounded.go:26-27, "Returns false if the queue is full or closed.": a    *)
(* call on a queue that is being closed answers false; it does not panic.  *)
EnqueueNeverPanics == panicked = {}
=============================================================================
