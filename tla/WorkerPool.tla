----------------------------- MODULE WorkerPool -----------------------------
(***************************************************************************)
(* internal/queue/workerpool.go: goroutines that receive jobs from a       *)
(* BoundedQueue and run a function on each.  The workers are the queue's   *)
(* Consumers; Submit and SubmitWait are its Enqueue and EnqueueWait.       *)
(*                                                                         *)
(* A worker leaves its loop when the queue is closed and empty, or, once   *)
(* the context is cancelled, when it finds the queue empty.  Close closes  *)
(* the queue, cancels the context and waits; the context passed to Start   *)
(* may also be cancelled from outside, long before Close.                  *)
(***************************************************************************)
EXTENDS BoundedQueue

CONSTANT
    ParentCancels   \* whether the context passed to Start may be cancelled

(* NewWorkerPool: a number of workers that is not positive becomes 1.      *)
ASSUME PoolAssumption ==
    /\ ParentCancels \in BOOLEAN
    /\ Consumers # {}

VARIABLES
    worker,     \* worker -> where its goroutine is
    hand,       \* worker -> the jobs it has received and not finished
    processed,  \* history: the jobs the function has been run on
    ctx,        \* the context of the workers: live, or who cancelled it first
    owed,       \* history: jobs accepted before the cancellation
    closer      \* progress of WorkerPool.Close

poolVars == <<queueVars, worker, hand, processed, ctx, owed, closer>>

Places == {"new", "select", "run", "drain", "runInDrain", "exit"}
CloseSteps == {"open", "cancel", "wait", "closed"}

PoolTypeOK ==
    /\ QueueTypeOK
    /\ worker \in [Consumers -> Places]
    /\ hand \in [Consumers -> SUBSET Items]
    /\ processed \in SUBSET Items
    /\ ctx \in {"live", "parent", "close"}
    /\ owed \in SUBSET Items
    /\ closer \in CloseSteps

PoolInit ==
    /\ QueueInit
    /\ worker = [c \in Consumers |-> "new"]
    /\ hand = [c \in Consumers |-> {}]
    /\ processed = {}
    /\ ctx = "live"
    /\ owed = {}
    /\ closer = "open"

Goto(c, place) == worker' = [worker EXCEPT ![c] = place]

ctlVars == <<ctx, owed, closer>>

-----------------------------------------------------------------------------
(* Submit, SubmitWait *)
Submit(p) ==
    /\ Produce(p)
    /\ UNCHANGED <<worker, hand, processed, ctlVars>>

(* Start: launches every worker.                                           *)
Start ==
    /\ \A c \in Consumers : worker[c] = "new"
    /\ worker' = [c \in Consumers |-> "select"]
    /\ UNCHANGED <<queueVars, hand, processed, ctlVars>>

(* The receive case of either select.                                      *)
Take(c, from, to) ==
    /\ worker[c] = from
    /\ Recv
    /\ hand' = [hand EXCEPT ![c] = {Head(ch)}]
    /\ Goto(c, to)
    /\ UNCHANGED <<drain, phantom, processed, ctlVars>>

WorkerSpins(c) ==      \* mutant of WorkerClosed: continue in place of return
    /\ worker[c] \in {"select", "drain"}
    /\ closed /\ ch = << >>
    /\ UNCHANGED poolVars

(* The receive case with ok = FALSE: the channel is closed and empty.      *)
WorkerClosed(c) ==
    /\ worker[c] \in {"select", "drain"}
    /\ closed /\ ch = << >>
    /\ Goto(c, "exit")
    /\ UNCHANGED <<queueVars, hand, processed, ctlVars>>

ForgetsJob(c) == UNCHANGED processed   \* mutant of RunJob: the drained job is dropped
RunJob(c) == processed' = processed \cup hand[c]

(* p.fn(ctx, item) returns.                                                *)
Finish(c, from, to) ==
    /\ worker[c] = from
    /\ RunJob(c)
    /\ hand' = [hand EXCEPT ![c] = {}]
    /\ Goto(c, to)
    /\ UNCHANGED <<queueVars, ctlVars>>

ExitOnCancel == "exit"                 \* mutant of AfterCancel: no drain loop
AfterCancel == "drain"

(* The select takes ctx.Done(), ready or not the receive.                  *)
WorkerCancelled(c) ==
    /\ worker[c] = "select"
    /\ ctx # "live"
    /\ Goto(c, AfterCancel)
    /\ UNCHANGED <<queueVars, hand, processed, ctlVars>>

(* The default case of the drain loop: open and empty.                     *)
WorkerDrained(c) ==
    /\ worker[c] = "drain"
    /\ ~closed /\ ch = << >>
    /\ Goto(c, "exit")
    /\ UNCHANGED <<queueVars, hand, processed, ctlVars>>

Work(c) ==
    \/ Take(c, "select", "run")
    \/ Take(c, "drain", "runInDrain")
    \/ Finish(c, "run", "select")
    \/ Finish(c, "runInDrain", "drain")
    \/ WorkerClosed(c)
    \/ WorkerCancelled(c)
    \/ WorkerDrained(c)

-----------------------------------------------------------------------------
Started == \A c \in Consumers : worker[c] # "new"

(* The jobs accepted up to the first cancellation.                         *)
Cancel(who) ==
    IF ctx = "live" THEN ctx' = who /\ owed' = ToSet(accepted)
                    ELSE UNCHANGED <<ctx, owed>>

(* Close, one action per step.  The pool was started before.               *)
CloseJobs ==
    /\ Started
    /\ closer = "open"
    /\ CloseQueue
    /\ closer' = "cancel"
    /\ UNCHANGED <<worker, hand, processed, ctx, owed>>

CloseCancel ==
    /\ closer = "cancel"
    /\ Cancel("close")
    /\ closer' = "wait"
    /\ UNCHANGED <<queueVars, worker, hand, processed>>

CloseWait ==
    /\ closer = "wait"
    /\ \A c \in Consumers : worker[c] = "exit"
    /\ closer' = "closed"
    /\ UNCHANGED <<queueVars, worker, hand, processed, ctx, owed>>

ClosePool == CloseJobs \/ CloseCancel \/ CloseWait

(* The owner of the context passed to Start cancels it.                    *)
ParentCancel ==
    /\ ParentCancels
    /\ Started
    /\ ctx = "live"
    /\ Cancel("parent")
    /\ UNCHANGED <<queueVars, worker, hand, processed, closer>>

PoolNext ==
    \/ \E p \in Producers : Submit(p)
    \/ Start
    \/ \E c \in Consumers : Work(c)
    \/ ClosePool
    \/ ParentCancel

(* A goroutine that can run does run: every worker, and a Close that has   *)
(* begun.  Nobody is obliged to submit, to start, to close or to cancel.   *)
PoolFairness ==
    /\ \A c \in Consumers : WF_poolVars(Work(c))
    /\ WF_poolVars(CloseCancel)
    /\ WF_poolVars(CloseWait)

PoolSpec == PoolInit /\ [][PoolNext]_poolVars /\ PoolFairness

-----------------------------------------------------------------------------
(* Correctness *)

(* A received job is in the hands of one worker or has been run, never     *)
(* both, so no job is run twice and none disappears between two workers.   *)
JobInOnePlace ==
    /\ PoolTypeOK
    /\ ToSet(delivered) = processed \cup UNION {hand[c] : c \in Consumers}
    /\ \A c \in Consumers : hand[c] \cap processed = {}
    /\ \A c, d \in Consumers : c # d => hand[c] \cap hand[d] = {}
    /\ \A c \in Consumers : (hand[c] # {}) <=> worker[c] \in {"run", "runInDrain"}

(* workerpool.go:54-55, "Close signals workers to stop, drains remaining   *)
(* jobs, and waits for all workers to finish".  When Close returns, every  *)
(* job accepted before the first cancellation has been run: all jobs when  *)
(* Close is the one that cancels, because it closes the queue first, and   *)
(* only those accepted in time when the context of Start was cancelled.    *)
CloseHonoursOwedJobs ==
    closer = "closed" =>
        /\ owed \subseteq processed
        /\ ctx = "close" => ToSet(accepted) = processed

(* Close returns: no worker waits for ever on the queue or the context.    *)
CloseReturns == (closer # "open") ~> (closer = "closed")

(* Once the pool is started, every job accepted before a cancellation is   *)
(* run, with or without a Close.                                           *)
JobsAreRun ==
    \A x \in Items : (Started /\ x \in ToSet(accepted)) ~>
        (x \in processed \/ (ctx = "parent" /\ x \notin owed))

(* Both: nothing a caller of the pool waits for stays out for ever.        *)
PoolMakesProgress == CloseReturns /\ JobsAreRun
=============================================================================
