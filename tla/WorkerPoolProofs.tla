-------------------------- MODULE WorkerPoolProofs --------------------------
(***************************************************************************)
(* Theorems about WorkerPool, for any number of workers and submitters and *)
(* with or without a cancellation from outside.  The queue of the pool is  *)
(* a BoundedQueue, so that the theorems of BoundedQueueProofs carry over.  *)
(***************************************************************************)
EXTENDS WorkerPool, BoundedQueueProofs

-----------------------------------------------------------------------------
(* The pool as a user of its queue *)

(* The workers receive from the channel itself, never through DrainTo.     *)
NoDrainTo == drain = [c \in Consumers |-> 0]

(* What the pool does to its queue is what the queue allows: Submit is     *)
(* Enqueue or EnqueueWait, a worker's receive is a Dequeue.                *)
LEMMA PoolStepIsQueueStep ==
    ASSUME NoDrainTo, [PoolNext]_poolVars
    PROVE  [QueueNext]_queueVars /\ NoDrainTo'
<1> SUFFICES [QueueNext]_queueVars /\ UNCHANGED drain
  BY DEF NoDrainTo
<1>1. ASSUME NEW p \in Producers, Submit(p) PROVE QueueNext /\ UNCHANGED drain
  BY <1>1 DEF Submit, QueueNext, Produce, Call, Send, SendOnClosed, EnqueueFull,
              EnqueueWaitCancelled, consumerVars
<1>2. ASSUME NEW c \in Consumers, NEW from, NEW to, Take(c, from, to)
      PROVE  QueueNext /\ UNCHANGED drain
  <2>1. Dequeue(c)
    BY <1>2 DEF Take, Dequeue, NoDrainTo
  <2> QED
    BY <1>2, <2>1 DEF Take, QueueNext, Consume
<1>3. ASSUME NEW c \in Consumers, Work(c)
      PROVE  [QueueNext]_queueVars /\ UNCHANGED drain
  BY <1>2, <1>3 DEF Work, Finish, WorkerClosed, WorkerCancelled, WorkerDrained, queueVars
<1>4. CASE Start
  BY <1>4 DEF Start, queueVars
<1>5. CASE ClosePool
  BY <1>5 DEF ClosePool, CloseJobs, CloseCancel, CloseWait, QueueNext, CloseQueue,
              consumerVars, queueVars
<1>6. CASE ParentCancel
  BY <1>6 DEF ParentCancel, queueVars
<1>7. CASE UNCHANGED poolVars
  BY <1>7 DEF poolVars, queueVars
<1> QED
  BY <1>1, <1>3, <1>4, <1>5, <1>6, <1>7 DEF PoolNext

(* A pool is a way of using its queue: everything BoundedQueueProofs shows *)
(* of the queue holds of the jobs of a pool.                               *)
THEOREM PoolUsesQueue == PoolSpec => QueueSpec
<1>1. PoolInit => NoDrainTo /\ QueueInit
  BY DEF PoolInit, QueueInit, NoDrainTo
<1>2. NoDrainTo /\ [PoolNext]_poolVars => [QueueNext]_queueVars /\ NoDrainTo'
  BY PoolStepIsQueueStep
<1> QED
  BY <1>1, <1>2, PTL DEF PoolSpec, QueueSpec

-----------------------------------------------------------------------------
(* Where the jobs are *)

(* A new pool has no job anywhere.                                         *)
LEMMA JobInit == PoolInit => JobInOnePlace
<1> SUFFICES ASSUME PoolInit PROVE JobInOnePlace
  OBVIOUS
<1>1. PoolTypeOK
  BY TypeInit DEF PoolInit, PoolTypeOK, Places, CloseSteps
<1>2. ToSet(delivered) = {}
  BY DEF PoolInit, QueueInit, ToSet
<1> QED
  BY <1>1, <1>2 DEF PoolInit, JobInOnePlace

(* A receive puts a job nobody had into a hand that was empty.             *)
LEMMA JobTake ==
    ASSUME QueueInv, QueueTypeOK', JobInOnePlace, NEW c \in Consumers, NEW from, NEW to,
           <<from, to>> \in {<<"select", "run">>, <<"drain", "runInDrain">>},
           Take(c, from, to)
    PROVE  JobInOnePlace'
<1> USE DEF JobInOnePlace, PoolTypeOK
<1> DEFINE x == Head(ch)
<1>1. /\ x \in Items /\ x \notin ToSet(delivered)
      /\ worker[c] = from /\ from \notin {"run", "runInDrain"}
      /\ to \in {"run", "runInDrain"} /\ to \in Places
  BY HeadIsNew DEF Take, Recv, Places
<1>2. ToSet(delivered') = ToSet(delivered) \cup {x}
  BY <1>1, ToSetAppend DEF Take, Recv, QueueTypeOK
<1> HIDE DEF x
<1>3. /\ \A d \in Consumers : hand'[d] = IF d = c THEN {x} ELSE hand[d]
      /\ \A d \in Consumers : worker'[d] = IF d = c THEN to ELSE worker[d]
      /\ processed' = processed
  BY DEF Take, Goto, x
<1>4. PoolTypeOK'
  BY <1>1 DEF Take, Goto, ctlVars, x
<1>5. hand[c] = {}
  BY <1>1
<1>6. \A d \in Consumers : hand[d] \subseteq ToSet(delivered)
  OBVIOUS
<1>7. processed \subseteq ToSet(delivered)
  OBVIOUS
<1>8. ToSet(delivered') = processed' \cup UNION {hand'[d] : d \in Consumers}
  <2>1. UNION {hand'[d] : d \in Consumers} = {x} \cup UNION {hand[d] : d \in Consumers}
    BY <1>3, <1>5
  <2> QED
    BY <1>2, <1>3, <2>1
<1> QED
  BY <1>1, <1>3, <1>4, <1>5, <1>6, <1>7, <1>8

(* A job that is run leaves the hand it was in and no other.               *)
LEMMA JobFinish ==
    ASSUME QueueTypeOK', JobInOnePlace, NEW c \in Consumers, NEW from, NEW to,
           <<from, to>> \in {<<"run", "select">>, <<"runInDrain", "drain">>},
           Finish(c, from, to)
    PROVE  JobInOnePlace'
<1> USE DEF JobInOnePlace, PoolTypeOK
<1>1. to \in Places /\ to \notin {"run", "runInDrain"}
  BY DEF Places
<1>2. /\ \A d \in Consumers : hand'[d] = IF d = c THEN {} ELSE hand[d]
      /\ \A d \in Consumers : worker'[d] = IF d = c THEN to ELSE worker[d]
      /\ processed' = processed \cup hand[c]
      /\ delivered' = delivered
  BY DEF Finish, Goto, RunJob, queueVars
<1>3. PoolTypeOK'
  BY <1>1 DEF Finish, Goto, RunJob, ctlVars
<1>4. processed' \cup UNION {hand'[d] : d \in Consumers}
        = processed \cup UNION {hand[d] : d \in Consumers}
  BY <1>2
<1> QED
  BY <1>1, <1>2, <1>3, <1>4

(* A step that moves no job and keeps the workers that have one.           *)
LEMMA JobFrame ==
    ASSUME PoolTypeOK', JobInOnePlace, UNCHANGED <<delivered, hand, processed>>,
           \A c \in Consumers :
              worker'[c] = worker[c] \/ {worker[c], worker'[c]} \cap {"run", "runInDrain"} = {}
    PROVE  JobInOnePlace'
BY DEF JobInOnePlace

(* Every step keeps the jobs in one place.                                 *)
LEMMA JobStep ==
    ASSUME QueueInv, QueueTypeOK', JobInOnePlace, [PoolNext]_poolVars
    PROVE  JobInOnePlace'
<1>0. PoolTypeOK
  BY DEF JobInOnePlace
<1>1. ASSUME NEW p \in Producers, Submit(p) PROVE JobInOnePlace'
  <2>1. delivered' = delivered
    BY <1>1 DEF Submit, Produce, Call, Send, SendOnClosed, EnqueueFull,
                EnqueueWaitCancelled, consumerVars
  <2>2. PoolTypeOK'
    BY <1>0, <1>1 DEF Submit, PoolTypeOK, ctlVars
  <2> QED
    BY <1>1, <2>1, <2>2, JobFrame DEF Submit
<1>2. ASSUME NEW c \in Consumers, Work(c) PROVE JobInOnePlace'
  <2>1. CASE Take(c, "select", "run") \/ Take(c, "drain", "runInDrain")
    BY <2>1, JobTake
  <2>2. CASE Finish(c, "run", "select") \/ Finish(c, "runInDrain", "drain")
    BY <2>2, JobFinish
  <2>3. ASSUME NEW to \in Places \ {"run", "runInDrain"},
               worker[c] \in {"select", "drain"}, Goto(c, to),
               UNCHANGED <<queueVars, hand, processed, ctlVars>>
        PROVE  JobInOnePlace'
    <3>1. PoolTypeOK'
      BY <1>0, <2>3 DEF PoolTypeOK, Goto, ctlVars
    <3>2. \A d \in Consumers : worker'[d] = IF d = c THEN to ELSE worker[d]
      BY <1>0, <2>3 DEF PoolTypeOK, Goto
    <3> QED
      BY <2>3, <3>1, <3>2, JobFrame DEF queueVars
  <2>4. CASE WorkerClosed(c) \/ WorkerCancelled(c) \/ WorkerDrained(c)
    BY <2>3, <2>4 DEF WorkerClosed, WorkerCancelled, WorkerDrained, AfterCancel, Places
  <2> QED
    BY <1>2, <2>1, <2>2, <2>4 DEF Work
<1>3. CASE Start
  <2>1. PoolTypeOK'
    BY <1>0, <1>3 DEF Start, PoolTypeOK, Places, ctlVars
  <2> QED
    BY <1>3, <2>1, JobFrame DEF Start, queueVars
<1>4. CASE ClosePool \/ ParentCancel
  <2>1. UNCHANGED <<delivered, worker, hand, processed>>
    BY <1>4 DEF ClosePool, CloseJobs, CloseQueue, CloseCancel, CloseWait, ParentCancel,
                consumerVars, queueVars
  <2>2. ToSet(accepted) \in SUBSET Items
    BY <1>0, ElementOfSeq, LenProperties DEF PoolTypeOK, QueueTypeOK, ToSet
  <2>3. PoolTypeOK'
    BY <1>0, <1>4, <2>1, <2>2
       DEF ClosePool, CloseJobs, CloseCancel, CloseWait, ParentCancel, Cancel,
           PoolTypeOK, CloseSteps
  <2> QED
    BY <2>1, <2>3, JobFrame
<1>5. CASE UNCHANGED poolVars
  BY <1>0, <1>5, JobFrame DEF poolVars, queueVars, PoolTypeOK
<1> QED
  BY <1>1, <1>2, <1>3, <1>4, <1>5 DEF PoolNext

(* A received job is in the hands of one worker or has been run, never     *)
(* both, for any number of workers: no job is run twice and none is lost   *)
(* between two workers, cancelled or not.                                  *)
THEOREM PoolJobInOnePlace == PoolSpec => []JobInOnePlace
<1>1. QueueInv => QueueTypeOK
  BY DEF QueueInv
<1>2. QueueInv /\ QueueTypeOK' /\ JobInOnePlace /\ [PoolNext]_poolVars => JobInOnePlace'
  BY JobStep
<1> QED
  BY <1>1, <1>2, JobInit, PoolUsesQueue, QueueInvariant, PTL DEF PoolSpec

-----------------------------------------------------------------------------
(* What Close leaves behind *)

(* Close and the cancellation, against the workers that have ended.  A     *)
(* worker that ends while the context is live has seen the closed, empty   *)
(* channel, which stays empty; one that ends later has seen an empty       *)
(* channel after the jobs owed were fixed.                                 *)
CloseInv ==
    /\ closer # "open" => closed
    /\ closer \in {"wait", "closed"} => ctx # "live"
    /\ closer = "closed" => \A c \in Consumers : worker[c] = "exit"
    /\ ctx = "live" => owed = {}
    /\ ctx = "close" => closed /\ owed = ToSet(accepted)
    /\ owed \subseteq ToSet(accepted)
    /\ \A c \in Consumers : worker[c] \in {"drain", "runInDrain"} => ctx # "live"
    /\ \A c \in Consumers : worker[c] = "exit" =>
          /\ owed \subseteq ToSet(delivered)
          /\ ctx = "live" => closed /\ ch = << >>

(* A pool that has not been closed owes nothing.                           *)
LEMMA CloseInit == PoolInit => CloseInv
BY DEF PoolInit, QueueInit, CloseInv

(* Every step keeps CloseInv.                                              *)
LEMMA CloseInvStep ==
    ASSUME QueueInv, NoDrainTo, JobInOnePlace, CloseInv, [PoolNext]_poolVars
    PROVE  CloseInv'
<1>0. PoolTypeOK
  BY DEF JobInOnePlace
<1>1. /\ ToSet(accepted) \subseteq ToSet(accepted')
      /\ ToSet(delivered) \subseteq ToSet(delivered')
      /\ closed => closed' /\ accepted' = accepted
      /\ closed /\ ch = << >> => ch' = << >>
  BY PoolStepIsQueueStep, QueueOnlyGrows
<1>2. ASSUME UNCHANGED <<worker, ctlVars>> PROVE CloseInv'
  BY <1>1, <1>2 DEF CloseInv, ctlVars
<1>3. ASSUME NEW c \in Consumers, NEW to, Goto(c, to), UNCHANGED ctlVars,
             worker[c] # "exit",
             to \in {"drain", "runInDrain"} => ctx # "live",
             to = "exit" => /\ owed \subseteq ToSet(delivered)
                            /\ ctx = "live" => closed /\ ch = << >>
      PROVE  CloseInv'
  <2>1. \A d \in Consumers : worker'[d] = IF d = c THEN to ELSE worker[d]
    BY <1>0, <1>3 DEF PoolTypeOK, Goto
  <2> QED
    BY <1>1, <1>3, <2>1 DEF CloseInv, ctlVars
<1>4. ASSUME NEW c \in Consumers, Work(c) PROVE CloseInv'
  <2>1. CASE WorkerClosed(c) \/ WorkerDrained(c)
    <3>1. delivered = accepted
      BY <2>1, EmptyIsDelivered DEF WorkerClosed, WorkerDrained
    <3> QED
      BY <1>3, <2>1, <3>1 DEF WorkerClosed, WorkerDrained, CloseInv
  <2>2. CASE WorkerCancelled(c)
    BY <1>3, <2>2 DEF WorkerCancelled, AfterCancel
  <2>3. CASE Take(c, "select", "run") \/ Take(c, "drain", "runInDrain")
    BY <1>3, <2>3 DEF Take, CloseInv
  <2>4. CASE Finish(c, "run", "select") \/ Finish(c, "runInDrain", "drain")
    BY <1>3, <2>4 DEF Finish, CloseInv
  <2> QED
    BY <1>4, <2>1, <2>2, <2>3, <2>4 DEF Work
<1>5. CASE Start
  <2>1. \A c \in Consumers : worker[c] = "new" /\ worker'[c] = "select"
    BY <1>5 DEF Start
  <2>2. closer # "closed"
    BY <2>1, PoolAssumption DEF CloseInv
  <2> QED
    BY <1>1, <1>5, <2>1, <2>2 DEF Start, CloseInv, ctlVars
<1>6. CASE CloseJobs
  BY <1>1, <1>6 DEF CloseJobs, CloseQueue, CloseInv
<1>7. ASSUME NEW who \in {"parent", "close"}, Cancel(who),
             who = "close" => closed,
             UNCHANGED <<queueVars, worker>>,
             \/ closer' = closer
             \/ closer # "open" /\ closer' = "wait"
      PROVE  CloseInv'
  <2>1. CASE ctx = "live"
    <3>1. /\ ctx' = who /\ owed' = ToSet(accepted)
          /\ UNCHANGED <<closed, ch, accepted, delivered>>
      BY <1>7, <2>1 DEF Cancel, queueVars
    <3>2. ch = << >> => delivered = accepted
      BY EmptyIsDelivered
    <3>3. \A c \in Consumers : worker[c] = "exit" => owed' \subseteq ToSet(delivered)
      BY <2>1, <3>1, <3>2 DEF CloseInv
    <3> QED
      BY <1>7, <2>1, <3>1, <3>3 DEF CloseInv
  <2>2. CASE ctx # "live"
    BY <1>7, <2>2 DEF Cancel, CloseInv, queueVars
  <2> QED
    BY <2>1, <2>2
<1>8. CASE CloseCancel
  BY <1>7, <1>8 DEF CloseCancel, CloseInv
<1>9. CASE ParentCancel
  BY <1>7, <1>9 DEF ParentCancel
<1>10. CASE CloseWait
  BY <1>10 DEF CloseWait, CloseInv, queueVars
<1>11. CASE (\E p \in Producers : Submit(p)) \/ UNCHANGED poolVars
  BY <1>2, <1>11 DEF Submit, poolVars, ctlVars
<1> QED
  BY <1>4, <1>5, <1>6, <1>8, <1>9, <1>10, <1>11 DEF PoolNext, ClosePool

(* When Close has returned, every job the pool owed has been run.          *)
LEMMA ClosedPoolIsDrained ==
    ASSUME QueueInv, JobInOnePlace, CloseInv
    PROVE  CloseHonoursOwedJobs
<1> SUFFICES ASSUME closer = "closed"
             PROVE  /\ owed \subseteq processed
                    /\ ctx = "close" => ToSet(accepted) = processed
  BY DEF CloseHonoursOwedJobs
<1>1. \A c \in Consumers : worker[c] = "exit" /\ hand[c] = {}
  BY DEF CloseInv, JobInOnePlace
<1>2. ToSet(delivered) = processed
  BY <1>1 DEF JobInOnePlace
<1>3. owed \subseteq ToSet(delivered)
  BY <1>1, PoolAssumption DEF CloseInv
<1>4. ToSet(delivered) \subseteq ToSet(accepted)
  <2>1. /\ delivered \in Seq(Items) /\ ch \in Seq(Items)
        /\ accepted = delivered \o ch
    BY DEF QueueInv, QueueTypeOK, FifoExactlyOnce
  <2> QED
    BY <2>1, ToSetConcat
<1> QED
  BY <1>2, <1>3, <1>4 DEF CloseInv

(* When Close returns, every job accepted before the first cancellation    *)
(* has been run, and all accepted jobs when Close was the one to cancel.   *)
THEOREM PoolCloseHonoursOwedJobs == PoolSpec => []CloseHonoursOwedJobs
<1>1. PoolInit => NoDrainTo
  BY DEF PoolInit, QueueInit, NoDrainTo
<1>2. NoDrainTo /\ [PoolNext]_poolVars => NoDrainTo'
  BY PoolStepIsQueueStep
<1>3. QueueInv /\ NoDrainTo /\ JobInOnePlace /\ CloseInv /\ [PoolNext]_poolVars => CloseInv'
  BY CloseInvStep
<1>4. QueueInv /\ JobInOnePlace /\ CloseInv => CloseHonoursOwedJobs
  BY ClosedPoolIsDrained
<1> QED
  BY <1>1, <1>2, <1>3, <1>4, CloseInit, PoolUsesQueue, QueueInvariant, PoolJobInOnePlace, PTL
     DEF PoolSpec
=============================================================================
