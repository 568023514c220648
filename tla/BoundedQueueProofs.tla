-------------------------- MODULE BoundedQueueProofs ------------------------
(***************************************************************************)
(* Theorems about BoundedQueue, for any producers, consumers, items and    *)
(* capacity.                                                               *)
(***************************************************************************)
EXTENDS BoundedQueue, SeqLemmas

(* NewBoundedQueue never makes an unbuffered channel.                      *)
LEMMA CapPositive == Cap \in Nat \ {0}
BY QueueAssumption DEF Cap

-----------------------------------------------------------------------------
(* Type correctness *)

(* A new queue has the right type.                                         *)
LEMMA TypeInit == QueueInit => QueueTypeOK
<1> SUFFICES ASSUME QueueInit PROVE QueueTypeOK
  OBVIOUS
<1>1. call \in [Producers -> Calls \cup {None}]
  BY DEF QueueInit
<1>2. drain \in [Consumers -> 0 .. MaxDst]
  BY QueueAssumption DEF QueueInit
<1>3. << >> \in Seq(Items)
  OBVIOUS
<1> QED
  BY <1>1, <1>2, <1>3 DEF QueueInit, QueueTypeOK

(* Enqueue and EnqueueWait keep the type.                                  *)
LEMMA TypeProduce ==
    ASSUME QueueTypeOK, NEW p \in Producers, Produce(p)
    PROVE  QueueTypeOK'
<1> USE DEF QueueTypeOK
<1>1. ASSUME NEW op \in Ops, NEW x \in Items, Call(p, op, x) PROVE QueueTypeOK'
  BY <1>1 DEF Call, Calls, consumerVars
<1>2. call[p] # None => call[p].item \in Items
  BY DEF Calls
<1>3. CASE Send(p)
  <2>1. ch' \in Seq(Items) /\ accepted' \in Seq(Items)
    BY <1>2, <1>3, AppendProperties DEF Send
  <2> QED
    BY <1>3, <2>1 DEF Send, Return, consumerVars
<1>4. CASE SendOnClosed(p)
  BY <1>4 DEF SendOnClosed, Return, consumerVars
<1>5. CASE EnqueueFull(p)
  BY <1>2, <1>5 DEF EnqueueFull, Return, consumerVars
<1>6. CASE EnqueueWaitCancelled(p)
  BY <1>2, <1>6 DEF EnqueueWaitCancelled, Return, consumerVars
<1> QED
  BY <1>1, <1>3, <1>4, <1>5, <1>6 DEF Produce

(* A receive keeps the type.                                               *)
LEMMA TypeRecv ==
    ASSUME QueueTypeOK, Recv
    PROVE  /\ Head(ch) \in Items
           /\ ch' \in Seq(Items)
           /\ delivered' \in Seq(Items)
BY HeadTailProperties, AppendProperties DEF QueueTypeOK, Recv

(* Dequeue, DequeueWait and DrainTo keep the type.                         *)
LEMMA TypeConsume ==
    ASSUME QueueTypeOK, NEW c \in Consumers, Consume(c)
    PROVE  QueueTypeOK'
<1> USE QueueAssumption DEF QueueTypeOK
<1>1. CASE Dequeue(c)
  BY <1>1, TypeRecv DEF Dequeue, Recv, producerVars
<1>2. CASE DequeueWaitClosed(c)
  BY <1>2 DEF DequeueWaitClosed, ClosedAndEmpty, producerVars, ReceiveOps
<1>3. ASSUME NEW n \in 1 .. MaxDst, StartDrain(c, n) PROVE QueueTypeOK'
  BY <1>3 DEF StartDrain, producerVars
<1>4. CASE DrainItem(c)
  BY <1>4, TypeRecv DEF DrainItem, SlotLeft, Recv, producerVars
<1>5. CASE DrainClosed(c)
  BY <1>5 DEF DrainClosed, ClosedAndEmpty, SlotLeft, producerVars, ReceiveOps
<1>6. CASE DrainEmpty(c)
  BY <1>6 DEF DrainEmpty, producerVars
<1> QED
  BY <1>1, <1>2, <1>3, <1>4, <1>5, <1>6 DEF Consume

(* Every step keeps the type.                                              *)
LEMMA TypeNext == QueueTypeOK /\ [QueueNext]_queueVars => QueueTypeOK'
<1> SUFFICES ASSUME QueueTypeOK, [QueueNext]_queueVars PROVE QueueTypeOK'
  OBVIOUS
<1>1. CASE CloseQueue
  BY <1>1 DEF CloseQueue, QueueTypeOK, producerVars, consumerVars
<1>2. CASE UNCHANGED queueVars
  BY <1>2 DEF queueVars, QueueTypeOK
<1> QED
  BY <1>1, <1>2, TypeProduce, TypeConsume DEF QueueNext

(* Every reachable state of the queue is well typed: no operation leaves   *)
(* the channel, the flag or a DrainTo in a state the code does not know.   *)
THEOREM QueueTypeCorrect == QueueSpec => []QueueTypeOK
BY TypeInit, TypeNext, PTL DEF QueueSpec

-----------------------------------------------------------------------------
(* The main invariant.  FifoExactlyOnce is not inductive by itself: that   *)
(* no item is sent twice rests on the items of the open calls being new,   *)
(* which AnswersAreTruthful says.                                          *)

QueueInv == QueueTypeOK /\ FifoExactlyOnce /\ AnswersAreTruthful

(* A new queue satisfies the invariant.                                    *)
LEMMA InvInit == QueueInit => QueueInv
<1> SUFFICES ASSUME QueueInit PROVE QueueInv
  OBVIOUS
<1>1. QueueTypeOK
  BY TypeInit
<1>2. FifoExactlyOnce
  <2>1. << >> \o << >> = << >> /\ Len(<< >>) = 0
    OBVIOUS
  <2>2. IsInjective(<< >>)
    BY DEF IsInjective
  <2> QED
    BY <2>1, <2>2, CapPositive DEF QueueInit, FifoExactlyOnce
<1>3. AnswersAreTruthful
  BY DEF QueueInit, AnswersAreTruthful, InFlight, ToSet
<1> QED
  BY <1>1, <1>2, <1>3 DEF QueueInv

(* What a step that neither sends nor receives has to show.                *)
LEMMA FifoFrame ==
    ASSUME FifoExactlyOnce, UNCHANGED <<ch, accepted, delivered>>
    PROVE  FifoExactlyOnce'
BY DEF FifoExactlyOnce

(* The item of an open call is in flight.                                  *)
LEMMA InFlightItems ==
    ASSUME NEW p \in Producers, call[p] # None
    PROVE  call[p].item \in InFlight
BY DEF InFlight

(* A call that ends takes its item out of flight.                          *)
LEMMA ReturnClearsItem ==
    ASSUME QueueTypeOK, AnswersAreTruthful,
           NEW p \in Producers, call[p] # None, Return(p)
    PROVE  /\ InFlight' = InFlight \ {call[p].item}
           /\ \A q, r \in Producers :
                 q # r /\ call'[q] # None /\ call'[r] # None
                     => call'[q].item # call'[r].item
<1>1. \A q \in Producers : call'[q] = IF q = p THEN None ELSE call[q]
  BY DEF Return, QueueTypeOK
<1>2. \A q \in Producers : q # p /\ call[q] # None => call[q].item # call[p].item
  BY DEF AnswersAreTruthful
<1> QED
  BY <1>1, <1>2 DEF InFlight, AnswersAreTruthful

(* Enqueue and EnqueueWait keep the invariant: one case per action.        *)
LEMMA InvProduce ==
    ASSUME QueueInv, NEW p \in Producers, Produce(p)
    PROVE  FifoExactlyOnce' /\ AnswersAreTruthful'
<1> USE DEF QueueInv
<1>1. ASSUME NEW op \in Ops, NEW x \in Items, Call(p, op, x)
      PROVE  FifoExactlyOnce' /\ AnswersAreTruthful'
  <2>1. FifoExactlyOnce'
    BY <1>1, FifoFrame DEF Call, consumerVars
  <2>2. CASE closed
    BY <1>1, <2>1, <2>2 DEF Call, AnswersAreTruthful, InFlight, Fresh
  <2>3. CASE ~closed
    <3>1. /\ refused' = refused /\ accepted' = accepted
          /\ \A q \in Producers :
                call'[q] = IF q = p THEN [op |-> op, item |-> x] ELSE call[q]
          /\ x \notin ToSet(accepted) \cup refused \cup InFlight
          /\ call[p] = None
      BY <1>1, <2>3 DEF Call, QueueTypeOK, Fresh
    <3>2. InFlight' \subseteq InFlight \cup {x}
      BY <3>1 DEF InFlight
    <3>3. \A q \in Producers : call[q] # None => call[q].item # x
      BY <3>1, InFlightItems
    <3>4. \A q, r \in Producers :
              q # r /\ call'[q] # None /\ call'[r] # None => call'[q].item # call'[r].item
      BY <3>1, <3>3 DEF AnswersAreTruthful
    <3> QED
      BY <2>1, <3>1, <3>2, <3>4 DEF AnswersAreTruthful
  <2> QED
    BY <2>1, <2>2, <2>3
<1>2. CASE Send(p)
  <2> DEFINE x == call[p].item
  <2>1. x \in Items /\ x \in InFlight /\ x \notin ToSet(accepted)
    BY <1>2, InFlightItems DEF Send, QueueTypeOK, Calls, AnswersAreTruthful
  <2>2. /\ ch \in Seq(Items) /\ delivered \in Seq(Items) /\ accepted \in Seq(Items)
        /\ ch' = Append(ch, x) /\ accepted' = Append(accepted, x)
        /\ delivered' = delivered /\ refused' = refused
        /\ Len(ch) < Cap
    BY <1>2 DEF Send, QueueTypeOK, HasRoom, consumerVars
  <2> HIDE DEF x
  <2>3. accepted' = delivered' \o ch'
    <3>1. delivered \o Append(ch, x) = Append(delivered \o ch, x)
      BY <2>1, <2>2, ConcatAppend
    <3> QED
      BY <2>2, <3>1 DEF FifoExactlyOnce
  <2>4. Len(ch') <= Cap
    BY <2>1, <2>2, CapPositive, AppendProperties, LenProperties
  <2>5. IsInjective(accepted')
    BY <2>1, <2>2, InjectiveAppend DEF FifoExactlyOnce
  <2>6. ToSet(accepted') = ToSet(accepted) \cup {x}
    BY <2>1, <2>2, ToSetAppend
  <2>7. /\ InFlight' = InFlight \ {x}
        /\ \A q, r \in Producers :
              q # r /\ call'[q] # None /\ call'[r] # None => call'[q].item # call'[r].item
    BY <1>2, ReturnClearsItem DEF Send, x
  <2>8. AnswersAreTruthful'
    BY <2>1, <2>2, <2>6, <2>7 DEF AnswersAreTruthful
  <2> QED
    BY <2>3, <2>4, <2>5, <2>8 DEF FifoExactlyOnce
<1>3. CASE SendOnClosed(p)
  <2>1. FifoExactlyOnce'
    BY <1>3, FifoFrame DEF SendOnClosed, consumerVars
  <2>2. InFlight' = InFlight \ {call[p].item}
    BY <1>3, ReturnClearsItem DEF SendOnClosed
  <2> QED
    BY <1>3, <2>1, <2>2, ReturnClearsItem DEF SendOnClosed, AnswersAreTruthful
<1>4. ASSUME call[p] # None, Return(p), refused' = refused \cup {call[p].item},
             UNCHANGED <<ch, accepted, delivered>>
      PROVE  FifoExactlyOnce' /\ AnswersAreTruthful'
  <2>1. FifoExactlyOnce'
    BY <1>4, FifoFrame
  <2>2. call[p].item \in InFlight
    BY <1>4, InFlightItems
  <2>3. /\ InFlight' = InFlight \ {call[p].item}
        /\ \A q, r \in Producers :
              q # r /\ call'[q] # None /\ call'[r] # None => call'[q].item # call'[r].item
    BY <1>4, ReturnClearsItem
  <2> QED
    BY <1>4, <2>1, <2>2, <2>3 DEF AnswersAreTruthful
<1>5. CASE EnqueueFull(p)
  BY <1>4, <1>5 DEF EnqueueFull, consumerVars
<1>6. CASE EnqueueWaitCancelled(p)
  BY <1>4, <1>6 DEF EnqueueWaitCancelled, consumerVars
<1> QED
  BY <1>1, <1>2, <1>3, <1>5, <1>6 DEF Produce

(* A step that leaves the producers alone keeps their answers truthful.    *)
LEMMA AnswersFrame ==
    ASSUME AnswersAreTruthful, UNCHANGED producerVars
    PROVE  AnswersAreTruthful'
BY DEF AnswersAreTruthful, InFlight, producerVars

(* A receive moves the head of the channel to what was delivered.          *)
LEMMA InvRecv ==
    ASSUME QueueInv, Recv
    PROVE  FifoExactlyOnce'
<1>1. /\ ch \in Seq(Items) /\ delivered \in Seq(Items) /\ ch # << >>
      /\ ch' = Tail(ch) /\ delivered' = Append(delivered, Head(ch))
      /\ accepted' = accepted
  BY DEF QueueInv, QueueTypeOK, Recv, producerVars
<1>2. delivered' \o ch' = delivered \o ch
  BY <1>1, MoveHead
<1>3. Len(ch') <= Cap
  <2>1. Len(ch') = Len(ch) - 1 /\ Len(ch) \in Nat
    BY <1>1, HeadTailProperties, LenProperties
  <2> QED
    BY <2>1, CapPositive DEF QueueInv, FifoExactlyOnce
<1> QED
  BY <1>1, <1>2, <1>3 DEF QueueInv, FifoExactlyOnce

(* Dequeue, DequeueWait and DrainTo keep the invariant.                    *)
LEMMA InvConsume ==
    ASSUME QueueInv, NEW c \in Consumers, Consume(c)
    PROVE  FifoExactlyOnce' /\ AnswersAreTruthful'
<1> USE DEF QueueInv
<1>1. CASE Dequeue(c)
  BY <1>1, InvRecv, AnswersFrame DEF Dequeue, Recv
<1>2. CASE DequeueWaitClosed(c)
  BY <1>2, FifoFrame, AnswersFrame DEF DequeueWaitClosed, ClosedAndEmpty, producerVars
<1>3. ASSUME NEW n \in 1 .. MaxDst, StartDrain(c, n)
      PROVE  FifoExactlyOnce' /\ AnswersAreTruthful'
  BY <1>3, FifoFrame, AnswersFrame DEF StartDrain, producerVars
<1>4. CASE DrainItem(c)
  BY <1>4, InvRecv, AnswersFrame DEF DrainItem, Recv
<1>5. CASE DrainClosed(c)
  BY <1>5, FifoFrame, AnswersFrame DEF DrainClosed, ClosedAndEmpty, producerVars
<1>6. CASE DrainEmpty(c)
  BY <1>6, FifoFrame, AnswersFrame DEF DrainEmpty, producerVars
<1> QED
  BY <1>1, <1>2, <1>3, <1>4, <1>5, <1>6 DEF Consume

(* Close keeps the invariant.                                              *)
LEMMA InvClose ==
    ASSUME QueueInv, CloseQueue
    PROVE  FifoExactlyOnce' /\ AnswersAreTruthful'
BY FifoFrame, AnswersFrame DEF QueueInv, CloseQueue, producerVars, consumerVars

(* Every step keeps the invariant.                                         *)
LEMMA InvNext == QueueInv /\ [QueueNext]_queueVars => QueueInv'
<1> SUFFICES ASSUME QueueInv, [QueueNext]_queueVars PROVE QueueInv'
  OBVIOUS
<1>1. QueueTypeOK'
  BY TypeNext DEF QueueInv
<1>2. CASE UNCHANGED queueVars
  BY <1>1, <1>2, FifoFrame, AnswersFrame DEF QueueInv, queueVars, producerVars
<1>3. CASE QueueNext
  BY <1>1, <1>3, InvProduce, InvConsume, InvClose DEF QueueInv, QueueNext
<1> QED
  BY <1>2, <1>3

(* The inductive invariant holds of the specification.                     *)
LEMMA QueueInvariant == QueueSpec => []QueueInv
BY InvInit, InvNext, PTL DEF QueueSpec

(* What Enqueue and EnqueueWait report as taken is delivered exactly once, *)
(* in order, by Dequeue, DequeueWait and DrainTo, whatever runs beside     *)
(* them, Close included, and the channel stays within its capacity.        *)
THEOREM QueueDeliversExactlyOnce == QueueSpec => []FifoExactlyOnce
BY QueueInvariant, PTL DEF QueueInv

(* An item whose call answered false or an error is never delivered.       *)
THEOREM QueueAnswersTruthfully == QueueSpec => []AnswersAreTruthful
BY QueueInvariant, PTL DEF QueueInv

-----------------------------------------------------------------------------
(* The zero values of DequeueWait and DrainTo *)

PhantomInv == phantom # {} => closed /\ ch = << >>

(* Every step keeps PhantomInv: nothing enters a closed channel.           *)
LEMMA PhantomStep == PhantomInv /\ [QueueNext]_queueVars => PhantomInv'
<1> SUFFICES ASSUME PhantomInv, [QueueNext]_queueVars PROVE PhantomInv'
  OBVIOUS
<1> USE DEF PhantomInv
<1>1. ASSUME NEW p \in Producers, Produce(p) PROVE PhantomInv'
  BY <1>1 DEF Produce, Call, Send, SendOnClosed, EnqueueFull, EnqueueWaitCancelled,
              ChanOpen, consumerVars
<1>2. ASSUME NEW c \in Consumers, Consume(c) PROVE PhantomInv'
  BY <1>2 DEF Consume, Dequeue, DequeueWaitClosed, StartDrain, DrainItem, DrainClosed,
              DrainEmpty, Recv, ClosedAndEmpty
<1>3. CASE CloseQueue
  BY <1>3 DEF CloseQueue, consumerVars
<1>4. CASE UNCHANGED queueVars
  BY <1>4 DEF queueVars
<1> QED
  BY <1>1, <1>2, <1>3, <1>4 DEF QueueNext

(* A drained queue has delivered what it accepted.                         *)
LEMMA EmptyIsDelivered ==
    ASSUME QueueInv, ch = << >>
    PROVE  delivered = accepted
<1>1. delivered \in Seq(Items)
  BY DEF QueueInv, QueueTypeOK
<1>2. delivered \o << >> = delivered
  BY <1>1
<1> QED
  BY <1>2 DEF QueueInv, FifoExactlyOnce

(* A caller that stops at a zero value has missed nothing.                 *)
THEOREM QueueZeroMeansDrained == QueueSpec => []ZeroMeansDrained
<1>1. QueueInit => PhantomInv
  BY DEF QueueInit, PhantomInv
<1>2. QueueInv /\ PhantomInv => ZeroMeansDrained
  BY EmptyIsDelivered DEF PhantomInv, ZeroMeansDrained
<1> QED
  BY <1>1, <1>2, PhantomStep, QueueInvariant, PTL DEF QueueSpec

-----------------------------------------------------------------------------
(* What Close does *)

(* No step of a closed queue opens it or takes an item in.                 *)
LEMMA CloseStep ==
    ASSUME QueueTypeOK, closed, [QueueNext]_queueVars
    PROVE  closed' /\ accepted' = accepted
<1>1. ASSUME NEW p \in Producers, Produce(p) PROVE closed' /\ accepted' = accepted
  BY <1>1 DEF Produce, Call, Send, ChanOpen, SendOnClosed, EnqueueFull,
              EnqueueWaitCancelled
<1>2. ASSUME NEW c \in Consumers, Consume(c) PROVE closed' /\ accepted' = accepted
  BY <1>2 DEF Consume, Dequeue, Recv, DequeueWaitClosed, StartDrain, DrainItem,
              DrainClosed, DrainEmpty, producerVars
<1>3. CASE CloseQueue
  BY <1>3 DEF CloseQueue, producerVars
<1>4. CASE UNCHANGED queueVars
  BY <1>4 DEF queueVars
<1> QED
  BY <1>1, <1>2, <1>3, <1>4 DEF QueueNext

(* After Close nothing enters the channel and the queue stays closed: a    *)
(* call that had passed its check before Close cannot slip an item in.     *)
THEOREM QueueCloseStopsIntake == QueueSpec => CloseStopsIntake
<1>1. QueueTypeOK /\ [QueueNext]_queueVars
          => [closed => closed' /\ accepted' = accepted]_queueVars
  BY CloseStep
<1> QED
  BY <1>1, QueueTypeCorrect, PTL DEF QueueSpec, CloseStopsIntake

-----------------------------------------------------------------------------
(* Facts for the owners of a queue, WorkerPool and Pipeline *)

(* The head of the channel has not been received before.                   *)
LEMMA HeadIsNew ==
    ASSUME QueueInv, ch # << >>
    PROVE  Head(ch) \in Items /\ Head(ch) \notin ToSet(delivered)
<1>1. /\ ch \in Seq(Items) /\ delivered \in Seq(Items)
      /\ accepted = delivered \o ch /\ IsInjective(accepted)
  BY DEF QueueInv, QueueTypeOK, FifoExactlyOnce
<1>2. /\ Len(delivered \o ch) = Len(delivered) + Len(ch)
      /\ delivered \o ch \in Seq(Items)
      /\ \A i \in 1 .. Len(delivered) + Len(ch) :
            (delivered \o ch)[i] = IF i <= Len(delivered) THEN delivered[i]
                                                        ELSE ch[i - Len(delivered)]
  BY <1>1, ConcatProperties
<1>3. Len(delivered) \in Nat /\ Len(ch) \in Nat \ {0} /\ Head(ch) = ch[1]
      /\ Head(ch) \in Items
  BY <1>1, LenProperties, EmptySeq, HeadTailProperties
<1> DEFINE n == Len(delivered) + 1
<1>4. n \in 1 .. Len(delivered) + Len(ch) /\ accepted[n] = Head(ch)
  BY <1>1, <1>2, <1>3
<1>5. DOMAIN accepted = 1 .. Len(delivered) + Len(ch)
  BY <1>1, <1>2, LenProperties
<1>6. \A i \in 1 .. Len(delivered) :
          i \in DOMAIN accepted /\ accepted[i] = delivered[i] /\ i # n
  BY <1>1, <1>2, <1>3, <1>5
<1> HIDE DEF n
<1>7. \A i \in 1 .. Len(delivered) : delivered[i] # Head(ch)
  <2>1. \A i, j \in DOMAIN accepted : accepted[i] = accepted[j] => i = j
    BY <1>1 DEF IsInjective
  <2>2. n \in DOMAIN accepted
    BY <1>4, <1>5
  <2> QED
    BY <1>4, <1>6, <2>1, <2>2
<1>8. DOMAIN delivered = 1 .. Len(delivered)
  BY <1>1, LenProperties
<1> QED
  BY <1>3, <1>7, <1>8 DEF ToSet

(* The histories of the queue only grow, and a closed, empty channel stays *)
(* so with nothing more accepted.                                          *)
LEMMA QueueOnlyGrows ==
    ASSUME QueueInv, [QueueNext]_queueVars
    PROVE  /\ ToSet(accepted) \subseteq ToSet(accepted')
           /\ ToSet(delivered) \subseteq ToSet(delivered')
           /\ closed => closed' /\ accepted' = accepted
           /\ closed /\ ch = << >> => ch' = << >>
<1>0. QueueTypeOK
  BY DEF QueueInv
<1>1. ASSUME NEW p \in Producers, Produce(p)
      PROVE  /\ ToSet(accepted) \subseteq ToSet(accepted')
             /\ delivered' = delivered
             /\ closed => ch' = ch
  <2>1. CASE Send(p)
    BY <1>0, <2>1, ToSetAppend DEF Send, ChanOpen, QueueTypeOK, Calls, consumerVars
  <2> QED
    BY <1>1, <2>1 DEF Produce, Call, SendOnClosed, EnqueueFull, EnqueueWaitCancelled,
                      consumerVars
<1>2. ASSUME NEW c \in Consumers, Consume(c)
      PROVE  /\ accepted' = accepted
             /\ ToSet(delivered) \subseteq ToSet(delivered')
             /\ ch = << >> => ch' = << >>
  <2>1. CASE Recv
    BY <1>0, <2>1, TypeRecv, ToSetAppend DEF Recv, producerVars, QueueTypeOK
  <2> QED
    BY <1>2, <2>1 DEF Consume, Dequeue, DequeueWaitClosed, StartDrain, DrainItem,
                      DrainClosed, DrainEmpty, producerVars
<1>3. CASE CloseQueue \/ UNCHANGED queueVars
  BY <1>3 DEF CloseQueue, producerVars, consumerVars, queueVars
<1> QED
  BY <1>0, <1>1, <1>2, <1>3, CloseStep DEF QueueNext

-----------------------------------------------------------------------------
(* Refinement of FifoDelivery *)

(* A new queue is a new abstract buffer.                                   *)
LEMMA FifoInitHolds == QueueInit => Fifo!FifoInit
BY DEF QueueInit, Fifo!FifoInit

(* A receive is a Deliver step of the abstract buffer.                     *)
LEMMA RecvDelivers ==
    ASSUME QueueInv, QueueInv', Recv
    PROVE  Fifo!Deliver
<1>1. /\ delivered \in Seq(Items) /\ Head(ch) \in Items
      /\ delivered' = Append(delivered, Head(ch))
      /\ delivered' \in Seq(Items) /\ ch' \in Seq(Items)
      /\ accepted' = delivered' \o ch'
      /\ accepted' = accepted /\ closed' = closed
  BY TypeRecv DEF QueueInv, QueueTypeOK, FifoExactlyOnce, Recv, producerVars
<1>2. IsPrefix(delivered, delivered')
  BY <1>1, PrefixOfAppend
<1>3. IsPrefix(delivered', accepted)
  BY <1>1, PrefixOfConcat
<1> QED
  BY <1>1, <1>2, <1>3 DEF Fifo!Deliver, Fifo!IsPrefix, IsPrefix

(* Every step is a step of the abstract buffer or leaves it alone.         *)
LEMMA FifoStep ==
    ASSUME QueueInv, QueueInv', [QueueNext]_queueVars
    PROVE  [Fifo!FifoNext]_Fifo!fifoVars
<1> USE DEF Fifo!FifoNext, Fifo!fifoVars
<1>1. ASSUME NEW p \in Producers, Send(p) PROVE Fifo!Accept
  <2>1. /\ accepted \in Seq(Items) /\ call[p].item \in Items
        /\ accepted' = Append(accepted, call[p].item)
        /\ ~closed /\ closed' = closed /\ delivered' = delivered
    BY <1>1 DEF Send, ChanOpen, QueueInv, QueueTypeOK, Calls, consumerVars
  <2>2. IsPrefix(accepted, accepted')
    BY <2>1, PrefixOfAppend
  <2> QED
    BY <2>1, <2>2 DEF Fifo!Accept, Fifo!IsPrefix, IsPrefix
<1>2. ASSUME NEW p \in Producers, Produce(p), ~Send(p)
      PROVE  UNCHANGED <<closed, accepted, delivered>>
  BY <1>2 DEF Produce, Call, SendOnClosed, EnqueueFull, EnqueueWaitCancelled, consumerVars
<1>3. ASSUME NEW c \in Consumers, Consume(c)
      PROVE  Recv \/ UNCHANGED <<closed, accepted, delivered>>
  BY <1>3 DEF Consume, Dequeue, DequeueWaitClosed, StartDrain, DrainItem,
              DrainClosed, DrainEmpty, producerVars
<1>4. CASE CloseQueue
  <2>1. closed' /\ UNCHANGED <<accepted, delivered>>
    BY <1>4 DEF CloseQueue, producerVars, consumerVars
  <2>2. closed \in BOOLEAN /\ closed' \in BOOLEAN
    BY DEF QueueInv, QueueTypeOK
  <2> QED
    BY <2>1, <2>2 DEF Fifo!Close
<1>5. CASE UNCHANGED queueVars
  BY <1>5 DEF queueVars
<1> QED
  BY <1>1, <1>2, <1>3, <1>4, <1>5, RecvDelivers DEF QueueNext

(* The queue implements the abstract FIFO buffer.                          *)
THEOREM QueueImplementsFifo == QueueSpec => ImplementsFifo
<1>1. QueueInv /\ QueueInv' /\ [QueueNext]_queueVars => [Fifo!FifoNext]_Fifo!fifoVars
  BY FifoStep
<1> QED
  BY <1>1, FifoInitHolds, QueueInvariant, PTL
     DEF QueueSpec, ImplementsFifo, Fifo!FifoSpec
=============================================================================
