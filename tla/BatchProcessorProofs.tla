------------------------- MODULE BatchProcessorProofs -----------------------
(***************************************************************************)
(* Theorems about BatchProcessor, for any spans, resources, batch size and *)
(* number of timers.                                                       *)
(***************************************************************************)
EXTENDS BatchProcessor, SeqLemmas

-----------------------------------------------------------------------------
(* Type correctness *)

(* What an entry of a TracesData carries: a resource, a span or NoSpan.    *)
LEMMA EntryTypes ==
    \A e \in Entries : e.res \in Resources /\ (e.span \in Spans \/ e.span = NoSpan)
<1> SUFFICES ASSUME NEW e \in Entries
             PROVE  e.res \in Resources /\ (e.span \in Spans \/ e.span = NoSpan)
  OBVIOUS
<1>1. CASE e \in [res : Resources, span : {NoSpan}]
  BY <1>1
<1>2. ASSUME NEW s \in Spans, e = [res |-> ResourceOf[s], span |-> s]
      PROVE  e.res \in Resources /\ e.span \in Spans
  BY <1>2, BatchAssumption
<1> QED
  BY <1>1, <1>2 DEF Entries

(* A new processor has the right type.                                     *)
LEMMA BatchTypeInit == BatchInit => BatchTypeOK
<1> SUFFICES ASSUME BatchInit PROVE BatchTypeOK
  OBVIOUS
<1>1. << >> \in Seq(Spans) /\ << >> \in Seq(Entries)
  OBVIOUS
<1>2. lastExport \in [res : SUBSET Resources, spans : Seq(Spans)]
  BY <1>1 DEF BatchInit
<1> QED
  BY <1>1, <1>2 DEF BatchInit, BatchTypeOK

(* flushLocked keeps the type of what it changes.                          *)
LEMMA FlushTypes ==
    ASSUME BatchTypeOK, FlushLocked
    PROVE  /\ batch' \in Seq(Spans)
           /\ timer' \in Timers \cup {NoTimer}
           /\ armed' \in SUBSET Timers
           /\ sent' \in Seq(Spans)
           /\ lastExport' \in [res : SUBSET Resources, spans : Seq(Spans)]
<1> USE DEF BatchTypeOK
<1>1. CASE batch = << >>
  BY <1>1 DEF FlushLocked
<1>2. CASE batch # << >>
  <2>1. ExportBatch
    BY <1>2 DEF FlushLocked
  <2>2. sent' \in Seq(Spans)
    BY <2>1, ConcatProperties DEF ExportBatch
  <2> QED
    BY <2>1, <2>2 DEF ExportBatch, StopTimer
<1> QED
  BY <1>1, <1>2

(* Every step keeps the type.                                              *)
LEMMA BatchTypeNext == BatchTypeOK /\ [BatchNext]_batchVars => BatchTypeOK'
<1> SUFFICES ASSUME BatchTypeOK, [BatchNext]_batchVars PROVE BatchTypeOK'
  OBVIOUS
<1> USE DEF BatchTypeOK
<1>1. ASSUME NEW td \in Payloads, BeginProcess(td) PROVE BatchTypeOK'
  <2>1. td \in Seq(Entries)
    BY BatchAssumption DEF Payloads
  <2> QED
    BY <1>1, <2>1 DEF BeginProcess
<1>2. CASE ProcessEntry
  <2> DEFINE e == Head(todo)
  <2>1. e \in Entries /\ Tail(todo) \in Seq(Entries)
    BY <1>2, HeadTailProperties DEF ProcessEntry
  <2>2. e.res \in Resources /\ (e.span \in Spans \/ e.span = NoSpan)
    BY <2>1, EntryTypes
  <2> HIDE DEF e
  <2>3. CASE e.span = NoSpan
    BY <1>2, <2>1, <2>2, <2>3 DEF ProcessEntry, e
  <2>4. CASE e.span # NoSpan
    <3>1. batch' = Append(batch, e.span) /\ accepted' = Append(accepted, e.span)
      BY <1>2, <2>4 DEF ProcessEntry, e
    <3>2. batch' \in Seq(Spans) /\ accepted' \in Seq(Spans)
      BY <2>2, <2>4, <3>1, AppendProperties
    <3> QED
      BY <1>2, <2>1, <2>2, <3>2 DEF ProcessEntry, e
  <2> QED
    BY <2>3, <2>4
<1>3. CASE FlushFull
  BY <1>3, FlushTypes DEF FlushFull
<1>4. CASE EndProcess
  BY <1>4 DEF EndProcess
<1>5. ASSUME NEW t \in Timers, TimerFires(t) PROVE BatchTypeOK'
  BY <1>5 DEF TimerFires
<1>6. ASSUME NEW t \in Timers, TimerFlush(t) PROVE BatchTypeOK'
  BY <1>6, FlushTypes DEF TimerFlush
<1>7. CASE Flush
  BY <1>7, FlushTypes DEF Flush
<1>8. CASE UNCHANGED batchVars
  BY <1>8 DEF batchVars
<1> QED
  BY <1>1, <1>2, <1>3, <1>4, <1>5, <1>6, <1>7, <1>8 DEF BatchNext

(* Every reachable state of the processor is well typed.                   *)
THEOREM BatchTypeCorrect == BatchSpec => []BatchTypeOK
BY BatchTypeInit, BatchTypeNext, PTL DEF BatchSpec

-----------------------------------------------------------------------------
(* The inductive invariant.  To the properties it adds that bp.timer is    *)
(* never a timer that has come and gone, also while a call holds the       *)
(* mutex: without it, the end of the call could not rely on bp.timer # nil.*)

TimerIsPending == timer # NoTimer => timer \in armed \cup firing

BatchInv ==
    /\ BatchTypeOK
    /\ SpansExactlyOnce
    /\ WaitingSpansHaveTimer
    /\ NoStrayTimer
    /\ ExportsAreBounded
    /\ TimerIsPending

(* The conjuncts that are about more than types.                           *)
Parts == /\ SpansExactlyOnce /\ WaitingSpansHaveTimer /\ NoStrayTimer
         /\ ExportsAreBounded /\ TimerIsPending

(* A new processor satisfies the invariant.                                *)
LEMMA BatchInvInit == BatchInit => BatchInv
<1> SUFFICES ASSUME BatchInit PROVE BatchInv
  OBVIOUS
<1>1. << >> \o << >> = << >> /\ Len(<< >>) = 0
  OBVIOUS
<1>2. BatchTypeOK
  BY BatchTypeInit
<1> QED
  BY <1>1, <1>2, BatchAssumption
     DEF BatchInit, BatchInv, SpansExactlyOnce, WaitingSpansHaveTimer, NoStrayTimer,
         ExportsAreBounded, TimerIsPending

(* flushLocked, whoever calls it: afterwards nothing waits, no timer is    *)
(* set, and the spans that left are the ones that waited.                  *)
LEMMA FlushEffect ==
    ASSUME BatchInv, FlushLocked, UNCHANGED accepted
    PROVE  /\ batch' = << >>
           /\ timer' = NoTimer
           /\ armed' = {}
           /\ SpansExactlyOnce'
           /\ Len(lastExport'.spans) <= MaxBatchSize
           /\ IsPrefix(sent, sent') /\ IsPrefix(sent', accepted)
<1> USE DEF BatchInv
<1>0. sent \in Seq(Spans) /\ batch \in Seq(Spans)
  BY DEF BatchTypeOK
<1>1. CASE batch = << >>
  <2>1. UNCHANGED <<batch, timer, armed, sent, lastExport>>
    BY <1>1 DEF FlushLocked
  <2>2. timer = NoTimer /\ armed = {}
    BY <1>1, BatchAssumption DEF NoStrayTimer, BatchTypeOK
  <2>3. accepted = sent
    BY <1>0, <1>1, ConcatEmptySeq DEF SpansExactlyOnce
  <2>4. IsPrefix(sent, sent)
    BY <1>0, PrefixReflexive
  <2> QED
    BY <1>1, <2>1, <2>2, <2>3, <2>4 DEF SpansExactlyOnce, ExportsAreBounded
<1>2. CASE batch # << >>
  <2>1. /\ batch' = << >> /\ timer' = NoTimer /\ armed' = armed \ {timer}
        /\ sent' = sent \o batch
        /\ lastExport' = [res |-> res, spans |-> batch]
    BY <1>2 DEF FlushLocked, ExportBatch, StopTimer
  <2>2. armed' = {}
    BY <2>1 DEF NoStrayTimer
  <2>3. accepted = sent' /\ sent' \in Seq(Spans)
    BY <1>0, <2>1, ConcatProperties DEF SpansExactlyOnce
  <2>4. sent' \o batch' = sent'
    BY <2>1, <2>3, ConcatEmptySeq
  <2>5. SpansExactlyOnce'
    BY <2>3, <2>4 DEF SpansExactlyOnce
  <2>6. IsPrefix(sent, sent')
    BY <1>0, <2>1, PrefixOfConcat
  <2>7. IsPrefix(sent', accepted)
    BY <2>3, PrefixReflexive
  <2> QED
    BY <2>1, <2>2, <2>5, <2>6, <2>7 DEF ExportsAreBounded
<1> QED
  BY <1>1, <1>2

(* flushLocked keeps every part of the invariant.                          *)
LEMMA FlushKeepsParts ==
    ASSUME BatchInv, FlushLocked, UNCHANGED accepted
    PROVE  Parts'
<1>1. /\ batch' = << >> /\ timer' = NoTimer /\ armed' = {}
      /\ SpansExactlyOnce' /\ Len(lastExport'.spans) <= MaxBatchSize
  BY FlushEffect
<1>2. Len(<< >>) = 0
  OBVIOUS
<1> QED
  BY <1>1, <1>2, BatchAssumption
     DEF Parts, WaitingSpansHaveTimer, NoStrayTimer, ExportsAreBounded, TimerIsPending

(* Every step keeps the invariant: one case per action.                    *)
LEMMA BatchInvNext == BatchInv /\ [BatchNext]_batchVars => BatchInv'
<1> SUFFICES ASSUME BatchInv, [BatchNext]_batchVars PROVE Parts'
  BY BatchTypeNext DEF BatchInv, Parts
<1> USE DEF BatchInv
<1>0. /\ batch \in Seq(Spans) /\ sent \in Seq(Spans) /\ accepted \in Seq(Spans)
      /\ Len(batch) \in Nat /\ MaxBatchSize \in Nat \ {0}
  BY BatchAssumption, LenProperties DEF BatchTypeOK
<1>1. ASSUME NEW td \in Payloads, BeginProcess(td) PROVE Parts'
  BY <1>1 DEF BeginProcess, Parts, SpansExactlyOnce, WaitingSpansHaveTimer,
              NoStrayTimer, ExportsAreBounded, TimerIsPending
<1>2. CASE ProcessEntry
  <2>1. locked' /\ locked /\ ~Full /\ UNCHANGED <<timer, armed, firing, sent, lastExport>>
    BY <1>2 DEF ProcessEntry
  <2>2. CASE UNCHANGED <<batch, accepted>>
    BY <2>1, <2>2 DEF Parts, SpansExactlyOnce, WaitingSpansHaveTimer,
                      NoStrayTimer, ExportsAreBounded, TimerIsPending
  <2>3. CASE ~UNCHANGED <<batch, accepted>>
    <3> DEFINE s == Head(todo).span
    <3>1. s \in Spans /\ batch' = Append(batch, s) /\ accepted' = Append(accepted, s)
      <4>1. Head(todo) \in Entries
        BY <1>2, HeadTailProperties DEF ProcessEntry, BatchTypeOK
      <4> QED
        BY <1>2, <2>3, <4>1, EntryTypes DEF ProcessEntry
    <3> HIDE DEF s
    <3>2. sent \o Append(batch, s) = Append(sent \o batch, s)
      BY <1>0, <3>1, ConcatAppend
    <3>3. SpansExactlyOnce'
      BY <2>1, <3>1, <3>2 DEF SpansExactlyOnce
    <3>4. batch' # << >> /\ Len(batch') = Len(batch) + 1
      BY <1>0, <3>1, AppendProperties
    <3>5. ExportsAreBounded'
      BY <1>0, <2>1, <3>4 DEF Full, ExportsAreBounded
    <3> QED
      BY <2>1, <3>3, <3>4, <3>5 DEF Parts, WaitingSpansHaveTimer, NoStrayTimer,
                                    TimerIsPending
  <2> QED
    BY <2>2, <2>3
<1>3. CASE FlushFull
  BY <1>3, FlushKeepsParts DEF FlushFull
<1>4. CASE EndProcess
  <2>1. ~locked' /\ ~Full /\ UNCHANGED <<batch, firing, accepted, sent, lastExport>>
    BY <1>4 DEF EndProcess
  <2>2. SpansExactlyOnce' /\ ExportsAreBounded'
    BY <1>0, <2>1 DEF SpansExactlyOnce, ExportsAreBounded, Full
  <2>3. CASE NeedsTimer
    <3>1. PICK t \in Timers : timer' = t /\ armed' = armed \cup {t}
      BY <1>4, <2>3 DEF EndProcess
    <3>2. armed = {} /\ batch # << >>
      BY <2>3, BatchAssumption DEF NeedsTimer, NoStrayTimer, BatchTypeOK
    <3> QED
      BY <2>1, <2>2, <3>1, <3>2, BatchAssumption
         DEF Parts, WaitingSpansHaveTimer, NoStrayTimer, TimerIsPending
  <2>4. CASE ~NeedsTimer
    <3>1. UNCHANGED <<timer, armed>>
      BY <1>4, <2>4 DEF EndProcess
    <3> QED
      BY <2>1, <2>2, <2>4, <3>1
         DEF NeedsTimer, Parts, WaitingSpansHaveTimer, NoStrayTimer, TimerIsPending
  <2> QED
    BY <2>3, <2>4
<1>5. ASSUME NEW t \in Timers, TimerFires(t) PROVE Parts'
  <2>1. SpansExactlyOnce' /\ ExportsAreBounded'
    BY <1>5 DEF TimerFires, SpansExactlyOnce, ExportsAreBounded
  <2>2. armed' = armed \ {t} /\ firing' = firing \cup {t}
        /\ UNCHANGED <<timer, batch, locked>>
    BY <1>5 DEF TimerFires
  <2> QED
    BY <2>1, <2>2 DEF Parts, WaitingSpansHaveTimer, NoStrayTimer, TimerIsPending
<1>6. ASSUME NEW t \in Timers, TimerFlush(t) PROVE Parts'
  BY <1>6, FlushKeepsParts DEF TimerFlush
<1>7. CASE Flush
  BY <1>7, FlushKeepsParts DEF Flush
<1>8. CASE UNCHANGED batchVars
  BY <1>8 DEF batchVars, Parts, SpansExactlyOnce, WaitingSpansHaveTimer,
              NoStrayTimer, ExportsAreBounded, TimerIsPending
<1> QED
  BY <1>1, <1>2, <1>3, <1>4, <1>5, <1>6, <1>7, <1>8 DEF BatchNext

(* The inductive invariant holds of the specification.                     *)
LEMMA BatchInvariant == BatchSpec => []BatchInv
BY BatchInvInit, BatchInvNext, PTL DEF BatchSpec

(* No span is lost, duplicated or reordered on its way to the exporter.    *)
THEOREM BatchSendsExactlyOnce == BatchSpec => []SpansExactlyOnce
BY BatchInvariant, PTL DEF BatchInv

(* A batch that waits is always backed by a timer that will flush it, in   *)
(* spite of stale callbacks and of Stop coming too late.                   *)
THEOREM BatchNeverForgotten == BatchSpec => []WaitingSpansHaveTimer
BY BatchInvariant, PTL DEF BatchInv

(* Flushing leaves no timer armed.                                         *)
THEOREM BatchTimersDoNotPileUp == BatchSpec => []NoStrayTimer
BY BatchInvariant, PTL DEF BatchInv

(* Exports respect MaxBatchSize.                                           *)
THEOREM BatchSizeRespected == BatchSpec => []ExportsAreBounded
BY BatchInvariant, PTL DEF BatchInv

-----------------------------------------------------------------------------
(* Refinement of FifoDelivery *)

(* flushLocked is a Deliver step of the abstract buffer, or nothing.       *)
LEMMA FlushDelivers ==
    ASSUME BatchInv, FlushLocked, UNCHANGED accepted
    PROVE  BatchFifo!Deliver
BY FlushEffect DEF BatchFifo!Deliver, BatchFifo!IsPrefix, IsPrefix

(* Every step is a step of the abstract buffer or leaves it alone.         *)
LEMMA BatchFifoStep ==
    ASSUME BatchInv, BatchInv', [BatchNext]_batchVars
    PROVE  [BatchFifo!FifoNext]_BatchFifo!fifoVars
<1> USE DEF BatchFifo!FifoNext, BatchFifo!fifoVars
<1>1. ASSUME NEW td \in Payloads, BeginProcess(td) PROVE UNCHANGED <<accepted, sent>>
  BY <1>1 DEF BeginProcess
<1>2. CASE ProcessEntry
  <2>1. accepted \in Seq(Spans) /\ sent' = sent
    BY <1>2 DEF ProcessEntry, BatchInv, BatchTypeOK
  <2>2. CASE accepted' = accepted
    BY <2>1, <2>2
  <2>3. CASE accepted' # accepted
    <3> DEFINE s == Head(todo).span
    <3>1. s \in Spans /\ accepted' = Append(accepted, s)
      <4>1. Head(todo) \in Entries
        BY <1>2, HeadTailProperties DEF ProcessEntry, BatchInv, BatchTypeOK
      <4> QED
        BY <1>2, <2>3, <4>1, EntryTypes DEF ProcessEntry
    <3>2. IsPrefix(accepted, accepted')
      BY <2>1, <3>1, PrefixOfAppend
    <3> QED
      BY <2>1, <3>2 DEF BatchFifo!Accept, BatchFifo!IsPrefix, IsPrefix
  <2> QED
    BY <2>2, <2>3
<1>3. CASE FlushFull
  BY <1>3, FlushDelivers DEF FlushFull
<1>4. CASE EndProcess
  BY <1>4 DEF EndProcess
<1>5. ASSUME NEW t \in Timers, TimerFires(t) PROVE UNCHANGED <<accepted, sent>>
  BY <1>5 DEF TimerFires
<1>6. ASSUME NEW t \in Timers, TimerFlush(t) PROVE BatchFifo!Deliver
  BY <1>6, FlushDelivers DEF TimerFlush
<1>7. CASE Flush
  BY <1>7, FlushDelivers DEF Flush
<1>8. CASE UNCHANGED batchVars
  BY <1>8 DEF batchVars
<1> QED
  BY <1>1, <1>2, <1>3, <1>4, <1>5, <1>6, <1>7, <1>8 DEF BatchNext

(* The batch processor implements the abstract FIFO buffer.                *)
THEOREM BatchIsFifo == BatchSpec => BatchImplementsFifo
<1>1. BatchInit => BatchFifo!FifoInit
  BY DEF BatchInit, BatchFifo!FifoInit
<1>2. BatchInv /\ BatchInv' /\ [BatchNext]_batchVars
          => [BatchFifo!FifoNext]_BatchFifo!fifoVars
  BY BatchFifoStep
<1> QED
  BY <1>1, <1>2, BatchInvariant, PTL
     DEF BatchSpec, BatchImplementsFifo, BatchFifo!FifoSpec
=============================================================================
