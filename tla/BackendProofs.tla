---------------------------- MODULE BackendProofs ----------------------------
(***************************************************************************)
(* Theorems about the places payloads go to and come back from: the client *)
(* of InfluxDB, the in-memory store, the Kafka exporter and receiver, the  *)
(* query service with its adjusters and the archive, the headers with      *)
(* which a context goes from service to service, and the converters from   *)
(* and to the protocol models.  The components do not interact; each part  *)
(* below is about one of them.                                             *)
(***************************************************************************)
EXTENDS MemoryStore, InfluxClient, Kafka, Query, Propagation, Converters, SeqLemmas,
        FiniteSetTheorems

-----------------------------------------------------------------------------
(* InfluxClient *)

(* Where a writer may still send, or has just sent.                        *)
Sends == {"resetting", "ready", "backoff", "failed", "tripping", "succeeded", "closing",
          "refused", "refusing"}

(* Why the breaker sheds load: while the circuit is closed nothing is      *)
(* counted, and a call past the check has sent no more than its attempts.  *)
ShedsInv ==
    /\ ~circuitOpen => \A w \in Writers : sentOpen[w] = 0
    /\ \A w \in Writers :
          /\ sentOpen[w] <= Attempts
          /\ writerAt[w] \in Sends => sentOpen[w] <= attempt[w]
          /\ writerAt[w] \in {"ready", "backoff"} => attempt[w] < Attempts

(* What a call that is under way knows of its points.                      *)
OutcomeInv ==
    \A w \in Writers :
       /\ writerAt[w] \in {"succeeded", "closing"} => applied[w]
       /\ writerAt[w] \in {"locking", "resetting"} => attempt[w] = 0
       /\ writerAt[w] \in {"failed", "tripping", "backoff"} => attempt[w] > 0
       /\ writerAt[w] \in {"locking", "resetting", "ready"} /\ attempt[w] = 0 => ~applied[w]
       /\ writerAt[w] = "idle" /\ outcome[w] = "ok" => applied[w]
       /\ writerAt[w] = "idle" /\ outcome[w] \in {"open", "encode"} =>
              ~applied[w] /\ attempt[w] = 0

InfluxInv == InfluxTypeOK /\ ShedsInv /\ OutcomeInv

(* The bounds, one by one.                                                 *)
LEMMA InfluxBounds ==
    /\ Attempts \in Nat /\ Attempts >= 1
    /\ Window \in Nat /\ MaxNow \in Nat /\ MaxWrites \in Nat
BY InfluxAssumption

(* A new client satisfies the invariant.                                   *)
LEMMA InfluxInvInit == InfluxInit => InfluxInv
<1> SUFFICES ASSUME InfluxInit PROVE InfluxInv
  OBVIOUS
<1>0. circuitOpen \in BOOLEAN /\ applied \in [Writers -> BOOLEAN]
  BY DEF InfluxInit
<1>1. InfluxTypeOK
  BY <1>0, InfluxBounds DEF InfluxInit, InfluxTypeOK, Places
<1>2. ShedsInv
  BY InfluxBounds DEF InfluxInit, ShedsInv, Sends
<1>3. OutcomeInv
  BY DEF InfluxInit, OutcomeInv
<1> QED
  BY <1>1, <1>2, <1>3 DEF InfluxInv

(* Every step keeps the types.                                             *)
LEMMA InfluxTypeStep == InfluxTypeOK /\ ShedsInv /\ [InfluxNext]_influxVars => InfluxTypeOK'
<1> SUFFICES ASSUME InfluxTypeOK, ShedsInv, [InfluxNext]_influxVars PROVE InfluxTypeOK'
  OBVIOUS
<1> USE InfluxBounds DEF InfluxTypeOK, Places, breaker, WriterTo, WriteReturns
<1>1. ASSUME NEW w \in Writers, WriteCall(w) PROVE InfluxTypeOK'
  <2>1. writerAt' \in [Writers -> Places] /\ calls' \in 0..MaxWrites
    BY <1>1 DEF WriteCall
  <2>2. attempt' \in [Writers -> 0..Attempts] /\ applied' \in [Writers -> BOOLEAN]
    BY <1>1 DEF WriteCall
  <2> QED
    BY <1>1, <2>1, <2>2 DEF WriteCall
<1>2. ASSUME NEW w \in Writers, CheckWindow(w) PROVE InfluxTypeOK'
  <2>0. circuitOpen' \in BOOLEAN
    BY <1>2 DEF CheckWindow
  <2>1. circuitMu' \subseteq Writers /\ sentOpen' \in [Writers -> Nat]
    BY <1>2 DEF CheckWindow
  <2>2. /\ writerAt' \in [Writers -> Places]
        /\ outcome' \in [Writers -> {"none", "ok", "open", "encode", "ctx", "client", "server"}]
    BY <1>2 DEF CheckWindow
  <2> QED
    BY <1>2, <2>0, <2>1, <2>2 DEF CheckWindow
<1>3. ASSUME NEW w \in Writers, ClearFailures(w) PROVE InfluxTypeOK'
  BY <1>3 DEF ClearFailures
<1>4. ASSUME NEW w \in Writers, EncodeError(w) PROVE InfluxTypeOK'
  BY <1>4 DEF EncodeError
<1>5. ASSUME NEW w \in Writers, SendWrite(w) PROVE InfluxTypeOK'
  <2>1. writerAt' \in [Writers -> Places] /\ attempt' \in [Writers -> 0..Attempts]
    BY <1>5 DEF SendWrite, ShedsInv
  <2>2. applied' \in [Writers -> BOOLEAN]
    BY <1>5 DEF SendWrite
  <2>3. sentOpen' \in [Writers -> Nat]
    BY <1>5 DEF SendWrite
  <2> QED
    BY <1>5, <2>1, <2>2, <2>3 DEF SendWrite
<1>6. ASSUME NEW w \in Writers, CountFailure(w) PROVE InfluxTypeOK'
  BY <1>6 DEF CountFailure, AfterFailure
<1>7. ASSUME NEW w \in Writers, Trip(w) PROVE InfluxTypeOK'
  BY <1>7 DEF Trip, AfterFailure
<1>8. ASSUME NEW w \in Writers, Backoff(w) PROVE InfluxTypeOK'
  BY <1>8 DEF Backoff
<1>9. ASSUME NEW w \in Writers, SuccessClears(w) PROVE InfluxTypeOK'
  BY <1>9 DEF SuccessClears
<1>10. ASSUME NEW w \in Writers, SuccessCloses(w) PROVE InfluxTypeOK'
  BY <1>10 DEF SuccessCloses
<1>11. CASE InfluxTick
  BY <1>11 DEF InfluxTick
<1>12. CASE UNCHANGED influxVars
  BY <1>12 DEF influxVars
<1> QED
  BY <1>1, <1>2, <1>3, <1>4, <1>5, <1>6, <1>7, <1>8, <1>9, <1>10, <1>11, <1>12
     DEF InfluxNext, InfluxStep

(* No step lets a call send more than its attempts under an open circuit.  *)
LEMMA ShedsStep ==
    InfluxTypeOK /\ ShedsInv /\ OutcomeInv /\ [InfluxNext]_influxVars => ShedsInv'
<1> SUFFICES ASSUME InfluxTypeOK, ShedsInv, OutcomeInv, [InfluxNext]_influxVars PROVE ShedsInv'
  OBVIOUS
<1> USE InfluxBounds DEF InfluxTypeOK, ShedsInv, Sends, Places, breaker, WriterTo, WriteReturns
<1>1. ASSUME NEW w \in Writers, WriteCall(w) PROVE ShedsInv'
  BY <1>1 DEF WriteCall
<1>2. ASSUME NEW w \in Writers, CheckWindow(w) PROVE ShedsInv'
  BY <1>2 DEF CheckWindow, OutcomeInv
<1>3. ASSUME NEW w \in Writers, ClearFailures(w) PROVE ShedsInv'
  BY <1>3 DEF ClearFailures, OutcomeInv
<1>4. ASSUME NEW w \in Writers, EncodeError(w) PROVE ShedsInv'
  BY <1>4 DEF EncodeError
<1>5. ASSUME NEW w \in Writers, SendWrite(w) PROVE ShedsInv'
  BY <1>5 DEF SendWrite
<1>6. ASSUME NEW w \in Writers, CountFailure(w) PROVE ShedsInv'
  BY <1>6 DEF CountFailure, AfterFailure
<1>7. ASSUME NEW w \in Writers, Trip(w) PROVE ShedsInv'
  BY <1>7 DEF Trip, AfterFailure
<1>8. ASSUME NEW w \in Writers, Backoff(w) PROVE ShedsInv'
  BY <1>8 DEF Backoff
<1>9. ASSUME NEW w \in Writers, SuccessClears(w) PROVE ShedsInv'
  BY <1>9 DEF SuccessClears
<1>10. ASSUME NEW w \in Writers, SuccessCloses(w) PROVE ShedsInv'
  BY <1>10 DEF SuccessCloses
<1>11. CASE InfluxTick
  BY <1>11 DEF InfluxTick
<1>12. CASE UNCHANGED influxVars
  BY <1>12 DEF influxVars
<1> QED
  BY <1>1, <1>2, <1>3, <1>4, <1>5, <1>6, <1>7, <1>8, <1>9, <1>10, <1>11, <1>12
     DEF InfluxNext, InfluxStep

(* No step makes a call report what is not so.                             *)
LEMMA OutcomeStep == InfluxTypeOK /\ OutcomeInv /\ [InfluxNext]_influxVars => OutcomeInv'
<1> SUFFICES ASSUME InfluxTypeOK, OutcomeInv, [InfluxNext]_influxVars PROVE OutcomeInv'
  OBVIOUS
<1> USE InfluxBounds DEF InfluxTypeOK, OutcomeInv, Places, breaker, WriterTo, WriteReturns
<1>1. ASSUME NEW w \in Writers, WriteCall(w) PROVE OutcomeInv'
  BY <1>1 DEF WriteCall
<1>2. ASSUME NEW w \in Writers, CheckWindow(w) PROVE OutcomeInv'
  BY <1>2 DEF CheckWindow
<1>3. ASSUME NEW w \in Writers, ClearFailures(w) PROVE OutcomeInv'
  BY <1>3 DEF ClearFailures
<1>4. ASSUME NEW w \in Writers, EncodeError(w) PROVE OutcomeInv'
  BY <1>4 DEF EncodeError
<1>5. ASSUME NEW w \in Writers, SendWrite(w) PROVE OutcomeInv'
  BY <1>5 DEF SendWrite
<1>6. ASSUME NEW w \in Writers, CountFailure(w) PROVE OutcomeInv'
  BY <1>6 DEF CountFailure, AfterFailure
<1>7. ASSUME NEW w \in Writers, Trip(w) PROVE OutcomeInv'
  BY <1>7 DEF Trip, AfterFailure
<1>8. ASSUME NEW w \in Writers, Backoff(w) PROVE OutcomeInv'
  BY <1>8 DEF Backoff
<1>9. ASSUME NEW w \in Writers, SuccessClears(w) PROVE OutcomeInv'
  BY <1>9 DEF SuccessClears
<1>10. ASSUME NEW w \in Writers, SuccessCloses(w) PROVE OutcomeInv'
  BY <1>10 DEF SuccessCloses
<1>11. CASE InfluxTick
  BY <1>11 DEF InfluxTick
<1>12. CASE UNCHANGED influxVars
  BY <1>12 DEF influxVars
<1> QED
  BY <1>1, <1>2, <1>3, <1>4, <1>5, <1>6, <1>7, <1>8, <1>9, <1>10, <1>11, <1>12
     DEF InfluxNext, InfluxStep

(* While the circuit is open no writer sends more than one call's attempts,*)
(* and what Write returns is true of the server, however the writers       *)
(* interleave with the atomics of the breaker.                             *)
THEOREM InfluxWritesSound == InfluxSpec => []InfluxWritesAreSound
<1>1. InfluxInv /\ [InfluxNext]_influxVars => InfluxInv'
  BY InfluxTypeStep, ShedsStep, OutcomeStep DEF InfluxInv
<1>2. InfluxInv => InfluxWritesAreSound
  BY DEF InfluxInv, ShedsInv, OutcomeInv, InfluxWritesAreSound, BreakerShedsLoad
<1> QED
  BY <1>1, <1>2, InfluxInvInit, PTL DEF InfluxSpec

-----------------------------------------------------------------------------
(* MemoryStore *)

(* The spans a WriteSpans has yet to store are new and distinct.           *)
TodoIsNew == IsInjective(todo) /\ ToSet(todo) \cap ToSet(log) = {}

(* The objects of a response exist; the heap never shrinks.                *)
AnswersExist ==
    \A r \in Readers : answer[r] # NoAnswer =>
        \A i \in DOMAIN answer[r] : answer[r][i].obj \in DOMAIN heap

StoreInv ==
    /\ NewestTracesKept
    /\ TodoIsNew
    /\ SpansStoredOnce
    /\ AnswersExist
    /\ ResponsesOnlyGrow

(* An empty store satisfies the invariant.                                 *)
LEMMA StoreInvInit == StoreInit => StoreInv
<1> SUFFICES ASSUME StoreInit PROVE StoreInv
  OBVIOUS
<1>1. ToSet(<< >>) = {} /\ IsInjective(<< >>) /\ DOMAIN << >> = {} /\ Len(<< >>) = 0
  BY DEF ToSet, IsInjective
<1>2. StoreTypeOK
  BY <1>1 DEF StoreInit, StoreTypeOK
<1>3. NewestTracesKept
  BY <1>1, <1>2, StoreAssumption DEF StoreInit, NewestTracesKept
<1>4. TodoIsNew /\ SpansStoredOnce
  BY <1>1 DEF StoreInit, TodoIsNew, SpansStoredOnce
<1>5. AnswersExist /\ ResponsesOnlyGrow
  BY DEF StoreInit, AnswersExist, ResponsesOnlyGrow
<1> QED
  BY <1>3, <1>4, <1>5 DEF StoreInv

(* The objects of the listed traces are the last of the heap, one each.    *)
LEMMA ListedObjects ==
    ASSUME NewestTracesKept
    PROVE  /\ IsInjective(order)
           /\ IsFiniteSet(DOMAIN traces) /\ Cardinality(DOMAIN traces) = Len(order)
           /\ \A t \in DOMAIN traces : \A k \in DOMAIN heap :
                 heap[traces[t]].tid = t /\ (traces[t] < k => heap[k].tid # t)
<1>1. /\ order \in Seq(TraceIds) /\ heap \in Seq(Objects) /\ DOMAIN traces = ToSet(order)
      /\ \A t \in DOMAIN traces : traces[t] \in DOMAIN heap
      /\ \A i \in DOMAIN order : /\ traces[order[i]] = Len(heap) - Len(order) + i
                                 /\ heap[traces[order[i]]].tid = order[i]
  BY DEF NewestTracesKept, StoreTypeOK, Object
<1>2. /\ Len(order) \in Nat /\ DOMAIN order = 1 .. Len(order)
      /\ Len(heap) \in Nat /\ DOMAIN heap = 1 .. Len(heap)
  BY <1>1, LenProperties
<1>3. IsInjective(order)
  BY <1>1, <1>2 DEF IsInjective
<1>4. IsFiniteSet(DOMAIN traces) /\ Cardinality(DOMAIN traces) = Len(order)
  BY <1>1, <1>3, CardinalityOfInjective
<1>5. ASSUME NEW t \in DOMAIN traces, NEW k \in DOMAIN heap
      PROVE  heap[traces[t]].tid = t /\ (traces[t] < k => heap[k].tid # t)
  <2>1. PICK i \in DOMAIN order : order[i] = t
    BY <1>1 DEF ToSet
  <2>2. heap[traces[t]].tid = t /\ traces[t] = Len(heap) - Len(order) + i
    BY <1>1, <2>1
  <2>3. ASSUME traces[t] < k PROVE heap[k].tid # t
    <3> DEFINE j == k - (Len(heap) - Len(order))
    <3>1. j \in DOMAIN order /\ j # i
      BY <1>2, <2>2, <2>3
    <3>2. traces[order[j]] = k
      BY <1>1, <1>2, <3>1
    <3>3. heap[k].tid = order[j]
      BY <1>1, <3>1, <3>2
    <3> QED
      BY <1>3, <2>1, <3>1, <3>3 DEF IsInjective
  <2> QED
    BY <2>2, <2>3
<1> QED
  BY <1>3, <1>4, <1>5

(* Opening a trace after the kept ones, which are the last of the heap.    *)
LEMMA OpenKeepsNewest ==
    ASSUME StoreTypeOK, NEW s \in Spans, TraceOf(s) \notin DOMAIN traces,
           NEW kept \in Seq(TraceIds), ToSet(kept) \subseteq DOMAIN traces,
           Len(kept) < MaxTraces,
           \A i \in DOMAIN kept : /\ traces[kept[i]] = Len(heap) - Len(kept) + i
                                 /\ Object(kept[i]).tid = kept[i],
           heap' = Append(heap, WrapSpan(s)),
           traces' = WithObject(s, ToSet(kept)),
           order' = Append(kept, TraceOf(s)),
           todo' \in Seq(Spans), answer' = answer, log' \in Seq(Spans)
    PROVE  NewestTracesKept'
<1> DEFINE new == TraceOf(s)
           n == Len(heap) + 1
<1>1. heap \in Seq(Objects) /\ Len(heap) \in Nat /\ DOMAIN heap = 1 .. Len(heap)
  BY LenProperties DEF StoreTypeOK
<1>2. WrapSpan(s) \in Objects /\ new \in TraceIds /\ WrapSpan(s).tid = new
  BY StoreAssumption DEF WrapSpan, Objects, TraceOf
<1>3. /\ heap' \in Seq(Objects) /\ Len(heap') = n /\ DOMAIN heap' = 1 .. n
      /\ \A i \in DOMAIN heap : heap'[i] = heap[i]
      /\ heap'[n] = WrapSpan(s)
  BY <1>1, <1>2, AppendProperties
<1>4. /\ DOMAIN traces' = ToSet(kept) \cup {new}
      /\ traces'[new] = n
      /\ \A t \in ToSet(kept) : traces'[t] = traces[t]
  BY <1>3 DEF WithObject
<1>5. /\ order' \in Seq(TraceIds) /\ ToSet(order') = ToSet(kept) \cup {new}
      /\ Len(order') = Len(kept) + 1
      /\ \A i \in 1 .. Len(kept) : order'[i] = kept[i]
      /\ order'[Len(kept) + 1] = new
  BY <1>2, AppendProperties, ToSetAppend
<1>6. Len(kept) \in Nat /\ DOMAIN kept = 1 .. Len(kept) /\ DOMAIN order' = 1 .. Len(kept) + 1
  BY <1>5, LenProperties
<1> HIDE DEF new
<1>7. \A t \in DOMAIN traces : t \in TraceIds /\ traces[t] \in DOMAIN heap
  BY DEF StoreTypeOK
<1>8. StoreTypeOK'
  <2>1. \A t \in DOMAIN traces' : t \in TraceIds /\ traces'[t] \in DOMAIN heap'
    BY <1>1, <1>2, <1>3, <1>4, <1>7
  <2>2. answer' \in [Readers -> Seq(Hits) \cup {NoAnswer}]
    BY DEF StoreTypeOK
  <2> QED
    BY <1>3, <1>5, <2>1, <2>2 DEF StoreTypeOK
<1>9. ASSUME NEW i \in DOMAIN order'
      PROVE  /\ traces'[order'[i]] = Len(heap') - Len(order') + i
             /\ heap'[traces'[order'[i]]].tid = order'[i]
  <2>1. CASE i = Len(kept) + 1
    BY <1>1, <1>2, <1>3, <1>4, <1>5, <1>6, <2>1
  <2>2. CASE i # Len(kept) + 1
    <3>1. i \in DOMAIN kept /\ order'[i] = kept[i] /\ kept[i] \in ToSet(kept)
      BY <1>5, <1>6, <2>2 DEF ToSet
    <3>2. traces'[kept[i]] = traces[kept[i]] /\ traces[kept[i]] \in DOMAIN heap
      BY <1>4, <1>7, <3>1
    <3>3. traces[kept[i]] = Len(heap) - Len(kept) + i /\ heap[traces[kept[i]]].tid = kept[i]
      BY <3>1 DEF Object
    <3>4. Len(heap) - Len(kept) + i = Len(heap') - Len(order') + i
      BY <1>1, <1>3, <1>5, <1>6
    <3> QED
      BY <1>3, <3>1, <3>2, <3>3, <3>4
  <2> QED
    BY <2>1, <2>2
<1>10. Len(order') <= MaxTraces
  BY <1>5, <1>6, StoreAssumption
<1>11. DOMAIN traces' = ToSet(order')
  BY <1>4, <1>5
<1> QED
  BY <1>8, <1>9, <1>10, <1>11 DEF NewestTracesKept, Object

(* Opening a trace, after evictOldest if need be.                          *)
LEMMA NewestOpen ==
    ASSUME NewestTracesKept, NEW s \in Spans, OpenTrace(s),
           todo' \in Seq(Spans), answer' = answer, log' \in Seq(Spans)
    PROVE  NewestTracesKept'
<1>1. /\ StoreTypeOK /\ order \in Seq(TraceIds) /\ DOMAIN traces = ToSet(order)
      /\ Len(order) <= MaxTraces
      /\ \A i \in DOMAIN order : /\ traces[order[i]] = Len(heap) - Len(order) + i
                                 /\ Object(order[i]).tid = order[i]
  BY DEF NewestTracesKept, StoreTypeOK
<1>2. IsInjective(order) /\ Cardinality(DOMAIN traces) = Len(order)
  BY ListedObjects
<1>3. TraceOf(s) \notin DOMAIN traces /\ heap' = Append(heap, WrapSpan(s))
  BY DEF OpenTrace
<1>4. Len(order) \in Nat /\ Len(heap) \in Nat
  BY <1>1, LenProperties DEF StoreTypeOK
<1>5. CASE AtCapacity /\ order # << >>
  <2> DEFINE kept == Tail(order)
  <2>1. /\ kept \in Seq(TraceIds) /\ Len(kept) = Len(order) - 1
        /\ \A i \in DOMAIN kept : i + 1 \in DOMAIN order /\ kept[i] = order[i + 1]
        /\ ToSet(order) = {Head(order)} \cup ToSet(kept)
    BY <1>1, <1>5, ToSetHeadTail
  <2>2. Head(order) \notin ToSet(kept)
    BY <1>1, <1>2, <1>5, InjectiveTail
  <2>3. /\ traces' = WithObject(s, DOMAIN traces \ (ToSet(order) \ ToSet(kept)))
        /\ order' = Append(kept, TraceOf(s))
    BY <1>5 DEF OpenTrace, EvictOldest
  <2>4. DOMAIN kept \subseteq Int
    BY <2>1, LenProperties
  <2> HIDE DEF kept
  <2>5. DOMAIN traces \ (ToSet(order) \ ToSet(kept)) = ToSet(kept)
    BY <1>1, <2>1, <2>2
  <2>6. \A i \in DOMAIN kept : /\ traces[kept[i]] = Len(heap) - Len(kept) + i
                              /\ Object(kept[i]).tid = kept[i]
    <3>1. \A i \in DOMAIN kept : Len(heap) - Len(order) + (i + 1) = Len(heap) - Len(kept) + i
      BY <1>4, <2>1, <2>4
    <3> QED
      BY <1>1, <2>1, <3>1
  <2>7. Len(kept) < MaxTraces
    BY <1>1, <1>4, <2>1, StoreAssumption
  <2>8. ToSet(kept) \subseteq DOMAIN traces /\ traces' = WithObject(s, ToSet(kept))
    BY <1>1, <2>1, <2>3, <2>5
  <2> QED
    BY <1>1, <1>3, <2>1, <2>3, <2>6, <2>7, <2>8, OpenKeepsNewest
<1>6. CASE ~(AtCapacity /\ order # << >>)
  <2>1. /\ traces' = WithObject(s, DOMAIN traces \ (ToSet(order) \ ToSet(order)))
        /\ order' = Append(order, TraceOf(s))
    BY <1>6 DEF OpenTrace
  <2>2. DOMAIN traces \ (ToSet(order) \ ToSet(order)) = ToSet(order)
    BY <1>1
  <2>3. Len(order) < MaxTraces
    <3>1. order = << >> => Len(order) = 0
      OBVIOUS
    <3> QED
      BY <1>2, <1>4, <1>6, <3>1, StoreAssumption DEF AtCapacity
  <2>4. traces' = WithObject(s, ToSet(order))
    BY <2>1, <2>2
  <2> QED
    BY <1>1, <1>3, <2>1, <2>3, <2>4, OpenKeepsNewest
<1> QED
  BY <1>5, <1>6

(* The object a span is merged into, and the others.                       *)
LEMMA MergedHeap ==
    ASSUME StoreTypeOK, NEW s \in Spans, MergeSpan(s)
    PROVE  LET o == traces[TraceOf(s)] IN
           /\ o \in DOMAIN heap /\ heap' \in Seq(Objects) /\ Len(heap') = Len(heap)
           /\ DOMAIN heap' = DOMAIN heap
           /\ \A i \in DOMAIN heap : i # o => heap'[i] = heap[i]
           /\ heap[o].spans \in Seq(Spans)
           /\ heap'[o].spans = Append(heap[o].spans, s)
           /\ heap'[o].tid = heap[o].tid /\ heap'[o].service = heap[o].service
<1> DEFINE o == traces[TraceOf(s)]
<1>1. /\ heap \in Seq(Objects) /\ o \in DOMAIN heap
      /\ heap' = [heap EXCEPT ![o].spans = Append(@, s)]
  BY DEF StoreTypeOK, MergeSpan
<1>2. Len(heap) \in Nat /\ DOMAIN heap = 1 .. Len(heap) /\ heap \in [1 .. Len(heap) -> Objects]
  BY <1>1, LenProperties
<1> HIDE DEF o
<1>3. heap[o] \in Objects
  BY <1>1, <1>2
<1>4. heap[o].spans \in Seq(Spans)
  BY <1>3 DEF Objects
<1>5. Append(heap[o].spans, s) \in Seq(Spans)
  BY <1>4, AppendProperties
<1>6. /\ heap' \in [1 .. Len(heap) -> Objects]
      /\ \A i \in DOMAIN heap : i # o => heap'[i] = heap[i]
      /\ heap'[o].spans = Append(heap[o].spans, s)
      /\ heap'[o].tid = heap[o].tid /\ heap'[o].service = heap[o].service
  <2>1. heap' = [heap EXCEPT ![o] = [heap[o] EXCEPT !.spans = Append(heap[o].spans, s)]]
    BY <1>1
  <2> DEFINE v == [heap[o] EXCEPT !.spans = Append(heap[o].spans, s)]
  <2>2. /\ v \in Objects /\ v.spans = Append(heap[o].spans, s)
        /\ v.tid = heap[o].tid /\ v.service = heap[o].service
    BY <1>3, <1>5 DEF Objects
  <2> HIDE DEF v
  <2>3. heap' = [heap EXCEPT ![o] = v]
    BY <2>1 DEF v
  <2> QED
    BY <1>1, <1>2, <2>2, <2>3
<1>7. heap' \in Seq(Objects) /\ Len(heap') = Len(heap)
  BY <1>2, <1>6
<1> QED
  BY <1>1, <1>2, <1>4, <1>6, <1>7 DEF o

(* Merging a span leaves the tables.                                       *)
LEMMA NewestMerge ==
    ASSUME NewestTracesKept, NEW s \in Spans, MergeSpan(s),
           todo' \in Seq(Spans), answer' = answer, log' \in Seq(Spans)
    PROVE  NewestTracesKept'
<1>1. StoreTypeOK /\ UNCHANGED <<traces, order>>
  BY DEF NewestTracesKept, MergeSpan
<1>2. /\ heap' \in Seq(Objects) /\ Len(heap') = Len(heap) /\ DOMAIN heap' = DOMAIN heap
      /\ \A i \in DOMAIN heap : heap'[i].tid = heap[i].tid
  BY <1>1, MergedHeap
<1>3. StoreTypeOK'
  BY <1>1, <1>2 DEF StoreTypeOK
<1>4. \A i \in DOMAIN order : traces[order[i]] \in DOMAIN heap
  BY DEF NewestTracesKept, StoreTypeOK, ToSet
<1> QED
  BY <1>1, <1>2, <1>3, <1>4 DEF NewestTracesKept, Object

(* The history after another span.                                         *)
LEMMA LogGrows ==
    ASSUME log \in Seq(Spans), NEW s \in Spans, log' = Append(log, s)
    PROVE  /\ \A x, y : LoggedBefore(x, y) => LoggedBefore(x, y)'
           /\ \A x \in ToSet(log) : LoggedBefore(x, s)'
<1>1. /\ Len(log') = Len(log) + 1 /\ log' \in Seq(Spans)
      /\ \A i \in 1 .. Len(log) : log'[i] = log[i]
      /\ log'[Len(log) + 1] = s
  BY AppendProperties
<1>2. /\ Len(log) \in Nat /\ DOMAIN log = 1 .. Len(log)
      /\ DOMAIN log' = 1 .. Len(log) + 1
  BY <1>1, LenProperties
<1>3. ASSUME NEW x, NEW y, LoggedBefore(x, y) PROVE LoggedBefore(x, y)'
  <2>1. PICK k \in DOMAIN log, l \in DOMAIN log : k < l /\ log[k] = x /\ log[l] = y
    BY <1>3 DEF LoggedBefore
  <2>2. k \in DOMAIN log' /\ l \in DOMAIN log' /\ log'[k] = x /\ log'[l] = y
    BY <1>1, <1>2, <2>1
  <2> QED
    BY <2>1, <2>2 DEF LoggedBefore
<1>4. ASSUME NEW x \in ToSet(log) PROVE LoggedBefore(x, s)'
  <2>1. PICK k \in DOMAIN log : log[k] = x
    BY DEF ToSet
  <2>2. /\ k \in DOMAIN log' /\ Len(log) + 1 \in DOMAIN log' /\ k < Len(log) + 1
        /\ log'[k] = x /\ log'[Len(log) + 1] = s
    BY <1>1, <1>2, <2>1
  <2> QED
    BY <2>2 DEF LoggedBefore
<1> QED
  BY <1>3, <1>4

(* Storing s as the last span of object o, where no later object belongs   *)
(* to the same trace, keeps the spans of every trace in order.             *)
LEMMA StoredInOrder ==
    ASSUME SpansStoredOnce, log \in Seq(Spans), heap \in Seq(Objects),
           NEW s \in Spans, s \notin ToSet(log), log' = Append(log, s),
           NEW o, DOMAIN heap' = DOMAIN heap \cup {o}, DOMAIN heap' \subseteq Nat,
           NEW old \in Seq(Spans), heap'[o].spans = Append(old, s), heap'[o].tid = TraceOf(s),
           o \in DOMAIN heap => /\ old = heap[o].spans /\ heap[o].tid = TraceOf(s)
                               /\ heap'[o].service = heap[o].service,
           o \notin DOMAIN heap => old = << >> /\ heap'[o].service = ServiceOf(s),
           \A i \in DOMAIN heap : i # o => heap'[i] = heap[i],
           \A i \in DOMAIN heap : o < i => heap[i].tid # TraceOf(s)
    PROVE  SpansStoredOnce'
<1>1. IsInjective(log') /\ ToSet(log') = ToSet(log) \cup {s}
  BY InjectiveAppend, ToSetAppend DEF SpansStoredOnce
<1>2. /\ Len(old) \in Nat /\ DOMAIN old = 1 .. Len(old)
      /\ Len(heap'[o].spans) = Len(old) + 1 /\ DOMAIN heap'[o].spans = 1 .. Len(old) + 1
      /\ \A j \in 1 .. Len(old) : heap'[o].spans[j] = old[j]
      /\ heap'[o].spans[Len(old) + 1] = s
      /\ ToSet(heap'[o].spans) = ToSet(old) \cup {s}
  BY AppendProperties, LenProperties, ToSetAppend
<1>3. \A i \in DOMAIN heap : i # o => heap'[i] = heap[i]
  OBVIOUS
<1>4. ToSet(log) = UNION {ToSet(heap[i].spans) : i \in DOMAIN heap}
  BY DEF SpansStoredOnce
<1>5. ToSet(old) \subseteq ToSet(log) /\ \A x \in ToSet(old) : TraceOf(x) = TraceOf(s)
  <2>1. ToSet(<< >>) = {}
    BY DEF ToSet
  <2>2. CASE o \in DOMAIN heap
    BY <1>4, <2>2 DEF SpansStoredOnce
  <2>3. CASE o \notin DOMAIN heap
    BY <2>1, <2>3
  <2> QED
    BY <2>2, <2>3
<1>6. ToSet(log') = UNION {ToSet(heap'[i].spans) : i \in DOMAIN heap'}
  <2>1. \A x \in ToSet(log') : \E i \in DOMAIN heap' : x \in ToSet(heap'[i].spans)
    <3>1. ASSUME NEW x \in ToSet(log), NEW i \in DOMAIN heap, x \in ToSet(heap[i].spans)
          PROVE  \E k \in DOMAIN heap' : x \in ToSet(heap'[k].spans)
      <4>1. CASE i = o
        BY <1>2, <3>1, <4>1
      <4>2. CASE i # o
        BY <1>3, <3>1, <4>2
      <4> QED
        BY <4>1, <4>2
    <3>2. s \in ToSet(heap'[o].spans) /\ o \in DOMAIN heap'
      BY <1>2
    <3>3. \A x \in ToSet(log) : \E i \in DOMAIN heap : x \in ToSet(heap[i].spans)
      BY <1>4
    <3> QED
      BY <1>1, <3>1, <3>2, <3>3
  <2>2. \A i \in DOMAIN heap' : ToSet(heap'[i].spans) \subseteq ToSet(log')
    <3>1. ToSet(heap'[o].spans) \subseteq ToSet(log')
      BY <1>1, <1>2, <1>5
    <3>2. \A i \in DOMAIN heap : i # o => ToSet(heap'[i].spans) \subseteq ToSet(log')
      BY <1>1, <1>3, <1>4
    <3> QED
      BY <3>1, <3>2
  <2> QED
    BY <2>1, <2>2
<1>7. ASSUME NEW i \in DOMAIN heap'
      PROVE  /\ heap'[i].spans # << >> /\ heap'[i].service = ServiceOf(heap'[i].spans[1])
             /\ \A x \in ToSet(heap'[i].spans) : TraceOf(x) = heap'[i].tid
  <2>1. CASE i # o
    BY <1>3, <1>7, <2>1 DEF SpansStoredOnce
  <2>2. CASE i = o
    <3>1. heap'[o].spans # << >>
      BY SMTT(30), AppendProperties
    <3>2. heap'[o].service = ServiceOf(heap'[o].spans[1])
      <4>1. CASE o \notin DOMAIN heap
        <5>1. Len(old) = 0
          BY <4>1
        <5> QED
          BY <1>2, <4>1, <5>1
      <4>2. CASE o \in DOMAIN heap
        <5>1. old # << >> /\ heap[o].service = ServiceOf(old[1])
          BY <4>2 DEF SpansStoredOnce
        <5>2. 1 \in 1 .. Len(old)
          BY <1>2, <5>1, EmptySeq
        <5> QED
          BY <1>2, <4>2, <5>1, <5>2
      <4> QED
        BY <4>1, <4>2
    <3>3. \A x \in ToSet(heap'[o].spans) : TraceOf(x) = heap'[o].tid
      BY <1>2, <1>5
    <3> QED
      BY <2>2, <3>1, <3>2, <3>3
  <2> QED
    BY <2>1, <2>2
<1>8. ASSUME NEW i \in DOMAIN heap', NEW k \in DOMAIN heap', heap'[i].tid = heap'[k].tid,
             NEW j \in DOMAIN heap'[i].spans, NEW m \in DOMAIN heap'[k].spans,
             i < k \/ (i = k /\ j < m)
      PROVE  LoggedBefore(heap[i].spans[j], heap[k].spans[m])'
  <2>1. CASE k = o /\ m = Len(old) + 1
    <3>1. heap'[k].spans[m] = s
      BY <1>2, <2>1
    <3>2. heap'[i].spans[j] \in ToSet(log)
      <4>1. CASE i = o
        <5>1. j \in DOMAIN old /\ heap'[i].spans[j] = old[j]
          BY <1>2, <1>8, <2>1, <4>1
        <5> QED
          BY <1>5, <5>1 DEF ToSet
      <4>2. CASE i # o
        <5>1. i \in DOMAIN heap /\ heap'[i] = heap[i]
          BY <1>3, <4>2
        <5>2. heap[i].spans[j] \in ToSet(heap[i].spans)
          BY <5>1 DEF ToSet
        <5> QED
          BY <1>4, <5>1, <5>2
      <4> QED
        BY <4>1, <4>2
    <3> QED
      BY <3>1, <3>2, LogGrows
  <2>2. CASE ~(k = o /\ m = Len(old) + 1)
    <3>1. k \in DOMAIN heap /\ m \in DOMAIN heap[k].spans
          /\ heap'[k].spans[m] = heap[k].spans[m] /\ heap'[k].tid = heap[k].tid
      <4>1. CASE k = o
        <5>1. m \in 1 .. Len(old)
          BY <1>2, <2>2, <4>1
        <5>2. o \in DOMAIN heap
          <6>1. Len(<< >>) = 0
            OBVIOUS
          <6> QED
            BY <5>1, <6>1
        <5> QED
          BY <1>2, <4>1, <5>1, <5>2
      <4>2. CASE k # o
        BY <1>3, <4>2
      <4> QED
        BY <4>1, <4>2
    <3>2. ~(i = o /\ j = Len(old) + 1)
      <4>1. SUFFICES ASSUME i = o, j = Len(old) + 1 PROVE FALSE
        OBVIOUS
      <4>2. CASE i < k
        BY <1>8, <3>1, <4>1, <4>2
      <4>3. CASE i = k /\ j < m
        <5>1. m \in 1 .. Len(old) + 1
          BY <1>2, <4>1, <4>3
        <5> QED
          BY <1>2, <4>1, <4>3, <5>1
      <4> QED
        BY <1>8, <4>2, <4>3
    <3>3. i \in DOMAIN heap /\ j \in DOMAIN heap[i].spans
          /\ heap'[i].spans[j] = heap[i].spans[j] /\ heap'[i].tid = heap[i].tid
      <4>1. CASE i = o
        <5>1. j \in 1 .. Len(old)
          BY <1>2, <3>2, <4>1
        <5>2. o \in DOMAIN heap
          <6>1. Len(<< >>) = 0
            OBVIOUS
          <6> QED
            BY <5>1, <6>1
        <5> QED
          BY <1>2, <4>1, <5>1, <5>2
      <4>2. CASE i # o
        BY <1>3, <4>2
      <4> QED
        BY <4>1, <4>2
    <3>4. LoggedBefore(heap[i].spans[j], heap[k].spans[m])
      BY <1>8, <3>1, <3>3 DEF SpansStoredOnce
    <3> QED
      BY <3>1, <3>3, <3>4, LogGrows
  <2> QED
    BY <2>1, <2>2
<1> QED
  BY <1>1, <1>6, <1>7, <1>8 DEF SpansStoredOnce

(* An object is never removed and never loses a span.                      *)
HeapGrows ==
    \A i \in DOMAIN heap : i \in DOMAIN heap' /\ Len(heap[i].spans) <= Len(heap'[i].spans)

(* Responses survive a heap that grows.                                    *)
LEMMA AnswersStay ==
    ASSUME StoreTypeOK, StoreTypeOK', AnswersExist, ResponsesOnlyGrow, HeapGrows,
           answer' = answer
    PROVE  AnswersExist' /\ ResponsesOnlyGrow'
<1>1. AnswersExist'
  BY DEF AnswersExist, HeapGrows
<1>2. ASSUME NEW r \in Readers, answer[r] # NoAnswer, NEW i \in DOMAIN answer[r]
      PROVE  answer[r][i].size <= Len(heap'[answer[r][i].obj].spans)
  <2> DEFINE h == answer[r][i]
  <2>1. h \in Hits
    <3>1. answer[r] \in Seq(Hits)
      BY <1>2 DEF StoreTypeOK
    <3> QED
      BY <1>2, <3>1, ElementOfSeq, LenProperties
  <2>2. h.obj \in DOMAIN heap /\ h.size <= Len(heap[h.obj].spans)
    BY <1>2 DEF AnswersExist, ResponsesOnlyGrow
  <2>3. h.obj \in DOMAIN heap' /\ Len(heap[h.obj].spans) <= Len(heap'[h.obj].spans)
    BY <2>2 DEF HeapGrows
  <2>4. heap[h.obj] \in Objects /\ heap'[h.obj] \in Objects
    BY <2>2, <2>3, ElementOfSeq, LenProperties DEF StoreTypeOK
  <2>5. Len(heap[h.obj].spans) \in Nat /\ Len(heap'[h.obj].spans) \in Nat /\ h.size \in Nat
    BY <2>1, <2>4, LenProperties DEF Objects, Hits
  <2> QED
    BY <2>2, <2>3, <2>5
<1>3. ResponsesOnlyGrow'
  BY <1>2 DEF ResponsesOnlyGrow
<1> QED
  BY <1>1, <1>3

(* Opening a trace adds an object to the heap.                             *)
LEMMA OpenStores ==
    ASSUME NewestTracesKept, SpansStoredOnce, NEW s \in Spans, s \notin ToSet(log),
           OpenTrace(s), log' = Append(log, s)
    PROVE  SpansStoredOnce' /\ HeapGrows
<1> DEFINE o == Len(heap) + 1
<1>1. log \in Seq(Spans) /\ heap \in Seq(Objects)
  BY DEF NewestTracesKept, StoreTypeOK
<1>2. Len(heap) \in Nat /\ DOMAIN heap = 1 .. Len(heap)
  BY <1>1, LenProperties
<1>3. WrapSpan(s) \in Objects
  BY StoreAssumption DEF WrapSpan, Objects, TraceOf
<1>4. /\ Len(heap') = o /\ DOMAIN heap' = 1 .. o
      /\ \A i \in DOMAIN heap : heap'[i] = heap[i]
      /\ heap'[o] = WrapSpan(s)
  BY <1>1, <1>2, <1>3, AppendProperties DEF OpenTrace
<1>5. /\ heap'[o].tid = TraceOf(s) /\ heap'[o].service = ServiceOf(s)
      /\ heap'[o].spans = Append(<< >>, s)
  BY <1>4 DEF WrapSpan
<1>6. /\ DOMAIN heap' = DOMAIN heap \cup {o} /\ o \notin DOMAIN heap
      /\ DOMAIN heap' \subseteq Nat /\ \A i \in DOMAIN heap : ~(o < i)
  BY <1>2, <1>4
<1>7. \A i \in DOMAIN heap : Len(heap[i].spans) \in Nat
  <2>1. \A i \in DOMAIN heap : heap[i] \in Objects
    BY <1>1, <1>2, ElementOfSeq
  <2> QED
    BY <2>1, LenProperties DEF Objects
<1>8. HeapGrows
  <2>1. \A i \in DOMAIN heap : i \in DOMAIN heap' /\ heap'[i].spans = heap[i].spans
    BY <1>4, <1>6
  <2> QED
    BY <1>7, <2>1 DEF HeapGrows
<1> HIDE DEF o
<1>9. << >> \in Seq(Spans)
  OBVIOUS
<1>10. SpansStoredOnce'
  BY <1>1, <1>4, <1>5, <1>6, <1>9, StoredInOrder
<1> QED
  BY <1>8, <1>10

(* Merging a span extends the trace's object, the last one of its trace.   *)
LEMMA MergeStores ==
    ASSUME NewestTracesKept, SpansStoredOnce, NEW s \in Spans, s \notin ToSet(log),
           MergeSpan(s), log' = Append(log, s)
    PROVE  SpansStoredOnce' /\ HeapGrows
<1> DEFINE o == traces[TraceOf(s)]
<1>1. StoreTypeOK /\ log \in Seq(Spans) /\ heap \in Seq(Objects) /\ TraceOf(s) \in DOMAIN traces
  BY DEF NewestTracesKept, StoreTypeOK, MergeSpan
<1>2. /\ o \in DOMAIN heap /\ DOMAIN heap' = DOMAIN heap
      /\ \A i \in DOMAIN heap : i # o => heap'[i] = heap[i]
      /\ heap[o].spans \in Seq(Spans)
      /\ heap'[o].spans = Append(heap[o].spans, s)
      /\ heap'[o].tid = heap[o].tid /\ heap'[o].service = heap[o].service
  BY <1>1, MergedHeap
<1>3. heap[o].tid = TraceOf(s) /\ \A k \in DOMAIN heap : o < k => heap[k].tid # TraceOf(s)
  BY <1>1, <1>2, ListedObjects
<1> HIDE DEF o
<1>4. DOMAIN heap' = DOMAIN heap \cup {o} /\ DOMAIN heap' \subseteq Nat
  <2>1. DOMAIN heap = 1 .. Len(heap) /\ Len(heap) \in Nat
    BY <1>1, LenProperties
  <2> QED
    BY <1>2, <2>1
<1>5. SpansStoredOnce'
  <2> DEFINE old == heap[o].spans
  <2>1. old = heap[o].spans
    OBVIOUS
  <2>2. old \in Seq(Spans) /\ heap'[o].spans = Append(old, s)
    BY <1>2
  <2> HIDE DEF old
  <2> QED
    BY <1>1, <1>2, <1>3, <1>4, <2>1, <2>2, StoredInOrder
<1>6. HeapGrows
  <2>1. \A i \in DOMAIN heap : heap[i] \in Objects
    BY <1>1, ElementOfSeq, LenProperties
  <2>2. \A i \in DOMAIN heap : Len(heap[i].spans) \in Nat
    BY <2>1, LenProperties DEF Objects
  <2>3. Len(heap'[o].spans) = Len(heap[o].spans) + 1
    BY <1>2, AppendProperties
  <2> QED
    BY <1>2, <2>2, <2>3 DEF HeapGrows
<1> QED
  BY <1>5, <1>6

(* StoreSpan keeps the invariant.                                          *)
LEMMA StoreSpanStep ==
    ASSUME StoreInv, StoreSpan
    PROVE  StoreInv'
<1> DEFINE s == Head(todo)
<1>1. /\ NewestTracesKept /\ TodoIsNew /\ SpansStoredOnce /\ AnswersExist
      /\ ResponsesOnlyGrow
  BY DEF StoreInv
<1>2. /\ StoreTypeOK /\ todo \in Seq(Spans) /\ todo # << >> /\ log \in Seq(Spans)
      /\ IsInjective(todo) /\ ToSet(todo) \cap ToSet(log) = {}
  BY <1>1 DEF NewestTracesKept, StoreTypeOK, TodoIsNew, StoreSpan, Unlocked
<1>3. /\ s \in Spans /\ Tail(todo) \in Seq(Spans)
      /\ ToSet(todo) = {s} \cup ToSet(Tail(todo))
  BY <1>2, ToSetHeadTail
<1>4. IsInjective(Tail(todo)) /\ s \notin ToSet(Tail(todo)) /\ s \notin ToSet(log)
  BY <1>2, <1>3, InjectiveTail
<1>5. /\ OpenTrace(s) \/ MergeSpan(s)
      /\ log' = Append(log, s) /\ todo' = Tail(todo) /\ answer' = answer
  BY DEF StoreSpan
<1> HIDE DEF s
<1>6. log' \in Seq(Spans) /\ todo' \in Seq(Spans) /\ ToSet(log') = ToSet(log) \cup {s}
  BY <1>2, <1>3, <1>5, AppendProperties, ToSetAppend
<1>7. TodoIsNew'
  BY <1>2, <1>3, <1>4, <1>5, <1>6 DEF TodoIsNew
<1>8. NewestTracesKept'
  BY <1>1, <1>3, <1>5, <1>6, NewestOpen, NewestMerge
<1>9. SpansStoredOnce' /\ HeapGrows
  BY <1>1, <1>3, <1>4, <1>5, OpenStores, MergeStores
<1>10. AnswersExist' /\ ResponsesOnlyGrow'
  BY <1>1, <1>2, <1>5, <1>8, <1>9, AnswersStay DEF NewestTracesKept
<1> QED
  BY <1>7, <1>8, <1>9, <1>10 DEF StoreInv

(* The answer to a search: listed traces, oldest first.                    *)
LEMMA FoundInOrder ==
    ASSUME NewestTracesKept, NEW q \in Queries
    PROVE  /\ FindTraceIDs(q) \in Seq(TraceIds)
           /\ \A i \in DOMAIN FindTraceIDs(q) : FindTraceIDs(q)[i] \in DOMAIN traces
           /\ \A i, j \in DOMAIN FindTraceIDs(q) :
                 i < j => traces[FindTraceIDs(q)[i]] < traces[FindTraceIDs(q)[j]]
<1> DEFINE S == {t \in ToSet(order) : MatchesQuery(Object(t), q)}
           hits == Keep(order, S)
           n == IF Len(hits) < Limit(q) THEN Len(hits) ELSE Limit(q)
           ids == SubSeq(hits, 1, n)
<1>1. /\ order \in Seq(TraceIds) /\ heap \in Seq(Objects) /\ ToSet(order) = DOMAIN traces
      /\ \A i \in DOMAIN order : traces[order[i]] = Len(heap) - Len(order) + i
  BY DEF NewestTracesKept, StoreTypeOK
<1>2. FindTraceIDs(q) = ids
  BY DEF FindTraceIDs
<1> HIDE DEF S
<1>3. /\ hits \in Seq(TraceIds) /\ ToSet(hits) = ToSet(order) \cap S /\ InOrderOf(hits, order)
  BY <1>1, KeepProperties
<1> HIDE DEF hits
<1>4. Len(hits) \in Nat /\ DOMAIN hits = 1 .. Len(hits) /\ Len(heap) \in Nat
      /\ Len(order) \in Nat /\ DOMAIN order = 1 .. Len(order)
  BY <1>1, <1>3, LenProperties
<1>5. n \in 0 .. Len(hits)
  BY <1>4, StoreAssumption DEF Limit, DefaultLimit
<1> HIDE DEF n
<1>6. ids \in Seq(TraceIds) /\ Len(ids) = n /\ \A i \in 1 .. n : ids[i] = hits[i]
  BY <1>3, <1>5, FirstPlaces
<1>7. DOMAIN ids = 1 .. n /\ \A i \in DOMAIN ids : i \in DOMAIN hits /\ ids[i] = hits[i]
  BY <1>4, <1>5, <1>6, LenProperties
<1> HIDE DEF ids
<1>8. \A i \in DOMAIN ids : ids[i] \in DOMAIN traces
  BY <1>1, <1>3, <1>7 DEF ToSet
<1>9. ASSUME NEW i \in DOMAIN ids, NEW j \in DOMAIN ids, i < j
      PROVE  traces[ids[i]] < traces[ids[j]]
  <2>1. PICK k \in DOMAIN order, l \in DOMAIN order :
            k < l /\ order[k] = hits[i] /\ order[l] = hits[j]
    BY <1>3, <1>7, <1>9 DEF InOrderOf
  <2>2. /\ traces[ids[i]] = Len(heap) - Len(order) + k
        /\ traces[ids[j]] = Len(heap) - Len(order) + l
    BY <1>1, <1>7, <2>1
  <2> QED
    BY <1>4, <2>1, <2>2
<1> QED
  BY <1>2, <1>6, <1>8, <1>9

(* The entry of a response for a trace of the store.                       *)
LEMMA HitProperties ==
    ASSUME StoreTypeOK, NEW t \in DOMAIN traces
    PROVE  /\ Hit(t) \in Hits /\ Hit(t).obj = traces[t] /\ Hit(t).obj \in DOMAIN heap
           /\ Hit(t).size <= Len(heap[Hit(t).obj].spans)
<1>1. traces[t] \in DOMAIN heap /\ heap \in Seq(Objects)
  BY DEF StoreTypeOK
<1>2. DOMAIN heap = 1 .. Len(heap) /\ Len(heap) \in Nat
  BY <1>1, LenProperties
<1>3. heap[traces[t]] \in Objects
  BY <1>1, <1>2, ElementOfSeq
<1>4. Len(heap[traces[t]].spans) \in Nat
  BY <1>3, LenProperties DEF Objects
<1> QED
  BY <1>1, <1>2, <1>4 DEF Hit, Hits, Object

(* A reader gets a response of listed traces, in their order.              *)
LEMMA AnswerStep ==
    ASSUME StoreInv, NEW r \in Readers, NEW ids \in Seq(TraceIds),
           \A i \in DOMAIN ids : ids[i] \in DOMAIN traces,
           \A i, j \in DOMAIN ids : i < j => traces[ids[i]] < traces[ids[j]],
           answer' = [answer EXCEPT ![r] = [i \in DOMAIN ids |-> Hit(ids[i])]],
           UNCHANGED <<todo, heap, traces, order, log>>
    PROVE  StoreInv'
<1> DEFINE a == [i \in DOMAIN ids |-> Hit(ids[i])]
<1>1. /\ NewestTracesKept /\ TodoIsNew /\ SpansStoredOnce /\ AnswersExist
      /\ ResponsesOnlyGrow /\ StoreTypeOK
  BY DEF StoreInv, NewestTracesKept
<1>2. \A i \in DOMAIN ids :
        /\ Hit(ids[i]) \in Hits /\ Hit(ids[i]).obj = traces[ids[i]]
        /\ Hit(ids[i]).obj \in DOMAIN heap
        /\ Hit(ids[i]).size <= Len(heap[Hit(ids[i]).obj].spans)
  BY <1>1, HitProperties
<1>3. DOMAIN a = DOMAIN ids /\ \A i \in DOMAIN a : a[i] = Hit(ids[i])
  OBVIOUS
<1>4. a \in Seq(Hits)
  <2>1. DOMAIN ids = 1 .. Len(ids) /\ Len(ids) \in Nat
    BY LenProperties
  <2> QED
    BY <1>2, <2>1
<1>5. answer \in [Readers -> Seq(Hits) \cup {NoAnswer}] /\ answer' = [answer EXCEPT ![r] = a]
  BY <1>1 DEF StoreTypeOK
<1> HIDE DEF a
<1>6. /\ answer' \in [Readers -> Seq(Hits) \cup {NoAnswer}] /\ answer'[r] = a
      /\ \A x \in Readers : x # r => answer'[x] = answer[x]
  BY <1>4, <1>5
<1>7. StoreTypeOK'
  BY <1>1, <1>6 DEF StoreTypeOK
<1>8. NewestTracesKept' /\ TodoIsNew' /\ SpansStoredOnce'
  BY <1>1, <1>7 DEF NewestTracesKept, Object, TodoIsNew, SpansStoredOnce, LoggedBefore
<1>9. AnswersExist'
  BY <1>1, <1>2, <1>3, <1>6 DEF AnswersExist
<1>10. ResponsesOnlyGrow'
  <2>1. \A i \in DOMAIN a : a[i].size <= Len(heap[a[i].obj].spans)
    BY <1>2, <1>3
  <2>2. \A i, j \in DOMAIN a : i < j => a[i].obj < a[j].obj
    BY <1>2, <1>3
  <2> QED
    BY <1>1, <1>6, <2>1, <2>2 DEF ResponsesOnlyGrow
<1> QED
  BY <1>8, <1>9, <1>10 DEF StoreInv

(* Every step keeps the invariant of the store.                            *)
LEMMA StoreInvStep == StoreInv /\ [StoreNext]_storeVars => StoreInv'
<1> SUFFICES ASSUME StoreInv, [StoreNext]_storeVars PROVE StoreInv'
  OBVIOUS
<1>1. /\ NewestTracesKept /\ TodoIsNew /\ SpansStoredOnce /\ AnswersExist
      /\ ResponsesOnlyGrow /\ StoreTypeOK
  BY DEF StoreInv, NewestTracesKept
<1>2. ASSUME NEW td \in Payloads, WriteSpans(td) PROVE StoreInv'
  <2>1. td \in Seq(Spans)
    BY StoreAssumption DEF Payloads
  <2>2. todo' = td /\ UNCHANGED <<heap, traces, order, answer, log>>
    BY <1>2 DEF WriteSpans
  <2>3. StoreTypeOK'
    BY <1>1, <2>1, <2>2 DEF StoreTypeOK
  <2>4. NewestTracesKept' /\ SpansStoredOnce' /\ AnswersExist' /\ ResponsesOnlyGrow'
    BY <1>1, <2>2, <2>3
       DEF NewestTracesKept, Object, SpansStoredOnce, LoggedBefore, AnswersExist,
           ResponsesOnlyGrow
  <2>5. TodoIsNew'
    BY <1>2, <2>2 DEF WriteSpans, TodoIsNew, ToSet
  <2> QED
    BY <2>4, <2>5 DEF StoreInv
<1>3. CASE StoreSpan
  BY <1>3, StoreSpanStep
<1>4. ASSUME NEW r \in Readers, NEW q \in Queries, FindTraces(r, q) PROVE StoreInv'
  <2> DEFINE ids == FindTraceIDs(q)
  <2>1. /\ ids \in Seq(TraceIds)
        /\ \A i \in DOMAIN ids : ids[i] \in DOMAIN traces
        /\ \A i, j \in DOMAIN ids : i < j => traces[ids[i]] < traces[ids[j]]
    BY <1>1, FoundInOrder
  <2>2. /\ answer' = [answer EXCEPT ![r] = [i \in DOMAIN ids |-> Hit(ids[i])]]
        /\ UNCHANGED <<todo, heap, traces, order, log>>
    BY <1>4 DEF FindTraces
  <2> HIDE DEF ids
  <2> QED
    BY <2>1, <2>2, AnswerStep
<1>5. ASSUME NEW r \in Readers, NEW t \in TraceIds, GetTrace(r, t) PROVE StoreInv'
  <2> DEFINE ids == <<t>>
  <2>1. /\ ids \in Seq(TraceIds)
        /\ DOMAIN ids = {1} /\ ids[1] = t
    OBVIOUS
  <2>2. t \in DOMAIN traces /\ UNCHANGED <<todo, heap, traces, order, log>>
    BY <1>5 DEF GetTrace
  <2>3. <<Hit(t)>> = [i \in DOMAIN ids |-> Hit(ids[i])]
    OBVIOUS
  <2>4. answer' = [answer EXCEPT ![r] = [i \in DOMAIN ids |-> Hit(ids[i])]]
    BY <1>5, <2>3 DEF GetTrace
  <2> HIDE DEF ids
  <2>5. /\ \A i \in DOMAIN ids : ids[i] \in DOMAIN traces
        /\ \A i, j \in DOMAIN ids : i < j => traces[ids[i]] < traces[ids[j]]
    BY <2>1, <2>2
  <2> QED
    BY <2>1, <2>2, <2>4, <2>5, AnswerStep
<1>6. ASSUME NEW r \in Readers, Respond(r) PROVE StoreInv'
  <2>1. /\ answer' = [answer EXCEPT ![r] = NoAnswer]
        /\ UNCHANGED <<todo, heap, traces, order, log>>
    BY <1>6 DEF Respond
  <2>2. answer \in [Readers -> Seq(Hits) \cup {NoAnswer}]
    BY <1>1 DEF StoreTypeOK
  <2>3. /\ answer' \in [Readers -> Seq(Hits) \cup {NoAnswer}] /\ answer'[r] = NoAnswer
        /\ \A x \in Readers : x # r => answer'[x] = answer[x]
    BY <2>1, <2>2
  <2>4. StoreTypeOK'
    BY <1>1, <2>1, <2>3 DEF StoreTypeOK
  <2>5. NewestTracesKept' /\ TodoIsNew' /\ SpansStoredOnce'
    BY <1>1, <2>1, <2>4 DEF NewestTracesKept, Object, TodoIsNew, SpansStoredOnce, LoggedBefore
  <2>6. AnswersExist' /\ ResponsesOnlyGrow'
    BY <1>1, <2>1, <2>3 DEF AnswersExist, ResponsesOnlyGrow
  <2> QED
    BY <2>5, <2>6 DEF StoreInv
<1>7. CASE Clear
  <2>1. traces' = << >> /\ order' = << >> /\ UNCHANGED <<todo, heap, answer, log>>
    BY <1>7 DEF Clear
  <2>2. ToSet(<< >>) = {} /\ DOMAIN << >> = {} /\ Len(<< >>) = 0
    BY DEF ToSet
  <2>3. StoreTypeOK'
    BY <1>1, <2>1, <2>2 DEF StoreTypeOK
  <2>4. NewestTracesKept'
    BY <2>1, <2>2, <2>3, StoreAssumption DEF NewestTracesKept
  <2>5. TodoIsNew' /\ SpansStoredOnce' /\ AnswersExist' /\ ResponsesOnlyGrow'
    BY <1>1, <2>1
       DEF TodoIsNew, SpansStoredOnce, LoggedBefore, AnswersExist, ResponsesOnlyGrow
  <2> QED
    BY <2>4, <2>5 DEF StoreInv
<1>8. CASE UNCHANGED storeVars
  BY <1>1, <1>8
     DEF storeVars, StoreInv, NewestTracesKept, StoreTypeOK, Object, TodoIsNew,
         SpansStoredOnce, LoggedBefore, AnswersExist, ResponsesOnlyGrow
<1> QED
  BY <1>2, <1>3, <1>4, <1>5, <1>6, <1>7, <1>8 DEF StoreNext

(* The map and the list of the store name the same traces, the MaxTraces   *)
(* that were opened last, in that order.                                   *)
THEOREM StoreKeepsNewestTraces == StoreSpec => []NewestTracesKept
<1>1. StoreInv => NewestTracesKept
  BY DEF StoreInv
<1> QED
  BY <1>1, StoreInvInit, StoreInvStep, PTL DEF StoreSpec

(* Every span is stored once, with its trace, in the order of arrival.     *)
THEOREM StoreKeepsSpansOnce == StoreSpec => []SpansStoredOnce
<1>1. StoreInv => SpansStoredOnce
  BY DEF StoreInv
<1> QED
  BY <1>1, StoreInvInit, StoreInvStep, PTL DEF StoreSpec

(* A response that is encoded after the lock is released holds its traces  *)
(* in order, none with fewer spans than when it was searched.              *)
THEOREM StoreResponsesOnlyGrow == StoreSpec => []ResponsesOnlyGrow
<1>1. StoreInv => ResponsesOnlyGrow
  BY DEF StoreInv
<1> QED
  BY <1>1, StoreInvInit, StoreInvStep, PTL DEF StoreSpec

-----------------------------------------------------------------------------
(* Kafka: the receiver *)

ReceiverType ==
    /\ topicLog \in Seq(Entries)
    /\ reader \in {"dial", "fetch", "hand", "stopped"}
    /\ fetchOffset \in Nat
    /\ pending \in Seq(Entries) /\ handed \in Seq(KafkaData)

(* What is in the response is handed on before the next Fetch.             *)
ReceiverInv ==
    /\ ReceiverType
    /\ reader = "hand" <=> pending # << >>
    /\ fetchOffset <= Len(topicLog)
    /\ handed \o Keep(pending, KafkaData) = Keep(SubSeq(topicLog, 1, fetchOffset), KafkaData)

(* A new receiver satisfies the invariant.                                 *)
LEMMA ReceiverInvInit == KafkaInit => ReceiverInv
<1> SUFFICES ASSUME KafkaInit PROVE ReceiverInv
  OBVIOUS
<1>1. /\ topicLog = << >> /\ reader = "dial" /\ fetchOffset = 0 /\ pending = << >>
      /\ handed = << >>
  BY DEF KafkaInit
<1>2. ReceiverType
  BY <1>1 DEF ReceiverType
<1>3. Len(topicLog) = 0 /\ SubSeq(topicLog, 1, 0) = << >>
  BY <1>1
<1>4. Keep(<< >>, KafkaData) = << >>
  <2>1. "x" \in {"x"}
    OBVIOUS
  <2> QED
    BY <2>1, KeepOne
<1>5. << >> \o << >> = << >>
  OBVIOUS
<1>6. handed \o Keep(pending, KafkaData) = Keep(SubSeq(topicLog, 1, fetchOffset), KafkaData)
  BY <1>1, <1>3, <1>4, <1>5
<1>7. fetchOffset <= Len(topicLog) /\ (reader = "hand" <=> pending # << >>)
  BY <1>1, <1>3
<1> QED
  BY <1>2, <1>6, <1>7 DEF ReceiverInv

(* What a Fetch of n whole messages and perhaps a cut one yields.          *)
LEMMA FetchedMessages ==
    ASSUME topicLog \in Seq(Entries), fetchOffset \in Nat, NEW n \in Nat, NEW cut \in BOOLEAN,
           fetchOffset + n + (IF cut THEN 1 ELSE 0) <= Len(topicLog)
    PROVE  LET set == MessageSet(fetchOffset, n, cut) IN
           /\ Parsed(set) = [i \in 1 .. n |-> topicLog[fetchOffset + i]]
           /\ NextOffset(set) = IF n = 0 THEN 0 ELSE fetchOffset + n
<1> DEFINE set == MessageSet(fetchOffset, n, cut)
           m == n + (IF cut THEN 1 ELSE 0)
<1>1. m \in Nat /\ n <= m
  OBVIOUS
<1>2. /\ DOMAIN set = 1 .. m
      /\ \A i \in 1 .. m : /\ set[i].offset = fetchOffset + i - 1
                           /\ set[i].entry = topicLog[fetchOffset + i]
                           /\ set[i].whole <=> i <= n
  BY DEF MessageSet
<1> HIDE DEF set, m
<1>3. {j \in DOMAIN set : \A k \in 1 .. j : set[k].whole} = 1 .. n
  <2>1. ASSUME NEW j \in 1 .. m, \A k \in 1 .. j : set[k].whole PROVE j \in 1 .. n
    <3>1. j \in 1 .. j
      BY <1>1
    <3>2. set[j].whole
      BY <2>1, <3>1
    <3> QED
      BY <1>1, <1>2, <3>2
  <2>2. ASSUME NEW j \in 1 .. n PROVE j \in 1 .. m /\ \A k \in 1 .. j : set[k].whole
    <3>1. \A k \in 1 .. j : k \in 1 .. m /\ k <= n
      BY <1>1
    <3> QED
      BY <1>1, <1>2, <3>1
  <2> QED
    BY <1>2, <2>1, <2>2
<1>4. Parsed(set) = [i \in 1 .. n |-> topicLog[fetchOffset + i]]
  <2>1. Parsed(set) = [i \in 1 .. n |-> set[i].entry]
    BY <1>3 DEF Parsed
  <2>2. \A i \in 1 .. n : set[i].entry = topicLog[fetchOffset + i]
    BY <1>1, <1>2
  <2> QED
    BY <2>1, <2>2
<1>5. NextOffset(set) = IF n = 0 THEN 0 ELSE fetchOffset + n
  <2> DEFINE W == {j \in DOMAIN set : set[j].whole}
             A == {0} \cup {set[i].offset + 1 : i \in W}
             top == IF n = 0 THEN 0 ELSE fetchOffset + n
  <2>1. \A j : j \in W <=> j \in 1 .. n
    BY <1>1, <1>2
  <2> HIDE DEF W
  <2>2. \A i \in W : set[i].offset + 1 = fetchOffset + i
    BY <1>1, <1>2, <2>1
  <2>3. top \in A
    <3>1. CASE n = 0
      BY <3>1
    <3>2. CASE n # 0
      <4>1. n \in W
        BY <2>1, <3>2
      <4>2. set[n].offset + 1 \in A /\ set[n].offset + 1 = fetchOffset + n
        BY <2>2, <4>1
      <4> QED
        BY <3>2, <4>2
    <3> QED
      BY <3>1, <3>2
  <2>4. \A x \in A : x <= top /\ x \in Nat
    BY <2>1, <2>2
  <2>5. NextOffset(set) = Max(A)
    BY DEF NextOffset, W
  <2> HIDE DEF A
  <2>6. top \in Nat
    OBVIOUS
  <2> HIDE DEF top
  <2>7. \A x \in A : (\A y \in A : x >= y) => x = top
    BY <2>3, <2>4, <2>6
  <2>8. \A y \in A : top >= y
    BY <2>4, <2>6
  <2>9. Max(A) = top
    BY <2>3, <2>7, <2>8 DEF Max
  <2> QED
    BY <2>5, <2>9 DEF top
<1> QED
  BY <1>4, <1>5 DEF set

(* A round of the receiver: the response continues the log.                *)
LEMMA SinkFetch ==
    ASSUME ReceiverInv, Fetch
    PROVE  ReceiverInv'
<1>1. /\ topicLog \in Seq(Entries) /\ fetchOffset \in Nat /\ handed \in Seq(KafkaData)
      /\ pending = << >> /\ reader = "fetch"
  BY DEF ReceiverInv, ReceiverType, Fetch
<1>2. PICK n \in 0 .. MaxFetch, cut \in BOOLEAN :
          /\ fetchOffset + n + (IF cut THEN 1 ELSE 0) <= Len(topicLog)
          /\ LET set == MessageSet(fetchOffset, n, cut)
                 nextOffset == NextOffset(set)
             IN  /\ fetchOffset' = IF nextOffset > fetchOffset THEN nextOffset ELSE fetchOffset
                 /\ pending' = Parsed(set)
                 /\ reader' = IF n > 0 THEN "hand" ELSE "fetch"
  BY DEF Fetch
<1>3. n \in Nat /\ UNCHANGED <<handed, topicLog>> /\ Len(topicLog) \in Nat
  BY <1>1, KafkaAssumption, LenProperties DEF Fetch
<1> DEFINE p == [i \in 1 .. n |-> topicLog[fetchOffset + i]]
           next == IF n = 0 THEN 0 ELSE fetchOffset + n
<1>4. /\ Parsed(MessageSet(fetchOffset, n, cut)) = p
      /\ NextOffset(MessageSet(fetchOffset, n, cut)) = next
  BY <1>1, <1>2, <1>3, FetchedMessages
<1>5. /\ pending' = p /\ reader' = IF n > 0 THEN "hand" ELSE "fetch"
      /\ fetchOffset' = IF next > fetchOffset THEN next ELSE fetchOffset
  BY <1>2, <1>4
<1>6. fetchOffset' = fetchOffset + n /\ fetchOffset + n <= Len(topicLog)
  BY SMTT(30), <1>1, <1>2, <1>3, <1>5
<1>7. /\ p \in Seq(Entries) /\ SubSeq(topicLog, 1, fetchOffset) \in Seq(Entries)
      /\ SubSeq(topicLog, 1, fetchOffset + n) = SubSeq(topicLog, 1, fetchOffset) \o p
  BY <1>1, <1>3, <1>6, NextPlaces
<1>8. n > 0 <=> p # << >>
  <2>1. Len(p) = n
    BY <1>3
  <2>2. n = 0 => p = << >>
    BY <1>3
  <2> QED
    BY <1>3, <2>1, <2>2
<1> HIDE DEF p, next
<1>9. Keep(SubSeq(topicLog, 1, fetchOffset + n), KafkaData)
        = Keep(SubSeq(topicLog, 1, fetchOffset), KafkaData) \o Keep(p, KafkaData)
  <2> DEFINE f == SubSeq(topicLog, 1, fetchOffset)
  <2>1. f \in Seq(Entries)
    BY <1>7
  <2> HIDE DEF f
  <2>2. Keep(f \o p, KafkaData) = Keep(f, KafkaData) \o Keep(p, KafkaData)
    BY <1>7, <2>1, KeepConcat
  <2> QED
    BY <1>7, <2>2 DEF f
<1>10. handed = Keep(SubSeq(topicLog, 1, fetchOffset), KafkaData)
  <2>1. Keep(<< >>, KafkaData) = << >>
    <3>1. "x" \in {"x"}
      OBVIOUS
    <3> QED
      BY <3>1, KeepOne
  <2>2. handed \o << >> = handed
    BY <1>1, ConcatEmptySeq
  <2> QED
    BY <1>1, <2>1, <2>2 DEF ReceiverInv
<1>11. ReceiverType'
  BY <1>1, <1>3, <1>5, <1>6, <1>7 DEF ReceiverType
<1>12. reader' = "hand" <=> pending' # << >>
  BY <1>5, <1>8
<1>13. handed' \o Keep(pending', KafkaData)
         = Keep(SubSeq(topicLog', 1, fetchOffset'), KafkaData)
  BY <1>3, <1>5, <1>6, <1>9, <1>10
<1>14. fetchOffset' <= Len(topicLog')
  BY <1>3, <1>6
<1> QED
  BY <1>11, <1>12, <1>13, <1>14 DEF ReceiverInv

(* Handing a message on moves it from the response to the sink, or drops   *)
(* what does not decode.                                                   *)
LEMMA SinkHandOn ==
    ASSUME ReceiverInv, HandOn
    PROVE  ReceiverInv'
<1> DEFINE x == Head(pending)
           rem == Tail(pending)
           K(s) == Keep(s, KafkaData)
<1>1. /\ ReceiverType /\ pending \in Seq(Entries) /\ pending # << >>
      /\ handed \in Seq(KafkaData)
  BY DEF ReceiverInv, ReceiverType, HandOn
<1>2. /\ handed' = IF x \in KafkaData THEN Append(handed, x) ELSE handed
      /\ pending' = rem /\ reader' = IF Len(pending) = 1 THEN "fetch" ELSE "hand"
      /\ UNCHANGED <<fetchOffset, topicLog>>
  BY DEF HandOn
<1>3. x \in Entries /\ rem \in Seq(Entries) /\ Len(rem) = Len(pending) - 1
      /\ Len(pending) \in Nat
  BY <1>1, ToSetHeadTail, LenProperties
<1>4. pending = <<x>> \o rem
  <2>1. << >> \in Seq(Entries) /\ Append(<< >>, x) = <<x>> /\ << >> \o pending = pending
    BY <1>1, <1>3, ConcatEmptySeq
  <2>2. Append(<< >>, x) \o rem = << >> \o pending
    BY <1>1, <2>1, MoveHead
  <2> QED
    BY <2>1, <2>2
<1>5. rem = << >> <=> Len(pending) = 1
  <2>1. rem # << >> => Len(rem) \in Nat \ {0}
    BY <1>3, EmptySeq
  <2>2. Len(<< >>) = 0
    BY EmptySeq
  <2> QED
    BY <1>3, <2>1, <2>2
<1>6. <<x>> \in Seq(Entries) /\ handed \in Seq(Entries)
  BY <1>1, <1>3, SeqMonotonic DEF Entries
<1> HIDE DEF x, rem
<1>7. K(pending) = K(<<x>>) \o K(rem) /\ K(rem) \in Seq(Entries)
  <2> DEFINE y == <<x>>
  <2>1. y \in Seq(Entries) /\ pending = y \o rem
    BY <1>4, <1>6
  <2> HIDE DEF y
  <2>2. Keep(y \o rem, KafkaData) = Keep(y, KafkaData) \o Keep(rem, KafkaData)
    BY <1>3, <2>1, KeepConcat
  <2>3. Keep(rem, KafkaData) \in Seq(Entries)
    BY <1>3, KeepProperties
  <2> QED
    BY <2>1, <2>2, <2>3 DEF y
<1>8. K(<<x>>) = IF x \in KafkaData THEN <<x>> ELSE << >>
  BY <1>3, KeepOne
<1> HIDE DEF K
<1>9. handed' \o K(rem) = handed \o K(pending)
  <2>1. CASE x \in KafkaData
    <3>1. Append(handed, x) = handed \o <<x>>
      BY <1>1, <2>1, AppendIsConcat
    <3>2. (handed \o <<x>>) \o K(rem) = handed \o (<<x>> \o K(rem))
      BY <1>6, <1>7, ConcatAssociative
    <3> QED
      BY <1>2, <1>7, <1>8, <2>1, <3>1, <3>2
  <2>2. CASE x \notin KafkaData
    <3>1. << >> \o K(rem) = K(rem)
      BY <1>7, ConcatEmptySeq
    <3> QED
      BY <1>2, <1>7, <1>8, <2>2, <3>1
  <2> QED
    BY <2>1, <2>2
<1>10. handed' \in Seq(KafkaData)
  BY <1>1, <1>2, AppendProperties
<1>11. ReceiverType'
  BY <1>1, <1>2, <1>3, <1>10 DEF ReceiverType
<1>12. reader' = "hand" <=> pending' # << >>
  BY <1>2, <1>5
<1>13. handed' \o Keep(pending', KafkaData)
         = Keep(SubSeq(topicLog', 1, fetchOffset'), KafkaData)
  BY <1>2, <1>9 DEF ReceiverInv, K
<1> QED
  BY <1>2, <1>11, <1>12, <1>13 DEF ReceiverInv

(* The log grows at its end, behind the offset.                            *)
LEMMA SinkLogGrows ==
    ASSUME ReceiverInv, NEW e \in Entries, topicLog' = Append(topicLog, e), UNCHANGED receiver
    PROVE  ReceiverInv'
<1>1. topicLog \in Seq(Entries) /\ fetchOffset \in Nat /\ fetchOffset <= Len(topicLog)
  BY DEF ReceiverInv, ReceiverType
<1>2. UNCHANGED <<reader, fetchOffset, pending, handed>>
  BY DEF receiver
<1>3. topicLog' \in Seq(Entries) /\ Len(topicLog') = Len(topicLog) + 1 /\ Len(topicLog) \in Nat
  BY <1>1, AppendProperties, LenProperties
<1>4. fetchOffset \in 0 .. Len(topicLog)
  BY <1>1, <1>3
<1>5. SubSeq(topicLog', 1, fetchOffset) = SubSeq(topicLog, 1, fetchOffset)
  BY <1>1, <1>4, FirstPlacesOfAppend
<1>6. ReceiverType' /\ fetchOffset' <= Len(topicLog')
  BY <1>1, <1>2, <1>3 DEF ReceiverInv, ReceiverType
<1> QED
  BY <1>2, <1>5, <1>6 DEF ReceiverInv

(* The receiver keeps its connection apart from its offset.                *)
LEMMA SinkControl ==
    ASSUME ReceiverInv, ReceiverDials \/ FetchFails \/ ReceiverStops
    PROVE  ReceiverInv'
<1>1. UNCHANGED <<fetchOffset, pending, handed, topicLog>>
  BY DEF ReceiverDials, FetchFails, ReceiverStops
<1>2. /\ reader \in {"dial", "fetch"} /\ reader' \in {"dial", "fetch", "stopped"}
  BY DEF ReceiverDials, FetchFails, ReceiverStops, KafkaFault
<1> QED
  BY <1>1, <1>2 DEF ReceiverInv, ReceiverType

(* A new loop begins at the start of the log.                              *)
LEMMA SinkRestarts ==
    ASSUME ReceiverInv, ReceiverRestarts
    PROVE  ReceiverInv'
<1>1. /\ reader' = "dial" /\ fetchOffset' = 0 /\ pending' = << >> /\ handed' = << >>
      /\ topicLog' = topicLog /\ topicLog \in Seq(Entries) /\ Len(topicLog) \in Nat
  BY LenProperties DEF ReceiverRestarts, ReceiverInv, ReceiverType
<1>2. ReceiverType'
  BY <1>1 DEF ReceiverType
<1>3. Keep(<< >>, KafkaData) = << >>
  <2>1. "x" \in {"x"}
    OBVIOUS
  <2> QED
    BY <2>1, KeepOne
<1>4. SubSeq(topicLog, 1, 0) = << >> /\ << >> \o << >> = << >>
  BY SubSeqEmpty
<1>5. handed' \o Keep(pending', KafkaData)
        = Keep(SubSeq(topicLog', 1, fetchOffset'), KafkaData)
  BY <1>1, <1>3, <1>4
<1>6. fetchOffset' <= Len(topicLog') /\ (reader' = "hand" <=> pending' # << >>)
  BY <1>1
<1> QED
  BY <1>2, <1>5, <1>6 DEF ReceiverInv

-----------------------------------------------------------------------------
(* Kafka: the exporter *)

ExporterType ==
    /\ kafkaBatch \in Seq(KafkaData)
    /\ conn \in 0 .. MaxConns
    /\ link \in [Conns -> {"unused", "up", "down", "closed"}]
    /\ wire \in [Conns -> Seq(KafkaData)]
    /\ callerAt \in [Callers -> {"out", "take", "check", "dial", "write", "drop", "close",
                                 "closing"}]
    /\ closers \subseteq Callers /\ given \subseteq KafkaData
    /\ rest \in [Callers -> Seq(KafkaData)]
    /\ lost \subseteq KafkaData
    /\ panicked \in BOOLEAN /\ overlap \in BOOLEAN

(* A caller has something to send exactly while it is sending.             *)
FlushInv ==
    \A c \in Callers : callerAt[c] \in {"check", "dial", "write", "drop"} <=> rest[c] # << >>

(* Callers past the point where they took their batch.                     *)
Past == {"check", "dial", "write", "drop", "close", "closing"}

(* Two callers past that point have met; and a caller that is about to use *)
(* ke.conn finds it set, unless it has met another.                        *)
MeetInv ==
    /\ \A c, d \in Callers : c # d /\ callerAt[c] \in Past /\ callerAt[d] \in Past => overlap
    /\ \A c \in Callers : callerAt[c] \in {"write", "drop", "closing"} /\ conn = 0 => overlap
    /\ panicked => overlap

ExporterInv == ExporterType /\ FlushInv /\ MeetInv

(* A new exporter satisfies the invariant.                                 *)
LEMMA ExporterInvInit == KafkaInit => ExporterInv
<1> SUFFICES ASSUME KafkaInit PROVE ExporterInv
  OBVIOUS
<1>1. panicked \in BOOLEAN /\ overlap \in BOOLEAN
  BY DEF KafkaInit
<1>2. ExporterType
  BY <1>1, KafkaAssumption DEF KafkaInit, ExporterType, Conns
<1>3. FlushInv
  BY DEF KafkaInit, FlushInv
<1>4. MeetInv
  BY DEF KafkaInit, MeetInv, Past
<1> QED
  BY <1>2, <1>3, <1>4 DEF ExporterInv

(* What a caller gives up.                                                 *)
LEMMA GiveUpType ==
    ASSUME ExporterType, NEW c \in Callers, GiveUp(c)
    PROVE  /\ lost' \subseteq KafkaData /\ rest' \in [Callers -> Seq(KafkaData)]
           /\ rest'[c] = << >> /\ \A d \in Callers : d # c => rest'[d] = rest[d]
           /\ callerAt'[c] = "out" /\ \A d \in Callers : d # c => callerAt'[d] = callerAt[d]
           /\ callerAt' \in [Callers -> {"out", "take", "check", "dial", "write", "drop",
                                         "close", "closing"}]
           /\ closers' \subseteq Callers
<1>1. rest[c] \in Seq(KafkaData)
  BY DEF ExporterType
<1>2. ToSet(rest[c]) \subseteq KafkaData
  BY <1>1, ElementOfSeq, LenProperties DEF ToSet
<1> QED
  BY <1>2 DEF GiveUp, ExporterType, CallerTo

(* The types and the control of the exporter, one action at a time.        *)
LEMMA ExporterExports ==
    ASSUME ExporterInv, NEW c \in Callers, NEW p \in KafkaData, ExportTraces(c, p)
    PROVE  ExporterInv'
<1>1. ExporterType'
  <2>1. Append(kafkaBatch, p) \in Seq(KafkaData)
    BY AppendProperties DEF ExporterInv, ExporterType
  <2> QED
    BY <2>1 DEF ExporterInv, ExporterType, ExportTraces, CallerTo
<1>2. FlushInv'
  BY DEF ExporterInv, ExporterType, FlushInv, ExportTraces, CallerTo
<1>3. MeetInv'
  BY DEF ExporterInv, ExporterType, MeetInv, Past, ExportTraces, CallerTo
<1> QED
  BY <1>1, <1>2, <1>3 DEF ExporterInv

LEMMA ExporterShutsDown ==
    ASSUME ExporterInv, NEW c \in Callers, KafkaShutdown(c)
    PROVE  ExporterInv'
<1>1. ExporterType'
  BY DEF ExporterInv, ExporterType, KafkaShutdown, CallerTo
<1>2. FlushInv'
  BY DEF ExporterInv, ExporterType, FlushInv, KafkaShutdown, CallerTo
<1>3. MeetInv'
  BY DEF ExporterInv, ExporterType, MeetInv, Past, KafkaShutdown, CallerTo
<1> QED
  BY <1>1, <1>2, <1>3 DEF ExporterInv

LEMMA ExporterTakes ==
    ASSUME ExporterInv, NEW c \in Callers, Take(c)
    PROVE  ExporterInv'
<1>1. ExporterType'
  <2>1. overlap' \in BOOLEAN
    BY DEF Take
  <2> QED
    BY <2>1 DEF ExporterInv, ExporterType, Take, CallerTo, Done
<1>2. FlushInv'
  BY DEF ExporterInv, ExporterType, FlushInv, Take, CallerTo, Done
<1>3. MeetInv'
  <2>1. /\ callerAt' = [callerAt EXCEPT ![c] = IF kafkaBatch = << >> THEN Done(c) ELSE "check"]
        /\ callerAt'[c] \in {"close", "out", "check"}
        /\ \A d \in Callers : d # c => callerAt'[d] = callerAt[d]
    BY DEF ExporterInv, ExporterType, Take, CallerTo, Done
  <2>2. overlap' <=> overlap \/ \E d \in Callers \ {c} : callerAt[d] # "out"
    BY DEF Take
  <2>3. UNCHANGED <<conn, panicked>>
    BY DEF Take
  <2> QED
    BY <2>1, <2>2, <2>3 DEF ExporterInv, MeetInv, Past
<1> QED
  BY <1>1, <1>2, <1>3 DEF ExporterInv

LEMMA ExporterEnsures ==
    ASSUME ExporterInv, NEW c \in Callers, EnsureConn(c)
    PROVE  ExporterInv'
<1>1. ExporterType'
  BY DEF ExporterInv, ExporterType, EnsureConn, CallerTo
<1>2. FlushInv'
  BY DEF ExporterInv, ExporterType, FlushInv, EnsureConn, CallerTo
<1>3. MeetInv'
  BY DEF ExporterInv, ExporterType, MeetInv, Past, EnsureConn, CallerTo
<1> QED
  BY <1>1, <1>2, <1>3 DEF ExporterInv

LEMMA ExporterDials ==
    ASSUME ExporterInv, NEW c \in Callers, DialBroker(c)
    PROVE  ExporterInv'
<1>1. CASE GiveUp(c) /\ UNCHANGED <<conn, link>>
  <2>1. ExporterType'
    BY <1>1, GiveUpType DEF ExporterInv, ExporterType, DialBroker
  <2>2. FlushInv'
    BY <1>1, GiveUpType DEF ExporterInv, FlushInv
  <2>3. MeetInv'
    BY <1>1, GiveUpType DEF ExporterInv, MeetInv, Past, DialBroker
  <2> QED
    BY <2>1, <2>2, <2>3 DEF ExporterInv
<1>2. CASE \E k \in Conns : /\ link' = [link EXCEPT ![k] = "up"]
                            /\ conn' = k
                            /\ CallerTo(c, "write")
                            /\ UNCHANGED <<lost, rest, closers>>
  <2>1. PICK k \in Conns : /\ link' = [link EXCEPT ![k] = "up"]
                           /\ conn' = k
                           /\ CallerTo(c, "write")
                           /\ UNCHANGED <<lost, rest, closers>>
    BY <1>2
  <2>2. k \in 0 .. MaxConns /\ k # 0
    BY KafkaAssumption DEF Conns
  <2>3. ExporterType'
    BY <2>1, <2>2 DEF ExporterInv, ExporterType, DialBroker, CallerTo
  <2>4. FlushInv'
    BY <2>1 DEF ExporterInv, ExporterType, FlushInv, DialBroker, CallerTo
  <2>5. MeetInv'
    BY <2>1, <2>2 DEF ExporterInv, ExporterType, MeetInv, Past, DialBroker, CallerTo
  <2> QED
    BY <2>3, <2>4, <2>5 DEF ExporterInv
<1> QED
  BY <1>1, <1>2 DEF DialBroker

LEMMA ExporterWrites ==
    ASSUME ExporterInv, NEW c \in Callers, WriteRequest(c)
    PROVE  /\ ExporterInv'
           /\ conn \in Conns /\ rest[c] \in Seq(KafkaData) /\ rest[c] # << >>
           /\ wire' = [wire EXCEPT ![conn] = Append(wire[conn], Head(rest[c]))]
           /\ rest' = [rest EXCEPT ![c] = Tail(rest[c])]
<1>1. /\ conn \in Conns /\ rest[c] \in Seq(KafkaData) /\ rest[c] # << >>
      /\ wire[conn] \in Seq(KafkaData)
  <2>1. conn \in Conns
    BY KafkaAssumption DEF ExporterInv, ExporterType, WriteRequest, Conns
  <2>2. rest[c] \in Seq(KafkaData) /\ rest[c] # << >>
    BY DEF ExporterInv, ExporterType, FlushInv, WriteRequest
  <2>3. wire[conn] \in Seq(KafkaData)
    BY <2>1 DEF ExporterInv, ExporterType
  <2> QED
    BY <2>1, <2>2, <2>3
<1>2. /\ Head(rest[c]) \in KafkaData /\ Tail(rest[c]) \in Seq(KafkaData)
      /\ Len(Tail(rest[c])) = Len(rest[c]) - 1 /\ Len(rest[c]) \in Nat
  BY <1>1, ToSetHeadTail, LenProperties
<1>3. Append(wire[conn], Head(rest[c])) \in Seq(KafkaData)
  BY <1>1, <1>2, AppendProperties
<1>4. ExporterType'
  BY <1>1, <1>2, <1>3 DEF ExporterInv, ExporterType, WriteRequest, CallerTo, Done
<1>5. Len(rest[c]) = 1 <=> Tail(rest[c]) = << >>
  <2> DEFINE t == Tail(rest[c])
  <2>1. Len(<< >>) = 0
    BY EmptySeq
  <2>2. t \in Seq(KafkaData) /\ Len(t) = Len(rest[c]) - 1
    BY <1>2
  <2> HIDE DEF t
  <2>3. t # << >> => Len(t) \in Nat \ {0}
    BY <2>2, EmptySeq
  <2>4. t = << >> => Len(t) = 0
    BY <2>1
  <2>5. Len(rest[c]) = 1 <=> t = << >>
    BY <1>2, <2>2, <2>3, <2>4
  <2> QED
    BY <2>5 DEF t
<1>6. FlushInv'
  BY <1>5 DEF ExporterInv, ExporterType, FlushInv, WriteRequest, CallerTo, Done
<1>7. MeetInv'
  BY DEF ExporterInv, ExporterType, MeetInv, Past, WriteRequest, CallerTo, Done
<1> QED
  BY <1>1, <1>4, <1>6, <1>7 DEF ExporterInv, WriteRequest

LEMMA ExporterFails ==
    ASSUME ExporterInv, NEW c \in Callers, WriteError(c)
    PROVE  ExporterInv'
<1>1. ExporterType'
  BY DEF ExporterInv, ExporterType, WriteError, CallerTo
<1>2. FlushInv'
  BY DEF ExporterInv, ExporterType, FlushInv, WriteError, CallerTo
<1>3. MeetInv'
  BY DEF ExporterInv, ExporterType, MeetInv, Past, WriteError, CallerTo
<1> QED
  BY <1>1, <1>2, <1>3 DEF ExporterInv

(* Only here does ke.conn become nil: whoever is about to use it has met   *)
(* the caller that drops it.                                               *)
LEMMA ExporterDrops ==
    ASSUME ExporterInv, NEW c \in Callers, DropConn(c)
    PROVE  ExporterInv'
<1>1. GiveUp(c) /\ UNCHANGED <<panicked, overlap, given, kafkaBatch, wire>>
  BY DEF DropConn
<1>2. conn' \in 0 .. MaxConns /\ link' \in [Conns -> {"unused", "up", "down", "closed"}]
  BY KafkaAssumption DEF DropConn, ExporterInv, ExporterType, Conns
<1>3. ExporterType'
  BY <1>1, <1>2, GiveUpType DEF ExporterInv, ExporterType
<1>4. FlushInv'
  BY <1>1, GiveUpType DEF ExporterInv, FlushInv
<1>5. MeetInv'
  <2>1. callerAt[c] = "drop"
    BY DEF DropConn
  <2> QED
    BY ZenonT(40), <1>1, <2>1, GiveUpType DEF ExporterInv, MeetInv, Past
<1> QED
  BY <1>3, <1>4, <1>5 DEF ExporterInv

LEMMA ExporterPanics ==
    ASSUME ExporterInv, NEW c \in Callers, NilConn(c)
    PROVE  ExporterInv'
<1>1. GiveUp(c) /\ UNCHANGED <<overlap, given, kafkaBatch, wire, conn, link>> /\ panicked' = TRUE
  BY DEF NilConn
<1>2. ExporterType'
  BY <1>1, GiveUpType DEF ExporterInv, ExporterType
<1>3. FlushInv'
  BY <1>1, GiveUpType DEF ExporterInv, FlushInv
<1>4. MeetInv'
  <2>1. callerAt[c] \in {"write", "drop", "closing"} /\ conn = 0
    BY DEF NilConn
  <2> QED
    BY <1>1, <2>1, GiveUpType DEF ExporterInv, MeetInv, Past
<1> QED
  BY <1>2, <1>3, <1>4 DEF ExporterInv

LEMMA ExporterCloses ==
    ASSUME ExporterInv, NEW c \in Callers, CheckClose(c) \/ CloseConn(c)
    PROVE  ExporterInv'
<1>1. ExporterType'
  BY KafkaAssumption DEF ExporterInv, ExporterType, CheckClose, CloseConn, CallerTo, Conns
<1>2. FlushInv'
  BY DEF ExporterInv, ExporterType, FlushInv, CheckClose, CloseConn, CallerTo
<1>3. MeetInv'
  <2>1. CASE CheckClose(c)
    BY <2>1 DEF ExporterInv, ExporterType, MeetInv, Past, CheckClose, CallerTo
  <2>2. CASE CloseConn(c)
    BY <2>2 DEF ExporterInv, ExporterType, MeetInv, Past, CloseConn, CallerTo
  <2> QED
    BY <2>1, <2>2
<1> QED
  BY <1>1, <1>2, <1>3 DEF ExporterInv

LEMMA ExporterLinks ==
    ASSUME ExporterInv, NEW k \in Conns, BrokerAppends(k) \/ BreakLink(k)
    PROVE  ExporterInv'
<1>1. ExporterType'
  <2>1. ASSUME wire[k] # << >> PROVE Tail(wire[k]) \in Seq(KafkaData)
    BY <2>1, HeadTailProperties DEF ExporterInv, ExporterType
  <2> QED
    BY <2>1 DEF ExporterInv, ExporterType, BrokerAppends, BreakLink
<1>2. FlushInv' /\ MeetInv'
  BY DEF ExporterInv, FlushInv, MeetInv, BrokerAppends, BreakLink
<1> QED
  BY <1>1, <1>2 DEF ExporterInv

-----------------------------------------------------------------------------
(* Kafka: where a payload is *)

(* The payloads G that were given are in one place each: the batch B, the  *)
(* flushes F, the connections W, the log L, the lost ones X.               *)
OnePlace(G, B, F, W, L, X) ==
    /\ G = B \cup F \cup W \cup (L \cap KafkaData) \cup X
    /\ B \cap (F \cup W \cup L \cup X) = {}
    /\ F \cap (W \cup L \cup X) = {}
    /\ W \cap (L \cup X) = {}
    /\ L \cap X = {}

(* A family of sequences without repetition, within one or across two.     *)
Apart(f, C) ==
    \A c, d \in C : /\ IsInjective(f[c])
                    /\ c # d => ToSet(f[c]) \cap ToSet(f[d]) = {}

(* The elements of a family of sequences.                                  *)
AllOf(f, C) == UNION {ToSet(f[c]) : c \in C}

(* Replacing one sequence of a family.                                     *)
LEMMA FamilyStep ==
    ASSUME NEW C, NEW f, NEW g, NEW c \in C, Apart(f, C),
           \A d \in C : d # c => g[d] = f[d],
           IsInjective(g[c]),
           ToSet(g[c]) \cap (AllOf(f, C) \ ToSet(f[c])) = {}
    PROVE  /\ Apart(g, C)
           /\ AllOf(g, C) = (AllOf(f, C) \ ToSet(f[c])) \cup ToSet(g[c])
           /\ ToSet(f[c]) \subseteq AllOf(f, C)
<1>1. \A d \in C : ToSet(f[d]) \subseteq AllOf(f, C)
  BY DEF AllOf
<1>2. \A d \in C : d # c => ToSet(f[d]) \subseteq AllOf(f, C) \ ToSet(f[c])
  BY <1>1 DEF Apart
<1>3. Apart(g, C)
  BY <1>2 DEF Apart
<1>4. \A x \in AllOf(f, C) \ ToSet(f[c]) : \E d \in C : d # c /\ x \in ToSet(f[d])
  BY DEF AllOf
<1>5. AllOf(g, C) = (AllOf(f, C) \ ToSet(f[c])) \cup ToSet(g[c])
  <2>1. ASSUME NEW x \in AllOf(g, C)
        PROVE  x \in (AllOf(f, C) \ ToSet(f[c])) \cup ToSet(g[c])
    <3>1. PICK d \in C : x \in ToSet(g[d])
      BY DEF AllOf
    <3> QED
      BY <1>2, <3>1
  <2>2. ASSUME NEW x \in (AllOf(f, C) \ ToSet(f[c])) \cup ToSet(g[c])
        PROVE  x \in AllOf(g, C)
    <3>1. \E d \in C : x \in ToSet(g[d])
      BY <1>4
    <3> QED
      BY <3>1 DEF AllOf
  <2> QED
    BY <2>1, <2>2
<1> QED
  BY <1>1, <1>3, <1>5

(* The property in these terms, before a step and after it.                *)
AccountInv ==
    /\ OnePlace(given, ToSet(kafkaBatch), InFlush, OnWire, ToSet(topicLog), lost)
    /\ IsInjective(kafkaBatch) /\ IsInjective(topicLog)
    /\ Apart(rest, Callers)
    /\ Apart(wire, Conns)

LEMMA AccountParts ==
    /\ PayloadsAccountedFor <=> AccountInv /\ (panicked => overlap)
    /\ InFlush = AllOf(rest, Callers) /\ OnWire = AllOf(wire, Conns)
    /\ InFlush' = AllOf(rest', Callers) /\ OnWire' = AllOf(wire', Conns)
<1>1. PayloadsAccountedFor <=> AccountInv /\ (panicked => overlap)
  BY DEF PayloadsAccountedFor, AccountInv, OnePlace, Apart
<1> QED
  BY <1>1 DEF AllOf, InFlush, OnWire

(* Nothing is anywhere at first.                                           *)
LEMMA AccountInit == KafkaInit => AccountInv
<1> SUFFICES ASSUME KafkaInit PROVE AccountInv
  OBVIOUS
<1>1. ToSet(<< >>) = {} /\ IsInjective(<< >>)
  BY DEF ToSet, IsInjective
<1>2. /\ given = {} /\ kafkaBatch = << >> /\ topicLog = << >> /\ lost = {}
      /\ \A c \in Callers : rest[c] = << >>
      /\ \A k \in Conns : wire[k] = << >>
  BY DEF KafkaInit
<1>3. InFlush = {} /\ OnWire = {}
  BY <1>1, <1>2 DEF InFlush, OnWire
<1>4. Apart(rest, Callers) /\ Apart(wire, Conns)
  BY <1>1, <1>2 DEF Apart
<1> QED
  BY <1>1, <1>2, <1>3, <1>4 DEF AccountInv, OnePlace

(* ExportTraces appends a new payload to the batch.                        *)
LEMMA AccountExport ==
    ASSUME ExporterType, AccountInv, topicLog \in Seq(Entries),
           NEW p \in KafkaData, p \notin given,
           given' = given \cup {p}, kafkaBatch' = Append(kafkaBatch, p),
           UNCHANGED <<rest, wire, topicLog, lost>>
    PROVE  AccountInv'
<1>1. kafkaBatch \in Seq(KafkaData)
  BY DEF ExporterType
<1>2. ToSet(kafkaBatch') = ToSet(kafkaBatch) \cup {p}
  BY <1>1, ToSetAppend
<1>3. p \notin ToSet(kafkaBatch)
  BY DEF AccountInv, OnePlace
<1>4. IsInjective(kafkaBatch')
  BY <1>1, <1>3, InjectiveAppend DEF AccountInv
<1>5. InFlush' = InFlush /\ OnWire' = OnWire
  BY DEF InFlush, OnWire
<1>6. OnePlace(given, ToSet(kafkaBatch), InFlush, OnWire, ToSet(topicLog), lost)
  BY DEF AccountInv
<1>7. OnePlace(given', ToSet(kafkaBatch'), InFlush', OnWire', ToSet(topicLog'), lost')
  BY <1>2, <1>5, <1>6 DEF OnePlace
<1> QED
  BY <1>4, <1>7 DEF AccountInv, Apart

(* flush takes the batch out.                                              *)
LEMMA AccountTake ==
    ASSUME ExporterType, AccountInv, NEW c \in Callers, rest[c] = << >>,
           rest'[c] = kafkaBatch, \A d \in Callers : d # c => rest'[d] = rest[d],
           kafkaBatch' = << >>,
           UNCHANGED <<given, wire, topicLog, lost>>
    PROVE  AccountInv'
<1>1. ToSet(<< >>) = {} /\ IsInjective(<< >>)
  BY DEF ToSet, IsInjective
<1>2. rest'[c] = kafkaBatch /\ \A d \in Callers : d # c => rest'[d] = rest[d]
  OBVIOUS
<1>3. OnePlace(given, ToSet(kafkaBatch), InFlush, OnWire, ToSet(topicLog), lost)
  BY DEF AccountInv
<1>4. ToSet(rest'[c]) \cap (AllOf(rest, Callers) \ ToSet(rest[c])) = {}
  BY <1>2, <1>3, AccountParts DEF OnePlace
<1>5. /\ Apart(rest', Callers)
      /\ AllOf(rest', Callers) = (AllOf(rest, Callers) \ ToSet(rest[c])) \cup ToSet(rest'[c])
  <2>1. IsInjective(rest'[c]) /\ Apart(rest, Callers)
    BY <1>2 DEF AccountInv
  <2>2. \A d \in Callers : d # c => rest'[d] = rest[d]
    BY <1>2
  <2> QED
    BY <1>4, <2>1, <2>2, FamilyStep
<1>6. InFlush' = InFlush \cup ToSet(kafkaBatch) /\ OnWire' = OnWire
  BY <1>1, <1>2, <1>5, AccountParts
<1>7. OnePlace(given', ToSet(kafkaBatch'), InFlush', OnWire', ToSet(topicLog'), lost')
  BY <1>1, <1>3, <1>6 DEF OnePlace
<1> QED
  BY <1>1, <1>5, <1>7 DEF AccountInv, Apart

(* A flush that fails: what it held is among the lost.                     *)
LEMMA AccountGiveUp ==
    ASSUME ExporterType, AccountInv, NEW c \in Callers, GiveUp(c),
           UNCHANGED <<given, kafkaBatch, wire, topicLog>>
    PROVE  AccountInv'
<1>1. ToSet(<< >>) = {} /\ IsInjective(<< >>)
  BY DEF ToSet, IsInjective
<1>2. /\ rest'[c] = << >> /\ \A d \in Callers : d # c => rest'[d] = rest[d]
      /\ lost' = lost \cup ToSet(rest[c])
  BY GiveUpType DEF GiveUp
<1>3. /\ Apart(rest', Callers)
      /\ AllOf(rest', Callers) = (AllOf(rest, Callers) \ ToSet(rest[c])) \cup ToSet(rest'[c])
      /\ ToSet(rest[c]) \subseteq AllOf(rest, Callers)
  BY <1>1, <1>2, FamilyStep DEF AccountInv
<1>4. /\ InFlush' = InFlush \ ToSet(rest[c]) /\ OnWire' = OnWire
      /\ ToSet(rest[c]) \subseteq InFlush
  BY <1>1, <1>2, <1>3, AccountParts
<1>5. OnePlace(given, ToSet(kafkaBatch), InFlush, OnWire, ToSet(topicLog), lost)
  BY DEF AccountInv
<1>6. OnePlace(given', ToSet(kafkaBatch'), InFlush', OnWire', ToSet(topicLog'), lost')
  BY <1>2, <1>4, <1>5 DEF OnePlace
<1> QED
  BY <1>3, <1>6 DEF AccountInv, Apart

(* A payload goes from a flush to a connection.                            *)
LEMMA AccountWrite ==
    ASSUME ExporterType, AccountInv, NEW c \in Callers, rest[c] # << >>, NEW k \in Conns,
           wire'[k] = Append(wire[k], Head(rest[c])),
           \A j \in Conns : j # k => wire'[j] = wire[j],
           rest'[c] = Tail(rest[c]),
           \A d \in Callers : d # c => rest'[d] = rest[d],
           UNCHANGED <<given, kafkaBatch, topicLog, lost>>
    PROVE  AccountInv'
<1> DEFINE h == Head(rest[c])
<1>1. rest[c] \in Seq(KafkaData) /\ wire[k] \in Seq(KafkaData)
  BY DEF ExporterType
<1>2. /\ h \in KafkaData /\ ToSet(rest[c]) = {h} \cup ToSet(Tail(rest[c]))
      /\ Tail(rest[c]) \in Seq(KafkaData)
  BY <1>1, ToSetHeadTail
<1>3. IsInjective(rest[c]) /\ IsInjective(wire[k])
  BY DEF AccountInv, Apart
<1>4. IsInjective(Tail(rest[c])) /\ h \notin ToSet(Tail(rest[c]))
  BY <1>1, <1>3, InjectiveTail
<1>5. rest'[c] = Tail(rest[c]) /\ \A d \in Callers : d # c => rest'[d] = rest[d]
  OBVIOUS
<1>6. wire'[k] = Append(wire[k], h) /\ \A j \in Conns : j # k => wire'[j] = wire[j]
  OBVIOUS
<1> HIDE DEF h
<1>7. k \in Conns
  OBVIOUS
<1>8. /\ Apart(rest', Callers)
      /\ AllOf(rest', Callers) = (AllOf(rest, Callers) \ ToSet(rest[c])) \cup ToSet(rest'[c])
      /\ ToSet(rest[c]) \subseteq AllOf(rest, Callers)
  <2>1. ToSet(rest'[c]) \cap (AllOf(rest, Callers) \ ToSet(rest[c])) = {}
    BY <1>2, <1>5
  <2>2. Apart(rest, Callers) /\ IsInjective(rest'[c])
    BY <1>4, <1>5 DEF AccountInv
  <2> QED
    BY <1>5, <2>1, <2>2, FamilyStep
<1>9. InFlush' = InFlush \ {h} /\ h \in InFlush
  BY <1>2, <1>4, <1>5, <1>8, AccountParts
<1>10. OnePlace(given, ToSet(kafkaBatch), InFlush, OnWire, ToSet(topicLog), lost)
  BY DEF AccountInv
<1>11. h \notin OnWire
  BY <1>9, <1>10 DEF OnePlace
<1>12. ToSet(wire'[k]) = ToSet(wire[k]) \cup {h}
  BY <1>1, <1>2, <1>6, ToSetAppend
<1>13. /\ Apart(wire', Conns)
       /\ AllOf(wire', Conns) = (AllOf(wire, Conns) \ ToSet(wire[k])) \cup ToSet(wire'[k])
       /\ ToSet(wire[k]) \subseteq AllOf(wire, Conns)
  <2>1. ToSet(wire[k]) \subseteq AllOf(wire, Conns)
    BY <1>7 DEF AllOf
  <2>2. ToSet(wire'[k]) \cap (AllOf(wire, Conns) \ ToSet(wire[k])) = {}
    BY <1>11, <1>12, AccountParts
  <2>3. IsInjective(wire'[k])
    BY <1>1, <1>2, <1>3, <1>6, <1>11, <2>1, AccountParts, InjectiveAppend
  <2>4. Apart(wire, Conns)
    BY DEF AccountInv
  <2>5. \A j \in Conns : j # k => wire'[j] = wire[j]
    BY <1>6
  <2> QED
    BY ZenonT(40), <1>7, <2>2, <2>3, <2>4, <2>5, FamilyStep
<1>14. OnWire' = OnWire \cup {h}
  BY <1>12, <1>13, AccountParts
<1>15. OnePlace(given', ToSet(kafkaBatch'), InFlush', OnWire', ToSet(topicLog'), lost')
  BY <1>9, <1>10, <1>14 DEF OnePlace
<1> QED
  BY <1>8, <1>13, <1>15 DEF AccountInv

(* The broker moves a payload from a connection to the log.                *)
LEMMA AccountAppend ==
    ASSUME ExporterType, AccountInv, topicLog \in Seq(Entries),
           NEW k \in Conns, wire[k] # << >>,
           topicLog' = Append(topicLog, Head(wire[k])),
           wire'[k] = Tail(wire[k]), \A j \in Conns : j # k => wire'[j] = wire[j],
           UNCHANGED <<given, kafkaBatch, rest, lost>>
    PROVE  AccountInv'
<1> DEFINE h == Head(wire[k])
<1>1. wire[k] \in Seq(KafkaData)
  BY DEF ExporterType
<1>2. /\ h \in KafkaData /\ ToSet(wire[k]) = {h} \cup ToSet(Tail(wire[k]))
  BY <1>1, ToSetHeadTail
<1>3. IsInjective(wire[k]) /\ Apart(wire, Conns)
  BY DEF AccountInv, Apart
<1>4. IsInjective(Tail(wire[k])) /\ h \notin ToSet(Tail(wire[k]))
  BY <1>1, <1>3, InjectiveTail
<1>5. wire'[k] = Tail(wire[k]) /\ \A j \in Conns : j # k => wire'[j] = wire[j]
  OBVIOUS
<1>6. /\ Apart(wire', Conns)
      /\ AllOf(wire', Conns) = (AllOf(wire, Conns) \ ToSet(wire[k])) \cup ToSet(wire'[k])
      /\ ToSet(wire[k]) \subseteq AllOf(wire, Conns)
  <2>1. ToSet(wire'[k]) \cap (AllOf(wire, Conns) \ ToSet(wire[k])) = {}
    BY <1>2, <1>5
  <2>2. IsInjective(wire'[k])
    BY <1>4, <1>5
  <2> QED
    BY <1>3, <1>5, <2>1, <2>2, FamilyStep
<1>7. h \in Entries /\ topicLog' = Append(topicLog, h)
  BY <1>2 DEF Entries
<1> HIDE DEF h
<1>8. OnWire' = OnWire \ {h} /\ h \in OnWire /\ InFlush' = InFlush
  BY <1>2, <1>4, <1>5, <1>6, AccountParts
<1>9. OnePlace(given, ToSet(kafkaBatch), InFlush, OnWire, ToSet(topicLog), lost)
  BY DEF AccountInv
<1>10. h \notin ToSet(topicLog)
  BY <1>8, <1>9 DEF OnePlace
<1>11. ToSet(topicLog') = ToSet(topicLog) \cup {h} /\ IsInjective(topicLog')
  BY <1>7, <1>10, ToSetAppend, InjectiveAppend DEF AccountInv
<1>12. OnePlace(given', ToSet(kafkaBatch'), InFlush', OnWire', ToSet(topicLog'), lost')
  BY <1>2, <1>8, <1>9, <1>11 DEF OnePlace
<1> QED
  BY <1>6, <1>11, <1>12 DEF AccountInv, Apart

(* Another producer's entry is no payload of ours.                         *)
LEMMA AccountOther ==
    ASSUME ExporterType, AccountInv, topicLog \in Seq(Entries), NEW g \in Garbage, OtherProducer(g)
    PROVE  AccountInv'
<1>1. /\ g \notin ToSet(topicLog) /\ topicLog' = Append(topicLog, g)
      /\ UNCHANGED <<given, kafkaBatch, wire, rest, lost>>
  BY DEF OtherProducer, exporter
<1>2. g \in Entries /\ g \notin KafkaData
  BY KafkaAssumption DEF Entries
<1>3. ToSet(topicLog') = ToSet(topicLog) \cup {g} /\ IsInjective(topicLog')
  BY <1>1, <1>2, ToSetAppend, InjectiveAppend DEF AccountInv
<1>4. InFlush' = InFlush /\ OnWire' = OnWire
  BY <1>1 DEF InFlush, OnWire
<1>5. OnePlace(given, ToSet(kafkaBatch), InFlush, OnWire, ToSet(topicLog), lost)
  BY DEF AccountInv
<1>6. ToSet(kafkaBatch) \subseteq KafkaData /\ InFlush \subseteq KafkaData
      /\ OnWire \subseteq KafkaData /\ lost \subseteq KafkaData
  BY <1>5 DEF OnePlace, ExporterType
<1>7. OnePlace(given', ToSet(kafkaBatch'), InFlush', OnWire', ToSet(topicLog'), lost')
  BY <1>1, <1>2, <1>3, <1>4, <1>5, <1>6 DEF OnePlace
<1> QED
  BY <1>1, <1>3, <1>7 DEF AccountInv, Apart
-----------------------------------------------------------------------------
(* Kafka: the specification *)

(* The invariant of exporter, broker and receiver together.                *)
KafkaInv == ExporterInv /\ AccountInv /\ ReceiverInv

(* A step of one side leaves the other as it was.                          *)
LEMMA ReceiverAside ==
    ASSUME ReceiverInv, UNCHANGED <<receiver, topicLog>>
    PROVE  ReceiverInv'
  BY DEF ReceiverInv, ReceiverType, receiver

LEMMA ExporterAside ==
    ASSUME ExporterInv, UNCHANGED exporter
    PROVE  ExporterInv'
  BY DEF ExporterInv, ExporterType, FlushInv, MeetInv, exporter

LEMMA AccountAside ==
    ASSUME AccountInv, UNCHANGED <<given, kafkaBatch, rest, wire, lost, topicLog>>
    PROVE  AccountInv'
  BY SMTT(30) DEF AccountInv, OnePlace, Apart, InFlush, OnWire

(* A step of an exporter's caller.                                         *)
LEMMA KafkaCallerStep ==
    ASSUME KafkaInv, NEW c \in Callers,
           Sending(c) \/ KafkaShutdown(c) \/ \E p \in KafkaData : ExportTraces(c, p)
    PROVE  KafkaInv'
<1>1. ExporterInv /\ ExporterType /\ AccountInv /\ ReceiverInv /\ topicLog \in Seq(Entries)
  BY DEF KafkaInv, ExporterInv, ReceiverInv, ReceiverType
<1>2. UNCHANGED <<receiver, topicLog>>
  BY DEF Sending, KafkaShutdown, ExportTraces, Take, EnsureConn, DialBroker, WriteRequest,
         WriteError, DropConn, NilConn, CheckClose, CloseConn, receiver
<1>3. ReceiverInv'
  BY <1>1, <1>2, ReceiverAside
<1>4. CASE KafkaShutdown(c)
  <2>1. AccountInv'
    BY <1>1, <1>4, AccountAside DEF KafkaShutdown
  <2> QED
    BY <1>1, <1>3, <1>4, <2>1, ExporterShutsDown DEF KafkaInv
<1>5. ASSUME NEW p \in KafkaData, ExportTraces(c, p) PROVE KafkaInv'
  <2>1. AccountInv'
    BY <1>1, <1>5, AccountExport DEF ExportTraces
  <2> QED
    BY <1>1, <1>3, <1>5, <2>1, ExporterExports DEF KafkaInv
<1>6. CASE Take(c)
  <2>1. rest[c] = << >>
    BY <1>1, <1>6 DEF ExporterInv, FlushInv, Take
  <2>2. /\ rest'[c] = kafkaBatch /\ \A d \in Callers : d # c => rest'[d] = rest[d]
        /\ kafkaBatch' = << >> /\ UNCHANGED <<given, wire, topicLog, lost>>
    BY <1>1, <1>6 DEF Take, ExporterType
  <2>3. AccountInv'
    BY <1>1, <2>1, <2>2, AccountTake
  <2> QED
    BY <1>1, <1>3, <1>6, <2>3, ExporterTakes DEF KafkaInv
<1>7. CASE EnsureConn(c)
  <2>1. AccountInv'
    BY <1>1, <1>7, AccountAside DEF EnsureConn
  <2> QED
    BY <1>1, <1>3, <1>7, <2>1, ExporterEnsures DEF KafkaInv
<1>8. CASE DialBroker(c)
  <2>1. GiveUp(c) => AccountInv'
    BY <1>1, <1>8, AccountGiveUp DEF DialBroker
  <2>2. UNCHANGED <<lost, rest>> => AccountInv'
    BY <1>1, <1>8, AccountAside DEF DialBroker
  <2>3. AccountInv'
    BY <1>8, <2>1, <2>2 DEF DialBroker
  <2> QED
    BY <1>1, <1>3, <1>8, <2>3, ExporterDials DEF KafkaInv
<1>9. CASE WriteRequest(c)
  <2>1. /\ ExporterInv' /\ conn \in Conns /\ rest[c] # << >>
        /\ wire' = [wire EXCEPT ![conn] = Append(wire[conn], Head(rest[c]))]
        /\ rest' = [rest EXCEPT ![c] = Tail(rest[c])]
    BY <1>1, <1>9, ExporterWrites
  <2>2. wire'[conn] = Append(wire[conn], Head(rest[c]))
    BY <1>1, <2>1 DEF ExporterType
  <2>3. \A j \in Conns : j # conn => wire'[j] = wire[j]
    BY <1>1, <2>1 DEF ExporterType
  <2>4. rest'[c] = Tail(rest[c]) /\ \A d \in Callers : d # c => rest'[d] = rest[d]
    BY <1>1, <2>1 DEF ExporterType
  <2>5. UNCHANGED <<given, kafkaBatch, topicLog, lost>>
    BY <1>9 DEF WriteRequest
  <2>6. conn \in Conns /\ rest[c] # << >>
    BY <2>1
  <2>7. AccountInv'
    BY <1>1, <2>2, <2>3, <2>4, <2>5, <2>6, AccountWrite
  <2> QED
    BY <1>3, <2>1, <2>7 DEF KafkaInv
<1>10. CASE WriteError(c)
  <2>1. AccountInv'
    BY <1>1, <1>10, AccountAside DEF WriteError
  <2> QED
    BY <1>1, <1>3, <1>10, <2>1, ExporterFails DEF KafkaInv
<1>11. CASE DropConn(c)
  <2>1. AccountInv'
    BY <1>1, <1>11, AccountGiveUp DEF DropConn
  <2> QED
    BY <1>1, <1>3, <1>11, <2>1, ExporterDrops DEF KafkaInv
<1>12. CASE NilConn(c)
  <2>1. AccountInv'
    BY <1>1, <1>12, AccountGiveUp DEF NilConn
  <2> QED
    BY <1>1, <1>3, <1>12, <2>1, ExporterPanics DEF KafkaInv
<1>13. CASE CheckClose(c) \/ CloseConn(c)
  <2>1. AccountInv'
    BY <1>1, <1>13, AccountAside DEF CheckClose, CloseConn
  <2> QED
    BY <1>1, <1>3, <1>13, <2>1, ExporterCloses DEF KafkaInv
<1> QED
  BY <1>4, <1>5, <1>6, <1>7, <1>8, <1>9, <1>10, <1>11, <1>12, <1>13 DEF Sending

(* A step of the network, the broker or another producer.                  *)
LEMMA KafkaBrokerStep ==
    ASSUME KafkaInv,
           \/ \E k \in Conns : BrokerAppends(k) \/ BreakLink(k)
           \/ \E g \in Garbage : OtherProducer(g)
    PROVE  KafkaInv'
<1>1. ExporterInv /\ ExporterType /\ AccountInv /\ ReceiverInv /\ topicLog \in Seq(Entries)
  BY DEF KafkaInv, ExporterInv, ReceiverInv, ReceiverType
<1>2. ASSUME NEW k \in Conns, BrokerAppends(k) PROVE KafkaInv'
  <2>1. /\ wire[k] # << >> /\ topicLog' = Append(topicLog, Head(wire[k]))
        /\ UNCHANGED <<given, kafkaBatch, rest, lost>> /\ UNCHANGED receiver
    BY <1>2 DEF BrokerAppends, receiver
  <2>2. wire'[k] = Tail(wire[k]) /\ \A j \in Conns : j # k => wire'[j] = wire[j]
    BY <1>1, <1>2 DEF BrokerAppends, ExporterType
  <2>3. AccountInv'
    BY <1>1, <2>1, <2>2, AccountAppend
  <2>4. wire[k] \in Seq(KafkaData)
    BY <1>1 DEF ExporterType
  <2>5. Head(wire[k]) \in KafkaData
    BY <2>1, <2>4, HeadTailProperties
  <2>6. Head(wire[k]) \in Entries
    BY <2>5 DEF Entries
  <2>7. ReceiverInv'
    BY <1>1, <2>1, <2>6, SinkLogGrows
  <2> QED
    BY <1>1, <1>2, <2>3, <2>7, ExporterLinks DEF KafkaInv
<1>3. ASSUME NEW k \in Conns, BreakLink(k) PROVE KafkaInv'
  <2>1. AccountInv'
    BY <1>1, <1>3, AccountAside DEF BreakLink
  <2>2. ReceiverInv'
    BY <1>1, <1>3, ReceiverAside DEF BreakLink
  <2> QED
    BY <1>1, <1>3, <2>1, <2>2, ExporterLinks DEF KafkaInv
<1>4. ASSUME NEW g \in Garbage, OtherProducer(g) PROVE KafkaInv'
  <2>1. AccountInv'
    BY <1>1, <1>4, AccountOther
  <2>2. g \in Entries /\ topicLog' = Append(topicLog, g) /\ UNCHANGED receiver
    BY <1>4 DEF OtherProducer, Entries
  <2>3. ReceiverInv'
    BY <1>1, <2>2, SinkLogGrows
  <2>4. ExporterInv'
    BY <1>1, <1>4, ExporterAside DEF OtherProducer
  <2> QED
    BY <2>1, <2>3, <2>4 DEF KafkaInv
<1> QED
  BY <1>2, <1>3, <1>4

(* A step of the receiver.                                                 *)
LEMMA KafkaReceiverStep ==
    ASSUME KafkaInv, Receiving \/ ReceiverStops \/ ReceiverRestarts
    PROVE  KafkaInv'
<1>1. ExporterInv /\ AccountInv /\ ReceiverInv
  BY DEF KafkaInv
<1>2. UNCHANGED exporter /\ topicLog' = topicLog
  BY DEF Receiving, ReceiverDials, Fetch, FetchFails, HandOn, ReceiverStops, ReceiverRestarts
<1>3. ExporterInv'
  BY <1>1, <1>2, ExporterAside
<1>4. AccountInv'
  BY <1>1, <1>2, AccountAside DEF exporter
<1>5. ReceiverInv'
  BY <1>1, SinkControl, SinkFetch, SinkHandOn, SinkRestarts DEF Receiving
<1> QED
  BY <1>3, <1>4, <1>5 DEF KafkaInv

(* The invariant holds throughout, whatever the numbers of callers,        *)
(* payloads, connections, faults and restarts.                             *)
THEOREM KafkaInvariant == KafkaSpec => []KafkaInv
<1>1. KafkaInit => KafkaInv
  BY ExporterInvInit, AccountInit, ReceiverInvInit DEF KafkaInv
<1>2. KafkaInv /\ [KafkaNext]_kafkaVars => KafkaInv'
  <2> SUFFICES ASSUME KafkaInv, [KafkaNext]_kafkaVars PROVE KafkaInv'
    OBVIOUS
  <2>1. CASE UNCHANGED kafkaVars
    <3>1. UNCHANGED exporter /\ UNCHANGED <<receiver, topicLog>>
      BY <2>1 DEF kafkaVars
    <3>2. UNCHANGED <<given, kafkaBatch, rest, wire, lost, topicLog>>
      BY <3>1 DEF exporter
    <3> QED
      BY <3>1, <3>2, ExporterAside, AccountAside, ReceiverAside DEF KafkaInv
  <2>2. CASE KafkaNext
    BY <2>2, KafkaCallerStep, KafkaBrokerStep, KafkaReceiverStep DEF KafkaNext
  <2> QED
    BY <2>1, <2>2
<1> QED
  BY <1>1, <1>2, PTL DEF KafkaSpec

(* What the sink has got, with what the receiver still holds of the last   *)
(* Fetch response, is always the log up to the receiver's offset: no entry *)
(* is skipped or handed on twice by reconnecting, by a response that ends  *)
(* in the middle of a message, or by one that does not decode.             *)
THEOREM KafkaSinkFollowsLog == KafkaSpec => []SinkFollowsLog
<1>1. KafkaInv => SinkFollowsLog
  BY DEF KafkaInv, ExporterInv, ExporterType, ReceiverInv, ReceiverType, SinkFollowsLog, KafkaTypeOK
<1> QED
  BY <1>1, KafkaInvariant, PTL

(* A payload given to the exporter is in exactly one place, once, however  *)
(* many callers flush, dial, write, fail and close at the same time; and a *)
(* call on a nil connection needs two of them that were sending together.  *)
THEOREM KafkaPayloadsAccountedFor == KafkaSpec => []PayloadsAccountedFor
<1>1. KafkaInv => PayloadsAccountedFor
  BY AccountParts DEF KafkaInv, ExporterInv, MeetInv
<1> QED
  BY <1>1, KafkaInvariant, PTL

-----------------------------------------------------------------------------
(* Query *)

(* A multiple of the modulus does not change a remainder.                  *)
LEMMA SameRemainder ==
    ASSUME NEW M \in Nat \ {0}, NEW x \in Int, NEW k \in Int
    PROVE  (x - M * k) % M = x % M
<1> DEFINE y == x - M * k
           p == x \div M
           q == y \div M
           r == x % M
           s == y % M
           d == p - k - q
<1>1. M * k \in Int
  OBVIOUS
<1>2. y \in Int
  BY <1>1
<1>3. p \in Int /\ r \in 0 .. M - 1 /\ x = M * p + r
  OBVIOUS
<1> HIDE DEF y
<1>4. q \in Int /\ s \in 0 .. M - 1 /\ y = M * q + s
  BY <1>2
<1> HIDE DEF p, q, r, s
<1>5. d \in Int
  BY <1>3, <1>4
<1>6. M * d = M * p - M * k - M * q
  BY <1>3, <1>4
<1>7. M * d = s - r
  BY <1>1, <1>2, <1>3, <1>4, <1>6 DEF y
<1> HIDE DEF d
<1>8. d = 0
  <2>1. CASE d >= 1
    <3>1. M * d >= M
      BY <1>5, <2>1
    <3> QED
      BY <1>3, <1>4, <1>7, <3>1
  <2>2. CASE d <= -1
    <3>1. M * d <= -M
      BY <1>5, <2>2
    <3> QED
      BY <1>3, <1>4, <1>7, <3>1
  <2> QED
    BY <1>5, <2>1, <2>2
<1>9. s = r
  BY <1>3, <1>4, <1>7, <1>8
<1> QED
  BY <1>9 DEF r, s, y

(* Moving both ends, the later one with wrap-around, keeps the length.     *)
LEMMA MovedLength ==
    ASSUME NEW M \in Nat \ {0}, NEW e \in Int, NEW s \in Int, NEW d \in Int
    PROVE  (((e + d) % M) - (s + d)) % M = (e - s) % M
<1> DEFINE q == (e + d) \div M
           r == (e + d) % M
<1>1. q \in Int /\ r \in Int /\ e + d = M * q + r
  OBVIOUS
<1> HIDE DEF q, r
<1>2. M * q \in Int
  BY <1>1
<1>3. r - (s + d) = (e - s) - M * q
  BY <1>1, <1>2
<1>4. e - s \in Int
  OBVIOUS
<1>5. ((e - s) - M * q) % M = (e - s) % M
  BY <1>1, <1>4, SameRemainder
<1> QED
  BY <1>3, <1>5 DEF r

QSpan == [id : Nat, parent : Nat, start : Int, end : Int, events : Nat, attrs : Nat,
          ip : {"none", "bytes4", "bytes16", "string"}]

DistinctIds(ss) == \A i, j \in DOMAIN ss : ss[i].id = ss[j].id => i = j

(* t is s, moved forward at most to where one of the spans started.        *)
Later(t, s, spans) ==
    /\ t.id = s.id /\ t.parent = s.parent /\ t.events = s.events /\ t.attrs = s.attrs
    /\ Length(t) = Length(s)
    /\ t.start >= s.start /\ (t.start > s.start => \E k \in DOMAIN spans : spans[k].start = t.start)

(* What every adjuster may make of the spans.                              *)
Adjusted(out, ss) ==
    /\ out \in Seq(QSpan) /\ Ids(out) = Ids(ss)
    /\ \A i \in DOMAIN out : \E j \in DOMAIN ss : Later(out[i], ss[j], ss)

LEMMA SpanOfTrace == ASSUME NEW ss \in Seq(QSpan), NEW i \in DOMAIN ss
                     PROVE  ss[i] \in QSpan
  BY ElementOfSeq, LenProperties

LEMMA LaterItself == ASSUME NEW s \in QSpan, NEW spans PROVE Later(s, s, spans)
  BY DEF Later, QSpan

LEMMA AdjustedItself == ASSUME NEW ss \in Seq(QSpan) PROVE Adjusted(ss, ss)
  BY LaterItself, SpanOfTrace DEF Adjusted

LEMMA AdjustedTwice ==
    ASSUME NEW a \in Seq(QSpan), NEW b, NEW c, Adjusted(b, a), Adjusted(c, b)
    PROVE  Adjusted(c, a)
<1>1. c \in Seq(QSpan) /\ b \in Seq(QSpan) /\ Ids(c) = Ids(a)
  BY DEF Adjusted
<1>2. ASSUME NEW i \in DOMAIN c PROVE \E k \in DOMAIN a : Later(c[i], a[k], a)
  <2>1. PICK j \in DOMAIN b : Later(c[i], b[j], b)
    BY DEF Adjusted
  <2>2. PICK k \in DOMAIN a : Later(b[j], a[k], a)
    BY DEF Adjusted
  <2>3. c[i].start \in Int /\ b[j].start \in Int /\ a[k].start \in Int
    BY <1>1, SpanOfTrace DEF QSpan
  <2>4. c[i].start >= a[k].start
    BY <2>1, <2>2, <2>3 DEF Later
  <2>5. ASSUME c[i].start > a[k].start PROVE \E l \in DOMAIN a : a[l].start = c[i].start
    <3>1. CASE c[i].start = b[j].start
      BY <2>2, <2>5, <3>1 DEF Later
    <3>2. CASE c[i].start > b[j].start
      <4>1. PICK l \in DOMAIN b : b[l].start = c[i].start
        BY <2>1, <3>2 DEF Later
      <4>2. PICK m \in DOMAIN a : Later(b[l], a[m], a)
        BY DEF Adjusted
      <4>3. b[l].start \in Int /\ a[m].start \in Int
        BY <1>1, SpanOfTrace DEF QSpan
      <4>4. CASE b[l].start = a[m].start
        BY <4>1, <4>4
      <4>5. CASE b[l].start > a[m].start
        BY <4>1, <4>2, <4>5 DEF Later
      <4> QED
        BY <4>2, <4>3, <4>4, <4>5 DEF Later
    <3> QED
      BY <2>1, <2>3, <3>1, <3>2 DEF Later
  <2>6. Later(c[i], a[k], a)
    BY <2>1, <2>2, <2>4, <2>5 DEF Later
  <2> QED
    BY <2>6
<1> QED
  BY <1>1, <1>2 DEF Adjusted

(* sort.Slice: the spans in another order.                                 *)
LEMMA SortedProperties ==
    ASSUME NEW ss \in Seq(QSpan), NEW out \in Sorted(ss)
    PROVE  /\ Adjusted(out, ss) /\ (DistinctIds(ss) => DistinctIds(out))
           /\ \A i \in 1 .. Len(out) - 1 : out[i].start <= out[i + 1].start
<1> DEFINE D == DOMAIN ss
<1>1. PICK f \in [D -> D] : IsInjective(f) /\ out = [i \in D |-> ss[f[i]]]
  BY DEF Sorted
<1>2. \A i \in 1 .. Len(out) - 1 : out[i].start <= out[i + 1].start
  BY DEF Sorted
<1>3. Len(ss) \in Nat /\ D = 1 .. Len(ss)
  BY LenProperties
<1>4. DOMAIN out = D /\ \A i \in D : f[i] \in D /\ out[i] = ss[f[i]]
  BY <1>1
<1>5. \A i \in D : ss[i] \in QSpan
  BY SpanOfTrace
<1>6. out \in Seq(QSpan)
  <2>1. out \in [1 .. Len(ss) -> QSpan]
    BY <1>1, <1>3, <1>4, <1>5
  <2> QED
    BY <1>3, <2>1, FunctionIsSeq
<1>7. \A j \in D : \E i \in D : f[i] = j
  <2>1. f \in Injection(D, D)
    BY <1>1 DEF Injection, IsInjective
  <2> HIDE DEF D
  <2>2. IsFiniteSet(D)
    BY <1>3, FS_Interval
  <2>3. f \in Surjection(D, D)
    BY <2>1, <2>2, FS_Injection
  <2> QED
    BY <2>3 DEF Surjection
<1>8. Ids(out) = Ids(ss)
  <2>1. ASSUME NEW x \in Ids(ss) PROVE x \in Ids(out)
    <3>1. PICK j \in D : x = ss[j].id
      BY DEF Ids
    <3>2. PICK i \in D : f[i] = j
      BY <1>7
    <3> QED
      BY <1>4, <3>1, <3>2 DEF Ids
  <2>2. ASSUME NEW x \in Ids(out) PROVE x \in Ids(ss)
    BY <1>4 DEF Ids
  <2> QED
    BY <2>1, <2>2
<1>9. \A i \in DOMAIN out : \E j \in DOMAIN ss : Later(out[i], ss[j], ss)
  BY <1>4, <1>5, LaterItself
<1>10. DistinctIds(ss) => DistinctIds(out)
  BY <1>1, <1>4 DEF DistinctIds, IsInjective
<1> QED
  BY <1>2, <1>6, <1>8, <1>9, <1>10 DEF Adjusted

(* One span more for the deduplicator.                                     *)
LEMMA PlacedProperties ==
    ASSUME NEW u \in Seq(QSpan), NEW s \in QSpan
    PROVE  /\ Placed(u, s) \in Seq(QSpan)
           /\ Ids(Placed(u, s)) = Ids(u) \cup {s.id}
           /\ DistinctIds(u) => DistinctIds(Placed(u, s))
           /\ \A i \in DOMAIN Placed(u, s) :
                 Placed(u, s)[i] = s \/ \E j \in DOMAIN u : Placed(u, s)[i] = u[j]
<1> DEFINE same == {i \in DOMAIN u : u[i].id = s.id}
           p == Placed(u, s)
<1>1. Len(u) \in Nat /\ DOMAIN u = 1 .. Len(u) /\ \A i \in DOMAIN u : u[i] \in QSpan
  BY LenProperties, SpanOfTrace
<1>2. CASE same = {}
  <2>1. p = Append(u, s)
    BY <1>2 DEF Placed
  <2>2. /\ p \in Seq(QSpan) /\ Len(p) = Len(u) + 1 /\ p[Len(u) + 1] = s
        /\ \A i \in 1 .. Len(u) : p[i] = u[i]
    BY <2>1, AppendProperties
  <2>3. DOMAIN p = 1 .. Len(u) + 1
    BY <2>2, LenProperties
  <2> HIDE DEF p
  <2>4. \A i \in DOMAIN p : (i \in DOMAIN u /\ p[i] = u[i]) \/ (i = Len(u) + 1 /\ p[i] = s)
    BY <1>1, <2>2, <2>3
  <2>5. Len(u) + 1 \in DOMAIN p /\ DOMAIN u \subseteq DOMAIN p
    BY <1>1, <2>3
  <2>6. Ids(p) = Ids(u) \cup {s.id}
    <3>1. ASSUME NEW x \in Ids(p) PROVE x \in Ids(u) \cup {s.id}
      BY <2>4 DEF Ids
    <3>2. ASSUME NEW x \in Ids(u) PROVE x \in Ids(p)
      <4>1. PICK j \in DOMAIN u : x = u[j].id
        BY DEF Ids
      <4> QED
        BY <1>1, <2>2, <2>5, <4>1 DEF Ids
    <3>3. s.id \in Ids(p)
      BY <2>2, <2>5 DEF Ids
    <3> QED
      BY <3>1, <3>2, <3>3
  <2>7. DistinctIds(u) => DistinctIds(p)
    <3> SUFFICES ASSUME DistinctIds(u), NEW i \in DOMAIN p, NEW j \in DOMAIN p, p[i].id = p[j].id
                 PROVE  i = j
      BY DEF DistinctIds
    <3>1. \A k \in DOMAIN u : u[k].id # s.id
      BY <1>2
    <3> QED
      BY <2>4, <3>1 DEF DistinctIds
  <2> QED
    BY <2>2, <2>4, <2>6, <2>7 DEF p
<1>3. CASE same # {}
  <2> DEFINE better(i) == s.events > u[i].events \/ s.attrs > u[i].attrs
  <2>1. p = [i \in DOMAIN u |-> IF i \in same /\ better(i) THEN s ELSE u[i]]
    BY <1>3 DEF Placed
  <2>2. DOMAIN p = DOMAIN u /\ \A i \in DOMAIN u : p[i].id = u[i].id /\ p[i] \in {s, u[i]}
    BY <2>1
  <2>3. p \in Seq(QSpan)
    <3>1. p \in [1 .. Len(u) -> QSpan]
      BY <1>1, <2>1, <2>2
    <3> QED
      BY <1>1, <3>1, FunctionIsSeq
  <2> HIDE DEF p
  <2>4. Ids(p) = Ids(u) /\ s.id \in Ids(u)
    BY <1>3, <2>2 DEF Ids
  <2>5. DistinctIds(u) => DistinctIds(p)
    BY <2>2 DEF DistinctIds
  <2> QED
    BY <2>2, <2>3, <2>4, <2>5 DEF p
<1> QED
  BY <1>2, <1>3

(* The deduplicator goes through the spans from the front.                 *)
LEMMA DedupRecursion ==
    ASSUME NEW ss \in Seq(QSpan)
    PROVE  \E unique \in [0 .. Len(ss) -> Seq(QSpan)] :
              /\ Dedup(ss) = unique[Len(ss)] /\ unique[0] = << >>
              /\ \A n \in 1 .. Len(ss) : unique[n] = Placed(unique[n - 1], ss[n])
<1> DEFINE N == Len(ss)
           Eq(g) == g = [n \in 0 .. N |-> IF n = 0 THEN << >> ELSE Placed(g[n - 1], ss[n])]
           unique == CHOOSE g : Eq(g)
           V == Seq(QSpan)
           e == << >>
           step == [n \in 1 .. N |-> [v \in V |-> Placed(v, ss[n])]]
<1>1. N \in Nat
  BY LenProperties
<1>2. Dedup(ss) = unique[N]
  BY DEF Dedup
<1>3. \A n \in 1 .. N, v \in V : Placed(v, ss[n]) \in V
  BY PlacedProperties, ElementOfSeq
<1>4. e \in V
  BY EmptySeq
<1> HIDE DEF N
<1>5. step \in [1 .. N -> [V -> V]] /\ \A n \in 1 .. N, v \in V : step[n][v] = Placed(v, ss[n])
  BY <1>3
<1> HIDE DEF step, V, e
<1>6. PICK f \in [0 .. N -> V] : Follows(f, N, e, step)
  BY <1>1, <1>4, <1>5, RecursionUpTo
<1>7. \A k \in 1 .. N : f[k] = Placed(f[k - 1], ss[k])
  <2>1. \A k \in 1 .. N : k - 1 \in 0 .. N /\ f[k - 1] \in V
    BY <1>1
  <2> QED
    BY <1>5, <1>6, <2>1 DEF Follows
<1>8. Eq(f)
  <2>1. \A n \in 0 .. N : n = 0 \/ n \in 1 .. N
    BY <1>1
  <2>2. \A n \in 0 .. N : f[n] = IF n = 0 THEN e ELSE Placed(f[n - 1], ss[n])
    BY ZenonT(30), <1>6, <1>7, <2>1 DEF Follows
  <2>3. f = [n \in 0 .. N |-> f[n]]
    OBVIOUS
  <2> QED
    BY <2>2, <2>3 DEF e
<1>9. Eq(unique)
  BY ZenonT(30), <1>8
<1> HIDE DEF unique
<1>10. /\ unique = [n \in 0 .. N |-> unique[n]]
       /\ \A n \in 0 .. N : unique[n] = IF n = 0 THEN e ELSE Placed(unique[n - 1], ss[n])
  BY <1>9 DEF e
<1> HIDE DEF Eq
<1>11. /\ unique[0] = e
       /\ \A n \in 1 .. N : unique[n] = Placed(unique[n - 1], ss[n])
  <2>1. 0 \in 0 .. N /\ \A n \in 1 .. N : n \in 0 .. N /\ n # 0
    BY <1>1
  <2> QED
    BY <1>10, <2>1
<1>12. \A n \in 0 .. N : unique[n] \in V
  BY <1>1, <1>3, <1>4, <1>11, RoundsStay
<1>13. unique \in [0 .. N -> V]
  BY <1>10, <1>12
<1> QED
  BY <1>2, <1>11, <1>13 DEF N, V, e

LEMMA DedupProperties ==
    ASSUME NEW ss \in Seq(QSpan)
    PROVE  Adjusted(Dedup(ss), ss) /\ DistinctIds(Dedup(ss))
<1>1. PICK u \in [0 .. Len(ss) -> Seq(QSpan)] :
              /\ Dedup(ss) = u[Len(ss)] /\ u[0] = << >>
              /\ \A n \in 1 .. Len(ss) : u[n] = Placed(u[n - 1], ss[n])
  BY DedupRecursion
<1> DEFINE First(n) == {ss[i].id : i \in 1 .. n}
           Good(n) == /\ DistinctIds(u[n]) /\ Ids(u[n]) = First(n)
                      /\ \A i \in DOMAIN u[n] : \E j \in DOMAIN ss : u[n][i] = ss[j]
           P == {n \in 0 .. Len(ss) : Good(n)}
<1>2. Len(ss) \in Nat /\ DOMAIN ss = 1 .. Len(ss)
  BY LenProperties
<1>3. 0 \in P
  <2>1. DOMAIN u[0] = {}
    BY <1>1, EmptySeq
  <2>2. First(0) = {}
    OBVIOUS
  <2> QED
    BY <1>2, <2>1, <2>2 DEF DistinctIds, Ids
<1>4. ASSUME NEW n \in 0 .. Len(ss), n # 0, n - 1 \in P PROVE n \in P
  <2>1. n \in 1 .. Len(ss) /\ n - 1 \in 0 .. Len(ss) /\ Good(n - 1)
    BY <1>2, <1>4
  <2>2. u[n - 1] \in Seq(QSpan) /\ ss[n] \in QSpan /\ u[n] = Placed(u[n - 1], ss[n])
    BY <1>1, <1>2, <2>1, SpanOfTrace
  <2>3. /\ Ids(u[n]) = Ids(u[n - 1]) \cup {ss[n].id} /\ DistinctIds(u[n])
        /\ \A i \in DOMAIN u[n] : u[n][i] = ss[n] \/ \E j \in DOMAIN u[n - 1] : u[n][i] = u[n - 1][j]
    <3>1. DistinctIds(u[n - 1])
      BY <2>1
    <3> DEFINE v == u[n - 1]
    <3>2. /\ Ids(Placed(v, ss[n])) = Ids(v) \cup {ss[n].id} /\ DistinctIds(Placed(v, ss[n]))
          /\ \A i \in DOMAIN Placed(v, ss[n]) :
                Placed(v, ss[n])[i] = ss[n] \/ \E j \in DOMAIN v : Placed(v, ss[n])[i] = v[j]
      <4> HIDE DEF Good, P
      <4> QED
        BY <2>2, <3>1, PlacedProperties
    <3> QED
      BY <2>2, <3>2
  <2>4. First(n) = First(n - 1) \cup {ss[n].id}
    <3>1. 1 .. n = (1 .. n - 1) \cup {n}
      BY <2>1
    <3> QED
      BY <3>1
  <2>5. \A i \in DOMAIN u[n] : \E j \in DOMAIN ss : u[n][i] = ss[j]
    BY <1>2, <2>1, <2>3
  <2>6. Good(n)
    BY <2>1, <2>3, <2>4, <2>5
  <2> QED
    BY <2>6
<1> HIDE DEF P
<1>5. \A n \in 0 .. Len(ss) : n \in P
  BY <1>2, <1>3, <1>4, InductionUpTo
<1>6. Good(Len(ss)) /\ u[Len(ss)] \in Seq(QSpan)
  <2>1. Len(ss) \in 0 .. Len(ss)
    BY <1>2
  <2>2. Len(ss) \in P /\ u[Len(ss)] \in Seq(QSpan)
    BY <1>5, <2>1
  <2> HIDE DEF Good
  <2> QED
    BY <2>2 DEF P
<1>7. First(Len(ss)) = Ids(ss)
  BY <1>2 DEF Ids
<1>8. \A j \in DOMAIN ss : Later(ss[j], ss[j], ss)
  BY SpanOfTrace, LaterItself
<1> QED
  BY <1>1, <1>6, <1>7, <1>8 DEF Adjusted

(* A span that the clock skew adjuster has looked at.                      *)
LEMMA MovedProperties ==
    ASSUME NEW ss \in Seq(QSpan), NEW i \in DOMAIN ss
    PROVE  /\ Moved(ss, i) \in Seq(QSpan) /\ DOMAIN Moved(ss, i) = DOMAIN ss
           /\ \A j \in DOMAIN ss : Later(Moved(ss, i)[j], ss[j], ss)
<1> DEFINE M == 2^QWidth
           parents == {j \in DOMAIN ss : ss[j].id = ss[i].parent}
           start == ss[Max(parents)].start
           diff == start - ss[i].start
           t == [ss[i] EXCEPT !.start = start, !.end = (ss[i].end + diff) % M]
<1>1. Len(ss) \in Nat /\ DOMAIN ss = 1 .. Len(ss) /\ \A j \in DOMAIN ss : ss[j] \in QSpan
  BY LenProperties, SpanOfTrace
<1>2. M \in Nat \ {0}
  BY QueryAssumption
<1>3. \/ Moved(ss, i) = ss
      \/ parents # {} /\ ~(diff <= 0) /\ Moved(ss, i) = [ss EXCEPT ![i] = t]
  BY DEF Moved
<1>4. CASE Moved(ss, i) = ss
  BY <1>1, <1>4, LaterItself
<1>5. CASE parents # {} /\ ~(diff <= 0) /\ Moved(ss, i) = [ss EXCEPT ![i] = t]
  <2>1. Max(parents) \in DOMAIN ss
    <3>1. parents \subseteq 1 .. Len(ss)
      BY <1>1
    <3> HIDE DEF parents
    <3>2. Max(parents) \in parents
      BY <1>1, <1>5, <3>1, GreatestPlace
    <3> QED
      BY <1>1, <3>1, <3>2
  <2> HIDE DEF parents, M
  <2>2. start \in Int /\ ss[i] \in QSpan
    BY <1>1, <2>1 DEF QSpan
  <2>3. diff \in Int /\ start = ss[i].start + diff /\ ss[i].start \in Int /\ ss[i].end \in Int
        /\ start > ss[i].start
    <3> HIDE DEF start
    <3>1. ss[i].start \in Int /\ ss[i].end \in Int
      BY <2>2 DEF QSpan
    <3> QED
      BY <1>5, <2>2, <3>1
  <2>4. \E k \in DOMAIN ss : ss[k].start = start
    BY <2>1
  <2> DEFINE end == (ss[i].end + diff) % M
  <2>5. end \in Int
    BY <1>2, <2>3
  <2>6. (end - start) % M = (ss[i].end - ss[i].start) % M
    <3> HIDE DEF diff, start
    <3> QED
      BY <1>2, <2>3, MovedLength
  <2> HIDE DEF start, diff, end
  <2>7. /\ t \in QSpan /\ t.start = start /\ t.end = end /\ t.id = ss[i].id /\ t.parent = ss[i].parent
        /\ t.events = ss[i].events /\ t.attrs = ss[i].attrs
    <3>1. t = [ss[i] EXCEPT !.start = start, !.end = end]
      BY DEF end
    <3> HIDE DEF t
    <3>2. t = [id |-> ss[i].id, parent |-> ss[i].parent, start |-> start, end |-> end,
               events |-> ss[i].events, attrs |-> ss[i].attrs, ip |-> ss[i].ip]
      BY <2>2, <3>1 DEF QSpan
    <3> QED
      BY <2>2, <2>3, <2>5, <3>2 DEF QSpan
  <2> HIDE DEF t
  <2>8. Length(t) = Length(ss[i])
    <3>1. Length(t) = (t.end - t.start) % M /\ Length(ss[i]) = (ss[i].end - ss[i].start) % M
      BY DEF Length, M
    <3> QED
      BY <2>6, <2>7, <3>1
  <2>9. Later(t, ss[i], ss)
    BY <2>3, <2>4, <2>7, <2>8 DEF Later
  <2>10. /\ Moved(ss, i) \in Seq(QSpan) /\ DOMAIN Moved(ss, i) = DOMAIN ss
         /\ Moved(ss, i)[i] = t /\ \A j \in DOMAIN ss : j # i => Moved(ss, i)[j] = ss[j]
    BY <1>5, <2>7, ExceptSeq
  <2> QED
    BY <1>1, <2>9, <2>10, LaterItself
<1> QED
  BY <1>3, <1>4, <1>5

(* The clock skew adjuster goes through the spans from the front.          *)
LEMMA SkewRecursion ==
    ASSUME NEW ss \in Seq(QSpan)
    PROVE  \E moved \in [0 .. Len(ss) -> {v \in Seq(QSpan) : DOMAIN v = DOMAIN ss}] :
              /\ Skew(ss) = moved[Len(ss)] /\ moved[0] = ss
              /\ \A n \in 1 .. Len(ss) : moved[n] = Moved(moved[n - 1], n)
<1> DEFINE N == Len(ss)
           Eq(g) == g = [n \in 0 .. N |-> IF n = 0 THEN ss ELSE Moved(g[n - 1], n)]
           moved == CHOOSE g : Eq(g)
           V == {v \in Seq(QSpan) : DOMAIN v = DOMAIN ss}
           step == [n \in 1 .. N |-> [v \in V |-> Moved(v, n)]]
<1>1. N \in Nat /\ DOMAIN ss = 1 .. N
  BY LenProperties
<1>2. Skew(ss) = moved[N]
  BY DEF Skew
<1>3. \A n \in 1 .. N, v \in V : Moved(v, n) \in V
  BY <1>1, MovedProperties
<1>4. ss \in V
  OBVIOUS
<1> HIDE DEF N
<1>5. step \in [1 .. N -> [V -> V]] /\ \A n \in 1 .. N, v \in V : step[n][v] = Moved(v, n)
  BY <1>3
<1> HIDE DEF step, V
<1>6. PICK f \in [0 .. N -> V] : Follows(f, N, ss, step)
  BY <1>1, <1>4, <1>5, RecursionUpTo
<1>7. \A k \in 1 .. N : f[k] = Moved(f[k - 1], k)
  <2>1. \A k \in 1 .. N : k - 1 \in 0 .. N /\ f[k - 1] \in V
    BY <1>1
  <2> QED
    BY <1>5, <1>6, <2>1 DEF Follows
<1>8. Eq(f)
  <2>1. \A n \in 0 .. N : n = 0 \/ n \in 1 .. N
    BY <1>1
  <2>2. \A n \in 0 .. N : f[n] = IF n = 0 THEN ss ELSE Moved(f[n - 1], n)
    BY ZenonT(30), <1>6, <1>7, <2>1 DEF Follows
  <2>3. f = [n \in 0 .. N |-> f[n]]
    OBVIOUS
  <2> QED
    BY <2>2, <2>3
<1>9. Eq(moved)
  BY ZenonT(30), <1>8
<1> HIDE DEF moved
<1>10. /\ moved = [n \in 0 .. N |-> moved[n]]
       /\ \A n \in 0 .. N : moved[n] = IF n = 0 THEN ss ELSE Moved(moved[n - 1], n)
  BY <1>9
<1> HIDE DEF Eq
<1>11. /\ moved[0] = ss
       /\ \A n \in 1 .. N : moved[n] = Moved(moved[n - 1], n)
  <2>1. 0 \in 0 .. N /\ \A n \in 1 .. N : n \in 0 .. N /\ n # 0
    BY <1>1
  <2> QED
    BY <1>10, <2>1
<1>12. \A n \in 0 .. N : moved[n] \in V
  BY ZenonT(40), <1>1, <1>3, <1>4, <1>11, RoundsStay
<1>13. moved \in [0 .. N -> V]
  BY <1>10, <1>12
<1> QED
  BY <1>2, <1>11, <1>13 DEF N, V

(* Spans that were changed in place.                                       *)
LEMMA AdjustedInPlace ==
    ASSUME NEW ss \in Seq(QSpan), NEW out \in Seq(QSpan), DOMAIN out = DOMAIN ss,
           \A i \in DOMAIN ss : Later(out[i], ss[i], ss)
    PROVE  Adjusted(out, ss) /\ (DistinctIds(ss) => DistinctIds(out))
<1>1. \A i \in DOMAIN ss : out[i].id = ss[i].id
  BY DEF Later
<1>2. Ids(out) = Ids(ss)
  BY <1>1 DEF Ids
<1> QED
  BY <1>1, <1>2 DEF Adjusted, DistinctIds

LEMMA SkewProperties ==
    ASSUME NEW ss \in Seq(QSpan)
    PROVE  Adjusted(Skew(ss), ss) /\ (DistinctIds(ss) => DistinctIds(Skew(ss)))
<1> DEFINE V == {v \in Seq(QSpan) : DOMAIN v = DOMAIN ss}
<1>1. PICK m \in [0 .. Len(ss) -> V] :
              /\ Skew(ss) = m[Len(ss)] /\ m[0] = ss
              /\ \A n \in 1 .. Len(ss) : m[n] = Moved(m[n - 1], n)
  BY SkewRecursion
<1>2. Len(ss) \in Nat /\ DOMAIN ss = 1 .. Len(ss)
  BY LenProperties
<1> DEFINE Good(n) == Adjusted(m[n], ss) /\ (DistinctIds(ss) => DistinctIds(m[n]))
           P == {n \in 0 .. Len(ss) : Good(n)}
<1>3. 0 \in P
  BY <1>1, <1>2, AdjustedItself
<1>4. ASSUME NEW n \in 0 .. Len(ss), n # 0, n - 1 \in P PROVE n \in P
  <2>1. n \in 1 .. Len(ss) /\ n - 1 \in 0 .. Len(ss) /\ Good(n - 1)
    BY <1>2, <1>4
  <2> DEFINE v == m[n - 1]
  <2>2. v \in Seq(QSpan) /\ DOMAIN v = DOMAIN ss /\ n \in DOMAIN v /\ m[n] = Moved(v, n)
    BY <1>1, <1>2, <2>1
  <2>3. Adjusted(v, ss) /\ (DistinctIds(ss) => DistinctIds(v))
    BY <2>1
  <2> HIDE DEF v, P, Good
  <2>4. /\ Moved(v, n) \in Seq(QSpan) /\ DOMAIN Moved(v, n) = DOMAIN v
        /\ \A j \in DOMAIN v : Later(Moved(v, n)[j], v[j], v)
    BY <2>2, MovedProperties
  <2>5. Adjusted(m[n], v) /\ (DistinctIds(v) => DistinctIds(m[n]))
    BY <2>2, <2>4, AdjustedInPlace
  <2>6. Adjusted(m[n], ss)
    BY <2>3, <2>5, AdjustedTwice
  <2>7. Good(n)
    BY <2>3, <2>5, <2>6 DEF Good
  <2> QED
    BY <2>7 DEF P
<1> HIDE DEF P
<1>5. \A n \in 0 .. Len(ss) : n \in P
  BY <1>2, <1>3, <1>4, InductionUpTo
<1>6. Len(ss) \in P
  BY <1>2, <1>5
<1>7. Good(Len(ss))
  BY <1>6 DEF P
<1> QED
  BY <1>1, <1>7

(* The address normaliser changes nothing that Later speaks of.            *)
LEMMA NormalizeProperties ==
    ASSUME NEW ss \in Seq(QSpan)
    PROVE  Adjusted(NormalizeIP(ss), ss) /\ (DistinctIds(ss) => DistinctIds(NormalizeIP(ss)))
<1> DEFINE out == NormalizeIP(ss)
           ip(i) == IF ss[i].ip = "bytes4" THEN "string" ELSE ss[i].ip
<1>1. Len(ss) \in Nat /\ DOMAIN ss = 1 .. Len(ss) /\ \A j \in DOMAIN ss : ss[j] \in QSpan
  BY LenProperties, SpanOfTrace
<1>2. DOMAIN out = DOMAIN ss
  BY DEF NormalizeIP
<1>3. ASSUME NEW i \in DOMAIN ss PROVE out[i] \in QSpan /\ Later(out[i], ss[i], ss)
  <2>1. out[i] = [ss[i] EXCEPT !.ip = ip(i)]
    BY DEF NormalizeIP
  <2>2. ss[i] \in QSpan
    BY <1>1
  <2>3. ip(i) \in {"none", "bytes4", "bytes16", "string"}
    BY <2>2 DEF QSpan
  <2> HIDE DEF out, ip
  <2>4. /\ out[i] \in QSpan /\ out[i].id = ss[i].id /\ out[i].parent = ss[i].parent
        /\ out[i].events = ss[i].events /\ out[i].attrs = ss[i].attrs
        /\ out[i].start = ss[i].start /\ out[i].end = ss[i].end
    BY <2>1, <2>2, <2>3 DEF QSpan
  <2>5. Length(out[i]) = Length(ss[i])
    BY <2>4 DEF Length
  <2>6. ss[i].start \in Int
    BY <2>2 DEF QSpan
  <2> QED
    BY <2>4, <2>5, <2>6 DEF Later
<1> HIDE DEF out
<1>4. out \in Seq(QSpan)
  <2>1. out = [i \in 1 .. Len(ss) |-> out[i]]
    BY <1>1, <1>2 DEF out, NormalizeIP
  <2>2. out \in [1 .. Len(ss) -> QSpan]
    BY <1>1, <1>3, <2>1
  <2> QED
    BY <1>1, <2>2, FunctionIsSeq
<1>5. Adjusted(out, ss) /\ (DistinctIds(ss) => DistinctIds(out))
  BY <1>2, <1>3, <1>4, AdjustedInPlace
<1> QED
  BY <1>5 DEF out

(* One adjuster, whichever it is.                                          *)
LEMMA AdjustProperties ==
    ASSUME NEW a \in {"sort", "dedup", "skew", "ip"}, NEW ss \in Seq(QSpan), NEW out \in Adjust(a, ss)
    PROVE  /\ Adjusted(out, ss) /\ (DistinctIds(ss) \/ a = "dedup" => DistinctIds(out))
           /\ a = "sort" => \A i \in 1 .. Len(out) - 1 : out[i].start <= out[i + 1].start
<1>1. CASE a = "sort"
  <2>1. out \in Sorted(ss)
    BY <1>1 DEF Adjust
  <2> QED
    BY <1>1, <2>1, SortedProperties
<1>2. CASE a = "dedup"
  <2>1. out = Dedup(ss)
    BY <1>2 DEF Adjust
  <2> QED
    BY <1>2, <2>1, DedupProperties
<1>3. CASE a = "skew"
  <2>1. out = Skew(ss)
    BY <1>3 DEF Adjust
  <2> QED
    BY <1>3, <2>1, SkewProperties
<1>4. CASE a = "ip"
  <2>1. out = NormalizeIP(ss)
    BY <1>4 DEF Adjust
  <2> QED
    BY <1>4, <2>1, NormalizeProperties
<1> QED
  BY <1>1, <1>2, <1>3, <1>4

(* What the first n adjusters of the chain may make of some spans.         *)
AfterOne(n, outs) == UNION {Adjust(chain[n], ss) : ss \in outs}

Adjusters == {"sort", "dedup", "skew", "ip"}

LEMMA AdjustAllRecursion ==
    ASSUME chain \in Seq(Adjusters), NEW ss \in Seq(QSpan)
    PROVE  \E outs \in [0 .. Len(chain) -> SUBSET Seq(QSpan)] :
              /\ AdjustAll(ss) = outs[Len(chain)] /\ outs[0] = {ss}
              /\ \A n \in 1 .. Len(chain) : outs[n] = AfterOne(n, outs[n - 1])
<1> DEFINE N == Len(chain)
           Eq(g) == g = [n \in 0 .. N |-> IF n = 0 THEN {ss} ELSE AfterOne(n, g[n - 1])]
           outs == CHOOSE g : Eq(g)
           V == SUBSET Seq(QSpan)
           e == {ss}
           step == [n \in 1 .. N |-> [v \in V |-> AfterOne(n, v)]]
<1>1. N \in Nat
  BY LenProperties
<1>2. AdjustAll(ss) = outs[N]
  BY DEF AdjustAll, AfterOne
<1>3. \A n \in 1 .. N, v \in V : AfterOne(n, v) \in V
  <2> SUFFICES ASSUME NEW n \in 1 .. N, NEW v \in V, NEW x \in AfterOne(n, v) PROVE x \in Seq(QSpan)
    OBVIOUS
  <2>1. PICK y \in v : x \in Adjust(chain[n], y)
    BY DEF AfterOne
  <2>2. chain[n] \in Adjusters /\ y \in Seq(QSpan)
    BY ElementOfSeq
  <2>3. Adjusted(x, y)
    BY <2>1, <2>2, AdjustProperties DEF Adjusters
  <2> QED
    BY <2>3 DEF Adjusted
<1>4. e \in V
  OBVIOUS
<1> HIDE DEF N
<1>5. step \in [1 .. N -> [V -> V]] /\ \A n \in 1 .. N, v \in V : step[n][v] = AfterOne(n, v)
  BY <1>3
<1> HIDE DEF step, V, e
<1>6. PICK f \in [0 .. N -> V] : Follows(f, N, e, step)
  BY <1>1, <1>4, <1>5, RecursionUpTo
<1>7. \A k \in 1 .. N : f[k] = AfterOne(k, f[k - 1])
  <2>1. \A k \in 1 .. N : k - 1 \in 0 .. N /\ f[k - 1] \in V
    BY <1>1
  <2> QED
    BY <1>5, <1>6, <2>1 DEF Follows
<1>8. Eq(f)
  <2>1. \A n \in 0 .. N : n = 0 \/ n \in 1 .. N
    BY <1>1
  <2>2. \A n \in 0 .. N : f[n] = IF n = 0 THEN e ELSE AfterOne(n, f[n - 1])
    BY ZenonT(30), <1>6, <1>7, <2>1 DEF Follows
  <2>3. f = [n \in 0 .. N |-> f[n]]
    OBVIOUS
  <2> QED
    BY <2>2, <2>3 DEF e
<1>9. Eq(outs)
  BY ZenonT(30), <1>8
<1> HIDE DEF outs
<1>10. /\ outs = [n \in 0 .. N |-> outs[n]]
       /\ \A n \in 0 .. N : outs[n] = IF n = 0 THEN e ELSE AfterOne(n, outs[n - 1])
  BY <1>9 DEF e
<1> HIDE DEF Eq
<1>11. /\ outs[0] = e
       /\ \A n \in 1 .. N : outs[n] = AfterOne(n, outs[n - 1])
  <2>1. 0 \in 0 .. N /\ \A n \in 1 .. N : n \in 0 .. N /\ n # 0
    BY <1>1
  <2> QED
    BY <1>10, <2>1
<1>12. \A n \in 0 .. N : outs[n] \in V
  BY <1>1, <1>3, <1>4, <1>11, RoundsStay
<1>13. outs \in [0 .. N -> V]
  BY <1>10, <1>12
<1> QED
  BY <1>2, <1>11, <1>13 DEF N, V, e

InOrder(ss) == \A i \in 1 .. Len(ss) - 1 : ss[i].start <= ss[i + 1].start

(* The whole chain, for every order of the adjusters in it.                *)
LEMMA AdjustAllProperties ==
    ASSUME chain \in Seq(Adjusters), NEW ss \in Seq(QSpan), NEW out \in AdjustAll(ss)
    PROVE  /\ Adjusted(out, ss)
           /\ "dedup" \in Range(chain) => DistinctIds(out)
           /\ chain # << >> /\ Last(chain) = "sort" => InOrder(out)
<1>1. PICK outs \in [0 .. Len(chain) -> SUBSET Seq(QSpan)] :
              /\ AdjustAll(ss) = outs[Len(chain)] /\ outs[0] = {ss}
              /\ \A n \in 1 .. Len(chain) : outs[n] = AfterOne(n, outs[n - 1])
  BY AdjustAllRecursion
<1>2. Len(chain) \in Nat /\ DOMAIN chain = 1 .. Len(chain)
  BY LenProperties
<1> DEFINE Good(n) == \A o \in outs[n] :
                         /\ Adjusted(o, ss)
                         /\ (\E i \in 1 .. n : chain[i] = "dedup") => DistinctIds(o)
                         /\ n > 0 /\ chain[n] = "sort" => InOrder(o)
           P == {n \in 0 .. Len(chain) : Good(n)}
<1>3. 0 \in P
  <2>1. Adjusted(ss, ss)
    BY AdjustedItself
  <2> QED
    BY <1>1, <1>2, <2>1
<1>4. ASSUME NEW n \in 0 .. Len(chain), n # 0, n - 1 \in P PROVE n \in P
  <2>1. n \in 1 .. Len(chain) /\ n - 1 \in 0 .. Len(chain) /\ Good(n - 1)
    BY <1>2, <1>4
  <2>2. chain[n] \in Adjusters
    BY <1>2, <2>1, ElementOfSeq
  <2>3. ASSUME NEW o \in outs[n]
        PROVE  /\ Adjusted(o, ss)
               /\ (\E i \in 1 .. n : chain[i] = "dedup") => DistinctIds(o)
               /\ chain[n] = "sort" => InOrder(o)
    <3>1. PICK x \in outs[n - 1] : o \in Adjust(chain[n], x)
      BY <1>1, <2>1, <2>3 DEF AfterOne
    <3>2. x \in Seq(QSpan)
      BY <1>1, <2>1
    <3>3. Adjusted(x, ss) /\ ((\E i \in 1 .. n - 1 : chain[i] = "dedup") => DistinctIds(x))
      BY <2>1
    <3> HIDE DEF Good, P
    <3>4. /\ Adjusted(o, x) /\ (DistinctIds(x) \/ chain[n] = "dedup" => DistinctIds(o))
          /\ chain[n] = "sort" => InOrder(o)
      BY <2>2, <3>1, <3>2, AdjustProperties DEF Adjusters, InOrder
    <3>5. Adjusted(o, ss)
      BY <3>3, <3>4, AdjustedTwice
    <3>6. \A i \in 1 .. n : i = n \/ i \in 1 .. n - 1
      BY <2>1
    <3> QED
      BY <3>3, <3>4, <3>5, <3>6
  <2>4. Good(n)
    BY <2>3
  <2> QED
    BY <2>4
<1> HIDE DEF P
<1>5. \A n \in 0 .. Len(chain) : n \in P
  BY <1>2, <1>3, <1>4, InductionUpTo
<1>6. Len(chain) \in P
  BY <1>2, <1>5
<1>7. Good(Len(chain))
  BY <1>6 DEF P
<1>8. Adjusted(out, ss) /\ ((\E i \in 1 .. Len(chain) : chain[i] = "dedup") => DistinctIds(out))
      /\ (Len(chain) > 0 /\ chain[Len(chain)] = "sort" => InOrder(out))
  BY <1>1, <1>7
<1>9. "dedup" \in Range(chain) => \E i \in 1 .. Len(chain) : chain[i] = "dedup"
  BY <1>2 DEF Range
<1>10. chain # << >> => Len(chain) > 0 /\ Last(chain) = chain[Len(chain)]
  <2>1. chain # << >> => Len(chain) # 0
    BY EmptySeq
  <2> QED
    BY <1>2, <2>1 DEF Last
<1> QED
  BY <1>8, <1>9, <1>10

Pairs == {Pair(l) : l \in Links}
DepTables == UNION {[D -> Nat] : D \in SUBSET Pairs}

LEMMA MergedType ==
    ASSUME NEW m \in DepTables, NEW l \in Links, NEW a, NEW b
    PROVE  Merged(m, l, a, b) \in DepTables
<1>1. PICK D \in SUBSET Pairs : m \in [D -> Nat]
  BY DEF DepTables
<1>2. CASE Merged(m, l, a, b) = m
  BY <1>2
<1>3. CASE Merged(m, l, a, b) # m
  <2> DEFINE v == (IF Pair(l) \in DOMAIN m THEN m[Pair(l)] ELSE 0) + l.count
             E == D \cup {Pair(l)}
  <2>1. Merged(m, l, a, b) = WithEntry(m, Pair(l), v)
    BY <1>3 DEF Merged
  <2>2. v \in Nat
    BY <1>1, QueryAssumption
  <2>3. E \in SUBSET Pairs
    BY <1>1 DEF Pairs
  <2> HIDE DEF v
  <2>4. Merged(m, l, a, b) \in [E -> Nat]
    BY <1>1, <2>1, <2>2 DEF WithEntry
  <2> HIDE DEF E
  <2> QED
    BY <2>3, <2>4 DEF DepTables
<1> QED
  BY <1>2, <1>3

LEMMA DependenciesRecursion ==
    ASSUME deps \in Seq(Links), NEW endTime, NEW lookback
    PROVE  \E merged \in [0 .. Len(deps) -> DepTables] :
              /\ GetDependencies(endTime, lookback) = merged[Len(deps)] /\ DOMAIN merged[0] = {}
              /\ \A n \in 1 .. Len(deps) :
                    merged[n] = Merged(merged[n - 1], deps[n], endTime - lookback, endTime)
<1> DEFINE N == Len(deps)
           Next(n, m) == Merged(m, deps[n], endTime - lookback, endTime)
           Eq(g) == g = [n \in 0 .. N |-> IF n = 0 THEN [k \in {} |-> 0] ELSE Next(n, g[n - 1])]
           merged == CHOOSE g : Eq(g)
           V == DepTables
           e == [k \in {} |-> 0]
           step == [n \in 1 .. N |-> [v \in V |-> Next(n, v)]]
<1>1. N \in Nat
  BY LenProperties
<1>2. GetDependencies(endTime, lookback) = merged[N]
  BY DEF GetDependencies
<1>3. \A n \in 1 .. N, v \in V : Next(n, v) \in V
  BY MergedType, ElementOfSeq
<1>4. e \in V /\ DOMAIN e = {}
  <2>1. e \in [{} -> Nat] /\ {} \in SUBSET Pairs
    OBVIOUS
  <2> HIDE DEF e
  <2> QED
    BY <2>1 DEF DepTables
<1> HIDE DEF N, Next
<1>5. step \in [1 .. N -> [V -> V]] /\ \A n \in 1 .. N, v \in V : step[n][v] = Next(n, v)
  BY <1>3
<1> HIDE DEF step, V, e
<1>6. PICK f \in [0 .. N -> V] : Follows(f, N, e, step)
  BY <1>1, <1>4, <1>5, RecursionUpTo
<1>7. \A k \in 1 .. N : f[k] = Next(k, f[k - 1])
  <2>1. \A k \in 1 .. N : k - 1 \in 0 .. N /\ f[k - 1] \in V
    BY <1>1
  <2> QED
    BY <1>5, <1>6, <2>1 DEF Follows
<1>8. Eq(f)
  <2>1. \A n \in 0 .. N : n = 0 \/ n \in 1 .. N
    BY <1>1
  <2>2. \A n \in 0 .. N : f[n] = IF n = 0 THEN e ELSE Next(n, f[n - 1])
    BY ZenonT(30), <1>6, <1>7, <2>1 DEF Follows
  <2>3. f = [n \in 0 .. N |-> f[n]]
    OBVIOUS
  <2> QED
    BY <2>2, <2>3 DEF e
<1>9. Eq(merged)
  BY ZenonT(30), <1>8
<1> HIDE DEF merged
<1>10. /\ merged = [n \in 0 .. N |-> merged[n]]
       /\ \A n \in 0 .. N : merged[n] = IF n = 0 THEN e ELSE Next(n, merged[n - 1])
  BY <1>9 DEF e
<1> HIDE DEF Eq
<1>11. /\ merged[0] = e
       /\ \A n \in 1 .. N : merged[n] = Next(n, merged[n - 1])
  <2>1. 0 \in 0 .. N /\ \A n \in 1 .. N : n \in 0 .. N /\ n # 0
    BY <1>1
  <2> QED
    BY <1>10, <2>1
<1>12. \A n \in 0 .. N : merged[n] \in V
  <2>1. merged[0] \in V /\ \A n \in 1 .. N : merged[n - 1] \in V => merged[n] \in V
    BY <1>3, <1>4, <1>11
  <2> QED
    BY <1>1, <2>1, RoundsStay
<1>13. merged \in [0 .. N -> V]
  BY <1>10, <1>12
<1> QED
  BY <1>2, <1>4, <1>11, <1>13 DEF N, V, Next

(* The table of a window has the calls of each pair.                       *)
LEMMA DependenciesAddUp ==
    ASSUME deps \in Seq(Links), NEW endTime \in Nat, NEW lookback \in Nat, NEW k \in Pairs
    PROVE  LET found == GetDependencies(endTime, lookback)
               of == LinksOf(k, endTime - lookback, endTime)
           IN  /\ k \in DOMAIN found <=> of # {}
               /\ k \in DOMAIN found => found[k] = Total([i \in of |-> deps[i].count])
<1> DEFINE a == endTime - lookback
           b == endTime
           Up(n) == {i \in 1 .. n : Pair(deps[i]) = k /\ a <= deps[i].ts /\ deps[i].ts <= b}
           T(n) == [i \in Up(n) |-> deps[i].count]
<1>1. PICK m \in [0 .. Len(deps) -> DepTables] :
              /\ GetDependencies(endTime, lookback) = m[Len(deps)] /\ DOMAIN m[0] = {}
              /\ \A n \in 1 .. Len(deps) : m[n] = Merged(m[n - 1], deps[n], a, b)
  BY DependenciesRecursion
<1>2. Len(deps) \in Nat /\ DOMAIN deps = 1 .. Len(deps)
  BY LenProperties
<1>3. a \in Int /\ b \in Int
  OBVIOUS
<1> HIDE DEF a, b
<1> DEFINE Good(n) == /\ k \in DOMAIN m[n] <=> Up(n) # {}
                      /\ k \in DOMAIN m[n] => m[n][k] = Total(T(n))
                      /\ IsFiniteSet(UnitsOf(T(n)))
           P == {n \in 0 .. Len(deps) : Good(n)}
<1>4. 0 \in P
  <2>1. Up(0) = {} /\ DOMAIN T(0) = {}
    OBVIOUS
  <2> HIDE DEF T, Up
  <2>2. IsFiniteSet(UnitsOf(T(0)))
    BY <2>1, TotalZero
  <2> QED
    BY <1>1, <1>2, <2>1, <2>2
<1>5. ASSUME NEW n \in 0 .. Len(deps), n # 0, n - 1 \in P PROVE n \in P
  <2>1. n \in 1 .. Len(deps) /\ n - 1 \in 0 .. Len(deps) /\ Good(n - 1)
    <3>1. n \in 1 .. Len(deps) /\ n - 1 \in 0 .. Len(deps)
      BY <1>2, <1>5
    <3>2. Good(n - 1)
      <4> HIDE DEF Good
      <4> QED
        BY <1>5
    <3> QED
      BY <3>1, <3>2
  <2> DEFINE l == deps[n]
             old == m[n - 1]
             new == m[n]
  <2>2. l \in Links /\ l.ts \in Nat /\ l.count \in Nat
    BY <2>1, ElementOfSeq, QueryAssumption
  <2>3. new = Merged(old, l, a, b) /\ \E D \in SUBSET Pairs : old \in [D -> Nat]
    <3>1. old \in DepTables
      BY <1>1, <2>1
    <3> QED
      BY <1>1, <2>1, <3>1 DEF DepTables
  <2>4. \A i \in 1 .. n : i = n \/ i \in 1 .. n - 1
    BY <2>1
  <2>5. \A i \in 1 .. n - 1 : i \in 1 .. n /\ i # n
    BY <2>1
  <2>6. n \in 1 .. n
    BY <2>1
  <2>7. CASE Pair(l) = k /\ a <= l.ts /\ l.ts <= b
    <3>1. Up(n) = Up(n - 1) \cup {n} /\ n \notin Up(n - 1)
      BY <2>4, <2>5, <2>6, <2>7
    <3>2. new = WithEntry(old, k, (IF k \in DOMAIN old THEN old[k] ELSE 0) + l.count)
      BY <1>3, <2>2, <2>3, <2>7 DEF Merged
    <3>3. k \in DOMAIN new /\ new[k] = (IF k \in DOMAIN old THEN old[k] ELSE 0) + l.count
      BY <3>2 DEF WithEntry
    <3>4. /\ n \notin DOMAIN T(n - 1) /\ DOMAIN T(n) = DOMAIN T(n - 1) \cup {n}
          /\ \A i \in DOMAIN T(n - 1) : T(n)[i] = T(n - 1)[i]
          /\ T(n)[n] = l.count
      BY <3>1
    <3>5. Up(n - 1) = {} => DOMAIN T(n - 1) = {}
      OBVIOUS
    <3> HIDE DEF T, Up, l, old, new
    <3>6. IsFiniteSet(UnitsOf(T(n - 1))) /\ (k \in DOMAIN old <=> Up(n - 1) # {})
          /\ (k \in DOMAIN old => old[k] = Total(T(n - 1)))
      BY <2>1 DEF old
    <3> HIDE DEF Good, P
    <3>7. /\ IsFiniteSet(UnitsOf(T(n))) /\ Total(T(n - 1)) \in Nat
          /\ Total(T(n)) = Total(T(n - 1)) + l.count
      BY <2>2, <3>4, <3>6, TotalSplit
    <3>8. Up(n - 1) = {} => Total(T(n - 1)) = 0
      BY <3>5, TotalZero
    <3>9. new[k] = Total(T(n))
      BY <2>2, <3>3, <3>6, <3>7, <3>8
    <3>10. Good(n)
      BY <3>1, <3>3, <3>7, <3>9 DEF Good, new
    <3> QED
      BY <3>10 DEF P
  <2>8. CASE ~(Pair(l) = k /\ a <= l.ts /\ l.ts <= b)
    <3>1. Up(n) = Up(n - 1)
      BY <2>4, <2>5, <2>8
    <3>2. (k \in DOMAIN new <=> k \in DOMAIN old) /\ (k \in DOMAIN old => new[k] = old[k])
      <4>1. CASE Pair(l) = k
        <5>1. l.ts < a \/ l.ts > b
          BY <1>3, <2>2, <2>8, <4>1
        <5> QED
          BY <2>3, <5>1 DEF Merged
      <4>2. CASE Pair(l) # k
        BY <2>3, <4>2 DEF Merged, WithEntry
      <4> QED
        BY <4>1, <4>2
    <3>3. T(n) = T(n - 1)
      BY <3>1
    <3> HIDE DEF T, Up, l
    <3>4. Good(n)
      BY <2>1, <3>1, <3>2, <3>3
    <3> QED
      BY <3>4
  <2> QED
    BY <2>7, <2>8
<1> HIDE DEF P
<1>6. \A n \in 0 .. Len(deps) : n \in P
  BY <1>2, <1>4, <1>5, InductionUpTo
<1>7. Len(deps) \in P
  BY <1>2, <1>6
<1>8. Good(Len(deps))
  BY <1>7 DEF P
<1>9. LinksOf(k, endTime - lookback, endTime) = Up(Len(deps))
  BY <1>2 DEF LinksOf, a, b
<1> QED
  BY <1>1, <1>8, <1>9

TracesHeld == {stored, archived, archiving, qAnswer.spans}

QueryType ==
    /\ chain \in Seq(Adjusters) /\ spansWritten \in Seq(QuerySpans) /\ deps \in Seq(Links)
    /\ \A ss \in TracesHeld : ss \in Seq(QSpan)

(* Every span that is held somewhere was written, and only moved.          *)
FromInv == \A ss \in TracesHeld : \A i \in DOMAIN ss : ComesFrom(ss[i], Written)

AnswerInv ==
    qAnswer.status = "ok" =>
       /\ Complete(qAnswer.spans)
       /\ "dedup" \in Range(chain) => DistinctIds(qAnswer.spans)
       /\ chain # << >> /\ Last(chain) = "sort" => InOrder(qAnswer.spans)

QueryInv ==
    /\ QueryType /\ FromInv /\ AnswerInv
    /\ Ids(stored) = Ids(spansWritten)
    /\ archiving # << >> => Complete(archiving)
    /\ archived # << >> => Complete(archived)

LEMMA QueryInvSuffices == QueryInv => QueriesKeepTheTrace
<1> SUFFICES ASSUME QueryInv PROVE QueriesKeepTheTrace
  OBVIOUS
<1>1. \A endTime, lookback \in {l.ts : l \in Links} :
          LET found == GetDependencies(endTime, lookback)
              Of(k) == LinksOf(k, endTime - lookback, endTime)
          IN  \A k \in {Pair(l) : l \in Links} :
                 /\ k \in DOMAIN found <=> Of(k) # {}
                 /\ k \in DOMAIN found => found[k] = Total([i \in Of(k) |-> deps[i].count])
  <2>1. {l.ts : l \in Links} \subseteq Nat
    BY QueryAssumption
  <2> QED
    BY <2>1, DependenciesAddUp DEF Pairs, QueryInv, QueryType
<1>2. /\ Ids(stored) = Ids(spansWritten)
      /\ \A ss \in {stored, archived, archiving, qAnswer.spans} : \A i \in DOMAIN ss :
            ComesFrom(ss[i], Written)
      /\ archived # <<>> => Complete(archived)
  BY DEF QueryInv, FromInv, TracesHeld
<1>3. qAnswer.status = "ok" =>
          /\ Complete(qAnswer.spans)
          /\ "dedup" \in Range(chain) => \A i, j \in DOMAIN qAnswer.spans :
                qAnswer.spans[i].id = qAnswer.spans[j].id => i = j
          /\ chain # <<>> /\ Last(chain) = "sort" =>
                \A i \in 1..Len(qAnswer.spans) - 1 : qAnswer.spans[i].start <= qAnswer.spans[i + 1].start
  BY DEF QueryInv, AnswerInv, DistinctIds, InOrder
<1> QED
  BY <1>1, <1>2, <1>3 DEF QueriesKeepTheTrace

LEMMA QueryInitially == QueryInit => QueryInv
<1> SUFFICES ASSUME QueryInit PROVE QueryInv
  OBVIOUS
<1>1. /\ spansWritten \in Seq(QuerySpans) /\ deps \in Seq(Links) /\ << >> \in Seq(QSpan)
      /\ DOMAIN << >> = {}
  BY EmptySeq DEF QueryInit
<1>2. chain \in Seq(Adjusters)
  BY QueryAssumption DEF QueryInit, Adjusters
<1>3. \A ss \in TracesHeld : ss = << >>
  BY DEF QueryInit, TracesHeld
<1>4. QueryType /\ FromInv
  BY <1>1, <1>2, <1>3 DEF QueryType, FromInv
<1>5. AnswerInv
  BY DEF QueryInit, AnswerInv
<1> QED
  BY <1>4, <1>5 DEF QueryInit, QueryInv

(* Steps that write no span.                                               *)
LEMMA QueryAside ==
    ASSUME UNCHANGED spansWritten
    PROVE  (\A ss : Complete(ss)' <=> Complete(ss)) /\ Written' = Written
  BY DEF Complete, Written

LEMMA QueryWrites ==
    ASSUME QueryInv, NEW s \in QuerySpans, WriteSpan(s)
    PROVE  QueryInv'
<1> USE DEF QueryInv
<1>1. /\ stored' = Append(stored, s) /\ spansWritten' = Append(spansWritten, s)
      /\ UNCHANGED <<chain, archiving, archived, deps, qAnswer>>
  BY DEF WriteSpan
<1>2. s \in QSpan
  BY QueryAssumption DEF QSpan
<1>3. stored \in Seq(QSpan) /\ spansWritten \in Seq(QuerySpans)
  BY DEF QueryType, TracesHeld
<1>4. /\ stored' \in Seq(QSpan) /\ Len(stored') = Len(stored) + 1 /\ stored'[Len(stored) + 1] = s
      /\ \A i \in 1 .. Len(stored) : stored'[i] = stored[i]
      /\ Len(stored) \in Nat /\ DOMAIN stored = 1 .. Len(stored)
      /\ DOMAIN stored' = 1 .. Len(stored) + 1
  <2>1. /\ stored' \in Seq(QSpan) /\ Len(stored') = Len(stored) + 1 /\ stored'[Len(stored) + 1] = s
        /\ \A i \in 1 .. Len(stored) : stored'[i] = stored[i]
    BY <1>1, <1>2, <1>3, AppendProperties
  <2> QED
    BY <1>3, <2>1, LenProperties
<1>5. /\ spansWritten' \in Seq(QuerySpans) /\ Len(spansWritten') = Len(spansWritten) + 1
      /\ spansWritten'[Len(spansWritten) + 1] = s
      /\ \A i \in 1 .. Len(spansWritten) : spansWritten'[i] = spansWritten[i]
      /\ Len(spansWritten) \in Nat /\ DOMAIN spansWritten = 1 .. Len(spansWritten)
      /\ DOMAIN spansWritten' = 1 .. Len(spansWritten) + 1
  <2>1. /\ spansWritten' \in Seq(QuerySpans) /\ Len(spansWritten') = Len(spansWritten) + 1
        /\ spansWritten'[Len(spansWritten) + 1] = s
        /\ \A i \in 1 .. Len(spansWritten) : spansWritten'[i] = spansWritten[i]
    BY <1>1, <1>3, AppendProperties
  <2> QED
    BY <1>3, <2>1, LenProperties
<1>6. Written \subseteq Written' /\ s \in Written'
  BY <1>5 DEF Written, Range
<1>7. \A x : ComesFrom(x, Written) => ComesFrom(x, Written')
  BY <1>6 DEF ComesFrom
<1>8. ComesFrom(s, Written')
  BY <1>2, <1>6 DEF ComesFrom, QSpan
<1>9. FromInv'
  <2>1. \A ss \in TracesHeld : \A i \in DOMAIN ss : ComesFrom(ss[i], Written)
    BY DEF FromInv
  <2>2. ASSUME NEW i \in DOMAIN stored' PROVE ComesFrom(stored'[i], Written')
    <3>1. CASE i \in DOMAIN stored
      <4>1. stored'[i] = stored[i] /\ stored \in TracesHeld
        BY <1>4, <3>1 DEF TracesHeld
      <4>2. ComesFrom(stored[i], Written)
        BY <2>1, <3>1, <4>1
      <4> QED
        BY <1>7, <4>1, <4>2
    <3>2. CASE i \notin DOMAIN stored
      <4>1. stored'[i] = s
        BY <1>4, <3>2
      <4> QED
        BY <1>8, <4>1
    <3> QED
      BY <3>1, <3>2
  <2>3. \A ss \in TracesHeld' : ss \in TracesHeld \/ ss = stored'
    BY <1>1 DEF TracesHeld
  <2>4. \A ss \in TracesHeld' : \A i \in DOMAIN ss : ComesFrom(ss[i], Written')
    BY <1>7, <2>1, <2>2, <2>3
  <2> QED
    BY <2>4 DEF FromInv
<1>10. \A ss : Complete(ss) => Complete(ss)'
  <2> SUFFICES ASSUME NEW ss, Complete(ss) PROVE Complete(ss)'
    OBVIOUS
  <2>1. PICK n \in 1 .. Len(spansWritten) : Ids(ss) = {spansWritten[i].id : i \in 1 .. n}
    BY DEF Complete
  <2>2. \A i \in 1 .. n : spansWritten'[i] = spansWritten[i]
    BY <1>5
  <2>3. {spansWritten'[i].id : i \in 1 .. n} = {spansWritten[i].id : i \in 1 .. n}
    BY <2>2
  <2>4. n \in 1 .. Len(spansWritten')
    BY <1>5
  <2> QED
    BY <2>1, <2>3, <2>4 DEF Complete
<1>11. Ids(stored)' = Ids(spansWritten)'
  <2>1. Ids(stored)' = Ids(stored) \cup {s.id}
    <3>1. 1 .. Len(stored) + 1 = (1 .. Len(stored)) \cup {Len(stored) + 1}
      BY <1>4
    <3> QED
      BY <1>4, <3>1 DEF Ids
  <2>2. Ids(spansWritten)' = Ids(spansWritten) \cup {s.id}
    <3>1. 1 .. Len(spansWritten) + 1 = (1 .. Len(spansWritten)) \cup {Len(spansWritten) + 1}
      BY <1>5
    <3> QED
      BY <1>5, <3>1 DEF Ids
  <2> QED
    BY <2>1, <2>2
<1>12. QueryType'
  BY <1>1, <1>4, <1>5 DEF QueryType, TracesHeld
<1>13. AnswerInv'
  BY <1>1, <1>10 DEF AnswerInv
<1> QED
  BY <1>1, <1>9, <1>10, <1>11, <1>12, <1>13

(* What is stored, whatever the adjusters made of it, is complete.         *)
LEMMA CompleteWhenStored ==
    ASSUME QueryInv, stored # << >>, NEW ss, Ids(ss) = Ids(stored)
    PROVE  Complete(ss)
<1>1. stored \in Seq(QSpan) /\ spansWritten \in Seq(QuerySpans)
  BY DEF QueryInv, QueryType, TracesHeld
<1>2. Len(stored) \in Nat /\ DOMAIN stored = 1 .. Len(stored) /\ Len(stored) # 0
  BY <1>1, LenProperties, EmptySeq
<1>3. Len(spansWritten) \in Nat /\ DOMAIN spansWritten = 1 .. Len(spansWritten)
  BY <1>1, LenProperties
<1>4. Ids(spansWritten) # {}
  <2>1. 1 \in DOMAIN stored
    BY <1>2
  <2>2. stored[1].id \in Ids(stored)
    BY <2>1 DEF Ids
  <2> QED
    BY <2>2 DEF QueryInv
<1>5. Len(spansWritten) # 0
  BY <1>3, <1>4 DEF Ids
<1>6. Len(spansWritten) \in 1 .. Len(spansWritten)
  BY <1>3, <1>5
<1>7. Ids(ss) = {spansWritten[i].id : i \in 1 .. Len(spansWritten)}
  BY <1>3 DEF QueryInv, Ids
<1> QED
  BY <1>6, <1>7 DEF Complete

(* Two complete traces together are as complete as the longer one.         *)
LEMMA CompleteTogether ==
    ASSUME Len(spansWritten) \in Nat, NEW a, NEW b, Complete(a), Complete(b),
           NEW c, Ids(c) = Ids(a) \cup Ids(b)
    PROVE  Complete(c)
<1> DEFINE First(n) == {spansWritten[i].id : i \in 1 .. n}
<1>1. PICK m \in 1 .. Len(spansWritten) : Ids(a) = First(m)
  BY DEF Complete
<1>2. PICK n \in 1 .. Len(spansWritten) : Ids(b) = First(n)
  BY DEF Complete
<1>3. \A p, q \in 1 .. Len(spansWritten) : p <= q => First(p) \subseteq First(q)
  <2> SUFFICES ASSUME NEW p \in 1 .. Len(spansWritten), NEW q \in 1 .. Len(spansWritten), p <= q
               PROVE  First(p) \subseteq First(q)
    OBVIOUS
  <2>1. 1 .. p \subseteq 1 .. q
    OBVIOUS
  <2> QED
    BY <2>1
<1>4. m <= n \/ n <= m
  OBVIOUS
<1> HIDE DEF First
<1>5. Ids(c) = First(m) \/ Ids(c) = First(n)
  BY <1>1, <1>2, <1>3, <1>4
<1> QED
  BY <1>1, <1>2, <1>5 DEF Complete, First

(* A query answers with what it has made of the stored spans.              *)
LEMMA QueryReads ==
    ASSUME QueryInv, GetStoredTrace
    PROVE  QueryInv'
<1> USE DEF QueryInv
<1>1. UNCHANGED <<chain, spansWritten, archiving, archived, deps>>
  BY DEF GetStoredTrace
<1>2. (\A ss : Complete(ss)' <=> Complete(ss)) /\ Written' = Written
  BY <1>1, QueryAside
<1>3. CASE stored = << >>
  <2>1. stored' = stored /\ qAnswer' = [status |-> "not found", spans |-> << >>]
    BY <1>3 DEF GetStoredTrace, AnswerTrace
  <2>2. << >> \in Seq(QSpan) /\ DOMAIN << >> = {}
    BY EmptySeq
  <2>3. qAnswer'.status # "ok" /\ \A ss \in TracesHeld' : ss \in TracesHeld
    BY <1>1, <1>3, <2>1 DEF TracesHeld
  <2>4. QueryType'
    BY <1>1, <2>3 DEF QueryType
  <2>5. FromInv'
    BY <1>2, <2>3 DEF FromInv
  <2> QED
    BY <1>1, <1>2, <2>1, <2>3, <2>4, <2>5 DEF AnswerInv
<1>4. CASE stored # << >>
  <2>1. PICK out \in AdjustAll(stored) : stored' = out /\ qAnswer' = [status |-> "ok", spans |-> out]
    BY <1>4 DEF GetStoredTrace, AnswerTrace
  <2>2. chain \in Seq(Adjusters) /\ stored \in Seq(QSpan) /\ spansWritten \in Seq(QuerySpans)
    BY DEF QueryType, TracesHeld
  <2>3. /\ Adjusted(out, stored)
        /\ "dedup" \in Range(chain) => DistinctIds(out)
        /\ chain # << >> /\ Last(chain) = "sort" => InOrder(out)
    BY <2>2, AdjustAllProperties
  <2>4. out \in Seq(QSpan) /\ Ids(out) = Ids(spansWritten)
    BY <2>3 DEF Adjusted
  <2>5. qAnswer'.spans = out /\ \A ss \in TracesHeld' : ss \in TracesHeld \/ ss = out
    BY <1>1, <2>1 DEF TracesHeld
  <2>6. QueryType'
    BY <1>1, <2>4, <2>5 DEF QueryType
  <2>7. ASSUME NEW i \in DOMAIN out PROVE ComesFrom(out[i], Written)
    <3>1. PICK j \in DOMAIN stored : Later(out[i], stored[j], stored)
      BY <2>3 DEF Adjusted
    <3> DEFINE Of(s, w) == /\ s.id = w.id /\ s.parent = w.parent /\ s.events = w.events
                           /\ s.attrs = w.attrs /\ Length(s) = Length(w) /\ s.start >= w.start
                           /\ (s.start > w.start => \E v \in Written : v.start = s.start)
    <3>2. \A k \in DOMAIN stored : \E w \in Written : Of(stored[k], w)
      BY DEF FromInv, TracesHeld, ComesFrom
    <3>3. PICK w \in Written : Of(stored[j], w)
      BY <3>2
    <3>4. \A v \in Written : v.start \in Int
      <4>1. \A v \in Written : v \in QuerySpans
        BY <2>2, ElementOfSeq, LenProperties DEF Written, Range
      <4> QED
        BY <4>1, QueryAssumption
    <3>5. out[i].start \in Int /\ \A k \in DOMAIN stored : stored[k].start \in Int
      BY <2>2, <2>4, SpanOfTrace DEF QSpan
    <3>6. \A k \in DOMAIN stored : \E v \in Written : v.start = stored[k].start
      <4> SUFFICES ASSUME NEW k \in DOMAIN stored PROVE \E v \in Written : v.start = stored[k].start
        OBVIOUS
      <4>1. PICK v \in Written : Of(stored[k], v)
        BY <3>2
      <4>2. stored[k].start = v.start \/ stored[k].start > v.start
        BY <3>4, <3>5, <4>1
      <4> QED
        BY <4>1, <4>2
    <3>7. out[i].start >= w.start
      BY <3>1, <3>3, <3>4, <3>5 DEF Later
    <3>8. out[i].start > w.start => \E v \in Written : v.start = out[i].start
      <4>1. out[i].start = stored[j].start \/ out[i].start > stored[j].start
        BY <3>1, <3>5 DEF Later
      <4>2. \E k \in DOMAIN stored : stored[k].start = out[i].start
        BY <3>1, <4>1 DEF Later
      <4> QED
        BY <3>6, <4>2
    <3>9. Of(out[i], w)
      BY <3>1, <3>3, <3>7, <3>8 DEF Later
    <3> QED
      BY <3>9 DEF ComesFrom
  <2>8. FromInv'
    BY <1>2, <2>5, <2>7 DEF FromInv
  <2>9. Complete(out)
    BY <1>4, <2>4, CompleteWhenStored
  <2>10. AnswerInv'
    BY <1>1, <1>2, <2>1, <2>3, <2>9 DEF AnswerInv
  <2> QED
    BY <1>1, <1>2, <2>1, <2>4, <2>6, <2>8, <2>10
<1> QED
  BY <1>3, <1>4

LEMMA QueryArchives ==
    ASSUME QueryInv, ArchiveRead \/ ArchiveWrite
    PROVE  QueryInv'
<1> USE DEF QueryInv
<1>1. UNCHANGED <<chain, spansWritten, stored, deps, qAnswer>>
  BY DEF ArchiveRead, ArchiveWrite
<1>2. (\A ss : Complete(ss)' <=> Complete(ss)) /\ Written' = Written
  BY <1>1, QueryAside
<1>3. AnswerInv'
  BY <1>1, <1>2 DEF AnswerInv
<1>4. \A ss \in TracesHeld : ss \in Seq(QSpan)
  BY DEF QueryType
<1>5. CASE ArchiveRead
  <2>1. archiving' = stored /\ archived' = archived /\ stored # << >>
    BY <1>5 DEF ArchiveRead
  <2>2. \A ss \in TracesHeld' : ss \in TracesHeld
    BY <1>1, <2>1 DEF TracesHeld
  <2>3. QueryType' /\ FromInv'
    BY <1>1, <1>2, <2>2 DEF QueryType, FromInv
  <2>4. Complete(stored)
    BY <2>1, CompleteWhenStored
  <2> QED
    BY <1>1, <1>2, <1>3, <2>1, <2>3, <2>4
<1>6. CASE ArchiveWrite
  <2>1. archived' = archived \o archiving /\ archiving' = << >> /\ archiving # << >>
    BY <1>6 DEF ArchiveWrite
  <2>2. archived \in Seq(QSpan) /\ archiving \in Seq(QSpan)
    BY <1>4 DEF TracesHeld
  <2>3. /\ Len(archived) \in Nat /\ Len(archiving) \in Nat
        /\ DOMAIN archived = 1 .. Len(archived) /\ DOMAIN archiving = 1 .. Len(archiving)
    BY <2>2, LenProperties
  <2>4. /\ archived' \in Seq(QSpan) /\ Len(archived') = Len(archived) + Len(archiving)
        /\ \A i \in 1 .. Len(archived) + Len(archiving) :
              archived'[i] = IF i <= Len(archived) THEN archived[i] ELSE archiving[i - Len(archived)]
    BY <2>1, <2>2, ConcatProperties
  <2>5. DOMAIN archived' = 1 .. Len(archived) + Len(archiving)
    BY <2>4, LenProperties
  <2>6. << >> \in Seq(QSpan) /\ DOMAIN << >> = {}
    BY EmptySeq
  <2>7. \A ss \in TracesHeld' : ss \in TracesHeld \/ ss = archived' \/ ss = << >>
    BY <1>1, <2>1 DEF TracesHeld
  <2>8. QueryType'
    BY <1>1, <1>4, <2>4, <2>6, <2>7 DEF QueryType
  <2>9. ASSUME NEW i \in DOMAIN archived'
        PROVE  \/ i \in DOMAIN archived /\ archived'[i] = archived[i]
               \/ \E j \in DOMAIN archiving : archived'[i] = archiving[j]
    <3>1. CASE i <= Len(archived)
      BY <2>3, <2>4, <2>5, <2>9, <3>1
    <3>2. CASE ~(i <= Len(archived))
      <4>1. i - Len(archived) \in DOMAIN archiving /\ archived'[i] = archiving[i - Len(archived)]
        BY <2>3, <2>4, <2>5, <2>9, <3>2
      <4> QED
        BY <4>1
    <3> QED
      BY <3>1, <3>2
  <2>10. FromInv'
    <3>1. /\ \A j \in DOMAIN archived : ComesFrom(archived[j], Written)
          /\ \A j \in DOMAIN archiving : ComesFrom(archiving[j], Written)
      BY DEF FromInv, TracesHeld
    <3>2. \A i \in DOMAIN archived' : ComesFrom(archived'[i], Written)
      BY <2>9, <3>1
    <3> QED
      BY <1>2, <2>6, <2>7, <3>2 DEF FromInv
  <2>11. Ids(archived') = Ids(archived) \cup Ids(archiving)
    <3>1. ASSUME NEW x \in Ids(archived') PROVE x \in Ids(archived) \cup Ids(archiving)
      BY <2>9 DEF Ids
    <3>2. ASSUME NEW x \in Ids(archived) PROVE x \in Ids(archived')
      <4>1. PICK j \in DOMAIN archived : x = archived[j].id
        BY DEF Ids
      <4>2. j \in DOMAIN archived' /\ archived'[j] = archived[j]
        BY <2>3, <2>4, <2>5
      <4> QED
        BY <4>1, <4>2 DEF Ids
    <3>3. ASSUME NEW x \in Ids(archiving) PROVE x \in Ids(archived')
      <4>1. PICK j \in DOMAIN archiving : x = archiving[j].id
        BY DEF Ids
      <4>2. Len(archived) + j \in DOMAIN archived' /\ archived'[Len(archived) + j] = archiving[j]
        BY <2>3, <2>4, <2>5
      <4> QED
        BY <4>1, <4>2 DEF Ids
    <3> QED
      BY <3>1, <3>2, <3>3
  <2>12. Complete(archived')
    <3>1. Complete(archiving)
      BY <2>1
    <3>2. CASE archived = << >>
      <4>1. Ids(archived) = {}
        BY <2>6, <3>2 DEF Ids
      <4>2. Ids(archived') = Ids(archiving)
        BY <2>11, <4>1
      <4> QED
        BY <3>1, <4>2 DEF Complete
    <3>3. CASE archived # << >>
      BY <2>11, <3>1, <3>3, CompleteTogether, LenProperties DEF QueryType
    <3> QED
      BY <3>2, <3>3
  <2> QED
    BY <1>1, <1>2, <1>3, <2>1, <2>8, <2>10, <2>12
<1> QED
  BY <1>5, <1>6

LEMMA QueryStep == QueryInv /\ [QueryNext]_queryVars => QueryInv'
<1> SUFFICES ASSUME QueryInv, [QueryNext]_queryVars PROVE QueryInv'
  OBVIOUS
<1>1. CASE \E s \in QuerySpans : WriteSpan(s)
  BY <1>1, QueryWrites
<1>2. CASE GetStoredTrace
  BY <1>2, QueryReads
<1>3. CASE ArchiveRead \/ ArchiveWrite
  BY <1>3, QueryArchives
<1>4. CASE BadTraceID("invalid") \/ (\E l \in Links : WriteLink(l)) \/ UNCHANGED queryVars
  <2> USE DEF QueryInv
  <2>1. UNCHANGED <<chain, spansWritten, stored, archiving, archived>>
    BY <1>4 DEF BadTraceID, WriteLink, queryVars
  <2>2. qAnswer' = qAnswer \/ qAnswer' = [status |-> "invalid", spans |-> << >>]
    BY <1>4 DEF BadTraceID, AnswerTrace, WriteLink, queryVars
  <2>3. deps' \in Seq(Links)
    <3>1. deps' = deps \/ \E l \in Links : deps' = Append(deps, l)
      BY <1>4 DEF BadTraceID, WriteLink, queryVars
    <3>2. \A l \in Links : Append(deps, l) \in Seq(Links)
      BY AppendProperties DEF QueryType
    <3> QED
      BY <3>1, <3>2 DEF QueryType
  <2>4. (\A ss : Complete(ss)' <=> Complete(ss)) /\ Written' = Written
    BY <2>1, QueryAside
  <2>5. << >> \in Seq(QSpan) /\ DOMAIN << >> = {}
    BY EmptySeq
  <2>6. \A ss \in TracesHeld' : ss \in TracesHeld \/ ss = << >>
    BY <2>1, <2>2 DEF TracesHeld
  <2>7. QueryType' /\ FromInv'
    BY <2>1, <2>3, <2>4, <2>5, <2>6 DEF QueryType, FromInv
  <2>8. AnswerInv'
    BY <2>1, <2>2, <2>4 DEF AnswerInv
  <2> QED
    BY <2>1, <2>4, <2>7, <2>8
<1> QED
  BY <1>1, <1>2, <1>3, <1>4 DEF QueryNext

(* For every chain of adjusters, and however often a trace is queried,     *)
(* archived and written to in between: no span is lost or invented, none   *)
(* is changed but for its address and a move forward to a start that was   *)
(* written, answers and archive are complete, and the dependencies of      *)
(* every window add up (internal/query, ArchiveTrace, GetDependencies).    *)
THEOREM QueriesKeepEveryTrace == QuerySpec => []QueriesKeepTheTrace
<1>1. QueryInit => QueryInv
  BY QueryInitially
<1>2. QueryInv /\ [QueryNext]_queryVars => QueryInv'
  BY QueryStep
<1>3. QueryInv => QueriesKeepTheTrace
  BY QueryInvSuffices
<1> QED
  BY <1>1, <1>2, <1>3, PTL DEF QuerySpec

-----------------------------------------------------------------------------
(* Context propagation: sizes of baggage and trace states *)

(* The size of a list whose entries are found, not smaller, at different   *)
(* places of another one.                                                  *)
LEMMA SizeOfPart ==
    ASSUME NEW a \in Seq(KeyValues), NEW b \in Seq(KeyValues), NEW sep \in Nat,
           NEW at \in [DOMAIN a -> DOMAIN b], \A i, j \in DOMAIN a : at[i] = at[j] => i = j,
           \A i \in DOMAIN a : /\ Bytes[a[i].key] <= Bytes[b[at[i]].key]
                              /\ Bytes[a[i].val] <= Bytes[b[at[i]].val]
    PROVE  Size(a, sep) \in Nat /\ Size(b, sep) \in Nat /\ Size(a, sep) <= Size(b, sep)
<1> DEFINE D == DOMAIN a
           E == DOMAIN b
           f == [i \in D |-> Bytes[a[i].key] + Bytes[a[i].val] + sep]
           g == [i \in E |-> Bytes[b[i].key] + Bytes[b[i].val] + sep]
<1>1. /\ \A i \in D : Bytes[a[i].key] \in Nat /\ Bytes[a[i].val] \in Nat
      /\ \A i \in E : Bytes[b[i].key] \in Nat /\ Bytes[b[i].val] \in Nat
  <2>1. \A i \in D : a[i] \in KeyValues
    BY LenProperties, ElementOfSeq
  <2>2. \A i \in E : b[i] \in KeyValues
    BY LenProperties, ElementOfSeq
  <2>3. \A e \in KeyValues : Bytes[e.key] \in Nat /\ Bytes[e.val] \in Nat
    BY PropagationAssumption DEF KeyValues
  <2> QED
    BY <2>1, <2>2, <2>3
<1>2. f \in [D -> Nat] /\ g \in [E -> Nat]
  BY SMTT(30), <1>1
<1>3. \A i \in D : at[i] \in E /\ f[i] <= g[at[i]]
  BY SMTT(30), <1>1
<1>4. IsFiniteSet(E)
  <2>1. E = 1 .. Len(b) /\ Len(b) \in Nat
    BY LenProperties
  <2>2. 1 \in Int /\ Len(b) \in Int
    BY <2>1
  <2>3. IsFiniteSet(1 .. Len(b))
    BY <2>2, FS_Interval
  <2> QED
    BY <2>1, <2>3
<1>5. Size(a, sep) = Total(f) /\ Size(b, sep) = Total(g)
  BY DEF Size
<1>6. /\ DOMAIN f = D /\ DOMAIN g = E
      /\ \A i \in D : f[i] \in Nat /\ at[i] \in E /\ f[i] <= g[at[i]]
      /\ \A i \in E : g[i] \in Nat
      /\ \A i, j \in D : at[i] = at[j] => i = j
  BY <1>2, <1>3
<1> HIDE DEF f, g, D, E
<1>7. Total(f) \in Nat /\ Total(g) \in Nat /\ Total(f) <= Total(g)
  BY ZenonT(60), <1>4, <1>6, TotalOfPart
<1> QED
  BY <1>5, <1>7

(* A list of entries has a size.                                           *)
LEMMA SizeType ==
    ASSUME NEW a \in Seq(KeyValues), NEW sep \in Nat
    PROVE  Size(a, sep) \in Nat
<1> DEFINE at == [i \in DOMAIN a |-> i]
<1>1. at \in [DOMAIN a -> DOMAIN a] /\ \A i \in DOMAIN a : at[i] = i
  OBVIOUS
<1>2. \A i \in DOMAIN a : Bytes[a[i].key] <= Bytes[a[i].key] /\ Bytes[a[i].val] <= Bytes[a[i].val]
  <2>1. \A i \in DOMAIN a : a[i] \in KeyValues
    BY LenProperties, ElementOfSeq
  <2>2. \A e \in KeyValues : Bytes[e.key] \in Nat /\ Bytes[e.val] \in Nat
    BY PropagationAssumption DEF KeyValues
  <2>3. \A i \in DOMAIN a : Bytes[a[i].key] \in Nat /\ Bytes[a[i].val] \in Nat
    BY <2>1, <2>2
  <2> QED
    BY <2>3
<1> HIDE DEF at
<1> QED
  BY <1>1, <1>2, SizeOfPart

(* An empty list is baggage and a trace state.                             *)
LEMMA EmptyLists ==
    /\ << >> \in Seq(KeyValues) /\ \A sep \in Nat : Size(<< >>, sep) = 0
    /\ IsBaggage(<< >>) /\ IsTraceState(<< >>)
<1>1. << >> \in Seq(KeyValues) /\ Len(<< >>) = 0 /\ DOMAIN << >> = {}
  OBVIOUS
<1>2. ASSUME NEW sep \in Nat PROVE Size(<< >>, sep) = 0
  <2> DEFINE e == << >>
             f == [i \in DOMAIN e |-> Bytes[e[i].key] + Bytes[e[i].val] + sep]
  <2>1. DOMAIN f = {}
    BY <1>1
  <2>2. Size(e, sep) = Total(f)
    BY DEF Size
  <2> HIDE DEF f
  <2>3. \A x \in DOMAIN f : f[x] = 0
    BY <2>1
  <2>4. Total(f) = 0
    BY <2>3, TotalZero
  <2> QED
    BY <2>2, <2>4
<1>5. 0 <= MaxBytes /\ 0 <= MaxEntries /\ Size(<< >>, 0) = 0
  <2>1. MaxBytes \in Nat /\ MaxEntries \in Nat
    BY PropagationAssumption
  <2> QED
    BY <1>2, <2>1
<1>3. IsBaggage(<< >>)
  BY <1>1, <1>5 DEF IsBaggage
<1>4. IsTraceState(<< >>)
  BY <1>1, <1>5 DEF IsTraceState, StateBytes
<1> QED
  BY <1>1, <1>2, <1>3, <1>4

(* A list of which another has every entry, each at a place of its own, is *)
(* within the limits when that one is.                                     *)
LEMMA PartWithinLimits ==
    ASSUME NEW a \in Seq(KeyValues), NEW b \in Seq(KeyValues),
           NEW at \in [DOMAIN a -> DOMAIN b], \A i, j \in DOMAIN a : at[i] = at[j] => i = j,
           \A i \in DOMAIN a : a[i] = b[at[i]]
    PROVE  /\ IsBaggage(b) => IsBaggage(a)
           /\ IsTraceState(b) => IsTraceState(a)
           /\ Len(a) <= Len(b)
<1>1. /\ DOMAIN a = 1 .. Len(a) /\ DOMAIN b = 1 .. Len(b)
      /\ Len(a) \in Nat /\ Len(b) \in Nat
  BY LenProperties
<1>2. \A i \in DOMAIN a : /\ Bytes[a[i].key] <= Bytes[b[at[i]].key]
                          /\ Bytes[a[i].val] <= Bytes[b[at[i]].val]
  <2>1. \A i \in DOMAIN a : a[i] \in KeyValues
    BY LenProperties, ElementOfSeq
  <2>2. \A e \in KeyValues : Bytes[e.key] \in Nat /\ Bytes[e.val] \in Nat
    BY PropagationAssumption DEF KeyValues
  <2>3. \A i \in DOMAIN a : Bytes[a[i].key] \in Nat /\ Bytes[a[i].val] \in Nat
    BY <2>1, <2>2
  <2> QED
    BY <2>3
<1>3. \A sep \in Nat : Size(a, sep) \in Nat /\ Size(b, sep) \in Nat /\ Size(a, sep) <= Size(b, sep)
  BY <1>2, SizeOfPart
<1>7. Len(a) \in Nat /\ Len(b) \in Nat
  BY <1>1
<1>4. Len(a) <= Len(b)
  <2>1. at \in Injection(1 .. Len(a), 1 .. Len(b))
    BY <1>1 DEF Injection, IsInjective
  <2>2. /\ IsFiniteSet(1 .. Len(a)) /\ Cardinality(1 .. Len(a)) = Len(a)
        /\ IsFiniteSet(1 .. Len(b)) /\ Cardinality(1 .. Len(b)) = Len(b)
    BY <1>7, CountPlaces
  <2>3. Cardinality(1 .. Len(a)) <= Cardinality(1 .. Len(b))
    BY <2>1, <2>2, FS_Injection
  <2> QED
    BY <2>2, <2>3
<1>5. ASSUME IsBaggage(b) PROVE IsBaggage(a)
  <2>1. /\ Size(b, 0) <= MaxBytes
        /\ \A i, j \in DOMAIN b : b[i].key = b[j].key => i = j
    BY <1>5 DEF IsBaggage
  <2>2. Size(a, 0) <= MaxBytes
    <3>1. MaxBytes \in Nat
      BY PropagationAssumption
    <3>2. Size(a, 0) \in Nat /\ Size(b, 0) \in Nat /\ Size(a, 0) <= Size(b, 0)
      BY <1>3
    <3>3. Size(b, 0) <= MaxBytes
      BY <2>1
    <3> QED
      BY <3>1, <3>2, <3>3
  <2> QED
    BY <2>1, <2>2 DEF IsBaggage
<1>6. ASSUME IsTraceState(b) PROVE IsTraceState(a)
  <2>1. /\ Len(b) <= MaxEntries /\ StateBytes(b) <= MaxBytes
        /\ \A i \in DOMAIN b : b[i].key \notin {"", "="}
    BY <1>6 DEF IsTraceState
  <2>2. MaxEntries \in Nat /\ MaxBytes \in Nat
    BY PropagationAssumption
  <2>6. Len(b) <= MaxEntries /\ StateBytes(b) <= MaxBytes
    BY <2>1
  <2>3. Len(a) <= MaxEntries
    BY <1>4, <1>7, <2>2, <2>6
  <2>4. \A i \in DOMAIN a : a[i].key \notin {"", "="}
    BY <2>1
  <2>5. StateBytes(a) <= MaxBytes
    <3>1. CASE a = << >>
      BY <2>2, <3>1 DEF StateBytes
    <3>2. CASE a # << >>
      <4>1. Len(a) # 0
        BY <3>2, EmptySeq
      <4>2. b # << >>
        BY <1>1, <1>4, <4>1
      <4>3. StateBytes(a) = Size(a, 2) - 1 /\ StateBytes(b) = Size(b, 2) - 1
        BY <3>2, <4>2 DEF StateBytes
      <4>4. Size(a, 2) \in Nat /\ Size(b, 2) \in Nat /\ Size(a, 2) <= Size(b, 2)
        BY <1>3
      <4> QED
        BY <2>2, <2>6, <4>3, <4>4
    <3> QED
      BY <3>1, <3>2
  <2> QED
    BY <2>3, <2>4, <2>5 DEF IsTraceState
<1> QED
  BY <1>4, <1>5, <1>6

(* What Delete and the skipping of blank entries leave.                    *)
LEMMA WithoutProperties ==
    ASSUME NEW s \in Seq(KeyValues), NEW key
    PROVE  /\ Without(s, key) \in Seq(KeyValues)
           /\ IsBaggage(s) => IsBaggage(Without(s, key))
           /\ IsTraceState(s) => IsTraceState(Without(s, key))
           /\ Len(Without(s, key)) <= Len(s)
           /\ \A i \in DOMAIN Without(s, key) : Without(s, key)[i].key # key
           /\ (\A i \in DOMAIN s : s[i].key # key) => Without(s, key) = s
<1> DEFINE S == {e \in Range(s) : e.key # key}
           w == Keep(s, S)
<1>1. Without(s, key) = w
  BY DEF Without
<1>2. PICK at \in [DOMAIN w -> DOMAIN s] :
          /\ \A i, j \in DOMAIN w : at[i] = at[j] => i = j
          /\ \A i \in DOMAIN w : w[i] = s[at[i]]
  <2> HIDE DEF S
  <2> QED
    BY SMTT(40), KeepPlaces
<1>3. w \in Seq(KeyValues) /\ ToSet(w) = ToSet(s) \cap S
  <2> HIDE DEF S
  <2> QED
    BY KeepProperties
<1>4. \A i \in DOMAIN w : w[i] \in S
  <2> HIDE DEF S, w
  <2> QED
    BY <1>3 DEF ToSet
<1>5. (\A i \in DOMAIN s : s[i].key # key) => w = s
  <2> SUFFICES ASSUME \A i \in DOMAIN s : s[i].key # key PROVE w = s
    OBVIOUS
  <2>1. ToSet(s) \subseteq S
    BY DEF ToSet, Range
  <2> HIDE DEF S
  <2> QED
    BY <2>1, KeepAll
<1> HIDE DEF w
<1>6. /\ IsBaggage(s) => IsBaggage(w)
      /\ IsTraceState(s) => IsTraceState(w)
      /\ Len(w) <= Len(s)
  BY <1>2, <1>3, PartWithinLimits
<1> QED
  BY <1>1, <1>3, <1>4, <1>5, <1>6

(* What Set makes of a list before it measures it.                         *)
SetIn(bag, key, val) ==
    LET found == {i \in DOMAIN bag : bag[i].key = key}
    IN  IF found = {} THEN Append(bag, Entry(key, val))
        ELSE [i \in DOMAIN bag |-> IF i \in found THEN Entry(key, val) ELSE bag[i]]

(* No key has two entries.                                                 *)
DistinctKeys(bag) == \A i, j \in DOMAIN bag : bag[i].key = bag[j].key => i = j

(* u is v with the entry e in it, once.                                    *)
HasSet(u, v, e) ==
    /\ \A i \in DOMAIN u : u[i] = e \/ (i \in DOMAIN v /\ u[i] = v[i])
    /\ \E i \in DOMAIN u : u[i].key = e.key
    /\ \A i \in DOMAIN v : i \in DOMAIN u /\ u[i].key = v[i].key
    /\ (\A i \in DOMAIN v : v[i].key # e.key) => u = Append(v, e)

(* Set keeps the keys distinct, every other entry, and the order.          *)
LEMMA SetInProperties ==
    ASSUME NEW bag \in Seq(KeyValues), DistinctKeys(bag),
           NEW key \in DOMAIN Bytes, NEW val \in DOMAIN Bytes
    PROVE  /\ SetIn(bag, key, val) \in Seq(KeyValues) /\ DistinctKeys(SetIn(bag, key, val))
           /\ HasSet(SetIn(bag, key, val), bag, Entry(key, val))
<1> DEFINE e == Entry(key, val)
           L == Len(bag)
           found == {i \in DOMAIN bag : bag[i].key = key}
           new == SetIn(bag, key, val)
<1>1. e \in KeyValues /\ e.key = key
  BY DEF Entry, KeyValues
<1>2. L \in Nat /\ DOMAIN bag = 1 .. L /\ \A i \in 1 .. L : bag[i] \in KeyValues
  BY LenProperties, ElementOfSeq
<1>3. CASE found = {}
  <2> DEFINE u == Append(bag, e)
  <2>1. new = u
    BY <1>3 DEF SetIn
  <2>2. /\ u \in Seq(KeyValues) /\ Len(u) = L + 1 /\ u[L + 1] = e
        /\ \A i \in 1 .. L : u[i] = bag[i]
    <3> HIDE DEF e
    <3> QED
      BY <1>1, AppendProperties
  <2>3. DOMAIN u = 1 .. L + 1
    BY <2>2, LenProperties
  <2>4. \A i \in 1 .. L : bag[i].key # key
    BY <1>2, <1>3
  <2> HIDE DEF e, L, u, new
  <2>5. \A i \in DOMAIN u : i = L + 1 \/ i \in 1 .. L
    BY <1>2, <2>3
  <2>6. DistinctKeys(u)
    BY <1>1, <1>2, <2>2, <2>4, <2>5 DEF DistinctKeys
  <2>7. L + 1 \in DOMAIN u /\ \A i \in 1 .. L : i \in DOMAIN u
    BY <1>2, <2>3
  <2>8. /\ \A i \in DOMAIN u : u[i] = e \/ (i \in DOMAIN bag /\ u[i] = bag[i])
        /\ \E i \in DOMAIN u : u[i].key = key
        /\ \A i \in DOMAIN bag : i \in DOMAIN u /\ u[i].key = bag[i].key
    BY <1>1, <1>2, <2>2, <2>5, <2>7
  <2> QED
    BY <1>1, <2>1, <2>2, <2>6, <2>8 DEF new, u, e, HasSet
<1>4. CASE found # {}
  <2> DEFINE u == [i \in 1 .. L |-> IF i \in found THEN e ELSE bag[i]]
  <2>1. new = u
    BY <1>2, <1>4 DEF SetIn
  <2>2. u \in [1 .. L -> KeyValues]
    <3> HIDE DEF e, L, found
    <3> QED
      BY <1>1, <1>2
  <2>3. u \in Seq(KeyValues) /\ DOMAIN u = 1 .. L
    <3> HIDE DEF u, L
    <3> QED
      BY <1>2, <2>2, FunctionIsSeq
  <2>4. \A i \in 1 .. L : /\ u[i].key = bag[i].key
                          /\ u[i] = e \/ u[i] = bag[i]
    BY <1>1, <1>2
  <2>5. DistinctKeys(u)
    <3> HIDE DEF u, L
    <3> QED
      BY <1>2, <2>3, <2>4 DEF DistinctKeys
  <2>6. \E i \in 1 .. L : bag[i].key = key
    BY <1>2, <1>4
  <2> HIDE DEF e, L, u, new
  <2>7. /\ \A i \in DOMAIN u : u[i] = e \/ (i \in DOMAIN bag /\ u[i] = bag[i])
        /\ \E i \in DOMAIN u : u[i].key = key
        /\ \A i \in DOMAIN bag : i \in DOMAIN u /\ u[i].key = bag[i].key
    BY <1>2, <2>3, <2>4, <2>6
  <2>8. ~(\A i \in DOMAIN bag : bag[i].key # key)
    BY <1>2, <2>6
  <2> QED
    BY SMTT(30), <1>1, <2>1, <2>3, <2>5, <2>7, <2>8 DEF new, e, HasSet
<1> QED
  BY <1>3, <1>4

(* Set of baggage answers baggage, empty when it would grow too large.     *)
LEMMA BaggageSetProperties ==
    ASSUME NEW bag \in Seq(KeyValues), IsBaggage(bag),
           NEW key \in DOMAIN Bytes, NEW val \in DOMAIN Bytes
    PROVE  /\ BaggageSet(bag, key, val).entries \in Seq(KeyValues)
           /\ IsBaggage(BaggageSet(bag, key, val).entries)
           /\ Size(SetIn(bag, key, val), 0) <= MaxBytes =>
                 BaggageSet(bag, key, val).entries = SetIn(bag, key, val)
<1> DEFINE new == SetIn(bag, key, val)
           r == BaggageSet(bag, key, val)
<1>1. new \in Seq(KeyValues) /\ DistinctKeys(new)
  <2>1. DistinctKeys(bag)
    BY DEF IsBaggage, DistinctKeys
  <2> QED
    BY <2>1, SetInProperties
<1>2. r = IF Size(new, 0) > MaxBytes THEN [ok |-> FALSE, entries |-> << >>]
          ELSE [ok |-> TRUE, entries |-> new]
  BY DEF BaggageSet, SetIn
<1> HIDE DEF r, new
<1>3. Size(new, 0) \in Nat /\ MaxBytes \in Nat
  BY <1>1, SizeType, PropagationAssumption
<1>4. CASE Size(new, 0) > MaxBytes
  BY <1>2, <1>3, <1>4, EmptyLists DEF new, r
<1>5. CASE Size(new, 0) <= MaxBytes
  <2>1. r.entries = new
    BY <1>2, <1>3, <1>5
  <2>2. IsBaggage(new)
    BY <1>1, <1>5 DEF IsBaggage, DistinctKeys
  <2> QED
    BY <1>1, <2>1, <2>2 DEF new, r
<1> QED
  BY <1>3, <1>4, <1>5

(* The values of type Baggage.                                             *)
Bags == {b \in Seq(KeyValues) : IsBaggage(b)}

(* Baggage is collected entry by entry, from nothing.                      *)
LEMMA CollectRecursion ==
    ASSUME NEW pairs \in Seq(KeyValues)
    PROVE  \E bags \in [0 .. Len(pairs) -> Bags] :
              /\ CollectBaggage(pairs) = bags[Len(pairs)] /\ bags[0] = << >>
              /\ \A n \in 1 .. Len(pairs) :
                    bags[n] = BaggageSet(bags[n - 1], pairs[n].key, pairs[n].val).entries
<1> DEFINE N == Len(pairs)
           Eq(g) == g = [n \in 0 .. N |-> IF n = 0 THEN << >>
                                         ELSE BaggageSet(g[n - 1], pairs[n].key, pairs[n].val).entries]
           bags == CHOOSE g : Eq(g)
           V == Bags
           e == << >>
           step == [n \in 1 .. N |-> [v \in V |-> BaggageSet(v, pairs[n].key, pairs[n].val).entries]]
<1>1. N \in Nat
  BY LenProperties
<1>2. CollectBaggage(pairs) = bags[N]
  BY DEF CollectBaggage
<1>3. \A n \in 1 .. N, v \in V : BaggageSet(v, pairs[n].key, pairs[n].val).entries \in V
  <2>1. \A n \in 1 .. N : pairs[n].key \in DOMAIN Bytes /\ pairs[n].val \in DOMAIN Bytes
    <3>1. \A n \in 1 .. N : pairs[n] \in KeyValues
      BY ElementOfSeq
    <3> HIDE DEF N
    <3> QED
      BY <3>1 DEF KeyValues
  <2> HIDE DEF N
  <2>2. ASSUME NEW n \in 1 .. N, NEW v \in V
        PROVE  BaggageSet(v, pairs[n].key, pairs[n].val).entries \in V
    <3>1. v \in Seq(KeyValues) /\ IsBaggage(v)
      BY DEF Bags
    <3>2. pairs[n].key \in DOMAIN Bytes /\ pairs[n].val \in DOMAIN Bytes
      BY <2>1
    <3> QED
      BY <3>1, <3>2, BaggageSetProperties DEF Bags
  <2> QED
    BY <2>2
<1>4. e \in V
  BY EmptyLists DEF Bags
<1> HIDE DEF N
<1>5. /\ step \in [1 .. N -> [V -> V]]
      /\ \A n \in 1 .. N, v \in V : step[n][v] = BaggageSet(v, pairs[n].key, pairs[n].val).entries
  BY <1>3
<1> HIDE DEF step, V, e
<1>6. PICK f \in [0 .. N -> V] : Follows(f, N, e, step)
  BY <1>1, <1>4, <1>5, RecursionUpTo
<1>7. \A k \in 1 .. N : f[k] = BaggageSet(f[k - 1], pairs[k].key, pairs[k].val).entries
  <2>1. \A k \in 1 .. N : k - 1 \in 0 .. N /\ f[k - 1] \in V
    BY <1>1
  <2> QED
    BY <1>5, <1>6, <2>1 DEF Follows
<1>8. Eq(f)
  <2>1. \A n \in 0 .. N : n = 0 \/ n \in 1 .. N
    BY <1>1
  <2>2. \A n \in 0 .. N :
           f[n] = IF n = 0 THEN e ELSE BaggageSet(f[n - 1], pairs[n].key, pairs[n].val).entries
    BY ZenonT(30), <1>6, <1>7, <2>1 DEF Follows
  <2>3. f = [n \in 0 .. N |-> f[n]]
    OBVIOUS
  <2> QED
    BY <2>2, <2>3 DEF e
<1>9. Eq(bags)
  BY ZenonT(30), <1>8
<1> HIDE DEF bags
<1>10. /\ bags = [n \in 0 .. N |-> bags[n]]
       /\ \A n \in 0 .. N :
             bags[n] = IF n = 0 THEN e ELSE BaggageSet(bags[n - 1], pairs[n].key, pairs[n].val).entries
  BY <1>9 DEF e
<1> HIDE DEF Eq
<1>11. /\ bags[0] = e
       /\ \A n \in 1 .. N : bags[n] = BaggageSet(bags[n - 1], pairs[n].key, pairs[n].val).entries
  <2>1. 0 \in 0 .. N /\ \A n \in 1 .. N : n \in 0 .. N /\ n # 0
    BY <1>1
  <2> QED
    BY <1>10, <2>1
<1>12. \A n \in 0 .. N : bags[n] \in V
  BY <1>1, <1>3, <1>4, <1>11, RoundsStay
<1>13. bags \in [0 .. N -> V]
  BY <1>10, <1>12
<1> QED
  BY <1>2, <1>11, <1>13 DEF N, V, e

(* Baggage that was written entry by entry is read back as it was.         *)
LEMMA CollectSame ==
    ASSUME NEW b \in Seq(KeyValues), IsBaggage(b)
    PROVE  CollectBaggage(b) = b
<1> DEFINE N == Len(b)
<1>0. PICK bags \in [0 .. N -> Bags] :
          /\ CollectBaggage(b) = bags[N] /\ bags[0] = << >>
          /\ \A n \in 1 .. N : bags[n] = BaggageSet(bags[n - 1], b[n].key, b[n].val).entries
  BY CollectRecursion
<1>1. N \in Nat /\ DOMAIN b = 1 .. N /\ \A n \in 1 .. N : b[n] \in KeyValues
  BY LenProperties, ElementOfSeq
<1>2. /\ Size(b, 0) <= MaxBytes /\ Size(b, 0) \in Nat /\ MaxBytes \in Nat
      /\ \A i, j \in 1 .. N : b[i].key = b[j].key => i = j
  BY <1>1, SizeType, PropagationAssumption DEF IsBaggage
<1> HIDE DEF N
<1> DEFINE P == {n \in 0 .. N : Len(bags[n]) = n /\ \A i \in 1 .. n : bags[n][i] = b[i]}
<1>3. 0 \in P
  BY <1>0, <1>1
<1>4. ASSUME NEW n \in 0 .. N, n # 0, n - 1 \in P PROVE n \in P
  <2> DEFINE v == bags[n - 1]
             u == SetIn(v, b[n].key, b[n].val)
  <2>1. n \in 1 .. N /\ n - 1 \in 0 .. N
    BY <1>1, <1>4
  <2>2. v \in Seq(KeyValues) /\ IsBaggage(v) /\ Len(v) = n - 1 /\ \A i \in 1 .. n - 1 : v[i] = b[i]
    BY <1>4, <2>1 DEF Bags
  <2>3. DOMAIN v = 1 .. n - 1
    BY <2>2, LenProperties
  <2> HIDE DEF v
  <2>4. b[n] \in KeyValues /\ b[n].key \in DOMAIN Bytes /\ b[n].val \in DOMAIN Bytes
    BY <1>1, <2>1 DEF KeyValues
  <2>5. Entry(b[n].key, b[n].val) = b[n]
    BY <2>4 DEF Entry, KeyValues
  <2>6. \A i \in DOMAIN v : v[i].key # b[n].key
    <3>1. \A i \in 1 .. n - 1 : i \in 1 .. N /\ i # n
      BY <1>1, <2>1
    <3> QED
      BY <1>2, <2>1, <2>2, <2>3, <3>1
  <2>7. u = Append(v, b[n]) /\ u \in Seq(KeyValues)
    <3>1. DistinctKeys(v)
      BY <2>2 DEF IsBaggage, DistinctKeys
    <3>2. HasSet(u, v, Entry(b[n].key, b[n].val)) /\ u \in Seq(KeyValues)
      BY <2>2, <2>4, <3>1, SetInProperties
    <3> HIDE DEF u
    <3> QED
      BY <2>5, <2>6, <3>2 DEF HasSet
  <2>8. /\ Len(Append(v, b[n])) = n /\ Append(v, b[n])[n] = b[n]
        /\ \A i \in 1 .. n - 1 : Append(v, b[n])[i] = v[i]
    <3>1. /\ Len(Append(v, b[n])) = Len(v) + 1 /\ Append(v, b[n])[Len(v) + 1] = b[n]
          /\ \A i \in 1 .. Len(v) : Append(v, b[n])[i] = v[i]
      BY <2>2, <2>4, AppendProperties
    <3>2. Len(v) + 1 = n /\ Len(v) = n - 1
      BY <2>1, <2>2
    <3> QED
      BY <3>1, <3>2
  <2>9. Len(u) = n /\ \A i \in 1 .. n : u[i] = b[i]
    BY <2>1, <2>2, <2>7, <2>8
  <2> HIDE DEF u
  <2>10. DOMAIN u = 1 .. n
    BY <2>7, <2>9, LenProperties
  <2>11. Size(u, 0) <= Size(b, 0) /\ Size(u, 0) \in Nat
    <3> DEFINE at == [i \in 1 .. n |-> i]
    <3>1. at \in [DOMAIN u -> DOMAIN b] /\ \A i \in DOMAIN u : at[i] = i
      BY <1>1, <2>1, <2>10
    <3>2. \A i \in DOMAIN u : /\ Bytes[u[i].key] <= Bytes[b[at[i]].key]
                              /\ Bytes[u[i].val] <= Bytes[b[at[i]].val]
      <4>1. \A i \in DOMAIN u : u[i] = b[at[i]] /\ u[i] \in KeyValues
        BY <1>1, <2>1, <2>9, <2>10, <3>1
      <4>2. \A x \in KeyValues : Bytes[x.key] \in Nat /\ Bytes[x.val] \in Nat
        BY PropagationAssumption DEF KeyValues
      <4>3. \A i \in DOMAIN u : Bytes[u[i].key] \in Nat /\ Bytes[u[i].val] \in Nat
        BY <4>1, <4>2
      <4> HIDE DEF at
      <4> QED
        BY <4>1, <4>3
    <3> HIDE DEF at
    <3>3. \A i, j \in DOMAIN u : at[i] = at[j] => i = j
      BY <3>1
    <3> QED
      BY <2>7, <3>1, <3>2, <3>3, SizeOfPart
  <2>12. Size(u, 0) <= MaxBytes
    BY <1>2, <2>11
  <2>13. bags[n] = u
    BY <1>0, <2>1, <2>2, <2>4, <2>12, BaggageSetProperties DEF u, v
  <2> QED
    BY <2>9, <2>13
<1> HIDE DEF P
<1>5. N \in P
  <2>1. \A k \in 0 .. N : k \in P
    BY <1>1, <1>3, <1>4, InductionUpTo
  <2> QED
    BY <1>1, <2>1
<1>6. bags[N] \in Seq(KeyValues) /\ Len(bags[N]) = N /\ \A i \in 1 .. N : bags[N][i] = b[i]
  BY <1>1, <1>5 DEF P, Bags
<1>7. bags[N] = b
  BY <1>6, SeqEqual DEF N
<1> QED
  BY <1>0, <1>7

(* e is an entry of the baggage b as a Jaeger header brings it.            *)
LoweredFrom(e, b) == \E j \in DOMAIN b : e = Entry(Lower[b[j].key], b[j].val)

(* Baggage with lower-case keys is read back from the headers of b with    *)
(* one entry for every key: it never grows over the limit.                 *)
LEMMA CollectLowered ==
    ASSUME NEW b \in Seq(KeyValues), IsBaggage(b), NEW pairs \in Seq(KeyValues),
           \A n \in DOMAIN pairs : LoweredFrom(pairs[n], b)
    PROVE  LET r == CollectBaggage(pairs)
           IN  /\ r \in Seq(KeyValues) /\ DistinctKeys(r)
               /\ \A i \in DOMAIN r : \E n \in DOMAIN pairs : r[i] = pairs[n]
               /\ \A n \in DOMAIN pairs : \E i \in DOMAIN r : r[i].key = pairs[n].key
<1> DEFINE N == Len(pairs)
<1>0. PICK bags \in [0 .. N -> Bags] :
          /\ CollectBaggage(pairs) = bags[N] /\ bags[0] = << >>
          /\ \A n \in 1 .. N : bags[n] = BaggageSet(bags[n - 1], pairs[n].key, pairs[n].val).entries
  BY CollectRecursion
<1>1. N \in Nat /\ DOMAIN pairs = 1 .. N /\ \A n \in 1 .. N : pairs[n] \in KeyValues
  BY LenProperties, ElementOfSeq
<1>2. Size(b, 0) <= MaxBytes /\ Size(b, 0) \in Nat /\ MaxBytes \in Nat
  BY SizeType, PropagationAssumption DEF IsBaggage
<1> HIDE DEF N
<1> DEFINE Has(n) == /\ \A i \in DOMAIN bags[n] : \E m \in 1 .. n : bags[n][i] = pairs[m]
                     /\ \A m \in 1 .. n : \E i \in DOMAIN bags[n] : bags[n][i].key = pairs[m].key
           P == {n \in 0 .. N : Has(n)}
<1>3. 0 \in P
  <2>1. DOMAIN bags[0] = {} /\ 1 .. 0 = {} /\ 0 \in 0 .. N
    BY <1>0, <1>1
  <2> QED
    BY <2>1
<1>4. ASSUME NEW n \in 0 .. N, n # 0, n - 1 \in P PROVE n \in P
  <2> DEFINE v == bags[n - 1]
             u == SetIn(v, pairs[n].key, pairs[n].val)
  <2>1. n \in 1 .. N /\ n - 1 \in 0 .. N /\ n \in 1 .. n /\ \A m \in 1 .. n - 1 : m \in 1 .. n
    BY <1>1, <1>4
  <2>2. v \in Seq(KeyValues) /\ IsBaggage(v) /\ DistinctKeys(v)
    BY <2>1 DEF Bags, IsBaggage, DistinctKeys
  <2>3. /\ \A i \in DOMAIN v : \E m \in 1 .. n - 1 : v[i] = pairs[m]
        /\ \A m \in 1 .. n - 1 : \E i \in DOMAIN v : v[i].key = pairs[m].key
    BY <1>4
  <2> HIDE DEF v
  <2>4. /\ pairs[n] \in KeyValues /\ pairs[n].key \in DOMAIN Bytes /\ pairs[n].val \in DOMAIN Bytes
        /\ Entry(pairs[n].key, pairs[n].val) = pairs[n]
    BY <1>1, <2>1 DEF KeyValues, Entry
  <2>5. /\ u \in Seq(KeyValues) /\ DistinctKeys(u)
        /\ \A i \in DOMAIN u : u[i] = pairs[n] \/ (i \in DOMAIN v /\ u[i] = v[i])
        /\ \E i \in DOMAIN u : u[i].key = pairs[n].key
        /\ \A i \in DOMAIN v : i \in DOMAIN u /\ u[i].key = v[i].key
    <3>1. HasSet(u, v, Entry(pairs[n].key, pairs[n].val)) /\ u \in Seq(KeyValues) /\ DistinctKeys(u)
      BY <2>2, <2>4, SetInProperties
    <3> HIDE DEF u
    <3> QED
      BY <2>4, <3>1 DEF HasSet
  <2> HIDE DEF u
  <2>6. ASSUME NEW i \in DOMAIN u PROVE \E m \in 1 .. n : u[i] = pairs[m]
    <3>1. CASE u[i] = pairs[n]
      BY <2>1, <3>1
    <3>2. CASE i \in DOMAIN v /\ u[i] = v[i]
      <4>1. PICK m \in 1 .. n - 1 : v[i] = pairs[m]
        BY <2>3, <3>2
      <4>2. m \in 1 .. n
        BY <2>1
      <4> QED
        BY <3>2, <4>1, <4>2
    <3> QED
      BY <2>5, <3>1, <3>2
  <2>7. ASSUME NEW m \in 1 .. n PROVE \E i \in DOMAIN u : u[i].key = pairs[m].key
    <3>1. CASE m = n
      BY <2>5, <3>1
    <3>2. CASE m \in 1 .. n - 1
      <4>1. PICK i \in DOMAIN v : v[i].key = pairs[m].key
        BY <2>3, <3>2
      <4>2. i \in DOMAIN u /\ u[i].key = v[i].key
        BY <2>5
      <4> QED
        BY <4>1, <4>2
    <3>3. m = n \/ m \in 1 .. n - 1
      BY <2>1
    <3> QED
      BY <3>1, <3>2, <3>3
  <2>8. Size(u, 0) <= Size(b, 0) /\ Size(u, 0) \in Nat
    <3>1. \A i \in DOMAIN u : LoweredFrom(u[i], b)
      <4>1. \A m \in 1 .. n : m \in DOMAIN pairs
        BY <1>1, <2>1
      <4> QED
        BY <2>6, <4>1
    <3> DEFINE at == [i \in DOMAIN u |-> CHOOSE j \in DOMAIN b : u[i] = Entry(Lower[b[j].key], b[j].val)]
    <3>2. \A i \in DOMAIN u : at[i] \in DOMAIN b /\ u[i] = Entry(Lower[b[at[i]].key], b[at[i]].val)
      BY <3>1 DEF LoweredFrom
    <3>3. at \in [DOMAIN u -> DOMAIN b]
      BY <3>2
    <3> HIDE DEF at
    <3>4. \A i, j \in DOMAIN u : at[i] = at[j] => i = j
      BY <2>5, <3>2 DEF DistinctKeys
    <3>5. \A i \in DOMAIN u : /\ Bytes[u[i].key] <= Bytes[b[at[i]].key]
                              /\ Bytes[u[i].val] <= Bytes[b[at[i]].val]
      <4> SUFFICES ASSUME NEW i \in DOMAIN u
                   PROVE  /\ Bytes[u[i].key] <= Bytes[b[at[i]].key]
                          /\ Bytes[u[i].val] <= Bytes[b[at[i]].val]
        OBVIOUS
      <4> DEFINE x == b[at[i]]
      <4>1. x \in KeyValues
        BY <3>2, LenProperties, ElementOfSeq
      <4>2. u[i].key = Lower[x.key] /\ u[i].val = x.val
        BY <3>2 DEF Entry
      <4> HIDE DEF x
      <4>3. x.key \in DOMAIN Bytes /\ x.val \in DOMAIN Bytes
        BY <4>1 DEF KeyValues
      <4>4. Bytes[Lower[x.key]] <= Bytes[x.key] /\ Bytes[x.val] \in Nat
        BY <4>3, PropagationAssumption
      <4>5. Bytes[x.val] <= Bytes[x.val]
        BY <4>4
      <4> QED
        BY <4>2, <4>4, <4>5 DEF x
    <3> QED
      BY <2>5, <3>3, <3>4, <3>5, SizeOfPart
  <2>9. Size(u, 0) <= MaxBytes
    BY <1>2, <2>8
  <2>10. bags[n] = u
    BY <1>0, <2>1, <2>2, <2>4, <2>9, BaggageSetProperties DEF u, v
  <2> QED
    BY <2>6, <2>7, <2>10
<1> HIDE DEF P
<1>5. N \in P
  <2>1. \A k \in 0 .. N : k \in P
    BY <1>1, <1>3, <1>4, InductionUpTo
  <2> QED
    BY <1>1, <2>1
<1>6. bags[N] \in Seq(KeyValues) /\ DistinctKeys(bags[N])
  BY <1>1 DEF Bags, IsBaggage, DistinctKeys
<1>7. Has(N)
  BY <1>5 DEF P
<1> DEFINE r == bags[N]
<1>8. /\ \A i \in DOMAIN r : \E n \in DOMAIN pairs : r[i] = pairs[n]
      /\ \A n \in DOMAIN pairs : \E i \in DOMAIN r : r[i].key = pairs[n].key
  BY <1>1, <1>7
<1>9. CollectBaggage(pairs) = r /\ r \in Seq(KeyValues) /\ DistinctKeys(r)
  BY <1>0, <1>6
<1> HIDE DEF r, Has
<1> QED
  BY <1>8, <1>9

-----------------------------------------------------------------------------
(* Context propagation: Set and Parse of a trace state *)

(* A trace state that Parse answers is within its limits; one that is      *)
(* within them is parsed to what it was.                                   *)
LEMMA ParseProperties ==
    ASSUME NEW parts \in Seq(KeyValues)
    PROVE  /\ ParseTraceState(parts).entries \in Seq(KeyValues)
           /\ IsTraceState(ParseTraceState(parts).entries)
           /\ ParseTraceState(parts).ok \in BOOLEAN
           /\ IsTraceState(parts) => ParseTraceState(parts) = [ok |-> TRUE, entries |-> parts]
<1> DEFINE w == Without(parts, "")
           bad == \/ Len(parts) > MaxEntries
                  \/ \E i \in DOMAIN w : w[i].key = "="
                  \/ StateBytes(w) > MaxBytes
           r == ParseTraceState(parts)
<1>1. /\ w \in Seq(KeyValues) /\ Len(w) <= Len(parts)
      /\ \A i \in DOMAIN w : w[i].key # ""
      /\ (\A i \in DOMAIN parts : parts[i].key # "") => w = parts
  BY WithoutProperties
<1>2. r = IF bad THEN [ok |-> FALSE, entries |-> << >>] ELSE [ok |-> TRUE, entries |-> w]
  BY DEF ParseTraceState
<1>3. MaxEntries \in Nat /\ MaxBytes \in Nat
  BY PropagationAssumption
<1>4. \A s \in Seq(KeyValues) : StateBytes(s) \in Int /\ Len(s) \in Nat
  <2>1. \A s \in Seq(KeyValues) : Size(s, 2) \in Nat /\ Len(s) \in Nat
    BY SizeType, LenProperties
  <2> QED
    BY <2>1 DEF StateBytes
<1> HIDE DEF w, r
<1>5. ASSUME ~bad PROVE IsTraceState(w)
  <2>1. Len(w) <= MaxEntries /\ StateBytes(w) <= MaxBytes
    <3>1. ~(Len(parts) > MaxEntries) /\ ~(StateBytes(w) > MaxBytes)
      BY <1>5
    <3>2. Len(parts) \in Nat /\ Len(w) \in Nat /\ StateBytes(w) \in Int /\ Len(w) <= Len(parts)
      BY <1>1, <1>4
    <3> QED
      BY <1>3, <3>1, <3>2
  <2>2. \A i \in DOMAIN w : w[i].key \notin {"", "="}
    BY <1>1, <1>5
  <2> QED
    BY <2>1, <2>2 DEF IsTraceState
<1>6. ASSUME IsTraceState(parts) PROVE r = [ok |-> TRUE, entries |-> parts]
  <2>1. /\ Len(parts) <= MaxEntries /\ StateBytes(parts) <= MaxBytes
        /\ \A i \in DOMAIN parts : parts[i].key \notin {"", "="}
    BY <1>6 DEF IsTraceState
  <2>2. w = parts
    BY <1>1, <2>1
  <2>3. ~(Len(parts) > MaxEntries) /\ ~(StateBytes(parts) > MaxBytes)
    <3>1. Len(parts) \in Nat /\ StateBytes(parts) \in Int
      BY <1>4
    <3>2. Len(parts) <= MaxEntries /\ StateBytes(parts) <= MaxBytes
      BY <2>1
    <3> QED
      BY <1>3, <3>1, <3>2
  <2>4. ~bad
    BY <2>1, <2>2, <2>3
  <2> HIDE DEF bad
  <2> QED
    BY <1>2, <2>2, <2>4
<1> HIDE DEF bad
<1>7. r.entries \in Seq(KeyValues) /\ IsTraceState(r.entries) /\ r.ok \in BOOLEAN
  <2>1. CASE bad
    BY <1>2, <2>1, EmptyLists
  <2>2. CASE ~bad
    BY <1>1, <1>2, <1>5, <2>2
  <2> QED
    BY <2>1, <2>2
<1> QED
  BY <1>6, <1>7 DEF r

(* A trace state that Set accepts is within its limits.                    *)
LEMMA TraceStateSetProperties ==
    ASSUME NEW s \in Seq(KeyValues), IsTraceState(s), NEW key \in DOMAIN Bytes, NEW val \in DOMAIN Bytes
    PROVE  key \notin {"", "="} /\ TraceStateSet(s, key, val).ok = TRUE =>
              /\ TraceStateSet(s, key, val).entries \in Seq(KeyValues)
              /\ IsTraceState(TraceStateSet(s, key, val).entries)
<1> DEFINE e == Entry(key, val)
           w == Without(s, key)
           new == <<e>> \o w
           bad == Len(new) > MaxEntries \/ StateBytes(new) > MaxBytes
           r == TraceStateSet(s, key, val)
<1>1. w \in Seq(KeyValues) /\ IsTraceState(w)
  BY WithoutProperties
<1>2. e \in KeyValues /\ e.key = key
  BY DEF Entry, KeyValues
<1>3. r = IF bad THEN [ok |-> FALSE, entries |-> << >>] ELSE [ok |-> TRUE, entries |-> new]
  BY DEF TraceStateSet
<1>4. <<e>> \in Seq(KeyValues) /\ Len(<<e>>) = 1 /\ <<e>>[1] = e
  <2> HIDE DEF e
  <2> QED
    BY <1>2
<1> HIDE DEF e, w, r
<1>5. /\ new \in Seq(KeyValues) /\ Len(new) = 1 + Len(w)
      /\ \A i \in 1 .. 1 + Len(w) : new[i] = IF i <= 1 THEN <<e>>[i] ELSE w[i - 1]
  <2> DEFINE one == <<e>>
  <2>1. one \in Seq(KeyValues) /\ Len(one) = 1
    BY <1>4
  <2>2. /\ one \o w \in Seq(KeyValues) /\ Len(one \o w) = Len(one) + Len(w)
        /\ \A i \in 1 .. Len(one) + Len(w) :
              (one \o w)[i] = IF i <= Len(one) THEN one[i] ELSE w[i - Len(one)]
    <3> HIDE DEF one
    <3> QED
      BY <1>1, <2>1, ConcatProperties
  <2> HIDE DEF one
  <2> QED
    BY <2>1, <2>2 DEF one
<1>6. Len(w) \in Nat /\ DOMAIN w = 1 .. Len(w) /\ DOMAIN new = 1 .. 1 + Len(w)
  BY <1>1, <1>5, LenProperties
<1>7. ASSUME r.ok = TRUE PROVE ~bad /\ r.entries = new
  <2> HIDE DEF bad, new
  <2>2. ~bad
    BY <1>3, <1>7
  <2> QED
    BY <1>3, <2>2
<1>8. ASSUME ~bad PROVE Len(new) <= MaxEntries /\ StateBytes(new) <= MaxBytes
  <2>1. MaxEntries \in Nat /\ MaxBytes \in Nat
    BY PropagationAssumption
  <2>2. Size(new, 2) \in Nat /\ Len(new) \in Nat
    BY <1>5, SizeType, LenProperties
  <2> HIDE DEF new
  <2>3. StateBytes(new) \in Int
    BY <2>2 DEF StateBytes
  <2>4. ~(Len(new) > MaxEntries) /\ ~(StateBytes(new) > MaxBytes)
    BY <1>8
  <2> QED
    BY <2>1, <2>2, <2>3, <2>4
<1>9. ASSUME NEW i \in DOMAIN new, key \notin {"", "="} PROVE new[i].key \notin {"", "="}
  <2>4. i \in 1 .. 1 + Len(w)
    BY <1>6, <1>9
  <2>1. new[i] = IF i <= 1 THEN <<e>>[i] ELSE w[i - 1]
    BY <1>5, <2>4
  <2> HIDE DEF new
  <2>2. CASE i = 1
    <3>1. new[i] = e
      BY <1>4, <2>1, <2>2
    <3> QED
      BY <1>2, <1>9, <3>1
  <2>3. CASE i # 1
    <3>1. i - 1 \in DOMAIN w /\ ~(i <= 1)
      BY <1>6, <2>3, <2>4
    <3>2. new[i] = w[i - 1]
      BY <2>1, <3>1
    <3> QED
      BY <1>1, <3>1, <3>2 DEF IsTraceState
  <2> QED
    BY <2>2, <2>3
<1> HIDE DEF new, bad
<1> QED
  BY <1>5, <1>7, <1>8, <1>9 DEF IsTraceState, r

-----------------------------------------------------------------------------
(* Context propagation: Extract *)

(* The four propagators of a composite.                                    *)
Propagators == {"tracecontext", "b3", "jaeger", "baggage"}

(* The contexts a service can hold.                                        *)
SoundSpans == {sc \in SpanContexts : IsTraceState(sc.state) /\ sc.trace.short = FALSE}
Sound == [sc : SoundSpans, bag : Bags]

(* They are those that IsContext describes; the empty one is one of them.  *)
LEMMA SoundContexts ==
    /\ \A c : c \in Sound <=> c \in Contexts /\ IsContext(c)
    /\ Empty \in Sound
<1>1. ASSUME NEW c, c \in Sound PROVE c \in Contexts /\ IsContext(c)
  <2>1. c.sc \in SoundSpans /\ c.bag \in Bags /\ c = [sc |-> c.sc, bag |-> c.bag]
    BY <1>1 DEF Sound
  <2>2. /\ c.sc \in SpanContexts /\ IsTraceState(c.sc.state) /\ c.sc.trace.short = FALSE
        /\ c.bag \in Seq(KeyValues) /\ IsBaggage(c.bag)
    BY <2>1 DEF SoundSpans, Bags
  <2>3. c \in Contexts
    BY <2>1, <2>2 DEF Contexts
  <2>4. IsContext(c)
    BY <2>2 DEF IsContext
  <2> QED
    BY <2>3, <2>4
<1>2. ASSUME NEW c, c \in Contexts, IsContext(c) PROVE c \in Sound
  <2>1. c.sc \in SpanContexts /\ c.bag \in Seq(KeyValues) /\ c = [sc |-> c.sc, bag |-> c.bag]
    BY <1>2 DEF Contexts
  <2>2. IsTraceState(c.sc.state) /\ IsBaggage(c.bag) /\ ~c.sc.trace.short
    BY <1>2 DEF IsContext
  <2>3. c.sc.trace.short \in BOOLEAN
    BY <2>1 DEF SpanContexts, WireIds
  <2>4. c.sc.trace.short = FALSE
    BY <2>2, <2>3
  <2>5. c.sc \in SoundSpans /\ c.bag \in Bags
    BY <2>1, <2>2, <2>4 DEF SoundSpans, Bags
  <2> QED
    BY <2>1, <2>5 DEF Sound
<1>3. Empty \in Sound
  <2>1. NoId \in WireIds /\ NoId.short = FALSE
    BY DEF NoId, WireIds
  <2>2. << >> \in Seq(KeyValues) /\ IsBaggage(<< >>) /\ IsTraceState(<< >>)
    BY EmptyLists
  <2>3. NoContext \in SpanContexts /\ NoContext.state = << >> /\ NoContext.trace = NoId
    BY <2>1, <2>2 DEF NoContext, SpanContexts
  <2>4. NoContext \in SoundSpans /\ << >> \in Bags
    BY <2>1, <2>2, <2>3 DEF SoundSpans, Bags
  <2> QED
    BY <2>4 DEF Empty, Sound
<1> QED
  BY <1>1, <1>2, <1>3

(* Either half of a context may be replaced.                               *)
LEMMA SoundParts ==
    ASSUME NEW c \in Sound
    PROVE  /\ c = [sc |-> c.sc, bag |-> c.bag] /\ c.sc \in SoundSpans /\ c.bag \in Bags
           /\ \A sc \in SoundSpans : [c EXCEPT !.sc = sc] = [sc |-> sc, bag |-> c.bag]
           /\ \A sc \in SoundSpans : [c EXCEPT !.sc = sc] \in Sound
           /\ \A b \in Bags : [c EXCEPT !.bag = b] = [sc |-> c.sc, bag |-> b]
           /\ \A b \in Bags : [c EXCEPT !.bag = b] \in Sound
<1>1. c = [sc |-> c.sc, bag |-> c.bag] /\ c.sc \in SoundSpans /\ c.bag \in Bags
  BY DEF Sound
<1>2. \A sc : [c EXCEPT !.sc = sc] = [sc |-> sc, bag |-> c.bag]
  BY <1>1
<1>3. \A b : [c EXCEPT !.bag = b] = [sc |-> c.sc, bag |-> b]
  BY <1>1
<1>4. \A sc \in SoundSpans, b \in Bags : [sc |-> sc, bag |-> b] \in Sound
  BY DEF Sound
<1> HIDE DEF Sound
<1> QED
  BY <1>1, <1>2, <1>3, <1>4

(* A span context read from a header, with the state s.                    *)
LEMMA RemoteProperties ==
    ASSUME NEW id \in WireIds, id.short = FALSE, NEW span \in Nat, NEW flags \in Nat
    PROVE  /\ Remote(id, span, flags) \in SoundSpans
           /\ \A s \in Seq(KeyValues) : IsTraceState(s) =>
                 [Remote(id, span, flags) EXCEPT !.state = s] \in SoundSpans
           /\ \A s \in Seq(KeyValues) : IsValid([Remote(id, span, flags) EXCEPT !.state = s])
                                       <=> IsValid(Remote(id, span, flags))
<1> DEFINE r == Remote(id, span, flags)
           w(s) == [trace |-> id, span |-> span, flags |-> flags, state |-> s, remote |-> TRUE]
<1>1. r = w(<< >>)
  BY DEF Remote
<1>2. ASSUME NEW s \in Seq(KeyValues) PROVE [r EXCEPT !.state = s] = w(s)
  <2>1. r \in SpanContexts
    BY <1>1, EmptyLists DEF SpanContexts
  <2>2. r.trace = id /\ r.span = span /\ r.flags = flags /\ r.remote = TRUE
    BY <1>1
  <2> HIDE DEF r
  <2>3. [r EXCEPT !.state = s] = [trace |-> r.trace, span |-> r.span, flags |-> r.flags,
                                  state |-> s, remote |-> r.remote]
    BY <2>1 DEF SpanContexts
  <2> QED
    BY <2>2, <2>3
<1>3. ASSUME NEW s \in Seq(KeyValues), IsTraceState(s) PROVE w(s) \in SoundSpans
  BY <1>3 DEF SoundSpans, SpanContexts
<1>4. \A s : IsValid(w(s)) <=> (id.hi # 0 \/ id.lo # 0) /\ span # 0
  BY DEF IsValid
<1> HIDE DEF r, w
<1> QED
  BY <1>1, <1>2, <1>3, <1>4, EmptyLists DEF r

(* Whatever the headers hold, what is collected from them is baggage.      *)
LEMMA CollectType ==
    ASSUME NEW pairs \in Seq(KeyValues)
    PROVE  CollectBaggage(pairs) \in Bags
<1>1. PICK bags \in [0 .. Len(pairs) -> Bags] : CollectBaggage(pairs) = bags[Len(pairs)]
  BY CollectRecursion
<1>2. Len(pairs) \in Nat
  BY LenProperties
<1> QED
  BY <1>1, <1>2

(* The pairs of the Jaeger headers, with the keys the HTTP library leaves. *)
Lowered(ranged) == [i \in DOMAIN ranged |-> Entry(Lower[ranged[i].key], ranged[i].val)]

(* Names in lower case are names.                                          *)
LEMMA LoweredType ==
    ASSUME NEW ranged \in Seq(KeyValues)
    PROVE  Lowered(ranged) \in Seq(KeyValues) /\ DOMAIN Lowered(ranged) = DOMAIN ranged
<1>1. DOMAIN ranged = 1 .. Len(ranged) /\ Len(ranged) \in Nat
  BY LenProperties
<1>2. \A i \in DOMAIN ranged : ranged[i] \in KeyValues
  BY <1>1, ElementOfSeq
<1>3. \A i \in DOMAIN ranged : Entry(Lower[ranged[i].key], ranged[i].val) \in KeyValues
  BY <1>2, PropagationAssumption DEF Entry, KeyValues
<1>4. Lowered(ranged) \in [DOMAIN ranged -> KeyValues]
  BY <1>3 DEF Lowered
<1>5. Lowered(ranged) \in Seq(KeyValues)
  BY <1>1, <1>4, FunctionIsSeq
<1> QED
  BY <1>4, <1>5

(* One propagator reads a header that is well formed, and leaves the       *)
(* context alone otherwise; what it reads can be sent on.                  *)
LEMMA TracecontextExtracts ==
    ASSUME NEW c \in Sound, NEW h \in Headers
    PROVE  /\ TracecontextExtract(c, h) \in Sound
           /\ Readable("tracecontext", h) => IsValid(TracecontextExtract(c, h).sc)
           /\ ~Readable("tracecontext", h) => TracecontextExtract(c, h).sc = c.sc
<1> DEFINE tp == h.traceparent[1]
           sc == parseTraceparent(tp)
           ts == ParseTraceState(h.tracestate)
           read == IF ts.ok THEN [sc EXCEPT !.state = ts.entries] ELSE sc
<1>1. TracecontextExtract(c, h) = IF h.traceparent = << >> \/ ~IsValid(sc) THEN c ELSE [c EXCEPT !.sc = read]
  BY DEF TracecontextExtract
<1>2. Readable("tracecontext", h) <=> h.traceparent # << >> /\ IsValid(sc)
  BY DEF Readable
<1>3. h.traceparent \in Seq(Flagged) /\ h.tracestate \in Seq(KeyValues)
  BY DEF Headers
<1>4. CASE h.traceparent = << >> \/ ~IsValid(sc)
  <2> HIDE DEF sc, read
  <2> QED
    BY <1>1, <1>2, <1>4
<1>5. CASE h.traceparent # << >> /\ IsValid(sc)
  <2>1. tp \in Flagged
    <3>1. Len(h.traceparent) # 0 /\ Len(h.traceparent) \in Nat
      BY <1>3, <1>5, EmptySeq, LenProperties
    <3>2. 1 \in 1 .. Len(h.traceparent)
      BY <3>1
    <3> QED
      BY <1>3, <3>2, ElementOfSeq
  <2>2. tp.trace \in WireIds /\ tp.span \in Nat /\ tp.flags \in Nat
    BY <2>1 DEF Flagged
  <2>3. tp.trace.short \in BOOLEAN
    BY <2>2 DEF WireIds
  <2>4. ~IsValid(NoContext)
    BY DEF NoContext, NoId, IsValid
  <2>5. tp.trace.short = FALSE /\ sc = Remote(tp.trace, tp.span, tp.flags)
    BY <1>5, <2>3, <2>4 DEF parseTraceparent
  <2> HIDE DEF tp, sc
  <2>6. ts.entries \in Seq(KeyValues) /\ IsTraceState(ts.entries) /\ ts.ok \in BOOLEAN
    BY <1>3, ParseProperties
  <2> HIDE DEF ts
  <2>7. read \in SoundSpans /\ (IsValid(read) <=> IsValid(sc))
    BY <2>2, <2>5, <2>6, RemoteProperties
  <2> HIDE DEF read
  <2>8. TracecontextExtract(c, h) = [c EXCEPT !.sc = read]
    BY <1>1, <1>5
  <2>9. TracecontextExtract(c, h) \in Sound /\ TracecontextExtract(c, h).sc = read
    BY <2>7, <2>8, SoundParts
  <2> QED
    BY <1>2, <1>5, <2>7, <2>9
<1> QED
  BY <1>4, <1>5

(* An id of 16 digits is padded, one of 32 stays.                          *)
LEMMA PaddedProperties ==
    ASSUME NEW id \in WireIds
    PROVE  /\ Padded(id) \in WireIds /\ Padded(id).short = FALSE
           /\ Padded(id).hi = id.hi /\ Padded(id).lo = id.lo
           /\ id.short = FALSE => Padded(id) = id
<1>1. \A b \in BOOLEAN : [id EXCEPT !.short = b] = [hi |-> id.hi, lo |-> id.lo, short |-> b]
  BY DEF WireIds
<1>2. Padded(id) = [hi |-> id.hi, lo |-> id.lo, short |-> FALSE]
  BY <1>1 DEF Padded
<1>3. id = [hi |-> id.hi, lo |-> id.lo, short |-> id.short] /\ id.hi \in Nat /\ id.lo \in Nat
  BY DEF WireIds
<1>4. Padded(id) \in WireIds
  BY <1>2, <1>3 DEF WireIds
<1>5. id.short = FALSE => Padded(id) = id
  BY <1>2, <1>3
<1> QED
  BY <1>2, <1>4, <1>5

(* The same of B3, with its single and its multiple headers.               *)
LEMMA B3Extracts ==
    ASSUME NEW c \in Sound, NEW h \in Headers
    PROVE  /\ B3Extract(c, h) \in Sound
           /\ Readable("b3", h) => IsValid(B3Extract(c, h).sc)
           /\ ~Readable("b3", h) => B3Extract(c, h).sc = c.sc
<1> DEFINE one == h.b3 # << >> /\ IsValid(parseB3(h.b3[1]))
           many == h.multi # << >> /\ IsValid(parseB3(h.multi[1]))
           first == parseB3(h.b3[1])
           other == parseB3(h.multi[1])
<1>1. B3Extract(c, h) = IF one THEN [c EXCEPT !.sc = first]
                        ELSE IF many THEN [c EXCEPT !.sc = other] ELSE c
  BY DEF B3Extract
<1>2. Readable("b3", h) <=> one \/ many
  BY DEF Readable
<1>3. h.b3 \in Seq(B3Headers) /\ h.multi \in Seq(B3Headers)
  BY DEF Headers
<1>4. ASSUME NEW x \in B3Headers PROVE parseB3(x) \in SoundSpans
  <2>1. x.trace \in WireIds /\ x.span \in Nat /\ Digit(x.sampled = 1) \in Nat
    BY DEF B3Headers, Digit
  <2>2. Padded(x.trace) \in WireIds /\ Padded(x.trace).short = FALSE
    BY <2>1, PaddedProperties
  <2> QED
    BY <2>1, <2>2, RemoteProperties DEF parseB3
<1>5. (one => first \in SoundSpans /\ IsValid(first)) /\ (many => other \in SoundSpans /\ IsValid(other))
  BY <1>3, <1>4, FirstOfSeq
<1> HIDE DEF one, many, first, other
<1>6. \A sc \in SoundSpans : [c EXCEPT !.sc = sc] \in Sound /\ [c EXCEPT !.sc = sc].sc = sc
  BY SoundParts
<1>7. CASE one
  BY <1>1, <1>2, <1>5, <1>6, <1>7
<1>8. CASE ~one /\ many
  BY <1>1, <1>2, <1>5, <1>6, <1>8
<1>9. CASE ~one /\ ~many
  BY <1>1, <1>2, <1>9
<1> QED
  BY <1>7, <1>8, <1>9

(* The same of Jaeger, whose baggage may come in any order.                *)
LEMMA JaegerExtracts ==
    ASSUME NEW c \in Sound, NEW h \in Headers, NEW ranged \in Seq(KeyValues)
    PROVE  /\ JaegerExtract(c, h, ranged) \in Sound
           /\ Readable("jaeger", h) => IsValid(JaegerExtract(c, h, ranged).sc)
           /\ ~Readable("jaeger", h) => JaegerExtract(c, h, ranged).sc = c.sc
<1> DEFINE sc == parseJaegerHeader(h.uber[1])
           bag == CollectBaggage(Lowered(ranged))
           new == IF bag # << >> THEN bag ELSE c.bag
<1>1. JaegerExtract(c, h, ranged) = IF h.uber = << >> \/ ~IsValid(sc) THEN c ELSE [sc |-> sc, bag |-> new]
  BY DEF JaegerExtract, Lowered
<1>2. Readable("jaeger", h) <=> h.uber # << >> /\ IsValid(sc)
  BY DEF Readable
<1>3. bag \in Bags
  BY LoweredType, CollectType
<1>4. h.uber \in Seq(Flagged)
  BY DEF Headers
<1>5. h.uber # << >> => sc \in SoundSpans
  <2> SUFFICES ASSUME h.uber # << >> PROVE sc \in SoundSpans
    OBVIOUS
  <2> DEFINE x == h.uber[1]
  <2>1. x \in Flagged
    BY <1>4, FirstOfSeq
  <2> HIDE DEF x
  <2>2. x.trace \in WireIds /\ x.span \in Nat /\ Digit(x.flags \in {1, 3}) \in Nat
    BY <2>1 DEF Flagged, Digit
  <2>3. Padded(x.trace) \in WireIds /\ Padded(x.trace).short = FALSE
    BY <2>2, PaddedProperties
  <2>4. parseJaegerHeader(x) \in SoundSpans
    BY <2>2, <2>3, RemoteProperties DEF parseJaegerHeader
  <2> QED
    BY <2>4 DEF x
<1>6. new \in Bags
  BY <1>3, SoundParts
<1> HIDE DEF sc, new
<1>7. \A s \in SoundSpans, b \in Bags : [sc |-> s, bag |-> b] \in Sound
  BY DEF Sound
<1>8. CASE h.uber = << >> \/ ~IsValid(sc)
  BY <1>1, <1>2, <1>8
<1>9. CASE h.uber # << >> /\ IsValid(sc)
  BY <1>1, <1>2, <1>5, <1>6, <1>7, <1>9
<1> QED
  BY <1>8, <1>9

(* The baggage header leaves the span context alone.                       *)
LEMMA BaggageExtracts ==
    ASSUME NEW c \in Sound, NEW h \in Headers
    PROVE  BaggageExtract(c, h) \in Sound /\ BaggageExtract(c, h).sc = c.sc
<1> DEFINE bag == CollectBaggage(Without(h.baggage, ""))
<1>1. h.baggage \in Seq(KeyValues)
  BY DEF Headers
<1>2. Without(h.baggage, "") \in Seq(KeyValues)
  BY <1>1, WithoutProperties
<1>3. bag \in Bags
  BY <1>2, CollectType
<1>4. BaggageExtract(c, h) = IF bag = << >> THEN c ELSE [c EXCEPT !.bag = bag]
  BY DEF BaggageExtract
<1> HIDE DEF bag
<1>5. [c EXCEPT !.bag = bag] \in Sound /\ [c EXCEPT !.bag = bag].sc = c.sc
  BY <1>3, SoundParts
<1> QED
  BY <1>4, <1>5

(* The same of any propagator of a composite.                              *)
LEMMA ExtractOneProperties ==
    ASSUME NEW p \in Propagators, NEW c \in Sound, NEW h \in Headers, NEW ranged \in Seq(KeyValues)
    PROVE  /\ ExtractOne(p, c, h, ranged) \in Sound
           /\ Readable(p, h) => IsValid(ExtractOne(p, c, h, ranged).sc)
           /\ ~Readable(p, h) => ExtractOne(p, c, h, ranged).sc = c.sc
<1>1. CASE p = "tracecontext"
  BY <1>1, TracecontextExtracts DEF ExtractOne
<1>2. CASE p = "b3"
  BY <1>2, B3Extracts DEF ExtractOne
<1>3. CASE p = "jaeger"
  BY <1>3, JaegerExtracts DEF ExtractOne
<1>4. CASE p = "baggage"
  <2>1. ExtractOne(p, c, h, ranged) = BaggageExtract(c, h) /\ ~Readable(p, h)
    BY <1>4 DEF ExtractOne, Readable
  <2> QED
    BY <2>1, BaggageExtracts
<1> QED
  BY <1>1, <1>2, <1>3, <1>4 DEF Propagators

(* The context is passed on from propagator to propagator.                 *)
LEMMA ExtractRecursion ==
    ASSUME NEW ps \in Seq(Propagators), NEW h \in Headers, NEW ranged \in Seq(KeyValues)
    PROVE  \E ctxs \in [0 .. Len(ps) -> Sound] :
              /\ Extract(ps, Empty, h, ranged) = ctxs[Len(ps)] /\ ctxs[0] = Empty
              /\ \A n \in 1 .. Len(ps) : ctxs[n] = ExtractOne(ps[n], ctxs[n - 1], h, ranged)
<1> DEFINE N == Len(ps)
           Eq(g) == g = [n \in 0 .. N |-> IF n = 0 THEN Empty ELSE ExtractOne(ps[n], g[n - 1], h, ranged)]
           ctxs == CHOOSE g : Eq(g)
           V == Sound
           e == Empty
           step == [n \in 1 .. N |-> [v \in V |-> ExtractOne(ps[n], v, h, ranged)]]
<1>1. N \in Nat
  BY LenProperties
<1>2. Extract(ps, Empty, h, ranged) = ctxs[N]
  BY DEF Extract
<1>3. \A n \in 1 .. N, v \in V : ExtractOne(ps[n], v, h, ranged) \in V
  <2>1. \A n \in 1 .. N : ps[n] \in Propagators
    BY ElementOfSeq
  <2> HIDE DEF N
  <2> QED
    BY <2>1, ExtractOneProperties
<1>4. e \in V
  BY SoundContexts
<1> HIDE DEF N
<1>5. /\ step \in [1 .. N -> [V -> V]]
      /\ \A n \in 1 .. N, v \in V : step[n][v] = ExtractOne(ps[n], v, h, ranged)
  BY <1>3
<1> HIDE DEF step, V, e
<1>6. PICK f \in [0 .. N -> V] : Follows(f, N, e, step)
  BY <1>1, <1>4, <1>5, RecursionUpTo
<1>7. \A k \in 1 .. N : f[k] = ExtractOne(ps[k], f[k - 1], h, ranged)
  <2>1. \A k \in 1 .. N : k - 1 \in 0 .. N /\ f[k - 1] \in V
    BY <1>1
  <2> QED
    BY <1>5, <1>6, <2>1 DEF Follows
<1>8. Eq(f)
  <2>1. \A n \in 0 .. N : n = 0 \/ n \in 1 .. N
    BY <1>1
  <2>2. \A n \in 0 .. N : f[n] = IF n = 0 THEN e ELSE ExtractOne(ps[n], f[n - 1], h, ranged)
    BY ZenonT(30), <1>6, <1>7, <2>1 DEF Follows
  <2>3. f = [n \in 0 .. N |-> f[n]]
    OBVIOUS
  <2> QED
    BY <2>2, <2>3 DEF e
<1>9. Eq(ctxs)
  BY ZenonT(30), <1>8
<1> HIDE DEF ctxs
<1>10. /\ ctxs = [n \in 0 .. N |-> ctxs[n]]
       /\ \A n \in 0 .. N : ctxs[n] = IF n = 0 THEN e ELSE ExtractOne(ps[n], ctxs[n - 1], h, ranged)
  BY <1>9 DEF e
<1> HIDE DEF Eq
<1>11. /\ ctxs[0] = e
       /\ \A n \in 1 .. N : ctxs[n] = ExtractOne(ps[n], ctxs[n - 1], h, ranged)
  <2>1. 0 \in 0 .. N /\ \A n \in 1 .. N : n \in 0 .. N /\ n # 0
    BY <1>1
  <2> QED
    BY <1>10, <2>1
<1>12. \A n \in 0 .. N : ctxs[n] \in V
  BY <1>1, <1>3, <1>4, <1>11, RoundsStay
<1>13. ctxs \in [0 .. N -> V]
  BY <1>10, <1>12
<1> QED
  BY <1>2, <1>11, <1>13 DEF N, V, e

(* The reader ends with a valid context exactly when one of its            *)
(* propagators finds one.                                                  *)
LEMMA ExtractsReadable ==
    ASSUME NEW ps \in Seq(Propagators), NEW h \in Headers, NEW ranged \in Seq(KeyValues)
    PROVE  /\ Extract(ps, Empty, h, ranged) \in Sound
           /\ IsValid(Extract(ps, Empty, h, ranged).sc) <=> \E p \in Range(ps) : Readable(p, h)
<1> DEFINE N == Len(ps)
<1>0. PICK ctxs \in [0 .. N -> Sound] :
          /\ Extract(ps, Empty, h, ranged) = ctxs[N] /\ ctxs[0] = Empty
          /\ \A n \in 1 .. N : ctxs[n] = ExtractOne(ps[n], ctxs[n - 1], h, ranged)
  BY ExtractRecursion
<1>1. N \in Nat /\ DOMAIN ps = 1 .. N /\ \A n \in 1 .. N : ps[n] \in Propagators
  BY LenProperties, ElementOfSeq
<1> HIDE DEF N
<1> DEFINE Found(n) == \E i \in 1 .. n : Readable(ps[i], h)
           P == {n \in 0 .. N : IsValid(ctxs[n].sc) <=> Found(n)}
<1>2. 0 \in P
  <2>1. ~IsValid(Empty.sc)
    BY DEF Empty, NoContext, NoId, IsValid
  <2>2. ~Found(0) /\ 0 \in 0 .. N
    BY <1>1
  <2> HIDE DEF Found
  <2> QED
    BY <1>0, <2>1, <2>2
<1>3. ASSUME NEW n \in 0 .. N, n # 0, n - 1 \in P PROVE n \in P
  <2>1. /\ n \in 1 .. N /\ n - 1 \in 0 .. N /\ n \in 1 .. n
        /\ \A i \in 1 .. n : i = n \/ i \in 1 .. n - 1
        /\ \A i \in 1 .. n - 1 : i \in 1 .. n
    BY <1>1, <1>3
  <2>2. ps[n] \in Propagators /\ ctxs[n - 1] \in Sound /\ ctxs[n] = ExtractOne(ps[n], ctxs[n - 1], h, ranged)
    BY <1>0, <1>1, <2>1
  <2>3. /\ Readable(ps[n], h) => IsValid(ctxs[n].sc)
        /\ ~Readable(ps[n], h) => ctxs[n].sc = ctxs[n - 1].sc
    BY <2>2, ExtractOneProperties
  <2>4. IsValid(ctxs[n - 1].sc) <=> Found(n - 1)
    BY <1>3
  <2>5. Found(n) <=> Readable(ps[n], h) \/ Found(n - 1)
    BY <2>1
  <2> HIDE DEF Found
  <2>6. CASE Readable(ps[n], h)
    BY <2>3, <2>5, <2>6
  <2>7. CASE ~Readable(ps[n], h)
    BY <2>3, <2>4, <2>5, <2>7
  <2> QED
    BY <2>6, <2>7
<1> HIDE DEF P
<1>4. N \in P
  <2>1. \A k \in 0 .. N : k \in P
    BY <1>1, <1>2, <1>3, InductionUpTo
  <2> QED
    BY <1>1, <2>1
<1>5. IsValid(ctxs[N].sc) <=> Found(N)
  BY <1>4 DEF P
<1>6. Found(N) <=> \E p \in Range(ps) : Readable(p, h)
  BY <1>1 DEF Range
<1>7. ctxs[N] \in Sound
  BY <1>1
<1> HIDE DEF Found
<1> QED
  BY <1>0, <1>5, <1>6, <1>7

-----------------------------------------------------------------------------
(* Context propagation: Inject *)

(* The headers of a request whose propagators, S, all sent c.              *)
HeadersOf(c, S) ==
    LET sc      == c.sc
        Sent(p) == p \in S /\ IsValid(sc)
    IN  [traceparent |-> IF Sent("tracecontext")
                         THEN <<[trace |-> sc.trace, span |-> sc.span, flags |-> sc.flags]>> ELSE << >>,
         tracestate |-> IF Sent("tracecontext") THEN sc.state ELSE << >>,
         b3 |-> IF Sent("b3")
                THEN <<[trace |-> sc.trace, span |-> sc.span, sampled |-> Digit(IsSampled(sc))]>> ELSE << >>,
         multi |-> << >>,
         uber |-> IF Sent("jaeger")
                  THEN <<[trace |-> sc.trace, span |-> sc.span,
                          flags |-> IF IsDebug(sc) THEN 3 ELSE Digit(IsSampled(sc))]>> ELSE << >>,
         uberctx |-> IF Sent("jaeger") THEN Range(c.bag) ELSE {},
         baggage |-> IF "baggage" \in S THEN c.bag ELSE << >>]

(* They are headers; those of no propagator are empty.                     *)
LEMMA HeadersOfType ==
    ASSUME NEW c \in Sound, NEW S
    PROVE  /\ HeadersOf(c, S) \in Headers /\ IsFiniteSet(HeadersOf(c, S).uberctx)
           /\ HeadersOf(c, {}) = NoHeaders
<1> DEFINE sc == c.sc
           b == c.bag
           tp == [trace |-> sc.trace, span |-> sc.span, flags |-> sc.flags]
           b3 == [trace |-> sc.trace, span |-> sc.span, sampled |-> Digit(IsSampled(sc))]
           ub == [trace |-> sc.trace, span |-> sc.span,
                  flags |-> IF IsDebug(sc) THEN 3 ELSE Digit(IsSampled(sc))]
<1>1. sc \in SpanContexts /\ b \in Seq(KeyValues)
  BY DEF Sound, SoundSpans, Bags
<1>2. sc.trace \in WireIds /\ sc.span \in Nat /\ sc.flags \in Nat /\ sc.state \in Seq(KeyValues)
  BY <1>1 DEF SpanContexts
<1>3. Digit(IsSampled(sc)) \in Nat
  BY DEF Digit
<1>4. tp \in Flagged /\ b3 \in B3Headers /\ ub \in Flagged
  BY <1>2, <1>3 DEF Flagged, B3Headers
<1>5. Range(b) \in SUBSET KeyValues /\ IsFiniteSet(Range(b))
  <2>1. DOMAIN b = 1 .. Len(b) /\ Len(b) \in Nat
    BY <1>1, LenProperties
  <2>2. \A i \in DOMAIN b : b[i] \in KeyValues
    BY <1>1, <2>1, ElementOfSeq
  <2>3. Range(b) \in SUBSET KeyValues
    BY <2>2 DEF Range
  <2>4. IsFiniteSet(1 .. Len(b))
    BY <2>1, CountPlaces
  <2>5. b \in Surjection(1 .. Len(b), Range(b))
    <3>1. b \in [1 .. Len(b) -> Range(b)]
      BY <1>1, <2>1 DEF Range
    <3> QED
      BY <2>1, <3>1 DEF Surjection, Range
  <2> QED
    BY <2>3, <2>4, <2>5, FS_Surjection
<1>6. IsFiniteSet({})
  BY FS_EmptySet
<1>7. HeadersOf(c, {}) = NoHeaders
  BY DEF HeadersOf, NoHeaders
<1>8. HeadersOf(c, S).uberctx = IF "jaeger" \in S /\ IsValid(sc) THEN Range(b) ELSE {}
  BY DEF HeadersOf
<1>9. <<tp>> \in Seq(Flagged) /\ <<b3>> \in Seq(B3Headers) /\ <<ub>> \in Seq(Flagged)
  <2> HIDE DEF tp, b3, ub
  <2> QED
    BY <1>4
<1>10. HeadersOf(c, S) \in Headers
  <2>1. HeadersOf(c, S) =
         [traceparent |-> IF "tracecontext" \in S /\ IsValid(sc) THEN <<tp>> ELSE << >>,
          tracestate |-> IF "tracecontext" \in S /\ IsValid(sc) THEN sc.state ELSE << >>,
          b3 |-> IF "b3" \in S /\ IsValid(sc) THEN <<b3>> ELSE << >>,
          multi |-> << >>,
          uber |-> IF "jaeger" \in S /\ IsValid(sc) THEN <<ub>> ELSE << >>,
          uberctx |-> IF "jaeger" \in S /\ IsValid(sc) THEN Range(b) ELSE {},
          baggage |-> IF "baggage" \in S THEN b ELSE << >>]
    BY DEF HeadersOf
  <2> HIDE DEF tp, b3, ub, b, sc
  <2> QED
    BY <1>1, <1>2, <1>5, <1>9, <2>1 DEF Headers
<1> HIDE DEF sc, b
<1> QED
  BY <1>5, <1>6, <1>7, <1>8, <1>10

(* A propagator that has sent c adds its own headers only.                 *)
LEMMA InjectOneProperties ==
    ASSUME NEW c \in Sound, NEW S, NEW p \in Propagators
    PROVE  InjectOne(p, c, HeadersOf(c, S)) = HeadersOf(c, S \cup {p})
<1> DEFINE sc == c.sc
           b == c.bag
           h == HeadersOf(c, S)
           g == HeadersOf(c, S \cup {p})
           tp == <<[trace |-> sc.trace, span |-> sc.span, flags |-> sc.flags]>>
           b3 == <<[trace |-> sc.trace, span |-> sc.span, sampled |-> Digit(IsSampled(sc))]>>
           ub == <<[trace |-> sc.trace, span |-> sc.span,
                    flags |-> IF IsDebug(sc) THEN 3 ELSE Digit(IsSampled(sc))]>>
           Hs(f1, f2, f3, f4, f5, f6, f7) ==
               [traceparent |-> f1, tracestate |-> f2, b3 |-> f3, multi |-> f4, uber |-> f5, uberctx |-> f6,
                baggage |-> f7]
           Full(T) == [traceparent |-> IF "tracecontext" \in T /\ IsValid(sc) THEN tp ELSE << >>,
                       tracestate |-> IF "tracecontext" \in T /\ IsValid(sc) THEN sc.state ELSE << >>,
                       b3 |-> IF "b3" \in T /\ IsValid(sc) THEN b3 ELSE << >>,
                       multi |-> << >>,
                       uber |-> IF "jaeger" \in T /\ IsValid(sc) THEN ub ELSE << >>,
                       uberctx |-> IF "jaeger" \in T /\ IsValid(sc) THEN Range(b) ELSE {},
                       baggage |-> IF "baggage" \in T THEN b ELSE << >>]
<1>1. h = Full(S) /\ g = Full(S \cup {p})
  BY DEF HeadersOf
<1>2. h \in Headers
  BY HeadersOfType
<1> SUFFICES InjectOne(p, c, h) = g
  OBVIOUS
<1> HIDE DEF h, g, tp, b3, ub
<1>3. CASE p = "tracecontext"
  <2>1. InjectOne(p, c, h) = IF ~IsValid(sc) THEN h
          ELSE [h EXCEPT !.traceparent = tp, !.tracestate = IF sc.state # << >> THEN sc.state ELSE @]
    BY <1>3 DEF InjectOne, TracecontextInject, tp
  <2> HIDE DEF sc, b
  <2>2. CASE ~IsValid(sc)
    BY <1>1, <1>3, <2>1, <2>2
  <2>3. CASE IsValid(sc)
    <3> DEFINE t == IF sc.state # << >> THEN sc.state ELSE h.tracestate
    <3>1. InjectOne(p, c, h) = Hs(tp, t, h.b3, h.multi, h.uber, h.uberctx, h.baggage)
      BY <1>2, <2>1, <2>3 DEF Headers
    <3>2. t = sc.state
      BY <1>1
    <3>3. h.b3 = g.b3 /\ h.multi = g.multi /\ h.uber = g.uber /\ h.uberctx = g.uberctx /\ h.baggage = g.baggage
      BY <1>1, <1>3
    <3>4. g.traceparent = tp /\ g.tracestate = sc.state
      BY <1>1, <1>3, <2>3
    <3>5. g = Hs(g.traceparent, g.tracestate, g.b3, g.multi, g.uber, g.uberctx, g.baggage)
      BY <1>1
    <3> HIDE DEF Full, t
    <3> QED
      BY <3>1, <3>2, <3>3, <3>4, <3>5
  <2> QED
    BY <2>2, <2>3
<1>4. CASE p = "b3"
  <2>1. InjectOne(p, c, h) = IF ~IsValid(sc) THEN h ELSE [h EXCEPT !.b3 = b3]
    BY <1>4 DEF InjectOne, B3Inject, b3
  <2> HIDE DEF sc, b
  <2>2. CASE ~IsValid(sc)
    BY <1>1, <1>4, <2>1, <2>2
  <2>3. CASE IsValid(sc)
    <3>1. InjectOne(p, c, h) = Hs(h.traceparent, h.tracestate, b3, h.multi, h.uber, h.uberctx, h.baggage)
      BY <1>2, <2>1, <2>3 DEF Headers
    <3>3. /\ h.traceparent = g.traceparent /\ h.tracestate = g.tracestate /\ h.multi = g.multi
          /\ h.uber = g.uber /\ h.uberctx = g.uberctx /\ h.baggage = g.baggage
      BY <1>1, <1>4
    <3>4. g.b3 = b3
      BY <1>1, <1>4, <2>3
    <3>5. g = Hs(g.traceparent, g.tracestate, g.b3, g.multi, g.uber, g.uberctx, g.baggage)
      BY <1>1
    <3> HIDE DEF Full
    <3> QED
      BY <3>1, <3>3, <3>4, <3>5
  <2> QED
    BY <2>2, <2>3
<1>5. CASE p = "jaeger"
  <2> DEFINE stay == {e \in h.uberctx : \A i \in DOMAIN b : b[i].key # e.key}
             u == stay \cup Range(b)
  <2>1. InjectOne(p, c, h) = IF ~IsValid(sc) THEN h ELSE [h EXCEPT !.uber = ub, !.uberctx = u]
    BY <1>5 DEF InjectOne, JaegerInject, ub
  <2>4. u = Range(b)
    <3>1. h.uberctx \subseteq Range(b)
      BY <1>1
    <3>2. stay \subseteq Range(b)
      BY <3>1
    <3> QED
      BY <3>2
  <2> HIDE DEF sc, b, u
  <2>2. CASE ~IsValid(sc)
    BY <1>1, <1>5, <2>1, <2>2
  <2>3. CASE IsValid(sc)
    <3>1. InjectOne(p, c, h) = Hs(h.traceparent, h.tracestate, h.b3, h.multi, ub, u, h.baggage)
      BY <1>2, <2>1, <2>3 DEF Headers
    <3>3. /\ h.traceparent = g.traceparent /\ h.tracestate = g.tracestate /\ h.multi = g.multi
          /\ h.b3 = g.b3 /\ h.baggage = g.baggage
      BY <1>1, <1>5
    <3>4. g.uber = ub /\ g.uberctx = Range(b)
      BY <1>1, <1>5, <2>3
    <3>5. g = Hs(g.traceparent, g.tracestate, g.b3, g.multi, g.uber, g.uberctx, g.baggage)
      BY <1>1
    <3> HIDE DEF Full
    <3> QED
      BY <2>4, <3>1, <3>3, <3>4, <3>5
  <2> QED
    BY <2>2, <2>3
<1>6. CASE p = "baggage"
  <2>1. InjectOne(p, c, h) = IF b = << >> THEN h ELSE [h EXCEPT !.baggage = b]
    BY <1>6 DEF InjectOne, BaggageInject
  <2> HIDE DEF sc, b
  <2>2. /\ h.traceparent = g.traceparent /\ h.tracestate = g.tracestate /\ h.multi = g.multi
        /\ h.b3 = g.b3 /\ h.uber = g.uber /\ h.uberctx = g.uberctx /\ g.baggage = b
    BY <1>1, <1>6
  <2>3. h.baggage = b \/ h.baggage = << >>
    BY <1>1
  <2>4. g = Hs(g.traceparent, g.tracestate, g.b3, g.multi, g.uber, g.uberctx, g.baggage)
    BY <1>1
  <2>5. h = Hs(h.traceparent, h.tracestate, h.b3, h.multi, h.uber, h.uberctx, h.baggage)
    BY <1>1
  <2> HIDE DEF Full
  <2>6. CASE b = << >>
    BY <2>1, <2>2, <2>3, <2>4, <2>5, <2>6
  <2>7. CASE b # << >>
    <3>1. InjectOne(p, c, h) = Hs(h.traceparent, h.tracestate, h.b3, h.multi, h.uber, h.uberctx, b)
      BY <1>2, <2>1, <2>7 DEF Headers
    <3> QED
      BY <2>2, <2>4, <3>1
  <2> QED
    BY <2>6, <2>7
<1> QED
  BY <1>3, <1>4, <1>5, <1>6 DEF Propagators, h, g

(* The headers of c while a composite injects.                             *)
OwnHeaders(c) == {HeadersOf(c, T) : T \in SUBSET Propagators}

(* Every propagator adds to the headers of those before it.                *)
LEMMA InjectRecursion ==
    ASSUME NEW ps \in Seq(Propagators), NEW c \in Sound
    PROVE  \E headers \in [0 .. Len(ps) -> OwnHeaders(c)] :
              /\ Inject(ps, c, NoHeaders) = headers[Len(ps)] /\ headers[0] = NoHeaders
              /\ \A n \in 1 .. Len(ps) : headers[n] = InjectOne(ps[n], c, headers[n - 1])
<1> DEFINE N == Len(ps)
           Eq(g) == g = [n \in 0 .. N |-> IF n = 0 THEN NoHeaders ELSE InjectOne(ps[n], c, g[n - 1])]
           headers == CHOOSE g : Eq(g)
           V == OwnHeaders(c)
           e == NoHeaders
           step == [n \in 1 .. N |-> [v \in V |-> InjectOne(ps[n], c, v)]]
<1>1. N \in Nat
  BY LenProperties
<1>2. Inject(ps, c, NoHeaders) = headers[N]
  BY DEF Inject
<1>3. \A n \in 1 .. N, v \in V : InjectOne(ps[n], c, v) \in V
  <2>1. \A n \in 1 .. N : ps[n] \in Propagators
    BY ElementOfSeq
  <2> HIDE DEF N
  <2>2. ASSUME NEW n \in 1 .. N, NEW v \in V PROVE InjectOne(ps[n], c, v) \in V
    <3>1. PICK T \in SUBSET Propagators : v = HeadersOf(c, T)
      BY DEF OwnHeaders
    <3>2. ps[n] \in Propagators /\ T \cup {ps[n]} \in SUBSET Propagators
      BY <2>1
    <3>3. InjectOne(ps[n], c, v) = HeadersOf(c, T \cup {ps[n]})
      BY <3>1, <3>2, InjectOneProperties
    <3> QED
      BY <3>2, <3>3 DEF OwnHeaders
  <2> QED
    BY <2>2
<1>4. e \in V
  <2>1. HeadersOf(c, {}) = NoHeaders
    BY HeadersOfType
  <2> QED
    BY <2>1 DEF OwnHeaders
<1> HIDE DEF N
<1>5. step \in [1 .. N -> [V -> V]] /\ \A n \in 1 .. N, v \in V : step[n][v] = InjectOne(ps[n], c, v)
  BY <1>3
<1> HIDE DEF step, V, e
<1>6. PICK f \in [0 .. N -> V] : Follows(f, N, e, step)
  BY <1>1, <1>4, <1>5, RecursionUpTo
<1>7. \A k \in 1 .. N : f[k] = InjectOne(ps[k], c, f[k - 1])
  <2>1. \A k \in 1 .. N : k - 1 \in 0 .. N /\ f[k - 1] \in V
    BY <1>1
  <2> QED
    BY <1>5, <1>6, <2>1 DEF Follows
<1>8. Eq(f)
  <2>1. \A n \in 0 .. N : n = 0 \/ n \in 1 .. N
    BY <1>1
  <2>2. \A n \in 0 .. N : f[n] = IF n = 0 THEN e ELSE InjectOne(ps[n], c, f[n - 1])
    BY ZenonT(30), <1>6, <1>7, <2>1 DEF Follows
  <2>3. f = [n \in 0 .. N |-> f[n]]
    OBVIOUS
  <2> QED
    BY <2>2, <2>3 DEF e
<1>9. Eq(headers)
  BY ZenonT(30), <1>8
<1> HIDE DEF headers
<1>10. /\ headers = [n \in 0 .. N |-> headers[n]]
       /\ \A n \in 0 .. N : headers[n] = IF n = 0 THEN e ELSE InjectOne(ps[n], c, headers[n - 1])
  BY <1>9 DEF e
<1> HIDE DEF Eq
<1>11. /\ headers[0] = e
       /\ \A n \in 1 .. N : headers[n] = InjectOne(ps[n], c, headers[n - 1])
  <2>1. 0 \in 0 .. N /\ \A n \in 1 .. N : n \in 0 .. N /\ n # 0
    BY <1>1
  <2> QED
    BY <1>10, <2>1
<1>12. \A n \in 0 .. N : headers[n] \in V
  BY <1>1, <1>3, <1>4, <1>11, RoundsStay
<1>13. headers \in [0 .. N -> V]
  BY <1>10, <1>12
<1> QED
  BY <1>2, <1>11, <1>13 DEF N, V, e

(* In whatever order the propagators come, and however often, the request  *)
(* carries the headers of each of them.                                    *)
LEMMA InjectSends ==
    ASSUME NEW ps \in Seq(Propagators), NEW c \in Sound
    PROVE  Inject(ps, c, NoHeaders) = HeadersOf(c, Range(ps))
<1> DEFINE N == Len(ps)
<1>0. PICK headers \in [0 .. N -> OwnHeaders(c)] :
          /\ Inject(ps, c, NoHeaders) = headers[N] /\ headers[0] = NoHeaders
          /\ \A n \in 1 .. N : headers[n] = InjectOne(ps[n], c, headers[n - 1])
  BY InjectRecursion
<1>1. N \in Nat /\ DOMAIN ps = 1 .. N /\ \A n \in 1 .. N : ps[n] \in Propagators
  BY LenProperties, ElementOfSeq
<1> HIDE DEF N
<1> DEFINE First(n) == {ps[i] : i \in 1 .. n}
           P == {n \in 0 .. N : headers[n] = HeadersOf(c, First(n))}
<1>2. 0 \in P
  <2>1. First(0) = {} /\ 0 \in 0 .. N
    BY <1>1
  <2>2. HeadersOf(c, {}) = NoHeaders
    BY HeadersOfType
  <2> QED
    BY <1>0, <2>1, <2>2
<1>3. ASSUME NEW n \in 0 .. N, n # 0, n - 1 \in P PROVE n \in P
  <2>1. /\ n \in 1 .. N /\ n \in 1 .. n
        /\ \A i \in 1 .. n : i = n \/ i \in 1 .. n - 1
        /\ \A i \in 1 .. n - 1 : i \in 1 .. n
    BY <1>1, <1>3
  <2>2. First(n) = First(n - 1) \cup {ps[n]}
    BY <2>1
  <2>3. headers[n - 1] = HeadersOf(c, First(n - 1))
    BY <1>3
  <2>4. headers[n] = InjectOne(ps[n], c, headers[n - 1]) /\ ps[n] \in Propagators
    BY <1>0, <1>1, <2>1
  <2> HIDE DEF First
  <2>5. headers[n] = HeadersOf(c, First(n))
    BY <2>2, <2>3, <2>4, InjectOneProperties
  <2> QED
    BY <2>5
<1> HIDE DEF P
<1>4. N \in P
  <2>1. \A k \in 0 .. N : k \in P
    BY <1>1, <1>2, <1>3, InductionUpTo
  <2> QED
    BY <1>1, <2>1
<1>5. headers[N] = HeadersOf(c, First(N))
  BY <1>4 DEF P
<1>6. First(N) = Range(ps)
  BY <1>1 DEF Range
<1> QED
  BY <1>0, <1>5, <1>6

-----------------------------------------------------------------------------
(* Context propagation: a hop *)

(* The context a propagator reads from the headers of c.                   *)
SpanFrom(p, sc) ==
    IF p = "tracecontext"
    THEN [trace |-> sc.trace, span |-> sc.span, flags |-> sc.flags, state |-> sc.state, remote |-> TRUE]
    ELSE Remote(sc.trace, sc.span,
                Digit(IF p = "b3" THEN IsSampled(sc) ELSE IsSampled(sc) \/ IsDebug(sc)))

(* The W3C propagator reads the span context with its trace state.         *)
LEMMA TracecontextHop ==
    ASSUME NEW c \in Sound, NEW v \in Sound, NEW S
    PROVE  TracecontextExtract(v, HeadersOf(c, S)) =
              IF "tracecontext" \in S /\ IsValid(c.sc)
              THEN [sc |-> SpanFrom("tracecontext", c.sc), bag |-> v.bag] ELSE v
<1> DEFINE h == HeadersOf(c, S)
           x == c.sc
           tp == [trace |-> x.trace, span |-> x.span, flags |-> x.flags]
<1>1. CASE "tracecontext" \in S /\ IsValid(x)
  <2>1. h.traceparent = <<tp>> /\ h.tracestate = x.state
    BY <1>1 DEF HeadersOf
  <2>2. x \in SpanContexts /\ IsTraceState(x.state) /\ x.trace.short = FALSE
    BY DEF Sound, SoundSpans
  <2>3. x.trace \in WireIds /\ x.span \in Nat /\ x.flags \in Nat /\ x.state \in Seq(KeyValues)
    BY <2>2 DEF SpanContexts
  <2>4. ParseTraceState(x.state) = [ok |-> TRUE, entries |-> x.state]
    BY <2>2, <2>3, ParseProperties
  <2> DEFINE sc == Remote(x.trace, x.span, x.flags)
             ts == ParseTraceState(h.tracestate)
             one == h.traceparent[1]
  <2>5. h.traceparent # << >> /\ one = tp
    BY <2>1
  <2>6. parseTraceparent(one) = sc
    BY <2>2, <2>5 DEF parseTraceparent
  <2>7. IsValid(sc)
    BY <1>1 DEF IsValid, Remote
  <2>8. TracecontextExtract(v, h) = [v EXCEPT !.sc = [sc EXCEPT !.state = x.state]]
    <3>1. TracecontextExtract(v, h) =
             IF h.traceparent = << >> \/ ~IsValid(parseTraceparent(one)) THEN v
             ELSE [v EXCEPT !.sc = IF ts.ok THEN [parseTraceparent(one) EXCEPT !.state = ts.entries]
                                   ELSE parseTraceparent(one)]
      BY DEF TracecontextExtract
    <3>2. ts.ok = TRUE /\ ts.entries = x.state
      BY <2>1, <2>4
    <3> HIDE DEF h, sc, ts, one
    <3> QED
      BY <2>5, <2>6, <2>7, <3>1, <3>2
  <2>9. sc \in SpanContexts /\ sc.trace = x.trace /\ sc.span = x.span /\ sc.flags = x.flags /\ sc.remote = TRUE
    BY <2>3, EmptyLists DEF Remote, SpanContexts
  <2> DEFINE new == [sc EXCEPT !.state = x.state]
  <2>10. new \in SoundSpans
    BY <2>2, <2>3, RemoteProperties
  <2> HIDE DEF h, sc, x
  <2>11. new = [trace |-> sc.trace, span |-> sc.span, flags |-> sc.flags, state |-> x.state, remote |-> sc.remote]
    BY <2>9 DEF SpanContexts
  <2>12. new = SpanFrom("tracecontext", x)
    BY <2>9, <2>11 DEF SpanFrom
  <2> HIDE DEF new
  <2>13. [v EXCEPT !.sc = new] = [sc |-> new, bag |-> v.bag]
    BY <2>10, SoundParts
  <2> QED
    BY <1>1, <2>8, <2>12, <2>13 DEF h, x, new
<1>2. CASE ~("tracecontext" \in S /\ IsValid(x))
  <2>1. h.traceparent = << >>
    BY <1>2 DEF HeadersOf
  <2>2. TracecontextExtract(v, h) = v
    BY <2>1 DEF TracecontextExtract
  <2> QED
    BY <1>2, <2>2
<1> QED
  BY <1>1, <1>2

(* B3 reads the span context without the trace state.                      *)
LEMMA B3Hop ==
    ASSUME NEW c \in Sound, NEW v \in Sound, NEW S
    PROVE  B3Extract(v, HeadersOf(c, S)) =
              IF "b3" \in S /\ IsValid(c.sc) THEN [sc |-> SpanFrom("b3", c.sc), bag |-> v.bag] ELSE v
<1> DEFINE h == HeadersOf(c, S)
           x == c.sc
           sent == [trace |-> x.trace, span |-> x.span, sampled |-> Digit(IsSampled(x))]
           sc == Remote(x.trace, x.span, Digit(IsSampled(x)))
<1>1. x \in SpanContexts /\ x.trace.short = FALSE /\ x.trace \in WireIds /\ x.span \in Nat
  BY DEF Sound, SoundSpans, SpanContexts
<1>2. CASE "b3" \in S /\ IsValid(x)
  <2>1. h.b3 = <<sent>>
    BY <1>2 DEF HeadersOf
  <2>2. h.b3 # << >> /\ h.b3[1] = sent
    BY <2>1
  <2>3. Padded(x.trace) = x.trace
    BY <1>1, PaddedProperties
  <2>4. Digit(IsSampled(x)) = 1 <=> IsSampled(x)
    BY DEF Digit
  <2>5. Digit(Digit(IsSampled(x)) = 1) = Digit(IsSampled(x))
    BY <2>4 DEF Digit
  <2>6. parseB3(h.b3[1]) = sc
    BY <2>2, <2>3, <2>5 DEF parseB3
  <2>7. IsValid(sc)
    BY <1>2 DEF IsValid, Remote
  <2>8. sc \in SoundSpans
    <3>1. Digit(IsSampled(x)) \in Nat
      BY DEF Digit
    <3> QED
      BY <1>1, <3>1, RemoteProperties
  <2>9. sc = SpanFrom("b3", x)
    BY DEF SpanFrom
  <2> HIDE DEF sc, h, x
  <2>10. B3Extract(v, h) = [v EXCEPT !.sc = sc]
    BY <2>2, <2>6, <2>7 DEF B3Extract
  <2>11. [v EXCEPT !.sc = sc] = [sc |-> sc, bag |-> v.bag]
    BY <2>8, SoundParts
  <2> QED
    BY <1>2, <2>9, <2>10, <2>11 DEF h, x
<1>3. CASE ~("b3" \in S /\ IsValid(x))
  <2>1. h.b3 = << >> /\ h.multi = << >>
    BY <1>3 DEF HeadersOf
  <2>2. B3Extract(v, h) = v
    BY <2>1 DEF B3Extract
  <2> QED
    BY <1>3, <2>2
<1> QED
  BY <1>2, <1>3

(* Jaeger reads the span context, and the baggage when there is some.      *)
LEMMA JaegerHop ==
    ASSUME NEW c \in Sound, NEW v \in Sound, NEW S, NEW ranged
    PROVE  JaegerExtract(v, HeadersOf(c, S), ranged) =
              IF "jaeger" \in S /\ IsValid(c.sc)
              THEN [sc |-> SpanFrom("jaeger", c.sc),
                    bag |-> IF CollectBaggage(Lowered(ranged)) # << >>
                            THEN CollectBaggage(Lowered(ranged)) ELSE v.bag]
              ELSE v
<1> DEFINE h == HeadersOf(c, S)
           x == c.sc
           f == IF IsDebug(x) THEN 3 ELSE Digit(IsSampled(x))
           sent == [trace |-> x.trace, span |-> x.span, flags |-> f]
           sc == Remote(x.trace, x.span, Digit(IsSampled(x) \/ IsDebug(x)))
           bag == CollectBaggage(Lowered(ranged))
<1>1. x \in SpanContexts /\ x.trace.short = FALSE /\ x.trace \in WireIds /\ x.span \in Nat
  BY DEF Sound, SoundSpans, SpanContexts
<1>0. JaegerExtract(v, h, ranged) =
         IF h.uber = << >> \/ ~IsValid(parseJaegerHeader(h.uber[1])) THEN v
         ELSE [sc |-> parseJaegerHeader(h.uber[1]), bag |-> IF bag # << >> THEN bag ELSE v.bag]
  BY DEF JaegerExtract, Lowered
<1>2. CASE "jaeger" \in S /\ IsValid(x)
  <2>1. h.uber = <<sent>>
    BY <1>2 DEF HeadersOf
  <2>2. h.uber # << >> /\ h.uber[1] = sent
    BY <2>1
  <2>3. Padded(x.trace) = x.trace
    BY <1>1, PaddedProperties
  <2>4. f \in {1, 3} <=> IsSampled(x) \/ IsDebug(x)
    BY DEF Digit
  <2>5. Digit(f \in {1, 3}) = Digit(IsSampled(x) \/ IsDebug(x))
    <3> HIDE DEF f
    <3> QED
      BY <2>4 DEF Digit
  <2>6. parseJaegerHeader(h.uber[1]) = sc
    <3> HIDE DEF f
    <3> QED
      BY <2>2, <2>3, <2>5 DEF parseJaegerHeader
  <2>7. IsValid(sc)
    BY <1>2 DEF IsValid, Remote
  <2>9. sc = SpanFrom("jaeger", x)
    BY DEF SpanFrom
  <2> HIDE DEF sc, h, x, bag
  <2>10. JaegerExtract(v, h, ranged) = [sc |-> sc, bag |-> IF bag # << >> THEN bag ELSE v.bag]
    BY <1>0, <2>2, <2>6, <2>7
  <2> QED
    BY <1>2, <2>9, <2>10 DEF h, x, bag
<1>3. CASE ~("jaeger" \in S /\ IsValid(x))
  <2>1. h.uber = << >>
    BY <1>3 DEF HeadersOf
  <2>2. JaegerExtract(v, h, ranged) = v
    BY <1>0, <2>1
  <2> QED
    BY <1>3, <2>2
<1> QED
  BY <1>2, <1>3

(* The baggage header brings the entries that have a key.                  *)
LEMMA BaggageHop ==
    ASSUME NEW c \in Sound, NEW v \in Sound, NEW S
    PROVE  BaggageExtract(v, HeadersOf(c, S)) =
              IF "baggage" \in S /\ Without(c.bag, "") # << >>
              THEN [sc |-> v.sc, bag |-> Without(c.bag, "")] ELSE v
<1> DEFINE h == HeadersOf(c, S)
           named == Without(c.bag, "")
           bag == CollectBaggage(Without(h.baggage, ""))
<1>1. BaggageExtract(v, h) = IF bag = << >> THEN v ELSE [v EXCEPT !.bag = bag]
  BY DEF BaggageExtract
<1>2. c.bag \in Seq(KeyValues) /\ IsBaggage(c.bag)
  BY DEF Sound, Bags
<1>3. named \in Seq(KeyValues) /\ IsBaggage(named)
  BY <1>2, WithoutProperties
<1>4. CASE "baggage" \in S
  <2>1. h.baggage = c.bag
    BY <1>4 DEF HeadersOf
  <2>2. bag = named
    BY <1>3, <2>1, CollectSame
  <2> HIDE DEF bag, named
  <2>3. named \in Bags
    BY <1>3 DEF Bags
  <2>4. [v EXCEPT !.bag = named] = [sc |-> v.sc, bag |-> named]
    BY <2>3, SoundParts
  <2> QED
    BY <1>1, <1>4, <2>2, <2>4 DEF named
<1>5. CASE "baggage" \notin S
  <2>1. h.baggage = << >>
    BY <1>5 DEF HeadersOf
  <2>2. << >> \in Seq(KeyValues) /\ IsBaggage(<< >>)
    BY EmptyLists
  <2>3. Without(<< >>, "") = << >>
    <3> DEFINE e == << >>
    <3>1. e \in Seq(KeyValues) /\ DOMAIN e = {}
      BY <2>2
    <3> HIDE DEF e
    <3>2. Without(e, "") = e
      BY <3>1, WithoutProperties
    <3> QED
      BY <3>2 DEF e
  <2>4. CollectBaggage(<< >>) = << >>
    BY <2>2, CollectSame
  <2>5. bag = << >>
    BY <2>1, <2>3, <2>4
  <2> QED
    BY <1>1, <1>5, <2>5
<1> QED
  BY <1>4, <1>5

(* What the Jaeger headers of the baggage b bring, in any order.           *)
KeysOf(entries) == {e[1] : e \in entries}
LowerPairs(b) == {<<Lower[e.key], e.val>> : e \in Range(b)}
PairsOf(b) == {<<e.key, e.val>> : e \in Range(b)}

(* Every key arrives once, in lower case, with one of the values it had.   *)
LEMMA LoweredBaggage ==
    ASSUME NEW b \in Bags, NEW ranged \in SetToSeqs(Range(b)), IsFiniteSet(Range(b))
    PROVE  /\ b # << >> => CollectBaggage(Lowered(ranged)) # << >>
           /\ b = << >> => CollectBaggage(Lowered(ranged)) = << >>
           /\ PairsOf(CollectBaggage(Lowered(ranged))) \subseteq LowerPairs(b)
           /\ KeysOf(PairsOf(CollectBaggage(Lowered(ranged)))) = KeysOf(LowerPairs(b))
           /\ Cardinality(KeysOf(PairsOf(CollectBaggage(Lowered(ranged))))) =
                 Len(CollectBaggage(Lowered(ranged)))
<1> DEFINE pairs == Lowered(ranged)
           r == CollectBaggage(pairs)
           L(e) == Entry(Lower[e.key], e.val)
<1>1. b \in Seq(KeyValues) /\ IsBaggage(b)
  BY DEF Bags
<1>2. DOMAIN b = 1 .. Len(b) /\ \A i \in DOMAIN b : b[i] \in KeyValues
  BY <1>1, LenProperties, ElementOfSeq
<1>3. Range(b) \subseteq KeyValues
  BY <1>2 DEF Range
<1>4. /\ ranged \in Seq(KeyValues)
      /\ \A i \in DOMAIN ranged : ranged[i] \in Range(b)
      /\ \A e \in Range(b) : \E i \in DOMAIN ranged : ranged[i] = e
  BY <1>3, OrdersOfSet
<1>5. pairs \in Seq(KeyValues) /\ DOMAIN pairs = DOMAIN ranged
  BY <1>4, LoweredType
<1>6. \A i \in DOMAIN ranged : pairs[i] = L(ranged[i])
  BY DEF Lowered
<1>7. \A i \in DOMAIN pairs : LoweredFrom(pairs[i], b)
  <2> SUFFICES ASSUME NEW i \in DOMAIN ranged PROVE LoweredFrom(pairs[i], b)
    BY <1>5
  <2>1. PICK j \in DOMAIN b : ranged[i] = b[j]
    BY <1>4 DEF Range
  <2>2. pairs[i] = L(b[j])
    BY <1>6, <2>1
  <2> HIDE DEF pairs
  <2> QED
    BY <2>2 DEF LoweredFrom
<1>8. /\ r \in Seq(KeyValues) /\ DistinctKeys(r)
      /\ \A i \in DOMAIN r : \E n \in DOMAIN pairs : r[i] = pairs[n]
      /\ \A n \in DOMAIN pairs : \E i \in DOMAIN r : r[i].key = pairs[n].key
  <2> HIDE DEF pairs
  <2> QED
    BY <1>1, <1>5, <1>7, CollectLowered
<1> HIDE DEF r
<1>9. \A e \in Range(r) : \E x \in Range(b) : e = L(x)
  <2> SUFFICES ASSUME NEW i \in DOMAIN r PROVE \E x \in Range(b) : r[i] = L(x)
    BY DEF Range
  <2>1. PICK n \in DOMAIN pairs : r[i] = pairs[n]
    BY <1>8
  <2>2. n \in DOMAIN ranged /\ ranged[n] \in Range(b) /\ pairs[n] = L(ranged[n])
    BY <1>4, <1>5, <1>6
  <2> QED
    BY <2>1, <2>2
<1>10. \A x \in Range(b) : \E e \in Range(r) : e.key = L(x).key
  <2> SUFFICES ASSUME NEW x \in Range(b) PROVE \E e \in Range(r) : e.key = L(x).key
    OBVIOUS
  <2>1. PICK n \in DOMAIN ranged : ranged[n] = x
    BY <1>4
  <2>2. n \in DOMAIN pairs /\ pairs[n] = L(x)
    BY <1>5, <1>6, <2>1
  <2>3. PICK i \in DOMAIN r : r[i].key = pairs[n].key
    BY <1>8, <2>2
  <2>4. r[i] \in Range(r)
    BY DEF Range
  <2> QED
    BY <2>2, <2>3, <2>4
<1> HIDE DEF pairs
<1>11. \A x : L(x).key = Lower[x.key] /\ L(x).val = x.val
  BY DEF Entry
<1> HIDE DEF L
<1>12. PairsOf(r) \subseteq LowerPairs(b)
  BY <1>9, <1>11 DEF PairsOf, LowerPairs
<1>13. KeysOf(PairsOf(r)) = {e.key : e \in Range(r)} /\ KeysOf(LowerPairs(b)) = {Lower[x.key] : x \in Range(b)}
  <2>1. \A k : k \in KeysOf(PairsOf(r)) <=> \E e \in PairsOf(r) : k = e[1]
    BY DEF KeysOf
  <2>2. \A k : k \in KeysOf(LowerPairs(b)) <=> \E e \in LowerPairs(b) : k = e[1]
    BY DEF KeysOf
  <2>3. \A y : y \in PairsOf(r) <=> \E e \in Range(r) : y = <<e.key, e.val>>
    BY DEF PairsOf
  <2>4. \A y : y \in LowerPairs(b) <=> \E e \in Range(b) : y = <<Lower[e.key], e.val>>
    BY DEF LowerPairs
  <2>5. ASSUME NEW k PROVE k \in KeysOf(PairsOf(r)) <=> \E e \in Range(r) : k = e.key
    <3>1. ASSUME NEW y \in PairsOf(r), k = y[1] PROVE \E e \in Range(r) : k = e.key
      <4>1. PICK e \in Range(r) : y = <<e.key, e.val>>
        BY <2>3
      <4> QED
        BY <3>1, <4>1
    <3>2. ASSUME NEW e \in Range(r), k = e.key PROVE \E y \in PairsOf(r) : k = y[1]
      <4> DEFINE y == <<e.key, e.val>>
      <4>1. y \in PairsOf(r) /\ y[1] = e.key
        BY <2>3
      <4> HIDE DEF y
      <4> QED
        BY <3>2, <4>1
    <3> QED
      BY <2>1, <3>1, <3>2
  <2>6. ASSUME NEW k PROVE k \in KeysOf(LowerPairs(b)) <=> \E e \in Range(b) : k = Lower[e.key]
    <3>1. ASSUME NEW y \in LowerPairs(b), k = y[1] PROVE \E e \in Range(b) : k = Lower[e.key]
      <4>1. PICK e \in Range(b) : y = <<Lower[e.key], e.val>>
        BY <2>4
      <4> QED
        BY <3>1, <4>1
    <3>2. ASSUME NEW e \in Range(b), k = Lower[e.key] PROVE \E y \in LowerPairs(b) : k = y[1]
      <4> DEFINE y == <<Lower[e.key], e.val>>
      <4>1. y \in LowerPairs(b) /\ y[1] = Lower[e.key]
        BY <2>4
      <4> HIDE DEF y
      <4> QED
        BY <3>2, <4>1
    <3> QED
      BY <2>2, <3>1, <3>2
  <2> QED
    BY <2>5, <2>6
<1>14. {e.key : e \in Range(r)} = {Lower[x.key] : x \in Range(b)}
  BY <1>9, <1>10, <1>11
<1>15. Cardinality({e.key : e \in Range(r)}) = Len(r)
  <2> DEFINE keys == [i \in DOMAIN r |-> r[i].key]
             T == {e.key : e \in Range(r)}
  <2>1. DOMAIN r = 1 .. Len(r) /\ Len(r) \in Nat
    BY <1>8, LenProperties
  <2>2. keys \in [DOMAIN r -> T]
    BY DEF Range
  <2>3. \A t \in T : \E i \in DOMAIN r : keys[i] = t
    BY DEF Range
  <2>4. \A i, j \in DOMAIN r : keys[i] = keys[j] => i = j
    BY <1>8 DEF DistinctKeys
  <2> HIDE DEF keys, T
  <2>5. keys \in Bijection(1 .. Len(r), T)
    BY <2>1, <2>2, <2>3, <2>4 DEF Bijection, Injection, Surjection, IsInjective
  <2>6. ExistsBijection(1 .. Len(r), T)
    BY <2>5 DEF ExistsBijection
  <2>7. Cardinality(T) = Len(r)
    BY <2>1, <2>6, FS_CountingElements
  <2> QED
    BY <2>7 DEF T
<1>16. ASSUME b # << >> PROVE r # << >>
  <2>1. Len(b) # 0 /\ Len(b) \in Nat
    BY <1>1, <1>16, EmptySeq, LenProperties
  <2>2. 1 \in DOMAIN b
    BY <1>2, <2>1
  <2>3. b[1] \in Range(b)
    BY <2>2 DEF Range
  <2>4. PICK e \in Range(r) : e.key = L(b[1]).key
    BY <1>10, <2>3
  <2>5. DOMAIN r # {}
    BY <2>4 DEF Range
  <2> QED
    BY <2>5
<1>17. ASSUME b = << >> PROVE r = << >>
  <2>1. DOMAIN b = {}
    BY <1>17
  <2>2. Range(b) = {}
    BY <2>1 DEF Range
  <2>3. Range(r) = {}
    BY <1>9, <2>2
  <2>4. DOMAIN r = {}
    BY <2>3 DEF Range
  <2>5. Len(r) \in Nat /\ DOMAIN r = 1 .. Len(r)
    BY <1>8, LenProperties
  <2>6. Len(r) = 0
    BY <2>4, <2>5
  <2> QED
    BY <1>8, <2>6, EmptySeq
<1> QED
  BY <1>12, <1>13, <1>14, <1>15, <1>16, <1>17 DEF r, pairs

(* One propagator of the reader, S being those of the sender.              *)
ReadsSpan(p, S, c) == p \in Formats /\ p \in S /\ IsValid(c.sc)
ReadsBag(p, S, c) == p \in S /\ (p = "baggage" \/ (p = "jaeger" /\ IsValid(c.sc)))
BagFrom(p, bag, ranged) == IF p = "baggage" THEN Without(bag, "") ELSE CollectBaggage(Lowered(ranged))

(* What one propagator of the reader does to the context so far.           *)
LEMMA OneHop ==
    ASSUME NEW c \in Sound, NEW v \in Sound, NEW S, NEW ranged, NEW p \in Propagators
    PROVE  /\ ReadsSpan(p, S, c) => ExtractOne(p, v, HeadersOf(c, S), ranged).sc = SpanFrom(p, c.sc)
           /\ ~ReadsSpan(p, S, c) => ExtractOne(p, v, HeadersOf(c, S), ranged).sc = v.sc
           /\ ~ReadsBag(p, S, c) => ExtractOne(p, v, HeadersOf(c, S), ranged).bag = v.bag
           /\ ReadsBag(p, S, c) => ExtractOne(p, v, HeadersOf(c, S), ranged).bag =
                 IF BagFrom(p, c.bag, ranged) # << >> THEN BagFrom(p, c.bag, ranged) ELSE v.bag
<1> DEFINE h == HeadersOf(c, S)
           r == ExtractOne(p, v, h, ranged)
           brought == CollectBaggage(Lowered(ranged))
           named == Without(c.bag, "")
           next == IF brought # << >> THEN brought ELSE v.bag
           one == SpanFrom(p, c.sc)
<1>0. \A sc, b : [sc |-> sc, bag |-> b].sc = sc /\ [sc |-> sc, bag |-> b].bag = b
  OBVIOUS
<1>1. CASE p = "tracecontext"
  <2>1. ~ReadsBag(p, S, c) /\ (ReadsSpan(p, S, c) <=> "tracecontext" \in S /\ IsValid(c.sc))
    BY <1>1 DEF ReadsBag, ReadsSpan, Formats
  <2>2. r = IF "tracecontext" \in S /\ IsValid(c.sc) THEN [sc |-> one, bag |-> v.bag] ELSE v
    BY <1>1, TracecontextHop DEF ExtractOne
  <2> HIDE DEF r, one, h
  <2>3. r.bag = v.bag
    BY <1>0, <2>2
  <2>4. /\ ReadsSpan(p, S, c) => r.sc = one
        /\ ~ReadsSpan(p, S, c) => r.sc = v.sc
    BY <1>0, <2>1, <2>2
  <2> QED
    BY <2>1, <2>3, <2>4 DEF r, one, h
<1>2. CASE p = "b3"
  <2>1. ~ReadsBag(p, S, c) /\ (ReadsSpan(p, S, c) <=> "b3" \in S /\ IsValid(c.sc))
    BY <1>2 DEF ReadsBag, ReadsSpan, Formats
  <2>2. r = IF "b3" \in S /\ IsValid(c.sc) THEN [sc |-> one, bag |-> v.bag] ELSE v
    BY <1>2, B3Hop DEF ExtractOne
  <2> HIDE DEF r, one, h
  <2>3. r.bag = v.bag
    BY <1>0, <2>2
  <2>4. /\ ReadsSpan(p, S, c) => r.sc = one
        /\ ~ReadsSpan(p, S, c) => r.sc = v.sc
    BY <1>0, <2>1, <2>2
  <2> QED
    BY <2>1, <2>3, <2>4 DEF r, one, h
<1>3. CASE p = "jaeger"
  <2>1. /\ p # "baggage"
        /\ ReadsBag(p, S, c) <=> "jaeger" \in S /\ IsValid(c.sc)
        /\ ReadsSpan(p, S, c) <=> "jaeger" \in S /\ IsValid(c.sc)
    BY <1>3 DEF ReadsBag, ReadsSpan, Formats
  <2>2. r = IF "jaeger" \in S /\ IsValid(c.sc) THEN [sc |-> one, bag |-> next] ELSE v
    BY <1>3, JaegerHop DEF ExtractOne
  <2> HIDE DEF r, one, h, next
  <2>3. /\ ReadsBag(p, S, c) => r.bag = next
        /\ ~ReadsBag(p, S, c) => r.bag = v.bag
    BY <1>0, <2>1, <2>2
  <2>4. /\ ReadsSpan(p, S, c) => r.sc = one
        /\ ~ReadsSpan(p, S, c) => r.sc = v.sc
    BY <1>0, <2>1, <2>2
  <2> QED
    BY <2>1, <2>3, <2>4 DEF r, one, h, next, BagFrom
<1>4. CASE p = "baggage"
  <2>1. ~ReadsSpan(p, S, c) /\ (ReadsBag(p, S, c) <=> "baggage" \in S)
    BY <1>4 DEF ReadsBag, ReadsSpan, Formats
  <2>2. r = IF "baggage" \in S /\ named # << >> THEN [sc |-> v.sc, bag |-> named] ELSE v
    BY <1>4, BaggageHop DEF ExtractOne
  <2> DEFINE new == IF named # << >> THEN named ELSE v.bag
  <2> HIDE DEF r, h, named
  <2>3. r.sc = v.sc
    BY <1>0, <2>2
  <2>4. /\ ReadsBag(p, S, c) => r.bag = new
        /\ ~ReadsBag(p, S, c) => r.bag = v.bag
    BY <1>0, <2>1, <2>2
  <2> HIDE DEF new
  <2> QED
    BY <1>4, <2>1, <2>3, <2>4 DEF r, h, new, named, BagFrom
<1> QED
  BY <1>1, <1>2, <1>3, <1>4 DEF Propagators

(* A hop from a service with the propagators sent to one with the          *)
(* propagators read.                                                       *)
PlacesOf(read, sent, T) == {i \in DOMAIN read : read[i] \in T /\ read[i] \in Range(sent)}
BagFormats(c) == IF IsValid(c.sc) THEN {"baggage", "jaeger"} ELSE {"baggage"}

(* The last shared format decides on the span context.                     *)
LEMMA SpanHop ==
    ASSUME NEW c \in Sound, NEW sent, NEW read \in Seq(Propagators), NEW ranged \in Seq(KeyValues)
    PROVE  LET r == Extract(read, Empty, HeadersOf(c, Range(sent)), ranged)
               W == PlacesOf(read, sent, Formats)
           IN  /\ W = {} \/ ~IsValid(c.sc) => r.sc = NoContext
               /\ W # {} /\ IsValid(c.sc) =>
                     /\ Max(W) \in DOMAIN read /\ read[Max(W)] \in Formats
                     /\ r.sc = SpanFrom(read[Max(W)], c.sc)
<1> DEFINE N == Len(read)
           S == Range(sent)
           h == HeadersOf(c, S)
           r == Extract(read, Empty, h, ranged)
           W == PlacesOf(read, sent, Formats)
<1>1. h \in Headers
  BY HeadersOfType
<1> HIDE DEF h
<1>2. PICK ctxs \in [0 .. N -> Sound] :
          /\ r = ctxs[N] /\ ctxs[0] = Empty
          /\ \A n \in 1 .. N : ctxs[n] = ExtractOne(read[n], ctxs[n - 1], h, ranged)
  BY <1>1, ExtractRecursion
<1>3. N \in Nat /\ DOMAIN read = 1 .. N /\ \A n \in 1 .. N : read[n] \in Propagators
  BY LenProperties, ElementOfSeq
<1> HIDE DEF N, r
<1> DEFINE g == [n \in 0 .. N |-> ctxs[n].sc]
           V == {n \in 1 .. N : ReadsSpan(read[n], S, c)}
<1>4. ASSUME NEW n \in 1 .. N
      PROVE  /\ n \in V => g[n] = SpanFrom(read[n], c.sc)
             /\ n \notin V => g[n] = g[n - 1]
  <2>1. n \in 0 .. N /\ n - 1 \in 0 .. N
    BY <1>3
  <2>2. ctxs[n - 1] \in Sound /\ read[n] \in Propagators
    BY <1>3, <2>1
  <2>3. ctxs[n] = ExtractOne(read[n], ctxs[n - 1], HeadersOf(c, S), ranged)
    BY <1>2 DEF h
  <2>4. /\ ReadsSpan(read[n], S, c) => ctxs[n].sc = SpanFrom(read[n], c.sc)
        /\ ~ReadsSpan(read[n], S, c) => ctxs[n].sc = ctxs[n - 1].sc
    <3> HIDE DEF S
    <3> QED
      BY <2>2, <2>3, OneHop
  <2> QED
    BY <2>1, <2>4
<1>5. g[0] = NoContext /\ g[N] = r.sc
  <2>1. 0 \in 0 .. N /\ N \in 0 .. N
    BY <1>3
  <2>2. Empty.sc = NoContext
    BY DEF Empty
  <2> QED
    BY <1>2, <2>1, <2>2
<1>6. V \subseteq 1 .. N /\ (IsValid(c.sc) => V = W) /\ (~IsValid(c.sc) => V = {})
  BY <1>3 DEF ReadsSpan, PlacesOf
<1>7. W \subseteq DOMAIN read /\ \A i \in W : read[i] \in Formats
  BY DEF PlacesOf
<1> HIDE DEF g, V, W
<1>8. /\ V = {} => g[N] = g[0]
      /\ V # {} => Max(V) \in V /\ g[N] = g[Max(V)]
  BY <1>3, <1>4, <1>6, LastChange
<1>9. V = {} => r.sc = NoContext
  BY <1>5, <1>8
<1>10. V # {} => Max(V) \in V /\ r.sc = SpanFrom(read[Max(V)], c.sc)
  BY <1>4, <1>5, <1>6, <1>8
<1>11. W = {} \/ ~IsValid(c.sc) => r.sc = NoContext
  BY <1>6, <1>9
<1>12. W # {} /\ IsValid(c.sc) =>
          /\ Max(W) \in DOMAIN read /\ read[Max(W)] \in Formats
          /\ r.sc = SpanFrom(read[Max(W)], c.sc)
  BY <1>6, <1>7, <1>10
<1> QED
  BY <1>11, <1>12 DEF r, W, h

(* The last shared format that brings baggage decides on the baggage.      *)
LEMMA BagHop ==
    ASSUME NEW c \in Sound, NEW sent, NEW read \in Seq(Propagators), NEW ranged \in Seq(KeyValues)
    PROVE  LET r == Extract(read, Empty, HeadersOf(c, Range(sent)), ranged)
               W == PlacesOf(read, sent, BagFormats(c))
           IN  /\ W = {} => r.bag = << >>
               /\ W # {} => read[Max(W)] \in BagFormats(c)
               /\ W # {} /\ BagFrom(read[Max(W)], c.bag, ranged) # << >> =>
                     r.bag = BagFrom(read[Max(W)], c.bag, ranged)
               /\ (\A p \in BagFormats(c) : BagFrom(p, c.bag, ranged) = << >>) => r.bag = << >>
<1> DEFINE N == Len(read)
           S == Range(sent)
           h == HeadersOf(c, S)
           r == Extract(read, Empty, h, ranged)
           W == PlacesOf(read, sent, BagFormats(c))
           B(n) == BagFrom(read[n], c.bag, ranged)
<1>1. h \in Headers
  BY HeadersOfType
<1> HIDE DEF h
<1>2. PICK ctxs \in [0 .. N -> Sound] :
          /\ r = ctxs[N] /\ ctxs[0] = Empty
          /\ \A n \in 1 .. N : ctxs[n] = ExtractOne(read[n], ctxs[n - 1], h, ranged)
  BY <1>1, ExtractRecursion
<1>3. N \in Nat /\ DOMAIN read = 1 .. N /\ \A n \in 1 .. N : read[n] \in Propagators
  BY LenProperties, ElementOfSeq
<1> HIDE DEF N, r
<1> DEFINE g == [n \in 0 .. N |-> ctxs[n].bag]
<1>6. /\ W \subseteq 1 .. N
      /\ \A n \in W : read[n] \in BagFormats(c)
      /\ \A n \in 1 .. N : n \in W <=> ReadsBag(read[n], S, c)
  <2>1. \A p : p \in BagFormats(c) /\ p \in S <=> ReadsBag(p, S, c)
    BY DEF BagFormats, ReadsBag
  <2> QED
    BY <1>3, <2>1 DEF PlacesOf
<1> HIDE DEF W
<1>4. ASSUME NEW n \in 1 .. N
      PROVE  /\ n \in W => g[n] = IF B(n) # << >> THEN B(n) ELSE g[n - 1]
             /\ n \notin W => g[n] = g[n - 1]
  <2>1. n \in 0 .. N /\ n - 1 \in 0 .. N
    BY <1>3
  <2>2. ctxs[n - 1] \in Sound /\ read[n] \in Propagators
    BY <1>3, <2>1
  <2>3. ctxs[n] = ExtractOne(read[n], ctxs[n - 1], HeadersOf(c, S), ranged)
    BY <1>2 DEF h
  <2>4. /\ ReadsBag(read[n], S, c) => ctxs[n].bag = IF B(n) # << >> THEN B(n) ELSE ctxs[n - 1].bag
        /\ ~ReadsBag(read[n], S, c) => ctxs[n].bag = ctxs[n - 1].bag
    <3> HIDE DEF S
    <3> QED
      BY <2>2, <2>3, OneHop
  <2> HIDE DEF B
  <2> QED
    BY <1>6, <2>1, <2>4
<1>5. g[0] = << >> /\ g[N] = r.bag
  <2>1. 0 \in 0 .. N /\ N \in 0 .. N
    BY <1>3
  <2>2. Empty.bag = << >>
    BY DEF Empty
  <2> QED
    BY <1>2, <2>1, <2>2
<1> HIDE DEF g
<1>8. /\ W = {} => g[N] = g[0]
      /\ W # {} => Max(W) \in W /\ g[N] = g[Max(W)]
  <2> HIDE DEF B
  <2> QED
    BY <1>3, <1>4, <1>6, LastChange
<1>9. W = {} => r.bag = << >>
  BY <1>5, <1>8
<1>10. W # {} => read[Max(W)] \in BagFormats(c)
  BY <1>6, <1>8
<1>11. W # {} /\ B(Max(W)) # << >> => r.bag = B(Max(W))
  <2> HIDE DEF B
  <2> QED
    BY <1>4, <1>5, <1>6, <1>8
<1>12. ASSUME \A p \in BagFormats(c) : BagFrom(p, c.bag, ranged) = << >> PROVE r.bag = << >>
  <2> DEFINE P == {n \in 0 .. N : g[n] = << >>}
  <2>1. 0 \in P
    BY <1>3, <1>5
  <2>2. ASSUME NEW n \in 0 .. N, n # 0, n - 1 \in P PROVE n \in P
    <3>1. n \in 1 .. N /\ g[n - 1] = << >>
      BY <1>3, <2>2
    <3>2. n \in W => B(n) = << >>
      BY <1>6, <1>12
    <3> HIDE DEF B
    <3>3. g[n] = << >>
      BY <1>4, <3>1, <3>2
    <3> QED
      BY <3>3
  <2> HIDE DEF P
  <2>3. \A k \in 0 .. N : k \in P
    BY <1>3, <2>1, <2>2, InductionUpTo
  <2>4. N \in P
    BY <1>3, <2>3
  <2> QED
    BY <1>5, <2>4 DEF P
<1> QED
  BY <1>9, <1>10, <1>11, <1>12 DEF r, W, h

(* The sampling decision that a format carries.                            *)
LEMMA SpanFromProperties ==
    ASSUME NEW sc \in SoundSpans, NEW p \in Formats
    PROVE  /\ SpanFrom(p, sc).trace = sc.trace /\ SpanFrom(p, sc).span = sc.span /\ SpanFrom(p, sc).remote
           /\ IsSampled(SpanFrom(p, sc)) = (IsSampled(sc) \/ (IsDebug(sc) /\ p = "jaeger"))
           /\ SpanFrom(p, sc).state = IF p = "tracecontext" THEN sc.state ELSE << >>
<1> DEFINE r == SpanFrom(p, sc)
<1>1. r.trace = sc.trace /\ r.span = sc.span /\ r.remote = TRUE
  BY DEF SpanFrom, Remote
<1>2. r.state = IF p = "tracecontext" THEN sc.state ELSE << >>
  BY DEF SpanFrom, Remote
<1>4. CASE p = "tracecontext"
  <2>1. r.flags = sc.flags
    BY <1>4 DEF SpanFrom
  <2>2. IsSampled(r) <=> IsSampled(sc)
    BY <2>1 DEF IsSampled
  <2>3. IsSampled(r) = (IsSampled(sc) \/ (IsDebug(sc) /\ p = "jaeger"))
    BY <1>4, <2>2 DEF IsSampled, IsDebug
  <2> QED
    BY <1>1, <1>2, <2>3
<1>5. CASE p = "b3"
  <2>1. r.flags = Digit(IsSampled(sc))
    BY <1>5 DEF SpanFrom, Remote
  <2>2. IsSampled(r) <=> IsSampled(sc)
    BY <2>1 DEF IsSampled, Digit
  <2>3. IsSampled(r) = (IsSampled(sc) \/ (IsDebug(sc) /\ p = "jaeger"))
    BY <1>5, <2>2 DEF IsSampled, IsDebug
  <2> QED
    BY <1>1, <1>2, <2>3
<1>6. CASE p = "jaeger"
  <2>1. r.flags = Digit(IsSampled(sc) \/ IsDebug(sc))
    BY <1>6 DEF SpanFrom, Remote
  <2>2. IsSampled(r) <=> IsSampled(sc) \/ IsDebug(sc)
    BY <2>1 DEF IsSampled, IsDebug, Digit
  <2>3. IsSampled(r) = (IsSampled(sc) \/ (IsDebug(sc) /\ p = "jaeger"))
    BY <1>6, <2>2 DEF IsSampled, IsDebug
  <2> QED
    BY <1>1, <1>2, <2>3
<1> QED
  BY <1>4, <1>5, <1>6 DEF Formats

(* What baggage arrives, in the words of the property.                     *)
LEMMA BaggageArrives ==
    ASSUME NEW c \in Sound, NEW sent \in Seq(Propagators), NEW read \in Seq(Propagators),
           NEW ranged \in SetToSeqs(HeadersOf(c, Range(sent)).uberctx)
    PROVE  LET r == Extract(read, Empty, HeadersOf(c, Range(sent)), ranged)
               W == PlacesOf(read, sent, BagFormats(c))
               named == Without(c.bag, "")
           IN  /\ W = {} => r.bag = << >>
               /\ W # {} /\ read[Max(W)] = "baggage" /\ (c.bag = << >> \/ named # << >>) => r.bag = named
               /\ W # {} /\ read[Max(W)] # "baggage" =>
                     /\ PairsOf(r.bag) \subseteq LowerPairs(c.bag)
                     /\ KeysOf(PairsOf(r.bag)) = KeysOf(LowerPairs(c.bag))
                     /\ Cardinality(KeysOf(PairsOf(r.bag))) = Len(r.bag)
<1> DEFINE h == HeadersOf(c, Range(sent))
           r == Extract(read, Empty, h, ranged)
           W == PlacesOf(read, sent, BagFormats(c))
           b == c.bag
           named == Without(b, "")
           brought == CollectBaggage(Lowered(ranged))
           last == read[Max(W)]
           From(p) == BagFrom(p, b, ranged)
<1>1. h \in Headers /\ IsFiniteSet(h.uberctx)
  BY HeadersOfType
<1>2. h.uberctx = IF "jaeger" \in Range(sent) /\ IsValid(c.sc) THEN Range(b) ELSE {}
  BY DEF HeadersOf
<1>3. b \in Bags /\ b \in Seq(KeyValues)
  BY DEF Sound, Bags
<1>4. ranged \in Seq(KeyValues)
  <2>1. h.uberctx \subseteq KeyValues
    BY <1>1 DEF Headers
  <2> HIDE DEF h
  <2>2. ranged \in SetToSeqs(h.uberctx)
    BY DEF h
  <2> QED
    BY <1>1, <2>1, <2>2, OrdersOfSet
<1>5. /\ W = {} => r.bag = << >>
      /\ W # {} => last \in BagFormats(c)
      /\ W # {} /\ From(last) # << >> => r.bag = From(last)
      /\ (\A p \in BagFormats(c) : From(p) = << >>) => r.bag = << >>
  BY <1>4, BagHop
<1>6. ranged \in SetToSeqs(h.uberctx)
  OBVIOUS
<1> HIDE DEF h, r
<1>7. ASSUME h.uberctx = Range(b)
      PROVE  /\ b # << >> => brought # << >>
             /\ b = << >> => brought = << >>
             /\ PairsOf(brought) \subseteq LowerPairs(b)
             /\ KeysOf(PairsOf(brought)) = KeysOf(LowerPairs(b))
             /\ Cardinality(KeysOf(PairsOf(brought))) = Len(brought)
  <2> HIDE DEF b
  <2>1. ranged \in SetToSeqs(Range(b)) /\ IsFiniteSet(Range(b))
    BY <1>1, <1>6, <1>7
  <2> QED
    BY <1>3, <2>1, LoweredBaggage
<1>8. ASSUME b = << >> PROVE r.bag = << >> /\ named = << >> /\ brought = << >>
  <2>1. Range(b) = {} /\ DOMAIN b = {}
    BY <1>8 DEF Range
  <2>2. h.uberctx = Range(b)
    BY <1>2, <2>1
  <2>3. brought = << >>
    BY <1>7, <1>8, <2>2
  <2>4. named = << >>
    <3> HIDE DEF b
    <3>1. Without(b, "") = b
      BY <1>3, <2>1, WithoutProperties
    <3> QED
      BY <1>8, <3>1
  <2> HIDE DEF brought, named
  <2>5. \A p : From(p) = << >>
    BY <2>3, <2>4 DEF BagFrom, brought, named
  <2> QED
    BY <1>5, <2>3, <2>4, <2>5
<1> HIDE DEF b
<1>9. last = "baggage" => From(last) = named
  BY DEF BagFrom
<1>10. last # "baggage" => From(last) = brought
  BY DEF BagFrom
<1> HIDE DEF last, From, named, brought
<1>11. ASSUME W # {}, last = "baggage", b = << >> \/ named # << >> PROVE r.bag = named
  BY <1>5, <1>8, <1>9, <1>11
<1>12. ASSUME W # {}, last # "baggage"
       PROVE  r.bag = brought /\ h.uberctx = Range(b)
  <2>1. last \in BagFormats(c)
    BY <1>5, <1>12
  <2>2. last = "jaeger" /\ IsValid(c.sc)
    BY <1>12, <2>1 DEF BagFormats
  <2>3. last \in Range(sent)
    <3>1. DOMAIN read = 1 .. Len(read) /\ Len(read) \in Nat
      BY LenProperties
    <3>2. W \subseteq 1 .. Len(read)
      BY <3>1 DEF PlacesOf
    <3>3. Max(W) \in W
      <4> HIDE DEF W
      <4> QED
        BY <1>12, <3>1, <3>2, GreatestPlace
    <3> QED
      BY <3>3 DEF PlacesOf, last
  <2>4. h.uberctx = Range(b)
    BY <1>2, <2>2, <2>3
  <2>5. CASE b = << >>
    BY <1>8, <2>4, <2>5
  <2>6. CASE b # << >>
    BY <1>5, <1>7, <1>10, <1>12, <2>4, <2>6
  <2> QED
    BY <2>4, <2>5, <2>6
<1>13. ASSUME W # {}, last # "baggage"
       PROVE  /\ PairsOf(r.bag) \subseteq LowerPairs(b)
              /\ KeysOf(PairsOf(r.bag)) = KeysOf(LowerPairs(b))
              /\ Cardinality(KeysOf(PairsOf(r.bag))) = Len(r.bag)
  BY <1>7, <1>12, <1>13
<1> HIDE DEF W
<1> QED
  BY <1>5, <1>11, <1>13 DEF h, r, W, b, named, last

-----------------------------------------------------------------------------
(* Context propagation: the invariant *)

(* What a service holds can be sent; what is on the wire after Inject are  *)
(* the headers of its context; what was read is what Extract makes of      *)
(* them, in some order of the map.                                         *)
PropInv ==
    /\ ctx \in Sound /\ onWire \in BOOLEAN
    /\ carrier \in Headers /\ IsFiniteSet(carrier.uberctx)
    /\ origin \in [from : Sound, sent : Seq(Propagators), read : Seq(Propagators)]
    /\ onWire => origin.read = << >>
    /\ origin.sent # << >> => carrier = HeadersOf(origin.from, Range(origin.sent))
    /\ ~onWire /\ origin.read # << >> =>
          \E ranged \in SetToSeqs(carrier.uberctx) : ctx = Extract(origin.read, Empty, carrier, ranged)

(* A context with another trace state, or also other baggage, is one.      *)
LEMMA SoundEdits ==
    ASSUME NEW c \in Sound, NEW s \in Seq(KeyValues), IsTraceState(s)
    PROVE  /\ [c EXCEPT !.sc.state = s] \in Sound
           /\ \A b \in Bags : [c EXCEPT !.sc.state = s, !.bag = b] \in Sound
<1>1. c.sc \in SoundSpans /\ c.sc \in SpanContexts /\ c.sc.trace.short = FALSE
  BY DEF Sound, SoundSpans
<1> DEFINE new == [c.sc EXCEPT !.state = s]
<1>2. new = [trace |-> c.sc.trace, span |-> c.sc.span, flags |-> c.sc.flags, state |-> s, remote |-> c.sc.remote]
  BY <1>1 DEF SpanContexts
<1>3. c.sc.trace \in WireIds /\ c.sc.span \in Nat /\ c.sc.flags \in Nat /\ c.sc.remote \in BOOLEAN
  BY <1>1 DEF SpanContexts
<1> HIDE DEF new
<1>4. new \in SpanContexts /\ new.state = s /\ new.trace = c.sc.trace
  BY <1>2, <1>3 DEF SpanContexts
<1>5. new \in SoundSpans
  BY <1>1, <1>4 DEF SoundSpans
<1>6. [c EXCEPT !.sc.state = s] = [c EXCEPT !.sc = new]
  BY DEF new
<1>7. [c EXCEPT !.sc = new] \in Sound
  BY <1>5, SoundParts
<1>8. ASSUME NEW b \in Bags PROVE [c EXCEPT !.sc.state = s, !.bag = b] \in Sound
  <2>1. [c EXCEPT !.sc.state = s, !.bag = b] = [[c EXCEPT !.sc = new] EXCEPT !.bag = b]
    BY DEF new
  <2> DEFINE d == [c EXCEPT !.sc = new]
  <2>2. d \in Sound
    BY <1>7
  <2> HIDE DEF d
  <2>3. [d EXCEPT !.bag = b] \in Sound
    BY <2>2, SoundParts
  <2> QED
    BY <2>1, <2>3 DEF d
<1> QED
  BY <1>6, <1>7, <1>8

(* The invariant holds at the start.                                       *)
LEMMA PropInitInv == PropInit => PropInv
<1> SUFFICES ASSUME PropInit PROVE PropInv
  OBVIOUS
<1>1. ctx \in Sound
  <2>1. ctx \in Roots
    BY DEF PropInit
  <2>2. ctx \in Contexts /\ IsContext(ctx)
    BY <2>1, PropagationAssumption
  <2> QED
    BY <2>2, SoundContexts
<1>2. Empty \in Sound
  BY SoundContexts
<1>3. NoHeaders \in Headers /\ IsFiniteSet(NoHeaders.uberctx)
  BY <1>2, HeadersOfType
<1>4. << >> \in Seq(Propagators)
  OBVIOUS
<1>5. carrier = NoHeaders /\ onWire = FALSE /\ origin = [from |-> Empty, sent |-> << >>, read |-> << >>]
  BY DEF PropInit, NoOrigin
<1> QED
  BY <1>1, <1>2, <1>3, <1>4, <1>5 DEF PropInv

(* A service that edits its context holds one that can be sent.            *)
LEMMA EditsKeepSound ==
    ASSUME ctx \in Sound, Edit
    PROVE  ctx' \in Sound
<1>1. /\ ctx.sc.state \in Seq(KeyValues) /\ IsTraceState(ctx.sc.state)
      /\ ctx.bag \in Seq(KeyValues) /\ IsBaggage(ctx.bag)
  BY DEF Sound, SoundSpans, SpanContexts, Bags
<1>2. \A k \in EntryKeys : k \in DOMAIN Bytes /\ k \notin {"", "="}
  BY PropagationAssumption
<1>3. \A k \in EntryValues : k \in DOMAIN Bytes
  BY PropagationAssumption
<1>4. ASSUME NEW k \in EntryKeys, NEW v \in EntryValues, EditState(k, v) PROVE ctx' \in Sound
  <2> DEFINE r == TraceStateSet(ctx.sc.state, k, v)
  <2>1. r.ok /\ ctx' = [ctx EXCEPT !.sc.state = r.entries]
    BY <1>4 DEF EditState
  <2>2. r.ok = TRUE
    <3>1. r.ok \in BOOLEAN
      BY DEF TraceStateSet
    <3> HIDE DEF r
    <3> QED
      BY <2>1, <3>1
  <2>3. r.entries \in Seq(KeyValues) /\ IsTraceState(r.entries)
    BY <1>1, <1>2, <1>3, <2>2, TraceStateSetProperties
  <2> HIDE DEF r
  <2> QED
    BY <2>1, <2>3, SoundEdits
<1>5. ASSUME NEW k \in EntryKeys, NEW v \in EntryValues, EditBaggage(k, v) PROVE ctx' \in Sound
  <2> DEFINE r == BaggageSet(ctx.bag, k, v)
  <2>1. ctx' = [ctx EXCEPT !.bag = r.entries]
    BY <1>5 DEF EditBaggage
  <2>2. k \in DOMAIN Bytes /\ v \in DOMAIN Bytes
    BY <1>2, <1>3
  <2>3. r.entries \in Bags
    BY <1>1, <2>2, BaggageSetProperties DEF Bags
  <2> HIDE DEF r
  <2> QED
    BY <2>1, <2>3, SoundParts
<1>6. ASSUME NEW k \in EntryKeys, DeleteEntries(k) PROVE ctx' \in Sound
  <2> DEFINE s == Without(ctx.sc.state, k)
             b == Without(ctx.bag, k)
  <2>1. ctx' = [ctx EXCEPT !.sc.state = s, !.bag = b]
    BY <1>6 DEF DeleteEntries
  <2>2. s \in Seq(KeyValues) /\ IsTraceState(s)
    BY <1>1, WithoutProperties
  <2>3. b \in Bags
    BY <1>1, WithoutProperties DEF Bags
  <2> HIDE DEF s, b
  <2> QED
    BY <2>1, <2>2, <2>3, SoundEdits
<1> QED
  BY <1>4, <1>5, <1>6 DEF Edit

(* Every step keeps the invariant.                                         *)
LEMMA PropNextInv == PropInv /\ [PropNext]_propVars => PropInv'
<1> SUFFICES ASSUME PropInv, [PropNext]_propVars PROVE PropInv'
  OBVIOUS
<1> DEFINE Origins == [from : Sound, sent : Seq(Propagators), read : Seq(Propagators)]
<1>0. /\ ctx \in Sound /\ onWire \in BOOLEAN
      /\ carrier \in Headers /\ IsFiniteSet(carrier.uberctx)
      /\ origin \in Origins
  BY DEF PropInv
<1>1. << >> \in Seq(Propagators) /\ Composites \subseteq Seq(Propagators)
  <2>1. << >> \in Seq(Propagators)
    OBVIOUS
  <2>2. Composites \subseteq Seq(Propagators)
    BY Zenon, PropagationAssumption DEF Propagators
  <2> QED
    BY <2>1, <2>2
<1>2. NoOrigin \in Origins /\ NoOrigin.sent = << >> /\ NoOrigin.read = << >>
  BY <1>1, SoundContexts DEF NoOrigin
<1>3. CASE Edit
  <2>1. /\ ctx' \in Sound
        /\ onWire' = onWire /\ carrier' = carrier /\ origin' = NoOrigin
    <3>1. ctx' \in Sound
      BY <1>0, <1>3, EditsKeepSound
    <3> QED
      BY <1>3, <3>1 DEF Edit
  <2> HIDE DEF Origins
  <2> QED
    BY <1>0, <1>2, <2>1 DEF PropInv, Origins
<1>4. CASE Call
  <2>1. PICK ps \in Composites :
            /\ carrier' = Inject(ps, ctx, NoHeaders)
            /\ origin' = [from |-> ctx, sent |-> ps, read |-> << >>]
    BY <1>4 DEF Call
  <2>2. onWire' = TRUE /\ ctx' = ctx
    BY <1>4 DEF Call
  <2>3. ps \in Seq(Propagators)
    BY <1>1
  <2>4. carrier' = HeadersOf(ctx, Range(ps))
    BY <1>0, <2>1, <2>3, InjectSends
  <2>5. carrier' \in Headers /\ IsFiniteSet(carrier'.uberctx)
    BY <1>0, <2>4, HeadersOfType
  <2>6. origin' \in Origins /\ origin'.from = ctx /\ origin'.sent = ps /\ origin'.read = << >>
    BY <1>0, <1>1, <2>1, <2>3
  <2>7. carrier' = HeadersOf(origin'.from, Range(origin'.sent))
    BY <2>4, <2>6
  <2> QED
    BY <1>0, <2>2, <2>5, <2>6, <2>7 DEF PropInv
<1>5. CASE ForeignCall
  <2>1. carrier' \in Foreign /\ origin' = NoOrigin /\ onWire' = TRUE /\ ctx' = ctx
    BY <1>5 DEF ForeignCall
  <2>2. carrier' \in Headers /\ IsFiniteSet(carrier'.uberctx)
    BY <2>1, PropagationAssumption
  <2> HIDE DEF Origins
  <2> QED
    BY <1>0, <1>2, <2>1, <2>2 DEF PropInv, Origins
<1>6. CASE ServeRequest
  <2>1. PICK ps \in Composites, ranged \in SetToSeqs(carrier.uberctx) :
            /\ ctx' = Extract(ps, Empty, carrier, ranged)
            /\ origin' = [origin EXCEPT !.read = ps]
    BY <1>6 DEF ServeRequest
  <2>2. onWire' = FALSE /\ carrier' = carrier
    BY <1>6 DEF ServeRequest
  <2>3. ps \in Seq(Propagators)
    BY <1>1
  <2>4. ranged \in Seq(KeyValues)
    <3>1. carrier.uberctx \subseteq KeyValues
      BY <1>0 DEF Headers
    <3> QED
      BY <1>0, <3>1, OrdersOfSet
  <2>5. ctx' \in Sound
    BY <1>0, <2>1, <2>3, <2>4, ExtractsReadable
  <2>6. origin' \in Origins /\ origin'.from = origin.from /\ origin'.sent = origin.sent /\ origin'.read = ps
    BY <1>0, <2>1, <2>3
  <2>7. origin'.sent # << >> => carrier' = HeadersOf(origin'.from, Range(origin'.sent))
    BY <2>2, <2>6 DEF PropInv
  <2>8. \E o \in SetToSeqs(carrier'.uberctx) : ctx' = Extract(origin'.read, Empty, carrier', o)
    BY <2>1, <2>2, <2>6
  <2> QED
    BY <1>0, <2>2, <2>5, <2>6, <2>7, <2>8 DEF PropInv
<1>7. CASE UNCHANGED propVars
  BY <1>7 DEF PropInv, propVars
<1> QED
  BY <1>3, <1>4, <1>5, <1>6, <1>7 DEF PropNext

(* The invariant implies the property.                                     *)
LEMMA PropInvKeepsContext == PropInv => PropagationKeepsContext
<1> SUFFICES ASSUME PropInv PROVE PropagationKeepsContext
  OBVIOUS
<1>0. /\ ctx \in Sound /\ carrier \in Headers /\ IsFiniteSet(carrier.uberctx)
      /\ origin.from \in Sound /\ origin.sent \in Seq(Propagators) /\ origin.read \in Seq(Propagators)
  BY DEF PropInv
<1>1. IsContext(ctx)
  BY <1>0, SoundContexts
<1>2. ASSUME ~onWire, origin.read # << >>
      PROVE  IsValid(ctx.sc) <=> \E p \in Range(origin.read) : Readable(p, carrier)
  <2>1. PICK ranged \in SetToSeqs(carrier.uberctx) : ctx = Extract(origin.read, Empty, carrier, ranged)
    BY <1>2 DEF PropInv
  <2>2. ranged \in Seq(KeyValues)
    <3>1. carrier.uberctx \subseteq KeyValues
      BY <1>0 DEF Headers
    <3> QED
      BY <1>0, <3>1, OrdersOfSet
  <2> QED
    BY <1>0, <2>1, <2>2, ExtractsReadable
<1>3. BadHeadersAreSkipped
  BY <1>1, <1>2 DEF BadHeadersAreSkipped
<1>4. ContextSurvivesHops
  <2> SUFFICES ASSUME ~onWire, origin.sent # << >>, origin.read # << >> PROVE ContextSurvivesHops
    BY DEF ContextSurvivesHops
  <2> DEFINE from == origin.from
             sent == origin.sent
             read == origin.read
             W == PlacesOf(read, sent, Formats)
             V == PlacesOf(read, sent, BagFormats(from))
             named == Without(from.bag, "")
  <2>1. carrier = HeadersOf(from, Range(sent))
    BY DEF PropInv
  <2>2. PICK ranged \in SetToSeqs(carrier.uberctx) : ctx = Extract(read, Empty, carrier, ranged)
    BY DEF PropInv
  <2>3. ranged \in Seq(KeyValues)
    <3>1. carrier.uberctx \subseteq KeyValues
      BY <1>0 DEF Headers
    <3> QED
      BY <1>0, <3>1, OrdersOfSet
  <2>4. from \in Sound /\ sent \in Seq(Propagators) /\ read \in Seq(Propagators)
    BY <1>0
  <2>5. /\ Shared(Formats) = W /\ Shared(BagFormats(from)) = V
        /\ Deciding(Formats) = read[Max(W)] /\ Deciding(BagFormats(from)) = read[Max(V)]
    BY DEF Shared, Deciding, PlacesOf
  <2> HIDE DEF from, sent, read
  <2>6. /\ W = {} \/ ~IsValid(from.sc) => ctx.sc = NoContext
        /\ W # {} /\ IsValid(from.sc) =>
              /\ read[Max(W)] \in Formats
              /\ ctx.sc = SpanFrom(read[Max(W)], from.sc)
    BY <2>1, <2>2, <2>3, <2>4, SpanHop
  <2>7. /\ V = {} => ctx.bag = << >>
        /\ V # {} /\ read[Max(V)] = "baggage" /\ (from.bag = << >> \/ named # << >>) => ctx.bag = named
        /\ V # {} /\ read[Max(V)] # "baggage" =>
              /\ PairsOf(ctx.bag) \subseteq LowerPairs(from.bag)
              /\ KeysOf(PairsOf(ctx.bag)) = KeysOf(LowerPairs(from.bag))
              /\ Cardinality(KeysOf(PairsOf(ctx.bag))) = Len(ctx.bag)
    BY <2>1, <2>2, <2>4, BaggageArrives
  <2> HIDE DEF W, V, named
  <2> DEFINE SpanPart ==
                 IF Shared(Formats) = {} \/ ~IsValid(from.sc) THEN ctx.sc = NoContext
                 ELSE /\ ctx.sc.trace = from.sc.trace /\ ctx.sc.span = from.sc.span /\ ctx.sc.remote
                      /\ IsSampled(ctx.sc) = (IsSampled(from.sc)
                                              \/ (IsDebug(from.sc) /\ Deciding(Formats) = "jaeger"))
                      /\ ctx.sc.state = IF Deciding(Formats) = "tracecontext" THEN from.sc.state ELSE <<>>
             BagPart ==
                 IF Shared(BagFormats(from)) = {} THEN ctx.bag = << >>
                 ELSE IF Deciding(BagFormats(from)) = "baggage"
                 THEN from.bag = << >> \/ named # << >> => ctx.bag = named
                 ELSE /\ PairsOf(ctx.bag) \subseteq LowerPairs(from.bag)
                      /\ KeysOf(PairsOf(ctx.bag)) = KeysOf(LowerPairs(from.bag))
                      /\ Cardinality(KeysOf(PairsOf(ctx.bag))) = Len(ctx.bag)
  <2>8. SpanPart
    <3>1. CASE W = {} \/ ~IsValid(from.sc)
      BY <2>5, <2>6, <3>1
    <3>2. CASE W # {} /\ IsValid(from.sc)
      <4> DEFINE p == Deciding(Formats)
      <4>1. p \in Formats /\ ctx.sc = SpanFrom(p, from.sc)
        BY <2>5, <2>6, <3>2
      <4>2. from.sc \in SoundSpans
        BY <2>4, SoundParts
      <4>3. Shared(Formats) # {} /\ IsValid(from.sc)
        BY <2>5, <3>2
      <4> HIDE DEF p
      <4>4. /\ ctx.sc.trace = from.sc.trace /\ ctx.sc.span = from.sc.span /\ ctx.sc.remote
            /\ IsSampled(ctx.sc) = (IsSampled(from.sc) \/ (IsDebug(from.sc) /\ p = "jaeger"))
            /\ ctx.sc.state = IF p = "tracecontext" THEN from.sc.state ELSE << >>
        BY <4>1, <4>2, SpanFromProperties
      <4> QED
        BY <4>3, <4>4 DEF p
    <3> QED
      BY <3>1, <3>2
  <2>9. BagPart
    BY <2>5, <2>7
  <2> QED
    BY <2>8, <2>9 DEF ContextSurvivesHops, BagFormats, PairsOf, LowerPairs, KeysOf, from, named
<1> QED
  BY <1>3, <1>4 DEF PropagationKeepsContext

(* Whatever the propagators of the services are and however their headers  *)
(* come to be ranged over, every hop keeps the context as the formats the  *)
(* two sides share can carry it, and no header from outside, malformed or  *)
(* too large, hides a context or leaves one that cannot be sent on.        *)
THEOREM ContextsArePropagated == PropSpec => []PropagationKeepsContext
<1>1. PropSpec => []PropInv
  BY PropInitInv, PropNextInv, PTL DEF PropSpec
<1> QED
  BY <1>1, PropInvKeepsContext, PTL

-----------------------------------------------------------------------------
(* Converters: attributes *)

(* The places of P that have the key k.                                    *)
At(kvs, P, k) == {i \in P : kvs[i].key = k}

LEMMA OnceAt ==
    ASSUME NEW out, NEW kvs, NEW P
    PROVE  Once(out, kvs, P) <=>
             /\ {out[i].key : i \in 1 .. Len(out)} = {kvs[i].key : i \in P}
             /\ \A i, j \in 1 .. Len(out) :
                   i < j => Min(At(kvs, P, out[i].key)) < Min(At(kvs, P, out[j].key))
             /\ \A i \in 1 .. Len(out) : out[i] = kvs[Max(At(kvs, P, out[i].key))]
BY DEF Once, At

(* A key that is in the list is there once.                                *)
LEMMA OnceIsDistinct ==
    ASSUME NEW T, NEW out \in Seq(T), NEW kvs, NEW P, P \subseteq Nat, Once(out, kvs, P)
    PROVE  \A i, j \in 1 .. Len(out) : out[i].key = out[j].key => i = j
<1> SUFFICES ASSUME NEW i \in 1 .. Len(out), NEW j \in 1 .. Len(out), out[i].key = out[j].key, i # j
             PROVE  FALSE
  OBVIOUS
<1>1. Len(out) \in Nat
  BY LenProperties
<1>2. i < j \/ j < i
  BY <1>1
<1> DEFINE m == Min(At(kvs, P, out[i].key))
<1>3. m < m
  BY <1>2, OnceAt
<1>4. m \in Nat
  <2>1. out[i].key \in {kvs[n].key : n \in P}
    BY OnceAt
  <2>2. At(kvs, P, out[i].key) # {} /\ At(kvs, P, out[i].key) \subseteq Nat
    BY <2>1 DEF At
  <2>3. m \in At(kvs, P, out[i].key)
    BY <2>2, LeastPlace
  <2> QED
    BY <2>2, <2>3
<1> HIDE DEF m
<1> QED
  BY <1>3, <1>4

(* Set takes the list of what was met before to the list with one more.    *)
LEMMA SetAttributeOnce ==
    ASSUME NEW T, NEW kvs \in Seq(T), NEW n \in 1 .. Len(kvs), NEW P, P \subseteq 1 .. n - 1,
           NEW attrs \in Seq(T), Once(attrs, kvs, P)
    PROVE  Once(SetAttribute(attrs, kvs[n]), kvs, P \cup {n})
<1> DEFINE kv == kvs[n]
           same == {i \in 1 .. Len(attrs) : attrs[i].key = kv.key}
           L == Len(attrs)
           Q == P \cup {n}
           out == SetAttribute(attrs, kv)
<1>1. L \in Nat /\ Len(kvs) \in Nat /\ n \in Nat /\ n # 0
  BY LenProperties
<1>2. kv \in T /\ \A i \in 1 .. L : attrs[i] \in T
  BY ElementOfSeq
<1>3. \A k : At(kvs, Q, k) = IF kv.key = k THEN At(kvs, P, k) \cup {n} ELSE At(kvs, P, k)
  BY DEF At
<1>4. \A k : At(kvs, P, k) \subseteq 1 .. n - 1
  BY DEF At
<1>5. /\ \A i \in 1 .. L : At(kvs, P, attrs[i].key) # {}
      /\ At(kvs, P, kv.key) # {} <=> same # {}
  <2>1. {attrs[i].key : i \in 1 .. L} = {kvs[i].key : i \in P}
    BY OnceAt
  <2>2. ASSUME NEW i \in 1 .. L PROVE At(kvs, P, attrs[i].key) # {}
    <3>1. attrs[i].key \in {kvs[m].key : m \in P}
      BY <2>1
    <3> QED
      BY <3>1 DEF At
  <2>3. ASSUME At(kvs, P, kv.key) # {} PROVE same # {}
    <3>1. kv.key \in {kvs[m].key : m \in P}
      BY <2>3 DEF At
    <3>2. kv.key \in {attrs[m].key : m \in 1 .. L}
      BY <2>1, <3>1
    <3> QED
      BY <3>2
  <2>4. ASSUME same # {} PROVE At(kvs, P, kv.key) # {}
    <3>1. PICK i \in 1 .. L : attrs[i].key = kv.key
      BY <2>4
    <3> QED
      BY <2>2, <3>1
  <2> QED
    BY <2>2, <2>3, <2>4
<1>6. /\ Max(At(kvs, Q, kv.key)) = n
      /\ At(kvs, P, kv.key) = {} => Min(At(kvs, Q, kv.key)) = n
      /\ At(kvs, P, kv.key) # {} => Min(At(kvs, Q, kv.key)) = Min(At(kvs, P, kv.key))
  <2> DEFINE S == At(kvs, P, kv.key)
             U == At(kvs, Q, kv.key)
  <2>1. S \subseteq 1 .. n - 1 /\ U = S \cup {n}
    BY <1>3, <1>4
  <2> HIDE DEF S, U, kv, Q
  <2>2. /\ Max(U) = n
        /\ S # {} => Min(U) = Min(S)
        /\ S = {} => Min(U) = n
    <3>1. /\ Max(S \cup {n}) = n
          /\ S # {} => Min(S \cup {n}) = Min(S)
          /\ S = {} => Min(S \cup {n}) = n
      BY <1>1, <2>1, PlaceAdded
    <3> QED
      BY <2>1, <3>1
  <2> QED
    BY <2>2 DEF S, U
<1>7. ASSUME NEW k, At(kvs, P, k) # {} PROVE Min(At(kvs, Q, k)) = Min(At(kvs, P, k))
  <2>1. CASE kv.key = k
    BY <1>6, <1>7, <2>1
  <2>2. CASE kv.key # k
    BY <1>3, <2>2
  <2> QED
    BY <2>1, <2>2
<1>8. ASSUME NEW k, At(kvs, P, k) # {} PROVE Min(At(kvs, P, k)) \in 1 .. n - 1
  <2>1. At(kvs, P, k) \subseteq 1 .. n - 1 /\ At(kvs, P, k) \subseteq Nat
    BY <1>4
  <2>2. Min(At(kvs, P, k)) \in At(kvs, P, k)
    BY <1>8, <2>1, LeastPlace
  <2> QED
    BY <2>1, <2>2
<1>9. CASE same = {}
  <2>1. out = Append(attrs, kv)
    BY <1>9 DEF SetAttribute
  <2>2. /\ Len(out) = L + 1 /\ out[L + 1] = kv
        /\ \A i \in 1 .. L : out[i] = attrs[i]
    BY <1>2, <2>1, AppendProperties
  <2>3. At(kvs, P, kv.key) = {}
    BY <1>5, <1>9
  <2>4. {out[i].key : i \in 1 .. L + 1} = {kvs[i].key : i \in Q}
    <3>1. {attrs[i].key : i \in 1 .. L} = {kvs[i].key : i \in P}
      BY OnceAt
    <3>2. {out[i].key : i \in 1 .. L + 1} = {attrs[i].key : i \in 1 .. L} \cup {kv.key}
      <4>1. 1 .. L + 1 = (1 .. L) \cup {L + 1}
        BY <1>1
      <4>2. \A i \in 1 .. L : i \in 1 .. L + 1 /\ out[i].key = attrs[i].key
        BY <2>2, <4>1
      <4>3. out[L + 1].key = kv.key /\ L + 1 \in 1 .. L + 1
        BY <2>2, <4>1
      <4> HIDE DEF out, kv, L
      <4> QED
        BY <4>1, <4>2, <4>3
    <3> QED
      BY <3>1, <3>2
  <2>5. ASSUME NEW i \in 1 .. L + 1, NEW j \in 1 .. L + 1, i < j
        PROVE  Min(At(kvs, Q, out[i].key)) < Min(At(kvs, Q, out[j].key))
    <3>1. i \in 1 .. L /\ out[i] = attrs[i] /\ At(kvs, P, attrs[i].key) # {}
      <4>1. i \in 1 .. L
        BY <1>1, <2>5
      <4> QED
        BY <1>5, <2>2, <4>1
    <3>2. Min(At(kvs, Q, out[i].key)) = Min(At(kvs, P, attrs[i].key))
      BY <1>7, <3>1
    <3>3. CASE j = L + 1
      BY <1>1, <1>6, <1>8, <2>2, <2>3, <3>1, <3>2, <3>3
    <3>4. CASE j # L + 1
      <4>1. j \in 1 .. L /\ out[j] = attrs[j] /\ At(kvs, P, attrs[j].key) # {}
        BY <1>1, <1>5, <2>2, <3>4
      <4>2. Min(At(kvs, Q, out[j].key)) = Min(At(kvs, P, attrs[j].key))
        BY <1>7, <4>1
      <4> QED
        BY <2>5, <3>1, <3>2, <4>1, <4>2, OnceAt
    <3> QED
      BY <3>3, <3>4
  <2>6. ASSUME NEW i \in 1 .. L + 1 PROVE out[i] = kvs[Max(At(kvs, Q, out[i].key))]
    <3>1. CASE i = L + 1
      BY <1>6, <2>2, <3>1
    <3>2. CASE i # L + 1
      <4>1. i \in 1 .. L /\ out[i] = attrs[i] /\ attrs[i].key # kv.key
        BY <1>1, <1>9, <2>2, <3>2
      <4>2. At(kvs, Q, out[i].key) = At(kvs, P, attrs[i].key)
        BY <1>3, <4>1
      <4> QED
        BY <4>1, <4>2, OnceAt
    <3> QED
      BY <3>1, <3>2
  <2>10. Len(out) = L + 1
    BY <2>2
  <2> HIDE DEF out, kv, L, Q
  <2>11. Once(out, kvs, Q)
    BY <2>4, <2>5, <2>6, <2>10, OnceAt
  <2> QED
    BY <2>11 DEF out, kv, Q
<1>10. CASE same # {}
  <2> DEFINE p == Min(same)
  <2>1. same \subseteq Nat /\ p \in same
    <3>1. same \subseteq Nat
      OBVIOUS
    <3> HIDE DEF same
    <3> QED
      BY <1>10, <3>1, LeastPlace
  <2>2. out = [attrs EXCEPT ![p] = kv] /\ p \in 1 .. L /\ attrs[p].key = kv.key
    BY <1>10, <2>1 DEF SetAttribute
  <2>3. out = [i \in 1 .. L |-> IF i = p THEN kv ELSE attrs[i]]
    BY <2>2, LenProperties
  <2>4. Len(out) = L
    <3>1. out \in [1 .. L -> T]
      BY <1>2, <2>3
    <3> HIDE DEF out, L
    <3> QED
      BY <1>1, <3>1, FunctionIsSeq
  <2> HIDE DEF p
  <2>5. \A i \in 1 .. L : /\ out[i].key = attrs[i].key
                          /\ i = p => out[i] = kv
                          /\ i # p => out[i] = attrs[i]
    BY <2>2, <2>3
  <2>6. At(kvs, P, kv.key) # {}
    BY <1>5, <1>10
  <2>7. {out[i].key : i \in 1 .. L} = {kvs[i].key : i \in Q}
    <3>1. {attrs[i].key : i \in 1 .. L} = {kvs[i].key : i \in P}
      BY OnceAt
    <3>2. {out[i].key : i \in 1 .. L} = {attrs[i].key : i \in 1 .. L}
      BY <2>5
    <3>3. kv.key \in {kvs[i].key : i \in P}
      BY <2>6 DEF At
    <3> QED
      BY <3>1, <3>2, <3>3
  <2>8. ASSUME NEW i \in 1 .. L, NEW j \in 1 .. L, i < j
        PROVE  Min(At(kvs, Q, out[i].key)) < Min(At(kvs, Q, out[j].key))
    <3>1. /\ Min(At(kvs, Q, out[i].key)) = Min(At(kvs, P, attrs[i].key))
          /\ Min(At(kvs, Q, out[j].key)) = Min(At(kvs, P, attrs[j].key))
      BY <1>5, <1>7, <2>5
    <3> QED
      BY <2>8, <3>1, OnceAt
  <2>9. ASSUME NEW i \in 1 .. L PROVE out[i] = kvs[Max(At(kvs, Q, out[i].key))]
    <3>1. CASE i = p
      BY <1>6, <2>2, <2>5, <3>1
    <3>2. CASE i # p
      <4>1. attrs[i].key # kv.key
        <5>1. P \subseteq Nat
          BY <1>1
        <5>2. \A a, b \in 1 .. L : attrs[a].key = attrs[b].key => a = b
          BY <5>1, OnceIsDistinct
        <5> QED
          BY <2>2, <3>2, <5>2
      <4>2. At(kvs, Q, out[i].key) = At(kvs, P, attrs[i].key)
        BY <1>3, <2>5, <4>1
      <4> QED
        BY <2>5, <3>2, <4>2, OnceAt
    <3> QED
      BY <3>1, <3>2
  <2>10. Len(out) = L
    BY <2>4
  <2> HIDE DEF out, kv, L, Q
  <2>11. Once(out, kvs, Q)
    BY <2>7, <2>8, <2>9, <2>10, OnceAt
  <2> QED
    BY <2>11 DEF out, kv, Q
<1> QED
  BY <1>9, <1>10

(* Set keeps the list a list of items.                                     *)
LEMMA SetAttributeType ==
    ASSUME NEW T, NEW attrs \in Seq(T), NEW kv \in T
    PROVE  SetAttribute(attrs, kv) \in Seq(T)
<1> DEFINE same == {i \in 1 .. Len(attrs) : attrs[i].key = kv.key}
           p == Min(same)
<1>1. CASE same = {}
  <2>1. SetAttribute(attrs, kv) = Append(attrs, kv)
    BY <1>1 DEF SetAttribute
  <2> QED
    BY <2>1, AppendProperties
<1>2. CASE same # {}
  <2>1. same \subseteq Nat
    BY LenProperties
  <2>2. p \in same
    <3> HIDE DEF same
    <3> QED
      BY <1>2, <2>1, LeastPlace
  <2>3. SetAttribute(attrs, kv) = [attrs EXCEPT ![p] = kv] /\ p \in 1 .. Len(attrs)
    BY <1>2, <2>2 DEF SetAttribute
  <2> QED
    BY <2>3, ExceptSeq
<1> QED
  BY <1>1, <1>2

(* The loops that Set item after item go from the front.                   *)
Setting(v, kvs, P, n) == IF n \in P THEN SetAttribute(v, kvs[n]) ELSE v

SetsRounds(done, kvs, P) ==
    done[0] = << >> /\ \A n \in 1 .. Len(kvs) : done[n] = Setting(done[n - 1], kvs, P, n)

LEMMA SetAttributesRecursion ==
    ASSUME NEW T, NEW kvs \in Seq(T), NEW P
    PROVE  \E done \in [0 .. Len(kvs) -> Seq(T)] :
              SetAttributes(kvs, P) = done[Len(kvs)] /\ SetsRounds(done, kvs, P)
<1> DEFINE N == Len(kvs)
           Eq(g) == g = [n \in 0 .. N |-> IF n = 0 THEN << >>
                                           ELSE IF n \in P THEN SetAttribute(g[n - 1], kvs[n])
                                           ELSE g[n - 1]]
           done == CHOOSE g : Eq(g)
           V == Seq(T)
           e == << >>
           step == [n \in 1 .. N |-> [v \in V |-> Setting(v, kvs, P, n)]]
<1>1. N \in Nat
  BY LenProperties
<1>2. SetAttributes(kvs, P) = done[N]
  BY DEF SetAttributes
<1>3. \A n \in 1 .. N, v \in V : Setting(v, kvs, P, n) \in V
  BY SetAttributeType, ElementOfSeq DEF Setting
<1>4. e \in V
  BY EmptySeq
<1> HIDE DEF N
<1>5. step \in [1 .. N -> [V -> V]] /\ \A n \in 1 .. N, v \in V : step[n][v] = Setting(v, kvs, P, n)
  BY <1>3
<1> HIDE DEF step, V, e
<1>6. PICK f \in [0 .. N -> V] : Follows(f, N, e, step)
  BY <1>1, <1>4, <1>5, RecursionUpTo
<1>7. \A k \in 1 .. N : f[k] = Setting(f[k - 1], kvs, P, k)
  <2>1. \A k \in 1 .. N : k - 1 \in 0 .. N /\ f[k - 1] \in V
    BY <1>1
  <2> QED
    BY <1>5, <1>6, <2>1 DEF Follows
<1>8. Eq(f)
  <2>1. \A n \in 0 .. N : n = 0 \/ n \in 1 .. N
    BY <1>1
  <2>2. \A n \in 0 .. N : f[n] = IF n = 0 THEN e ELSE Setting(f[n - 1], kvs, P, n)
    BY ZenonT(30), <1>6, <1>7, <2>1 DEF Follows
  <2>3. f = [n \in 0 .. N |-> f[n]]
    OBVIOUS
  <2> QED
    BY <2>2, <2>3 DEF e, Setting
<1>9. Eq(done)
  BY ZenonT(30), <1>8
<1> HIDE DEF done
<1>10. /\ done = [n \in 0 .. N |-> done[n]]
       /\ \A n \in 0 .. N : done[n] = IF n = 0 THEN e ELSE Setting(done[n - 1], kvs, P, n)
  BY <1>9 DEF e, Setting
<1> HIDE DEF Eq
<1>11. /\ done[0] = e
       /\ \A n \in 1 .. N : done[n] = Setting(done[n - 1], kvs, P, n)
  <2>1. 0 \in 0 .. N /\ \A n \in 1 .. N : n \in 0 .. N /\ n # 0
    BY <1>1
  <2> QED
    BY <1>10, <2>1
<1>12. \A n \in 0 .. N : done[n] \in V
  BY <1>1, <1>3, <1>4, <1>11, RoundsStay
<1>13. done \in [0 .. N -> V]
  BY <1>10, <1>12
<1>14. SetsRounds(done, kvs, P)
  BY <1>11 DEF SetsRounds, N, e
<1> QED
  BY <1>2, <1>13, <1>14 DEF N, V

(* However often keys repeat, the loop ends with each of them once.        *)
LEMMA SetAttributesOnce ==
    ASSUME NEW T, NEW kvs \in Seq(T), NEW P, P \subseteq 1 .. Len(kvs)
    PROVE  SetAttributes(kvs, P) \in Seq(T) /\ Once(SetAttributes(kvs, P), kvs, P)
<1> DEFINE N == Len(kvs)
<1>8. PICK done \in [0 .. N -> Seq(T)] :
         SetAttributes(kvs, P) = done[N] /\ SetsRounds(done, kvs, P)
  BY SetAttributesRecursion
<1>2. /\ SetAttributes(kvs, P) = done[N] /\ done[0] = << >>
      /\ \A n \in 1 .. N : done[n] = Setting(done[n - 1], kvs, P, n)
  BY <1>8 DEF SetsRounds
<1>1. N \in Nat /\ P \subseteq Nat /\ P \subseteq 1 .. N
  BY LenProperties
<1>0. Rounds(P, N)
  BY <1>1, PlacesUpTo
<1> DEFINE R == {n \in 0 .. N : Once(done[n], kvs, UpTo(P, n))}
<1>3. 0 \in R
  <2>1. UpTo(P, 0) = {}
    BY <1>0 DEF Rounds
  <2>2. Len(done[0]) = 0
    BY <1>2
  <2>3. Once(done[0], kvs, {})
    BY <2>2, OnceAt
  <2> QED
    BY <1>1, <2>1, <2>3
<1>4. ASSUME NEW k \in 0 .. N, k # 0, k - 1 \in R PROVE k \in R
  <2>1. k \in 1 .. N /\ k - 1 \in 0 .. N /\ done[k - 1] \in Seq(T)
    BY <1>1, <1>4
  <2>2. Once(done[k - 1], kvs, UpTo(P, k - 1)) /\ done[k] = Setting(done[k - 1], kvs, P, k)
    BY <1>2, <1>4, <2>1
  <2>3. CASE k \in P
    <3>1. UpTo(P, k) = UpTo(P, k - 1) \cup {k} /\ UpTo(P, k - 1) \subseteq 1 .. k - 1
      BY <1>0, <2>1, <2>3 DEF Rounds
    <3>2. done[k] = SetAttribute(done[k - 1], kvs[k])
      BY <2>2, <2>3 DEF Setting
    <3>3. Once(done[k], kvs, UpTo(P, k))
      <4>1. Once(SetAttribute(done[k - 1], kvs[k]), kvs, UpTo(P, k - 1) \cup {k})
        BY ZenonT(30), <2>1, <2>2, <3>1, SetAttributeOnce
      <4> QED
        BY <3>1, <3>2, <4>1
    <3> QED
      BY <3>3
  <2>4. CASE k \notin P
    <3>1. UpTo(P, k) = UpTo(P, k - 1)
      BY <1>0, <2>1, <2>4 DEF Rounds
    <3>2. done[k] = done[k - 1]
      BY <2>2, <2>4 DEF Setting
    <3> QED
      BY <2>2, <3>1, <3>2
  <2> QED
    BY <2>3, <2>4
<1>5. \A k \in 0 .. N : k \in R
  <2> HIDE DEF R, N
  <2> QED
    BY <1>1, <1>3, <1>4, InductionUpTo
<1>6. UpTo(P, N) = P
  BY <1>0 DEF Rounds
<1>7. N \in R /\ done[N] \in Seq(T)
  <2>1. N \in 0 .. N
    BY <1>1
  <2> HIDE DEF R
  <2> QED
    BY <1>5, <2>1
<1> QED
  BY <1>2, <1>6, <1>7

(* What is true of one item of the list.                                   *)
LEMMA OnceItem ==
    ASSUME NEW out, NEW kvs, NEW n \in Nat, NEW P, P \subseteq 1 .. n, Once(out, kvs, P),
           NEW i \in 1 .. Len(out)
    PROVE  LET m == Max(At(kvs, P, out[i].key))
           IN  m \in P /\ out[i] = kvs[m]
<1> DEFINE S == At(kvs, P, out[i].key)
<1>1. out[i].key \in {kvs[j].key : j \in P} /\ out[i] = kvs[Max(S)]
  BY OnceAt
<1>2. S # {} /\ S \subseteq P /\ S \subseteq 1 .. n
  BY <1>1 DEF At
<1> HIDE DEF S
<1>3. Max(S) \in S
  BY <1>2, GreatestPlace
<1> QED
  BY <1>1, <1>2, <1>3 DEF S

(* What Go's types call a sequence is one.                                 *)
LEMMA SequenceIsSeq ==
    ASSUME NEW s, IsSequence(s)
    PROVE  s \in Seq({s[i] : i \in 1 .. Len(s)}) /\ Len(s) \in Nat
<1> DEFINE T == {s[i] : i \in 1 .. Len(s)}
<1>1. Len(s) \in Nat /\ s = [i \in 1 .. Len(s) |-> s[i]]
  BY DEF IsSequence
<1>2. s \in [1 .. Len(s) -> T]
  BY <1>1
<1> HIDE DEF T
<1>3. s \in Seq(T)
  BY <1>1, <1>2, FunctionIsSeq
<1> QED
  BY <1>1, <1>3 DEF T

-----------------------------------------------------------------------------
(* Converters: Jaeger *)

(* The five value types go to OTLP and back.                               *)
LEMMA ValueAndBack ==
    ASSUME NEW kv, kv = [key |-> kv.key, vtype |-> kv.vtype, val |-> kv.val],
           kv.vtype \in DOMAIN VTypes
    PROVE  anyValueToKV(kv.key, kvToAnyValue(kv)) = kv
<1> DEFINE v == kvToAnyValue(kv)
           t == CHOOSE u \in DOMAIN VTypes : VTypes[u] = v.type
<1>1. v.type = VTypes[kv.vtype] /\ v.val = kv.val
  BY DEF kvToAnyValue
<1>2. \A a, b \in DOMAIN VTypes : VTypes[a] = VTypes[b] => a = b
  BY DEF VTypes
<1> HIDE DEF v
<1>3. t \in DOMAIN VTypes /\ VTypes[t] = v.type
  BY <1>1
<1>4. t = kv.vtype
  BY <1>1, <1>2, <1>3
<1>5. anyValueToKV(kv.key, v) = [key |-> kv.key, vtype |-> t, val |-> v.val]
  BY <1>1 DEF anyValueToKV
<1> QED
  BY <1>1, <1>4, <1>5 DEF v

(* The attributes of a tag list have its places and its keys.              *)
LEMMA AttributesOfTags ==
    ASSUME NEW kvs, AreTags(kvs)
    PROVE  LET as == AsAttributes(kvs)
           IN  /\ as \in Seq({as[i] : i \in 1 .. Len(kvs)})
               /\ Len(as) = Len(kvs) /\ Len(kvs) \in Nat
               /\ \A i \in 1 .. Len(kvs) :
                     /\ as[i] = [key |-> kvs[i].key, value |-> kvToAnyValue(kvs[i])]
                     /\ as[i].key = kvs[i].key
               /\ \A P, k : P \subseteq 1 .. Len(kvs) => At(as, P, k) = At(kvs, P, k)
<1> DEFINE as == AsAttributes(kvs)
           n == Len(kvs)
           T == {as[i] : i \in 1 .. n}
<1>1. n \in Nat
  BY DEF AreTags, IsSequence
<1>2. \A i \in 1 .. n : /\ as[i] = [key |-> kvs[i].key, value |-> kvToAnyValue(kvs[i])]
                        /\ as[i].key = kvs[i].key
  BY DEF AsAttributes
<1>3. as \in [1 .. n -> T]
  BY DEF AsAttributes
<1>4. as \in Seq(T) /\ Len(as) = n
  <2> HIDE DEF T, as, n
  <2> QED
    BY <1>1, <1>3, FunctionIsSeq
<1>5. \A P, k : P \subseteq 1 .. n => At(as, P, k) = At(kvs, P, k)
  <2> HIDE DEF as, n
  <2> QED
    BY <1>2 DEF At
<1> QED
  BY <1>1, <1>2, <1>4, <1>5

(* Tags that went to OTLP and came back.                                   *)
LEMMA TagsAndBack ==
    ASSUME NEW kvs, AreTags(kvs), NEW P, P \subseteq 1 .. Len(kvs),
           NEW T, NEW out \in Seq(T), Once(out, AsAttributes(kvs), P)
    PROVE  /\ Once(AsTags(out), kvs, P) /\ Len(AsTags(out)) = Len(out)
           /\ AsTags(out) \in Seq({kvs[i] : i \in 1 .. Len(kvs)})
<1> DEFINE as == AsAttributes(kvs)
           tags == AsTags(out)
           L == Len(out)
           K == {kvs[i] : i \in 1 .. Len(kvs)}
<1>1. /\ Len(kvs) \in Nat
      /\ \A i \in 1 .. Len(kvs) : as[i] = [key |-> kvs[i].key, value |-> kvToAnyValue(kvs[i])]
      /\ \A k : At(as, P, k) = At(kvs, P, k)
      /\ \A i \in 1 .. Len(kvs) : as[i].key = kvs[i].key
  BY AttributesOfTags
<1>2. L \in Nat
  BY LenProperties
<1>3. ASSUME NEW i \in 1 .. L
      PROVE  tags[i] = kvs[Max(At(kvs, P, out[i].key))] /\ tags[i].key = out[i].key
             /\ tags[i] \in K
  <2> DEFINE m == Max(At(as, P, out[i].key))
  <2>1. m \in P /\ out[i] = as[m]
    <3> DEFINE N == Len(kvs)
    <3>1. N \in Nat /\ P \subseteq 1 .. N /\ Once(out, as, P)
      BY <1>1
    <3> HIDE DEF N, as
    <3> QED
      BY <3>1, OnceItem
  <2>2. m = Max(At(kvs, P, out[i].key))
    BY <1>1
  <2> HIDE DEF m, as
  <2>3. out[i].key = kvs[m].key /\ out[i].value = kvToAnyValue(kvs[m]) /\ m \in 1 .. Len(kvs)
    <3>1. m \in 1 .. Len(kvs)
      BY <2>1
    <3>2. as[m] = [key |-> kvs[m].key, value |-> kvToAnyValue(kvs[m])]
      BY <1>1, <3>1
    <3> QED
      BY <2>1, <3>1, <3>2
  <2>4. anyValueToKV(kvs[m].key, kvToAnyValue(kvs[m])) = kvs[m]
    <3>1. /\ kvs[m] = [key |-> kvs[m].key, vtype |-> kvs[m].vtype, val |-> kvs[m].val]
          /\ kvs[m].vtype \in DOMAIN VTypes
      BY <2>3 DEF AreTags
    <3> QED
      BY <3>1, ValueAndBack
  <2>5. tags[i] = anyValueToKV(out[i].key, out[i].value)
    BY DEF AsTags
  <2> QED
    BY <2>2, <2>3, <2>4, <2>5
<1>4. tags \in Seq(K) /\ Len(tags) = L
  <2>1. tags = [i \in 1 .. L |-> tags[i]]
    BY DEF AsTags
  <2> HIDE DEF tags, K, L
  <2>2. tags \in [1 .. L -> K]
    BY <1>3, <2>1
  <2> QED
    BY <1>2, <2>2, FunctionIsSeq
<1>5. Once(tags, kvs, P)
  <2>1. {out[i].key : i \in 1 .. L} = {as[i].key : i \in P}
    BY OnceAt
  <2>2. {tags[i].key : i \in 1 .. L} = {out[i].key : i \in 1 .. L}
    <3> HIDE DEF tags, L
    <3> QED
      BY <1>3
  <2>3. {as[i].key : i \in P} = {kvs[i].key : i \in P}
    <3> HIDE DEF as
    <3> QED
      BY <1>1
  <2>4. ASSUME NEW i \in 1 .. L, NEW j \in 1 .. L, i < j
        PROVE  Min(At(kvs, P, tags[i].key)) < Min(At(kvs, P, tags[j].key))
    <3>1. Min(At(as, P, out[i].key)) < Min(At(as, P, out[j].key))
      BY <2>4, OnceAt
    <3> HIDE DEF tags, as
    <3> QED
      BY <1>1, <1>3, <3>1
  <2>5. ASSUME NEW i \in 1 .. L PROVE tags[i] = kvs[Max(At(kvs, P, tags[i].key))]
    <3> HIDE DEF tags, as
    <3> QED
      BY <1>3
  <2> HIDE DEF tags, as, L
  <2> QED
    BY <1>4, <2>1, <2>2, <2>3, <2>4, <2>5, OnceAt
<1> QED
  BY <1>4, <1>5

(* A time that fits is the same in microseconds after the way back.        *)
LEMMA TimeAndBack ==
    ASSUME NEW t \in Nat, Fits(t)
    PROVE  Nano(t) = t * 1000 /\ Nano(t) \div 1000 = t
<1> DEFINE x == t * 1000
<1>1. x \in Nat /\ x < NanoRange /\ NanoRange \in Nat /\ NanoRange > 0
  BY ConvertersAssumption DEF Fits, NanosPerMicro
<1>2. x % NanoRange = x
  <2> HIDE DEF x
  <2> QED
    BY <1>1
<1>3. x \div 1000 = t
  OBVIOUS
<1> QED
  BY <1>2, <1>3 DEF Nano, NanosPerMicro

(* A time in nanoseconds is a natural number.                              *)
LEMMA NanoType == ASSUME NEW t \in Nat PROVE Nano(t) \in Nat
<1> DEFINE x == t * 1000
<1>1. x \in Nat /\ NanoRange \in Nat /\ NanoRange > 0
  BY ConvertersAssumption
<1>2. x % NanoRange \in Nat
  <2> HIDE DEF x
  <2> QED
    BY <1>1
<1> QED
  BY <1>2 DEF Nano, NanosPerMicro

(* A span whose start and end fit keeps both.                              *)
LEMMA TimesAndBack ==
    ASSUME NEW t \in Nat, NEW d \in Nat, Fits(t + d)
    PROVE  LET a == Nano(t)
               b == Nano(t + d)
           IN  a \div 1000 = t /\ (IF b > a THEN (b - a) \div 1000 ELSE 0) = d
<1>1. t + d \in Nat /\ Fits(t)
  <2>1. (t + d) * 1000 < NanoRange /\ NanoRange \in Nat
    BY ConvertersAssumption DEF Fits, NanosPerMicro
  <2>2. t * 1000 < NanoRange
    BY <2>1
  <2> QED
    BY <2>2 DEF Fits, NanosPerMicro
<1>2. Nano(t) = t * 1000 /\ Nano(t) \div 1000 = t /\ Nano(t + d) = (t + d) * 1000
  BY <1>1, TimeAndBack
<1>3. (IF (t + d) * 1000 > t * 1000 THEN ((t + d) * 1000 - t * 1000) \div 1000 ELSE 0) = d
  OBVIOUS
<1> QED
  BY <1>2, <1>3

(* An event as a log: the part of spanFromOTLP that goes through events.   *)
LogOf(e) == [time |-> e.time \div 1000,
             fields |-> <<[key |-> "event", vtype |-> "string", val |-> e.name]>>
                        \o AsTags(e.attributes)]

LEMMA LogAndBack ==
    ASSUME NEW l, l.time \in Nat, AreTags(l.fields)
    PROVE  LogKept(l, LogOf(LogToEvent(l)))
<1> DEFINE e == LogToEvent(l)
           f == l.fields
           names == EventNames(f)
           name == IF names = {} THEN "" ELSE f[Max(names)].val
           P == (1 .. Len(f)) \ names
           as == AsAttributes(f)
           attrs == SetAttributes(as, P)
           tags == AsTags(attrs)
           first == [key |-> "event", vtype |-> "string", val |-> name]
           m == LogOf(e)
<1>1. e.time = Nano(l.time) /\ e.name = name /\ e.attributes = attrs
  BY DEF LogToEvent, Zero
<1>2. m.time = Nano(l.time) \div 1000 /\ m.fields = <<first>> \o tags
  <2> HIDE DEF e, name, attrs
  <2> QED
    BY <1>1 DEF LogOf
<1>3. P \subseteq 1 .. Len(f)
  OBVIOUS
<1>4. Once(tags, f, P) /\ tags \in Seq({f[i] : i \in 1 .. Len(f)})
  <2> DEFINE T == {as[i] : i \in 1 .. Len(f)}
  <2>1. as \in Seq(T) /\ Len(as) = Len(f)
    BY AttributesOfTags
  <2> HIDE DEF T, P
  <2>2. attrs \in Seq(T) /\ Once(attrs, as, P)
    <3> HIDE DEF as, f
    <3> QED
      BY <1>3, <2>1, SetAttributesOnce
  <2> HIDE DEF f, attrs
  <2>3. AreTags(f)
    BY DEF f
  <2> QED
    BY <1>3, <2>2, <2>3, TagsAndBack
<1>5. Head(m.fields) = first /\ Tail(m.fields) = tags
  <2> HIDE DEF tags, first, m
  <2> QED
    BY <1>2, <1>4, HeadAndTail
<1>6. Fits(l.time) => m.time = l.time
  <2> HIDE DEF m
  <2> QED
    BY <1>2, TimeAndBack
<1> HIDE DEF m, tags
<1> QED
  BY <1>4, <1>5, <1>6 DEF LogKept, m

(* The fields of a span that the converter fills.                          *)
LEMMA JaegerSpanFields ==
    ASSUME NEW s
    PROVE  LET o == jaegerSpanToOTLP(s)
           IN  /\ o.traceID = <<s.high, s.low>> /\ o.spanID = s.spanID /\ o.name = s.op
               /\ o.parentSpanID = ParentOf(s.refs)
               /\ o.start = Nano(s.start) /\ o.end = Nano(s.start + s.dur)
               /\ o.attributes = SetAttributes(AsAttributes(s.tags), 1 .. Len(s.tags))
               /\ o.events = [i \in 1 .. Len(s.logs) |-> LogToEvent(s.logs[i])]
<1> DEFINE attrs == SetAttributes(AsAttributes(s.tags), 1 .. Len(s.tags))
           kind == KindOf(attrs)
           parent == ParentOf(s.refs)
           start == Nano(s.start)
           end == Nano(s.start + s.dur)
           events == [i \in 1 .. Len(s.logs) |-> LogToEvent(s.logs[i])]
           z == Zero.Span
<1>1. z = [traceID |-> 0, spanID |-> 0, traceState |-> "", parentSpanID |-> 0,
           name |-> "", kind |-> 0, start |-> 0, end |-> 0, attributes |-> <<>>,
           events |-> <<>>, links |-> <<>>, status |-> ZeroStatus,
           droppedAttributes |-> 0, droppedEvents |-> 0, droppedLinks |-> 0]
  BY DEF Zero
<1>2. jaegerSpanToOTLP(s) =
        [z EXCEPT !.traceID = <<s.high, s.low>>, !.spanID = s.spanID,
           !.parentSpanID = parent, !.name = s.op, !.kind = kind,
           !.start = start, !.end = end, !.attributes = attrs, !.events = events]
  BY DEF jaegerSpanToOTLP
<1> HIDE DEF attrs, kind, parent, start, end, events, z
<1>3. LET o == jaegerSpanToOTLP(s)
      IN  /\ o.traceID = <<s.high, s.low>> /\ o.spanID = s.spanID /\ o.name = s.op
          /\ o.parentSpanID = parent /\ o.start = start /\ o.end = end
          /\ o.attributes = attrs /\ o.events = events
  BY <1>1, <1>2
<1> QED
  BY <1>3 DEF attrs, parent, start, end, events

(* All the tags of a list that went to OTLP and came back.                 *)
LEMMA AllTagsAndBack ==
    ASSUME NEW kvs, AreTags(kvs)
    PROVE  LET attrs == SetAttributes(AsAttributes(kvs), 1 .. Len(kvs))
           IN  /\ attrs \in Seq({AsAttributes(kvs)[i] : i \in 1 .. Len(kvs)})
               /\ Once(attrs, AsAttributes(kvs), 1 .. Len(kvs))
               /\ Once(AsTags(attrs), kvs, 1 .. Len(kvs))
<1> DEFINE as == AsAttributes(kvs)
           T == {as[i] : i \in 1 .. Len(kvs)}
           P == 1 .. Len(kvs)
           attrs == SetAttributes(as, P)
<1>1. as \in Seq(T) /\ Len(as) = Len(kvs)
  BY AttributesOfTags
<1>2. P \subseteq 1 .. Len(kvs) /\ P \subseteq 1 .. Len(as)
  BY <1>1
<1> HIDE DEF T, P
<1>3. attrs \in Seq(T) /\ Once(attrs, as, P)
  <2> HIDE DEF as
  <2> QED
    BY <1>1, <1>2, SetAttributesOnce
<1>4. Once(AsTags(attrs), kvs, P)
  <2> HIDE DEF attrs
  <2> QED
    BY <1>2, <1>3, TagsAndBack
<1> QED
  BY <1>3, <1>4 DEF T, P

(* A span that went to OTLP and came back.                                 *)
LEMMA JaegerSpanAndBack ==
    ASSUME NEW s, s.start \in Nat, s.dur \in Nat, AreTags(s.tags), IsSequence(s.logs),
           \A i \in 1 .. Len(s.logs) : s.logs[i].time \in Nat /\ AreTags(s.logs[i].fields)
    PROVE  JaegerSpanKept(s, spanFromOTLP(jaegerSpanToOTLP(s)))
<1> DEFINE o == jaegerSpanToOTLP(s)
           t == spanFromOTLP(o)
           N == Len(s.logs)
           parent == ParentOf(s.refs)
           attrs == SetAttributes(AsAttributes(s.tags), 1 .. Len(s.tags))
<1>1. /\ o.traceID = <<s.high, s.low>> /\ o.spanID = s.spanID /\ o.name = s.op
      /\ o.parentSpanID = parent
      /\ o.start = Nano(s.start) /\ o.end = Nano(s.start + s.dur)
      /\ o.attributes = attrs
      /\ o.events = [i \in 1 .. N |-> LogToEvent(s.logs[i])]
  BY JaegerSpanFields
<1>2. N \in Nat
  BY DEF IsSequence
<1>3. Len(o.events) = N /\ \A i \in 1 .. N : o.events[i] = LogToEvent(s.logs[i])
  <2> DEFINE es == [i \in 1 .. N |-> LogToEvent(s.logs[i])]
             E == {es[i] : i \in 1 .. N}
  <2>1. es \in [1 .. N -> E] /\ o.events = es
    BY <1>1
  <2>2. \A i \in 1 .. N : es[i] = LogToEvent(s.logs[i])
    OBVIOUS
  <2> HIDE DEF es, E, N, o
  <2>3. Len(es) = N
    BY <1>2, <2>1, FunctionIsSeq
  <2> QED
    BY <2>1, <2>2, <2>3
<1> HIDE DEF o, attrs, parent
<1>4. /\ t.high = s.high /\ t.low = s.low /\ t.spanID = s.spanID /\ t.op = s.op
      /\ t.refs = IF parent = 0 THEN <<>> ELSE <<[type |-> "ChildOf", spanID |-> parent]>>
      /\ t.start = o.start \div 1000
      /\ t.dur = IF o.end > o.start THEN (o.end - o.start) \div 1000 ELSE 0
      /\ t.tags = AsTags(attrs)
  BY <1>1 DEF spanFromOTLP, NanosPerMicro, When
<1>5. t.logs = [i \in 1 .. N |-> LogOf(o.events[i])]
  BY <1>3 DEF spanFromOTLP, NanosPerMicro, LogOf
<1> HIDE DEF t
<1>6. ASSUME Fits(s.start + s.dur) PROVE t.start = s.start /\ t.dur = s.dur
  <2> DEFINE a == Nano(s.start)
             b == Nano(s.start + s.dur)
  <2>1. a \div 1000 = s.start /\ (IF b > a THEN (b - a) \div 1000 ELSE 0) = s.dur
    BY <1>6, TimesAndBack
  <2>2. o.start = a /\ o.end = b
    BY <1>1
  <2> HIDE DEF a, b
  <2> QED
    BY <1>4, <2>1, <2>2
<1>7. Once(t.tags, s.tags, 1 .. Len(s.tags))
  BY <1>4, AllTagsAndBack DEF attrs
<1>8. Len(t.logs) = N /\ \A i \in 1 .. N : LogKept(s.logs[i], t.logs[i])
  <2> DEFINE ls == [i \in 1 .. N |-> LogOf(o.events[i])]
             E == {ls[i] : i \in 1 .. N}
  <2>1. ls \in [1 .. N -> E] /\ t.logs = ls
    BY <1>5
  <2>2. \A i \in 1 .. N : ls[i] = LogOf(LogToEvent(s.logs[i]))
    BY <1>3
  <2>3. \A i \in 1 .. N : LogKept(s.logs[i], ls[i])
    BY <2>2, LogAndBack
  <2> HIDE DEF ls, E, N
  <2>4. Len(ls) = N
    BY <1>2, <2>1, FunctionIsSeq
  <2> QED
    BY <2>1, <2>3, <2>4
<1>9. <<t.high, t.low, t.spanID, t.op>> = <<s.high, s.low, s.spanID, s.op>>
  BY <1>4
<1>10. t.refs = IF parent = 0 THEN <<>> ELSE <<[type |-> "ChildOf", spanID |-> parent]>>
  BY <1>4
<1> HIDE DEF N
<1>11. JaegerSpanKept(s, t)
  BY <1>6, <1>7, <1>8, <1>9, <1>10 DEF JaegerSpanKept, N, parent
<1> QED
  BY <1>11 DEF t, o

(* An item in front whose place does not count changes nothing.            *)
LEMMA OnceShifted ==
    ASSUME NEW out, NEW kvs, NEW more, NEW n \in Nat, NEW Q, Q \subseteq 1 .. n,
           NEW P, P = {i + 1 : i \in Q},
           \A i \in 1 .. n : more[i + 1] = kvs[i],
           Once(out, more, P)
    PROVE  Once(out, kvs, Q)
<1>1. \A k : At(more, P, k) = {i + 1 : i \in At(kvs, Q, k)}
  <2> SUFFICES ASSUME NEW k PROVE At(more, P, k) = {i + 1 : i \in At(kvs, Q, k)}
    OBVIOUS
  <2>1. \A i \in Q : more[i + 1] = kvs[i]
    OBVIOUS
  <2> QED
    BY <2>1 DEF At
<1>2. \A k : At(kvs, Q, k) \subseteq 1 .. n
  BY DEF At
<1>3. {more[i].key : i \in P} = {kvs[i].key : i \in Q}
  <2>1. \A i \in Q : more[i + 1] = kvs[i] /\ i + 1 \in P
    OBVIOUS
  <2>2. \A j \in P : \E i \in Q : j = i + 1
    OBVIOUS
  <2>3. \A j \in P : \E i \in Q : more[j].key = kvs[i].key
    BY <2>1, <2>2
  <2>4. \A i \in Q : \E j \in P : more[j].key = kvs[i].key
    BY <2>1
  <2> QED
    BY <2>3, <2>4
<1>4. ASSUME NEW i \in 1 .. Len(out)
      PROVE  At(kvs, Q, out[i].key) # {}
  <2>1. out[i].key \in {kvs[j].key : j \in Q}
    BY <1>3, OnceAt
  <2> QED
    BY <2>1 DEF At
<1>5. ASSUME NEW i \in 1 .. Len(out)
      PROVE  LET S == At(kvs, Q, out[i].key)
                 U == At(more, P, out[i].key)
             IN  /\ Min(U) = Min(S) + 1 /\ Max(U) = Max(S) + 1
                 /\ Min(S) \in Nat /\ Max(S) \in 1 .. n
  <2> DEFINE S == At(kvs, Q, out[i].key)
             U == At(more, P, out[i].key)
  <2>1. S \subseteq 1 .. n /\ S # {} /\ U = {j + 1 : j \in S} /\ S \subseteq Nat
    <3>1. S \subseteq 1 .. n
      BY Zenon, <1>2
    <3>2. U = {j + 1 : j \in S}
      BY Zenon, <1>1
    <3> HIDE DEF U
    <3> QED
      BY <1>4, <3>1, <3>2
  <2> HIDE DEF S, U
  <2>2. Min(U) = Min(S) + 1 /\ Max(U) = Max(S) + 1
    <3> DEFINE V == {j + 1 : j \in S}
    <3>1. Min(V) = Min(S) + 1 /\ Max(V) = Max(S) + 1
      BY <2>1, ShiftedPlaces
    <3> HIDE DEF V
    <3>2. U = V
      BY <2>1 DEF V
    <3> QED
      BY <3>1, <3>2
  <2>3. Min(S) \in S /\ Max(S) \in S
    BY <2>1, LeastPlace, GreatestPlace
  <2>4. Min(S) \in Nat /\ Max(S) \in 1 .. n
    BY <2>1, <2>3
  <2> QED
    BY <2>2, <2>4 DEF S, U
<1>6. ASSUME NEW i \in 1 .. Len(out), NEW j \in 1 .. Len(out), i < j
      PROVE  Min(At(kvs, Q, out[i].key)) < Min(At(kvs, Q, out[j].key))
  <2> DEFINE a == Min(At(kvs, Q, out[i].key))
             b == Min(At(kvs, Q, out[j].key))
             c == Min(At(more, P, out[i].key))
             d == Min(At(more, P, out[j].key))
  <2>1. c < d
    BY <1>6, OnceAt
  <2>2. c = a + 1 /\ a \in Nat
    BY <1>5
  <2>3. d = b + 1 /\ b \in Nat
    BY <1>5
  <2> HIDE DEF a, b, c, d
  <2>4. a < b
    BY <2>1, <2>2, <2>3
  <2> QED
    BY <2>4 DEF a, b
<1>7. ASSUME NEW i \in 1 .. Len(out) PROVE out[i] = kvs[Max(At(kvs, Q, out[i].key))]
  <2>1. out[i] = more[Max(At(more, P, out[i].key))]
    BY OnceAt
  <2> QED
    BY <1>5, <2>1
<1>8. {out[i].key : i \in 1 .. Len(out)} = {kvs[i].key : i \in Q}
  BY <1>3, OnceAt
<1> QED
  BY <1>6, <1>7, <1>8, OnceAt

(* A list without its items of one key, and their places.                  *)
Others(attrs, key) ==
    {attrs[i] : i \in (1 .. Len(attrs)) \ {j \in 1 .. Len(attrs) : attrs[j].key = key}}
OtherPlaces(kvs, n, key) == {i \in 1 .. n : kvs[i].key # key}

LEMMA OnceWithout ==
    ASSUME NEW T, NEW attrs \in Seq(T), NEW kvs, NEW n \in Nat, NEW key,
           Once(attrs, kvs, 1 .. n)
    PROVE  /\ Keep(attrs, Others(attrs, key)) \in Seq(T)
           /\ Once(Keep(attrs, Others(attrs, key)), kvs, OtherPlaces(kvs, n, key))
<1> DEFINE named == {i \in 1 .. Len(attrs) : attrs[i].key = key}
           others == {attrs[i] : i \in (1 .. Len(attrs)) \ named}
           P == {i \in 1 .. n : kvs[i].key # key}
           A == 1 .. n
           L == Len(attrs)
           kept == Keep(attrs, others)
           M == Len(kept)
<1>1. kept \in Seq(T) /\ ToSet(kept) = ToSet(attrs) \cap others /\ InOrderOf(kept, attrs)
  <2> HIDE DEF others
  <2> QED
    BY KeepProperties
<1>2. /\ DOMAIN attrs = 1 .. L /\ L \in Nat
      /\ DOMAIN kept = 1 .. M /\ M \in Nat
  BY <1>1, LenProperties
<1>3. \A k : k # key => At(kvs, P, k) = At(kvs, A, k)
  BY DEF At
<1>4. others \subseteq ToSet(attrs)
  BY <1>2 DEF ToSet
<1>5. \A x \in others : x.key # key /\ \E i \in 1 .. L : x = attrs[i]
  OBVIOUS
<1>6. \A i \in 1 .. L : attrs[i].key # key => attrs[i] \in others
  OBVIOUS
<1> HIDE DEF kept, others, M
<1>7. /\ \A i \in 1 .. M : kept[i] \in others
      /\ \A x \in others : \E i \in 1 .. M : kept[i] = x
  BY <1>1, <1>2, <1>4 DEF ToSet
<1>8. {kept[i].key : i \in 1 .. M} = {kvs[i].key : i \in P}
  <2>0. {attrs[i].key : i \in 1 .. L} = {kvs[i].key : i \in A}
    BY OnceAt
  <2>1. ASSUME NEW i \in 1 .. M PROVE \E j \in P : kept[i].key = kvs[j].key
    <3>1. PICK a \in 1 .. L : kept[i] = attrs[a] /\ attrs[a].key # key
      BY <1>5, <1>7
    <3>2. PICK j \in A : attrs[a].key = kvs[j].key
      <4>1. attrs[a].key \in {kvs[j].key : j \in A}
        BY <2>0
      <4> QED
        BY <4>1
    <3> QED
      BY <3>1, <3>2
  <2>2. ASSUME NEW j \in P PROVE \E i \in 1 .. M : kept[i].key = kvs[j].key
    <3>1. kvs[j].key \in {kvs[i].key : i \in A} /\ kvs[j].key # key
      OBVIOUS
    <3>2. PICK a \in 1 .. L : attrs[a].key = kvs[j].key
      BY <2>0, <3>1
    <3>3. attrs[a] \in others
      BY <1>6, <3>1, <3>2
    <3> QED
      BY <1>7, <3>2, <3>3
  <2> HIDE DEF P
  <2> QED
    BY <2>1, <2>2
<1>9. ASSUME NEW i \in 1 .. M, NEW j \in 1 .. M, i < j
      PROVE  Min(At(kvs, P, kept[i].key)) < Min(At(kvs, P, kept[j].key))
  <2>0. i \in DOMAIN kept /\ j \in DOMAIN kept
    BY <1>2
  <2>5. PICK k \in DOMAIN attrs, l \in DOMAIN attrs :
           k < l /\ attrs[k] = kept[i] /\ attrs[l] = kept[j]
    BY <1>1, <1>9, <2>0 DEF InOrderOf
  <2>1. k \in 1 .. L /\ l \in 1 .. L /\ k < l /\ attrs[k] = kept[i] /\ attrs[l] = kept[j]
    BY <1>2, <2>5
  <2>2. Min(At(kvs, A, attrs[k].key)) < Min(At(kvs, A, attrs[l].key))
    BY <2>1, OnceAt
  <2>3. kept[i].key # key /\ kept[j].key # key
    BY <1>5, <1>7
  <2>4. /\ At(kvs, P, kept[i].key) = At(kvs, A, attrs[k].key)
        /\ At(kvs, P, kept[j].key) = At(kvs, A, attrs[l].key)
    <3> HIDE DEF P, A
    <3> QED
      BY <1>3, <2>1, <2>3
  <2> QED
    BY <2>2, <2>4
<1>10. ASSUME NEW i \in 1 .. M PROVE kept[i] = kvs[Max(At(kvs, P, kept[i].key))]
  <2>1. PICK a \in 1 .. L : kept[i] = attrs[a] /\ kept[i].key # key
    BY <1>5, <1>7
  <2>2. attrs[a] = kvs[Max(At(kvs, A, attrs[a].key))]
    BY OnceAt
  <2>3. At(kvs, P, kept[i].key) = At(kvs, A, attrs[a].key)
    <3> HIDE DEF P, A
    <3> QED
      BY <1>3, <2>1
  <2> QED
    BY <2>1, <2>2, <2>3
<1>11. Once(kept, kvs, P)
  <2> HIDE DEF P
  <2> QED
    BY <1>8, <1>9, <1>10, OnceAt DEF M
<1>12. others = Others(attrs, key) /\ P = OtherPlaces(kvs, n, key)
  BY DEF others, Others, OtherPlaces
<1> HIDE DEF P
<1> QED
  BY <1>1, <1>11, <1>12 DEF kept

(* The service in front of the process tags.                               *)
LEMMA ProcessTagsProperties ==
    ASSUME NEW b, AreTags(b.tags)
    PROVE  LET process == ProcessTags(b)
               n == Len(b.tags)
           IN  /\ AreTags(process) /\ n \in Nat /\ Len(process) = n + 1
               /\ process[1].key = "service.name"
               /\ \A i \in 1 .. n : process[i + 1] = b.tags[i]
<1> DEFINE x == [key |-> "service.name", vtype |-> "string", val |-> b.service]
           process == ProcessTags(b)
           n == Len(b.tags)
           U == {b.tags[i] : i \in 1 .. n} \cup {x}
           u == <<x>>
           t == b.tags
<1>1. t \in Seq(U) /\ n \in Nat
  <2>1. IsSequence(t)
    BY DEF AreTags
  <2>2. n \in Nat /\ t = [i \in 1 .. n |-> t[i]]
    BY <2>1 DEF IsSequence
  <2>3. t \in [1 .. n -> U]
    BY <2>2
  <2> HIDE DEF U, t, n
  <2> QED
    BY <2>2, <2>3, FunctionIsSeq
<1>2. u \in Seq(U) /\ Len(u) = 1 /\ u[1] = x
  OBVIOUS
<1> HIDE DEF U, u, x, t
<1>3. /\ u \o t \in Seq(U) /\ Len(u \o t) = 1 + Len(t)
      /\ \A i \in 1 .. 1 + Len(t) : (u \o t)[i] = IF i <= 1 THEN u[i] ELSE t[i - 1]
  <2>1. /\ u \o t \in Seq(U) /\ Len(u \o t) = Len(u) + Len(t)
        /\ \A i \in 1 .. Len(u) + Len(t) :
              (u \o t)[i] = IF i <= Len(u) THEN u[i] ELSE t[i - Len(u)]
    BY <1>1, <1>2, ConcatProperties
  <2> QED
    BY <1>2, <2>1
<1>4. process = u \o t /\ Len(t) = n
  BY DEF ProcessTags, u, x, t
<1> HIDE DEF process
<1>5. process \in Seq(U) /\ Len(process) = n + 1
  BY <1>1, <1>3, <1>4
<1>6. process[1] = x /\ \A i \in 1 .. n : process[i + 1] = t[i]
  BY <1>1, <1>2, <1>3, <1>4
<1>7. IsSequence(process)
  <2>1. Len(process) \in Nat /\ DOMAIN process = 1 .. Len(process)
    BY <1>5, LenProperties
  <2>2. process = [i \in DOMAIN process |-> process[i]]
    BY <1>5
  <2> QED
    BY <2>1, <2>2 DEF IsSequence
<1>8. ASSUME NEW i \in 1 .. n + 1
      PROVE  /\ process[i] = [key |-> process[i].key, vtype |-> process[i].vtype,
                              val |-> process[i].val]
             /\ process[i].vtype \in DOMAIN VTypes
  <2>1. CASE i = 1
    BY <1>6, <2>1 DEF x, VTypes
  <2>2. CASE i # 1
    <3>1. i - 1 \in 1 .. n /\ process[i] = t[i - 1]
      <4>1. i - 1 \in 1 .. n /\ (i - 1) + 1 = i
        BY <1>1, <2>2
      <4> QED
        BY <1>6, <4>1
    <3>2. /\ t[i - 1] = [key |-> t[i - 1].key, vtype |-> t[i - 1].vtype, val |-> t[i - 1].val]
          /\ t[i - 1].vtype \in DOMAIN VTypes
      BY <3>1 DEF AreTags, t
    <3> QED
      BY <3>1, <3>2
  <2> QED
    BY <2>1, <2>2
<1>9. AreTags(process)
  BY <1>5, <1>7, <1>8 DEF AreTags
<1> QED
  BY <1>1, <1>5, <1>6, <1>9 DEF x, t, process

(* The spans of a single scope.                                            *)
LEMMA OneScope ==
    ASSUME NEW scope, Len(scope.spans) \in Nat
    PROVE  SpansOfScopes(<<scope>>) =
              [i \in 1 .. Len(scope.spans) |-> spanFromOTLP(scope.spans[i])]
<1> DEFINE scopes == <<scope>>
           of(ss) == [i \in 1 .. Len(ss.spans) |-> spanFromOTLP(ss.spans[i])]
           Eq(g) == g = [n \in 0 .. Len(scopes) |->
                           IF n = 0 THEN << >> ELSE g[n - 1] \o of(scopes[n])]
           upTo == CHOOSE g : Eq(g)
           n == Len(scope.spans)
           spans == of(scope)
           T == {spans[i] : i \in 1 .. n}
           e == << >>
           f == [k \in 0 .. 1 |-> IF k = 0 THEN e ELSE e \o spans]
<1>1. SpansOfScopes(scopes) = upTo[Len(scopes)]
  BY DEF SpansOfScopes
<1>2. Len(scopes) = 1 /\ scopes[1] = scope
  OBVIOUS
<1>3. spans \in [1 .. n -> T]
  OBVIOUS
<1>4. e \o spans = spans
  <2>1. spans \in Seq(T)
    <3> HIDE DEF spans, T, n
    <3>1. n \in Nat
      BY DEF n
    <3> QED
      BY <1>3, <3>1, FunctionIsSeq
  <2> HIDE DEF spans, T
  <2> QED
    BY <2>1, ConcatEmptySeq
<1> HIDE DEF scopes
<1>5. Eq(f)
  <2>1. \A k \in 0 .. 1 : k = 0 \/ k = 1
    OBVIOUS
  <2>2. f[0] = e /\ f[1] = e \o spans
    OBVIOUS
  <2> HIDE DEF f
  <2>3. f = [k \in 0 .. 1 |-> f[k]]
    BY DEF f
  <2>4. \A k \in 0 .. 1 : f[k] = IF k = 0 THEN e ELSE f[k - 1] \o of(scopes[k])
    <3>1. of(scopes[1]) = spans
      BY <1>2
    <3> HIDE DEF of, spans, e
    <3>2. 1 - 1 = 0
      OBVIOUS
    <3>3. f[1] = f[1 - 1] \o of(scopes[1])
      BY Zenon, <2>2, <3>1, <3>2
    <3> QED
      BY <2>1, <2>2, <3>3
  <2> HIDE DEF of
  <2>5. f = [k \in 0 .. 1 |-> IF k = 0 THEN e ELSE f[k - 1] \o of(scopes[k])]
    BY <2>3, <2>4
  <2> QED
    BY <1>2, <2>5
<1>6. Eq(upTo)
  BY ZenonT(30), <1>5
<1> HIDE DEF upTo, f
<1>7. upTo[1] = spans
  <2> HIDE DEF of, spans
  <2>1. upTo = [k \in 0 .. 1 |-> IF k = 0 THEN e ELSE upTo[k - 1] \o of(scopes[k])]
    BY <1>2, <1>6
  <2>2. upTo[0] = e /\ upTo[1] = upTo[0] \o of(scopes[1])
    BY <2>1
  <2>3. of(scopes[1]) = spans
    BY <1>2 DEF spans
  <2> QED
    BY <1>4, <2>2, <2>3
<1> QED
  BY <1>1, <1>2, <1>7 DEF scopes

(* A batch that went to OTLP and came back.                                *)
LEMMA JaegerBatchAndBack ==
    ASSUME NEW b, IsJaegerBatch(b)
    PROVE  JaegerBatchKept(b, OTLPToBatch(BatchToOTLP(b)))
<1> DEFINE process == ProcessTags(b)
           n == Len(process)
           m == Len(b.tags)
           as == AsAttributes(process)
           attrs == SetAttributes(as, 1 .. n)
           T == {as[i] : i \in 1 .. n}
           named == {i \in 1 .. Len(attrs) : attrs[i].key = "service.name"}
           others == {attrs[i] : i \in (1 .. Len(attrs)) \ named}
           name == attrs[Min(named)].value
           N == Len(b.spans)
           spans == [i \in 1 .. N |-> jaegerSpanToOTLP(b.spans[i])]
           back == [i \in 1 .. N |-> spanFromOTLP(spans[i])]
           c == OTLPToBatch(BatchToOTLP(b))
<1>1. AreTags(b.tags) /\ IsSequence(b.spans) /\ N \in Nat
  BY DEF IsJaegerBatch, IsSequence
<1>2. /\ AreTags(process) /\ m \in Nat /\ n = m + 1
      /\ process[1].key = "service.name" /\ \A i \in 1 .. m : process[i + 1] = b.tags[i]
  BY <1>1, ProcessTagsProperties
<1>3. attrs \in Seq(T) /\ Once(attrs, as, 1 .. n)
  <2> HIDE DEF process
  <2> QED
    BY <1>2, AllTagsAndBack
<1>4. Len(spans) = N /\ \A i \in 1 .. N : spans[i] = jaegerSpanToOTLP(b.spans[i])
  <2> DEFINE E == {spans[i] : i \in 1 .. N}
  <2>1. spans \in [1 .. N -> E]
    OBVIOUS
  <2>2. \A i \in 1 .. N : spans[i] = jaegerSpanToOTLP(b.spans[i])
    OBVIOUS
  <2> HIDE DEF spans, E, N
  <2> QED
    BY <1>1, <2>1, <2>2, FunctionIsSeq
<1>5. /\ c.service = IF named = {} \/ name.type # "string" THEN "" ELSE name.val
      /\ c.tags = AsTags(Keep(attrs, others))
      /\ c.spans = SpansOfScopes(<<[scope |-> Zero.Scope, spans |-> spans]>>)
  <2> DEFINE td == BatchToOTLP(b)
             one == OneResource(attrs, spans)
  <2>1. td.resourceSpans = <<one>>
    BY DEF BatchToOTLP
  <2>2. /\ one.resource.attributes = attrs
        /\ one.scopeSpans = <<[scope |-> Zero.Scope, spans |-> spans]>>
    BY DEF OneResource
  <2> HIDE DEF td, one, attrs, spans
  <2>3. td.resourceSpans # <<>> /\ td.resourceSpans[1] = one
    BY <2>1
  <2>4. OTLPToBatch(td) =
          [service |-> IF named = {} \/ name.type # "string" THEN "" ELSE name.val,
           tags |-> AsTags(Keep(attrs, others)),
           spans |-> SpansOfScopes(<<[scope |-> Zero.Scope, spans |-> spans]>>)]
    BY <2>2, <2>3 DEF OTLPToBatch
  <2>5. c = OTLPToBatch(td)
    BY DEF td
  <2> DEFINE x == IF named = {} \/ name.type # "string" THEN "" ELSE name.val
             y == AsTags(Keep(attrs, others))
             z == SpansOfScopes(<<[scope |-> Zero.Scope, spans |-> spans]>>)
  <2>6. c = [service |-> x, tags |-> y, spans |-> z]
    BY Zenon, <2>4, <2>5
  <2> HIDE DEF c, x, y, z
  <2>7. c.service = x /\ c.tags = y /\ c.spans = z
    BY <2>6
  <2> QED
    BY Zenon, <2>7 DEF x, y, z
<1>6. c.spans = back
  <2> DEFINE scope == [scope |-> Zero.Scope, spans |-> spans]
  <2>1. scope.spans = spans
    OBVIOUS
  <2> HIDE DEF scope, spans, c, N
  <2>2. SpansOfScopes(<<scope>>) =
           [i \in 1 .. Len(scope.spans) |-> spanFromOTLP(scope.spans[i])]
    BY <1>1, <1>4, <2>1, OneScope
  <2> QED
    BY <1>4, <1>5, <2>1, <2>2 DEF scope
<1> HIDE DEF c
<1>7. Len(c.spans) = N /\ \A i \in 1 .. N : JaegerSpanKept(b.spans[i], c.spans[i])
  <2> DEFINE E == {back[i] : i \in 1 .. N}
  <2>1. back \in [1 .. N -> E]
    OBVIOUS
  <2>2. \A i \in 1 .. N : back[i] = spanFromOTLP(jaegerSpanToOTLP(b.spans[i]))
    OBVIOUS
  <2>3. ASSUME NEW i \in 1 .. N
        PROVE  JaegerSpanKept(b.spans[i], spanFromOTLP(jaegerSpanToOTLP(b.spans[i])))
    <3> DEFINE s == b.spans[i]
    <3>1. /\ s.start \in Nat /\ s.dur \in Nat /\ AreTags(s.tags) /\ IsSequence(s.logs)
          /\ \A l \in 1 .. Len(s.logs) : s.logs[l].time \in Nat /\ AreTags(s.logs[l].fields)
      BY DEF IsJaegerBatch
    <3> HIDE DEF s
    <3>2. JaegerSpanKept(s, spanFromOTLP(jaegerSpanToOTLP(s)))
      BY <3>1, JaegerSpanAndBack
    <3> QED
      BY <3>2 DEF s
  <2> HIDE DEF back, E, N
  <2>4. Len(back) = N
    BY <1>1, <2>1, FunctionIsSeq
  <2> QED
    BY <1>6, <2>2, <2>3, <2>4
<1>8. Once(c.tags, b.tags, {i \in 1 .. m : b.tags[i].key # "service.name"})
  <2> DEFINE P == {i \in 1 .. n : as[i].key # "service.name"}
             Q == {i \in 1 .. m : b.tags[i].key # "service.name"}
             kept == Keep(attrs, others)
  <2>1. n \in Nat /\ Q \subseteq 1 .. m
    BY <1>2
  <2>2. kept \in Seq(T) /\ Once(kept, as, P)
    <3>1. others = Others(attrs, "service.name") /\ P = OtherPlaces(as, n, "service.name")
      BY DEF Others, OtherPlaces
    <3> HIDE DEF attrs, as, n, T, others, P
    <3>2. /\ Keep(attrs, Others(attrs, "service.name")) \in Seq(T)
          /\ Once(Keep(attrs, Others(attrs, "service.name")), as, OtherPlaces(as, n, "service.name"))
      BY <1>3, <2>1, OnceWithout
    <3> QED
      BY <3>1, <3>2
  <2>3. P \subseteq 1 .. n
    OBVIOUS
  <2>4. Once(AsTags(kept), process, P)
    <3> HIDE DEF kept, process, P, T
    <3> QED
      BY <1>2, <2>2, <2>3, TagsAndBack
  <2>5. P = {i + 1 : i \in Q}
    <3>1. \A i \in 1 .. n : as[i].key = process[i].key
      <4> HIDE DEF process
      <4> QED
        BY <1>2, AttributesOfTags
    <3>2. P = {i \in 1 .. n : process[i].key # "service.name"}
      BY <3>1
    <3>3. \A i \in 1 .. m : i + 1 \in 1 .. n /\ process[i + 1] = b.tags[i]
      BY <1>2
    <3>4. \A i \in 1 .. n : i = 1 \/ (i - 1 \in 1 .. m /\ (i - 1) + 1 = i)
      BY <1>2
    <3> HIDE DEF P, n, m
    <3>5. ASSUME NEW i \in P PROVE \E j \in Q : i = j + 1
      <4>1. i \in 1 .. n /\ process[i].key # "service.name" /\ i # 1
        BY <1>2, <3>2
      <4>2. i - 1 \in 1 .. m /\ (i - 1) + 1 = i
        BY <3>4, <4>1
      <4>3. process[i] = b.tags[i - 1]
        BY <3>3, <4>2
      <4>4. i - 1 \in Q
        BY <4>1, <4>2, <4>3
      <4> QED
        BY <4>2, <4>4
    <3>6. ASSUME NEW j \in Q PROVE j + 1 \in P
      BY <3>2, <3>3
    <3> HIDE DEF Q
    <3> QED
      BY <3>5, <3>6
  <2>6. Once(AsTags(kept), b.tags, Q)
    <3>1. \A i \in 1 .. m : process[i + 1] = b.tags[i]
      BY <1>2
    <3> HIDE DEF kept, process, P, Q, m
    <3> QED
      BY <1>2, <2>1, <2>4, <2>5, <3>1, OnceShifted
  <2> QED
    BY <1>5, <2>6
<1>9. LET kv == process[Max({i \in 1 .. n : process[i].key = "service.name"})]
      IN  c.service = IF kv.vtype = "string" THEN kv.val ELSE ""
  <2> DEFINE S == {i \in 1 .. n : process[i].key = "service.name"}
             kv == process[Max(S)]
  <2>1. n \in Nat /\ 1 \in S /\ S \subseteq 1 .. n
    BY <1>2
  <2>2. Max(S) \in S
    <3> HIDE DEF S, n
    <3> QED
      BY <2>1, GreatestPlace
  <2>3. kv.vtype \in DOMAIN VTypes
    <3>1. Max(S) \in 1 .. n
      BY <2>1, <2>2
    <3> HIDE DEF S, process
    <3> QED
      BY <1>2, <3>1 DEF AreTags
  <2>4. \A i \in 1 .. n : /\ as[i].key = process[i].key
                          /\ as[i].value = kvToAnyValue(process[i])
    <3> HIDE DEF process
    <3>1. \A i \in 1 .. n : as[i] = [key |-> process[i].key, value |-> kvToAnyValue(process[i])]
      BY <1>2, AttributesOfTags
    <3> TAKE i \in 1 .. n
    <3>2. as[i] = [key |-> process[i].key, value |-> kvToAnyValue(process[i])]
      BY <3>1
    <3> HIDE DEF as
    <3> QED
      BY <3>2
  <2>5. named # {} /\ attrs[Min(named)] = as[Max(S)]
    <3>1. {attrs[i].key : i \in 1 .. Len(attrs)} = {as[i].key : i \in 1 .. n}
      BY <1>3, OnceAt
    <3>2. as[1].key = "service.name" /\ 1 \in 1 .. n
      BY <2>1, <2>4
    <3> HIDE DEF attrs, as, n
    <3>3. "service.name" \in {attrs[i].key : i \in 1 .. Len(attrs)}
      BY <3>1, <3>2
    <3>4. PICK i \in 1 .. Len(attrs) : attrs[i].key = "service.name"
      BY <3>3
    <3>5. named # {} /\ named \subseteq Nat
      BY <3>4
    <3>6. Min(named) \in named
      <4> HIDE DEF named
      <4> QED
        BY <3>5, LeastPlace
    <3>7. /\ Min(named) \in 1 .. Len(attrs) /\ attrs[Min(named)].key = "service.name"
      BY <3>6
    <3> HIDE DEF named
    <3>8. attrs[Min(named)] = as[Max(At(as, 1 .. n, attrs[Min(named)].key))]
      BY <1>3, <3>7, OnceAt
    <3>9. At(as, 1 .. n, "service.name") = S
      BY <2>4 DEF At
    <3> QED
      BY <3>5, <3>7, <3>8, <3>9
  <2>6. name.type = VTypes[kv.vtype] /\ name.val = kv.val
    <3>1. as[Max(S)].value = kvToAnyValue(kv)
      BY <2>1, <2>2, <2>4
    <3> HIDE DEF attrs, as, kv, named, S
    <3> QED
      BY <2>5, <3>1 DEF kvToAnyValue
  <2>7. \A v \in DOMAIN VTypes : VTypes[v] = "string" <=> v = "string"
    BY DEF VTypes
  <2>8. c.service = IF kv.vtype = "string" THEN kv.val ELSE ""
    <3> HIDE DEF name, named, kv
    <3> QED
      BY <1>5, <2>3, <2>5, <2>6, <2>7
  <2> QED
    BY <2>8
<1> HIDE DEF process, N
<1>10. JaegerBatchKept(b, c)
  BY <1>7, <1>8, <1>9 DEF JaegerBatchKept, process, N
<1> QED
  BY <1>10 DEF c

-----------------------------------------------------------------------------
(* Converters: Zipkin *)

(* What the endpoint adds has three different keys.                        *)
LEMMA PeerKeys ==
    ASSUME NEW z
    PROVE  LET peer == PeerAttributes(z)
           IN  /\ peer \in Seq({peer[i] : i \in 1 .. Len(peer)}) /\ Len(peer) \in Nat
               /\ \A i, j \in 1 .. Len(peer) : peer[i].key = peer[j].key => i = j
<1> DEFINE a == StringKV("peer.service", z.peer)
           b == StringKV("net.peer.ip", z.ip)
           c == [key |-> "net.peer.port", value |-> [type |-> "int", val |-> z.port]]
           U == {a, b, c}
           u == When(z.peer # "", <<a>>)
           v == When(z.ip # "", <<b>>)
           w == When(z.port > 0, <<c>>)
           peer == PeerAttributes(z)
<1>1. peer = (u \o v) \o w
  BY DEF PeerAttributes
<1>2. a.key = "peer.service" /\ b.key = "net.peer.ip" /\ c.key = "net.peer.port"
  BY DEF StringKV
<1> HIDE DEF a, b, c
<1>3. (u = <<a>> \/ u = << >>) /\ (v = <<b>> \/ v = << >>) /\ (w = <<c>> \/ w = << >>)
  BY DEF When
<1> HIDE DEF u, v, w, peer
<1>14. a \in U /\ b \in U /\ c \in U
  OBVIOUS
<1> HIDE DEF U
<1>4. /\ u \in Seq(U) /\ Len(u) \in Nat /\ \A i \in 1 .. Len(u) : u[i] = a /\ i = 1
      /\ v \in Seq(U) /\ Len(v) \in Nat /\ \A i \in 1 .. Len(v) : v[i] = b /\ i = 1
      /\ w \in Seq(U) /\ Len(w) \in Nat /\ \A i \in 1 .. Len(w) : w[i] = c /\ i = 1
  BY <1>3, <1>14, OneOrNone
<1>5. u \in Seq(U) /\ v \in Seq(U) /\ w \in Seq(U)
  BY <1>4
<1> DEFINE uv == u \o v
<1>6. /\ uv \in Seq(U) /\ Len(uv) = Len(u) + Len(v)
      /\ \A i \in 1 .. Len(u) + Len(v) : uv[i] = IF i <= Len(u) THEN u[i] ELSE v[i - Len(u)]
  BY <1>5, ConcatProperties
<1>7. /\ uv \o w \in Seq(U) /\ Len(uv \o w) = Len(uv) + Len(w)
      /\ \A i \in 1 .. Len(uv) + Len(w) :
            (uv \o w)[i] = IF i <= Len(uv) THEN uv[i] ELSE w[i - Len(uv)]
  BY <1>5, <1>6, ConcatProperties
<1>8. peer = uv \o w
  BY <1>1
<1> HIDE DEF uv
<1>9. peer \in Seq(U) /\ Len(peer) = Len(uv) + Len(w) /\ Len(peer) \in Nat
  BY <1>4, <1>6, <1>7, <1>8
<1>10. /\ \A i \in 1 .. Len(u) : peer[i] = a /\ i = 1
       /\ \A i \in Len(u) + 1 .. Len(uv) : peer[i] = b /\ i = Len(u) + 1
       /\ \A i \in Len(uv) + 1 .. Len(peer) : peer[i] = c /\ i = Len(uv) + 1
  <2>1. ASSUME NEW i \in 1 .. Len(u) PROVE peer[i] = a /\ i = 1
    BY <1>4, <1>6, <1>7, <1>8, <1>9
  <2>2. ASSUME NEW i \in Len(u) + 1 .. Len(uv) PROVE peer[i] = b /\ i = Len(u) + 1
    <3>1. i - Len(u) \in 1 .. Len(v) /\ i \in 1 .. Len(u) + Len(v) /\ ~(i <= Len(u)) /\ i <= Len(uv)
      BY <1>4, <1>6
    <3>2. uv[i] = v[i - Len(u)] /\ peer[i] = uv[i]
      BY <1>4, <1>6, <1>7, <1>8, <1>9, <3>1
    <3>3. v[i - Len(u)] = b /\ i - Len(u) = 1
      BY <1>4, <3>1
    <3> QED
      BY <1>4, <1>6, <3>1, <3>2, <3>3
  <2>3. ASSUME NEW i \in Len(uv) + 1 .. Len(peer) PROVE peer[i] = c /\ i = Len(uv) + 1
    <3>1. i - Len(uv) \in 1 .. Len(w) /\ i \in 1 .. Len(uv) + Len(w) /\ ~(i <= Len(uv))
      BY <1>4, <1>6, <1>9
    <3>2. peer[i] = w[i - Len(uv)]
      BY <1>7, <1>8, <3>1
    <3>3. w[i - Len(uv)] = c /\ i - Len(uv) = 1
      BY <1>4, <3>1
    <3> QED
      BY <1>4, <1>6, <3>1, <3>2, <3>3
  <2> QED
    BY <2>1, <2>2, <2>3
<1>11. \A i \in 1 .. Len(peer) : \/ i \in 1 .. Len(u)
                                 \/ i \in Len(u) + 1 .. Len(uv)
                                 \/ i \in Len(uv) + 1 .. Len(peer)
  BY <1>4, <1>6, <1>9
<1>12. ASSUME NEW i \in 1 .. Len(peer), NEW j \in 1 .. Len(peer), peer[i].key = peer[j].key
       PROVE  i = j
  <2> DEFINE Case(k) == \/ peer[k].key = "peer.service" /\ k = 1
                        \/ peer[k].key = "net.peer.ip" /\ k = Len(u) + 1
                        \/ peer[k].key = "net.peer.port" /\ k = Len(uv) + 1
  <2>1. Case(i) /\ Case(j)
    BY <1>2, <1>10, <1>11
  <2> QED
    BY <1>12, <2>1
<1>13. peer \in Seq({peer[i] : i \in 1 .. Len(peer)})
  <2> DEFINE V == {peer[i] : i \in 1 .. Len(peer)}
  <2>1. peer \in [1 .. Len(peer) -> V]
    BY <1>9, LenProperties
  <2> HIDE DEF V
  <2> QED
    BY <1>9, <2>1, FunctionIsSeq
<1> QED
  BY <1>9, <1>12, <1>13 DEF peer

(* An annotation as an event.                                              *)
EventOf(note) == [Zero.Event EXCEPT !.time = Nano(note.time), !.name = note.value]

LEMMA EventFields ==
    ASSUME NEW note PROVE EventOf(note).time = Nano(note.time) /\ EventOf(note).name = note.value
BY DEF EventOf, Zero

(* The fields of a span that the converter fills.                          *)
LEMMA ZipkinSpanFields ==
    ASSUME NEW z, NEW tags
    PROVE  LET s == zipkinSpanToOTLP(z, tags)
               kvs == tags \o PeerAttributes(z)
           IN  /\ s.traceID = hexDecode(2, z.trace) /\ s.spanID = z.id
               /\ s.parentSpanID = z.parent /\ s.name = z.name
               /\ s.start = Nano(z.start) /\ s.end = (Nano(z.start) + Nano(z.dur)) % NanoRange
               /\ s.attributes = SetAttributes(kvs, 1 .. Len(kvs))
               /\ s.events = [i \in 1 .. Len(z.notes) |-> EventOf(z.notes[i])]
<1> DEFINE kvs == tags \o PeerAttributes(z)
           attrs == SetAttributes(kvs, 1 .. Len(kvs))
           kind == IF z.kind \in DOMAIN ZipkinKinds THEN ZipkinKinds[z.kind] ELSE 0
           trace == hexDecode(2, z.trace)
           start == Nano(z.start)
           end == (Nano(z.start) + Nano(z.dur)) % NanoRange
           events == [i \in 1 .. Len(z.notes) |-> EventOf(z.notes[i])]
           zero == Zero.Span
<1>1. zero = [traceID |-> 0, spanID |-> 0, traceState |-> "", parentSpanID |-> 0,
              name |-> "", kind |-> 0, start |-> 0, end |-> 0, attributes |-> <<>>,
              events |-> <<>>, links |-> <<>>, status |-> ZeroStatus,
              droppedAttributes |-> 0, droppedEvents |-> 0, droppedLinks |-> 0]
  BY DEF Zero
<1>2. zipkinSpanToOTLP(z, tags) =
        [zero EXCEPT !.traceID = trace, !.spanID = z.id,
           !.parentSpanID = z.parent, !.name = z.name, !.kind = kind,
           !.start = start, !.end = end, !.attributes = attrs, !.events = events]
  BY DEF zipkinSpanToOTLP, EventOf
<1> HIDE DEF attrs, kind, trace, start, end, events, zero
<1>3. LET s == zipkinSpanToOTLP(z, tags)
      IN  /\ s.traceID = trace /\ s.spanID = z.id /\ s.parentSpanID = z.parent /\ s.name = z.name
          /\ s.start = start /\ s.end = end /\ s.attributes = attrs
          /\ s.events = events
  BY <1>1, <1>2
<1> QED
  BY <1>3 DEF attrs, trace, start, end, events

(* Missing bytes of a trace id are zeros on the left.                      *)
LEMMA HexOfTwo ==
    ASSUME NEW src, Len(src) \in 1 .. 2
    PROVE  hexDecode(2, src) = IF Len(src) = 1 THEN <<0, src[1]>> ELSE <<src[1], src[2]>>
<1>1. Len(src) = 1 \/ Len(src) = 2
  OBVIOUS
<1>2. CASE Len(src) = 1
  <2>1. hexDecode(2, src) = [i \in 1 .. 2 |-> IF i = 1 THEN 0 ELSE src[1]]
    <3>1. \A i \in 1 .. 2 : (i = 1 \/ i = 2) /\ (i <= 1 <=> i = 1)
      OBVIOUS
    <3>2. \A i \in 1 .. 2 : (IF i <= 2 - Len(src) THEN 0 ELSE src[i - (2 - Len(src))])
                              = IF i = 1 THEN 0 ELSE src[1]
      BY <1>2, <3>1
    <3> QED
      BY <3>2 DEF hexDecode
  <2> QED
    BY <1>2, <2>1
<1>3. CASE Len(src) = 2
  <2>1. \A i \in 1 .. 2 : (IF i <= 2 - Len(src) THEN 0 ELSE src[i - (2 - Len(src))]) = src[i]
    BY <1>3
  <2>2. hexDecode(2, src) = [i \in 1 .. 2 |-> src[i]]
    BY <2>1 DEF hexDecode
  <2> QED
    BY <1>3, <2>2
<1> QED
  BY <1>1, <1>2, <1>3

(* The times of a span that fit.                                           *)
LEMMA ZipkinTimes ==
    ASSUME NEW t \in Nat, NEW d \in Nat, Fits(t + d)
    PROVE  /\ Nano(t) = t * 1000
           /\ ((Nano(t) + Nano(d)) % NanoRange) - Nano(t) = d * 1000
<1>1. (t + d) * 1000 < NanoRange /\ NanoRange \in Nat
  BY ConvertersAssumption DEF Fits, NanosPerMicro
<1>2. Fits(t) /\ Fits(d)
  BY <1>1 DEF Fits, NanosPerMicro
<1>3. Nano(t) = t * 1000 /\ Nano(d) = d * 1000
  BY <1>2, TimeAndBack
<1> DEFINE x == t * 1000
           y == d * 1000
<1>4. x \in Nat /\ y \in Nat /\ x + y < NanoRange
  BY <1>1
<1> HIDE DEF x, y
<1>5. (x + y) % NanoRange = x + y
  BY <1>1, <1>4
<1>6. ((x + y) % NanoRange) - x = y
  BY <1>4, <1>5
<1> QED
  BY <1>3, <1>6 DEF x, y

(* What SetAttributes makes of a map's pairs and the list that follows it. *)
MapMerged(attrs, tags, peer) ==
    LET added == {peer[i] : i \in 1 .. Len(peer)}
    IN  /\ {attrs[i] : i \in 1 .. Len(attrs)} =
              added \cup {t \in tags : \A a \in added : a.key # t.key}
        /\ \A i, j \in 1 .. Len(attrs) : attrs[i].key = attrs[j].key => i = j

LEMMA AttributesOfMap ==
    ASSUME NEW tags, IsFiniteSet(tags), \A t, u \in tags : t.key = u.key => t = u,
           NEW ranged \in SetToSeqs(tags), NEW U, NEW peer \in Seq(U),
           \A i, j \in 1 .. Len(peer) : peer[i].key = peer[j].key => i = j
    PROVE  MapMerged(SetAttributes(ranged \o peer, 1 .. Len(ranged \o peer)), tags, peer)
<1> DEFINE T == tags \cup U
           kvs == ranged \o peer
           L == Len(ranged)
           M == Len(peer)
           N == Len(kvs)
           attrs == SetAttributes(kvs, 1 .. N)
           added == {peer[i] : i \in 1 .. M}
           R == {t \in tags : \A a \in added : a.key # t.key}
<1>1. /\ ranged \in Seq(T) /\ L \in Nat
      /\ \A i \in 1 .. L : ranged[i] \in tags
      /\ \A t \in tags : \E i \in 1 .. L : ranged[i] = t
  <2>1. tags \subseteq T
    OBVIOUS
  <2> HIDE DEF T
  <2>2. IsOrderOf(ranged, tags, T)
    BY <2>1, OrdersAreOrders
  <2> QED
    BY <2>2 DEF IsOrderOf
<1>2. peer \in Seq(T) /\ M \in Nat
  <2>1. M \in Nat /\ peer \in [1 .. M -> T]
    BY LenProperties
  <2> HIDE DEF T, M
  <2> QED
    BY <2>1, FunctionIsSeq
<1> HIDE DEF T
<1>3. /\ kvs \in Seq(T) /\ N = L + M
      /\ \A i \in 1 .. L + M : kvs[i] = IF i <= L THEN ranged[i] ELSE peer[i - L]
  BY <1>1, <1>2, ConcatProperties
<1>4. N \in Nat /\ 1 .. N \subseteq 1 .. N
  BY <1>1, <1>2, <1>3
<1> HIDE DEF kvs, N, L, M
<1>5. attrs \in Seq(T) /\ Once(attrs, kvs, 1 .. N)
  BY <1>3, <1>4, SetAttributesOnce DEF N
<1>6. /\ \A i \in 1 .. L : i \in 1 .. N /\ kvs[i] = ranged[i]
      /\ \A i \in 1 .. M : L + i \in 1 .. N /\ kvs[L + i] = peer[i]
      /\ \A i \in 1 .. N : i \in 1 .. L \/ (i - L \in 1 .. M /\ kvs[i] = peer[i - L])
  <2>1. \A i \in 1 .. L : i \in 1 .. N /\ kvs[i] = ranged[i]
    BY <1>1, <1>2, <1>3
  <2>2. \A i \in 1 .. M : L + i \in 1 .. N /\ kvs[L + i] = peer[i]
    BY <1>1, <1>2, <1>3
  <2>3. \A i \in 1 .. N : i \in 1 .. L \/ (i - L \in 1 .. M /\ kvs[i] = peer[i - L])
    BY <1>1, <1>2, <1>3
  <2> QED
    BY <2>1, <2>2, <2>3
<1> HIDE DEF attrs
<1>7. ASSUME NEW i \in 1 .. Len(attrs)
      PROVE  \E m \in 1 .. N : /\ attrs[i] = kvs[m]
                               /\ \A k \in 1 .. N : kvs[k].key = attrs[i].key => k <= m
  <2> DEFINE S == At(kvs, 1 .. N, attrs[i].key)
  <2>1. attrs[i] = kvs[Max(S)] /\ attrs[i].key \in {kvs[k].key : k \in 1 .. N}
    BY <1>5, OnceAt
  <2>2. S # {} /\ S \subseteq 1 .. N /\ \A k \in 1 .. N : kvs[k].key = attrs[i].key => k \in S
    BY <2>1 DEF At
  <2> HIDE DEF S
  <2>3. Max(S) \in S /\ \A y \in S : Max(S) >= y
    BY <1>4, <2>2, GreatestPlace
  <2>4. Max(S) \in 1 .. N /\ \A k \in 1 .. N : kvs[k].key = attrs[i].key => k <= Max(S)
    <3>1. Max(S) \in 1 .. N
      BY <2>2, <2>3
    <3>2. ASSUME NEW k \in 1 .. N, kvs[k].key = attrs[i].key PROVE k <= Max(S)
      <4>1. Max(S) >= k
        BY <2>2, <2>3, <3>2
      <4> QED
        BY <1>4, <3>1, <4>1
    <3> QED
      BY <3>1, <3>2
  <2> QED
    BY <2>1, <2>4
<1>8. ASSUME NEW k \in 1 .. N PROVE \E i \in 1 .. Len(attrs) : attrs[i].key = kvs[k].key
  <2>1. kvs[k].key \in {attrs[i].key : i \in 1 .. Len(attrs)}
    BY <1>5, OnceAt
  <2> QED
    BY <2>1
<1>9. ASSUME NEW i \in 1 .. Len(attrs) PROVE attrs[i] \in added \cup R
  <2>1. PICK m \in 1 .. N : /\ attrs[i] = kvs[m]
                            /\ \A k \in 1 .. N : kvs[k].key = attrs[i].key => k <= m
    BY <1>7
  <2>2. CASE m \in 1 .. L
    <3>1. attrs[i] \in tags
      BY <1>1, <1>6, <2>1, <2>2
    <3>2. ASSUME NEW q \in 1 .. M, peer[q].key = attrs[i].key PROVE FALSE
      <4>1. L + q <= m
        BY <1>6, <2>1, <3>2
      <4> QED
        BY <1>1, <1>2, <2>2, <4>1
    <3> QED
      BY <3>1, <3>2
  <2>3. CASE m \notin 1 .. L
    BY <1>6, <2>1, <2>3
  <2> QED
    BY <2>2, <2>3
<1>10. ASSUME NEW q \in 1 .. M PROVE \E i \in 1 .. Len(attrs) : attrs[i] = peer[q]
  <2>1. L + q \in 1 .. N /\ kvs[L + q] = peer[q]
    BY <1>6
  <2>2. PICK i \in 1 .. Len(attrs) : attrs[i].key = peer[q].key
    BY <1>8, <2>1
  <2>3. PICK m \in 1 .. N : /\ attrs[i] = kvs[m]
                            /\ \A k \in 1 .. N : kvs[k].key = attrs[i].key => k <= m
    BY <1>7
  <2>4. L + q <= m
    BY <2>1, <2>2, <2>3
  <2>5. m \notin 1 .. L
    BY <1>1, <1>2, <2>4
  <2>6. m - L \in 1 .. M /\ kvs[m] = peer[m - L]
    BY <1>6, <2>5
  <2>7. m - L = q
    BY <2>2, <2>3, <2>6 DEF M
  <2> QED
    BY <2>3, <2>6, <2>7
<1>11. ASSUME NEW t \in R PROVE \E i \in 1 .. Len(attrs) : attrs[i] = t
  <2>1. PICK q \in 1 .. L : ranged[q] = t
    BY <1>1
  <2>2. q \in 1 .. N /\ kvs[q] = t
    BY <1>6, <2>1
  <2>3. PICK i \in 1 .. Len(attrs) : attrs[i].key = t.key
    BY <1>8, <2>2
  <2>4. PICK m \in 1 .. N : /\ attrs[i] = kvs[m]
                            /\ \A k \in 1 .. N : kvs[k].key = attrs[i].key => k <= m
    BY <1>7
  <2>5. CASE m \in 1 .. L
    <3>1. kvs[m] \in tags /\ kvs[m].key = t.key
      BY <1>1, <1>6, <2>3, <2>4, <2>5
    <3> QED
      BY <2>4, <3>1
  <2>6. CASE m \notin 1 .. L
    <3>1. m - L \in 1 .. M /\ kvs[m] = peer[m - L]
      BY <1>6, <2>6
    <3> QED
      BY <2>3, <2>4, <3>1
  <2> QED
    BY <2>5, <2>6
<1>12. {attrs[i] : i \in 1 .. Len(attrs)} = added \cup R
  <2> HIDE DEF R
  <2> QED
    BY <1>9, <1>10, <1>11
<1>13. \A i, j \in 1 .. Len(attrs) : attrs[i].key = attrs[j].key => i = j
  <2>1. 1 .. N \subseteq Nat
    BY <1>4
  <2> QED
    BY <1>5, <2>1, OnceIsDistinct
<1>14. MapMerged(attrs, tags, peer)
  BY <1>12, <1>13 DEF MapMerged, M
<1> QED
  BY <1>14 DEF attrs, kvs, N

(* A span and its OTLP form, whichever order the map is walked in.         *)
LEMMA ZipkinSpanIsKept ==
    ASSUME NEW z, z.start \in Nat, z.dur \in Nat, Len(z.trace) \in 1 .. 2, IsFiniteSet(z.tags),
           \A t, u \in z.tags : t.key = u.key => t = u, IsSequence(z.notes),
           \A i \in 1 .. Len(z.notes) : z.notes[i].time \in Nat,
           NEW ranged \in SetToSeqs(z.tags)
    PROVE  ZipkinSpanKept(z, zipkinSpanToOTLP(z, ranged))
<1> DEFINE s == zipkinSpanToOTLP(z, ranged)
           peer == PeerAttributes(z)
           U == {peer[i] : i \in 1 .. Len(peer)}
           kvs == ranged \o peer
           attrs == SetAttributes(kvs, 1 .. Len(kvs))
<1>1. /\ s.traceID = hexDecode(2, z.trace) /\ s.spanID = z.id
      /\ s.parentSpanID = z.parent /\ s.name = z.name
      /\ s.start = Nano(z.start) /\ s.end = (Nano(z.start) + Nano(z.dur)) % NanoRange
      /\ s.attributes = attrs
      /\ s.events = [i \in 1 .. Len(z.notes) |-> EventOf(z.notes[i])]
  BY ZipkinSpanFields
<1>2. peer \in Seq(U) /\ \A i, j \in 1 .. Len(peer) : peer[i].key = peer[j].key => i = j
  BY PeerKeys
<1>3. MapMerged(attrs, z.tags, peer)
  <2> HIDE DEF peer, U
  <2> QED
    BY <1>2, AttributesOfMap
<1>4. hexDecode(2, z.trace) =
         IF Len(z.trace) = 1 THEN <<0, z.trace[1]>> ELSE <<z.trace[1], z.trace[2]>>
  BY HexOfTwo
<1> HIDE DEF s, attrs
<1>5. ASSUME Fits(z.start + z.dur)
      PROVE  s.start = z.start * NanosPerMicro /\ s.end - s.start = z.dur * NanosPerMicro
  <2>1. /\ Nano(z.start) = z.start * 1000
        /\ ((Nano(z.start) + Nano(z.dur)) % NanoRange) - Nano(z.start) = z.dur * 1000
    BY <1>5, ZipkinTimes
  <2> QED
    BY <1>1, <2>1 DEF NanosPerMicro
<1>6. <<s.spanID, s.parentSpanID, s.name>> = <<z.id, z.parent, z.name>>
  BY <1>1
<1>7. s.traceID = IF Len(z.trace) = 1 THEN <<0, z.trace[1]>> ELSE <<z.trace[1], z.trace[2]>>
  BY <1>1, <1>4
<1>8. s.attributes = attrs
  BY <1>1
<1>10. /\ Len(s.events) = Len(z.notes)
       /\ \A i \in 1 .. Len(z.notes) :
             /\ s.events[i].name = z.notes[i].value
             /\ Fits(z.notes[i].time) => s.events[i].time = z.notes[i].time * NanosPerMicro
  <2> DEFINE es == [i \in 1 .. Len(z.notes) |-> EventOf(z.notes[i])]
             E == {es[i] : i \in 1 .. Len(z.notes)}
  <2>1. s.events = es
    BY <1>1
  <2>2. es \in [1 .. Len(z.notes) -> E] /\ Len(z.notes) \in Nat
    BY DEF IsSequence
  <2>3. \A i \in 1 .. Len(z.notes) : es[i] = EventOf(z.notes[i])
    OBVIOUS
  <2> HIDE DEF es, E
  <2>4. Len(es) = Len(z.notes)
    BY <2>2, FunctionIsSeq
  <2>5. ASSUME NEW i \in 1 .. Len(z.notes)
        PROVE  /\ es[i].name = z.notes[i].value
               /\ Fits(z.notes[i].time) => es[i].time = z.notes[i].time * NanosPerMicro
    <3>1. es[i].name = z.notes[i].value /\ es[i].time = Nano(z.notes[i].time)
      BY <2>3, EventFields
    <3>2. Fits(z.notes[i].time) => Nano(z.notes[i].time) = z.notes[i].time * 1000
      BY TimeAndBack
    <3> QED
      BY <3>1, <3>2 DEF NanosPerMicro
  <2> QED
    BY <2>1, <2>4, <2>5
<1> HIDE DEF peer
<1>9. ZipkinSpanKept(z, s)
  BY <1>3, <1>5, <1>6, <1>7, <1>8, <1>10 DEF ZipkinSpanKept, MapMerged, peer
<1> QED
  BY <1>9 DEF s

(* The places up to n at which a service is.                               *)
PlacesOfService(services, n, sv) == {k \in 1 .. n : services[k] = sv}

(* q has the spans of those places, in their order.                        *)
CoversBy(q, services, spans, n, sv, at) ==
    /\ \A k, l \in DOMAIN at : k < l => at[k] < at[l]
    /\ \A m \in PlacesOfService(services, n, sv) : \E k \in DOMAIN at : at[k] = m
    /\ \A k \in DOMAIN at : q[k] = spans[at[k]]
Covers(q, services, spans, n, sv) ==
    \E at \in [1 .. Len(q) -> PlacesOfService(services, n, sv)] : CoversBy(q, services, spans, n, sv, at)

(* One more span of the service.                                           *)
LEMMA CoversMore ==
    ASSUME NEW S, NEW q \in Seq(S), NEW services, NEW spans, NEW n \in Nat, n # 0,
           spans[n] \in S, Covers(q, services, spans, n - 1, services[n])
    PROVE  Covers(Append(q, spans[n]), services, spans, n, services[n])
<1> DEFINE sv == services[n]
           A == PlacesOfService(services, n - 1, sv)
           B == PlacesOfService(services, n, sv)
           L == Len(q)
           r == Append(q, spans[n])
<1>1. PICK at \in [1 .. L -> A] : CoversBy(q, services, spans, n - 1, sv, at)
  BY DEF Covers
<1>2. L \in Nat
  BY LenProperties
<1>3. Len(r) = L + 1 /\ r[L + 1] = spans[n] /\ \A k \in 1 .. L : r[k] = q[k]
  BY AppendProperties
<1>4. A \subseteq 1 .. n - 1 /\ B = A \cup {n}
  <2>1. 1 .. n = (1 .. n - 1) \cup {n}
    OBVIOUS
  <2> QED
    BY <2>1 DEF PlacesOfService
<1>5. /\ \A k, l \in 1 .. L : k < l => at[k] < at[l]
      /\ \A m \in A : \E k \in 1 .. L : at[k] = m
      /\ \A k \in 1 .. L : q[k] = spans[at[k]] /\ at[k] \in A
  BY <1>1 DEF CoversBy
<1> HIDE DEF A, B, r, L
<1> DEFINE new == [k \in 1 .. L + 1 |-> IF k = L + 1 THEN n ELSE at[k]]
<1>6. \A k \in 1 .. L + 1 : k = L + 1 \/ k \in 1 .. L
  BY <1>2
<1>7. /\ DOMAIN new = 1 .. L + 1 /\ new[L + 1] = n /\ \A k \in 1 .. L : new[k] = at[k]
  <2>1. L + 1 \in 1 .. L + 1 /\ \A k \in 1 .. L : k \in 1 .. L + 1 /\ k # L + 1
    BY <1>2
  <2> QED
    BY <2>1
<1>8. new \in [1 .. L + 1 -> B]
  BY <1>4, <1>5, <1>6
<1> HIDE DEF new
<1>9. ASSUME NEW k \in 1 .. L + 1, NEW l \in 1 .. L + 1, k < l PROVE new[k] < new[l]
  <2>1. k \in 1 .. L
    BY <1>2, <1>9
  <2>2. CASE l = L + 1
    <3>1. new[k] \in 1 .. n - 1 /\ new[l] = n
      BY <1>4, <1>5, <1>7, <2>1, <2>2
    <3> QED
      BY <3>1
  <2>3. CASE l \in 1 .. L
    BY <1>5, <1>7, <1>9, <2>1, <2>3
  <2> QED
    BY <1>6, <2>2, <2>3
<1>10. ASSUME NEW m \in B PROVE \E k \in 1 .. L + 1 : new[k] = m
  <2>1. L + 1 \in 1 .. L + 1 /\ \A k \in 1 .. L : k \in 1 .. L + 1
    BY <1>2
  <2> QED
    BY <1>4, <1>5, <1>7, <2>1
<1>11. ASSUME NEW k \in 1 .. L + 1 PROVE r[k] = spans[new[k]]
  BY <1>3, <1>5, <1>6, <1>7
<1>12. CoversBy(r, services, spans, n, sv, new)
  BY <1>7, <1>9, <1>10, <1>11 DEF CoversBy, B
<1>13. new \in [1 .. Len(r) -> B]
  BY <1>3, <1>8
<1> QED
  BY <1>12, <1>13 DEF Covers, B, r

(* The spans of other services change nothing.                             *)
LEMMA CoversOther ==
    ASSUME NEW q, NEW services, NEW spans, NEW n \in Nat, n # 0, NEW sv, services[n] # sv,
           Covers(q, services, spans, n - 1, sv)
    PROVE  Covers(q, services, spans, n, sv)
<1>1. PlacesOfService(services, n - 1, sv) = PlacesOfService(services, n, sv)
  <2>1. 1 .. n = (1 .. n - 1) \cup {n}
    OBVIOUS
  <2> QED
    BY <2>1 DEF PlacesOfService
<1> QED
  BY <1>1 DEF Covers, CoversBy

(* The first span of the service.                                          *)
LEMMA CoversNone ==
    ASSUME NEW services, NEW spans, NEW n, NEW sv, PlacesOfService(services, n, sv) = {}
    PROVE  Covers(<< >>, services, spans, n, sv)
<1> DEFINE e == << >>
           at == [k \in 1 .. 0 |-> 0]
<1>1. Len(e) = 0 /\ 1 .. 0 = {}
  OBVIOUS
<1>2. at \in [1 .. Len(e) -> PlacesOfService(services, n, sv)] /\ DOMAIN at = {}
  BY <1>1
<1> HIDE DEF at, e
<1>3. CoversBy(e, services, spans, n, sv, at)
  BY <1>2 DEF CoversBy
<1> QED
  BY <1>2, <1>3 DEF Covers, e

(* The groups after the first n of N spans.                                *)
GroupType(SV, SP) == [service : SV, spans : Seq(SP)]
GroupsOf(g, services, spans, n, N) ==
    /\ {g[i].service : i \in 1 .. Len(g)} = {services[k] : k \in 1 .. n}
    /\ \A i, j \in 1 .. Len(g) : i < j =>
          Min(PlacesOfService(services, N, g[i].service)) < Min(PlacesOfService(services, N, g[j].service))
    /\ \A i \in 1 .. Len(g) : Covers(g[i].spans, services, spans, n, g[i].service)

(* Every step keeps the list a list of groups.                             *)
LEMMA AddToGroupType ==
    ASSUME NEW SV, NEW SP, NEW g \in Seq(GroupType(SV, SP)), NEW sv \in SV, NEW span \in SP
    PROVE  AddToGroup(g, sv, span) \in Seq(GroupType(SV, SP))
<1> DEFINE R == GroupType(SV, SP)
           same == {i \in 1 .. Len(g) : g[i].service = sv}
           p == Min(same)
<1>1. Len(g) \in Nat /\ \A i \in 1 .. Len(g) : g[i] \in R
  BY LenProperties, ElementOfSeq
<1>2. CASE same = {}
  <2> DEFINE new == [service |-> sv, spans |-> <<span>>]
  <2>1. AddToGroup(g, sv, span) = Append(g, new)
    BY <1>2 DEF AddToGroup
  <2>2. new \in R
    <3>1. <<span>> \in Seq(SP)
      OBVIOUS
    <3> QED
      BY <3>1 DEF GroupType
  <2> HIDE DEF new, R
  <2> QED
    BY <2>1, <2>2, AppendProperties DEF R
<1>3. CASE same # {}
  <2>1. same \subseteq Nat /\ same \subseteq 1 .. Len(g)
    BY <1>1
  <2>2. p \in same
    <3> HIDE DEF same
    <3> QED
      BY <1>3, <2>1, LeastPlace
  <2>3. p \in 1 .. Len(g)
    BY <2>1, <2>2
  <2> DEFINE new == [service |-> sv, spans |-> Append(g[p].spans, span)]
  <2>4. AddToGroup(g, sv, span) = [g EXCEPT ![p] = new]
    BY <1>3 DEF AddToGroup
  <2> HIDE DEF p
  <2>5. new \in R
    <3>1. g[p].spans \in Seq(SP)
      BY <1>1, <2>3 DEF GroupType
    <3>2. Append(g[p].spans, span) \in Seq(SP)
      BY <3>1, AppendProperties
    <3> QED
      BY <3>2 DEF GroupType
  <2> HIDE DEF new, R
  <2>6. g \in Seq(R)
    BY DEF R
  <2> QED
    BY <2>3, <2>4, <2>5, <2>6, ExceptSeq DEF R
<1> QED
  BY <1>2, <1>3

(* Span n goes to the group of its service.                                *)
LEMMA GroupsGrow ==
    ASSUME NEW SV, NEW SP, NEW N \in Nat, NEW n \in 1 .. N, NEW services, NEW spans,
           spans[n] \in SP, NEW g \in Seq(GroupType(SV, SP)),
           GroupsOf(g, services, spans, n - 1, N)
    PROVE  GroupsOf(AddToGroup(g, services[n], spans[n]), services, spans, n, N)
<1> DEFINE R == GroupType(SV, SP)
           sv == services[n]
           span == spans[n]
           L == Len(g)
           same == {i \in 1 .. L : g[i].service = sv}
           out == AddToGroup(g, sv, span)
<1>1. L \in Nat /\ \A i \in 1 .. L : g[i] \in R
  BY LenProperties, ElementOfSeq
<1>2. n \in Nat /\ n # 0 /\ 1 .. n = (1 .. n - 1) \cup {n} /\ n - 1 \in Nat
  OBVIOUS
<1>3. /\ {g[i].service : i \in 1 .. L} = {services[k] : k \in 1 .. n - 1}
      /\ \A i, j \in 1 .. L : i < j =>
            Min(PlacesOfService(services, N, g[i].service)) < Min(PlacesOfService(services, N, g[j].service))
      /\ \A i \in 1 .. L : Covers(g[i].spans, services, spans, n - 1, g[i].service)
  BY DEF GroupsOf
<1>4. \A i \in 1 .. L : g[i].spans \in Seq(SP)
  BY <1>1 DEF GroupType
<1>5. ASSUME NEW i \in 1 .. L, g[i].service # sv
      PROVE  Covers(g[i].spans, services, spans, n, g[i].service)
  <2>1. Covers(g[i].spans, services, spans, n - 1, g[i].service)
    BY <1>3
  <2> QED
    BY <1>2, <1>5, <2>1, CoversOther
<1>6. {services[k] : k \in 1 .. n} = {services[k] : k \in 1 .. n - 1} \cup {sv}
  <2>1. \A k \in 1 .. n : k \in 1 .. n - 1 \/ k = n
    BY <1>2
  <2>2. n \in 1 .. n /\ \A k \in 1 .. n - 1 : k \in 1 .. n
    BY <1>2
  <2> QED
    BY <2>1, <2>2
<1> HIDE DEF R
<1>7. CASE same = {}
  <2> DEFINE new == [service |-> sv, spans |-> <<span>>]
  <2>1. out = Append(g, new)
    BY <1>7 DEF AddToGroup
  <2>2. new.service = sv /\ new.spans = <<span>>
    OBVIOUS
  <2> HIDE DEF new, out
  <2>3. Len(out) = L + 1 /\ out[L + 1] = new /\ \A i \in 1 .. L : out[i] = g[i]
    <3> DEFINE W == GroupType(SV, SP) \cup {new}
    <3>1. L \in Nat /\ g \in [1 .. L -> W]
      BY <1>1, LenProperties DEF R
    <3>2. new \in W
      OBVIOUS
    <3> HIDE DEF W, L
    <3>3. g \in Seq(W)
      BY <3>1, FunctionIsSeq
    <3> QED
      BY <2>1, <3>2, <3>3, AppendProperties DEF L
  <2>4. 1 .. L + 1 = (1 .. L) \cup {L + 1}
    BY <1>1
  <2>5. \A k \in 1 .. n - 1 : services[k] # sv
    <3> SUFFICES ASSUME NEW k \in 1 .. n - 1, services[k] = sv PROVE FALSE
      OBVIOUS
    <3>1. sv \in {g[i].service : i \in 1 .. L}
      BY <1>3
    <3> QED
      BY <1>7, <3>1
  <2>6. {out[i].service : i \in 1 .. L + 1} = {services[k] : k \in 1 .. n}
    <3>1. {out[i].service : i \in 1 .. L + 1} = {g[i].service : i \in 1 .. L} \cup {sv}
      <4>1. \A i \in 1 .. L : i \in 1 .. L + 1 /\ out[i].service = g[i].service
        BY <2>3, <2>4
      <4>2. L + 1 \in 1 .. L + 1 /\ out[L + 1].service = sv
        BY <2>2, <2>3, <2>4
      <4> HIDE DEF L
      <4> QED
        BY <2>4, <4>1, <4>2
    <3> QED
      BY <1>3, <1>6, <3>1
  <2>7. ASSUME NEW i \in 1 .. L + 1, NEW j \in 1 .. L + 1, i < j
        PROVE  Min(PlacesOfService(services, N, out[i].service)) < Min(PlacesOfService(services, N, out[j].service))
    <3>1. i \in 1 .. L /\ out[i] = g[i]
      BY <1>1, <2>3, <2>7
    <3>2. CASE j \in 1 .. L
      BY <1>3, <2>3, <2>7, <3>1, <3>2
    <3>3. CASE j = L + 1
      <4> DEFINE A == PlacesOfService(services, N, g[i].service)
                 B == PlacesOfService(services, N, sv)
      <4>1. g[i].service \in {services[k] : k \in 1 .. n - 1}
        BY <1>3, <3>1
      <4>2. PICK k \in 1 .. n - 1 : services[k] = g[i].service
        BY <4>1
      <4>3. A \subseteq Nat /\ k \in A /\ B \subseteq Nat /\ n \in B
        BY <4>2 DEF PlacesOfService
      <4>4. \A m \in B : m >= n
        BY <2>5 DEF PlacesOfService
      <4> HIDE DEF A, B
      <4>5. Min(A) \in Nat /\ Min(A) <= k /\ Min(B) \in B /\ Min(B) \in Nat
        BY <4>3, LeastPlace
      <4>6. Min(A) < Min(B)
        BY <4>4, <4>5
      <4> QED
        BY <2>2, <2>3, <3>1, <3>3, <4>6 DEF A, B
    <3> QED
      BY <2>4, <3>2, <3>3
  <2>8. ASSUME NEW i \in 1 .. L + 1
        PROVE  Covers(out[i].spans, services, spans, n, out[i].service)
    <3>1. CASE i \in 1 .. L
      BY <1>5, <1>7, <2>3, <3>1
    <3>2. CASE i = L + 1
      <4>1. PlacesOfService(services, n - 1, sv) = {}
        BY <2>5 DEF PlacesOfService
      <4> DEFINE e == << >>
      <4>2. Covers(e, services, spans, n - 1, sv)
        BY <4>1, CoversNone
      <4>3. e \in Seq(SP) /\ Append(e, span) = <<span>>
        OBVIOUS
      <4> HIDE DEF e
      <4>4. Covers(Append(e, span), services, spans, n, sv)
        BY <1>2, <4>2, <4>3, CoversMore
      <4> QED
        BY <2>2, <2>3, <3>2, <4>3, <4>4
    <3> QED
      BY <2>4, <3>1, <3>2
  <2>9. Len(out) = L + 1
    BY <2>3
  <2> HIDE DEF L
  <2>10. GroupsOf(out, services, spans, n, N)
    BY <2>6, <2>7, <2>8, <2>9 DEF GroupsOf
  <2> QED
    BY <2>10 DEF out
<1>8. CASE same # {}
  <2> DEFINE p == Min(same)
             new == [service |-> sv, spans |-> Append(g[p].spans, span)]
  <2>1. same \subseteq Nat
    BY <1>1
  <2>2. p \in same
    <3> HIDE DEF same
    <3> QED
      BY <1>8, <2>1, LeastPlace
  <2>3. p \in 1 .. L /\ g[p].service = sv
    BY <2>2
  <2>4. out = [g EXCEPT ![p] = new]
    BY <1>8 DEF AddToGroup
  <2>5. new.service = sv /\ new.spans = Append(g[p].spans, span)
    OBVIOUS
  <2> HIDE DEF new, out, p
  <2>6. out = [i \in 1 .. L |-> IF i = p THEN new ELSE g[i]]
    BY <2>3, <2>4, LenProperties
  <2>7. Len(out) = L
    <3> DEFINE W == {out[i] : i \in 1 .. L}
    <3>1. out \in [1 .. L -> W]
      BY <2>6
    <3> HIDE DEF W, L
    <3> QED
      BY <1>1, <3>1, FunctionIsSeq
  <2>8. \A i \in 1 .. L : /\ out[i].service = g[i].service
                          /\ i = p => out[i] = new
                          /\ i # p => out[i] = g[i]
    BY <2>3, <2>5, <2>6
  <2>9. {out[i].service : i \in 1 .. L} = {services[k] : k \in 1 .. n}
    <3>1. {out[i].service : i \in 1 .. L} = {g[i].service : i \in 1 .. L}
      BY <2>8
    <3>2. sv \in {g[i].service : i \in 1 .. L}
      BY <2>3
    <3> QED
      BY <1>3, <1>6, <3>1, <3>2
  <2>10. ASSUME NEW i \in 1 .. L, NEW j \in 1 .. L, i < j
         PROVE  Min(PlacesOfService(services, N, out[i].service)) < Min(PlacesOfService(services, N, out[j].service))
    BY <1>3, <2>8, <2>10
  <2>11. ASSUME NEW i \in 1 .. L
         PROVE  Covers(out[i].spans, services, spans, n, out[i].service)
    <3>1. CASE i = p
      <4>1. g[p].spans \in Seq(SP) /\ Covers(g[p].spans, services, spans, n - 1, sv)
        BY <1>3, <1>4, <2>3
      <4>2. Covers(Append(g[p].spans, span), services, spans, n, sv)
        BY <1>2, <4>1, CoversMore
      <4> QED
        BY <2>5, <2>8, <3>1, <4>2
    <3>2. CASE i # p
      <4>1. g[i].service # sv
        <5> SUFFICES ASSUME g[i].service = sv PROVE FALSE
          OBVIOUS
        <5> DEFINE v == Min(PlacesOfService(services, N, sv))
        <5>1. i < p \/ p < i
          BY <1>1, <2>3, <3>2
        <5>2. v < v
          BY <1>3, <2>3, <5>1
        <5>3. n \in PlacesOfService(services, N, sv) /\ PlacesOfService(services, N, sv) \subseteq Nat
          BY DEF PlacesOfService
        <5>4. v \in Nat
          BY <5>3, LeastPlace
        <5> HIDE DEF v
        <5> QED
          BY <5>2, <5>4
      <4> QED
        BY <1>5, <2>8, <3>2, <4>1
    <3> QED
      BY <3>1, <3>2
  <2> HIDE DEF L
  <2>12. GroupsOf(out, services, spans, n, N)
    BY <2>7, <2>9, <2>10, <2>11 DEF GroupsOf
  <2> QED
    BY <2>12 DEF out
<1> QED
  BY <1>7, <1>8

(* The loop over the spans goes from the front.                            *)
GroupRounds(groups, services, spans) ==
    /\ groups[0] = << >>
    /\ \A n \in 1 .. Len(services) :
          groups[n] = AddToGroup(groups[n - 1], services[n], spans[n])

LEMMA GroupedRecursion ==
    ASSUME NEW SV, NEW SP, NEW services \in Seq(SV), NEW spans \in Seq(SP), Len(spans) = Len(services)
    PROVE  \E groups \in [0 .. Len(services) -> Seq(GroupType(SV, SP))] :
              /\ Grouped(services, spans) = groups[Len(services)]
              /\ GroupRounds(groups, services, spans)
<1> DEFINE N == Len(services)
           Eq(g) == g = [n \in 0 .. N |-> IF n = 0 THEN << >>
                                           ELSE AddToGroup(g[n - 1], services[n], spans[n])]
           groups == CHOOSE g : Eq(g)
           V == Seq(GroupType(SV, SP))
           e == << >>
           step == [n \in 1 .. N |-> [v \in V |-> AddToGroup(v, services[n], spans[n])]]
<1>1. N \in Nat
  BY LenProperties
<1>2. Grouped(services, spans) = groups[N]
  BY DEF Grouped
<1>3. \A n \in 1 .. N, v \in V : AddToGroup(v, services[n], spans[n]) \in V
  <2>1. \A n \in 1 .. N : services[n] \in SV /\ spans[n] \in SP
    BY ElementOfSeq
  <2> QED
    BY <2>1, AddToGroupType
<1>4. e \in V
  BY EmptySeq
<1> HIDE DEF N
<1>5. step \in [1 .. N -> [V -> V]] /\ \A n \in 1 .. N, v \in V : step[n][v] = AddToGroup(v, services[n], spans[n])
  BY <1>3
<1> HIDE DEF step, V, e
<1>6. PICK f \in [0 .. N -> V] : Follows(f, N, e, step)
  BY <1>1, <1>4, <1>5, RecursionUpTo
<1>7. \A k \in 1 .. N : f[k] = AddToGroup(f[k - 1], services[k], spans[k])
  <2>1. \A k \in 1 .. N : k - 1 \in 0 .. N /\ f[k - 1] \in V
    BY <1>1
  <2> QED
    BY <1>5, <1>6, <2>1 DEF Follows
<1>8. Eq(f)
  <2>1. \A n \in 0 .. N : n = 0 \/ n \in 1 .. N
    BY <1>1
  <2>2. \A n \in 0 .. N : f[n] = IF n = 0 THEN e ELSE AddToGroup(f[n - 1], services[n], spans[n])
    BY ZenonT(30), <1>6, <1>7, <2>1 DEF Follows
  <2>3. f = [n \in 0 .. N |-> f[n]]
    OBVIOUS
  <2> QED
    BY <2>2, <2>3 DEF e
<1>9. Eq(groups)
  BY ZenonT(30), <1>8
<1> HIDE DEF groups
<1>10. /\ groups = [n \in 0 .. N |-> groups[n]]
       /\ \A n \in 0 .. N : groups[n] = IF n = 0 THEN e ELSE AddToGroup(groups[n - 1], services[n], spans[n])
  BY <1>9 DEF e
<1> HIDE DEF Eq
<1>11. /\ groups[0] = e
       /\ \A n \in 1 .. N : groups[n] = AddToGroup(groups[n - 1], services[n], spans[n])
  <2>1. 0 \in 0 .. N /\ \A n \in 1 .. N : n \in 0 .. N /\ n # 0
    BY <1>1
  <2> QED
    BY <1>10, <2>1
<1>12. \A n \in 0 .. N : groups[n] \in V
  BY <1>1, <1>3, <1>4, <1>11, RoundsStay
<1>13. groups \in [0 .. N -> V]
  BY <1>10, <1>12
<1>14. GroupRounds(groups, services, spans)
  BY <1>11 DEF GroupRounds, N, e
<1> QED
  BY <1>2, <1>13, <1>14 DEF N, V

(* All the spans in their groups.                                          *)
LEMMA GroupedProperties ==
    ASSUME NEW SV, NEW SP, NEW services \in Seq(SV), NEW spans \in Seq(SP), Len(spans) = Len(services)
    PROVE  /\ Grouped(services, spans) \in Seq(GroupType(SV, SP))
           /\ GroupsOf(Grouped(services, spans), services, spans, Len(services), Len(services))
<1> DEFINE N == Len(services)
           V == Seq(GroupType(SV, SP))
<1>1. PICK groups \in [0 .. N -> V] :
         Grouped(services, spans) = groups[N] /\ GroupRounds(groups, services, spans)
  BY GroupedRecursion
<1>2. N \in Nat /\ \A n \in 1 .. N : spans[n] \in SP
  BY LenProperties, ElementOfSeq
<1>3. /\ groups[0] = << >>
      /\ \A n \in 1 .. N : groups[n] = AddToGroup(groups[n - 1], services[n], spans[n])
  BY <1>1 DEF GroupRounds
<1> DEFINE Q == {n \in 0 .. N : GroupsOf(groups[n], services, spans, n, N)}
<1>4. 0 \in Q
  <2>1. Len(groups[0]) = 0 /\ 1 .. 0 = {}
    BY <1>3
  <2>2. GroupsOf(groups[0], services, spans, 0, N)
    BY <2>1 DEF GroupsOf
  <2> QED
    BY <1>2, <2>2
<1>5. ASSUME NEW n \in 0 .. N, n # 0, n - 1 \in Q PROVE n \in Q
  <2>1. n \in 1 .. N /\ n - 1 \in 0 .. N /\ groups[n - 1] \in V
    <3>1. n \in 1 .. N /\ n - 1 \in 0 .. N
      BY <1>2, <1>5
    <3> HIDE DEF V, N
    <3> QED
      BY <3>1
  <2>2. GroupsOf(groups[n - 1], services, spans, n - 1, N)
    BY <1>5
  <2>3. groups[n] = AddToGroup(groups[n - 1], services[n], spans[n]) /\ spans[n] \in SP
    BY <1>2, <1>3, <2>1
  <2>4. GroupsOf(AddToGroup(groups[n - 1], services[n], spans[n]), services, spans, n, N)
    <3> HIDE DEF N
    <3> QED
      BY <1>2, <2>1, <2>2, <2>3, GroupsGrow
  <2> QED
    BY <2>3, <2>4
<1>6. \A n \in 0 .. N : n \in Q
  <2> HIDE DEF Q, N
  <2> QED
    BY <1>2, <1>4, <1>5, InductionUpTo
<1>7. N \in 0 .. N
  BY <1>2
<1>8. N \in Q /\ groups[N] \in V
  <2> HIDE DEF Q
  <2> QED
    BY <1>6, <1>7
<1> QED
  BY <1>1, <1>8

(* A list of Zipkin spans and the OTLP traces it becomes.                  *)
LEMMA ZipkinListIsKept ==
    ASSUME NEW zs, IsZipkinList(zs), NEW orders \in TagOrders(zs)
    PROVE  ZipkinSpansKept(zs, ToOTLP(zs, orders))
<1> DEFINE N == Len(zs)
           services == [i \in 1 .. N |-> zs[i].service]
           spans == [i \in 1 .. N |-> zipkinSpanToOTLP(zs[i], orders[i])]
           SV == {services[i] : i \in 1 .. N}
           SP == {spans[i] : i \in 1 .. N}
           g == Grouped(services, spans)
           L == Len(g)
           td == ToOTLP(zs, orders)
           rss == td.resourceSpans
           name(rs) == IF rs.resource.attributes = <<>> THEN ""
                       ELSE rs.resource.attributes[1].value.val
           places(rs) == {n \in 1 .. Len(zs) : zs[n].service = name(rs)}
           of(rs) == rs.scopeSpans[1].spans
<1>1. N \in Nat /\ \A i \in 1 .. N : ZipkinSpanKept(zs[i], spans[i])
  <2>1. N \in Nat
    BY DEF IsZipkinList, IsSequence
  <2>2. ASSUME NEW i \in 1 .. N PROVE ZipkinSpanKept(zs[i], spans[i])
    <3> DEFINE z == zs[i]
               ranged == orders[i]
    <3>1. /\ z.start \in Nat /\ z.dur \in Nat /\ Len(z.trace) \in 1 .. 2 /\ IsFiniteSet(z.tags)
          /\ \A t, u \in z.tags : t.key = u.key => t = u
          /\ IsSequence(z.notes) /\ \A n \in 1 .. Len(z.notes) : z.notes[n].time \in Nat
      BY DEF IsZipkinList
    <3>2. ranged \in SetToSeqs(z.tags)
      BY DEF TagOrders
    <3>3. spans[i] = zipkinSpanToOTLP(z, ranged)
      OBVIOUS
    <3> HIDE DEF z, ranged, spans
    <3>4. ZipkinSpanKept(z, zipkinSpanToOTLP(z, ranged))
      BY <3>1, <3>2, ZipkinSpanIsKept
    <3> QED
      BY <3>3, <3>4 DEF z
  <2> QED
    BY <2>1, <2>2
<1>2. /\ services \in Seq(SV) /\ Len(services) = N /\ spans \in Seq(SP) /\ Len(spans) = N
      /\ \A i \in 1 .. N : services[i] = zs[i].service
  <2>1. services \in [1 .. N -> SV] /\ spans \in [1 .. N -> SP]
    OBVIOUS
  <2>2. \A i \in 1 .. N : services[i] = zs[i].service
    OBVIOUS
  <2> HIDE DEF services, spans, SV, SP, N
  <2> QED
    BY <1>1, <2>1, <2>2, FunctionIsSeq
<1>3. rss = [i \in 1 .. L |->
               OneResource(When(g[i].service # "", <<StringKV("service.name", g[i].service)>>),
                           g[i].spans)]
  BY DEF ToOTLP
<1> HIDE DEF services, spans, SV, SP, N
<1>4. g \in Seq(GroupType(SV, SP)) /\ GroupsOf(g, services, spans, N, N)
  BY <1>2, GroupedProperties
<1> HIDE DEF g, rss
<1>5. L \in Nat /\ Len(rss) = L
  <2>1. L \in Nat
    BY <1>4, LenProperties
  <2> DEFINE W == {rss[i] : i \in 1 .. L}
  <2>2. rss \in [1 .. L -> W]
    BY <1>3
  <2> HIDE DEF W, L
  <2> QED
    BY <2>1, <2>2, FunctionIsSeq
<1>6. ASSUME NEW i \in 1 .. L
      PROVE  /\ name(rss[i]) = g[i].service /\ of(rss[i]) = g[i].spans
             /\ places(rss[i]) = PlacesOfService(services, N, g[i].service)
  <2> DEFINE sv == g[i].service
             attrs == When(sv # "", <<StringKV("service.name", sv)>>)
             rs == OneResource(attrs, g[i].spans)
  <2>1. rss[i] = rs
    BY <1>3
  <2>2. attrs = IF sv # "" THEN <<StringKV("service.name", sv)>> ELSE << >>
    BY DEF When
  <2>3. StringKV("service.name", sv).value.val = sv
    BY DEF StringKV
  <2> HIDE DEF sv, attrs
  <2>4. rs.resource.attributes = attrs /\ of(rs) = g[i].spans
    BY DEF OneResource
  <2> HIDE DEF rs
  <2>5. name(rs) = sv
    <3>1. CASE sv # ""
      <4> DEFINE kv == StringKV("service.name", sv)
      <4>1. attrs = <<kv>> /\ kv.value.val = sv
        BY <2>2, <2>3, <3>1
      <4> HIDE DEF kv
      <4>2. attrs # <<>> /\ attrs[1] = kv
        BY <4>1
      <4> QED
        BY <2>4, <4>1, <4>2
    <3>2. CASE sv = ""
      BY <2>2, <2>4, <3>2
    <3> QED
      BY <3>1, <3>2
  <2>6. name(rss[i]) = sv /\ of(rss[i]) = g[i].spans
    BY <2>1, <2>4, <2>5
  <2>7. places(rss[i]) = PlacesOfService(services, N, sv)
    <3> HIDE DEF name
    <3> QED
      BY <1>2, <2>6 DEF PlacesOfService, N
  <2> HIDE DEF name, places, of
  <2> QED
    BY <2>6, <2>7 DEF sv
<1> HIDE DEF name, places, of
<1>7. /\ {g[i].service : i \in 1 .. L} = {services[k] : k \in 1 .. N}
      /\ \A i, j \in 1 .. L : i < j =>
            Min(PlacesOfService(services, N, g[i].service)) < Min(PlacesOfService(services, N, g[j].service))
      /\ \A i \in 1 .. L : Covers(g[i].spans, services, spans, N, g[i].service)
  BY <1>4 DEF GroupsOf
<1>8. {name(rss[i]) : i \in 1 .. L} = {zs[n].service : n \in 1 .. N}
  <2>1. {name(rss[i]) : i \in 1 .. L} = {g[i].service : i \in 1 .. L}
    BY <1>6
  <2>2. {services[k] : k \in 1 .. N} = {zs[n].service : n \in 1 .. N}
    BY <1>2
  <2> QED
    BY <1>7, <2>1, <2>2
<1>9. ASSUME NEW i \in 1 .. L, NEW j \in 1 .. L, i < j
      PROVE  Min(places(rss[i])) < Min(places(rss[j]))
  BY <1>6, <1>7, <1>9
<1>10. ASSUME NEW i \in 1 .. L
       PROVE  \E at \in [1 .. Len(of(rss[i])) -> places(rss[i])] :
                 /\ \A k, l \in DOMAIN at : k < l => at[k] < at[l]
                 /\ \A n \in places(rss[i]) : \E k \in DOMAIN at : at[k] = n
                 /\ \A k \in DOMAIN at : ZipkinSpanKept(zs[at[k]], of(rss[i])[k])
  <2> DEFINE sv == g[i].service
             q == g[i].spans
             P == PlacesOfService(services, N, sv)
  <2>1. of(rss[i]) = q /\ places(rss[i]) = P
    BY <1>6
  <2>2. Covers(q, services, spans, N, sv)
    BY <1>7
  <2>3. P \subseteq 1 .. N
    BY DEF PlacesOfService
  <2> HIDE DEF q
  <2>4. PICK at \in [1 .. Len(q) -> P] : CoversBy(q, services, spans, N, sv, at)
    BY <2>2 DEF Covers
  <2>5. /\ \A k, l \in DOMAIN at : k < l => at[k] < at[l]
        /\ \A m \in P : \E k \in DOMAIN at : at[k] = m
        /\ \A k \in DOMAIN at : q[k] = spans[at[k]]
    BY <2>4 DEF CoversBy
  <2> HIDE DEF P
  <2>6. \A k \in DOMAIN at : ZipkinSpanKept(zs[at[k]], q[k])
    <3>1. \A k \in DOMAIN at : at[k] \in 1 .. N
      BY <2>3
    <3> QED
      BY <1>1, <2>5, <3>1
  <2> QED
    BY <2>1, <2>5, <2>6
<1>11. ZipkinSpansKept(zs, td)
  <2>1. {name(rss[i]) : i \in 1 .. Len(rss)} = {zs[n].service : n \in 1 .. Len(zs)}
    BY <1>5, <1>8 DEF N
  <2>2. \A i, j \in 1 .. Len(rss) : i < j => Min(places(rss[i])) < Min(places(rss[j]))
    BY <1>5, <1>9
  <2>3. \A i \in 1 .. Len(rss) :
           \E at \in [1 .. Len(of(rss[i])) -> places(rss[i])] :
              /\ \A k, l \in DOMAIN at : k < l => at[k] < at[l]
              /\ \A n \in places(rss[i]) : \E k \in DOMAIN at : at[k] = n
              /\ \A k \in DOMAIN at : ZipkinSpanKept(zs[at[k]], of(rss[i])[k])
    <3> HIDE DEF L
    <3>1. 1 .. Len(rss) = 1 .. L
      BY <1>5
    <3> QED
      BY Zenon, <1>10, <3>1
  <2> HIDE DEF td
  <2> QED
    BY Zenon, <2>1, <2>2, <2>3 DEF ZipkinSpansKept, name, places, of, rss
<1> QED
  BY <1>11

-----------------------------------------------------------------------------
(* Where a conversion comes from.                                          *)
ConvertersInv ==
    /\ vPath \in {"none", "jaeger", "zipkin"}
    /\ vPath = "jaeger" => \E b \in JaegerBatches :
          vIn = <<b>> /\ vOut = Ok(OTLPToBatch(BatchToOTLP(b)))
    /\ vPath = "zipkin" => vIn \in ZipkinLists /\ \E orders \in TagOrders(vIn) :
          vOut = Ok(ToOTLP(vIn, orders))

(* The converters lose, repeat and reorder nothing but what the property   *)
(* names: spans, times that fit, each key of a tag list with its last      *)
(* value, logs, parents and services, for every batch and list a client    *)
(* can send and every order in which Go walks a map.                       *)
THEOREM ConvertersKeepEverySpan == ConvertersSpec => []ConvertersKeepSpans
<1>1. ConvertersInit => ConvertersInv
  BY DEF ConvertersInit, ConvertersInv
<1>2. ConvertersInv /\ [ConvertersNext]_converterVars => ConvertersInv'
  <2> SUFFICES ASSUME ConvertersInv, [ConvertersNext]_converterVars PROVE ConvertersInv'
    OBVIOUS
  <2>1. CASE JaegerConverts
    <3>1. PICK b \in JaegerBatches : vIn' = <<b>> /\ vOut' = Ok(OTLPToBatch(BatchToOTLP(b)))
      BY <2>1 DEF JaegerConverts
    <3>2. vPath' = "jaeger"
      BY <2>1 DEF JaegerConverts
    <3> QED
      BY <3>1, <3>2 DEF ConvertersInv
  <2>2. CASE ZipkinConverts
    <3>3. PICK zs \in ZipkinLists : \E orders \in TagOrders(zs) :
             vIn' = zs /\ vOut' = Ok(ToOTLP(zs, orders))
      BY <2>2 DEF ZipkinConverts
    <3>1. PICK orders \in TagOrders(zs) : vIn' = zs /\ vOut' = Ok(ToOTLP(zs, orders))
      BY <3>3
    <3>2. vPath' = "zipkin"
      BY <2>2 DEF ZipkinConverts
    <3> QED
      BY <3>1, <3>2 DEF ConvertersInv
  <2>3. CASE UNCHANGED converterVars
    BY <2>3 DEF ConvertersInv, converterVars
  <2> QED
    BY <2>1, <2>2, <2>3 DEF ConvertersNext
<1>3. ConvertersInv => ConvertersKeepSpans
  <2> SUFFICES ASSUME ConvertersInv PROVE ConvertersKeepSpans
    OBVIOUS
  <2>0. \A v : Ok(v).ok = TRUE /\ Ok(v).val = v
    BY DEF Ok
  <2>1. ASSUME vPath = "jaeger" PROVE vOut.ok /\ JaegerBatchKept(vIn[1], vOut.val)
    <3>1. PICK b \in JaegerBatches : vIn = <<b>> /\ vOut = Ok(OTLPToBatch(BatchToOTLP(b)))
      BY <2>1 DEF ConvertersInv
    <3>2. JaegerBatchKept(b, OTLPToBatch(BatchToOTLP(b)))
      BY ConvertersAssumption, JaegerBatchAndBack
    <3>3. vIn[1] = b
      BY <3>1
    <3>4. vOut.ok /\ vOut.val = OTLPToBatch(BatchToOTLP(b))
      BY <2>0, <3>1
    <3> QED
      BY <3>2, <3>3, <3>4
  <2>2. ASSUME vPath = "zipkin" PROVE vOut.ok /\ ZipkinSpansKept(vIn, vOut.val)
    <3>1. PICK orders \in TagOrders(vIn) : vOut = Ok(ToOTLP(vIn, orders))
      BY <2>2 DEF ConvertersInv
    <3>2. IsZipkinList(vIn)
      BY <2>2, ConvertersAssumption DEF ConvertersInv
    <3>3. ZipkinSpansKept(vIn, ToOTLP(vIn, orders))
      BY <3>2, ZipkinListIsKept
    <3>4. vOut.ok /\ vOut.val = ToOTLP(vIn, orders)
      BY <2>0, <3>1
    <3> QED
      BY <3>3, <3>4
  <2> QED
    BY <2>1, <2>2 DEF ConvertersKeepSpans
<1> QED
  BY <1>1, <1>2, <1>3, PTL DEF ConvertersSpec
=============================================================================
