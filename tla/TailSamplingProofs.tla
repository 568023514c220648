-------------------------- MODULE TailSamplingProofs ------------------------
(***************************************************************************)
(* Theorems about TailSampling, for any spans, traces, policies, decision  *)
(* wait and buffer size.                                                   *)
(***************************************************************************)
EXTENDS TailSampling, SeqLemmas, FiniteSetTheorems

(* The spans a ProcessTraces has yet to take are new and distinct.         *)
PendingIsNew == IsInjective(todo) /\ ToSet(todo) \cap taken = {}

(* The inductive invariant.  The bound on the buffer needs it to be        *)
(* finite; that a span meets one fate only rests on the pending ones being *)
(* new.                                                                    *)
TailInv ==
    /\ OldestFirstAndBounded
    /\ IsFiniteSet(DOMAIN traces)
    /\ PendingIsNew
    /\ SpansHaveOneFate

(* The list o is sorted by the age of its traces, oldest first.            *)
SortedByAge(o) == \A i, j \in DOMAIN o : i < j => traces[o[i]].age >= traces[o[j]].age

(* A new processor satisfies the invariant.                                *)
LEMMA TailInvInit == TailInit => TailInv
<1> SUFFICES ASSUME TailInit PROVE TailInv
  OBVIOUS
<1>1. ToSet(<< >>) = {} /\ IsInjective(<< >>) /\ DOMAIN << >> = {}
  BY DEF ToSet, IsInjective
<1>2. TailTypeOK
  <2>1. todo \in Seq(Spans) /\ order \in Seq(TraceIds) /\ DOMAIN traces = {}
    BY <1>1 DEF TailInit
  <2>2. /\ loop = "new" /\ ctxDone = FALSE /\ closer = "open"
        /\ taken = {} /\ exported = {} /\ rejected = {} /\ evicted = {}
    BY DEF TailInit
  <2> QED
    BY <2>1, <2>2 DEF TailTypeOK
<1>3. IsFiniteSet({}) /\ Cardinality({}) = 0
  BY FS_EmptySet
<1>4. OldestFirstAndBounded
  BY <1>1, <1>2, <1>3, TailAssumption DEF TailInit, OldestFirstAndBounded, OrderMatchesTraces
<1>5. PendingIsNew
  BY <1>1 DEF TailInit, PendingIsNew
<1>6. SpansHaveOneFate
  BY <1>1 DEF TailInit, SpansHaveOneFate, Buffered
<1> QED
  BY <1>1, <1>3, <1>4, <1>5, <1>6 DEF TailInv, TailInit

-----------------------------------------------------------------------------
(* The list and the map *)

(* The spans and the age of a buffer.                                      *)
LEMMA BufferType ==
    ASSUME TailTypeOK, NEW t \in DOMAIN traces
    PROVE  /\ t \in TraceIds
           /\ traces[t] = [spans |-> traces[t].spans, age |-> traces[t].age]
           /\ traces[t].spans \in SUBSET Spans
           /\ traces[t].age \in 0 .. DecisionWait
BY DEF TailTypeOK, Buffers

(* Opening a buffer for s beside the kept ones, which o lists: the new     *)
(* trace is the youngest and there is room for it.                         *)
LEMMA OpenKeepsOrder ==
    ASSUME TailTypeOK, NEW s \in Spans, TraceOf(s) \notin DOMAIN traces,
           NEW kept, kept \subseteq DOMAIN traces, NEW o \in Seq(TraceIds),
           ToSet(o) = kept, IsInjective(o), SortedByAge(o),
           IsFiniteSet(kept), Cardinality(kept) < MaxTraces,
           traces' = WithBuffer(s, kept), order' = Append(o, TraceOf(s))
    PROVE  /\ DOMAIN traces' \subseteq TraceIds
           /\ \A t \in DOMAIN traces' : traces'[t] \in Buffers
           /\ order' \in Seq(TraceIds)
           /\ ToSet(order') = DOMAIN traces'
           /\ IsInjective(order')
           /\ SortedByAge(order)'
           /\ IsFiniteSet(DOMAIN traces')
           /\ Cardinality(DOMAIN traces') <= MaxTraces
<1> DEFINE new == TraceOf(s)
<1>1. new \in TraceIds
  BY TailAssumption DEF TraceOf, Infos
<1>2. /\ DOMAIN traces' = kept \cup {new}
      /\ traces'[new] = [spans |-> {s}, age |-> 0]
      /\ \A t \in kept : traces'[t] = traces[t]
  BY DEF WithBuffer, NewBuffer
<1>3. new \notin kept
  OBVIOUS
<1> HIDE DEF new
<1>4. \A t \in DOMAIN traces' : t \in TraceIds /\ traces'[t] \in Buffers
  <2>1. [spans |-> {s}, age |-> 0] \in Buffers
    BY TailAssumption DEF Buffers
  <2>2. \A t \in kept : t \in TraceIds /\ traces[t] \in Buffers
    BY DEF TailTypeOK
  <2> QED
    BY <1>1, <1>2, <2>1, <2>2
<1>5. order' \in Seq(TraceIds) /\ order' = Append(o, new)
  BY <1>1, AppendProperties DEF new
<1>6. ToSet(order') = kept \cup {new}
  BY <1>1, <1>5, ToSetAppend
<1>7. IsInjective(order')
  BY <1>1, <1>3, <1>5, InjectiveAppend
<1>8. SortedByAge(order)'
  <2>1. /\ Len(order') = Len(o) + 1
        /\ \A i \in 1 .. Len(o) : order'[i] = o[i]
        /\ order'[Len(o) + 1] = new
    BY <1>1, <1>5, AppendProperties
  <2>2. Len(o) \in Nat /\ DOMAIN o = 1 .. Len(o) /\ DOMAIN order' = 1 .. Len(o) + 1
    BY <1>5, <2>1, LenProperties
  <2>3. ASSUME NEW i \in DOMAIN order', NEW j \in DOMAIN order', i < j
        PROVE  traces'[order'[i]].age >= traces'[order'[j]].age
    <3>1. i \in DOMAIN o /\ order'[i] = o[i]
      BY <2>1, <2>2, <2>3
    <3>2. o[i] \in kept /\ traces'[o[i]] = traces[o[i]]
      BY <1>2, <3>1 DEF ToSet
    <3>3. CASE j \in DOMAIN o
      <4>1. order'[j] = o[j]
        BY <2>1, <2>2, <3>3
      <4>2. traces'[o[j]] = traces[o[j]]
        BY <1>2, <3>3 DEF ToSet
      <4>3. traces[o[i]].age >= traces[o[j]].age
        BY <2>3, <3>1, <3>3 DEF SortedByAge
      <4> QED
        BY <3>1, <3>2, <4>1, <4>2, <4>3
    <3>4. CASE j \notin DOMAIN o
      <4>1. order'[j] = new
        BY <2>1, <2>2, <3>4
      <4>2. traces[o[i]].age \in 0 .. DecisionWait
        BY <3>2, BufferType
      <4>3. traces'[new].age = 0 /\ traces[o[i]].age >= 0
        BY <1>2, <4>2, TailAssumption
      <4> QED
        BY <3>1, <3>2, <4>1, <4>3
    <3> QED
      BY <3>3, <3>4
  <2> QED
    BY <2>3 DEF SortedByAge
<1>9. IsFiniteSet(DOMAIN traces') /\ Cardinality(DOMAIN traces') <= MaxTraces
  <2>1. IsFiniteSet(kept \cup {new}) /\ Cardinality(kept \cup {new}) = Cardinality(kept) + 1
    BY <1>3, FS_AddElement
  <2>2. Cardinality(kept) \in Nat
    BY FS_CardinalityType
  <2> QED
    BY <1>2, <2>1, <2>2, TailAssumption
<1> QED
  BY <1>2, <1>4, <1>5, <1>6, <1>7, <1>8, <1>9

(* The first span of a trace keeps the list and the map in step.           *)
LEMMA OrderOpen ==
    ASSUME TailInv, NEW s \in Spans, OpenTrace(s)
    PROVE  /\ DOMAIN traces' \subseteq TraceIds
           /\ \A t \in DOMAIN traces' : traces'[t] \in Buffers
           /\ order' \in Seq(TraceIds)
           /\ ToSet(order') = DOMAIN traces'
           /\ IsInjective(order')
           /\ SortedByAge(order)'
           /\ IsFiniteSet(DOMAIN traces')
           /\ Cardinality(DOMAIN traces') <= MaxTraces
<1> DEFINE D == DOMAIN traces
<1>1. /\ TailTypeOK /\ order \in Seq(TraceIds) /\ ToSet(order) = D /\ IsInjective(order)
      /\ SortedByAge(order) /\ IsFiniteSet(D) /\ Cardinality(D) <= MaxTraces
      /\ TraceOf(s) \notin D
  BY DEF TailInv, OldestFirstAndBounded, OrderMatchesTraces, TailTypeOK, OpenTrace,
         SortedByAge
<1>2. Cardinality(D) \in Nat
  BY <1>1, FS_CardinalityType
<1>3. CASE BufferFull /\ order # << >>
  <2> DEFINE o == Tail(order)
             kept == D \ {Head(order)}
  <2>1. /\ o \in Seq(TraceIds) /\ ToSet(order) = {Head(order)} \cup ToSet(o)
        /\ \A i \in DOMAIN o : i + 1 \in DOMAIN order /\ o[i] = order[i + 1]
    BY <1>1, <1>3, ToSetHeadTail
  <2>2. IsInjective(o) /\ Head(order) \notin ToSet(o)
    BY <1>1, <1>3, InjectiveTail
  <2>3. ToSet(o) = kept /\ kept \subseteq D /\ Head(order) \in D
    BY <1>1, <2>1, <2>2
  <2>4. traces' = WithBuffer(s, kept) /\ order' = Append(o, TraceOf(s))
    BY <1>3 DEF OpenTrace, OrderAfterEviction
  <2>5. IsFiniteSet(kept) /\ Cardinality(kept) = Cardinality(D) - 1
    BY <1>1, <2>3, FS_RemoveElement
  <2>6. Cardinality(kept) < MaxTraces
    BY <1>1, <1>2, <2>5, TailAssumption
  <2>7. DOMAIN o \subseteq Int
    BY <2>1, LenProperties
  <2> HIDE DEF o, kept
  <2>8. SortedByAge(o)
    <3>1. \A i, j \in DOMAIN o : i < j => i + 1 < j + 1
      BY <2>7
    <3> QED
      BY <1>1, <2>1, <3>1 DEF SortedByAge
  <2> QED
    BY <1>1, <2>1, <2>2, <2>3, <2>4, <2>5, <2>6, <2>8, OpenKeepsOrder
<1>4. CASE ~(BufferFull /\ order # << >>)
  <2>1. traces' = WithBuffer(s, D) /\ order' = Append(order, TraceOf(s))
    BY <1>4 DEF OpenTrace
  <2>2. order = << >> => D = {}
    BY <1>1 DEF ToSet
  <2>3. Cardinality({}) = 0
    BY FS_EmptySet
  <2>4. Cardinality(D) < MaxTraces
    BY <1>1, <1>2, <1>4, <2>2, <2>3, TailAssumption DEF BufferFull
  <2> QED
    BY <1>1, <2>1, <2>4, OpenKeepsOrder
<1> QED
  BY <1>3, <1>4

(* A later span of a trace leaves the list, the map's keys and the ages.   *)
LEMMA OrderJoin ==
    ASSUME TailInv, NEW s \in Spans, JoinTrace(s)
    PROVE  /\ DOMAIN traces' = DOMAIN traces
           /\ \A t \in DOMAIN traces :
                 /\ traces'[t].spans = IF t = TraceOf(s) THEN traces[t].spans \cup {s}
                                                        ELSE traces[t].spans
                 /\ traces'[t].age = traces[t].age
                 /\ traces'[t] \in Buffers
<1>1. TailTypeOK
  BY DEF TailInv, OldestFirstAndBounded, OrderMatchesTraces
<1>2. \A t \in DOMAIN traces : traces[t] \in Buffers
  BY <1>1 DEF TailTypeOK
<1>3. traces' = [traces EXCEPT ![TraceOf(s)].spans = @ \cup {s}] /\ TraceOf(s) \in DOMAIN traces
  BY DEF JoinTrace
<1> QED
  BY <1>2, <1>3 DEF Buffers

(* makeDecisions removes the same traces from the list and from the map    *)
(* and keeps the order of the others.                                      *)
LEMMA OrderDecide ==
    ASSUME TailInv, NEW due, due \subseteq DOMAIN traces,
           traces' = Restrict(traces, DOMAIN traces \ due), order' = Remaining(due)
    PROVE  /\ DOMAIN traces' \subseteq TraceIds
           /\ \A t \in DOMAIN traces' : traces'[t] \in Buffers
           /\ order' \in Seq(TraceIds)
           /\ ToSet(order') = DOMAIN traces'
           /\ IsInjective(order')
           /\ SortedByAge(order)'
           /\ IsFiniteSet(DOMAIN traces')
           /\ Cardinality(DOMAIN traces') <= MaxTraces
<1> DEFINE D == DOMAIN traces
<1>1. /\ TailTypeOK /\ order \in Seq(TraceIds) /\ ToSet(order) = D /\ IsInjective(order)
      /\ SortedByAge(order) /\ IsFiniteSet(D) /\ Cardinality(D) <= MaxTraces
  BY DEF TailInv, OldestFirstAndBounded, OrderMatchesTraces, TailTypeOK, SortedByAge
<1>2. DOMAIN traces' = D \ due /\ \A t \in D \ due : traces'[t] = traces[t]
  BY DEF Restrict
<1>3. order' = Keep(order, D \ due)
  BY <1>1 DEF Remaining, Listed
<1>4. /\ order' \in Seq(TraceIds) /\ ToSet(order') = D \ due /\ InOrderOf(order', order)
  <2>1. /\ order' \in Seq(TraceIds) /\ ToSet(order') = ToSet(order) \cap (D \ due)
        /\ InOrderOf(order', order)
    BY <1>1, <1>3, KeepProperties
  <2> QED
    BY <1>1, <2>1
<1>5. IsInjective(order')
  BY <1>1, <1>4, InOrderOfInjective
<1>6. SortedByAge(order)'
  <2>1. ASSUME NEW i \in DOMAIN order', NEW j \in DOMAIN order', i < j
        PROVE  traces'[order'[i]].age >= traces'[order'[j]].age
    <3>1. PICK k \in DOMAIN order, l \in DOMAIN order :
              k < l /\ order[k] = order'[i] /\ order[l] = order'[j]
      BY <1>4, <2>1 DEF InOrderOf
    <3>2. order'[i] \in D \ due /\ order'[j] \in D \ due
      BY <1>4 DEF ToSet
    <3>3. traces[order[k]].age >= traces[order[l]].age
      BY <1>1, <3>1 DEF SortedByAge
    <3> QED
      BY <1>2, <3>1, <3>2, <3>3
  <2> QED
    BY <2>1 DEF SortedByAge
<1>7. IsFiniteSet(D \ due) /\ Cardinality(D \ due) <= MaxTraces
  <2>1. IsFiniteSet(D \ due) /\ Cardinality(D \ due) <= Cardinality(D)
    BY <1>1, FS_Subset
  <2>2. Cardinality(D) \in Nat /\ Cardinality(D \ due) \in Nat
    BY <1>1, <2>1, FS_CardinalityType
  <2> QED
    BY <1>1, <2>1, <2>2, TailAssumption
<1> QED
  BY <1>1, <1>2, <1>4, <1>5, <1>6, <1>7 DEF TailTypeOK

(* The ages move together: a second that passes keeps the order.           *)
LEMMA OrderTick ==
    ASSUME TailInv, Tick
    PROVE  /\ DOMAIN traces' = DOMAIN traces
           /\ \A t \in DOMAIN traces :
                 traces'[t].spans = traces[t].spans /\ traces'[t] \in Buffers
           /\ SortedByAge(order)'
<1> DEFINE Older(a) == IF a < DecisionWait THEN a + 1 ELSE a
<1>1. /\ TailTypeOK /\ ToSet(order) = DOMAIN traces /\ SortedByAge(order) /\ order' = order
  BY DEF TailInv, OldestFirstAndBounded, OrderMatchesTraces, Tick, SortedByAge
<1>2. /\ DOMAIN traces' = DOMAIN traces
      /\ \A t \in DOMAIN traces :
            traces'[t] = [traces[t] EXCEPT !.age = Older(traces[t].age)]
  BY DEF Tick
<1>3. \A a \in 0 .. DecisionWait : Older(a) \in 0 .. DecisionWait
  BY TailAssumption
<1>4. \A a, b \in 0 .. DecisionWait : a >= b => Older(a) >= Older(b)
  BY TailAssumption
<1> HIDE DEF Older
<1>5. ASSUME NEW t \in DOMAIN traces
      PROVE  /\ traces'[t].spans = traces[t].spans
             /\ traces'[t].age = Older(traces[t].age)
             /\ traces'[t] \in Buffers
             /\ traces[t].age \in 0 .. DecisionWait
  <2>1. traces[t] \in Buffers
    BY <1>1 DEF TailTypeOK
  <2>2. traces[t].age \in 0 .. DecisionWait
    BY <2>1 DEF Buffers
  <2>3. Older(traces[t].age) \in 0 .. DecisionWait
    BY <1>3, <2>2
  <2> QED
    BY <1>2, <2>1, <2>2, <2>3 DEF Buffers
<1>6. \A i \in DOMAIN order : order[i] \in DOMAIN traces
  BY <1>1 DEF ToSet
<1>7. SortedByAge(order)'
  BY <1>1, <1>4, <1>5, <1>6 DEF SortedByAge
<1> QED
  BY <1>2, <1>5, <1>7

-----------------------------------------------------------------------------
(* The fate of a span *)

(* The spans of a set of buffers.                                          *)
SpansOf(T) == UNION {traces[t].spans : t \in T}

(* A buffered span has a buffer of its own trace only, and has met no fate.*)
LEMMA OwnBuffer ==
    ASSUME SpansHaveOneFate, NEW T, T \subseteq DOMAIN traces
    PROVE  /\ SpansOf(T) \cap SpansOf(DOMAIN traces \ T) = {}
           /\ Buffered = SpansOf(T) \cup SpansOf(DOMAIN traces \ T)
<1>1. \A t \in DOMAIN traces : \A x \in traces[t].spans : TraceOf(x) = t
  BY DEF SpansHaveOneFate
<1>2. SpansOf(T) \cap SpansOf(DOMAIN traces \ T) = {}
  BY <1>1 DEF SpansOf
<1>3. Buffered = SpansOf(T) \cup SpansOf(DOMAIN traces \ T)
  BY DEF SpansOf, Buffered
<1> QED
  BY <1>2, <1>3

(* Opening a buffer for a new span, those of the traces that make room     *)
(* being evicted.                                                          *)
LEMMA OpenKeepsFate ==
    ASSUME SpansHaveOneFate, NEW s, s \notin taken, TraceOf(s) \notin DOMAIN traces,
           NEW kept, kept \subseteq DOMAIN traces,
           traces' = WithBuffer(s, kept), taken' = taken \cup {s},
           evicted' = evicted \cup SpansOf(DOMAIN traces \ kept),
           UNCHANGED <<exported, rejected>>
    PROVE  SpansHaveOneFate'
<1> DEFINE gone == SpansOf(DOMAIN traces \ kept)
<1>1. /\ SpansOf(kept) \cap gone = {}
      /\ Buffered = SpansOf(kept) \cup gone
  BY OwnBuffer
<1>2. /\ DOMAIN traces' = kept \cup {TraceOf(s)}
      /\ traces'[TraceOf(s)].spans = {s}
      /\ \A t \in kept : traces'[t].spans = traces[t].spans
  BY DEF WithBuffer, NewBuffer
<1>3. Buffered' = SpansOf(kept) \cup {s}
  <2>1. Buffered' = UNION {traces'[t].spans : t \in DOMAIN traces'}
    BY DEF Buffered
  <2> QED
    BY <1>2, <2>1 DEF SpansOf
<1> HIDE DEF gone
<1>4. /\ evicted' = evicted \cup gone /\ exported' = exported /\ rejected' = rejected
  BY DEF gone
<1>5. /\ taken = Buffered \cup exported \cup rejected \cup evicted
      /\ Buffered \cap (exported \cup rejected \cup evicted) = {}
      /\ exported \cap (rejected \cup evicted) = {}
      /\ rejected \cap evicted = {}
      /\ \A t \in DOMAIN traces :
            traces[t].spans # {} /\ \A x \in traces[t].spans : TraceOf(x) = t
  BY DEF SpansHaveOneFate
<1>6. \A t \in DOMAIN traces' :
          traces'[t].spans # {} /\ \A x \in traces'[t].spans : TraceOf(x) = t
  BY <1>2, <1>5
<1>7. taken' = Buffered' \cup exported' \cup rejected' \cup evicted'
  BY <1>1, <1>3, <1>4, <1>5
<1>8. /\ Buffered' \cap (exported' \cup rejected' \cup evicted') = {}
      /\ exported' \cap (rejected' \cup evicted') = {}
      /\ rejected' \cap evicted' = {}
  BY ZenonT(40), <1>1, <1>3, <1>4, <1>5
<1> QED
  BY <1>6, <1>7, <1>8 DEF SpansHaveOneFate

(* The first span of a trace: what evictOldest drops is accounted for.     *)
LEMMA FateOpen ==
    ASSUME TailInv, NEW s, s \notin taken, OpenTrace(s), taken' = taken \cup {s}
    PROVE  SpansHaveOneFate'
<1>1. /\ SpansHaveOneFate /\ order \in Seq(TraceIds) /\ ToSet(order) = DOMAIN traces
      /\ TraceOf(s) \notin DOMAIN traces /\ UNCHANGED <<exported, rejected>>
  BY DEF TailInv, OldestFirstAndBounded, OrderMatchesTraces, TailTypeOK, OpenTrace
<1>2. CASE BufferFull /\ order # << >>
  <2> DEFINE kept == DOMAIN traces \ {Head(order)}
  <2>1. Head(order) \in DOMAIN traces
    BY <1>1, <1>2, ToSetHeadTail
  <2>2. SpansOf(DOMAIN traces \ kept) = traces[Head(order)].spans
    BY <2>1 DEF SpansOf
  <2>3. traces' = WithBuffer(s, kept) /\ evicted' = evicted \cup traces[Head(order)].spans
    BY <1>2, <2>1 DEF OpenTrace
  <2> HIDE DEF kept
  <2>4. kept \subseteq DOMAIN traces
    BY DEF kept
  <2> QED
    BY <1>1, <2>2, <2>3, <2>4, OpenKeepsFate
<1>3. CASE ~(BufferFull /\ order # << >>)
  <2>1. traces' = WithBuffer(s, DOMAIN traces) /\ evicted' = evicted
    BY <1>3 DEF OpenTrace
  <2>2. SpansOf(DOMAIN traces \ DOMAIN traces) = {}
    BY DEF SpansOf
  <2>3. evicted' = evicted \cup SpansOf(DOMAIN traces \ DOMAIN traces)
    BY <2>1, <2>2
  <2> QED
    BY <1>1, <2>1, <2>3, OpenKeepsFate
<1> QED
  BY <1>2, <1>3

(* A later span of a trace is buffered with the others.                    *)
LEMMA FateJoin ==
    ASSUME TailInv, NEW s \in Spans, s \notin taken, JoinTrace(s), taken' = taken \cup {s}
    PROVE  SpansHaveOneFate'
<1>1. /\ DOMAIN traces' = DOMAIN traces
      /\ \A t \in DOMAIN traces :
            traces'[t].spans = IF t = TraceOf(s) THEN traces[t].spans \cup {s}
                                                ELSE traces[t].spans
  BY OrderJoin
<1>2. TraceOf(s) \in DOMAIN traces /\ UNCHANGED fateVars
  BY DEF JoinTrace
<1>3. Buffered' = Buffered \cup {s}
  <2>1. Buffered' = UNION {traces'[t].spans : t \in DOMAIN traces'}
    BY DEF Buffered
  <2> QED
    BY <1>1, <1>2, <2>1 DEF Buffered
<1>4. SpansHaveOneFate
  BY DEF TailInv
<1>5. \A t \in DOMAIN traces' :
          traces'[t].spans # {} /\ \A x \in traces'[t].spans : TraceOf(x) = t
  BY ZenonT(40), <1>1, <1>4 DEF SpansHaveOneFate
<1>6. exported' = exported /\ rejected' = rejected /\ evicted' = evicted
  BY <1>2 DEF fateVars
<1>7. /\ taken' = Buffered' \cup exported' \cup rejected' \cup evicted'
      /\ Buffered' \cap (exported' \cup rejected' \cup evicted') = {}
  BY <1>3, <1>4, <1>6 DEF SpansHaveOneFate
<1>8. exported' \cap (rejected' \cup evicted') = {} /\ rejected' \cap evicted' = {}
  BY <1>4, <1>6 DEF SpansHaveOneFate
<1> QED
  BY <1>5, <1>7, <1>8 DEF SpansHaveOneFate

(* makeDecisions exports or rejects the spans of the traces it removes.    *)
LEMMA FateDecide ==
    ASSUME SpansHaveOneFate, NEW due, due \subseteq DOMAIN traces,
           NEW yes, yes \subseteq due,
           exported' = exported \cup SpansOf(yes),
           rejected' = rejected \cup SpansOf(due \ yes),
           traces' = Restrict(traces, DOMAIN traces \ due),
           UNCHANGED <<taken, evicted>>
    PROVE  SpansHaveOneFate'
<1> DEFINE rest == SpansOf(DOMAIN traces \ due)
<1>1. DOMAIN traces' = DOMAIN traces \ due /\ \A t \in DOMAIN traces' : traces'[t] = traces[t]
  BY DEF Restrict
<1>2. Buffered' = rest
  <2>1. Buffered' = UNION {traces'[t].spans : t \in DOMAIN traces'}
    BY DEF Buffered
  <2> QED
    BY ZenonT(40), <1>1, <2>1 DEF SpansOf
<1>3. SpansOf(due) \cap rest = {} /\ Buffered = SpansOf(due) \cup rest
  BY OwnBuffer
<1>4. SpansOf(due) = SpansOf(yes) \cup SpansOf(due \ yes)
  BY DEF SpansOf
<1>5. SpansOf(yes) \cap SpansOf(due \ yes) = {}
  BY DEF SpansOf, SpansHaveOneFate
<1> HIDE DEF rest
<1>6. \A t \in DOMAIN traces' :
          traces'[t].spans # {} /\ \A x \in traces'[t].spans : TraceOf(x) = t
  BY <1>1 DEF SpansHaveOneFate
<1>7. taken' = Buffered' \cup exported' \cup rejected' \cup evicted'
  BY <1>2, <1>3, <1>4 DEF SpansHaveOneFate
<1>8. /\ Buffered' \cap (exported' \cup rejected' \cup evicted') = {}
      /\ exported' \cap (rejected' \cup evicted') = {}
      /\ rejected' \cap evicted' = {}
  BY <1>2, <1>3, <1>4, <1>5 DEF SpansHaveOneFate
<1> QED
  BY <1>6, <1>7, <1>8 DEF SpansHaveOneFate

-----------------------------------------------------------------------------
(* The steps *)

(* The parts of the invariant that speak of the buffer.                    *)
BufferInv ==
    /\ DOMAIN traces \subseteq TraceIds
    /\ \A t \in DOMAIN traces : traces[t] \in Buffers
    /\ order \in Seq(TraceIds)
    /\ ToSet(order) = DOMAIN traces
    /\ IsInjective(order)
    /\ SortedByAge(order)
    /\ IsFiniteSet(DOMAIN traces)
    /\ Cardinality(DOMAIN traces) <= MaxTraces

(* The types of the other variables.                                       *)
ControlType ==
    /\ todo \in Seq(Spans)
    /\ loop \in {"new", "run", "exit"}
    /\ ctxDone \in BOOLEAN
    /\ closer \in {"open", "wait", "decide", "done"}
    /\ taken \in SUBSET Spans
    /\ exported \in SUBSET Spans
    /\ rejected \in SUBSET Spans
    /\ evicted \in SUBSET Spans

(* The invariant falls into these parts, before a step and after it.       *)
LEMMA TailInvParts ==
    /\ TailInv <=> ControlType /\ BufferInv /\ PendingIsNew /\ SpansHaveOneFate
    /\ TailInv' <=> ControlType' /\ BufferInv' /\ PendingIsNew' /\ SpansHaveOneFate'
<1>1. OldestFirstAndBounded /\ IsFiniteSet(DOMAIN traces) <=> ControlType /\ BufferInv
  BY DEF OldestFirstAndBounded, OrderMatchesTraces, TailTypeOK, ControlType, BufferInv,
         SortedByAge
<1>2. OldestFirstAndBounded' /\ IsFiniteSet(DOMAIN traces)' <=> ControlType' /\ BufferInv'
  BY DEF OldestFirstAndBounded, OrderMatchesTraces, TailTypeOK, ControlType, BufferInv,
         SortedByAge
<1> QED
  BY <1>1, <1>2 DEF TailInv

(* A payload that ProcessTraces locks for is a sequence of new spans.      *)
LEMMA TailProcessTraces ==
    ASSUME TailInv, NEW td \in Payloads, ProcessTraces(td)
    PROVE  TailInv'
<1>1. td \in Seq(Spans)
  BY TailAssumption DEF Payloads
<1>2. ControlType /\ BufferInv /\ PendingIsNew /\ SpansHaveOneFate
  BY TailInvParts
<1>3. ControlType'
  BY <1>1, <1>2 DEF ProcessTraces, ControlType, ctlVars, fateVars
<1>4. BufferInv' /\ SpansHaveOneFate'
  BY <1>2 DEF ProcessTraces, BufferInv, SortedByAge, SpansHaveOneFate, Buffered, fateVars
<1>5. PendingIsNew'
  BY DEF ProcessTraces, PendingIsNew, ToSet
<1> QED
  BY <1>3, <1>4, <1>5, TailInvParts

(* Taking a span.                                                          *)
LEMMA TailProcessSpan ==
    ASSUME TailInv, ProcessSpan
    PROVE  TailInv'
<1> DEFINE s == Head(todo)
<1>1. ControlType /\ BufferInv /\ PendingIsNew /\ SpansHaveOneFate
  BY TailInvParts
<1>2. todo \in Seq(Spans) /\ todo # << >> /\ IsInjective(todo) /\ ToSet(todo) \cap taken = {}
  BY <1>1 DEF ControlType, PendingIsNew, ProcessSpan, Unlocked
<1>3. /\ s \in Spans /\ Tail(todo) \in Seq(Spans)
      /\ ToSet(todo) = {s} \cup ToSet(Tail(todo))
  BY <1>2, ToSetHeadTail
<1>4. IsInjective(Tail(todo)) /\ s \notin ToSet(Tail(todo))
  BY <1>2, InjectiveTail
<1>5. s \notin taken
  BY <1>2, <1>3
<1>6. /\ JoinTrace(s) \/ OpenTrace(s)
      /\ taken' = taken \cup {s} /\ todo' = Tail(todo) /\ UNCHANGED ctlVars
  BY DEF ProcessSpan
<1> HIDE DEF s
<1>7. PendingIsNew'
  BY <1>2, <1>3, <1>4, <1>6 DEF PendingIsNew
<1>8. BufferInv' /\ SpansHaveOneFate'
  <2>1. CASE OpenTrace(s)
    <3>1. BufferInv'
      BY <1>3, <2>1, OrderOpen DEF BufferInv
    <3>2. SpansHaveOneFate'
      BY <1>5, <1>6, <2>1, FateOpen
    <3> QED
      BY <3>1, <3>2
  <2>2. CASE JoinTrace(s)
    <3>1. /\ DOMAIN traces' = DOMAIN traces /\ order' = order
          /\ \A t \in DOMAIN traces : traces'[t].age = traces[t].age /\ traces'[t] \in Buffers
      BY <1>3, <2>2, OrderJoin DEF JoinTrace
    <3>2. \A i \in DOMAIN order : order[i] \in DOMAIN traces
      BY <1>1 DEF BufferInv, ToSet
    <3>3. SortedByAge(order)'
      BY <1>1, <3>1, <3>2 DEF BufferInv, SortedByAge
    <3>4. BufferInv'
      BY <1>1, <3>1, <3>3 DEF BufferInv
    <3>5. SpansHaveOneFate'
      BY <1>3, <1>5, <1>6, <2>2, FateJoin
    <3> QED
      BY <3>4, <3>5
  <2> QED
    BY <1>6, <2>1, <2>2
<1>9. ControlType'
  <2>1. taken' \in SUBSET Spans
    BY <1>1, <1>3, <1>6 DEF ControlType
  <2>2. /\ exported' \in SUBSET Spans /\ rejected' \in SUBSET Spans
        /\ evicted' \in SUBSET Spans
    BY <1>8, <2>1 DEF SpansHaveOneFate
  <2> QED
    BY <1>1, <1>3, <1>6, <2>1, <2>2 DEF ControlType, ctlVars
<1> QED
  BY <1>7, <1>8, <1>9, TailInvParts

(* A round of decisions, of the loop or of Shutdown.                       *)
LEMMA TailMakeDecisions ==
    ASSUME TailInv, MakeDecisions, UNCHANGED <<todo, taken, evicted>>
    PROVE  /\ BufferInv' /\ PendingIsNew' /\ SpansHaveOneFate'
           /\ exported' \in SUBSET Spans /\ rejected' \in SUBSET Spans
<1> DEFINE due == {t \in Listed : Due(t)}
           yes == {t \in due : Sampled(traces[t].spans)}
<1>1. ControlType /\ BufferInv /\ PendingIsNew /\ SpansHaveOneFate
  BY TailInvParts
<1>2. /\ exported' = exported \cup SpansOf(yes)
      /\ rejected' = rejected \cup SpansOf(due \ yes)
      /\ traces' = Restrict(traces, DOMAIN traces \ due)
      /\ order' = Remaining(due)
  BY DEF MakeDecisions, SpansOf
<1>3. due \subseteq DOMAIN traces /\ yes \subseteq due
  BY DEF Listed
<1> HIDE DEF due, yes
<1>4. BufferInv'
  BY <1>2, <1>3, OrderDecide DEF BufferInv
<1>5. SpansHaveOneFate'
  BY <1>1, <1>2, <1>3, FateDecide
<1>6. exported' \in SUBSET Spans /\ rejected' \in SUBSET Spans
  BY <1>1, <1>5 DEF SpansHaveOneFate, ControlType
<1> QED
  BY <1>1, <1>4, <1>5, <1>6 DEF PendingIsNew

(* Time that passes changes ages only.                                     *)
LEMMA TailTick ==
    ASSUME TailInv, Tick
    PROVE  TailInv'
<1>1. ControlType /\ BufferInv /\ PendingIsNew /\ SpansHaveOneFate
  BY TailInvParts
<1>2. UNCHANGED <<todo, order, ctlVars, taken, fateVars>>
  BY DEF Tick
<1>3. /\ DOMAIN traces' = DOMAIN traces
      /\ \A t \in DOMAIN traces : traces'[t].spans = traces[t].spans /\ traces'[t] \in Buffers
      /\ SortedByAge(order)'
  BY OrderTick
<1>4. ControlType' /\ PendingIsNew'
  BY <1>1, <1>2 DEF ControlType, PendingIsNew, ctlVars, fateVars
<1>5. BufferInv'
  BY <1>1, <1>2, <1>3 DEF BufferInv
<1>6. Buffered' = Buffered
  BY <1>3 DEF Buffered
<1>7. SpansHaveOneFate'
  BY <1>1, <1>2, <1>3, <1>6 DEF SpansHaveOneFate, fateVars
<1> QED
  BY <1>4, <1>5, <1>7, TailInvParts

(* Every step keeps the invariant.                                         *)
LEMMA TailInvStep == TailInv /\ [TailNext]_tailVars => TailInv'
<1> SUFFICES ASSUME TailInv, [TailNext]_tailVars PROVE TailInv'
  OBVIOUS
<1>1. ControlType /\ BufferInv /\ PendingIsNew /\ SpansHaveOneFate
  BY TailInvParts
<1>2. ASSUME ControlType', UNCHANGED <<todo, traces, order, taken, fateVars>>
      PROVE  TailInv'
  <2>1. BufferInv' /\ PendingIsNew' /\ SpansHaveOneFate'
    BY <1>1, <1>2 DEF BufferInv, SortedByAge, PendingIsNew, SpansHaveOneFate, Buffered, fateVars
  <2> QED
    BY <1>2, <2>1, TailInvParts
<1>3. CASE \E td \in Payloads : ProcessTraces(td)
  BY <1>3, TailProcessTraces
<1>4. CASE ProcessSpan
  BY <1>4, TailProcessSpan
<1>5. CASE Tick
  BY <1>5, TailTick
<1>6. CASE LoopDecides
  <2>1. MakeDecisions /\ UNCHANGED <<todo, ctlVars, taken, evicted>>
    BY <1>6 DEF LoopDecides
  <2>2. /\ BufferInv' /\ PendingIsNew' /\ SpansHaveOneFate'
        /\ exported' \in SUBSET Spans /\ rejected' \in SUBSET Spans
    BY <2>1, TailMakeDecisions
  <2>3. ControlType'
    BY <1>1, <2>1, <2>2 DEF ControlType, ctlVars
  <2> QED
    BY <2>2, <2>3, TailInvParts
<1>7. CASE ShutdownDecides
  <2>1. /\ MakeDecisions /\ UNCHANGED <<todo, loop, ctxDone, taken, evicted>>
        /\ closer' = "done"
    BY <1>7 DEF ShutdownDecides
  <2>2. /\ BufferInv' /\ PendingIsNew' /\ SpansHaveOneFate'
        /\ exported' \in SUBSET Spans /\ rejected' \in SUBSET Spans
    BY <2>1, TailMakeDecisions
  <2>3. ControlType'
    BY <1>1, <2>1, <2>2 DEF ControlType
  <2> QED
    BY <2>2, <2>3, TailInvParts
<1>8. CASE Start \/ LoopExits \/ ParentCancel \/ BeginShutdown \/ ShutdownWait
  <2>1. UNCHANGED <<todo, traces, order, taken, fateVars>>
    BY <1>8 DEF Start, LoopExits, ParentCancel, BeginShutdown, ShutdownWait
  <2>2. ctxDone' \in BOOLEAN
    BY <1>1, <1>8
       DEF Start, LoopExits, ParentCancel, BeginShutdown, ShutdownWait, ControlType
  <2>3. loop' \in {"new", "run", "exit"} /\ closer' \in {"open", "wait", "decide", "done"}
    BY <1>1, <1>8
       DEF Start, LoopExits, ParentCancel, BeginShutdown, ShutdownWait, ControlType
  <2>4. ControlType'
    BY <1>1, <2>1, <2>2, <2>3 DEF ControlType, fateVars
  <2> QED
    BY <1>2, <2>1, <2>4
<1>9. CASE UNCHANGED tailVars
  <2>1. ControlType' /\ UNCHANGED <<todo, traces, order, taken, fateVars>>
    BY <1>1, <1>9 DEF tailVars, ctlVars, fateVars, ControlType
  <2> QED
    BY <1>2, <2>1
<1> QED
  BY <1>3, <1>4, <1>5, <1>6, <1>7, <1>8, <1>9 DEF TailNext

(* The list and the map name the same traces, oldest first, and never more *)
(* than MaxTraces: evictOldest always drops the oldest trace.              *)
THEOREM TailOldestFirstAndBounded == TailSpec => []OldestFirstAndBounded
<1>1. TailInv => OldestFirstAndBounded
  BY DEF TailInv
<1> QED
  BY <1>1, TailInvInit, TailInvStep, PTL DEF TailSpec

(* Every span that ProcessTraces took is buffered under its own trace or   *)
(* was exported, rejected or evicted, and never two of these.              *)
THEOREM TailSpansHaveOneFate == TailSpec => []SpansHaveOneFate
<1>1. TailInv => SpansHaveOneFate
  BY DEF TailInv
<1> QED
  BY <1>1, TailInvInit, TailInvStep, PTL DEF TailSpec
=============================================================================
