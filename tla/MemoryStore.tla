----------------------------- MODULE MemoryStore -----------------------------
(***************************************************************************)
(* internal/storage/memory/memory.go: the trace tables of the in-memory    *)
(* backend, written by the pipeline's storage exporter and read by the     *)
(* query service.  A map finds a trace's object by its ID, a list keeps    *)
(* the IDs in the order the traces were opened, and the trace at the head  *)
(* of the list is evicted when the map is full.                            *)
(*                                                                         *)
(* The RWMutex covers a call, but GetTrace and FindTraces return the       *)
(* objects themselves: a response is encoded after the lock is released,   *)
(* while later writes append to the same objects.                          *)
(***************************************************************************)
EXTENDS Integers, FiniteSets, Sequences, SequencesExt, Functions, Subsequences

CONSTANTS
    Spans,          \* distinct spans; each is written once
    TraceIds,
    SpanInfo,       \* span -> [trace, service, name, tags, start, end]
    Width,          \* bits of the time stamps (64 in the code)
    MaxTraces,      \* Backend.maxTraces, after its default
    Queries,        \* the TraceQueryParameters that are used
    Readers,        \* query handlers
    MaxPayload,     \* bound: spans of one TracesData
    NoAnswer        \* the reader has no response to encode

Unset == "none"     \* the empty string

DefaultLimit == 20

ASSUME StoreAssumption ==
    /\ \A s \in Spans : SpanInfo[s].trace \in TraceIds
    /\ Width \in Nat \ {0}
    /\ MaxTraces \in Nat \ {0}
    /\ \A q \in Queries : q.limit \in Int
    /\ MaxPayload \in Nat

TraceOf(s) == SpanInfo[s].trace
ServiceOf(s) == SpanInfo[s].service

VARIABLES
    todo,       \* the spans the WriteSpans that holds the lock has yet to store
    heap,       \* every storedTrace ever allocated: [tid, service, spans]
    traces,     \* Backend.traces: trace ID -> index in heap
    order,      \* Backend.order
    answer,     \* reader -> the objects of its response, with their size then
    log         \* history: the spans stored, in order

storeVars == <<todo, heap, traces, order, answer, log>>

Objects == [tid : TraceIds, service : {ServiceOf(s) : s \in Spans}, spans : Seq(Spans)]
Hits == [obj : Nat, size : Nat]

StoreTypeOK ==
    /\ todo \in Seq(Spans)
    /\ heap \in Seq(Objects)
    /\ DOMAIN traces \subseteq TraceIds
    /\ \A t \in DOMAIN traces : traces[t] \in DOMAIN heap
    /\ order \in Seq(TraceIds)
    /\ answer \in [Readers -> Seq(Hits) \cup {NoAnswer}]
    /\ log \in Seq(Spans)

StoreInit ==
    /\ todo = << >>
    /\ heap = << >>
    /\ traces = << >>
    /\ order = << >>
    /\ answer = [r \in Readers |-> NoAnswer]
    /\ log = << >>

Unlocked == todo = << >>

-----------------------------------------------------------------------------
(* WriteSpans *)

WriteSpans(td) ==
    /\ Unlocked
    /\ td # << >>
    /\ \A i \in DOMAIN td : td[i] \notin ToSet(log)
    /\ IsInjective(td)
    /\ todo' = td
    /\ UNCHANGED <<heap, traces, order, answer, log>>

(* wrapSpan: the object of a trace that is opened by s.                    *)
WrapSpan(s) == [tid |-> TraceOf(s), service |-> ServiceOf(s), spans |-> <<s>>]

AtCapacity == Cardinality(DOMAIN traces) >= MaxTraces

EvictNewest == Front(order)            \* mutant of EvictOldest: the wrong end
EvictOldest == Tail(order)

(* The map with an entry for s's trace beside those of the kept traces.    *)
WithObject(s, kept) ==
    [t \in kept \cup {TraceOf(s)} |-> IF t = TraceOf(s) THEN Len(heap') ELSE traces[t]]

(* A span of an unknown trace opens it, after evictOldest if need be.      *)
OpenTrace(s) ==
    /\ TraceOf(s) \notin DOMAIN traces
    /\ heap' = Append(heap, WrapSpan(s))
    /\ LET kept == IF AtCapacity /\ order # << >> THEN EvictOldest ELSE order
           gone == ToSet(order) \ ToSet(kept)
       IN  /\ traces' = WithObject(s, DOMAIN traces \ gone)
           /\ order' = Append(kept, TraceOf(s))

CopiesTrace(s) ==                      \* mutant of MergeSpan: a fresh object per merge
    /\ TraceOf(s) \in DOMAIN traces
    /\ heap' = Append(heap, [heap[traces[TraceOf(s)]] EXCEPT !.spans = Append(@, s)])
    /\ traces' = [traces EXCEPT ![TraceOf(s)] = Len(heap')]
    /\ UNCHANGED order

PrependsSpan(s) ==                     \* mutant of MergeSpan: reorders the slice
    /\ TraceOf(s) \in DOMAIN traces
    /\ heap' = [heap EXCEPT ![traces[TraceOf(s)]].spans = <<s>> \o @]
    /\ UNCHANGED <<traces, order>>

(* mergeSpan: the span joins the trace, under the trace's first resource.  *)
MergeSpan(s) ==
    /\ TraceOf(s) \in DOMAIN traces
    /\ heap' = [heap EXCEPT ![traces[TraceOf(s)]].spans = Append(@, s)]
    /\ UNCHANGED <<traces, order>>

StoreSpan ==
    /\ ~Unlocked
    /\ OpenTrace(Head(todo)) \/ MergeSpan(Head(todo))
    /\ log' = Append(log, Head(todo))
    /\ todo' = Tail(todo)
    /\ UNCHANGED answer

-----------------------------------------------------------------------------
(* matchesQuery: each criterion is met by some span, not all by the same.  *)

(* The conversion of an unsigned integer of Width bits to a signed one.    *)
Signed(n) ==
    LET u == n % 2^Width IN IF u >= 2^(Width - 1) THEN u - 2^Width ELSE u

StartTime(s) == Signed(SpanInfo[s].start)
Duration(s) == Signed(SpanInfo[s].end - SpanInfo[s].start)

(* The bounds of the start time are sets of at most one element; a bound   *)
(* of the duration counts when it is positive.                             *)

MatchesQuery(o, q) ==
    LET spans == ToSet(o.spans) IN
    /\ q.service = Unset \/ o.service = q.service
    /\ q.name = Unset \/ \E s \in spans : SpanInfo[s].name = q.name
    /\ \E s \in spans : q.tags \subseteq SpanInfo[s].tags
    /\ \E s \in spans : /\ \A min \in q.startMin : StartTime(s) >= min
                        /\ \A max \in q.startMax : StartTime(s) <= max
    /\ \E s \in spans : /\ q.durMin > 0 => Duration(s) >= q.durMin
                        /\ q.durMax > 0 => Duration(s) <= q.durMax

Limit(q) == IF q.limit <= 0 THEN DefaultLimit ELSE q.limit

Object(t) == heap[traces[t]]

FindTraceIDs(q) ==
    LET hits == Keep(order, {t \in ToSet(order) : MatchesQuery(Object(t), q)})
    IN  SubSeq(hits, 1, IF Len(hits) < Limit(q) THEN Len(hits) ELSE Limit(q))

Hit(t) == [obj |-> traces[t], size |-> Len(Object(t).spans)]

FindTraces(r, q) ==
    /\ Unlocked
    /\ answer[r] = NoAnswer
    /\ answer' = [answer EXCEPT ![r] =
                     [i \in DOMAIN FindTraceIDs(q) |-> Hit(FindTraceIDs(q)[i])]]
    /\ UNCHANGED <<todo, heap, traces, order, log>>

GetTrace(r, t) ==
    /\ Unlocked
    /\ answer[r] = NoAnswer
    /\ t \in DOMAIN traces
    /\ answer' = [answer EXCEPT ![r] = <<Hit(t)>>]
    /\ UNCHANGED <<todo, heap, traces, order, log>>

(* The handler has written its response.                                   *)
Respond(r) ==
    /\ answer[r] # NoAnswer
    /\ answer' = [answer EXCEPT ![r] = NoAnswer]
    /\ UNCHANGED <<todo, heap, traces, order, log>>

(* Clear, of the trace tables.                                             *)
Clear ==
    /\ Unlocked
    /\ traces' = << >>
    /\ order' = << >>
    /\ UNCHANGED <<todo, heap, answer, log>>

(* GetServices and GetOperations.                                          *)
GetServices == {Object(t).service : t \in DOMAIN traces} \ {Unset}

GetOperations(service) ==
    UNION {{SpanInfo[s].name : s \in ToSet(Object(t).spans)} :
              t \in {u \in DOMAIN traces : Object(u).service = service}}

Payloads == UNION {[1 .. n -> Spans] : n \in 1 .. MaxPayload}

StoreNext ==
    \/ \E td \in Payloads : WriteSpans(td)
    \/ StoreSpan
    \/ \E r \in Readers, q \in Queries : FindTraces(r, q)
    \/ \E r \in Readers, t \in TraceIds : GetTrace(r, t)
    \/ \E r \in Readers : Respond(r)
    \/ Clear

StoreSpec == StoreInit /\ [][StoreNext]_storeVars

-----------------------------------------------------------------------------
(* Correctness *)

(* The map and the list name the same traces, and these are the ones that  *)
(* were opened last, in that order, MaxTraces at most: evictOldest removes *)
(* from the map what it removes from the list (FindTraces would follow a   *)
(* nil pointer otherwise) and never takes a younger trace.                 *)
NewestTracesKept ==
    /\ StoreTypeOK
    /\ DOMAIN traces = ToSet(order)
    /\ Len(order) <= MaxTraces
    /\ \A i \in DOMAIN order :
          /\ traces[order[i]] = Len(heap) - Len(order) + i
          /\ Object(order[i]).tid = order[i]

(* x was stored before y.                                                  *)
LoggedBefore(x, y) == \E k, l \in DOMAIN log : k < l /\ log[k] = x /\ log[l] = y

(* The spans that were stored are those of the objects; an object holds    *)
(* spans of its trace and is filed under the service of the first; and the *)
(* objects of a trace, taken one after the other, hold its spans in the    *)
(* order of arrival (hence each once), whatever was evicted, opened again  *)
(* or cleared in between.                                                  *)
SpansStoredOnce ==
    /\ IsInjective(log)
    /\ ToSet(log) = UNION {ToSet(heap[i].spans) : i \in DOMAIN heap}
    /\ \A i \in DOMAIN heap :
          /\ heap[i].spans # << >> /\ heap[i].service = ServiceOf(heap[i].spans[1])
          /\ \A s \in ToSet(heap[i].spans) : TraceOf(s) = heap[i].tid
    /\ \A i, k \in DOMAIN heap : heap[i].tid = heap[k].tid =>
          \A j \in DOMAIN heap[i].spans, m \in DOMAIN heap[k].spans :
              i < k \/ (i = k /\ j < m) => LoggedBefore(heap[i].spans[j], heap[k].spans[m])

(* What a handler encodes after the lock is gone: the traces of the answer *)
(* are distinct and oldest first, and each still has at least the spans it *)
(* had when the store was searched, evicted or cleared since or not.       *)
ResponsesOnlyGrow ==
    \A r \in Readers : answer[r] # NoAnswer =>
        /\ \A i \in DOMAIN answer[r] :
              answer[r][i].size <= Len(heap[answer[r][i].obj].spans)
        /\ \A i, j \in DOMAIN answer[r] : i < j => answer[r][i].obj < answer[r][j].obj
=============================================================================
