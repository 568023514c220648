----------------------------- MODULE Converters -----------------------------
(***************************************************************************)
(* The converters between the protocol models and OTLP: jaeger/converter.go*)
(* in both directions and zipkin/converter.go.                             *)
(*                                                                         *)
(* A Jaeger batch is [service, tags, spans]; a tag or log field is         *)
(* [key, vtype, val]; a span is [high, low, spanID, op, refs, start, dur,  *)
(* tags, logs] with times in microseconds and a reference [type, spanID].  *)
(* The id of a trace is the pair <<high, low>> in OTLP.                    *)
(*                                                                         *)
(* A Zipkin span is [id, parent, trace, name, kind, start, dur, service,   *)
(* peer, ip, port, notes, tags]; a trace id is its one or two halves, tags *)
(* is a Go map: a set of attributes that the code meets in any order.      *)
(***************************************************************************)
EXTENDS TraceModel, Subsequences, SequencesExt

CONSTANTS JaegerBatches,  \* the batches Jaeger clients send
          ZipkinLists,    \* the span lists Zipkin clients send
          NanoRange       \* how many values a uint64 has, scaled

MicrosPerSecond == 1000000
NanosPerMicro   == 1000

VTypes == [string |-> "string", bool |-> "bool", int64 |-> "int", float64 |-> "double",
           binary |-> "bytes"]

(* What Go's types say of the inputs; a Zipkin trace id has 64 or 128 bits. *)
IsSequence(s) == Len(s) \in Nat /\ s = [i \in 1..Len(s) |-> s[i]]

AreTags(kvs) ==
  /\ IsSequence(kvs)
  /\ \A i \in 1..Len(kvs) :
        /\ kvs[i] = [key |-> kvs[i].key, vtype |-> kvs[i].vtype, val |-> kvs[i].val]
        /\ kvs[i].vtype \in DOMAIN VTypes

IsJaegerBatch(b) ==
  /\ AreTags(b.tags) /\ IsSequence(b.spans)
  /\ \A i \in 1..Len(b.spans) :
        LET s == b.spans[i]
        IN  /\ {s.start, s.dur} \subseteq Nat /\ AreTags(s.tags)
            /\ IsSequence(s.refs) /\ IsSequence(s.logs)
            /\ \A l \in 1..Len(s.logs) : s.logs[l].time \in Nat /\ AreTags(s.logs[l].fields)

IsZipkinList(zs) ==
  /\ IsSequence(zs)
  /\ \A i \in 1..Len(zs) :
        LET z == zs[i]
        IN  /\ {z.start, z.dur, z.port} \subseteq Nat /\ Len(z.trace) \in 1..2
            /\ IsFiniteSet(z.tags) /\ IsSequence(z.notes)
            /\ \A n \in 1..Len(z.notes) : z.notes[n].time \in Nat
            /\ \A t \in z.tags : t = [key |-> t.key, value |-> t.value]
            /\ \A t, u \in z.tags : t.key = u.key => t = u

ASSUME ConvertersAssumption ==
  /\ NanoRange \in Nat \ {0}
  /\ \A b \in JaegerBatches : IsJaegerBatch(b)
  /\ \A zs \in ZipkinLists : IsZipkinList(zs)

VARIABLES vIn,    \* what the client sent
          vPath,  \* "jaeger": to OTLP and back; "zipkin": to OTLP
          vOut    \* the result

converterVars == <<vIn, vPath, vOut>>

(* A time in microseconds as uint64 nanoseconds. *)
Nano(t) == (t * NanosPerMicro) % NanoRange

-----------------------------------------------------------------------------
(* jaeger/converter.go *)

kvToAnyValue(kv) == [type |-> VTypes[kv.vtype], val |-> kv.val]
AsAttributes(kvs) ==
  [i \in 1..Len(kvs) |-> [key |-> kvs[i].key, value |-> kvToAnyValue(kvs[i])]]

(* An array or a list of pairs has no Jaeger type: it becomes the string "". *)
anyValueToKV(key, v) ==
  IF \E t \in DOMAIN VTypes : VTypes[t] = v.type
  THEN [key |-> key, vtype |-> CHOOSE t \in DOMAIN VTypes : VTypes[t] = v.type, val |-> v.val]
  ELSE [key |-> key, vtype |-> "string", val |-> ""]
AsTags(attrs) == [i \in 1..Len(attrs) |-> anyValueToKV(attrs[i].key, attrs[i].value)]

(* The "event" strings of a log name the event, the last one does; the other *)
(* fields stay.                                                              *)
EventNames(fields) ==
  {i \in 1..Len(fields) : fields[i].key = "event" /\ fields[i].vtype = "string"}

LogToEvent(log) ==
  LET names == EventNames(log.fields)
  IN  [Zero.Event EXCEPT !.time = Nano(log.time),
         !.name = IF names = {} THEN "" ELSE log.fields[Max(names)].val,
         !.attributes = SetAttributes(AsAttributes(log.fields), (1..Len(log.fields)) \ names)]

KindOf(attrs) ==
  LET at == {i \in 1..Len(attrs) : attrs[i].key = "span.kind"}
      v  == IF at = {} THEN ZeroValue ELSE attrs[Min(at)].value
      kinds == [server |-> 2, client |-> 3, producer |-> 4, consumer |-> 5]
  IN  IF v.type = "string" /\ v.val \in DOMAIN kinds THEN kinds[v.val] ELSE 0

(* The first reference to a parent, 0 when there is none. *)
ParentOf(refs) ==
  LET parents == {i \in 1..Len(refs) : refs[i].type = "ChildOf"}
  IN  IF parents = {} THEN 0 ELSE refs[Min(parents)].spanID

jaegerSpanToOTLP(s) ==
  LET attrs == SetAttributes(AsAttributes(s.tags), 1..Len(s.tags))
  IN  [Zero.Span EXCEPT !.traceID = <<s.high, s.low>>, !.spanID = s.spanID,
         !.parentSpanID = ParentOf(s.refs), !.name = s.op, !.kind = KindOf(attrs),
         !.start = Nano(s.start), !.end = Nano(s.start + s.dur), !.attributes = attrs,
         !.events = [i \in 1..Len(s.logs) |-> LogToEvent(s.logs[i])]]

StringKV(key, val) == [key |-> key, value |-> [type |-> "string", val |-> val]]

OneResource(attrs, spans) ==
  [resource |-> [attributes |-> attrs],
   scopeSpans |-> <<[scope |-> Zero.Scope, spans |-> spans]>>]

(* The service goes first, the tags of the process follow. *)
ProcessTags(b) == <<[key |-> "service.name", vtype |-> "string", val |-> b.service]>> \o b.tags

BatchToOTLP(b) ==
  [resourceSpans |->
     <<OneResource(SetAttributes(AsAttributes(ProcessTags(b)), 1..Len(ProcessTags(b))),
                   [i \in 1..Len(b.spans) |-> jaegerSpanToOTLP(b.spans[i])])>>]

spanFromOTLP(s) ==
  [high |-> s.traceID[1], low |-> s.traceID[2], spanID |-> s.spanID, op |-> s.name,
   refs |-> When(s.parentSpanID # 0, <<[type |-> "ChildOf", spanID |-> s.parentSpanID]>>),
   start |-> s.start \div NanosPerMicro,
   dur |-> IF s.end > s.start THEN (s.end - s.start) \div NanosPerMicro ELSE 0,
   tags |-> AsTags(s.attributes),
   logs |-> [i \in 1..Len(s.events) |->
               [time |-> s.events[i].time \div NanosPerMicro,
                fields |-> <<[key |-> "event", vtype |-> "string", val |-> s.events[i].name]>>
                           \o AsTags(s.events[i].attributes)]]]

ZeroBatch == [service |-> "", tags |-> <<>>, spans |-> <<>>]

(* The spans of all the scopes, which are one when they come from BatchToOTLP. *)
SpansOfScopes(scopes) ==
  LET of(ss) == [i \in 1..Len(ss.spans) |-> spanFromOTLP(ss.spans[i])]
      upTo[n \in 0..Len(scopes)] == IF n = 0 THEN <<>> ELSE upTo[n - 1] \o of(scopes[n])
  IN  upTo[Len(scopes)]

(* Only the first ResourceSpans is converted. *)
OTLPToBatch(td) ==
  LET rs    == td.resourceSpans[1]
      attrs == rs.resource.attributes
      named == {i \in 1..Len(attrs) : attrs[i].key = "service.name"}
      name  == attrs[Min(named)].value
      others == {attrs[i] : i \in (1..Len(attrs)) \ named}
  IN  IF td.resourceSpans = <<>> THEN ZeroBatch
      ELSE [service |-> IF named = {} \/ name.type # "string" THEN "" ELSE name.val,
            tags |-> AsTags(Keep(attrs, others)), spans |-> SpansOfScopes(rs.scopeSpans)]

-----------------------------------------------------------------------------
(* zipkin/converter.go *)

(* Missing bytes are zeros on the left. *)
hexDecode(size, src) ==
  [i \in 1..size |-> IF i <= size - Len(src) THEN 0 ELSE src[i - (size - Len(src))]]

ZipkinKinds == [CLIENT |-> 3, SERVER |-> 2, PRODUCER |-> 4, CONSUMER |-> 5]

(* What the remote endpoint adds to the tags. *)
PeerAttributes(zs) ==
  When(zs.peer # "", <<StringKV("peer.service", zs.peer)>>)
  \o When(zs.ip # "", <<StringKV("net.peer.ip", zs.ip)>>)
  \o When(zs.port > 0, <<[key |-> "net.peer.port", value |-> [type |-> "int", val |-> zs.port]]>>)

(* tags is the order in which the range over zs.Tags met the pairs. *)
zipkinSpanToOTLP(zs, tags) ==
  LET kvs == tags \o PeerAttributes(zs)
  IN  [Zero.Span EXCEPT !.traceID = hexDecode(2, zs.trace), !.spanID = zs.id,
         !.parentSpanID = zs.parent, !.name = zs.name,
         !.kind = IF zs.kind \in DOMAIN ZipkinKinds THEN ZipkinKinds[zs.kind] ELSE 0,
         !.start = Nano(zs.start), !.end = (Nano(zs.start) + Nano(zs.dur)) % NanoRange,
         !.attributes = SetAttributes(kvs, 1..Len(kvs)),
         !.events = [i \in 1..Len(zs.notes) |->
                       [Zero.Event EXCEPT !.time = Nano(zs.notes[i].time), !.name = zs.notes[i].value]]]

(* mutant of AddToGroup: only the group that was begun last is looked at *)
AddToLastGroup(groups, service, span) ==
  LET n == Len(groups)
  IN  IF n = 0 \/ groups[n].service # service
      THEN Append(groups, [service |-> service, spans |-> <<span>>])
      ELSE [groups EXCEPT ![n] = [service |-> service, spans |-> Append(@.spans, span)]]

(* serviceSpans and serviceOrder: a group for each service, in the order in  *)
(* which services are first seen.                                            *)
AddToGroup(groups, service, span) ==
  LET same == {i \in 1..Len(groups) : groups[i].service = service}
  IN  IF same = {} THEN Append(groups, [service |-> service, spans |-> <<span>>])
      ELSE [groups EXCEPT ![Min(same)] =
              [service |-> service, spans |-> Append(groups[Min(same)].spans, span)]]

Grouped(services, spans) ==
  LET groups[n \in 0..Len(services)] ==
        IF n = 0 THEN <<>> ELSE AddToGroup(groups[n - 1], services[n], spans[n])
  IN  groups[Len(services)]

ToOTLP(zs, orders) ==
  LET groups == Grouped([i \in 1..Len(zs) |-> zs[i].service],
                        [i \in 1..Len(zs) |-> zipkinSpanToOTLP(zs[i], orders[i])])
  IN  [resourceSpans |->
         [i \in 1..Len(groups) |->
            OneResource(When(groups[i].service # "", <<StringKV("service.name", groups[i].service)>>),
                        groups[i].spans)]]

-----------------------------------------------------------------------------
ConvertersInit == vIn = <<>> /\ vPath = "none" /\ vOut = Nothing

JaegerConverts ==
  /\ vPath = "none"
  /\ \E b \in JaegerBatches : vIn' = <<b>> /\ vOut' = Ok(OTLPToBatch(BatchToOTLP(b)))
  /\ vPath' = "jaeger"

(* The orders in which the ranges over the maps of zs may go. *)
TagOrders(zs) ==
  {f \in [1..Len(zs) -> UNION {SetToSeqs(zs[i].tags) : i \in 1..Len(zs)}] :
     \A i \in 1..Len(zs) : f[i] \in SetToSeqs(zs[i].tags)}

ZipkinConverts ==
  /\ vPath = "none"
  /\ \E zs \in ZipkinLists : \E orders \in TagOrders(zs) :
        vIn' = zs /\ vOut' = Ok(ToOTLP(zs, orders))
  /\ vPath' = "zipkin"

ConvertersNext == JaegerConverts \/ ZipkinConverts

ConvertersSpec == ConvertersInit /\ [][ConvertersNext]_converterVars

-----------------------------------------------------------------------------
(* A time the converters can hold in nanoseconds. *)
Fits(t) == t * NanosPerMicro < NanoRange

(* A log field list after the way to OTLP and back: the event name in front, *)
(* each other key once.                                                      *)
LogKept(l, m) ==
  LET names == EventNames(l.fields)
  IN  /\ Fits(l.time) => m.time = l.time
      /\ Head(m.fields) = [key |-> "event", vtype |-> "string",
                           val |-> IF names = {} THEN "" ELSE l.fields[Max(names)].val]
      /\ Once(Tail(m.fields), l.fields, (1..Len(l.fields)) \ names)

(* A Jaeger span after the way to OTLP and back. *)
JaegerSpanKept(s, t) ==
  LET parent == ParentOf(s.refs)
  IN  /\ <<t.high, t.low, t.spanID, t.op>> = <<s.high, s.low, s.spanID, s.op>>
      /\ Fits(s.start + s.dur) => t.start = s.start /\ t.dur = s.dur
      /\ t.refs = IF parent = 0 THEN <<>> ELSE <<[type |-> "ChildOf", spanID |-> parent]>>
      /\ Once(t.tags, s.tags, 1..Len(s.tags))
      /\ Len(t.logs) = Len(s.logs) /\ \A i \in 1..Len(s.logs) : LogKept(s.logs[i], t.logs[i])

(* A batch taken to OTLP and back is the batch: its spans in order, each key *)
(* of a tag list once with its last value, the first ChildOf reference alone;*)
(* a process tag "service.name" takes the place of the service.              *)
JaegerBatchKept(b, c) ==
  LET process == ProcessTags(b)
      name == process[Max({i \in 1..Len(process) : process[i].key = "service.name"})]
  IN  /\ c.service = IF name.vtype = "string" THEN name.val ELSE ""
      /\ Once(c.tags, b.tags, {i \in 1..Len(b.tags) : b.tags[i].key # "service.name"})
      /\ Len(c.spans) = Len(b.spans)
      /\ \A i \in 1..Len(b.spans) : JaegerSpanKept(b.spans[i], c.spans[i])

(* A Zipkin span in OTLP: its identity and its times, every tag that the     *)
(* remote endpoint does not replace, and what the endpoint adds, each once,  *)
(* its annotations in order.                                                 *)
ZipkinSpanKept(z, s) ==
  LET peer  == PeerAttributes(z)
      added == {peer[i] : i \in 1..Len(peer)}
      attrs == s.attributes
  IN  /\ s.traceID = IF Len(z.trace) = 1 THEN <<0, z.trace[1]>> ELSE <<z.trace[1], z.trace[2]>>
      /\ <<s.spanID, s.parentSpanID, s.name>> = <<z.id, z.parent, z.name>>
      /\ Fits(z.start + z.dur) => s.start = z.start * NanosPerMicro /\ s.end - s.start = z.dur * NanosPerMicro
      /\ {attrs[i] : i \in 1..Len(attrs)} =
            added \cup {t \in z.tags : \A a \in added : a.key # t.key}
      /\ \A i, j \in 1..Len(attrs) : attrs[i].key = attrs[j].key => i = j
      /\ Len(s.events) = Len(z.notes)
      /\ \A i \in 1..Len(z.notes) :
            /\ s.events[i].name = z.notes[i].value
            /\ Fits(z.notes[i].time) => s.events[i].time = z.notes[i].time * NanosPerMicro

(* Zipkin spans are grouped by service, the services in the order in which   *)
(* they first appear, without losing, repeating or reordering a span.        *)
ZipkinSpansKept(zs, td) ==
  LET rss == td.resourceSpans
      name(rs) == IF rs.resource.attributes = <<>> THEN ""
                  ELSE rs.resource.attributes[1].value.val
      places(rs) == {n \in 1..Len(zs) : zs[n].service = name(rs)}
      spans(rs) == rs.scopeSpans[1].spans
  IN  /\ {name(rss[i]) : i \in 1..Len(rss)} = {zs[n].service : n \in 1..Len(zs)}
      /\ \A i, j \in 1..Len(rss) : i < j => Min(places(rss[i])) < Min(places(rss[j]))
      /\ \A i \in 1..Len(rss) :
            \E at \in [1..Len(spans(rss[i])) -> places(rss[i])] :
              /\ \A k, l \in DOMAIN at : k < l => at[k] < at[l]
              /\ \A n \in places(rss[i]) : \E k \in DOMAIN at : at[k] = n
              /\ \A k \in DOMAIN at : ZipkinSpanKept(zs[at[k]], spans(rss[i])[k])

(* The converters lose, repeat and reorder nothing but what is named above,  *)
(* whichever keys repeat and in whichever order Go walks a map               *)
(* (jaeger/converter.go, zipkin/converter.go).                               *)
ConvertersKeepSpans ==
  /\ vPath = "jaeger" => vOut.ok /\ JaegerBatchKept(vIn[1], vOut.val)
  /\ vPath = "zipkin" => vOut.ok /\ ZipkinSpansKept(vIn, vOut.val)

=============================================================================
