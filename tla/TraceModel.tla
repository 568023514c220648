----------------------------- MODULE TraceModel -----------------------------
(***************************************************************************)
(* The trace model of internal/protocol/otlp (traces.go, attributes.go)    *)
(* that the receivers, the converters and the codecs share: the zero       *)
(* values of its types and attributes, an ordered list in which Set keeps  *)
(* every key once.  An attribute is [key, value], a value [type, val].     *)
(***************************************************************************)
EXTENDS Integers, Sequences, FiniteSets, FiniteSetsExt

(* What a conversion or a decoder answers: nothing yet, an error, a value.  *)
Nothing == [ok |-> FALSE, val |-> <<>>, none |-> TRUE]
Failed  == [ok |-> FALSE, val |-> <<>>, none |-> FALSE]
Ok(v)   == [ok |-> TRUE, val |-> v, none |-> FALSE]

When(c, fields) == IF c THEN fields ELSE <<>>

(* The zero values of traces.go and attributes.go. *)
ZeroValue == [type |-> "string", val |-> ""]
ZeroStatus == [message |-> "", code |-> 0]
Zero == [TracesData |-> [resourceSpans |-> <<>>],
         ResourceSpans |-> [resource |-> [attributes |-> <<>>], scopeSpans |-> <<>>],
         Resource |-> [attributes |-> <<>>],
         ScopeSpans |-> [scope |-> [name |-> "", version |-> "", attributes |-> <<>>],
                         spans |-> <<>>],
         Scope |-> [name |-> "", version |-> "", attributes |-> <<>>],
         Span |-> [traceID |-> 0, spanID |-> 0, traceState |-> "", parentSpanID |-> 0,
                   name |-> "", kind |-> 0, start |-> 0, end |-> 0, attributes |-> <<>>,
                   events |-> <<>>, links |-> <<>>, status |-> ZeroStatus,
                   droppedAttributes |-> 0, droppedEvents |-> 0, droppedLinks |-> 0],
         Event |-> [time |-> 0, name |-> "", attributes |-> <<>>, droppedAttributes |-> 0],
         Link |-> [traceID |-> 0, spanID |-> 0, traceState |-> "", attributes |-> <<>>,
                   droppedAttributes |-> 0],
         Status |-> ZeroStatus, KeyValue |-> [key |-> "", value |-> ZeroValue],
         AnyValue |-> ZeroValue, Array |-> [values |-> <<>>], KvList |-> [values |-> <<>>]]

(* Attributes.Set: the first item with the key takes the value.             *)
SetAttribute(attrs, kv) ==
  LET same == {i \in 1..Len(attrs) : attrs[i].key = kv.key}
  IN  IF same = {} THEN Append(attrs, kv) ELSE [attrs EXCEPT ![Min(same)] = kv]

(* The loops that Set one item of kvs after the other, those at the places P. *)
SetAttributes(kvs, P) ==
  LET done[n \in 0..Len(kvs)] ==
        IF n = 0 THEN <<>>
        ELSE IF n \in P THEN SetAttribute(done[n - 1], kvs[n]) ELSE done[n - 1]
  IN  done[Len(kvs)]

(* out has the keys kvs has at the places P: each once, in the order of their *)
(* first places, with what is at their last.                                  *)
Once(out, kvs, P) ==
  LET at(k) == {i \in P : kvs[i].key = k}
  IN  /\ {out[i].key : i \in 1..Len(out)} = {kvs[i].key : i \in P}
      /\ \A i, j \in 1..Len(out) : i < j => Min(at(out[i].key)) < Min(at(out[j].key))
      /\ \A i \in 1..Len(out) : out[i] = kvs[Max(at(out[i].key))]
=============================================================================
