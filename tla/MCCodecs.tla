------------------------------ MODULE MCCodecs ------------------------------
(***************************************************************************)
(* Small instances of what crosses the wire: OTLP messages, Thrift structs,*)
(* the conversions between the protocol models and OTLP, and the headers   *)
(* of context propagation.  One run takes them one at a time: unit names   *)
(* the one that moves.                                                     *)
(***************************************************************************)
EXTENDS Conversions, Propagation

-----------------------------------------------------------------------------
(* OTLP: every kind of value, keys that repeat, zero and non-zero scalars, *)
(* empty and non-empty submessages.                                        *)

Str(x) == [type |-> "string", val |-> x]
Int64(x) == [type |-> "int", val |-> x]
KV(k, v) == [key |-> k, value |-> v]

AnyValues ==
    {Str(""), Int64(-3), [type |-> "bool", val |-> FALSE], [type |-> "double", val |-> 1],
     [type |-> "bytes", val |-> "b"],
     [type |-> "array", val |-> [values |-> <<Int64(63), Str("x")>>]],
     [type |-> "kvlist", val |-> [values |-> <<KV("k", Str("x")), KV("k", Int64(1))>>]]}

AttributeLists ==
    {<<>>, <<KV("a", Str("y")), KV("a", Str("z"))>>} \cup {<<KV("a", v), KV("b", Str("z"))>> : v \in AnyValues}
FewAttributes == {<<>>, <<KV("a", Str("x")), KV("a", Int64(-64))>>}

SpanEvents ==
    {<<>>} \cup {<<[time |-> 1, name |-> "", attributes |-> a, droppedAttributes |-> 15],
                   [time |-> 0, name |-> "e", attributes |-> <<>>, droppedAttributes |-> 0]>> :
                 a \in FewAttributes}

SpanLinks ==
    {<<>>} \cup {<<[traceID |-> 1, spanID |-> 3, traceState |-> "", attributes |-> a,
                    droppedAttributes |-> 1]>> : a \in FewAttributes}

\* The scalars of a span are all zero or all not.
OtlpSpan(full, attributes, events, links, status) ==
    LET Of(zero, other) == IF full THEN other ELSE zero
    IN  [traceID |-> 1, spanID |-> 2, traceState |-> Of("", "t"), parentSpanID |-> Of(0, 1),
         name |-> "", kind |-> Of(0, 5), start |-> 0, end |-> 5, attributes |-> attributes,
         events |-> events, links |-> links, status |-> status, droppedAttributes |-> Of(0, 15),
         droppedEvents |-> Of(0, 15), droppedLinks |-> Of(0, 15)]

MCOtlpSpans ==
    {OtlpSpan(full, at, ev, ln, st) :
        full \in BOOLEAN, at \in AttributeLists, ev \in SpanEvents, ln \in SpanLinks,
        st \in {[message |-> "", code |-> 0], [message |-> "m", code |-> 0],
                [message |-> "", code |-> 2]}}

MCOtlpScopes ==
    {[name |-> n, version |-> "", attributes |-> a] : n \in {"", "n"}, a \in FewAttributes}

MCOtlpBatches ==
    {[resourceSpans |->
        <<[resource |-> [attributes |-> a], scopeSpans |-> <<[scope |-> sc, spans |-> <<s>>]>>],
          [resource |-> [attributes |-> <<>>], scopeSpans |-> <<>>]>>] :
        a \in FewAttributes, sc \in MCOtlpScopes, s \in MCOtlpSpans}

-----------------------------------------------------------------------------
(* Thrift: field ids at the limits of the delta encoding, every type, two  *)
(* fields that follow each other and a bool at the end.                    *)

TF(id, type, val) == [id |-> id, type |-> type, val |-> val]
InnerStruct == <<TF(3, "bool", FALSE), TF(2, "i32", -5)>>

TypedValues ==
    {<<"bool", TRUE>>, <<"bool", FALSE>>, <<"i64", -4>>, <<"string", "s">>, <<"double", 2>>,
     <<"byte", 7>>, <<"list", [elem |-> "bool", items |-> <<FALSE, TRUE>>]>>,
     <<"set", [elem |-> "i16", items |-> <<1, -1, 0>>]>>,
     <<"list", [elem |-> "struct", items |-> <<InnerStruct, <<>>>>]>>,
     <<"map", [key |-> "string", elem |-> "struct", items |-> << <<"k", InnerStruct>> >>]>>,
     <<"map", [key |-> "stop", elem |-> "stop", items |-> <<>>]>>, <<"struct", InnerStruct>>}

FieldIds == {-16, -1, 1, 15}

MCStructs ==
    {<<>>} \cup {<<TF(i, v[1], v[2]), TF(j, w[1], w[2]), TF(1, "bool", TRUE)>> :
                    i \in FieldIds, j \in FieldIds, v \in TypedValues, w \in TypedValues}

-----------------------------------------------------------------------------
(* Jaeger batches and Zipkin lists: tags of every type with keys that      *)
(* repeat, logs with and without an event, references of both types,       *)
(* services in groups and apart.                                           *)

Tag(k, t, x) == [key |-> k, vtype |-> t, val |-> x]

JaegerTags ==
    {<<>>, <<Tag("span.kind", "string", "server"), Tag("a", "bool", FALSE),
             Tag("span.kind", "string", "client"), Tag("service.name", "bool", TRUE)>>,
     <<Tag("a", "int64", -1), Tag("a", "binary", "b")>>}

JaegerLogs ==
    {<<>>, <<[time |-> 1, fields |-> <<Tag("x", "float64", 2), Tag("event", "string", "e"),
                                       Tag("event", "int64", 3), Tag("event", "string", "f")>>],
             [time |-> 2, fields |-> <<>>]>>}

JaegerRefs ==
    {<<>>, <<[type |-> "FollowsFrom", spanID |-> 5], [type |-> "ChildOf", spanID |-> 6],
             [type |-> "ChildOf", spanID |-> 7]>>}

JaegerSpan(high, id, op, refs, start, dur, tags, logs) ==
    [high |-> high, low |-> 1, spanID |-> id, op |-> op, refs |-> refs, start |-> start,
     dur |-> dur, tags |-> tags, logs |-> logs]

MCJaegerBatches ==
    {[service |-> "s", tags |-> t, spans |-> spans] :
        t \in JaegerTags,
        spans \in {<<>>} \cup
            {<<JaegerSpan(0, 1, "o", refs, start, 1000000, tags, logs),
               JaegerSpan(2, 2, "", <<>>, 7, 0, <<>>, <<>>)>> :
                refs \in JaegerRefs, start \in {0, 1000005}, tags \in JaegerTags, logs \in JaegerLogs}}

ZipkinSpan(id, service) ==
    [id |-> id, parent |-> 0, trace |-> <<4>>, name |-> "n", kind |-> "CLIENT", start |-> 1,
     dur |-> 2, service |-> service, peer |-> "p", ip |-> "", port |-> 80,
     notes |-> <<[time |-> 3, value |-> "v"]>>,
     tags |-> {StringKV("k", "1"), StringKV("peer.service", "2")}]

MCZipkinLists ==
    {[i \in 1..n |-> ZipkinSpan(i, f[i])] : n \in 0..3, f \in [1..3 -> {"", "a", "b"}]}

-----------------------------------------------------------------------------
(* Propagation: composites that share formats or do not, contexts that are *)
(* absent, unsampled, sampled and debug, and headers of other libraries    *)
(* that are malformed one by one.  "L" is a long value.                    *)

MCComposites ==
    {<<"tracecontext", "baggage">>, <<"b3">>, <<"jaeger", "tracecontext">>,
     <<"tracecontext", "b3", "baggage">>, <<"baggage", "jaeger">>}

TraceId(hi, lo, short) == [hi |-> hi, lo |-> lo, short |-> short]

MCRoots ==
    {Empty} \cup
    {[sc |-> [trace |-> TraceId(1, 2, FALSE), span |-> 3, flags |-> f, state |-> <<>>, remote |-> FALSE],
      bag |-> b] : f \in {0, 1, 2}, b \in {<<>>, <<Entry("a", "s")>>}}

Traceparent(id) == <<[trace |-> id, span |-> 4, flags |-> 1]>>
B3Header(id) == <<[trace |-> id, span |-> 5, sampled |-> 1]>>
UberHeader(id) == <<[trace |-> id, span |-> 6, flags |-> 1]>>

MCForeign ==
    {[traceparent |-> t, tracestate |-> ts, b3 |-> b, multi |-> m, uber |-> u,
      uberctx |-> uc, baggage |-> bg] :
        t \in {<<>>, Traceparent(NoId), Traceparent(TraceId(0, 7, TRUE)), Traceparent(TraceId(0, 7, FALSE))},
        ts \in {<<Entry("a", "s"), Entry("", "s")>>, <<Entry("a", "s"), Entry("=", "s")>>,
                <<Entry("a", "s"), Entry("A", "s"), Entry("a", "L")>>},
        b \in {<<>>, B3Header(NoId), B3Header(TraceId(0, 8, TRUE))},
        m \in {<<>>, B3Header(TraceId(0, 9, TRUE))}, u \in {<<>>, UberHeader(TraceId(0, 9, TRUE))},
        uc \in {{}, {Entry("", "s"), Entry("A", "s")}},
        bg \in {<<>>, <<Entry("a", "L"), Entry("A", "L")>>}}

MCBytes == [x \in {"a", "A", "", "=", "s", "L"} |->
              CASE x = "" -> 0 [] x = "L" -> 3 [] OTHER -> 1]
MCLower == [x \in DOMAIN MCBytes |-> IF x = "A" THEN "a" ELSE x]

-----------------------------------------------------------------------------
VARIABLE unit

CodecsInit ==
    /\ unit \in {"otlp", "thrift", "conversions", "converters", "propagation"}
    /\ OtlpInit /\ ThriftInit /\ ConversionsInit /\ ConvertersInit /\ PropInit
    /\ unit # "propagation" => ctx = Empty

CodecsNext ==
    /\ UNCHANGED unit
    /\ \/ unit = "otlp" /\ OtlpNext
            /\ UNCHANGED <<thriftVars, conversionVars, converterVars, propVars>>
       \/ unit = "thrift" /\ ThriftNext
            /\ UNCHANGED <<otlpVars, conversionVars, converterVars, propVars>>
       \/ unit = "conversions" /\ ConversionsNext
            /\ UNCHANGED <<otlpVars, thriftVars, converterVars, propVars>>
       \/ unit = "converters" /\ ConvertersNext
            /\ UNCHANGED <<otlpVars, thriftVars, conversionVars, propVars>>
       \/ unit = "propagation" /\ PropNext
            /\ UNCHANGED <<otlpVars, thriftVars, conversionVars, converterVars>>

CodecsSpec ==
    CodecsInit
    /\ [][CodecsNext]_<<unit, otlpVars, thriftVars, conversionVars, converterVars, propVars>>
=============================================================================
