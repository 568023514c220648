------------------------------ MODULE MCRuntime ------------------------------
(***************************************************************************)
(* Small instances of the parts that work around the pipeline: the SDK,    *)
(* the processors, metrics, sampling strategies, the server from start to  *)
(* exit, gRPC calls, the UDP receiver and the query service.  One run      *)
(* takes them one at a time: unit names the one that moves.                *)
(***************************************************************************)
EXTENDS Sdk, Processors, Metrics, Sampling, Server, MCRpc, UdpReceiver, Query

-----------------------------------------------------------------------------
(* Processors: the filter drops span d; with the hashes 2, 5 and 8 some    *)
(* spans are sampled at the lower rates only.                              *)

SpanFacts ==
    [a |-> [service |-> "x", hash |-> 2, matches |-> TRUE, error |-> FALSE],
     b |-> [service |-> "x", hash |-> 5, matches |-> TRUE, error |-> TRUE],
     c |-> [service |-> "y", hash |-> 5, matches |-> TRUE, error |-> FALSE],
     d |-> [service |-> "x", hash |-> 8, matches |-> FALSE, error |-> FALSE],
     e |-> [service |-> "x", hash |-> 8, matches |-> TRUE, error |-> FALSE]]

MCPayloads == {<<"a", "d">>, <<"b", "e">>, <<"c">>}
MCService(td) == SpanFacts[td[1]].service
MCMatches(s) == SpanFacts[s].matches
MCIsError(s) == SpanFacts[s].error
MCHash(s) == SpanFacts[s].hash
MCAttributes(s) == [k \in {"k1"} |-> "v"]
MCActions ==
    <<[type |-> "insert", key |-> "k1", value |-> "w"], [type |-> "update", key |-> "k1", value |-> "u"],
      [type |-> "upsert", key |-> "k2", value |-> "w"], [type |-> "delete", key |-> "k1", value |-> ""]>>

-----------------------------------------------------------------------------
(* Metrics: a second collector asks for a name that is taken; two label    *)
(* sets of the counter have the same key; the bounds are not sorted.       *)

CallsCounter == [name |-> "calls", kind |-> "counter", labels |-> <<2, 1>>]
ReadyGauge == [name |-> "ready", kind |-> "gauge", labels |-> <<1>>]
Durations == [name |-> "duration", kind |-> "histogram", labels |-> <<1>>]
SecondCalls == [name |-> "calls", kind |-> "gauge", labels |-> <<>>]

MCRegistering == <<CallsCounter, Durations, SecondCalls, ReadyGauge>>
MCBounds == <<2, 1>>

Update(of, op, v, vals) == [of |-> of, op |-> op, v |-> v, values |-> vals]
MCUpdates ==
    {Update(CallsCounter, "add", 15, << <<>>, <<"a", ",", "2", "=">> >>),
     Update(CallsCounter, "add", 25, << <<",", "2", "=">>, <<"a">> >>),
     Update(CallsCounter, "add", -10, << <<"x">> >>),
     Update(ReadyGauge, "add", 1, <<>>), Update(ReadyGauge, "set", 5, <<>>),
     Update(Durations, "add", 2, <<>>), Update(Durations, "add", 3, <<>>)}

-----------------------------------------------------------------------------
(* Sampling: the file may be missing, malformed, name a service twice, or  *)
(* have nothing but a default.                                             *)

MCHashContent(content) == <<"hash", content>>
MCStrategies(content) ==
    IF content = "c1" THEN <<[service |-> "a", strategy |-> "half"],
                             [service |-> "a", strategy |-> "third"]>> ELSE <<>>
MCDefault(content) == IF content = "c2" THEN "tenth" ELSE "none"

-----------------------------------------------------------------------------
(* Server: two payloads that are taken and two that are refused.           *)

Request(r, problem, spans) == [receiver |-> r, problem |-> problem, spans |-> spans]
MCRequests ==
    {Request("otlp", "none", <<"s1">>), Request("jaeger", "none", <<"s2", "s3">>),
     Request("zipkin", "type", <<"s4">>), Request("otlp", "type", <<"s5">>)}

MCDatagrams ==
    {[id |-> 1, good |-> TRUE, spans |-> 1], [id |-> 2, good |-> TRUE, spans |-> 2],
     [id |-> 3, good |-> FALSE, spans |-> 0]}

-----------------------------------------------------------------------------
(* Query: a chain of three spans whose clocks are behind their parents',   *)
(* the last of them reported twice.                                        *)

QuerySpan(id, parent, start, end, events, n, ip) ==
    [id |-> id, parent |-> parent, start |-> start, end |-> end, events |-> events,
     attrs |-> n, ip |-> ip]

MCQuerySpans ==
    {QuerySpan(1, 0, 3, 6, 0, 0, "none"), QuerySpan(2, 1, 2, 7, 0, 1, "bytes4"),
     QuerySpan(3, 2, 1, 2, 1, 0, "bytes16"), QuerySpan(3, 2, 2, 2, 0, 1, "none")}

MCChains == {<<>>, <<"dedup", "skew", "ip", "sort">>, <<"sort", "skew", "dedup">>}

MCLinks == {[ts |-> 1, parent |-> "web", child |-> "db", count |-> 2],
            [ts |-> 2, parent |-> "web", child |-> "db", count |-> 1]}

-----------------------------------------------------------------------------
VARIABLE unit

Units == {"sdk", "processors", "metrics", "sampling", "server", "rpc", "udp", "query"}

\* The variables of every unit.
VarsOf == <<sdkVars, procVars, metricVars, samplingVars, serverVars, rpcVars, udpVars, queryVars>>

RuntimeInit ==
    /\ unit \in Units
    /\ SdkInit /\ ProcInit /\ MetricsInit /\ SamplingInit /\ ServerInit /\ RpcInit /\ UdpInit
    /\ QueryInit /\ (unit # "query" => chain = <<>>)
    /\ unit # "sampling" => file = "c1"

\* The unit u moves, the others stay.
Moves(u) ==
    /\ unit = u /\ UNCHANGED unit
    /\ u # "sdk" => UNCHANGED sdkVars
    /\ u # "processors" => UNCHANGED procVars
    /\ u # "metrics" => UNCHANGED metricVars
    /\ u # "sampling" => UNCHANGED samplingVars
    /\ u # "server" => UNCHANGED serverVars
    /\ u # "rpc" => UNCHANGED rpcVars
    /\ u # "udp" => UNCHANGED udpVars
    /\ u # "query" => UNCHANGED queryVars

RuntimeNext ==
    \/ Moves("sdk") /\ SdkNext
    \/ Moves("processors") /\ ProcNext
    \/ Moves("metrics") /\ MetricsNext
    \/ Moves("sampling") /\ SamplingNext
    \/ Moves("server") /\ ServerNext
    \/ Moves("rpc") /\ RpcNext
    \/ Moves("udp") /\ UdpNext
    \/ Moves("query") /\ QueryNext

RuntimeSpec == RuntimeInit /\ [][RuntimeNext]_<<unit, VarsOf>>
=============================================================================
