----------------------------- MODULE MCBackends -----------------------------
(***************************************************************************)
(* Small instances of the places payloads go to: MemoryStore, InfluxClient *)
(* and Kafka.  They do not interact, so one run takes them one at a time:  *)
(* unit names the one that moves.                                          *)
(*                                                                         *)
(* Memory backend: trace A has spans of two services, its second span was  *)
(* never ended (end = 0 < start).  Time stamps have 3 bits.                *)
(***************************************************************************)
EXTENDS MemoryStore, InfluxClient, Kafka

CONSTANTS a1, a2, b1, c1, A, B, C

Info(trace, service, name, tags, start, end) ==
    [trace |-> trace, service |-> service, name |-> name, tags |-> tags,
     start |-> start, end |-> end]

MCSpanInfo ==
    (a1 :> Info(A, "web", "get", {"ok"}, 1, 3)) @@ (a2 :> Info(A, "db", "scan", {}, 2, 0))
    @@ (b1 :> Info(B, "db", "scan", {"ok"}, 2, 3)) @@ (c1 :> Info(C, Unset, "get", {}, 3, 3))

AnyTrace == [service |-> Unset, name |-> Unset, tags |-> {}, startMin |-> {},
             startMax |-> {}, durMin |-> 0, durMax |-> 0, limit |-> 0]

MCQueries ==
    {AnyTrace,
     [AnyTrace EXCEPT !.service = "db", !.name = "scan", !.limit = 1],
     [AnyTrace EXCEPT !.startMin = {2}, !.durMin = 1, !.durMax = 2],
     [AnyTrace EXCEPT !.tags = {"ok"}, !.startMax = {2}]}

VARIABLE unit

backendVars == <<unit, storeVars, influxVars, kafkaVars>>

BackendsInit ==
    /\ unit \in {"memory", "influx", "kafka"}
    /\ StoreInit /\ InfluxInit /\ KafkaInit

BackendsNext ==
    \/ unit = "memory" /\ StoreNext /\ UNCHANGED <<unit, influxVars, kafkaVars>>
    \/ unit = "influx" /\ InfluxNext /\ UNCHANGED <<unit, storeVars, kafkaVars>>
    \/ unit = "kafka" /\ KafkaNext /\ UNCHANGED <<unit, storeVars, influxVars>>

\* The fairness is Kafka's: the receiver and the broker, when it is their turn.
BackendsSpec ==
    BackendsInit /\ [][BackendsNext]_backendVars /\ (unit = "kafka" => KafkaFairness)
=============================================================================
