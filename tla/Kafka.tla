------------------------------- MODULE Kafka -------------------------------
(***************************************************************************)
(* The Kafka exporter and receiver of internal/pipeline/kafka_exporter.go  *)
(* with the broker between them.  The exporter collects payloads under     *)
(* ke.mu and sends them outside it over ke.conn, which no mutex guards;    *)
(* Write returns when the kernel has the bytes and the answers of the      *)
(* broker are never read.  The receiver keeps its connection and offset in *)
(* its goroutine.  The broker, its log and the network are external.       *)
(*                                                                         *)
(* A connection is a number; connection 0 stands for nil.                  *)
(***************************************************************************)
EXTENDS Naturals, Sequences, FiniteSets, SequencesExt, FiniteSetsExt, Functions, Subsequences

CONSTANTS KafkaData,   \* TracesData given to ExportTraces, each once
          Garbage,       \* log entries other producers wrote: no value, or not OTLP
          Callers,       \* goroutines that call ExportTraces or Shutdown
          BatchSize,     \* config.BatchSize
          MaxConns,      \* bound of the exporter's dials
          MaxFetch,      \* messages that fit in one Fetch response
          MaxFaults,     \* bound of the faults of network and broker
          MaxRestarts    \* bound of the receiver's restarts

ASSUME KafkaAssumption ==
    /\ KafkaData \cap Garbage = {}
    /\ BatchSize \in Nat \ {0} /\ MaxFetch \in Nat \ {0}
    /\ {MaxConns, MaxFaults, MaxRestarts} \subseteq Nat

Entries == KafkaData \cup Garbage
Conns == 1..MaxConns

VARIABLES given,      \* payloads given to ExportTraces so far
          kafkaBatch,      \* ke.batch
          conn,       \* ke.conn
          link,       \* state of every connection that was dialled
          wire,       \* requests written to a connection, not yet read by the broker
          callerAt,         \* where each caller is
          closers,    \* callers that are in Shutdown
          rest,       \* what is left of the batch a caller is sending
          lost,       \* payloads a flush gave up with an error
          panicked,   \* did a call dereference a nil connection?
          overlap,    \* have two callers been sending at the same time?
          topicLog,        \* the topic's partition
          reader,     \* the receiver: its place
          fetchOffset, \* its offset
          pending,    \* messages of the last response, not yet handed on
          handed,     \* what the sink got since the receiver was started
          faults, restarts

exporter == <<given, kafkaBatch, conn, link, wire, callerAt, closers, rest, lost, panicked, overlap>>
receiver == <<reader, fetchOffset, pending, handed>>
kafkaVars == <<exporter, receiver, topicLog, faults, restarts>>

KafkaTypeOK ==
    /\ kafkaBatch \in Seq(KafkaData)
    /\ conn \in 0..MaxConns
    /\ link \in [Conns -> {"unused", "up", "down", "closed"}]
    /\ wire \in [Conns -> Seq(KafkaData)]
    /\ callerAt \in [Callers -> {"out", "take", "check", "dial", "write", "drop", "close", "closing"}]
    /\ closers \subseteq Callers /\ given \subseteq KafkaData
    /\ rest \in [Callers -> Seq(KafkaData)]
    /\ lost \subseteq KafkaData
    /\ panicked \in BOOLEAN /\ overlap \in BOOLEAN
    /\ topicLog \in Seq(Entries)
    /\ reader \in {"dial", "fetch", "hand", "stopped"}
    /\ fetchOffset \in Nat
    /\ pending \in Seq(Entries) /\ handed \in Seq(KafkaData)

KafkaInit ==
    /\ given = {} /\ kafkaBatch = <<>> /\ conn = 0 /\ closers = {}
    /\ link = [k \in Conns |-> "unused"]
    /\ wire = [k \in Conns |-> <<>>]
    /\ callerAt = [c \in Callers |-> "out"]
    /\ rest = [c \in Callers |-> <<>>]
    /\ lost = {} /\ panicked = FALSE /\ overlap = FALSE
    /\ topicLog = <<>>
    /\ reader = "dial" /\ fetchOffset = 0 /\ pending = <<>> /\ handed = <<>>
    /\ faults = 0 /\ restarts = 0

KafkaFault == faults < MaxFaults /\ faults' = faults + 1
CallerTo(c, place) == callerAt' = [callerAt EXCEPT ![c] = place]

\* Where a caller is when its flush has succeeded.
Done(c) == IF c \in closers THEN "close" ELSE "out"

-----------------------------------------------------------------------------
(* The exporter. *)

ExportTraces(c, p) ==
    /\ callerAt[c] = "out" /\ p \notin given
    /\ given' = given \cup {p}
    /\ kafkaBatch' = Append(kafkaBatch, p)
    /\ CallerTo(c, IF Len(kafkaBatch) + 1 >= BatchSize THEN "take" ELSE "out")
    /\ UNCHANGED <<conn, link, wire, closers, rest, lost, panicked, overlap, receiver,
                   topicLog, faults, restarts>>

\* Shutdown flushes first and closes the connection when that went well.
KafkaShutdown(c) ==
    /\ callerAt[c] = "out"
    /\ CallerTo(c, "take")
    /\ closers' = closers \cup {c}
    /\ UNCHANGED <<given, kafkaBatch, conn, link, wire, rest, lost, panicked, overlap,
                   receiver, topicLog, faults, restarts>>

\* mutant: the batch is copied, not taken
TakeCopy(c) ==
    /\ callerAt[c] = "take"
    /\ rest' = [rest EXCEPT ![c] = kafkaBatch]
    /\ CallerTo(c, IF kafkaBatch = <<>> THEN Done(c) ELSE "check")
    /\ UNCHANGED <<given, kafkaBatch, conn, link, wire, closers, lost, panicked, overlap,
                   receiver, topicLog, faults, restarts>>

\* flush: take the batch out under ke.mu.
Take(c) ==
    /\ callerAt[c] = "take"
    /\ rest' = [rest EXCEPT ![c] = kafkaBatch]
    /\ kafkaBatch' = <<>>
    /\ CallerTo(c, IF kafkaBatch = <<>> THEN Done(c) ELSE "check")
    /\ overlap' = (overlap \/ \E d \in Callers \ {c} : callerAt[d] # "out")
    /\ UNCHANGED <<given, conn, link, wire, closers, lost, panicked, receiver, topicLog,
                   faults, restarts>>

\* A flush that fails gives up the rest of its batch.
GiveUp(c) ==
    /\ lost' = lost \cup ToSet(rest[c])
    /\ rest' = [rest EXCEPT ![c] = <<>>]
    /\ closers' = closers \ {c}
    /\ CallerTo(c, "out")

\* ensureConn reads ke.conn ...
EnsureConn(c) ==
    /\ callerAt[c] = "check"
    /\ CallerTo(c, IF conn # 0 THEN "write" ELSE "dial")
    /\ UNCHANGED <<given, kafkaBatch, conn, link, wire, closers, rest, lost, panicked,
                   overlap, receiver, topicLog, faults, restarts>>

\* ... and dials when it is nil.
DialBroker(c) ==
    /\ callerAt[c] = "dial"
    /\ \/ \E k \in Conns :
            /\ link[k] = "unused" /\ \A j \in 1..(k - 1) : link[j] # "unused"
            /\ link' = [link EXCEPT ![k] = "up"]
            /\ conn' = k
            /\ CallerTo(c, "write")
            /\ UNCHANGED <<lost, rest, closers, faults>>
       \/ KafkaFault /\ GiveUp(c) /\ UNCHANGED <<conn, link>>
    /\ UNCHANGED <<given, kafkaBatch, wire, panicked, overlap, receiver, topicLog, restarts>>

\* send: ke.conn.Write.  A peer that is gone is noticed or not.
WriteRequest(c) ==
    /\ callerAt[c] = "write" /\ conn # 0 /\ link[conn] # "closed"
    /\ wire' = [wire EXCEPT ![conn] = Append(@, Head(rest[c]))]
    /\ rest' = [rest EXCEPT ![c] = Tail(@)]
    /\ CallerTo(c, IF Len(rest[c]) = 1 THEN Done(c) ELSE "check")
    /\ UNCHANGED <<given, kafkaBatch, conn, link, closers, lost, panicked, overlap,
                   receiver, topicLog, faults, restarts>>

WriteError(c) ==
    /\ callerAt[c] = "write" /\ conn # 0 /\ link[conn] \in {"down", "closed"}
    /\ CallerTo(c, "drop")
    /\ UNCHANGED <<given, kafkaBatch, conn, link, wire, closers, rest, lost, panicked,
                   overlap, receiver, topicLog, faults, restarts>>

\* send after an error: close ke.conn, forget it, return.
DropConn(c) ==
    /\ callerAt[c] = "drop" /\ conn # 0
    /\ link' = [link EXCEPT ![conn] = "closed"]
    /\ conn' = 0
    /\ GiveUp(c)
    /\ UNCHANGED <<given, kafkaBatch, wire, panicked, overlap, receiver, topicLog, faults,
                   restarts>>

\* Another flush has set ke.conn to nil meanwhile: a call on a nil interface.
NilConn(c) ==
    /\ callerAt[c] \in {"write", "drop", "closing"} /\ conn = 0
    /\ panicked' = TRUE
    /\ GiveUp(c)
    /\ UNCHANGED <<given, kafkaBatch, conn, link, wire, overlap, receiver, topicLog, faults,
                   restarts>>

\* Shutdown after its flush: ke.conn is read, read again and closed; it stays set.
CheckClose(c) ==
    /\ callerAt[c] = "close"
    /\ CallerTo(c, IF conn # 0 THEN "closing" ELSE "out")
    /\ closers' = IF conn # 0 THEN closers ELSE closers \ {c}
    /\ UNCHANGED <<given, kafkaBatch, conn, link, wire, rest, lost, panicked, overlap,
                   receiver, topicLog, faults, restarts>>

CloseConn(c) ==
    /\ callerAt[c] = "closing" /\ conn # 0
    /\ link' = [link EXCEPT ![conn] = "closed"]
    /\ CallerTo(c, "out")
    /\ closers' = closers \ {c}
    /\ UNCHANGED <<given, kafkaBatch, conn, wire, rest, lost, panicked, overlap, receiver,
                   topicLog, faults, restarts>>

-----------------------------------------------------------------------------
(* external: the broker appends requests in the order of a connection; a   *)
(* connection may break and takes unread requests with it; other producers *)
(* write to the topic too.                                                 *)

BrokerAppends(k) ==
    /\ link[k] \in {"up", "closed"} /\ wire[k] # <<>>
    /\ topicLog' = Append(topicLog, Head(wire[k]))
    /\ wire' = [wire EXCEPT ![k] = Tail(@)]
    /\ UNCHANGED <<given, kafkaBatch, conn, link, callerAt, closers, rest, lost, panicked,
                   overlap, receiver, faults, restarts>>

BreakLink(k) ==
    /\ link[k] = "up" /\ KafkaFault
    /\ link' = [link EXCEPT ![k] = "down"]
    /\ UNCHANGED <<given, kafkaBatch, conn, wire, callerAt, closers, rest, lost, panicked,
                   overlap, receiver, topicLog, restarts>>

OtherProducer(g) ==
    /\ g \notin ToSet(topicLog)
    /\ topicLog' = Append(topicLog, g)
    /\ UNCHANGED <<exporter, receiver, faults, restarts>>

-----------------------------------------------------------------------------
(* The receiver. *)

\* The message set of a Fetch response: whole messages from the offset on, and
\* possibly one that the size limit cut off.
MessageSet(from, n, cut) ==
    [i \in 1..(n + (IF cut THEN 1 ELSE 0)) |->
        [offset |-> from + i - 1, entry |-> topicLog[from + i], whole |-> i <= n]]

\* parseFetchResponse: the messages before the first that is cut off, and the
\* offset after the last of them; 0 when there is none.
Parsed(set) ==
    [i \in {j \in DOMAIN set : \A k \in 1..j : set[k].whole} |-> set[i].entry]
\* mutant: a message that is cut off advances the offset
NextOffsetPastCut(set) == Max({0} \cup {set[i].offset + 1 : i \in DOMAIN set})
NextOffset(set) ==
    Max({0} \cup {set[i].offset + 1 : i \in {j \in DOMAIN set : set[j].whole}})

ReceiverDials ==
    /\ reader = "dial"
    /\ \/ reader' = "fetch" /\ UNCHANGED faults
       \/ KafkaFault /\ UNCHANGED reader
    /\ UNCHANGED <<exporter, fetchOffset, pending, handed, topicLog, restarts>>

\* One round: the request, the answer and the offset; or an I/O error.
Fetch ==
    /\ reader = "fetch"
    /\ \E n \in 0..MaxFetch, cut \in BOOLEAN :
        /\ fetchOffset + n + (IF cut THEN 1 ELSE 0) <= Len(topicLog)
        /\ LET set == MessageSet(fetchOffset, n, cut)
               nextOffset == NextOffset(set)
           IN  /\ fetchOffset' = IF nextOffset > fetchOffset THEN nextOffset ELSE fetchOffset
               /\ pending' = Parsed(set)
               /\ reader' = IF n > 0 THEN "hand" ELSE "fetch"
    /\ UNCHANGED <<exporter, handed, topicLog, faults, restarts>>

FetchFails ==
    /\ reader = "fetch" /\ KafkaFault
    /\ reader' = "dial"
    /\ UNCHANGED <<exporter, fetchOffset, pending, handed, topicLog, restarts>>

\* mutant: the message that does not decode ends the loop without another Fetch
HandOnStuck ==
    /\ reader = "hand"
    /\ handed' = IF Head(pending) \in KafkaData THEN Append(handed, Head(pending)) ELSE handed
    /\ pending' = Tail(pending)
    /\ reader' = CASE Head(pending) \notin KafkaData -> "done"
                   [] OTHER -> IF Len(pending) = 1 THEN "fetch" ELSE "hand"
    /\ UNCHANGED <<exporter, fetchOffset, topicLog, faults, restarts>>

\* The messages of the response go to the sink one by one; those that do not
\* decode are skipped.  ctx is looked at only before the next round.
HandOn ==
    /\ reader = "hand"
    /\ handed' = IF Head(pending) \in KafkaData THEN Append(handed, Head(pending)) ELSE handed
    /\ pending' = Tail(pending)
    /\ reader' = IF Len(pending) = 1 THEN "fetch" ELSE "hand"
    /\ UNCHANGED <<exporter, fetchOffset, topicLog, faults, restarts>>

ReceiverStops ==
    /\ reader \in {"dial", "fetch"} /\ restarts < MaxRestarts
    /\ reader' = "stopped"
    /\ UNCHANGED <<exporter, fetchOffset, pending, handed, topicLog, faults, restarts>>

\* A new consumeLoop begins at offset 0; what the sink had is handed on again.
ReceiverRestarts ==
    /\ reader = "stopped" /\ restarts < MaxRestarts
    /\ restarts' = restarts + 1
    /\ reader' = "dial"
    /\ fetchOffset' = 0 /\ pending' = <<>> /\ handed' = <<>>
    /\ UNCHANGED <<exporter, topicLog, faults>>

-----------------------------------------------------------------------------
Sending(c) ==
    \/ Take(c) \/ EnsureConn(c) \/ DialBroker(c) \/ WriteRequest(c) \/ WriteError(c)
    \/ DropConn(c) \/ NilConn(c) \/ CheckClose(c) \/ CloseConn(c)

Receiving == ReceiverDials \/ Fetch \/ FetchFails \/ HandOn

KafkaNext ==
    \/ \E c \in Callers : Sending(c) \/ KafkaShutdown(c) \/ \E p \in KafkaData : ExportTraces(c, p)
    \/ \E k \in Conns : BrokerAppends(k) \/ BreakLink(k)
    \/ \E g \in Garbage : OtherProducer(g)
    \/ Receiving \/ ReceiverStops \/ ReceiverRestarts

\* The receiver's goroutine runs and the broker eventually answers with what it
\* has: a Fetch waits at the broker until there is something.
FetchesSome == Fetch /\ fetchOffset' > fetchOffset
KafkaFairness ==
    /\ WF_kafkaVars(ReceiverDials /\ reader' = "fetch")
    /\ WF_kafkaVars(FetchesSome) /\ WF_kafkaVars(HandOn)

KafkaSpec == KafkaInit /\ [][KafkaNext]_kafkaVars /\ KafkaFairness

-----------------------------------------------------------------------------
\* What the sink has got since the receiver was started, with what is still to be
\* handed on, is the log up to the offset, in order, without gap or repetition:
\* reconnecting, responses cut off in a message and messages that do not decode
\* change nothing.
SinkFollowsLog ==
    /\ KafkaTypeOK
    /\ fetchOffset <= Len(topicLog)
    /\ handed \o Keep(pending, KafkaData) = Keep(SubSeq(topicLog, 1, fetchOffset), KafkaData)

\* The payloads on the connections, and those that the flushes are sending.
OnWire == UNION {ToSet(wire[k]) : k \in Conns}
InFlush == UNION {ToSet(rest[c]) : c \in Callers}

\* A payload given to ExportTraces is in one place, once: the batch, a flush, a
\* connection, the log, or among those a flush gave up with an error.  Nothing is
\* lost without an error while the connections hold, and nothing is sent twice,
\* however callers, flushes and reconnections interleave.  ke.conn is only safe
\* for one flush at a time: a call on a nil connection needs two callers that
\* were sending together.
PayloadsAccountedFor ==
    /\ given = ToSet(kafkaBatch) \cup InFlush \cup OnWire
               \cup (ToSet(topicLog) \cap KafkaData) \cup lost
    /\ ToSet(kafkaBatch) \cap (InFlush \cup OnWire \cup ToSet(topicLog) \cup lost) = {}
    /\ InFlush \cap (OnWire \cup ToSet(topicLog) \cup lost) = {}
    /\ OnWire \cap (ToSet(topicLog) \cup lost) = {}
    /\ ToSet(topicLog) \cap lost = {}
    /\ IsInjective(kafkaBatch) /\ IsInjective(topicLog)
    /\ \A c, d \in Callers : /\ IsInjective(rest[c])
                             /\ c # d => ToSet(rest[c]) \cap ToSet(rest[d]) = {}
    /\ \A j, k \in Conns : /\ IsInjective(wire[k])
                           /\ j # k => ToSet(wire[j]) \cap ToSet(wire[k]) = {}
    /\ panicked => overlap

\* What is in the log reaches the sink, unless the receiver is stopped.
LogIsHandedOn ==
    \A p \in KafkaData : p \in ToSet(topicLog) ~> p \in ToSet(handed) \/ reader = "stopped"

=============================================================================
