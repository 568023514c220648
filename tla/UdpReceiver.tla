---------------------------- MODULE UdpReceiver ----------------------------
(***************************************************************************)
(* The Jaeger agent port of internal/protocol/jaeger/udp_receiver.go: a    *)
(* fixed pool of goroutines reads one socket, decodes and hands on;        *)
(* Shutdown cancels their context, closes the socket and waits.  The       *)
(* socket is external: datagrams get lost, a read may fail.                *)
(***************************************************************************)
EXTENDS Integers, FiniteSets, Tables

CONSTANTS UdpWorkers,
          Datagrams,       \* [id, good, spans]
          MaxReadErrors    \* bound

ASSUME UdpAssumption ==
    /\ MaxReadErrors \in Nat
    /\ \A d \in Datagrams : d.good \in BOOLEAN /\ d.spans \in Nat

VARIABLES udpAt,        \* of each worker: "new", "check", "read", "work", "consume", "gone"
          packet,       \* {} or the datagram a worker holds
          sentPackets, inSocket,   \* datagrams sent; in the socket's buffer
          udpCancelled, connClosed,
          stopper,      \* Shutdown: "no", "close", "wait", "returned"
          consumed,     \* datagrams whose spans the sink took
          udpReceived, udpDropped,
          lostPackets, bad, readErrors   \* of the model: what became of the others

udpVars == <<udpAt, packet, sentPackets, inSocket, udpCancelled, connClosed, stopper,
             consumed, udpReceived, udpDropped, lostPackets, bad, readErrors>>
socketVars == <<sentPackets, inSocket, lostPackets>>
stopVars == <<udpCancelled, connClosed, stopper>>
countVars == <<consumed, udpReceived, udpDropped, bad, readErrors>>

UdpInit ==
    /\ udpAt = [w \in UdpWorkers |-> "new"] /\ packet = [w \in UdpWorkers |-> {}]
    /\ sentPackets = {} /\ inSocket = {} /\ lostPackets = {}
    /\ udpCancelled = FALSE /\ connClosed = FALSE /\ stopper = "no"
    /\ consumed = {} /\ udpReceived = 0 /\ udpDropped = 0 /\ bad = {} /\ readErrors = 0

UdpTo(w, place) == udpAt' = [udpAt EXCEPT ![w] = place]

\* Start has opened the socket and starts its goroutines.
StartUdp ==
    /\ \A w \in UdpWorkers : udpAt[w] = "new"
    /\ udpAt' = [w \in UdpWorkers |-> "check"]
    /\ UNCHANGED <<packet, socketVars, stopVars, countVars>>

\* external
SendPacket(d) ==
    /\ d \notin sentPackets /\ \E w \in UdpWorkers : udpAt[w] # "new"
    /\ sentPackets' = sentPackets \cup {d}
    /\ \/ ~connClosed /\ inSocket' = inSocket \cup {d} /\ UNCHANGED lostPackets
       \/ lostPackets' = lostPackets \cup {d} /\ UNCHANGED inSocket
    /\ UNCHANGED <<udpAt, packet, stopVars, countVars>>

-----------------------------------------------------------------------------
(* readLoop *)

CheckContext(w) ==
    /\ udpAt[w] = "check"
    /\ UdpTo(w, IF udpCancelled THEN "gone" ELSE "read")
    /\ UNCHANGED <<packet, socketVars, stopVars, countVars>>

ReadPacket(w) ==
    /\ udpAt[w] = "read" /\ ~connClosed
    /\ \E d \in inSocket :
          /\ inSocket' = inSocket \ {d}
          /\ packet' = [packet EXCEPT ![w] = {d}]
    /\ UdpTo(w, "work")
    /\ UNCHANGED <<sentPackets, lostPackets, stopVars, countVars>>

\* ReadFromUDP fails: always on a closed socket, now and then on an open one.
\* It counts as dropped unless the context is done.
ReadFails(w) ==
    /\ udpAt[w] = "read" /\ (connClosed \/ readErrors < MaxReadErrors)
    /\ IF udpCancelled
       THEN UdpTo(w, "gone") /\ UNCHANGED <<udpDropped, readErrors>>
       ELSE UdpTo(w, "check") /\ udpDropped' = udpDropped + 1 /\ readErrors' = readErrors + 1
    /\ UNCHANGED <<packet, socketVars, stopVars, consumed, udpReceived, bad>>

\* decodeThriftBatch
DecodePacket(w) ==
    /\ udpAt[w] = "work"
    /\ \E d \in packet[w] :
          IF d.good
          THEN UdpTo(w, "consume") /\ UNCHANGED <<packet, udpDropped, bad>>
          ELSE /\ UdpTo(w, "check") /\ packet' = [packet EXCEPT ![w] = {}]
               /\ udpDropped' = udpDropped + 1 /\ bad' = bad \cup {d}
    /\ UNCHANGED <<socketVars, stopVars, consumed, udpReceived, readErrors>>

\* mutant: the spans count as received whatever the sink says
ConsumePacketCounting(w) ==
    /\ udpAt[w] = "consume"
    /\ \E d \in packet[w] :
          /\ udpReceived' = udpReceived + d.spans
          /\ \/ consumed' = consumed \cup {d} /\ UNCHANGED <<udpDropped, bad>>
             \/ udpDropped' = udpDropped + 1 /\ bad' = bad \cup {d} /\ UNCHANGED consumed
    /\ packet' = [packet EXCEPT ![w] = {}]
    /\ UdpTo(w, "check")
    /\ UNCHANGED <<socketVars, stopVars, readErrors>>

\* ConsumeTraces takes the payload or refuses it.
ConsumePacket(w) ==
    /\ udpAt[w] = "consume"
    /\ \E d \in packet[w] :
          \/ /\ consumed' = consumed \cup {d} /\ udpReceived' = udpReceived + d.spans
             /\ UNCHANGED <<udpDropped, bad>>
          \/ /\ udpDropped' = udpDropped + 1 /\ bad' = bad \cup {d}
             /\ UNCHANGED <<consumed, udpReceived>>
    /\ packet' = [packet EXCEPT ![w] = {}]
    /\ UdpTo(w, "check")
    /\ UNCHANGED <<socketVars, stopVars, readErrors>>

-----------------------------------------------------------------------------
(* Shutdown: cancel, close, wait; what is in the socket then is gone. *)

UdpCancel ==
    /\ stopper = "no" /\ \A w \in UdpWorkers : udpAt[w] # "new"
    /\ stopper' = "close" /\ udpCancelled' = TRUE
    /\ UNCHANGED <<udpAt, packet, socketVars, connClosed, countVars>>

UdpClose ==
    /\ stopper = "close"
    /\ stopper' = "wait" /\ connClosed' = TRUE
    /\ inSocket' = {} /\ lostPackets' = lostPackets \cup inSocket
    /\ UNCHANGED <<udpAt, packet, sentPackets, udpCancelled, countVars>>

UdpStopped ==
    /\ stopper = "wait" /\ \A w \in UdpWorkers : udpAt[w] = "gone"
    /\ stopper' = "returned"
    /\ UNCHANGED <<udpAt, packet, socketVars, udpCancelled, connClosed, countVars>>

UdpNext ==
    \/ StartUdp \/ UdpCancel \/ UdpClose \/ UdpStopped
    \/ \E d \in Datagrams : SendPacket(d)
    \/ \E w \in UdpWorkers : \/ CheckContext(w) \/ ReadPacket(w) \/ ReadFails(w)
                             \/ DecodePacket(w) \/ ConsumePacket(w)

UdpSpec == UdpInit /\ [][UdpNext]_udpVars

-----------------------------------------------------------------------------
\* Every datagram the socket delivered is with one worker, consumed, or counted
\* as dropped, and both counters say so: received is the spans the sink took,
\* dropped the other datagrams and the failed reads, with none counted for the
\* reads that Shutdown interrupts.  When Shutdown has returned no worker holds
\* a datagram and the sink is not called any more.
DatagramsAccountedFor ==
    /\ sentPackets = (UNION {packet[w] : w \in UdpWorkers}) \cup inSocket \cup lostPackets
                       \cup consumed \cup bad
    /\ consumed \cap bad = {}
    /\ \A v, w \in UdpWorkers : v # w => packet[v] \cap packet[w] = {}
    /\ udpReceived = Total([d \in consumed |-> d.spans])
    /\ udpDropped = Cardinality(bad) + readErrors
    /\ connClosed => udpCancelled
    /\ stopper = "returned" => \A w \in UdpWorkers : packet[w] = {} /\ udpAt[w] = "gone"

=============================================================================
