--------------------------- MODULE RuntimeProofs ---------------------------
(***************************************************************************)
(* Proofs about the parts that work around the pipeline: the UDP receiver, *)
(* gRPC calls, sampling strategies, the Go SDK, the server, the chain of   *)
(* processors and the metrics registry.                                    *)
(***************************************************************************)
EXTENDS Sdk, Processors, Sampling, Server, Rpc, UdpReceiver, Metrics, SeqLemmas,
        FiniteSetTheorems, TLAPS

-----------------------------------------------------------------------------
(* UDP receiver *)

UdpType ==
    /\ udpAt \in [UdpWorkers -> {"new", "check", "read", "work", "consume", "gone"}]
    /\ packet \in [UdpWorkers -> SUBSET Datagrams]
    /\ sentPackets \subseteq Datagrams /\ inSocket \subseteq sentPackets
    /\ consumed \subseteq Datagrams
    /\ udpReceived \in Nat /\ udpDropped \in Nat /\ readErrors \in Nat

(* A worker holds at most one datagram, and only while it works on it.     *)
HandsInv ==
    \A w \in UdpWorkers :
        /\ packet[w] # {} => udpAt[w] \in {"work", "consume"}
        /\ \A d, e \in packet[w] : d = e

InHands == UNION {packet[w] : w \in UdpWorkers}

(* The places of a datagram do not overlap.                                *)
PacketsInv ==
    /\ sentPackets = InHands \cup inSocket \cup lostPackets \cup consumed \cup bad
    /\ InHands \cap (inSocket \cup consumed \cup bad) = {}
    /\ inSocket \cap (consumed \cup bad) = {}
    /\ consumed \cap bad = {}
    /\ \A v, w \in UdpWorkers : v # w => packet[v] \cap packet[w] = {}

Spans(S) == [d \in S |-> d.spans]

CountInv ==
    /\ IsFiniteSet(bad) /\ IsFiniteSet(UnitsOf(Spans(consumed)))
    /\ udpReceived = Total(Spans(consumed))
    /\ udpDropped = Cardinality(bad) + readErrors

StopInv ==
    /\ connClosed => udpCancelled
    /\ stopper # "no" => udpCancelled
    /\ stopper = "returned" => \A w \in UdpWorkers : udpAt[w] = "gone"

UdpInv == UdpType /\ HandsInv /\ PacketsInv /\ CountInv /\ StopInv

(* A worker that takes a datagram from the socket, or is done with one.    *)
LEMMA HandsTake ==
    ASSUME HandsInv, PacketsInv, packet \in [UdpWorkers -> SUBSET Datagrams],
           NEW w \in UdpWorkers, NEW d \in Datagrams, packet[w] = {},
           packet' = [packet EXCEPT ![w] = {d}], d \notin InHands
    PROVE  /\ InHands' = InHands \cup {d}
           /\ \A u, v \in UdpWorkers : u # v => packet'[u] \cap packet'[v] = {}
           /\ \A v \in UdpWorkers : \A e, f \in packet'[v] : e = f
<1>1. packet'[w] = {d} /\ \A v \in UdpWorkers : v # w => packet'[v] = packet[v]
  OBVIOUS
<1>2. InHands' = InHands \cup {d}
  BY <1>1 DEF InHands
<1>3. \A v \in UdpWorkers : d \notin packet[v]
  BY DEF InHands
<1> QED
  BY <1>1, <1>2, <1>3 DEF PacketsInv, HandsInv

LEMMA HandsDone ==
    ASSUME HandsInv, PacketsInv, packet \in [UdpWorkers -> SUBSET Datagrams],
           NEW w \in UdpWorkers, NEW d \in packet[w],
           packet' = [packet EXCEPT ![w] = {}]
    PROVE  /\ InHands' = InHands \ {d} /\ d \in InHands
           /\ \A u, v \in UdpWorkers : u # v => packet'[u] \cap packet'[v] = {}
           /\ \A v \in UdpWorkers : \A e, f \in packet'[v] : e = f
<1>1. packet'[w] = {} /\ \A v \in UdpWorkers : v # w => packet'[v] = packet[v]
  OBVIOUS
<1>2. packet[w] = {d} /\ \A v \in UdpWorkers : v # w => d \notin packet[v]
  BY DEF HandsInv, PacketsInv
<1>3. InHands' = InHands \ {d}
  BY <1>1, <1>2 DEF InHands
<1>4. d \in InHands
  BY DEF InHands
<1> QED
  BY <1>1, <1>3, <1>4 DEF PacketsInv, HandsInv

(* A datagram that is dropped, and one that is consumed.                   *)
LEMMA CountDrops ==
    ASSUME CountInv, UdpType, NEW d, d \notin bad, bad' = bad \cup {d},
           udpDropped' = udpDropped + 1, UNCHANGED <<consumed, udpReceived, readErrors>>
    PROVE  CountInv' /\ udpDropped' \in Nat
<1>1. Cardinality(bad) \in Nat /\ IsFiniteSet(bad') /\ Cardinality(bad') = Cardinality(bad) + 1
  BY FS_CardinalityType, FS_AddElement DEF CountInv
<1> QED
  BY <1>1 DEF CountInv, UdpType, Spans

LEMMA CountConsumes ==
    ASSUME CountInv, UdpType, NEW d \in Datagrams, d \notin consumed,
           consumed' = consumed \cup {d}, udpReceived' = udpReceived + d.spans,
           UNCHANGED <<bad, udpDropped, readErrors>>
    PROVE  CountInv' /\ udpReceived' \in Nat
<1>1. d.spans \in Nat
  BY UdpAssumption
<1> DEFINE f == Spans(consumed')
           g == Spans(consumed)
<1>2. /\ DOMAIN g = consumed /\ DOMAIN f = DOMAIN g \cup {d} /\ d \notin DOMAIN g
      /\ \A x \in DOMAIN g : f[x] = g[x]
      /\ f[d] = d.spans
  BY DEF Spans
<1>3. IsFiniteSet(UnitsOf(g)) /\ udpReceived = Total(g)
  BY DEF CountInv
<1> HIDE DEF f, g
<1>4. IsFiniteSet(UnitsOf(f)) /\ Total(f) = Total(g) + d.spans /\ Total(g) \in Nat
  BY <1>1, <1>2, <1>3, TotalSplit
<1>5. udpReceived' = Total(f) /\ udpReceived' \in Nat
  BY <1>1, <1>3, <1>4
<1> QED
  BY <1>4, <1>5 DEF CountInv, f, Spans

LEMMA UdpInvInit == UdpInit => UdpInv
<1> SUFFICES ASSUME UdpInit PROVE UdpInv
  OBVIOUS
<1>1. \A w \in UdpWorkers : packet[w] = {} /\ udpAt[w] = "new"
  BY DEF UdpInit
<1>2. UdpType /\ HandsInv /\ StopInv
  BY <1>1 DEF UdpInit, UdpType, HandsInv, StopInv
<1>3. InHands = {}
  BY <1>1 DEF InHands
<1>4. PacketsInv
  BY <1>1, <1>3 DEF UdpInit, PacketsInv
<1>5. IsFiniteSet(UnitsOf(Spans({}))) /\ Total(Spans({})) = 0
  BY TotalZero DEF Spans
<1>6. CountInv
  BY <1>5, FS_EmptySet DEF UdpInit, CountInv
<1> QED
  BY <1>2, <1>4, <1>6 DEF UdpInv

(* What a step leaves alone.                                               *)
LEMMA UdpAside ==
    /\ CountInv /\ UNCHANGED countVars => CountInv'
    /\ PacketsInv /\ UNCHANGED <<packet, socketVars, consumed, bad>> => PacketsInv'
<1>1. CountInv /\ UNCHANGED countVars => CountInv'
  BY DEF CountInv, countVars
<1>2. PacketsInv /\ UNCHANGED <<packet, socketVars, consumed, bad>> => PacketsInv'
  BY DEF PacketsInv, socketVars, InHands
<1> QED
  BY <1>1, <1>2

(* The socket, Start and Shutdown.                                         *)
LEMMA UdpControl ==
    ASSUME UdpInv,
           \/ StartUdp \/ UdpCancel \/ UdpClose \/ UdpStopped
           \/ \E d \in Datagrams : SendPacket(d)
    PROVE  UdpInv'
<1> USE DEF UdpInv
<1>1. CASE StartUdp
  <2>1. UdpType' /\ HandsInv' /\ StopInv'
    BY <1>1 DEF StartUdp, UdpType, HandsInv, StopInv, socketVars, stopVars, countVars
  <2> QED
    BY <1>1, <2>1, UdpAside DEF StartUdp, countVars
<1>2. CASE UdpCancel \/ UdpStopped
  <2>1. UdpType' /\ HandsInv' /\ StopInv'
    BY <1>2 DEF UdpCancel, UdpStopped, UdpType, HandsInv, StopInv, socketVars, countVars
  <2> QED
    BY <1>2, <2>1, UdpAside DEF UdpCancel, UdpStopped, countVars
<1>3. CASE UdpClose
  <2>1. UdpType' /\ HandsInv' /\ StopInv'
    BY <1>3 DEF UdpClose, UdpType, HandsInv, StopInv, countVars
  <2>2. PacketsInv'
    BY <1>3 DEF UdpClose, PacketsInv, InHands, countVars
  <2> QED
    BY <1>3, <2>1, <2>2, UdpAside DEF UdpClose
<1>4. ASSUME NEW d \in Datagrams, SendPacket(d) PROVE UdpInv'
  <2>1. UdpType' /\ HandsInv' /\ StopInv'
    BY <1>4 DEF SendPacket, UdpType, HandsInv, StopInv, stopVars, countVars
  <2>2. InHands' = InHands
    BY <1>4 DEF SendPacket, InHands
  <2>3. PacketsInv'
    BY <1>4, <2>2 DEF SendPacket, PacketsInv, countVars
  <2> QED
    BY <1>4, <2>1, <2>3, UdpAside DEF SendPacket
<1> QED
  BY <1>1, <1>2, <1>3, <1>4

(* readLoop up to the datagram.                                            *)
LEMMA UdpReads ==
    ASSUME UdpInv, NEW w \in UdpWorkers, CheckContext(w) \/ ReadPacket(w) \/ ReadFails(w)
    PROVE  UdpInv'
<1> USE DEF UdpInv
<1>1. CASE CheckContext(w)
  <2>1. UdpType' /\ HandsInv' /\ StopInv'
    BY <1>1 DEF CheckContext, UdpTo, UdpType, HandsInv, StopInv, socketVars, stopVars, countVars
  <2> QED
    BY <1>1, <2>1, UdpAside DEF CheckContext, countVars
<1>2. CASE ReadPacket(w)
  <2>1. PICK d \in inSocket : inSocket' = inSocket \ {d} /\ packet' = [packet EXCEPT ![w] = {d}]
    BY <1>2 DEF ReadPacket
  <2>2. packet[w] = {} /\ d \in Datagrams /\ d \notin InHands
    BY <1>2, <2>1 DEF ReadPacket, HandsInv, PacketsInv, UdpType
  <2>3. UdpType' /\ StopInv'
    BY <1>2, <2>1, <2>2 DEF ReadPacket, UdpTo, UdpType, StopInv, stopVars, countVars
  <2>4. /\ InHands' = InHands \cup {d}
        /\ \A u, v \in UdpWorkers : u # v => packet'[u] \cap packet'[v] = {}
        /\ \A v \in UdpWorkers : \A e, f \in packet'[v] : e = f
    BY <2>1, <2>2, HandsTake DEF UdpType
  <2>5. HandsInv'
    BY <1>2, <2>1, <2>4 DEF ReadPacket, UdpTo, HandsInv, UdpType
  <2>6. PacketsInv'
    BY <1>2, <2>1, <2>2, <2>4 DEF ReadPacket, PacketsInv, countVars
  <2> QED
    BY <1>2, <2>3, <2>5, <2>6, UdpAside DEF ReadPacket
<1>3. CASE ReadFails(w)
  <2>1. UdpType' /\ HandsInv' /\ StopInv'
    BY <1>3 DEF ReadFails, UdpTo, UdpType, HandsInv, StopInv, socketVars, stopVars
  <2>2. Cardinality(bad) \in Nat
    BY FS_CardinalityType DEF CountInv
  <2>3. CountInv'
    BY <1>3, <2>2 DEF ReadFails, CountInv, Spans, UdpType
  <2> QED
    BY <1>3, <2>1, <2>3, UdpAside DEF ReadFails
<1> QED
  BY <1>1, <1>2, <1>3

(* readLoop from the datagram on.                                          *)
LEMMA UdpWorks ==
    ASSUME UdpInv, NEW w \in UdpWorkers, DecodePacket(w) \/ ConsumePacket(w)
    PROVE  UdpInv'
<1> USE DEF UdpInv
<1>1. PICK d \in packet[w] :
        \/ UNCHANGED <<packet, udpDropped, bad, consumed, udpReceived>> /\ UdpTo(w, "consume")
           /\ udpAt[w] = "work"
        \/ /\ packet' = [packet EXCEPT ![w] = {}] /\ UdpTo(w, "check")
           /\ udpDropped' = udpDropped + 1 /\ bad' = bad \cup {d}
           /\ UNCHANGED <<consumed, udpReceived>>
        \/ /\ packet' = [packet EXCEPT ![w] = {}] /\ UdpTo(w, "check")
           /\ consumed' = consumed \cup {d} /\ udpReceived' = udpReceived + d.spans
           /\ UNCHANGED <<udpDropped, bad>>
  BY DEF DecodePacket, ConsumePacket
<1>2. UNCHANGED <<socketVars, stopVars, readErrors>> /\ udpAt[w] # "gone"
  BY DEF DecodePacket, ConsumePacket
<1>3. /\ d \in InHands /\ d \in Datagrams
      /\ d \notin consumed /\ d \notin bad /\ d \notin inSocket /\ d \in sentPackets
  BY DEF InHands, PacketsInv, UdpType
<1>4. CASE UNCHANGED <<packet, udpDropped, bad, consumed, udpReceived>> /\ UdpTo(w, "consume")
           /\ udpAt[w] = "work"
  <2>1. UdpType' /\ HandsInv' /\ StopInv'
    BY <1>2, <1>4 DEF UdpTo, UdpType, HandsInv, StopInv, socketVars, stopVars
  <2> QED
    BY <1>2, <1>4, <2>1, UdpAside DEF countVars
<1>5. ASSUME packet' = [packet EXCEPT ![w] = {}], UdpTo(w, "check")
      PROVE  /\ InHands' = InHands \ {d}
             /\ \A u, v \in UdpWorkers : u # v => packet'[u] \cap packet'[v] = {}
             /\ HandsInv' /\ StopInv'
             /\ udpAt' \in [UdpWorkers -> {"new", "check", "read", "work", "consume", "gone"}]
             /\ packet' \in [UdpWorkers -> SUBSET Datagrams]
  <2>1. /\ InHands' = InHands \ {d}
        /\ \A u, v \in UdpWorkers : u # v => packet'[u] \cap packet'[v] = {}
        /\ \A v \in UdpWorkers : \A e, f \in packet'[v] : e = f
    BY <1>5, HandsDone DEF UdpType
  <2>2. HandsInv' /\ StopInv'
    BY <1>2, <1>5, <2>1 DEF UdpTo, HandsInv, StopInv, UdpType, stopVars
  <2> QED
    BY <1>5, <2>1, <2>2 DEF UdpTo, UdpType
<1>6. CASE /\ packet' = [packet EXCEPT ![w] = {}] /\ UdpTo(w, "check")
           /\ udpDropped' = udpDropped + 1 /\ bad' = bad \cup {d}
           /\ UNCHANGED <<consumed, udpReceived>>
  <2>1. CountInv' /\ udpDropped' \in Nat
    BY <1>2, <1>3, <1>6, CountDrops
  <2>2. UdpType'
    BY <1>2, <1>5, <1>6, <2>1 DEF UdpType, socketVars
  <2>3. PacketsInv'
    BY <1>2, <1>3, <1>5, <1>6 DEF PacketsInv, socketVars
  <2> QED
    BY <1>5, <1>6, <2>1, <2>2, <2>3
<1>7. CASE /\ packet' = [packet EXCEPT ![w] = {}] /\ UdpTo(w, "check")
           /\ consumed' = consumed \cup {d} /\ udpReceived' = udpReceived + d.spans
           /\ UNCHANGED <<udpDropped, bad>>
  <2>1. CountInv' /\ udpReceived' \in Nat
    BY <1>2, <1>3, <1>7, CountConsumes
  <2>2. UdpType'
    BY <1>2, <1>3, <1>5, <1>7, <2>1 DEF UdpType, socketVars
  <2>3. PacketsInv'
    BY <1>2, <1>3, <1>5, <1>7 DEF PacketsInv, socketVars
  <2> QED
    BY <1>5, <1>7, <2>1, <2>2, <2>3
<1> QED
  BY <1>1, <1>4, <1>6, <1>7

(* Every datagram that was sent is in the socket, lost, with one worker,   *)
(* consumed or dropped, the counters say how many, and Shutdown returns    *)
(* with no datagram in a worker's hands: for any number of workers and     *)
(* datagrams, and reads that fail before, while and after Shutdown closes  *)
(* the socket.                                                             *)
THEOREM UdpDatagramsAccountedFor == UdpSpec => []DatagramsAccountedFor
<1>1. UdpInv /\ [UdpNext]_udpVars => UdpInv'
  <2> SUFFICES ASSUME UdpInv, [UdpNext]_udpVars PROVE UdpInv'
    OBVIOUS
  <2>1. CASE UNCHANGED udpVars
    <3>1. UNCHANGED <<packet, socketVars, consumed, bad>> /\ UNCHANGED countVars
      BY <2>1 DEF udpVars, socketVars, countVars
    <3>2. UdpType' /\ HandsInv' /\ StopInv'
      BY <2>1 DEF UdpInv, UdpType, HandsInv, StopInv, udpVars
    <3> QED
      BY <3>1, <3>2, UdpAside DEF UdpInv
  <2>2. CASE UdpNext
    BY <2>2, UdpControl, UdpReads, UdpWorks DEF UdpNext
  <2> QED
    BY <2>1, <2>2
<1>2. UdpInv => DatagramsAccountedFor
  <2> SUFFICES ASSUME UdpInv PROVE DatagramsAccountedFor
    OBVIOUS
  <2>1. stopper = "returned" => \A w \in UdpWorkers : packet[w] = {} /\ udpAt[w] = "gone"
    BY DEF UdpInv, StopInv, HandsInv
  <2>2. udpReceived = Total([d \in consumed |-> d.spans])
    BY DEF UdpInv, CountInv, Spans
  <2>3. /\ sentPackets = InHands \cup inSocket \cup lostPackets \cup consumed \cup bad
        /\ consumed \cap bad = {}
        /\ \A v, w \in UdpWorkers : v # w => packet[v] \cap packet[w] = {}
    BY DEF UdpInv, PacketsInv
  <2>4. udpDropped = Cardinality(bad) + readErrors /\ (connClosed => udpCancelled)
    BY DEF UdpInv, CountInv, StopInv
  <2> QED
    BY <2>1, <2>2, <2>3, <2>4 DEF DatagramsAccountedFor, InHands
<1> QED
  BY <1>1, <1>2, UdpInvInit, PTL DEF UdpSpec

-----------------------------------------------------------------------------
(* gRPC calls *)

RpcResults == {"none", "ok", "ctx", "error", "0", "3", "8", "12", "13"}
AnswerStatuses == {"none", "0", "3", "8", "12", "13"}

RpcType ==
    /\ callAt \in [RpcCalls -> {"idle", "send", "wait", "backoff", "over"}]
    /\ tries \in [RpcCalls -> Nat] /\ accepted \in [RpcCalls -> Nat]
    /\ result \in [RpcCalls -> RpcResults]
    /\ requests \subseteq [call : RpcCalls, try : Nat \ {0}]
    /\ replies \subseteq [call : RpcCalls, try : Nat \ {0}, status : AnswerStatuses, body : Nat]
    /\ rpcRejected \in Nat

(* The attempts that were begun, and the call's budget of them.            *)
TriesInv ==
    /\ \A c \in RpcCalls : /\ tries[c] <= maxRetries + 1
                           /\ callAt[c] \notin {"wait", "over"} => tries[c] <= maxRetries
                           /\ result[c] # "none" <=> callAt[c] = "over"

(* An attempt is on its way to the server or its answer is on its way      *)
(* back, not both, and there is one answer.                                *)
AttemptsInv ==
    /\ \A q \in requests : q.try <= tries[q.call]
    /\ \A p \in replies : p.try <= tries[p.call]
    /\ \A q \in requests, p \in replies : ~(q.call = p.call /\ q.try = p.try)
    /\ \A p, r \in replies : p.call = r.call /\ p.try = r.try => p = r

(* The attempts of a call that may still be taken or were refused.         *)
OpenTries(c) ==
    {n \in 1 .. tries[c] :
        \/ [call |-> c, try |-> n] \in requests
        \/ \E p \in replies : p.call = c /\ p.try = n /\ p.status = "8"}

(* Each attempt is taken once at most, and one that was refused never.     *)
BudgetInv ==
    \A c \in RpcCalls :
        accepted[c] + Cardinality(OpenTries(c)) + (IF result[c] = "8" THEN 1 ELSE 0) <= tries[c]

Unary(c) == c.tls /\ c.method = "unary"

(* What an answer says is true.                                            *)
TrueOf(c, status, ok) ==
    \/ c.frame # "good" /\ status = "3"
    \/ c.frame = "good" /\ status = "8" /\ rpcRejected >= c.spans
    \/ c.frame = "good" /\ status = ok /\ accepted[c] >= 1

RepliesInv == \A p \in replies : Unary(p.call) => TrueOf(p.call, p.status, "0")

ResultsInv ==
    \A c \in RpcCalls :
        /\ accepted[c] > 0 => Unary(c) /\ c.frame = "good"
        /\ Unary(c) /\ callAt[c] = "over" =>
              result[c] \in {"ctx", "error"} \/ TrueOf(c, result[c], "ok")

Taken(a) == [c \in RpcCalls |-> a[c] * c.spans]
TakenInv == IsFiniteSet(UnitsOf(Taken(accepted))) /\ rpcReceived = Total(Taken(accepted))

RpcInv ==
    RpcType /\ TriesInv /\ AttemptsInv /\ BudgetInv /\ RepliesInv /\ ResultsInv /\ TakenInv

LEMMA RpcInvInit == RpcInit => RpcInv
<1> SUFFICES ASSUME RpcInit PROVE RpcInv
  OBVIOUS
<1>1. RpcType /\ TriesInv /\ AttemptsInv /\ RepliesInv /\ ResultsInv
  BY RpcAssumption
     DEF RpcInit, RpcType, TriesInv, AttemptsInv, RepliesInv, ResultsInv, RpcResults
<1>2. BudgetInv
  <2> SUFFICES ASSUME NEW c \in RpcCalls PROVE
        accepted[c] + Cardinality(OpenTries(c)) + (IF result[c] = "8" THEN 1 ELSE 0) <= tries[c]
    BY DEF BudgetInv
  <2>1. OpenTries(c) = {}
    BY DEF OpenTries, RpcInit
  <2>2. Cardinality(OpenTries(c)) = 0
    BY <2>1, FS_EmptySet
  <2> QED
    BY <2>2 DEF RpcInit
<1>3. \A c \in RpcCalls : Taken(accepted)[c] = 0
  BY RpcAssumption DEF RpcInit, Taken
<1>4. DOMAIN Taken(accepted) = RpcCalls
  BY DEF Taken
<1>5. TakenInv
  BY <1>3, <1>4, TotalZero DEF TakenInv, RpcInit
<1> QED
  BY <1>1, <1>2, <1>5 DEF RpcInv

(* An open attempt is one that was begun.                                  *)
LEMMA OpenTriesFinite ==
    ASSUME RpcType, NEW c \in RpcCalls
    PROVE  IsFiniteSet(OpenTries(c)) /\ Cardinality(OpenTries(c)) \in Nat
<1>1. IsFiniteSet(1 .. tries[c])
  BY FS_Interval DEF RpcType
<1>2. OpenTries(c) \subseteq 1 .. tries[c]
  BY DEF OpenTries
<1>3. IsFiniteSet(OpenTries(c))
  BY <1>1, <1>2, FS_Subset
<1> QED
  BY <1>3, FS_CardinalityType

(* With fewer open attempts the budget still holds.                        *)
LEMMA BudgetKept ==
    ASSUME RpcType, BudgetInv, UNCHANGED <<tries, accepted>>,
           \A c \in RpcCalls : OpenTries(c)' \subseteq OpenTries(c),
           \A c \in RpcCalls : result'[c] = "8" => result[c] = "8"
    PROVE  BudgetInv'
<1> SUFFICES ASSUME NEW c \in RpcCalls PROVE
      accepted'[c] + Cardinality(OpenTries(c)') + (IF result'[c] = "8" THEN 1 ELSE 0) <= tries'[c]
  BY DEF BudgetInv
<1> DEFINE A == OpenTries(c)
           B == OpenTries(c)'
<1>1. IsFiniteSet(A) /\ Cardinality(A) \in Nat
  BY OpenTriesFinite
<1>2. B \subseteq A
  OBVIOUS
<1> HIDE DEF A, B
<1>3. IsFiniteSet(B) /\ Cardinality(B) <= Cardinality(A)
  BY <1>1, <1>2, FS_Subset
<1>4. Cardinality(B) \in Nat
  BY <1>3, FS_CardinalityType
<1>5. accepted[c] + Cardinality(A) + (IF result[c] = "8" THEN 1 ELSE 0) <= tries[c]
  BY DEF BudgetInv, A
<1>6. accepted'[c] + Cardinality(B) + (IF result'[c] = "8" THEN 1 ELSE 0) <= tries'[c]
  BY <1>1, <1>3, <1>4, <1>5 DEF RpcType
<1> QED
  BY <1>6 DEF B

(* Steps of the client that send and receive nothing.                      *)
LEMMA RpcClientWaits ==
    ASSUME RpcInv, NEW c \in RpcCalls, Invoke(c) \/ Pause(c) \/ GiveUp(c)
    PROVE  RpcInv'
<1> USE DEF RpcInv
<1>1. UNCHANGED <<tries, requests, replies, serviceVars>>
  BY DEF Invoke, Pause, GiveUp
<1>2. /\ callAt[c] # "over"
      /\ \/ /\ UNCHANGED result
            /\ \/ callAt' = [callAt EXCEPT ![c] = "send"] /\ callAt[c] \in {"idle", "backoff"}
               \/ callAt' = [callAt EXCEPT ![c] = "backoff"] /\ tries[c] <= maxRetries
         \/ /\ callAt' = [callAt EXCEPT ![c] = "over"]
            /\ \E r \in {"ctx", "error"} : result' = [result EXCEPT ![c] = r]
  BY DEF Invoke, Pause, GiveUp, AttemptFails, CallTo, InvokeReturns
<1>3. RpcType'
  BY <1>1, <1>2 DEF RpcType, RpcResults, serviceVars
<1>4. TriesInv'
  BY <1>1, <1>2, RpcAssumption DEF RpcType, TriesInv
<1>5. AttemptsInv' /\ RepliesInv' /\ TakenInv'
  BY <1>1 DEF AttemptsInv, RepliesInv, TrueOf, TakenInv, Taken, serviceVars
<1>6. BudgetInv'
  <2>1. \A d \in RpcCalls : OpenTries(d)' \subseteq OpenTries(d)
    BY <1>1 DEF OpenTries
  <2>2. \A d \in RpcCalls : result'[d] = "8" => result[d] = "8"
    BY <1>2 DEF RpcType
  <2> QED
    BY <1>1, <2>1, <2>2, BudgetKept DEF serviceVars
<1>7. ResultsInv'
  BY <1>1, <1>2 DEF RpcType, ResultsInv, TrueOf, serviceVars
<1> QED
  BY <1>3, <1>4, <1>5, <1>6, <1>7

(* The client sends the next attempt.                                      *)
LEMMA RpcClientSends ==
    ASSUME RpcInv, NEW c \in RpcCalls, SendRequest(c)
    PROVE  RpcInv'
<1> USE DEF RpcInv
<1> DEFINE n == tries[c] + 1
           q == [call |-> c, try |-> n]
<1>1. /\ callAt[c] = "send" /\ tries' = [tries EXCEPT ![c] = n] /\ requests' = requests \cup {q}
      /\ callAt' = [callAt EXCEPT ![c] = "wait"] /\ UNCHANGED <<result, replies, serviceVars>>
      /\ tries[c] \in Nat /\ n \in Nat \ {0} /\ tries[c] <= maxRetries
  BY DEF SendRequest, CallTo, RpcType, TriesInv
<1>2. \A d \in RpcCalls : d # c => tries'[d] = tries[d]
  BY <1>1 DEF RpcType
<1>3. tries'[c] = n
  BY <1>1 DEF RpcType
<1>4. RpcType'
  BY <1>1 DEF RpcType, serviceVars
<1>5. TriesInv'
  BY <1>1, RpcAssumption DEF RpcType, TriesInv
<1>6. AttemptsInv'
  <2>1. \A r \in requests' : r.try <= tries'[r.call]
    BY <1>1, <1>2, <1>3 DEF AttemptsInv, RpcType
  <2>2. \A p \in replies' : p.try <= tries'[p.call]
    BY <1>1, <1>2, <1>3 DEF AttemptsInv, RpcType
  <2>3. \A p \in replies : p.call = c => p.try # n
    BY <1>1 DEF AttemptsInv, RpcType
  <2>4. \A r \in requests', p \in replies' : ~(r.call = p.call /\ r.try = p.try)
    BY <1>1, <2>3 DEF AttemptsInv
  <2> QED
    BY <1>1, <2>1, <2>2, <2>4 DEF AttemptsInv
<1>7. BudgetInv'
  <2> SUFFICES ASSUME NEW d \in RpcCalls PROVE
        accepted'[d] + Cardinality(OpenTries(d)') + (IF result'[d] = "8" THEN 1 ELSE 0) <= tries'[d]
    BY DEF BudgetInv
  <2>1. accepted[d] + Cardinality(OpenTries(d)) + (IF result[d] = "8" THEN 1 ELSE 0) <= tries[d]
    BY DEF BudgetInv
  <2>2. IsFiniteSet(OpenTries(d)) /\ Cardinality(OpenTries(d)) \in Nat
    BY OpenTriesFinite
  <2>3. accepted'[d] = accepted[d] /\ result'[d] = result[d] /\ accepted[d] \in Nat
    BY <1>1 DEF serviceVars, RpcType
  <2>4. CASE d # c
    <3>1. OpenTries(d)' = OpenTries(d)
      BY <1>1, <1>2, <2>4 DEF OpenTries
    <3> QED
      BY <1>2, <2>1, <2>3, <2>4, <3>1
  <2>5. CASE d = c
    <3>1. OpenTries(c)' = OpenTries(c) \cup {n}
      <4>1. 1 .. n = (1 .. tries[c]) \cup {n}
        BY <1>1
      <4>2. q \in requests'
        BY <1>1
      <4>3. \A m \in 1 .. tries[c] : [call |-> c, try |-> m] \in requests'
                                       <=> [call |-> c, try |-> m] \in requests
        BY <1>1
      <4> HIDE DEF n
      <4> QED
        BY <1>1, <1>3, <4>1, <4>2, <4>3 DEF OpenTries
    <3>2. n \notin OpenTries(c)
      BY <1>1 DEF OpenTries
    <3> HIDE DEF n
    <3>3. Cardinality(OpenTries(c)') = Cardinality(OpenTries(c)) + 1
      BY <2>2, <2>5, <3>1, <3>2, FS_AddElement
    <3> QED
      BY <1>1, <1>3, <2>1, <2>2, <2>3, <2>5, <3>3 DEF n
  <2> QED
    BY <2>4, <2>5
<1>8. RepliesInv' /\ TakenInv'
  BY <1>1 DEF RepliesInv, TrueOf, TakenInv, Taken, serviceVars
<1>9. ResultsInv'
  BY <1>1 DEF RpcType, ResultsInv, TrueOf, serviceVars
<1> QED
  BY <1>4, <1>5, <1>6, <1>7, <1>8, <1>9

(* The client takes the answer to its current attempt.                     *)
LEMMA RpcClientReceives ==
    ASSUME RpcInv, NEW c \in RpcCalls, Receive(c)
    PROVE  RpcInv'
<1> USE DEF RpcInv
<1>1. PICK p \in replies :
        /\ p.call = c /\ p.try = tries[c] /\ replies' = replies \ {p}
        /\ \/ p.status \notin {"none", "0"} /\ InvokeReturns(c, p.status)
           \/ p.status \in {"none", "0"} /\ p.body < 5 /\ AttemptFails(c)
           \/ p.status \in {"none", "0"} /\ p.body >= 5 /\ InvokeReturns(c, "ok")
  BY DEF Receive
<1>2. callAt[c] = "wait" /\ UNCHANGED <<tries, requests, serviceVars>>
  BY DEF Receive
<1>3. p.status \in AnswerStatuses /\ p.body \in Nat
  BY DEF RpcType
<1>4. \/ UNCHANGED result /\ callAt' = [callAt EXCEPT ![c] = "backoff"] /\ tries[c] <= maxRetries
      \/ /\ callAt' = [callAt EXCEPT ![c] = "over"]
         /\ \E r \in RpcResults \ {"none"} :
              /\ result' = [result EXCEPT ![c] = r]
              /\ \/ r = "error"
                 \/ r = "ok" /\ p.status \in {"none", "0"}
                 \/ r = p.status /\ r # "0"
  BY <1>1, <1>3 DEF InvokeReturns, AttemptFails, CallTo, AnswerStatuses, RpcResults
<1>5. RpcType'
  BY <1>1, <1>2, <1>4 DEF RpcType, RpcResults, serviceVars
<1>6. TriesInv'
  BY <1>2, <1>4, RpcAssumption DEF RpcType, TriesInv
<1>7. AttemptsInv' /\ RepliesInv' /\ TakenInv'
  BY <1>1, <1>2 DEF AttemptsInv, RepliesInv, TrueOf, TakenInv, Taken, serviceVars
<1>8. \A d \in RpcCalls : OpenTries(d)' \subseteq OpenTries(d)
  BY <1>1, <1>2 DEF OpenTries
<1>9. BudgetInv'
  <2>1. CASE \A d \in RpcCalls : result'[d] = "8" => result[d] = "8"
    BY <1>2, <1>8, <2>1, BudgetKept DEF serviceVars
  <2>2. CASE ~ \A d \in RpcCalls : result'[d] = "8" => result[d] = "8"
    <3>1. /\ p.status = "8" /\ result' = [result EXCEPT ![c] = "8"]
          /\ result[c] # "8"
      BY <1>2, <1>4, <2>2 DEF RpcType, TriesInv
    <3> SUFFICES ASSUME NEW d \in RpcCalls PROVE
          accepted'[d] + Cardinality(OpenTries(d)') + (IF result'[d] = "8" THEN 1 ELSE 0) <= tries'[d]
      BY DEF BudgetInv
    <3>2. accepted[d] + Cardinality(OpenTries(d)) + (IF result[d] = "8" THEN 1 ELSE 0) <= tries[d]
      BY DEF BudgetInv
    <3>3. IsFiniteSet(OpenTries(d)) /\ Cardinality(OpenTries(d)) \in Nat
      BY OpenTriesFinite
    <3>4. /\ accepted'[d] = accepted[d] /\ accepted[d] \in Nat
          /\ tries'[d] = tries[d] /\ tries[d] \in Nat
      BY <1>2 DEF serviceVars, RpcType
    <3>5. CASE d # c
      <4>1. /\ Cardinality(OpenTries(d)') <= Cardinality(OpenTries(d))
            /\ IsFiniteSet(OpenTries(d)')
        BY <1>8, <3>3, FS_Subset
      <4>2. Cardinality(OpenTries(d)') \in Nat
        BY <4>1, FS_CardinalityType
      <4>3. result'[d] = result[d]
        BY <3>1, <3>5 DEF RpcType
      <4> QED
        BY <3>2, <3>3, <3>4, <4>1, <4>2, <4>3
    <3>6. CASE d = c
      <4>1. tries[c] \in OpenTries(c)
        BY <1>1, <3>1 DEF OpenTries, RpcType
      <4>2. tries[c] \notin OpenTries(c)'
        <5>1. [call |-> c, try |-> tries[c]] \notin requests
          BY <1>1 DEF AttemptsInv
        <5>2. \A r \in replies' : ~(r.call = c /\ r.try = tries[c])
          BY <1>1 DEF AttemptsInv
        <5> QED
          BY <1>2, <5>1, <5>2 DEF OpenTries
      <4>3. OpenTries(c)' \subseteq OpenTries(c) \ {tries[c]}
        BY <1>8, <4>2
      <4>4. /\ IsFiniteSet(OpenTries(c) \ {tries[c]})
            /\ Cardinality(OpenTries(c) \ {tries[c]}) = Cardinality(OpenTries(c)) - 1
        BY <3>3, <3>6, <4>1, FS_RemoveElement
      <4>5. /\ IsFiniteSet(OpenTries(c)')
            /\ Cardinality(OpenTries(c)') <= Cardinality(OpenTries(c) \ {tries[c]})
        BY <4>3, <4>4, FS_Subset
      <4>6. Cardinality(OpenTries(c)') \in Nat
        BY <4>5, FS_CardinalityType
      <4>7. result'[c] = "8"
        BY <3>1 DEF RpcType
      <4> QED
        BY <3>1, <3>2, <3>3, <3>4, <3>6, <4>4, <4>5, <4>6, <4>7
    <3> QED
      BY <3>5, <3>6
  <2> QED
    BY <2>1, <2>2
<1>10. ResultsInv'
  <2>1. Unary(c) => TrueOf(c, p.status, "0")
    BY <1>1 DEF RepliesInv
  <2> QED
    BY <1>2, <1>4, <2>1 DEF RpcType, ResultsInv, TrueOf, serviceVars
<1> QED
  BY <1>5, <1>6, <1>7, <1>9, <1>10

(* The server answers a request, and no other answer speaks of the same    *)
(* attempt.  Unless it refuses, the attempt is not open any more.          *)
LEMMA AttemptAnswered ==
    ASSUME RpcInv, NEW q \in requests, NEW status \in AnswerStatuses, NEW body \in Nat,
           Reply(q, status, body), UNCHANGED <<callAt, tries, result>>
    PROVE  /\ requests' \subseteq [call : RpcCalls, try : Nat \ {0}]
           /\ replies' \subseteq [call : RpcCalls, try : Nat \ {0}, status : AnswerStatuses, body : Nat]
           /\ TriesInv' /\ AttemptsInv'
           /\ \A c \in RpcCalls : OpenTries(c)' \subseteq OpenTries(c)
           /\ status # "8" => q.try \in OpenTries(q.call) /\ q.try \notin OpenTries(q.call)'
           /\ \A p \in replies' : p \in replies \/ (p.call = q.call /\ p.status = status)
<1> USE DEF RpcInv
<1> DEFINE a == [call |-> q.call, try |-> q.try, status |-> status, body |-> body]
<1>1. requests' = requests \ {q} /\ replies' = replies \cup {a}
  BY DEF Reply
<1>2. /\ q = [call |-> q.call, try |-> q.try] /\ q.call \in RpcCalls /\ q.try \in Nat \ {0}
      /\ q.try \in 1 .. tries[q.call]
  BY DEF RpcType, AttemptsInv
<1>3. a.call = q.call /\ a.try = q.try /\ a.status = status
  OBVIOUS
<1>4. /\ requests' \subseteq [call : RpcCalls, try : Nat \ {0}]
      /\ replies' \subseteq [call : RpcCalls, try : Nat \ {0}, status : AnswerStatuses, body : Nat]
  BY <1>1, <1>2 DEF RpcType
<1> HIDE DEF a
<1>5. TriesInv'
  BY DEF TriesInv
<1>6. \A r \in requests : r.call = q.call /\ r.try = q.try => r = q
  BY <1>2 DEF RpcType
<1>7. AttemptsInv'
  <2>1. \A r \in requests' : r.try <= tries'[r.call]
    BY <1>1 DEF AttemptsInv
  <2>2. \A p \in replies' : p.try <= tries'[p.call]
    BY <1>1, <1>3 DEF AttemptsInv
  <2>3. \A r \in requests', p \in replies' : ~(r.call = p.call /\ r.try = p.try)
    BY <1>1, <1>3, <1>6 DEF AttemptsInv
  <2>4. \A p, r \in replies' : p.call = r.call /\ p.try = r.try => p = r
    BY <1>1, <1>3 DEF AttemptsInv
  <2> QED
    BY <2>1, <2>2, <2>3, <2>4 DEF AttemptsInv
<1>8. \A c \in RpcCalls : OpenTries(c)' \subseteq OpenTries(c)
  <2> SUFFICES ASSUME NEW c \in RpcCalls, NEW n \in OpenTries(c)' PROVE n \in OpenTries(c)
    OBVIOUS
  <2>1. n \in 1 .. tries[c]
    BY DEF OpenTries
  <2>2. CASE [call |-> c, try |-> n] \in requests'
    BY <1>1, <2>1, <2>2 DEF OpenTries
  <2>3. ASSUME NEW p \in replies', p.call = c, p.try = n, p.status = "8"
        PROVE  n \in OpenTries(c)
    <3>1. CASE p \in replies
      BY <2>1, <2>3, <3>1 DEF OpenTries
    <3>2. CASE p = a
      BY <1>2, <1>3, <2>1, <2>3, <3>2 DEF OpenTries
    <3> QED
      BY <1>1, <3>1, <3>2
  <2> QED
    BY <2>2, <2>3 DEF OpenTries
<1>9. ASSUME status # "8"
      PROVE  q.try \in OpenTries(q.call) /\ q.try \notin OpenTries(q.call)'
  <2>1. q.try \in OpenTries(q.call)
    BY <1>2 DEF OpenTries
  <2>2. [call |-> q.call, try |-> q.try] \notin requests'
    BY <1>1, <1>2
  <2>3. \A p \in replies' : p.call = q.call /\ p.try = q.try => p.status # "8"
    BY <1>1, <1>3, <1>9 DEF AttemptsInv
  <2> QED
    BY <2>1, <2>2, <2>3 DEF OpenTries
<1>10. \A p \in replies' : p \in replies \/ (p.call = q.call /\ p.status = status)
  BY <1>1, <1>3
<1> QED
  BY <1>4, <1>5, <1>7, <1>8, <1>9, <1>10

(* An answer that takes nothing: early returns, refusals and streams.      *)
LEMMA RpcAnswersOnly ==
    ASSUME RpcInv, NEW q \in requests, NEW status \in AnswerStatuses, NEW body \in Nat,
           Reply(q, status, body), UNCHANGED <<callAt, tries, result, accepted, rpcReceived>>,
           rpcRejected' \in Nat, rpcRejected' >= rpcRejected,
           Unary(q.call) => \/ q.call.frame # "good" /\ status = "3"
                            \/ /\ q.call.frame = "good" /\ status = "8"
                               /\ rpcRejected' >= q.call.spans
    PROVE  RpcInv'
<1> USE DEF RpcInv
<1>1. /\ requests' \subseteq [call : RpcCalls, try : Nat \ {0}]
      /\ replies' \subseteq [call : RpcCalls, try : Nat \ {0}, status : AnswerStatuses, body : Nat]
      /\ TriesInv' /\ AttemptsInv'
      /\ \A c \in RpcCalls : OpenTries(c)' \subseteq OpenTries(c)
      /\ \A p \in replies' : p \in replies \/ (p.call = q.call /\ p.status = status)
  BY AttemptAnswered
<1>2. RpcType'
  BY <1>1 DEF RpcType
<1>3. BudgetInv'
  BY <1>1, BudgetKept
<1>4. \A c \in RpcCalls : c.spans \in Nat
  BY RpcAssumption
<1>5. rpcRejected \in Nat /\ \A p \in replies : p.call \in RpcCalls
  BY DEF RpcType
<1>6. RepliesInv'
  <2> SUFFICES ASSUME NEW p \in replies', Unary(p.call) PROVE TrueOf(p.call, p.status, "0")'
    BY DEF RepliesInv
  <2>1. CASE p \in replies
    BY <1>4, <1>5, <2>1 DEF RepliesInv, TrueOf
  <2>2. CASE p.call = q.call /\ p.status = status
    BY <2>2 DEF TrueOf
  <2> QED
    BY <1>1, <2>1, <2>2
<1>7. ResultsInv'
  BY <1>4, <1>5 DEF ResultsInv, TrueOf
<1>8. TakenInv'
  BY DEF TakenInv, Taken
<1> QED
  BY <1>1, <1>2, <1>3, <1>6, <1>7, <1>8

(* The consumer takes the payload.                                         *)
LEMMA RpcTakes ==
    ASSUME RpcInv, NEW q \in requests, Reply(q, "0", 5), UNCHANGED <<callAt, tries, result>>,
           Unary(q.call), q.call.frame = "good",
           accepted' = [accepted EXCEPT ![q.call] = accepted[q.call] + 1],
           rpcReceived' = rpcReceived + q.call.spans, UNCHANGED rpcRejected
    PROVE  RpcInv'
<1> USE DEF RpcInv
<1> DEFINE k == q.call
<1>1. /\ requests' \subseteq [call : RpcCalls, try : Nat \ {0}]
      /\ replies' \subseteq [call : RpcCalls, try : Nat \ {0}, status : AnswerStatuses, body : Nat]
      /\ TriesInv' /\ AttemptsInv'
      /\ \A c \in RpcCalls : OpenTries(c)' \subseteq OpenTries(c)
      /\ q.try \in OpenTries(k) /\ q.try \notin OpenTries(k)'
      /\ \A p \in replies' : p \in replies \/ (p.call = k /\ p.status = "0")
  BY AttemptAnswered DEF AnswerStatuses
<1>2. k \in RpcCalls /\ k.spans \in Nat
  BY RpcAssumption DEF RpcType
<1>3. accepted'[k] = accepted[k] + 1 /\ \A c \in RpcCalls : c # k => accepted'[c] = accepted[c]
  BY <1>2 DEF RpcType
<1>4. Unary(k) /\ k.frame = "good"
  OBVIOUS
<1>5. accepted \in [RpcCalls -> Nat] /\ tries \in [RpcCalls -> Nat]
  BY DEF RpcType
<1> HIDE DEF k
<1>6. \A c \in RpcCalls : accepted'[c] \in Nat /\ accepted'[c] >= accepted[c]
  BY <1>2, <1>3, <1>5
<1>7. RpcType'
  BY <1>1, <1>2, <1>5 DEF RpcType, k
<1>8. BudgetInv'
  <2> SUFFICES ASSUME NEW c \in RpcCalls PROVE
        accepted'[c] + Cardinality(OpenTries(c)') + (IF result'[c] = "8" THEN 1 ELSE 0) <= tries'[c]
    BY DEF BudgetInv
  <2>1. accepted[c] + Cardinality(OpenTries(c)) + (IF result[c] = "8" THEN 1 ELSE 0) <= tries[c]
    BY DEF BudgetInv
  <2>2. IsFiniteSet(OpenTries(c)) /\ Cardinality(OpenTries(c)) \in Nat
    BY OpenTriesFinite
  <2>3. /\ IsFiniteSet(OpenTries(c)') /\ Cardinality(OpenTries(c)') <= Cardinality(OpenTries(c))
    BY <1>1, <2>2, FS_Subset
  <2>4. Cardinality(OpenTries(c)') \in Nat
    BY <2>3, FS_CardinalityType
  <2>5. CASE c # k
    BY <1>3, <1>5, <2>1, <2>2, <2>3, <2>4, <2>5
  <2>6. CASE c = k
    <3>1. Cardinality(OpenTries(c)') # Cardinality(OpenTries(c))
      BY <1>1, <2>2, <2>6, FS_Subset
    <3> QED
      BY <1>3, <1>5, <2>1, <2>2, <2>3, <2>4, <2>6, <3>1
  <2> QED
    BY <2>5, <2>6
<1>9. \A p \in replies : p.call \in RpcCalls
  BY DEF RpcType
<1>10. RepliesInv'
  <2> SUFFICES ASSUME NEW p \in replies', Unary(p.call) PROVE TrueOf(p.call, p.status, "0")'
    BY DEF RepliesInv
  <2>1. CASE p \in replies
    BY <1>5, <1>6, <1>9, <2>1 DEF RepliesInv, TrueOf
  <2>2. CASE p.call = k /\ p.status = "0"
    BY <1>2, <1>3, <1>4, <1>5, <2>2 DEF TrueOf
  <2> QED
    BY <1>1, <2>1, <2>2
<1>11. ResultsInv'
  <2> SUFFICES ASSUME NEW c \in RpcCalls
               PROVE  /\ accepted'[c] > 0 => Unary(c) /\ c.frame = "good"
                      /\ Unary(c) /\ callAt'[c] = "over" =>
                            result'[c] \in {"ctx", "error"} \/ TrueOf(c, result[c], "ok")'
    BY DEF ResultsInv
  <2>1. accepted'[c] > 0 => Unary(c) /\ c.frame = "good"
    BY <1>3, <1>4, <1>5 DEF ResultsInv
  <2>2. Unary(c) /\ callAt'[c] = "over" =>
          result'[c] \in {"ctx", "error"} \/ TrueOf(c, result[c], "ok")'
    BY <1>5, <1>6 DEF ResultsInv, TrueOf
  <2> QED
    BY <2>1, <2>2
<1>12. TakenInv'
  <2> DEFINE f == Taken(accepted)
             g == Taken(accepted')
             n == k.spans
             m == accepted[k]
  <2>1. /\ DOMAIN f = RpcCalls /\ DOMAIN g = RpcCalls
        /\ \A c \in RpcCalls : c # k => g[c] = f[c]
        /\ f[k] = m * n /\ g[k] = (m + 1) * n
    BY <1>2, <1>3 DEF Taken
  <2>2. m \in Nat /\ n \in Nat
    BY <1>2, <1>5
  <2>3. IsFiniteSet(UnitsOf(f)) /\ rpcReceived = Total(f) /\ rpcReceived' = rpcReceived + n
    BY DEF TakenInv, k
  <2> HIDE DEF f, g, m, n
  <2>4. (m + 1) * n = m * n + n /\ m * n \in Nat /\ (m + 1) * n \in Nat
    BY <2>2
  <2>5. /\ IsFiniteSet(UnitsOf(g)) /\ Total(f) \in Nat
        /\ Total(g) = Total(f) - f[k] + g[k]
    BY <1>2, <2>1, <2>3, <2>4, TotalUpdate
  <2>6. Total(g) = Total(f) + n
    BY <2>1, <2>2, <2>4, <2>5
  <2> QED
    BY <2>3, <2>5, <2>6 DEF TakenInv, g
<1> QED
  BY <1>1, <1>7, <1>8, <1>10, <1>11, <1>12

(* Requests and answers that get lost.                                     *)
LEMMA RpcLoses ==
    ASSUME RpcInv, requests' \subseteq requests, replies' \subseteq replies,
           UNCHANGED <<callAt, tries, result, serviceVars>>
    PROVE  RpcInv'
<1> USE DEF RpcInv
<1>1. RpcType' /\ TriesInv' /\ AttemptsInv'
  BY DEF RpcType, TriesInv, AttemptsInv, serviceVars
<1>2. \A c \in RpcCalls : OpenTries(c)' \subseteq OpenTries(c)
  BY DEF OpenTries
<1>3. BudgetInv'
  BY <1>2, BudgetKept DEF serviceVars
<1>4. RepliesInv' /\ ResultsInv' /\ TakenInv'
  BY DEF RepliesInv, ResultsInv, TrueOf, TakenInv, Taken, serviceVars
<1> QED
  BY <1>1, <1>3, <1>4

(* A step of the server or of the network.                                 *)
LEMMA RpcServerStep ==
    ASSUME RpcInv, NEW q \in requests, TurnAway(q) \/ Serve(q) \/ Stream(q) \/ LoseRequest(q)
    PROVE  RpcInv'
<1>1. q.call \in RpcCalls /\ q.call.spans \in Nat /\ rpcRejected \in Nat
  BY RpcAssumption DEF RpcInv, RpcType
<1>2. CASE TurnAway(q)
  <2>1. UNCHANGED <<callAt, tries, result, accepted, rpcReceived, rpcRejected>>
    BY <1>2 DEF TurnAway, serviceVars
  <2>2. \E status \in AnswerStatuses, body \in Nat :
          /\ Reply(q, status, body)
          /\ Unary(q.call) => q.call.frame # "good" /\ status = "3"
    BY <1>2 DEF TurnAway, Turn, AnswerStatuses, Unary
  <2> QED
    BY <1>1, <2>1, <2>2, RpcAnswersOnly
<1>3. CASE Serve(q)
  <2>1. UNCHANGED <<callAt, tries, result>> /\ Unary(q.call)
    BY <1>3 DEF Serve, Reaches, Unary
  <2>2. CASE q.call.frame = "malformed" /\ Reply(q, "3", 0) /\ UNCHANGED serviceVars
    <3>1. UNCHANGED <<accepted, rpcReceived, rpcRejected>> /\ "3" \in AnswerStatuses /\ 0 \in Nat
      BY <2>2 DEF serviceVars, AnswerStatuses
    <3> QED
      BY <1>1, <2>1, <2>2, <3>1, RpcAnswersOnly
  <2>3. CASE /\ q.call.frame = "good" /\ Reply(q, "8", 0)
             /\ rpcRejected' = rpcRejected + q.call.spans /\ UNCHANGED <<accepted, rpcReceived>>
    <3>1. /\ rpcRejected' \in Nat /\ rpcRejected' >= rpcRejected /\ rpcRejected' >= q.call.spans
          /\ "8" \in AnswerStatuses /\ 0 \in Nat
      BY <1>1, <2>3 DEF AnswerStatuses
    <3> QED
      BY <2>1, <2>3, <3>1, RpcAnswersOnly
  <2>4. CASE /\ q.call.frame = "good" /\ Reply(q, "0", 5)
             /\ accepted' = [accepted EXCEPT ![q.call] = @ + 1]
             /\ rpcReceived' = rpcReceived + q.call.spans /\ UNCHANGED rpcRejected
    BY <2>1, <2>4, RpcTakes
  <2> QED
    BY <1>3, <2>2, <2>3, <2>4 DEF Serve
<1>4. CASE Stream(q)
  <2>1. /\ UNCHANGED <<callAt, tries, result, accepted, rpcReceived, rpcRejected>>
        /\ ~Unary(q.call)
    BY <1>4 DEF Stream, Reaches, Unary, serviceVars
  <2>2. \E status \in AnswerStatuses, body \in Nat : Reply(q, status, body)
    BY <1>4 DEF Stream, AnswerStatuses
  <2> QED
    BY <1>1, <2>1, <2>2, RpcAnswersOnly
<1>5. CASE LoseRequest(q)
  BY <1>5, RpcLoses DEF LoseRequest
<1> QED
  BY <1>2, <1>3, <1>4, <1>5

(* What Invoke returns over TLS is true of the services, for any number of *)
(* calls and retries and whatever requests and answers the network loses   *)
(* or delays: an attempt is taken once at most, a call has maxRetries + 1  *)
(* of them, and the counter of received spans agrees with what was taken.  *)
THEOREM RpcCallsAccountedFor == RpcSpec => []CallsAreAccountedFor
<1>1. RpcInv /\ [RpcNext]_rpcVars => RpcInv'
  <2> SUFFICES ASSUME RpcInv, [RpcNext]_rpcVars PROVE RpcInv'
    OBVIOUS
  <2>1. CASE UNCHANGED rpcVars
    BY <2>1, RpcLoses DEF rpcVars, serviceVars
  <2>2. ASSUME NEW c \in RpcCalls,
               Invoke(c) \/ Pause(c) \/ SendRequest(c) \/ GiveUp(c) \/ Receive(c)
        PROVE  RpcInv'
    BY <2>2, RpcClientWaits, RpcClientSends, RpcClientReceives
  <2>3. ASSUME NEW p \in replies, LoseReply(p) PROVE RpcInv'
    BY <2>3, RpcLoses DEF LoseReply
  <2> QED
    BY <2>1, <2>2, <2>3, RpcServerStep DEF RpcNext
<1>2. RpcInv => CallsAreAccountedFor
  <2> SUFFICES ASSUME RpcInv PROVE CallsAreAccountedFor
    OBVIOUS
  <2>1. ASSUME NEW c \in RpcCalls
        PROVE  /\ accepted[c] <= tries[c] /\ tries[c] <= maxRetries + 1
               /\ result[c] = "8" => accepted[c] < tries[c]
    <3>1. Cardinality(OpenTries(c)) \in Nat
      BY OpenTriesFinite DEF RpcInv
    <3>2. accepted[c] + Cardinality(OpenTries(c)) + (IF result[c] = "8" THEN 1 ELSE 0) <= tries[c]
      BY DEF RpcInv, BudgetInv
    <3>3. accepted[c] \in Nat /\ tries[c] \in Nat
      BY DEF RpcInv, RpcType
    <3> QED
      BY <3>1, <3>2, <3>3 DEF RpcInv, TriesInv
  <2>2. ASSUME NEW c \in RpcCalls, Over(c), Unary(c)
        PROVE  /\ result[c] = "ok" => accepted[c] >= 1
               /\ result[c] \in {"3", "12"} => accepted[c] = 0
               /\ result[c] = "3" <=> c.frame # "good" /\ result[c] \notin {"ctx", "error"}
               /\ result[c] = "8" => rpcRejected >= c.spans
    <3>1. accepted[c] \in Nat
      BY DEF RpcInv, RpcType
    <3>2. accepted[c] > 0 => c.frame = "good"
      BY DEF RpcInv, ResultsInv
    <3>3. result[c] \in {"ctx", "error"} \/ TrueOf(c, result[c], "ok")
      BY <2>2 DEF RpcInv, ResultsInv, Over
    <3> QED
      BY <3>1, <3>2, <3>3 DEF TrueOf
  <2>3. rpcReceived = Total([c \in RpcCalls |-> accepted[c] * c.spans])
    BY DEF RpcInv, TakenInv, Taken
  <2> QED
    BY <2>1, <2>2, <2>3 DEF CallsAreAccountedFor, Unary
<1> QED
  BY <1>1, <1>2, RpcInvInit, PTL DEF RpcSpec

-----------------------------------------------------------------------------
(* Sampling strategies and their file *)

SamplingType ==
    /\ file \in Contents /\ strategies \in Good
    /\ loading \in [Loaders -> Good \cup {Missing}]
    /\ polling \in Contents /\ firstRead \in Contents \cup {NoHash}
    /\ delivered \in Seq(Contents)
    /\ \A s \in DOMAIN window : window[s] \in Nat
    /\ recorderAt \in [Recorders -> SamplingServices \cup {"out"}]
    /\ recorded \in Nat /\ computed \in Nat

(* The watcher polls only after its first read.                            *)
FirstReadInv == firstRead = NoHash => delivered = << >> /\ polling = Missing

RatesInv == \A s \in DOMAIN probabilities : probabilities[s] \in 1 .. RateScale

(* Recorders that have counted a span and not found its window.            *)
Waiting == {r \in Recorders : recorderAt[r] # "out"}

WindowInv ==
    /\ IsFiniteSet(Waiting) /\ IsFiniteSet(UnitsOf(window))
    /\ recorded = computed + Total(window) + Cardinality(Waiting)

SamplingInv == SamplingType /\ FirstReadInv /\ WatcherInStep /\ RatesInv /\ WindowInv

(* A sequence of contents with the watcher's hash.                         *)
InStep(seen, hash) ==
    /\ \A i \in 1 .. Len(seen) - 1 : seen[i] # seen[i + 1]
    /\ hash = IF seen = << >> THEN NoHash ELSE hashContent(Last(seen))

First == IF firstRead \in {NoHash, Missing} THEN << >> ELSE <<firstRead>>

LEMMA WatcherParts ==
    /\ WatcherInStep <=> InStep(First \o delivered, lastHash)
    /\ WatcherInStep' <=> InStep(First' \o delivered', lastHash')
  BY DEF WatcherInStep, InStep, First

(* onChange is called with a content other than the last one.              *)
LEMMA InStepAppend ==
    ASSUME NEW seen \in Seq(Contents), NEW hash, InStep(seen, hash), NEW c \in Contents,
           hashContent(c) # hash
    PROVE  InStep(Append(seen, c), hashContent(c))
<1> DEFINE t == Append(seen, c)
           n == Len(seen)
<1>1. /\ n \in Nat /\ Len(t) = n + 1 /\ t[n + 1] = c
      /\ \A i \in 1 .. n : t[i] = seen[i]
  BY AppendProperties
<1>2. t # << >> /\ Last(t) = c
  BY FrontOfAppend
<1>3. n > 0 => seen[n] # c
  <2> SUFFICES ASSUME n > 0 PROVE seen[n] # c
    OBVIOUS
  <2>1. seen # << >>
    BY EmptySeq
  <2>2. Last(seen) = seen[n]
    BY DEF Last
  <2> QED
    BY <2>1, <2>2 DEF InStep
<1> HIDE DEF t
<1>4. \A i \in 1 .. Len(t) - 1 : t[i] # t[i + 1]
  <2> SUFFICES ASSUME NEW i \in 1 .. n PROVE t[i] # t[i + 1]
    BY <1>1
  <2>1. CASE i = n
    BY <1>1, <1>3, <2>1
  <2>2. CASE i # n
    <3>1. i \in 1 .. Len(seen) - 1 /\ i + 1 \in 1 .. n
      BY <1>1, <2>2
    <3>2. seen[i] # seen[i + 1]
      BY <3>1 DEF InStep
    <3> QED
      BY <1>1, <3>1, <3>2
  <2> QED
    BY <2>1, <2>2
<1> QED
  BY <1>2, <1>4 DEF InStep, t

LEMMA SamplingInvInit == SamplingInit => SamplingInv
<1> SUFFICES ASSUME SamplingInit PROVE SamplingInv
  OBVIOUS
<1>1. SamplingType /\ FirstReadInv /\ RatesInv
  BY SamplingAssumption DEF SamplingInit, SamplingType, FirstReadInv, RatesInv, Good
<1>2. WatcherInStep
  <2>1. First = << >> /\ delivered = << >> /\ lastHash = NoHash
    BY DEF First, SamplingInit
  <2>2. << >> \o << >> = << >> /\ Len(<< >>) = 0
    BY EmptySeq, ConcatEmptySeq
  <2>3. InStep(<< >>, NoHash)
    BY <2>2 DEF InStep
  <2> QED
    BY <2>1, <2>2, <2>3, WatcherParts
<1>3. Waiting = {}
  BY DEF Waiting, SamplingInit
<1>4. IsFiniteSet(UnitsOf(window)) /\ Total(window) = 0
  BY TotalZero DEF SamplingInit
<1>5. WindowInv
  BY <1>3, <1>4, FS_EmptySet DEF WindowInv, SamplingInit
<1> QED
  BY <1>1, <1>2, <1>5 DEF SamplingInv

(* What a step leaves alone.                                               *)
LEMMA SamplingAside ==
    /\ FirstReadInv /\ WatcherInStep /\ UNCHANGED watcherVars => FirstReadInv' /\ WatcherInStep'
    /\ RatesInv /\ WindowInv /\ UNCHANGED engineVars => RatesInv' /\ WindowInv'
<1>1. FirstReadInv /\ UNCHANGED watcherVars => FirstReadInv'
  BY DEF FirstReadInv, watcherVars
<1>2. WatcherInStep /\ UNCHANGED watcherVars => WatcherInStep'
  BY DEF WatcherInStep, watcherVars
<1>3. RatesInv /\ WindowInv /\ UNCHANGED engineVars => RatesInv' /\ WindowInv'
  BY DEF RatesInv, WindowInv, Waiting, engineVars
<1> QED
  BY <1>1, <1>2, <1>3

(* The file and its loaders.                                               *)
LEMMA SamplingLoads ==
    ASSUME SamplingInv,
           \/ \E c \in Contents : EditFile(c)
           \/ \E l \in Loaders : LoadRead(l) \/ LoadStore(l)
    PROVE  SamplingInv'
<1>1. UNCHANGED watcherVars /\ UNCHANGED engineVars
  BY DEF EditFile, LoadRead, LoadStore
<1>2. SamplingType'
  <2>1. UNCHANGED <<polling, firstRead, delivered, window, recorderAt, recorded, computed>>
    BY <1>1 DEF watcherVars, engineVars
  <2>2. ASSUME NEW l \in Loaders, LoadStore(l) PROVE strategies' \in Good
    BY <2>2 DEF LoadStore, SamplingInv, SamplingType
  <2> QED
    BY <2>1, <2>2 DEF EditFile, LoadRead, LoadStore, SamplingInv, SamplingType, providerVars
<1> QED
  BY <1>1, <1>2, SamplingAside DEF SamplingInv

(* The watcher.                                                            *)
LEMMA SamplingWatches ==
    ASSUME SamplingInv, WatchBegin \/ CheckRead \/ CheckCompare
    PROVE  SamplingInv'
<1> USE DEF SamplingInv
<1>1. UNCHANGED engineVars /\ UNCHANGED providerVars /\ file' = file
  BY DEF WatchBegin, CheckRead, CheckCompare
<1>2. RatesInv' /\ WindowInv'
  BY <1>1, SamplingAside
<1>3. /\ UNCHANGED <<window, recorderAt, recorded, computed, strategies, loading, file>>
      /\ delivered \in Seq(Contents) /\ polling \in Contents /\ file \in Contents
  BY <1>1 DEF engineVars, providerVars, SamplingType
<1>4. First \in Seq(Contents)
  BY DEF First, SamplingType
<1>5. CASE WatchBegin
  <2>1. /\ firstRead = NoHash /\ firstRead' = file /\ UNCHANGED <<polling, delivered>>
        /\ lastHash' = IF file = Missing THEN NoHash ELSE hashContent(file)
    BY <1>5 DEF WatchBegin
  <2>2. delivered = << >> /\ file # NoHash /\ Missing # NoHash
    BY <1>3, <2>1, SamplingAssumption DEF FirstReadInv
  <2>3. SamplingType' /\ FirstReadInv'
    BY <1>3, <2>1, <2>2 DEF SamplingType, FirstReadInv
  <2>4. First' = IF file = Missing THEN << >> ELSE <<file>>
    BY <2>1, <2>2 DEF First
  <2>5. First' \o delivered' = First'
    <3>1. First' \in Seq(Contents)
      BY <1>3, <2>4
    <3> QED
      BY <2>1, <2>2, <3>1, ConcatEmptySeq
  <2>6. Len(<<file>>) = 1 /\ Last(<<file>>) = file /\ <<file>> # << >> /\ Len(<< >>) = 0
    BY EmptySeq DEF Last
  <2>7. InStep(First', lastHash')
    <3>1. CASE file = Missing
      BY <2>1, <2>4, <2>6, <3>1 DEF InStep
    <3>2. CASE file # Missing
      <4>1. First' = <<file>> /\ lastHash' = hashContent(file)
        BY <2>1, <2>4, <3>2
      <4>2. InStep(<<file>>, hashContent(file))
        BY <2>6 DEF InStep
      <4> QED
        BY <4>1, <4>2
    <3> QED
      BY <3>1, <3>2
  <2>8. WatcherInStep'
    BY <2>5, <2>7, WatcherParts
  <2> QED
    BY <1>2, <2>3, <2>8
<1>6. CASE CheckRead
  <2>1. SamplingType' /\ FirstReadInv'
    BY <1>3, <1>6 DEF CheckRead, SamplingType, FirstReadInv
  <2>2. WatcherInStep'
    BY <1>6 DEF CheckRead, WatcherInStep
  <2> QED
    BY <1>2, <2>1, <2>2
<1>7. CASE CheckCompare
  <2> DEFINE h == hashContent(polling)
             seen == First \o delivered
  <2>1. /\ polling # Missing /\ lastHash' = h /\ firstRead' = firstRead /\ polling' = Missing
        /\ delivered' = IF h # lastHash THEN Append(delivered, polling) ELSE delivered
    BY <1>7 DEF CheckCompare
  <2>2. delivered' \in Seq(Contents)
    BY <1>3, <2>1, AppendProperties
  <2>3. SamplingType'
    BY <1>3, <2>1, <2>2, SamplingAssumption DEF SamplingType
  <2>4. FirstReadInv'
    BY <2>1 DEF FirstReadInv
  <2>5. First' = First /\ InStep(seen, lastHash)
    BY <2>1, WatcherParts DEF First
  <2>6. WatcherInStep'
    <3>1. CASE h = lastHash
      BY <2>1, <2>5, <3>1, WatcherParts
    <3>2. CASE h # lastHash
      <4>1. First' \o delivered' = Append(seen, polling)
        BY <1>3, <1>4, <2>1, <2>5, <3>2, ConcatAppend
      <4>2. seen \in Seq(Contents)
        BY <1>3, <1>4, ConcatProperties
      <4>3. InStep(Append(seen, polling), h)
        BY <1>3, <2>5, <3>2, <4>2, InStepAppend
      <4> QED
        BY <2>1, <4>1, <4>3, WatcherParts
    <3> QED
      BY <3>1, <3>2
  <2> QED
    BY <1>2, <2>3, <2>4, <2>6
<1> QED
  BY <1>5, <1>6, <1>7

(* One span more in a window, which may be new.                            *)
LEMMA WindowCounts ==
    ASSUME SamplingType, IsFiniteSet(UnitsOf(window)), NEW s, window' = Counted(s)
    PROVE  /\ IsFiniteSet(UnitsOf(window')) /\ Total(window) \in Nat
           /\ Total(window') = Total(window) + 1
           /\ \A x \in DOMAIN window' : window'[x] \in Nat
<1>1. /\ DOMAIN window' = DOMAIN window \cup {s}
      /\ \A x \in DOMAIN window : x # s => window'[x] = window[x]
      /\ window'[s] = IF s \in DOMAIN window THEN window[s] + 1 ELSE 1
  BY DEF Counted, WindowOr, SamplingType
<1>2. \A x \in DOMAIN window : window[x] \in Nat
  BY DEF SamplingType
<1>3. CASE s \in DOMAIN window
  <2>1. DOMAIN window \cup {s} = DOMAIN window
    BY <1>3
  <2>2. DOMAIN window' = DOMAIN window /\ window'[s] = window[s] + 1
    BY <1>1, <1>3, <2>1, Zenon
  <2>3. window[s] \in Nat /\ window'[s] \in Nat
    BY <1>2, <1>3, <2>2
  <2>4. /\ IsFiniteSet(UnitsOf(window')) /\ Total(window) \in Nat
        /\ Total(window') = Total(window) - window[s] + window'[s]
    BY <1>1, <1>3, <2>2, <2>3, TotalUpdate
  <2>5. Total(window') = Total(window) + 1
    BY <2>2, <2>3, <2>4
  <2> QED
    BY <1>1, <1>2, <2>2, <2>3, <2>4, <2>5
<1>4. CASE s \notin DOMAIN window
  <2>1. window'[s] = 1 /\ window'[s] \in Nat /\ \A x \in DOMAIN window : window'[x] = window[x]
    BY <1>1, <1>4
  <2>2. /\ IsFiniteSet(UnitsOf(window')) /\ Total(window) \in Nat
        /\ Total(window') = Total(window) + window'[s]
    BY <1>1, <1>4, <2>1, TotalSplit
  <2> QED
    BY <1>1, <1>2, <2>1, <2>2
<1> QED
  BY <1>3, <1>4

(* RecordSpan.                                                             *)
LEMMA SamplingRecords ==
    ASSUME SamplingInv, NEW r \in Recorders,
           RecordCreates(r) \/ \E s \in SamplingServices : RecordSpan(r, s)
    PROVE  SamplingInv'
<1> USE DEF SamplingInv
<1>1. UNCHANGED watcherVars /\ UNCHANGED <<file, providerVars, probabilities>>
  BY DEF RecordCreates, RecordSpan
<1>2. FirstReadInv' /\ WatcherInStep' /\ RatesInv'
  BY <1>1, SamplingAside DEF RatesInv
<1>3. UNCHANGED <<file, strategies, loading, polling, firstRead, delivered, computed>>
  BY <1>1 DEF watcherVars, providerVars, RecordCreates, RecordSpan
<1>4. /\ IsFiniteSet(UnitsOf(window)) /\ IsFiniteSet(Waiting)
      /\ recorded = computed + Total(window) + Cardinality(Waiting)
      /\ recorded \in Nat /\ computed \in Nat /\ Cardinality(Waiting) \in Nat
  BY FS_CardinalityType DEF WindowInv, SamplingType
<1>5. Total(window) \in Nat
  BY <1>4, FS_CardinalityType DEF Total
<1>6. ASSUME NEW s \in SamplingServices, s \in DOMAIN window, RecordSpan(r, s)
      PROVE  SamplingInv'
  <2>1. window' = Counted(s) /\ recorderAt' = recorderAt /\ recorded' = recorded + 1
    BY <1>6 DEF RecordSpan
  <2>2. /\ IsFiniteSet(UnitsOf(window')) /\ Total(window') = Total(window) + 1
        /\ \A x \in DOMAIN window' : window'[x] \in Nat
    BY <1>4, <2>1, WindowCounts
  <2>3. Waiting' = Waiting
    BY <2>1 DEF Waiting
  <2>4. WindowInv'
    BY <1>3, <1>4, <1>5, <2>1, <2>2, <2>3 DEF WindowInv
  <2>5. SamplingType'
    BY <1>3, <1>4, <2>1, <2>2 DEF SamplingType
  <2> QED
    BY <1>2, <2>4, <2>5
<1>7. ASSUME NEW s \in SamplingServices, s \notin DOMAIN window, RecordSpan(r, s)
      PROVE  SamplingInv'
  <2>1. /\ window' = window /\ recorderAt' = [recorderAt EXCEPT ![r] = s] /\ recorded' = recorded + 1
        /\ recorderAt[r] = "out" /\ s # "out"
    BY <1>7, SamplingAssumption DEF RecordSpan
  <2>2. Waiting' = Waiting \cup {r} /\ r \notin Waiting
    BY <2>1 DEF Waiting, SamplingType
  <2>3. IsFiniteSet(Waiting') /\ Cardinality(Waiting') = Cardinality(Waiting) + 1
    BY <1>4, <2>2, FS_AddElement
  <2>4. WindowInv'
    BY <1>3, <1>4, <1>5, <2>1, <2>3 DEF WindowInv
  <2>5. SamplingType'
    BY <1>3, <1>4, <2>1 DEF SamplingType
  <2> QED
    BY <1>2, <2>4, <2>5
<1>8. CASE RecordCreates(r)
  <2>1. /\ window' = Counted(recorderAt[r]) /\ recorderAt' = [recorderAt EXCEPT ![r] = "out"]
        /\ recorded' = recorded /\ recorderAt[r] # "out"
    BY <1>8 DEF RecordCreates
  <2>2. /\ IsFiniteSet(UnitsOf(window')) /\ Total(window') = Total(window) + 1
        /\ \A x \in DOMAIN window' : window'[x] \in Nat
    BY <1>4, <2>1, WindowCounts
  <2>3. Waiting' = Waiting \ {r} /\ r \in Waiting
    BY <2>1 DEF Waiting, SamplingType
  <2>4. IsFiniteSet(Waiting') /\ Cardinality(Waiting') = Cardinality(Waiting) - 1
    BY <1>4, <2>3, FS_RemoveElement
  <2>5. WindowInv'
    BY <1>3, <1>4, <1>5, <2>1, <2>2, <2>4 DEF WindowInv
  <2>6. SamplingType'
    BY <1>3, <1>4, <2>1, <2>2 DEF SamplingType
  <2> QED
    BY <1>2, <2>5, <2>6
<1> QED
  BY <1>6, <1>7, <1>8

(* The bounds of a rate.                                                   *)
LEMMA ClampBounds ==
    ASSUME NEW n \in Int
    PROVE  Clamp(n) \in 1 .. RateScale
<1>1. RateScale \in Nat \ {0}
  BY SamplingAssumption
<1>2. \E x \in {1, n} : \A y \in {1, n} : x >= y
  OBVIOUS
<1>3. Max({1, n}) \in {1, n} /\ \A y \in {1, n} : Max({1, n}) >= y
  BY <1>2 DEF Max
<1> DEFINE m == Max({1, n})
<1>4. m \in Int /\ m >= 1
  BY <1>3
<1> HIDE DEF m
<1>5. \E x \in {RateScale, m} : \A y \in {RateScale, m} : x <= y
  BY <1>1, <1>4
<1>6. Min({RateScale, m}) \in {RateScale, m} /\ \A y \in {RateScale, m} : Min({RateScale, m}) <= y
  BY <1>5 DEF Min
<1>7. Min({RateScale, m}) \in 1 .. RateScale
  BY <1>1, <1>4, <1>6
<1> QED
  BY <1>7 DEF Clamp, m

(* Compute.                                                                *)
LEMMA SamplingComputes ==
    ASSUME SamplingInv, Compute
    PROVE  SamplingInv'
<1> USE DEF SamplingInv
<1>1. /\ UNCHANGED watcherVars
      /\ UNCHANGED <<file, strategies, loading, polling, firstRead, delivered, recorderAt, recorded>>
      /\ window' = [s \in DOMAIN window |-> 0] /\ computed' = computed + Total(window)
  BY DEF Compute, watcherVars, providerVars
<1>2. FirstReadInv' /\ WatcherInStep'
  BY <1>1, SamplingAside
<1>3. /\ IsFiniteSet(UnitsOf(window)) /\ IsFiniteSet(Waiting)
      /\ recorded = computed + Total(window) + Cardinality(Waiting)
      /\ recorded \in Nat /\ computed \in Nat /\ Cardinality(Waiting) \in Nat
  BY FS_CardinalityType DEF WindowInv, SamplingType
<1>4. Total(window) \in Nat
  BY <1>3, FS_CardinalityType DEF Total
<1>5. IsFiniteSet(UnitsOf(window')) /\ Total(window') = 0
  BY <1>1, TotalZero
<1>6. Waiting' = Waiting
  BY <1>1 DEF Waiting
<1>7. WindowInv'
  BY <1>1, <1>3, <1>4, <1>5, <1>6 DEF WindowInv
<1>8. SamplingType'
  <2>1. \A s \in DOMAIN window' : window'[s] \in Nat
    BY <1>1
  <2> QED
    BY <1>1, <1>3, <1>4, <2>1 DEF SamplingType
<1>9. RatesInv'
  <2> DEFINE seen == {s \in DOMAIN window : window[s] > 0}
  <2>1. probabilities' = [s \in DOMAIN probabilities \cup seen |->
                             IF s \in seen THEN NewRate(s) ELSE probabilities[s]]
    BY DEF Compute
  <2>2. ASSUME NEW s \in seen PROVE NewRate(s) \in 1 .. RateScale
    <3> DEFINE current == IF s \in DOMAIN probabilities THEN probabilities[s] ELSE RateScale
               desired == (RateScale * TargetRate) \div window[s]
    <3>1. RateScale \in Nat /\ TargetRate \in Nat /\ window[s] \in Nat \ {0}
      BY SamplingAssumption DEF SamplingType
    <3>2. current \in Int
      BY <3>1 DEF RatesInv
    <3>3. RateScale * TargetRate \in Int
      BY <3>1
    <3>4. desired \in Int
      BY <3>1, <3>3
    <3> HIDE DEF current, desired
    <3>5. (7 * current + 3 * desired) \div 10 \in Int
      BY <3>2, <3>4
    <3> QED
      BY <3>5, ClampBounds DEF NewRate, current, desired
  <2> HIDE DEF seen
  <2> QED
    BY <2>1, <2>2 DEF RatesInv
<1> QED
  BY <1>2, <1>7, <1>8, <1>9

(* GetSamplingStrategy finds an entry of the service if there is one.      *)
LEMMA StrategyOfService ==
    ASSUME strategies \in Good, NEW s, NEW ss \in Range(Strategies(strategies)), ss.service = s
    PROVE  \E sr \in Range(Strategies(strategies)) :
              sr.service = s /\ sr.strategy = GetSamplingStrategy(s)
<1> DEFINE entries == Strategies(strategies)
           of == {i \in DOMAIN entries : entries[i].service = s}
<1>1. strategies \in Contents
  BY DEF Good
<1>2. Len(entries) \in Nat /\ DOMAIN entries = 1 .. Len(entries)
  BY <1>1, SamplingAssumption
<1>3. of # {} /\ of \subseteq Nat
  BY <1>2 DEF Range
<1>4. \E m \in of : \A n \in of : m <= n
  BY <1>3, LeastNatural
<1>5. Min(of) \in of
  BY <1>4 DEF Min
<1>6. GetSamplingStrategy(s) = entries[Min(of)].strategy
  BY <1>3 DEF GetSamplingStrategy
<1>7. entries[Min(of)] \in Range(entries) /\ entries[Min(of)].service = s
  BY <1>5 DEF Range
<1> QED
  BY <1>6, <1>7

(* The watcher reports every change once and its hash is that of what it   *)
(* has reported last; a query is answered from one whole good file; and    *)
(* the engine's windows lose no span: for any contents of the file, edits, *)
(* loaders and recorders, in any order.                                    *)
THEOREM SamplingInStep == SamplingSpec => []SamplingKeepsUp
<1>1. SamplingInv /\ [SamplingNext]_samplingVars => SamplingInv'
  <2> SUFFICES ASSUME SamplingInv, [SamplingNext]_samplingVars PROVE SamplingInv'
    OBVIOUS
  <2>1. CASE UNCHANGED samplingVars
    <3>1. UNCHANGED watcherVars /\ UNCHANGED engineVars
      BY <2>1 DEF samplingVars
    <3>2. SamplingType'
      BY <2>1 DEF SamplingInv, SamplingType, samplingVars, watcherVars, engineVars, providerVars
    <3> QED
      BY <3>1, <3>2, SamplingAside DEF SamplingInv
  <2>2. CASE SamplingNext
    BY <2>2, SamplingLoads, SamplingWatches, SamplingRecords, SamplingComputes DEF SamplingNext
  <2> QED
    BY <2>1, <2>2
<1>2. SamplingInv => SamplingKeepsUp
  <2> SUFFICES ASSUME SamplingInv PROVE SamplingKeepsUp
    OBVIOUS
  <2>1. strategies \in Good
    BY DEF SamplingInv, SamplingType
  <2>2. \A s \in SamplingServices : \A ss \in Range(Strategies(strategies)) :
          ss.service = s => \E sr \in Range(Strategies(strategies)) :
                                sr.service = s /\ sr.strategy = GetSamplingStrategy(s)
    BY <2>1, StrategyOfService
  <2>3. recorded = computed + Total(window) + Cardinality({r \in Recorders : recorderAt[r] # "out"})
    BY DEF SamplingInv, WindowInv, Waiting
  <2> QED
    BY <2>1, <2>2, <2>3 DEF SamplingKeepsUp, SamplingInv, RatesInv
<1> QED
  BY <1>1, <1>2, SamplingInvInit, PTL DEF SamplingSpec

-----------------------------------------------------------------------------
(* The Go SDK *)

(* Tables and sequences of the tracer, the exporter and its callers.       *)
SdkType ==
    /\ tracerSpans \in Seq(SdkSpans) /\ pendingSpans \in Seq(SdkSpans)
    /\ where \in [Stoppers -> {"out", "export", "flush", "build", "post", "last",
                               "lastbuild", "lastpost"}]
    /\ hand \in [Stoppers -> Seq(SdkSpans)]
    /\ Started \subseteq SdkSpans /\ \A s \in Started : version[s] \in 0 .. MaxVersion
    /\ ended \subseteq Started /\ failed \subseteq Started
    /\ DOMAIN built = Stoppers /\ built = [c \in Stoppers |-> built[c]]
    /\ version = [s \in Started |-> version[s]]

(* Every span is in one place.                                             *)
SpansApart == \A c, d \in Stoppers : c # d => Holds(c) \cap Holds(d) = {}
PlacesInv ==
    /\ Started = ToSet(tracerSpans) \cup ToSet(pendingSpans) \cup Held \cup DOMAIN posted \cup failed
    /\ ToSet(tracerSpans) \cap (ToSet(pendingSpans) \cup Held \cup DOMAIN posted \cup failed) = {}
    /\ ToSet(pendingSpans) \cap (Held \cup DOMAIN posted \cup failed) = {}
    /\ Held \cap (DOMAIN posted \cup failed) = {}
    /\ DOMAIN posted \cap failed = {}
    /\ IsInjective(tracerSpans) /\ IsInjective(pendingSpans)
    /\ \A c \in Stoppers : IsInjective(hand[c]) /\ ToSet(hand[c]) \cap DOMAIN built[c] = {}
    /\ SpansApart

(* What a caller holds goes with where it is; who has appended to pending  *)
(* has a flush before it.                                                  *)
CallerInv ==
    \A c \in Stoppers :
        /\ where[c] \in {"out", "flush", "last", "post", "lastpost"} => hand[c] = << >>
        /\ where[c] \in {"build", "lastbuild"} => hand[c] # << >>
        /\ where[c] \in {"out", "export", "flush", "last"} => DOMAIN built[c] = {}
FlushAhead == pendingSpans # << >> => \E c \in Stoppers : where[c] \in {"flush", "last"}

(* What was taken has the version it had or a later one, wherever it is.   *)
DueInv ==
    /\ \A s \in DOMAIN dueVersion : /\ s \in Started /\ dueVersion[s] \in 0 .. MaxVersion
                                    /\ dueVersion[s] <= version[s]
    /\ ToSet(pendingSpans) \cup Held \cup DOMAIN posted \subseteq DOMAIN dueVersion
    /\ \A c \in Stoppers : \A s \in DOMAIN built[c] :
          built[c][s] \in Nat /\ built[c][s] >= dueVersion[s]
    /\ \A s \in DOMAIN posted : posted[s] \in Nat /\ posted[s] >= dueVersion[s]

SdkInv == SdkType /\ PlacesInv /\ CallerInv /\ FlushAhead /\ DueInv

(* The SDK's property follows.                                             *)
LEMMA SdkInvSuffices ==
    ASSUME SdkInv PROVE SdkLeavesNothingBehind
<1>1. SdkTypeOK
  BY DEF SdkInv, SdkType, SdkTypeOK, PlacesInv
<1>2. \A c, d \in Stoppers : /\ IsInjective(hand[c])
                             /\ ToSet(hand[c]) \cap DOMAIN built[c] = {}
                             /\ c # d => Holds(c) \cap Holds(d) = {}
  BY DEF SdkInv, PlacesInv, SpansApart
<1>3. (\A c \in Stoppers : where[c] = "out") => pendingSpans = << >>
  BY DEF SdkInv, FlushAhead
<1>4. \A s \in DOMAIN posted : posted[s] >= dueVersion[s]
  BY DEF SdkInv, DueInv
<1> QED
  BY <1>1, <1>2, <1>3, <1>4 DEF SdkInv, PlacesInv, SdkLeavesNothingBehind

(* What one caller changes of what all hold.                               *)
LEMMA HeldSplit ==
    ASSUME NEW c \in Stoppers, SpansApart,
           \A d \in Stoppers : d # c => hand'[d] = hand[d] /\ built'[d] = built[d]
    PROVE  \E rest : /\ Held = Holds(c) \cup rest /\ Held' = Holds(c)' \cup rest
                     /\ Holds(c) \cap rest = {}
                     /\ (Holds(c)' \cap rest = {}) => SpansApart'
<1> DEFINE rest == UNION {Holds(d) : d \in Stoppers \ {c}}
<1>1. \A d \in Stoppers : d # c => Holds(d)' = Holds(d)
  BY DEF Holds
<1>2. Held = Holds(c) \cup rest
  BY DEF Held
<1>3. Held' = Holds(c)' \cup rest
  BY <1>1 DEF Held
<1>4. Holds(c) \cap rest = {}
  BY DEF SpansApart
<1>5. (Holds(c)' \cap rest = {}) => SpansApart'
  BY <1>1 DEF SpansApart
<1> QED
  BY <1>2, <1>3, <1>4, <1>5

LEMMA SdkInitially ==
    ASSUME SdkInit PROVE SdkInv
<1> USE DEF SdkInit
<1>1. DOMAIN NoSpans = {} /\ Started = {} /\ DOMAIN posted = {} /\ DOMAIN dueVersion = {}
  BY DEF NoSpans, Started
<1>2. << >> \in Seq(SdkSpans) /\ ToSet(<< >>) = {} /\ IsInjective(<< >>)
  BY DEF ToSet, IsInjective
<1>3. \A c \in Stoppers : /\ hand[c] = << >> /\ DOMAIN built[c] = {} /\ Holds(c) = {}
                          /\ where[c] = "out"
  BY <1>1, <1>2 DEF Holds
<1>4. Held = {}
  BY <1>3 DEF Held
<1>5. version = [s \in Started |-> version[s]]
  BY DEF NoSpans, Started
<1>6. SdkType
  BY <1>1, <1>2, <1>5 DEF SdkType
<1>7. PlacesInv
  BY <1>1, <1>2, <1>3, <1>4 DEF PlacesInv, SpansApart
<1>8. CallerInv /\ FlushAhead
  BY <1>3 DEF CallerInv, FlushAhead
<1>9. DueInv
  BY <1>1, <1>2, <1>3, <1>4 DEF DueInv
<1> QED
  BY <1>6, <1>7, <1>8, <1>9 DEF SdkInv

(* The application's own calls.                                            *)
LEMMA SdkSpanCalls ==
    ASSUME SdkInv, NEW s \in SdkSpans, StartSpan(s) \/ ChangeSpan(s) \/ EndSpan(s)
    PROVE  SdkInv'
<1> USE DEF SdkInv
<1>1. /\ pendingSpans' = pendingSpans /\ where' = where /\ hand' = hand /\ built' = built
      /\ dueVersion' = dueVersion /\ posted' = posted /\ failed' = failed
  BY DEF StartSpan, ChangeSpan, EndSpan
<1>2. Held' = Held /\ SpansApart' /\ CallerInv' /\ FlushAhead'
  BY SMTT(30), <1>1 DEF Held, Holds, SpansApart, PlacesInv, CallerInv, FlushAhead
<1>3. MaxVersion \in Nat
  BY SdkAssumption
<1>4. CASE StartSpan(s)
  <2>1. /\ s \notin Started /\ tracerSpans' = Append(tracerSpans, s) /\ ended' = ended
        /\ Started' = Started \cup {s} /\ version'[s] = 0
        /\ \A x \in Started : version'[x] = version[x]
        /\ version' = [x \in Started' |-> version'[x]]
    BY <1>4 DEF StartSpan, WithEntry, Started
  <2>2. tracerSpans' \in Seq(SdkSpans) /\ ToSet(tracerSpans') = ToSet(tracerSpans) \cup {s}
    BY <2>1, AppendProperties, ToSetAppend DEF SdkType
  <2>3. IsInjective(tracerSpans')
    BY <2>1, InjectiveAppend DEF SdkType, PlacesInv
  <2>4. \A x \in Started' : version'[x] \in 0 .. MaxVersion
    BY <1>3, <2>1 DEF SdkType
  <2>5. SdkType'
    BY <1>1, <2>1, <2>2, <2>4 DEF SdkType
  <2>6. PlacesInv'
    BY <1>1, <1>2, <2>1, <2>2, <2>3 DEF PlacesInv
  <2>7. DueInv'
    BY <1>1, <1>2, <2>1 DEF DueInv
  <2> QED
    BY <1>2, <2>5, <2>6, <2>7
<1>5. CASE ChangeSpan(s)
  <2>1. /\ tracerSpans' = tracerSpans /\ ended' = ended
        /\ s \in Started /\ version[s] < MaxVersion
        /\ version' = [version EXCEPT ![s] = @ + 1]
    BY <1>5 DEF ChangeSpan
  <2>2. /\ Started' = Started /\ version' = [x \in Started' |-> version'[x]]
        /\ \A x \in Started : version'[x] = IF x = s THEN version[s] + 1 ELSE version[x]
    BY <2>1 DEF SdkType, Started
  <2>3. \A x \in Started : version'[x] \in 0 .. MaxVersion /\ version[x] <= version'[x]
    BY <1>3, <2>1, <2>2 DEF SdkType
  <2>4. SdkType'
    BY <1>1, <2>1, <2>2, <2>3 DEF SdkType
  <2>5. PlacesInv'
    BY <1>1, <1>2, <2>1, <2>2 DEF PlacesInv
  <2>6. \A x \in DOMAIN dueVersion : dueVersion[x] <= version'[x]
    <3> TAKE x \in DOMAIN dueVersion
    <3>1. x \in Started /\ dueVersion[x] \in Int /\ dueVersion[x] <= version[x]
      BY <1>3 DEF DueInv
    <3>2. version[x] \in Int /\ version'[x] \in Int /\ version[x] <= version'[x]
      BY <1>3, <2>3, <3>1 DEF SdkType
    <3> QED
      BY <3>1, <3>2
  <2>7. DueInv'
    BY <1>1, <1>2, <2>2, <2>6 DEF DueInv
  <2> QED
    BY <1>2, <2>4, <2>5, <2>7
<1>6. CASE EndSpan(s)
  <2>1. /\ tracerSpans' = tracerSpans /\ version' = version /\ Started' = Started
        /\ ended' = ended \cup {s} /\ s \in Started
    BY <1>6 DEF EndSpan, Started
  <2>2. SdkType' /\ PlacesInv' /\ DueInv'
    BY <1>1, <1>2, <2>1 DEF SdkType, PlacesInv, DueInv
  <2> QED
    BY <1>2, <2>2
<1> QED
  BY <1>4, <1>5, <1>6

(* Tracer.Shutdown takes the spans.                                        *)
LEMMA SdkTakes ==
    ASSUME SdkInv, NEW c \in Stoppers, TakeTracerSpans(c)
    PROVE  SdkInv'
<1> USE DEF SdkInv
<1> DEFINE T == ToSet(tracerSpans)
<1>1. /\ where[c] = "out" /\ pendingSpans' = pendingSpans /\ built' = built
      /\ version' = version /\ ended' = ended /\ posted' = posted /\ failed' = failed
      /\ tracerSpans' = << >>
      /\ hand'[c] = tracerSpans /\ \A d \in Stoppers : d # c => hand'[d] = hand[d]
      /\ where'[c] \in {"last", "export"} /\ (where'[c] = "last" => tracerSpans = << >>)
      /\ \A d \in Stoppers : d # c => where'[d] = where[d]
  BY DEF TakeTracerSpans, SdkType
<1>2. Started' = Started /\ << >> \in Seq(SdkSpans) /\ ToSet(<< >>) = {} /\ IsInjective(<< >>)
  BY <1>1 DEF Started, ToSet, IsInjective
<1>3. hand[c] = << >> /\ DOMAIN built[c] = {} /\ Holds(c) = {} /\ Holds(c)' = T
  BY <1>1, <1>2 DEF CallerInv, Holds
<1>4. PICK rest : /\ Held = Holds(c) \cup rest /\ Held' = Holds(c)' \cup rest
                  /\ Holds(c) \cap rest = {}
                  /\ (Holds(c)' \cap rest = {}) => SpansApart'
  BY <1>1, HeldSplit DEF PlacesInv
<1>5. Held' = T \cup Held /\ T \cap Held = {} /\ SpansApart'
  BY <1>3, <1>4 DEF PlacesInv
<1>6. SdkType'
  <2>1. hand' \in [Stoppers -> Seq(SdkSpans)]
    BY DEF TakeTracerSpans, SdkType
  <2>2. where' \in [Stoppers -> {"out", "export", "flush", "build", "post", "last",
                                 "lastbuild", "lastpost"}]
    BY DEF TakeTracerSpans, SdkType
  <2> QED
    BY <1>1, <1>2, <2>1, <2>2 DEF SdkType
<1>7. PlacesInv'
  <2>1. \A d \in Stoppers : IsInjective(hand'[d]) /\ ToSet(hand'[d]) \cap DOMAIN built'[d] = {}
    BY <1>1, <1>3 DEF PlacesInv
  <2> QED
    BY <1>1, <1>2, <1>5, <2>1 DEF PlacesInv
<1>8. CallerInv'
  BY <1>1, <1>3 DEF CallerInv
<1>9. FlushAhead'
  BY <1>1 DEF FlushAhead
<1>10. DueInv'
  <2>1. /\ DOMAIN dueVersion' = DOMAIN dueVersion \cup T
        /\ \A s \in DOMAIN dueVersion : dueVersion'[s] = dueVersion[s]
        /\ \A s \in T : s \notin DOMAIN dueVersion => dueVersion'[s] = version[s]
    BY DEF TakeTracerSpans, Joined
  <2>2. T \subseteq Started
    BY DEF PlacesInv
  <2>3. \A s \in DOMAIN dueVersion' : /\ s \in Started /\ dueVersion'[s] \in 0 .. MaxVersion
                                      /\ dueVersion'[s] <= version[s]
    <3> TAKE s \in DOMAIN dueVersion'
    <3>1. CASE s \in DOMAIN dueVersion
      BY <2>1, <3>1 DEF DueInv
    <3>2. CASE s \notin DOMAIN dueVersion
      <4>1. s \in Started /\ dueVersion'[s] = version[s]
        BY <2>1, <2>2, <3>2
      <4>2. version[s] \in 0 .. MaxVersion /\ MaxVersion \in Nat
        BY <4>1, SdkAssumption DEF SdkType
      <4> QED
        BY <4>1, <4>2
    <3> QED
      BY <3>1, <3>2
  <2>4. \A d \in Stoppers : DOMAIN built[d] \subseteq DOMAIN dueVersion
    BY DEF DueInv, Held, Holds
  <2> QED
    BY <1>1, <1>2, <1>5, <2>1, <2>3, <2>4 DEF DueInv
<1> QED
  BY <1>6, <1>7, <1>8, <1>9, <1>10

(* Export appends what the caller took.                                    *)
LEMMA SdkExports ==
    ASSUME SdkInv, NEW c \in Stoppers, SdkExport(c)
    PROVE  SdkInv'
<1> USE DEF SdkInv
<1>1. /\ where[c] = "export" /\ tracerSpans' = tracerSpans /\ built' = built
      /\ version' = version /\ ended' = ended /\ posted' = posted /\ failed' = failed
      /\ dueVersion' = dueVersion /\ pendingSpans' = pendingSpans \o hand[c]
      /\ hand'[c] = << >> /\ \A d \in Stoppers : d # c => hand'[d] = hand[d]
      /\ where'[c] \in {"last", "flush"} /\ \A d \in Stoppers : d # c => where'[d] = where[d]
  BY DEF SdkExport, SdkType
<1>2. /\ Started' = Started /\ << >> \in Seq(SdkSpans) /\ ToSet(<< >>) = {} /\ IsInjective(<< >>)
      /\ hand[c] \in Seq(SdkSpans)
  BY <1>1 DEF Started, ToSet, IsInjective, SdkType
<1>3. /\ DOMAIN built[c] = {} /\ Holds(c) = ToSet(hand[c]) /\ Holds(c)' = {}
  BY <1>1, <1>2 DEF CallerInv, Holds
<1>4. PICK rest : /\ Held = Holds(c) \cup rest /\ Held' = Holds(c)' \cup rest
                  /\ Holds(c) \cap rest = {}
                  /\ (Holds(c)' \cap rest = {}) => SpansApart'
  BY <1>1, HeldSplit DEF PlacesInv
<1>5. /\ pendingSpans' \in Seq(SdkSpans)
      /\ ToSet(pendingSpans') = ToSet(pendingSpans) \cup ToSet(hand[c])
  BY <1>1, <1>2, ConcatProperties, ToSetConcat DEF SdkType
<1>6. ToSet(pendingSpans) \cap ToSet(hand[c]) = {}
  BY <1>3, <1>4 DEF PlacesInv
<1>7. IsInjective(pendingSpans')
  BY <1>1, <1>2, <1>6, InjectiveConcat DEF SdkType, PlacesInv
<1>8. SdkType'
  <2>1. hand' \in [Stoppers -> Seq(SdkSpans)]
    BY <1>2 DEF SdkExport, SdkType
  <2>2. where' \in [Stoppers -> {"out", "export", "flush", "build", "post", "last",
                                 "lastbuild", "lastpost"}]
    BY DEF SdkExport, SdkType
  <2> QED
    BY <1>1, <1>2, <1>5, <2>1, <2>2 DEF SdkType
<1>9. PlacesInv'
  <2>1. \A d \in Stoppers : IsInjective(hand'[d]) /\ ToSet(hand'[d]) \cap DOMAIN built'[d] = {}
    BY <1>1, <1>2 DEF PlacesInv
  <2> QED
    BY <1>1, <1>2, <1>3, <1>4, <1>5, <1>7, <2>1 DEF PlacesInv
<1>10. CallerInv' /\ FlushAhead'
  BY <1>1, <1>3 DEF CallerInv, FlushAhead
<1>11. DueInv'
  BY <1>1, <1>2, <1>3, <1>4, <1>5 DEF DueInv
<1> QED
  BY <1>8, <1>9, <1>10, <1>11

(* Flush takes what is pending.                                            *)
LEMMA SdkFlushes ==
    ASSUME SdkInv, NEW c \in Stoppers, FlushTake(c)
    PROVE  SdkInv'
<1> USE DEF SdkInv
<1>1. /\ where[c] \in {"flush", "last"} /\ tracerSpans' = tracerSpans
      /\ version' = version /\ ended' = ended /\ posted' = posted /\ failed' = failed
      /\ dueVersion' = dueVersion /\ pendingSpans' = << >>
      /\ hand'[c] = pendingSpans /\ \A d \in Stoppers : d # c => hand'[d] = hand[d]
      /\ built'[c] = NoSpans /\ \A d \in Stoppers : d # c => built'[d] = built[d]
      /\ \A d \in Stoppers : d # c => where'[d] = where[d]
  BY DEF FlushTake, SdkType
<1>2. /\ pendingSpans # << >> => where'[c] \in {"build", "lastbuild"}
      /\ pendingSpans = << >> => where'[c] \in {"last", "out"}
  BY DEF FlushTake, SdkType
<1>3. /\ Started' = Started /\ << >> \in Seq(SdkSpans) /\ ToSet(<< >>) = {} /\ IsInjective(<< >>)
      /\ DOMAIN NoSpans = {}
  BY <1>1 DEF Started, ToSet, IsInjective, NoSpans
<1>4. /\ Holds(c) = {} /\ Holds(c)' = ToSet(pendingSpans)
  BY <1>1, <1>3 DEF CallerInv, Holds
<1>5. PICK rest : /\ Held = Holds(c) \cup rest /\ Held' = Holds(c)' \cup rest
                  /\ Holds(c) \cap rest = {}
                  /\ (Holds(c)' \cap rest = {}) => SpansApart'
  BY <1>1, HeldSplit DEF PlacesInv
<1>6. Held' = ToSet(pendingSpans) \cup Held /\ SpansApart'
  BY <1>4, <1>5 DEF PlacesInv
<1>7. SdkType'
  <2>1. hand' \in [Stoppers -> Seq(SdkSpans)]
    BY DEF FlushTake, SdkType
  <2>2. where' \in [Stoppers -> {"out", "export", "flush", "build", "post", "last",
                                 "lastbuild", "lastpost"}]
    <3>1. where' = [where EXCEPT ![c] = where'[c]]
      BY DEF FlushTake, SdkType
    <3> QED
      BY <1>2, <3>1 DEF SdkType
  <2>3. DOMAIN built' = Stoppers /\ built' = [d \in Stoppers |-> built'[d]]
    BY DEF FlushTake, SdkType
  <2> QED
    BY <1>1, <1>3, <2>1, <2>2, <2>3 DEF SdkType
<1>8. PlacesInv'
  <2>1. \A d \in Stoppers : IsInjective(hand'[d]) /\ ToSet(hand'[d]) \cap DOMAIN built'[d] = {}
    BY <1>1, <1>3 DEF PlacesInv
  <2> QED
    BY <1>1, <1>3, <1>6, <2>1 DEF PlacesInv
<1>9. CallerInv' /\ FlushAhead'
  BY <1>1, <1>2, <1>3 DEF CallerInv, FlushAhead
<1>10. DueInv'
  BY <1>1, <1>3, <1>6 DEF DueInv
<1> QED
  BY <1>7, <1>8, <1>9, <1>10

(* buildPayload takes the next span.                                       *)
LEMMA SdkBuilds ==
    ASSUME SdkInv, NEW c \in Stoppers, BuildOne(c)
    PROVE  SdkInv'
<1> USE DEF SdkInv
<1> DEFINE s == Head(hand[c])
           t == Tail(hand[c])
<1>1. /\ where[c] \in {"build", "lastbuild"} /\ tracerSpans' = tracerSpans
      /\ version' = version /\ ended' = ended /\ posted' = posted /\ failed' = failed
      /\ dueVersion' = dueVersion /\ pendingSpans' = pendingSpans
      /\ hand'[c] = t /\ \A d \in Stoppers : d # c => hand'[d] = hand[d]
      /\ built'[c] = WithEntry(built[c], s, version[s])
      /\ \A d \in Stoppers : d # c => built'[d] = built[d]
      /\ \A d \in Stoppers : d # c => where'[d] = where[d]
  BY DEF BuildOne, SdkType
<1>2. /\ hand[c] \in Seq(SdkSpans) /\ hand[c] # << >> /\ Started' = Started
      /\ IsInjective(hand[c]) /\ ToSet(hand[c]) \cap DOMAIN built[c] = {}
  BY <1>1 DEF Started, SdkType, CallerInv, PlacesInv
<1>3. /\ s \in SdkSpans /\ t \in Seq(SdkSpans) /\ Len(t) = Len(hand[c]) - 1
      /\ ToSet(hand[c]) = {s} \cup ToSet(t) /\ IsInjective(t) /\ s \notin ToSet(t)
      /\ Len(hand[c]) \in Nat
  BY <1>2, ToSetHeadTail, InjectiveTail, LenProperties
<1>4. /\ where'[c] \in {"build", "lastbuild", "post", "lastpost"}
      /\ where'[c] \in {"build", "lastbuild"} <=> t # << >>
  <2>1. where'[c] = IF Len(hand[c]) > 1 THEN where[c]
                    ELSE IF where[c] = "build" THEN "post" ELSE "lastpost"
    BY DEF BuildOne, SdkType
  <2>2. t # << >> <=> Len(hand[c]) > 1
    <3>1. t = << >> <=> Len(t) = 0
      BY <1>3, EmptySeq
    <3>2. Len(t) = 0 <=> ~(Len(hand[c]) > 1)
      <4> DEFINE n == Len(hand[c])
                 m == Len(t)
      <4>1. n # 0 /\ n \in Nat /\ m = n - 1
        BY <1>2, <1>3, EmptySeq
      <4> HIDE DEF n, m
      <4>2. m = 0 <=> ~(n > 1)
        BY <4>1
      <4> QED
        BY <4>2 DEF n, m
    <3> QED
      BY <3>1, <3>2
  <2> QED
    BY <1>1, <2>1, <2>2
<1>5. /\ DOMAIN built'[c] = DOMAIN built[c] \cup {s} /\ built'[c][s] = version[s]
      /\ \A x \in DOMAIN built[c] : x # s => built'[c][x] = built[c][x]
  BY <1>1 DEF WithEntry
<1>6. Holds(c)' = Holds(c)
  BY <1>1, <1>3, <1>5 DEF Holds
<1>7. PICK rest : /\ Held = Holds(c) \cup rest /\ Held' = Holds(c)' \cup rest
                  /\ Holds(c) \cap rest = {}
                  /\ (Holds(c)' \cap rest = {}) => SpansApart'
  BY <1>1, HeldSplit DEF PlacesInv
<1>8. Held' = Held /\ SpansApart'
  BY <1>6, <1>7
<1>9. SdkType'
  <2>1. hand' \in [Stoppers -> Seq(SdkSpans)]
    BY <1>3 DEF BuildOne, SdkType
  <2>2. where' \in [Stoppers -> {"out", "export", "flush", "build", "post", "last",
                                 "lastbuild", "lastpost"}]
    <3>1. where' = [where EXCEPT ![c] = where'[c]]
      BY DEF BuildOne, SdkType
    <3> QED
      BY <1>4, <3>1 DEF SdkType
  <2>3. DOMAIN built' = Stoppers /\ built' = [d \in Stoppers |-> built'[d]]
    BY DEF BuildOne, SdkType
  <2> QED
    BY <1>1, <1>2, <2>1, <2>2, <2>3 DEF SdkType
<1>10. PlacesInv'
  <2>1. \A d \in Stoppers : IsInjective(hand'[d]) /\ ToSet(hand'[d]) \cap DOMAIN built'[d] = {}
    BY <1>1, <1>2, <1>3, <1>5 DEF PlacesInv
  <2> QED
    BY <1>1, <1>2, <1>8, <2>1 DEF PlacesInv
<1>11. CallerInv'
  BY <1>1, <1>4 DEF CallerInv
<1>12. FlushAhead'
  BY <1>1 DEF FlushAhead
<1>13. DueInv'
  <2>1. s \in Held
    BY <1>3 DEF Held, Holds
  <2>2. version[s] \in Nat /\ version[s] >= dueVersion[s]
    <3>1. s \in DOMAIN dueVersion
      BY <2>1 DEF DueInv
    <3>2. s \in Started /\ dueVersion[s] \in 0 .. MaxVersion /\ dueVersion[s] <= version[s]
      BY <3>1 DEF DueInv
    <3>3. version[s] \in 0 .. MaxVersion /\ MaxVersion \in Nat
      BY <3>2, SdkAssumption DEF SdkType
    <3> QED
      BY <3>2, <3>3
  <2>3. \A d \in Stoppers : \A x \in DOMAIN built'[d] :
           built'[d][x] \in Nat /\ built'[d][x] >= dueVersion[x]
    BY <1>1, <1>5, <2>2 DEF DueInv
  <2> QED
    BY <1>1, <1>2, <1>8, <2>3 DEF DueInv
<1> QED
  BY <1>9, <1>10, <1>11, <1>12, <1>13

(* The request is taken, or lost with all its spans.                       *)
LEMMA SdkPosts ==
    ASSUME SdkInv, NEW c \in Stoppers, Post(c)
    PROVE  SdkInv'
<1> USE DEF SdkInv
<1> DEFINE B == DOMAIN built[c]
<1>1. /\ where[c] \in {"post", "lastpost"} /\ tracerSpans' = tracerSpans
      /\ version' = version /\ ended' = ended /\ hand' = hand
      /\ dueVersion' = dueVersion /\ pendingSpans' = pendingSpans
      /\ built'[c] = NoSpans /\ \A d \in Stoppers : d # c => built'[d] = built[d]
      /\ where'[c] \in {"last", "out"} /\ \A d \in Stoppers : d # c => where'[d] = where[d]
  BY DEF Post, SdkType
<1>2. hand[c] = << >> /\ Started' = Started /\ ToSet(<< >>) = {} /\ DOMAIN NoSpans = {}
  BY <1>1 DEF Started, CallerInv, ToSet, NoSpans
<1>3. Holds(c) = B /\ Holds(c)' = {}
  BY <1>1, <1>2 DEF Holds
<1>4. PICK rest : /\ Held = Holds(c) \cup rest /\ Held' = Holds(c)' \cup rest
                  /\ Holds(c) \cap rest = {}
                  /\ (Holds(c)' \cap rest = {}) => SpansApart'
  BY <1>1, HeldSplit DEF PlacesInv
<1>5. /\ Held = B \cup rest /\ Held' = rest /\ B \cap rest = {} /\ SpansApart'
  BY <1>3, <1>4
<1>6. \/ /\ DOMAIN posted' = DOMAIN posted \cup B /\ failed' = failed
         /\ \A s \in DOMAIN posted : posted'[s] = posted[s]
         /\ \A s \in B : s \notin DOMAIN posted => posted'[s] = built[c][s]
      \/ posted' = posted /\ failed' = failed \cup B
  BY DEF Post, Joined
<1>7. SdkType'
  <2>1. where' \in [Stoppers -> {"out", "export", "flush", "build", "post", "last",
                                 "lastbuild", "lastpost"}]
    BY DEF Post, SdkType
  <2>2. DOMAIN built' = Stoppers /\ built' = [d \in Stoppers |-> built'[d]]
    BY DEF Post, SdkType
  <2>3. failed' \subseteq Started
    BY <1>5, <1>6 DEF SdkType, PlacesInv
  <2> QED
    BY <1>1, <1>2, <2>1, <2>2, <2>3 DEF SdkType
<1>8. PlacesInv'
  <2>1. \A d \in Stoppers : IsInjective(hand'[d]) /\ ToSet(hand'[d]) \cap DOMAIN built'[d] = {}
    BY <1>1, <1>2 DEF PlacesInv
  <2> QED
    BY <1>1, <1>2, <1>5, <1>6, <2>1 DEF PlacesInv
<1>9. CallerInv'
  BY <1>1, <1>2 DEF CallerInv
<1>10. FlushAhead'
  BY <1>1 DEF FlushAhead
<1>11. DueInv'
  <2>1. \A s \in DOMAIN posted' : posted'[s] \in Nat /\ posted'[s] >= dueVersion[s]
    BY <1>6 DEF DueInv
  <2>2. \A d \in Stoppers : \A x \in DOMAIN built'[d] :
           built'[d][x] \in Nat /\ built'[d][x] >= dueVersion[x]
    BY <1>1, <1>2 DEF DueInv
  <2> QED
    BY <1>1, <1>2, <1>5, <1>6, <2>1, <2>2 DEF DueInv
<1> QED
  BY <1>7, <1>8, <1>9, <1>10, <1>11

(* However Shutdowns overlap with each other and with the application,     *)
(* every span the Tracer started is in one place, posted at most once and  *)
(* with what was set before it was taken; nothing waits behind.            *)
THEOREM SdkShutdownIsComplete == SdkSpec => []SdkLeavesNothingBehind
<1>1. SdkInit => SdkInv
  BY SdkInitially
<1>2. SdkInv /\ [SdkNext]_sdkVars => SdkInv'
  <2> SUFFICES ASSUME SdkInv, [SdkNext]_sdkVars PROVE SdkInv'
    OBVIOUS
  <2>1. CASE \E s \in SdkSpans : StartSpan(s) \/ ChangeSpan(s) \/ EndSpan(s)
    BY <2>1, SdkSpanCalls
  <2>2. CASE \E c \in Stoppers : TakeTracerSpans(c)
    BY <2>2, SdkTakes
  <2>3. CASE \E c \in Stoppers : SdkStep(c)
    BY <2>3, SdkExports, SdkFlushes, SdkBuilds, SdkPosts DEF SdkStep
  <2>4. CASE UNCHANGED sdkVars
    <3>1. Held' = Held /\ (SpansApart <=> SpansApart') /\ Started' = Started
      BY <2>4 DEF sdkVars, SpansApart, Held, Holds, Started
    <3>2. SdkType' /\ CallerInv' /\ FlushAhead'
      BY <2>4, <3>1 DEF sdkVars, SdkInv, SdkType, CallerInv, FlushAhead
    <3>3. PlacesInv' /\ DueInv'
      BY <2>4, <3>1 DEF sdkVars, SdkInv, PlacesInv, DueInv
    <3> QED
      BY <3>2, <3>3 DEF SdkInv
  <2> QED
    BY <2>1, <2>2, <2>3, <2>4 DEF SdkNext
<1>3. SdkInv => SdkLeavesNothingBehind
  BY SdkInvSuffices
<1> QED
  BY <1>1, <1>2, <1>3, PTL DEF SdkSpec

-----------------------------------------------------------------------------
(* The server *)

(* The spans of some requests; the requests whose payload was queued.      *)
SpansIn(R) == UNION {ToSet(rq.spans) : rq \in R}
QueuedRequests == {rq \in Requests : handlerAt[rq] = "count" \/ answers[rq] = Success(rq)}

HandlerPlaces == {"unsent", "read", "enqueue", "send", "reject", "count", "over"}
MainPlaces == {"starting", "serving", "failed", "receiver", "query", "admin", "draining", "exited"}

ServerType ==
    /\ mainAt \in MainPlaces
    /\ DOMAIN launch = Servers
    /\ handlerAt \in [Requests -> HandlerPlaces]
    /\ answers \in [Requests -> Nat]
    /\ srvQueue \in Seq(Requests)
    /\ consumer \in Seq(SpansIn(Requests)) /\ srvBatch \in Seq(SpansIn(Requests))
    /\ srvStored \in Seq(SpansIn(Requests))
    /\ received \in [Receivers -> Nat] /\ rejected \in [Receivers -> Nat]

(* Only a handler that is over has answered.                               *)
AnswersInv == \A rq \in Requests : handlerAt[rq] # "over" => answers[rq] = 0

(* The process holds the spans of the queued requests, each in one place.  *)
ContentInv ==
    /\ IsInjective(srvQueue) /\ IsInjective(consumer)
    /\ IsInjective(srvBatch) /\ IsInjective(srvStored)
    /\ ToSet(srvQueue) \subseteq QueuedRequests
    /\ Inside = SpansIn(QueuedRequests)
    /\ InQueue \cap (ToSet(consumer) \cup ToSet(srvBatch) \cup ToSet(srvStored)) = {}
    /\ ToSet(consumer) \cap (ToSet(srvBatch) \cup ToSet(srvStored)) = {}
    /\ ToSet(srvBatch) \cap ToSet(srvStored) = {}

(* The counters agree with the answers.                                    *)
CountOf(r, status) ==
    [rq \in Requests |-> IF rq.receiver = r /\ answers[rq] = status THEN Len(rq.spans) ELSE 0]
SuccessOf(r) == IF r = "otlp" THEN 200 ELSE 202
CountersInv ==
    \A r \in Receivers :
        /\ IsFiniteSet(UnitsOf(CountOf(r, SuccessOf(r))))
        /\ received[r] = Total(CountOf(r, SuccessOf(r)))
        /\ IsFiniteSet(UnitsOf(CountOf(r, 429)))
        /\ rejected[r] = IF r = "otlp" THEN Total(CountOf(r, 429)) ELSE 0

(* Once its handlers have returned the receiver takes no other; a consumer *)
(* that has stopped left an empty queue, which is closed.                  *)
DrainInv ==
    /\ mainAt \in {"receiver", "query", "admin", "draining", "exited"} =>
          launch["receiver"] = "closed"
    /\ ~expired /\ mainAt \in {"query", "admin", "draining", "exited"} => Running = {}
    /\ mainAt # "starting" /\ ~consumerUp => srvClosed /\ srvQueue = << >> /\ consumer = << >>
    /\ cancelled => srvClosed
    /\ mainAt = "exited" => ~consumerUp
    /\ ready => mainAt \in {"serving", "failed"}

ServerInv == ServerType /\ AnswersInv /\ ContentInv /\ CountersInv /\ DrainInv

(* Spans of one request and of others.                                     *)
LEMMA SpansOfOthers ==
    ASSUME NEW R, R \subseteq Requests, NEW rq \in Requests
    PROVE  /\ rq \notin R => ToSet(rq.spans) \cap SpansIn(R) = {}
           /\ rq \in R => ToSet(rq.spans) \subseteq SpansIn(R)
           /\ SpansIn(R \cup {rq}) = SpansIn(R) \cup ToSet(rq.spans)
           /\ ToSet(rq.spans) \subseteq SpansIn(Requests)
           /\ rq.spans \in Seq(SpansIn(Requests)) /\ IsInjective(rq.spans)
<1>1. rq.spans \in Seq(ToSet(rq.spans)) /\ IsInjective(rq.spans)
  BY ServerAssumption
<1>2. ToSet(rq.spans) \subseteq SpansIn(Requests)
  BY DEF SpansIn
<1>3. rq.spans \in Seq(SpansIn(Requests))
  BY <1>1, <1>2, SeqMonotonic
<1>4. rq \notin R => ToSet(rq.spans) \cap SpansIn(R) = {}
  <2> SUFFICES ASSUME rq \notin R, NEW x \in ToSet(rq.spans), x \in SpansIn(R) PROVE FALSE
    OBVIOUS
  <2>1. PICK sq \in R : x \in ToSet(sq.spans)
    BY DEF SpansIn
  <2>2. sq \in Requests /\ sq # rq
    OBVIOUS
  <2> QED
    BY <2>1, <2>2, ServerAssumption
<1>5. /\ rq \in R => ToSet(rq.spans) \subseteq SpansIn(R)
      /\ SpansIn(R \cup {rq}) = SpansIn(R) \cup ToSet(rq.spans)
  BY DEF SpansIn
<1> QED
  BY <1>1, <1>2, <1>3, <1>4, <1>5

(* The statuses are told apart.                                            *)
LEMMA StatusOfSuccess ==
    ASSUME NEW rq \in Requests
    PROVE  Success(rq) \in {200, 202} /\ Success(rq) = SuccessOf(rq.receiver)
BY DEF Success, SuccessOf

LEMMA StatusOfRefusal ==
    ASSUME NEW rq \in Requests
    PROVE  Refusal(rq) \in {0, 400, 405, 415}
BY ServerAssumption DEF Refusal

LEMMA RequestParts ==
    ASSUME NEW rq \in Requests
    PROVE  rq.receiver \in Receivers /\ Len(rq.spans) \in Nat
<1>1. rq.receiver \in {"otlp", "zipkin", "jaeger"} /\ rq.spans \in Seq(ToSet(rq.spans))
  BY ServerAssumption
<1> QED
  BY <1>1, LenProperties DEF Receivers

(* The server's property follows.                                          *)
LEMMA ServerInvSuffices ==
    ASSUME ServerInv PROVE AnswersHoldToTheEnd
<1> USE DEF ServerInv
<1>1. \A rq \in Requests :
          /\ answers[rq] = Success(rq) => ToSet(rq.spans) \subseteq Inside
          /\ handlerAt[rq] = "over" /\ answers[rq] # Success(rq) =>
                ToSet(rq.spans) \cap Inside = {}
  <2> TAKE rq \in Requests
  <2>1. QueuedRequests \subseteq Requests /\ Inside = SpansIn(QueuedRequests)
    BY DEF QueuedRequests, ContentInv
  <2>2. /\ answers[rq] = Success(rq) => rq \in QueuedRequests
        /\ handlerAt[rq] = "over" /\ answers[rq] # Success(rq) => rq \notin QueuedRequests
    BY DEF QueuedRequests
  <2> QED
    BY <2>1, <2>2, SpansOfOthers
<1>2. \A r \in Receivers :
          /\ received[r] = Counts(r, IF r = "otlp" THEN 200 ELSE 202)
          /\ rejected[r] = IF r = "otlp" THEN Counts(r, 429) ELSE 0
  BY DEF CountersInv, Counts, CountOf, SuccessOf
<1>3. ASSUME mainAt = "exited"
      PROVE  /\ srvQueue = << >>
             /\ \A rq \in Requests : answers[rq] = Success(rq) =>
                   ToSet(rq.spans) \subseteq ToSet(srvStored) \cup ToSet(srvBatch)
             /\ ~expired => Running = {}
  <2>1. srvQueue = << >> /\ consumer = << >> /\ (~expired => Running = {})
    BY <1>3 DEF DrainInv
  <2>2. ToSet(<< >>) = {}
    BY DEF ToSet
  <2>3. Inside = ToSet(srvStored) \cup ToSet(srvBatch)
    BY <2>1, <2>2 DEF Inside, InQueue
  <2> QED
    BY <1>1, <2>1, <2>3
<1>4. ready => mainAt \in {"serving", "failed"}
  BY DEF DrainInv
<1> QED
  BY <1>1, <1>2, <1>3, <1>4 DEF ContentInv, AnswersHoldToTheEnd

LEMMA ServerInitially ==
    ASSUME ServerInit PROVE ServerInv
<1> USE DEF ServerInit
<1>1. \A S : << >> \in Seq(S)
  BY EmptySeq
<1>2. ToSet(<< >>) = {} /\ IsInjective(<< >>)
  BY DEF ToSet, IsInjective
<1>3. \A rq \in Requests : answers[rq] = 0 /\ handlerAt[rq] = "unsent"
  OBVIOUS
<1>4. ServerType
  BY <1>1 DEF ServerType, MainPlaces, HandlerPlaces
<1>5. AnswersInv
  BY <1>3 DEF AnswersInv
<1>6. ContentInv
  <2>1. QueuedRequests = {}
    BY <1>3, StatusOfSuccess DEF QueuedRequests
  <2>2. InQueue = {} /\ Inside = {} /\ SpansIn({}) = {}
    BY <1>2 DEF InQueue, Inside, SpansIn
  <2> QED
    BY <1>2, <2>1, <2>2 DEF ContentInv
<1>7. CountersInv
  <2> SUFFICES ASSUME NEW r \in Receivers
               PROVE  /\ IsFiniteSet(UnitsOf(CountOf(r, SuccessOf(r))))
                      /\ received[r] = Total(CountOf(r, SuccessOf(r)))
                      /\ IsFiniteSet(UnitsOf(CountOf(r, 429)))
                      /\ rejected[r] = IF r = "otlp" THEN Total(CountOf(r, 429)) ELSE 0
    BY DEF CountersInv
  <2>1. received[r] = 0 /\ rejected[r] = 0 /\ SuccessOf(r) # 0
    BY DEF SuccessOf
  <2>2. /\ \A rq \in DOMAIN CountOf(r, SuccessOf(r)) : CountOf(r, SuccessOf(r))[rq] = 0
        /\ \A rq \in DOMAIN CountOf(r, 429) : CountOf(r, 429)[rq] = 0
    BY <1>3, <2>1 DEF CountOf
  <2> QED
    BY <2>1, <2>2, TotalZero
<1>8. DrainInv
  BY DEF DrainInv
<1> QED
  BY <1>4, <1>5, <1>6, <1>7, <1>8 DEF ServerInv

(* A step of a handler: where it goes, what it answers and what it queues. *)
HandlerMove(rq, place, status) ==
    /\ handlerAt[rq] # "over" /\ place \in HandlerPlaces \ {"unsent"}
    /\ handlerAt' = [handlerAt EXCEPT ![rq] = place]
    /\ answers' = [answers EXCEPT ![rq] = status] /\ status \in Nat
    /\ status # 0 => place = "over"
    /\ status = Success(rq) <=> handlerAt[rq] = "count"
    /\ handlerAt[rq] = "unsent" => launch["receiver"] = "listening"
    /\ \/ srvQueue' = srvQueue /\ place # "count"
       \/ ~srvClosed /\ srvQueue' = Append(srvQueue, rq) /\ place = "count" /\ handlerAt[rq] = "send"
    /\ received' = IF handlerAt[rq] = "count"
                   THEN [received EXCEPT ![rq.receiver] = @ + Len(rq.spans)] ELSE received
    /\ rejected' = IF status = 429 /\ rq.receiver = "otlp"
                   THEN [rejected EXCEPT !["otlp"] = @ + Len(rq.spans)] ELSE rejected
    /\ UNCHANGED <<mainVars, srvClosed, cancelled, consumer, consumerUp, srvBatch, srvTimer, srvStored>>

LEMMA HandlerMoves ==
    ASSUME ServerInv, NEW rq \in Requests, HandlerStep(rq)
    PROVE  \E place, status : HandlerMove(rq, place, status)
<1> USE DEF HandlerMove, HandlerPlaces, pipeVars
<1>1. Success(rq) \in {200, 202} /\ Refusal(rq) \in {0, 400, 405, 415}
  BY StatusOfSuccess, StatusOfRefusal
<1>2. /\ handlerAt[rq] # "over" => answers[rq] = 0
      /\ answers = [answers EXCEPT ![rq] = answers[rq]]
      /\ rejected = [rejected EXCEPT ![rq.receiver] = rejected[rq.receiver]]
  BY DEF ServerInv, ServerType, AnswersInv
<1>3. CASE Arrive(rq)
  <2>1. HandlerMove(rq, "read", 0)
    BY <1>1, <1>2, <1>3 DEF Arrive, HandlerTo
  <2> QED
    BY <2>1
<1>4. CASE ReadRequest(rq)
  <2>1. CASE Refusal(rq) # 0
    <3>1. HandlerMove(rq, "over", Refusal(rq))
      BY <1>1, <1>2, <1>4, <2>1 DEF ReadRequest, Answer
    <3> QED
      BY <3>1
  <2>2. CASE Refusal(rq) = 0
    <3>1. HandlerMove(rq, "enqueue", 0)
      BY <1>1, <1>2, <1>4, <2>2 DEF ReadRequest, HandlerTo
    <3> QED
      BY <3>1
  <2> QED
    BY <2>1, <2>2
<1>5. CASE EnqueueChecks(rq)
  <2>1. HandlerMove(rq, IF srvClosed THEN "reject" ELSE "send", 0)
    BY <1>1, <1>2, <1>5 DEF EnqueueChecks, HandlerTo
  <2> QED
    BY <2>1
<1>6. CASE EnqueueSends(rq)
  <2>1. CASE srvClosed
    <3>1. HandlerMove(rq, "over", 0)
      BY <1>1, <1>2, <1>6, <2>1 DEF EnqueueSends, HandlerTo
    <3> QED
      BY <3>1
  <2>2. CASE ~srvClosed /\ Len(srvQueue) < QueueSize
    <3>1. ~(Len(srvQueue) >= QueueSize)
      BY <2>2, ServerAssumption, LenProperties DEF ServerInv, ServerType
    <3>2. HandlerMove(rq, "count", 0)
      BY <1>1, <1>2, <1>6, <2>2, <3>1 DEF EnqueueSends, HandlerTo
    <3> QED
      BY <3>2
  <2>3. CASE ~srvClosed /\ ~(Len(srvQueue) < QueueSize)
    <3>1. HandlerMove(rq, "reject", 0)
      BY <1>1, <1>2, <1>6, <2>3 DEF EnqueueSends, HandlerTo
    <3> QED
      BY <3>1
  <2> QED
    BY <2>1, <2>2, <2>3
<1>7. CASE Reject(rq)
  <2>1. rejected' = IF rq.receiver = "otlp"
                    THEN [rejected EXCEPT !["otlp"] = @ + Len(rq.spans)] ELSE rejected
    <3>1. CASE rq.receiver = "otlp"
      BY <1>7, <3>1 DEF Reject
    <3>2. CASE rq.receiver # "otlp"
      BY <1>2, <1>7, <3>2 DEF Reject
    <3> QED
      BY <3>1, <3>2
  <2>2. /\ handlerAt[rq] = "reject" /\ answers' = [answers EXCEPT ![rq] = 429]
        /\ handlerAt' = [handlerAt EXCEPT ![rq] = "over"] /\ received' = received
        /\ UNCHANGED <<mainVars, pipeVars>>
    BY <1>7 DEF Reject, Answer
  <2>3. 429 # Success(rq) /\ 429 \in Nat /\ 429 # 0
    BY <1>1
  <2>4. HandlerMove(rq, "over", 429)
    BY <2>1, <2>2, <2>3
  <2> QED
    BY <2>4
<1>8. CASE Acknowledge(rq)
  <2>1. HandlerMove(rq, "over", Success(rq))
    BY <1>1, <1>2, <1>8 DEF Acknowledge, Answer
  <2> QED
    BY <2>1
<1> QED
  BY <1>3, <1>4, <1>5, <1>6, <1>7, <1>8 DEF HandlerStep

(* The counters after one answer.                                          *)
LEMMA CountAfterAnswer ==
    ASSUME NEW rq \in Requests, NEW r, NEW st \in Nat \ {0}, answers[rq] = 0,
           \A sq \in Requests : sq # rq => answers'[sq] = answers[sq],
           IsFiniteSet(UnitsOf(CountOf(r, st)))
    PROVE  /\ IsFiniteSet(UnitsOf(CountOf(r, st)'))
           /\ Total(CountOf(r, st)) \in Nat
           /\ Total(CountOf(r, st)') = Total(CountOf(r, st))
                  + (IF rq.receiver = r /\ answers'[rq] = st THEN Len(rq.spans) ELSE 0)
<1> DEFINE f == CountOf(r, st)
           g == CountOf(r, st)'
           n == IF rq.receiver = r /\ answers'[rq] = st THEN Len(rq.spans) ELSE 0
<1>1. DOMAIN f = Requests /\ DOMAIN g = Requests /\ f[rq] = 0 /\ g[rq] = n
  BY DEF CountOf
<1>2. \A sq \in Requests : sq # rq => g[sq] = f[sq]
  BY DEF CountOf
<1>3. n \in Nat
  BY RequestParts
<1> HIDE DEF f, g, n
<1>4. /\ IsFiniteSet(UnitsOf(g)) /\ Total(f) \in Nat /\ Total(g) \in Nat
      /\ Total(g) = Total(f) - f[rq] + g[rq]
  BY <1>1, <1>2, <1>3, TotalUpdate DEF f
<1>5. Total(g) = Total(f) + n
  BY <1>1, <1>3, <1>4
<1> QED
  BY <1>4, <1>5 DEF f, g, n

LEMMA HandlerCounts ==
    ASSUME ServerInv, NEW rq \in Requests, NEW place, NEW status, HandlerMove(rq, place, status)
    PROVE  CountersInv'
<1> SUFFICES ASSUME NEW r \in Receivers
             PROVE  /\ IsFiniteSet(UnitsOf(CountOf(r, SuccessOf(r))'))
                    /\ received'[r] = Total(CountOf(r, SuccessOf(r))')
                    /\ IsFiniteSet(UnitsOf(CountOf(r, 429)'))
                    /\ rejected'[r] = IF r = "otlp" THEN Total(CountOf(r, 429)') ELSE 0
  BY DEF CountersInv, SuccessOf
<1>1. answers[rq] = 0 /\ answers'[rq] = status
      /\ \A sq \in Requests : sq # rq => answers'[sq] = answers[sq]
  BY DEF ServerInv, ServerType, AnswersInv, HandlerMove
<1>2. /\ IsFiniteSet(UnitsOf(CountOf(r, SuccessOf(r)))) /\ IsFiniteSet(UnitsOf(CountOf(r, 429)))
      /\ received[r] = Total(CountOf(r, SuccessOf(r)))
      /\ rejected[r] = IF r = "otlp" THEN Total(CountOf(r, 429)) ELSE 0
  BY DEF ServerInv, CountersInv
<1>3. SuccessOf(r) \in Nat \ {0} /\ 429 \in Nat \ {0}
  BY DEF SuccessOf
<1>4. /\ IsFiniteSet(UnitsOf(CountOf(r, SuccessOf(r))'))
      /\ Total(CountOf(r, SuccessOf(r)))' = received[r]
             + (IF rq.receiver = r /\ status = SuccessOf(r) THEN Len(rq.spans) ELSE 0)
  <2> DEFINE st == SuccessOf(r)
  <2>1. st \in Nat \ {0} /\ IsFiniteSet(UnitsOf(CountOf(r, st))) /\ st = st'
    BY <1>2, <1>3 DEF SuccessOf
  <2> HIDE DEF st
  <2>2. /\ IsFiniteSet(UnitsOf(CountOf(r, st)'))
        /\ Total(CountOf(r, st)') = Total(CountOf(r, st))
                + (IF rq.receiver = r /\ answers'[rq] = st THEN Len(rq.spans) ELSE 0)
    BY <1>1, <2>1, CountAfterAnswer
  <2> QED
    BY <1>1, <1>2, <2>1, <2>2 DEF st
<1>5. /\ IsFiniteSet(UnitsOf(CountOf(r, 429)'))
      /\ Total(CountOf(r, 429)') = Total(CountOf(r, 429))
             + (IF rq.receiver = r /\ status = 429 THEN Len(rq.spans) ELSE 0)
  BY <1>1, <1>2, <1>3, CountAfterAnswer
<1>6. received'[r] = received[r]
             + (IF rq.receiver = r /\ status = SuccessOf(r) THEN Len(rq.spans) ELSE 0)
  <2>1. status = Success(rq) <=> handlerAt[rq] = "count"
    BY DEF HandlerMove
  <2>2. received' = IF handlerAt[rq] = "count"
                    THEN [received EXCEPT ![rq.receiver] = @ + Len(rq.spans)] ELSE received
    BY DEF HandlerMove
  <2>3. received \in [Receivers -> Nat] /\ Success(rq) = SuccessOf(rq.receiver)
    BY StatusOfSuccess DEF ServerInv, ServerType
  <2> QED
    BY <2>1, <2>2, <2>3
<1>7. rejected'[r] = rejected[r]
             + (IF r = "otlp" /\ rq.receiver = r /\ status = 429 THEN Len(rq.spans) ELSE 0)
  <2>1. rejected' = IF status = 429 /\ rq.receiver = "otlp"
                    THEN [rejected EXCEPT !["otlp"] = @ + Len(rq.spans)] ELSE rejected
    BY DEF HandlerMove
  <2>2. rejected \in [Receivers -> Nat]
    BY DEF ServerInv, ServerType
  <2> QED
    BY <2>1, <2>2
<1> QED
  BY <1>2, <1>4, <1>5, <1>6, <1>7

(* What the process holds after a handler's step.                          *)
LEMMA HandlerContent ==
    ASSUME ServerInv, NEW rq \in Requests, NEW place, NEW status, HandlerMove(rq, place, status)
    PROVE  ContentInv'
<1>1. /\ handlerAt' = [handlerAt EXCEPT ![rq] = place] /\ answers' = [answers EXCEPT ![rq] = status]
      /\ handlerAt[rq] # "over" /\ (status = Success(rq) <=> handlerAt[rq] = "count")
      /\ (status # 0 => place = "over")
      /\ consumer' = consumer /\ srvBatch' = srvBatch /\ srvStored' = srvStored
      /\ \/ srvQueue' = srvQueue /\ place # "count"
         \/ srvQueue' = Append(srvQueue, rq) /\ place = "count" /\ handlerAt[rq] = "send"
  BY DEF HandlerMove
<1>2. /\ handlerAt \in [Requests -> HandlerPlaces] /\ answers \in [Requests -> Nat]
      /\ srvQueue \in Seq(Requests) /\ answers[rq] = 0 /\ Success(rq) # 0
      /\ QueuedRequests \subseteq Requests
  <2>1. Success(rq) # 0
    BY StatusOfSuccess
  <2> QED
    BY <1>1, <2>1 DEF ServerInv, ServerType, AnswersInv, QueuedRequests
<1>3. \A sq \in Requests : sq # rq => handlerAt'[sq] = handlerAt[sq] /\ answers'[sq] = answers[sq]
  BY <1>1, <1>2
<1>4. handlerAt'[rq] = place /\ answers'[rq] = status
  BY <1>1, <1>2
<1>5. CASE srvQueue' = srvQueue /\ place # "count"
  <2>1. QueuedRequests' = QueuedRequests
    <3>1. rq \in QueuedRequests' <=> rq \in QueuedRequests
      BY <1>1, <1>2, <1>4, <1>5 DEF QueuedRequests, Success
    <3>2. \A sq \in Requests : sq # rq => (sq \in QueuedRequests' <=> sq \in QueuedRequests)
      BY <1>3 DEF QueuedRequests, Success
    <3> QED
      BY <3>1, <3>2 DEF QueuedRequests
  <2>2. InQueue' = InQueue /\ Inside' = Inside
    BY <1>1, <1>5 DEF InQueue, Inside
  <2> QED
    BY <1>1, <1>5, <2>1, <2>2 DEF ContentInv, ServerInv, SpansIn
<1>6. CASE srvQueue' = Append(srvQueue, rq) /\ place = "count" /\ handlerAt[rq] = "send"
  <2>1. rq \notin QueuedRequests /\ QueuedRequests' = QueuedRequests \cup {rq}
    <3>1. rq \notin QueuedRequests /\ rq \in QueuedRequests'
      BY <1>1, <1>2, <1>4, <1>6 DEF QueuedRequests
    <3>2. \A sq \in Requests : sq # rq => (sq \in QueuedRequests' <=> sq \in QueuedRequests)
      BY <1>3 DEF QueuedRequests, Success
    <3> QED
      BY <3>1, <3>2 DEF QueuedRequests
  <2>2. /\ ToSet(rq.spans) \cap SpansIn(QueuedRequests) = {}
        /\ SpansIn(QueuedRequests \cup {rq}) = SpansIn(QueuedRequests) \cup ToSet(rq.spans)
    BY <1>2, <2>1, SpansOfOthers
  <2>3. ToSet(srvQueue') = ToSet(srvQueue) \cup {rq}
    BY <1>2, <1>6, ToSetAppend
  <2>4. /\ ToSet(srvQueue) \subseteq QueuedRequests /\ IsInjective(srvQueue)
        /\ Inside = SpansIn(QueuedRequests)
    BY DEF ServerInv, ContentInv
  <2>5. IsInjective(srvQueue')
    BY <1>2, <1>6, <2>1, <2>4, InjectiveAppend
  <2>6. InQueue' = InQueue \cup ToSet(rq.spans) /\ Inside' = Inside \cup ToSet(rq.spans)
    BY <1>1, <2>3 DEF InQueue, Inside
  <2>7. SpansIn(QueuedRequests)' = SpansIn(QueuedRequests) \cup ToSet(rq.spans)
    BY <2>1, <2>2 DEF SpansIn
  <2>8. ToSet(rq.spans) \cap (ToSet(consumer) \cup ToSet(srvBatch) \cup ToSet(srvStored)) = {}
    BY <2>2, <2>4 DEF Inside
  <2> QED
    BY <1>1, <2>1, <2>3, <2>4, <2>5, <2>6, <2>7, <2>8 DEF ContentInv, ServerInv
<1> QED
  BY <1>1, <1>5, <1>6

LEMMA ServerHandler ==
    ASSUME ServerInv, NEW rq \in Requests, HandlerStep(rq)
    PROVE  ServerInv'
<1>1. PICK place, status : HandlerMove(rq, place, status)
  BY HandlerMoves
<1>2. CountersInv' /\ ContentInv'
  BY <1>1, HandlerCounts, HandlerContent
<1>3. ServerType'
  <2>1. handlerAt' \in [Requests -> HandlerPlaces] /\ answers' \in [Requests -> Nat]
    BY <1>1 DEF HandlerMove, ServerInv, ServerType
  <2>2. srvQueue' \in Seq(Requests)
    <3>1. srvQueue' = srvQueue \/ srvQueue' = Append(srvQueue, rq)
      BY <1>1 DEF HandlerMove
    <3>2. srvQueue \in Seq(Requests) /\ Append(srvQueue, rq) \in Seq(Requests)
      BY AppendProperties DEF ServerInv, ServerType
    <3> QED
      BY <3>1, <3>2
  <2>3. received' \in [Receivers -> Nat] /\ rejected' \in [Receivers -> Nat]
    <3>1. rq.receiver \in Receivers /\ "otlp" \in Receivers /\ Len(rq.spans) \in Nat
      BY RequestParts DEF Receivers
    <3>2. received \in [Receivers -> Nat] /\ rejected \in [Receivers -> Nat]
      BY DEF ServerInv, ServerType
    <3>3. /\ received' = received
             \/ received' = [received EXCEPT ![rq.receiver] = @ + Len(rq.spans)]
          /\ rejected' = rejected \/ rejected' = [rejected EXCEPT !["otlp"] = @ + Len(rq.spans)]
      BY <1>1 DEF HandlerMove
    <3> DEFINE more == Len(rq.spans)
    <3>4. more \in Nat
      BY <3>1
    <3> HIDE DEF more
    <3>5. [received EXCEPT ![rq.receiver] = @ + more] \in [Receivers -> Nat]
      BY <3>1, <3>2, <3>4
    <3>6. [rejected EXCEPT !["otlp"] = @ + more] \in [Receivers -> Nat]
      BY <3>1, <3>2, <3>4
    <3>7. received' \in [Receivers -> Nat]
      BY <3>2, <3>3, <3>5 DEF more
    <3>8. rejected' \in [Receivers -> Nat]
      BY <3>2, <3>3, <3>6 DEF more
    <3> QED
      BY <3>7, <3>8
  <2> QED
    BY <1>1, <2>1, <2>2, <2>3 DEF HandlerMove, ServerInv, ServerType, mainVars
<1>4. AnswersInv'
  <2>1. handlerAt'[rq] = place /\ answers'[rq] = status /\ (status # 0 => place = "over")
    BY <1>1 DEF HandlerMove, ServerInv, ServerType
  <2>2. \A sq \in Requests : sq # rq => handlerAt'[sq] = handlerAt[sq] /\ answers'[sq] = answers[sq]
    BY <1>1 DEF HandlerMove, ServerInv, ServerType
  <2> QED
    BY <2>1, <2>2 DEF AnswersInv, ServerInv
<1>5. DrainInv'
  <2>1. /\ mainAt' = mainAt /\ launch' = launch /\ expired' = expired /\ ready' = ready
        /\ srvClosed' = srvClosed /\ cancelled' = cancelled /\ consumerUp' = consumerUp
        /\ consumer' = consumer
        /\ (srvQueue' = srvQueue \/ ~srvClosed)
    BY <1>1 DEF HandlerMove, mainVars
  <2>2. ASSUME launch["receiver"] = "closed", Running = {} PROVE Running' = {}
    <3>1. rq \in Running
      BY <1>1, <2>2 DEF HandlerMove, Running
    <3> QED
      BY <2>2, <3>1
  <2> QED
    BY <2>1, <2>2 DEF DrainInv, ServerInv
<1> QED
  BY <1>2, <1>3, <1>4, <1>5 DEF ServerInv

(* A remainder is not larger than the number.                              *)
LEMMA Remainder ==
    ASSUME NEW x \in Nat, NEW k \in Nat \ {0}
    PROVE  x % k \in 0 .. x
<1>1. x % k \in 0 .. k - 1 /\ x = k * (x \div k) + (x % k)
  OBVIOUS
<1>2. x \div k \in Nat
  OBVIOUS
<1>3. k * (x \div k) \in Nat
  BY <1>2
<1> QED
  BY <1>1, <1>3

(* The consumer takes the payload at the head of the queue.                *)
LEMMA ServerDequeues ==
    ASSUME ServerInv, Dequeue PROVE ServerInv'
<1> DEFINE h == Head(srvQueue)
           t == Tail(srvQueue)
           others == ToSet(srvBatch) \cup ToSet(srvStored)
<1>1. /\ consumerUp /\ consumer = << >> /\ srvQueue # << >>
      /\ consumer' = h.spans /\ srvQueue' = t
      /\ UNCHANGED <<mainVars, requestVars, srvClosed, cancelled, consumerUp, srvBatch, srvTimer, srvStored>>
  BY DEF Dequeue
<1>2. /\ srvQueue \in Seq(Requests) /\ IsInjective(srvQueue) /\ QueuedRequests' = QueuedRequests
      /\ ToSet(<< >>) = {}
  BY <1>1 DEF ServerInv, ServerType, ContentInv, QueuedRequests, requestVars, Success, ToSet
<1>3. /\ h \in Requests /\ t \in Seq(Requests) /\ ToSet(srvQueue) = {h} \cup ToSet(t)
      /\ IsInjective(t) /\ h \notin ToSet(t) /\ ToSet(t) \subseteq Requests
  <2>1. h \in Requests /\ t \in Seq(Requests) /\ ToSet(srvQueue) = {h} \cup ToSet(t)
    BY <1>1, <1>2, ToSetHeadTail
  <2>2. IsInjective(t) /\ h \notin ToSet(t)
    BY <1>1, <1>2, InjectiveTail
  <2>3. ToSet(srvQueue) \subseteq Requests
    BY DEF ServerInv, ContentInv, QueuedRequests
  <2> QED
    BY <2>1, <2>2, <2>3
<1>4. /\ h.spans \in Seq(SpansIn(Requests)) /\ IsInjective(h.spans)
      /\ ToSet(h.spans) \cap SpansIn(ToSet(t)) = {}
      /\ SpansIn(ToSet(t) \cup {h}) = SpansIn(ToSet(t)) \cup ToSet(h.spans)
  BY <1>3, SpansOfOthers
<1>5. /\ InQueue = InQueue' \cup ToSet(consumer') /\ InQueue' \cap ToSet(consumer') = {}
      /\ Inside' = Inside
  <2>1. InQueue = SpansIn(ToSet(t) \cup {h}) /\ InQueue' = SpansIn(ToSet(t))
    BY <1>1, <1>3 DEF InQueue, SpansIn
  <2>2. InQueue = InQueue' \cup ToSet(consumer') /\ InQueue' \cap ToSet(consumer') = {}
    BY <1>1, <1>4, <2>1
  <2> QED
    BY <1>1, <1>2, <2>2 DEF Inside
<1>6. ContentInv'
  <2>1. SpansIn(QueuedRequests)' = SpansIn(QueuedRequests)
    BY <1>2 DEF SpansIn
  <2>2. ToSet(srvQueue') \subseteq QueuedRequests'
    BY <1>1, <1>2, <1>3 DEF ServerInv, ContentInv
  <2> QED
    BY <1>1, <1>3, <1>4, <1>5, <2>1, <2>2 DEF ContentInv, ServerInv
<1>7. ServerType'
  BY <1>1, <1>3, <1>4 DEF ServerInv, ServerType, mainVars, requestVars
<1>8. AnswersInv' /\ CountersInv'
  BY <1>1 DEF ServerInv, AnswersInv, CountersInv, CountOf, SuccessOf, requestVars
<1>9. DrainInv'
  BY <1>1 DEF ServerInv, DrainInv, Running, mainVars, requestVars
<1> QED
  BY <1>6, <1>7, <1>8, <1>9 DEF ServerInv

(* Spans go from the consumer to the batch and the store.                  *)
LEMMA ServerStores ==
    ASSUME ServerInv, Process \/ BatchTimer PROVE ServerInv'
<1>1. /\ srvQueue' = srvQueue /\ srvClosed' = srvClosed /\ cancelled' = cancelled
      /\ consumerUp' = consumerUp /\ UNCHANGED <<mainVars, requestVars>>
  BY DEF Process, BatchTimer
<1>2. /\ srvBatch \in Seq(SpansIn(Requests)) /\ srvStored \in Seq(SpansIn(Requests))
      /\ consumer \in Seq(SpansIn(Requests)) /\ << >> \in Seq(SpansIn(Requests))
      /\ IsInjective(srvBatch) /\ IsInjective(srvStored) /\ IsInjective(consumer)
      /\ ToSet(consumer) \cap (ToSet(srvBatch) \cup ToSet(srvStored)) = {}
      /\ ToSet(srvBatch) \cap ToSet(srvStored) = {}
      /\ ToSet(<< >>) = {} /\ IsInjective(<< >>)
  <2>1. << >> \in Seq(SpansIn(Requests))
    BY EmptySeq
  <2>2. ToSet(<< >>) = {} /\ IsInjective(<< >>)
    BY DEF ToSet, IsInjective
  <2> QED
    BY <2>1, <2>2 DEF ServerInv, ServerType, ContentInv
<1>3. /\ srvBatch' \in Seq(SpansIn(Requests)) /\ srvStored' \in Seq(SpansIn(Requests))
      /\ consumer' \in Seq(SpansIn(Requests))
      /\ IsInjective(srvBatch') /\ IsInjective(srvStored') /\ IsInjective(consumer')
      /\ ToSet(consumer') \cap (ToSet(srvBatch') \cup ToSet(srvStored')) = {}
      /\ ToSet(srvBatch') \cap ToSet(srvStored') = {}
      /\ ToSet(consumer') \cup ToSet(srvBatch') \cup ToSet(srvStored')
            = ToSet(consumer) \cup ToSet(srvBatch) \cup ToSet(srvStored)
      /\ consumer = << >> => consumer' = << >>
  <2>1. CASE Process
    <3> DEFINE all == srvBatch \o consumer
               cut == Len(all) - (Len(all) % ServerBatchSize)
               a == SubSeq(all, 1, cut)
               b == SubSeq(all, cut + 1, Len(all))
    <3>1. srvStored' = srvStored \o a /\ srvBatch' = b /\ consumer' = << >>
      BY <2>1 DEF Process
    <3>2. all \in Seq(SpansIn(Requests)) /\ ToSet(all) = ToSet(srvBatch) \cup ToSet(consumer)
      BY <1>2, ConcatProperties, ToSetConcat
    <3>3. IsInjective(all)
      BY <1>2, InjectiveConcat
    <3>4. cut \in 0 .. Len(all)
      <4>1. Len(all) \in Nat /\ ServerBatchSize \in Nat \ {0}
        BY <3>2, LenProperties, ServerAssumption
      <4>2. \A x \in Nat : \A k \in Nat \ {0} : x % k \in 0 .. x
        BY Remainder
      <4>3. Len(all) % ServerBatchSize \in 0 .. Len(all)
        BY <4>1, <4>2
      <4> QED
        BY <4>1, <4>3
    <3> HIDE DEF all, cut
    <3>5. /\ a \in Seq(SpansIn(Requests)) /\ b \in Seq(SpansIn(Requests))
          /\ ToSet(all) = ToSet(a) \cup ToSet(b) /\ IsInjective(a) /\ IsInjective(b)
          /\ ToSet(a) \cap ToSet(b) = {}
      BY <3>2, <3>3, <3>4, CutInTwo
    <3> HIDE DEF a, b
    <3>6. /\ srvStored \o a \in Seq(SpansIn(Requests))
          /\ ToSet(srvStored \o a) = ToSet(srvStored) \cup ToSet(a)
      BY <1>2, <3>5, ConcatProperties, ToSetConcat
    <3>7. ToSet(srvStored) \cap ToSet(a) = {}
      BY <1>2, <3>2, <3>5
    <3>8. IsInjective(srvStored \o a)
      BY <1>2, <3>5, <3>7, InjectiveConcat
    <3> QED
      BY <1>2, <3>1, <3>2, <3>5, <3>6, <3>8
  <2>2. CASE BatchTimer
    <3>1. srvStored' = srvStored \o srvBatch /\ srvBatch' = << >> /\ consumer' = consumer
      BY <2>2 DEF BatchTimer
    <3>2. /\ srvStored' \in Seq(SpansIn(Requests))
          /\ ToSet(srvStored') = ToSet(srvStored) \cup ToSet(srvBatch)
      BY <1>2, <3>1, ConcatProperties, ToSetConcat
    <3>3. IsInjective(srvStored')
      BY <1>2, <3>1, InjectiveConcat
    <3> QED
      BY <1>2, <3>1, <3>2, <3>3
  <2> QED
    BY <2>1, <2>2
<1>4. ContentInv'
  <2>1. InQueue' = InQueue /\ Inside' = Inside
    BY <1>1, <1>3 DEF InQueue, Inside
  <2>2. QueuedRequests' = QueuedRequests /\ SpansIn(QueuedRequests)' = SpansIn(QueuedRequests)
    BY <1>1 DEF QueuedRequests, Success, SpansIn, requestVars
  <2> QED
    BY <1>1, <1>3, <2>1, <2>2 DEF ContentInv, ServerInv
<1>5. ServerType'
  BY <1>1, <1>3 DEF ServerInv, ServerType, mainVars, requestVars
<1>6. AnswersInv' /\ CountersInv'
  BY <1>1 DEF ServerInv, AnswersInv, CountersInv, CountOf, SuccessOf, requestVars
<1>7. DrainInv'
  BY <1>1, <1>3 DEF ServerInv, DrainInv, Running, mainVars, requestVars
<1> QED
  BY <1>4, <1>5, <1>6, <1>7 DEF ServerInv

(* The steps of main, of the servers' goroutines and the consumer's end.   *)
LEMMA ServerMain ==
    ASSUME ServerInv,
           \/ ConsumerStops \/ StartPipeline \/ ServerFails \/ Signal \/ Expire
           \/ ReceiverDown \/ QueryDown \/ ClosePipeline \/ Exit
           \/ \E s \in Servers : Listen(s)
    PROVE  ServerInv'
<1>1. /\ UNCHANGED requestVars /\ srvQueue' = srvQueue /\ consumer' = consumer
      /\ srvBatch' = srvBatch /\ srvStored' = srvStored
  BY DEF ConsumerStops, StartPipeline, ServerFails, Signal, Expire, ReceiverDown, QueryDown,
         ClosePipeline, Exit, Listen, pipeVars
<1>2. ContentInv'
  <2>1. InQueue' = InQueue /\ Inside' = Inside
    BY <1>1 DEF InQueue, Inside
  <2>2. QueuedRequests' = QueuedRequests /\ SpansIn(QueuedRequests)' = SpansIn(QueuedRequests)
    BY <1>1 DEF QueuedRequests, Success, SpansIn, requestVars
  <2> QED
    BY <1>1, <2>1, <2>2 DEF ContentInv, ServerInv
<1>3. AnswersInv' /\ CountersInv'
  BY <1>1 DEF ServerInv, AnswersInv, CountersInv, CountOf, SuccessOf, requestVars
<1>4. mainAt' \in MainPlaces /\ DOMAIN launch' = Servers
  <2>1. mainAt \in MainPlaces /\ DOMAIN launch = Servers
    BY DEF ServerInv, ServerType
  <2> QED
    BY <2>1 DEF ConsumerStops, StartPipeline, ServerFails, Signal, Expire, ReceiverDown,
           QueryDown, ClosePipeline, Exit, Listen, Close, mainVars, MainPlaces
<1>5. ServerType'
  BY <1>1, <1>4 DEF ServerInv, ServerType, requestVars
<1>6. DrainInv'
  <2> USE DEF DrainInv, ServerInv, mainVars, pipeVars
  <2>1. Running' = Running /\ DOMAIN launch = Servers /\ "receiver" \in Servers
    BY <1>1 DEF Running, requestVars, ServerType, Servers
  <2>2. CASE ConsumerStops
    BY <1>1, <2>1, <2>2 DEF ConsumerStops
  <2>3. CASE StartPipeline
    BY <1>1, <2>1, <2>3 DEF StartPipeline
  <2>4. CASE ServerFails \/ Expire
    BY <1>1, <2>1, <2>4 DEF ServerFails, Expire
  <2>5. CASE Signal
    BY <1>1, <2>1, <2>5 DEF Signal, Close
  <2>6. CASE ReceiverDown \/ QueryDown
    <3>1. launch'["receiver"] = launch["receiver"]
      BY <2>1, <2>6 DEF ReceiverDown, QueryDown, Close
    <3> QED
      BY <1>1, <2>1, <2>6, <3>1 DEF ReceiverDown, QueryDown
  <2>7. CASE ClosePipeline \/ Exit
    BY <1>1, <2>1, <2>7 DEF ClosePipeline, Exit
  <2>8. ASSUME NEW s \in Servers, Listen(s) PROVE DrainInv'
    <3>1. launch["receiver"] = "closed" => launch'["receiver"] = "closed"
      BY <2>1, <2>8 DEF Listen
    <3> QED
      BY <1>1, <2>1, <2>8, <3>1 DEF Listen
  <2> QED
    BY <2>2, <2>3, <2>4, <2>5, <2>6, <2>7, <2>8
<1> QED
  BY <1>2, <1>3, <1>5, <1>6 DEF ServerInv

(* Whatever order requests, consumer, batch timer and shutdown come in, an *)
(* answer holds to the end: accepted spans are in one place of the         *)
(* process, refused ones in none, the counters agree with the answers, and *)
(* an orderly exit leaves nothing but what waited for the batch timer.     *)
THEOREM ServerAnswersHold == ServerSpec => []AnswersHoldToTheEnd
<1>1. ServerInit => ServerInv
  BY ServerInitially
<1>2. ServerInv /\ [ServerNext]_serverVars => ServerInv'
  <2> SUFFICES ASSUME ServerInv, [ServerNext]_serverVars PROVE ServerInv'
    OBVIOUS
  <2>1. CASE \E rq \in Requests : HandlerStep(rq)
    BY <2>1, ServerHandler
  <2>2. CASE Dequeue
    BY <2>2, ServerDequeues
  <2>3. CASE Process \/ BatchTimer
    BY <2>3, ServerStores
  <2>4. CASE \/ ConsumerStops \/ StartPipeline \/ ServerFails \/ Signal \/ Expire
             \/ ReceiverDown \/ QueryDown \/ ClosePipeline \/ Exit
             \/ \E s \in Servers : Listen(s)
    BY <2>4, ServerMain
  <2>5. CASE UNCHANGED serverVars
    <3> USE <2>5 DEF serverVars, ServerInv
    <3>1. ServerType' /\ AnswersInv'
      BY DEF ServerType, AnswersInv
    <3>2. ContentInv'
      BY DEF ContentInv, QueuedRequests, Success, InQueue, Inside
    <3>3. CountersInv'
      BY DEF CountersInv, CountOf, SuccessOf
    <3>4. DrainInv'
      BY DEF DrainInv, Running
    <3> QED
      BY <3>1, <3>2, <3>3, <3>4
  <2> QED
    BY <2>1, <2>2, <2>3, <2>4, <2>5 DEF ServerNext
<1>3. ServerInv => AnswersHoldToTheEnd
  BY ServerInvSuffices
<1> QED
  BY <1>1, <1>2, <1>3, PTL DEF ServerSpec

-----------------------------------------------------------------------------
(* The chain of processors *)

(* One more, divided.                                                      *)
LEMMA QuotientIsUnique ==
    ASSUME NEW k \in Nat \ {0}, NEW p \in Int, NEW q \in Int, NEW r \in 0 .. k - 1,
           NEW s \in 0 .. k - 1, k * p + r = k * q + s
    PROVE  p = q
<1>1. k * p \in Int /\ k * q \in Int
  OBVIOUS
<1>2. ASSUME NEW a \in Int, NEW b \in Int, a < b PROVE k * a + k <= k * b
  <2>1. k * (b - a - 1) \in Nat
    BY <1>2
  <2>2. k * b = k * a + k + k * (b - a - 1)
    OBVIOUS
  <2> QED
    BY <2>1, <2>2
<1>3. CASE p < q
  BY <1>1, <1>2, <1>3
<1>4. CASE q < p
  BY <1>1, <1>2, <1>4
<1> QED
  BY <1>3, <1>4

LEMMA NextQuotient ==
    ASSUME NEW x \in Nat, NEW k \in Nat \ {0}
    PROVE  /\ x \div k \in Nat
           /\ (x + 1) \div k = (x \div k) + (IF (x + 1) % k = 0 THEN 1 ELSE 0)
<1> DEFINE q == x \div k
           r == x % k
           p == (x + 1) \div k
           s == (x + 1) % k
<1>1. q \in Nat /\ r \in 0 .. k - 1 /\ x = k * q + r
  OBVIOUS
<1>2. p \in Nat /\ s \in 0 .. k - 1 /\ x + 1 = k * p + s
  OBVIOUS
<1> HIDE DEF q, r, p, s
<1>3. CASE r + 1 < k
  <2>1. r + 1 \in 0 .. k - 1 /\ k * p + s = k * q + (r + 1)
    BY <1>1, <1>2, <1>3
  <2>2. p = q
    BY <1>1, <1>2, <2>1, QuotientIsUnique
  <2>3. s # 0
    BY <1>1, <1>2, <2>1, <2>2
  <2> QED
    BY <1>1, <2>2, <2>3 DEF q, p, s
<1>4. CASE r + 1 = k
  <2>1. k * p + s = k * (q + 1) + 0
    BY <1>1, <1>2, <1>4
  <2>2. p = q + 1
    BY <1>1, <1>2, <2>1, QuotientIsUnique
  <2>3. s = 0
    BY <1>1, <1>2, <2>1, <2>2
  <2> QED
    BY <1>1, <2>2, <2>3 DEF q, p, s
<1> QED
  BY <1>1, <1>3, <1>4

(* The spans that threads in some stages hold, after a step of thread t.   *)
KeptIn(P) == [t \in InStage(P) |-> Len(work[t].kept)]
HeldAt(t, P) == IF stage[t] \in P THEN Len(work[t].kept) ELSE 0

LEMMA SpansOfStep ==
    ASSUME NEW P, NEW t \in ProcThreads,
           \A u \in ProcThreads : u # t => stage'[u] = stage[u] /\ work'[u] = work[u],
           Len(work[t].kept) \in Nat, Len(work'[t].kept) \in Nat, IsFiniteSet(UnitsOf(KeptIn(P)))
    PROVE  /\ IsFiniteSet(UnitsOf(KeptIn(P)')) /\ SpansOf(P) \in Nat /\ SpansOf(P)' \in Nat
           /\ SpansOf(P)' = SpansOf(P) - HeldAt(t, P) + HeldAt(t, P)'
<1> DEFINE f == KeptIn(P)
           g == KeptIn(P)'
           m == Len(work[t].kept)
           n == Len(work'[t].kept)
<1>1. /\ DOMAIN f = {u \in ProcThreads : stage[u] \in P}
      /\ DOMAIN g = {u \in ProcThreads : stage'[u] \in P}
      /\ \A u \in DOMAIN f : f[u] = Len(work[u].kept)
      /\ \A u \in DOMAIN g : g[u] = Len(work'[u].kept)
  BY DEF KeptIn, InStage
<1>2. SpansOf(P) = Total(f) /\ SpansOf(P)' = Total(g)
  BY DEF SpansOf, KeptIn
<1>3. \A u \in ProcThreads : u # t => (u \in DOMAIN f <=> u \in DOMAIN g)
  BY <1>1
<1>4. \A u \in DOMAIN f : u # t => g[u] = f[u]
  BY <1>1, <1>3
<1>5. \A h : IsFiniteSet(UnitsOf(h)) => Total(h) \in Nat
  BY FS_CardinalityType DEF Total
<1>6. m \in Nat /\ n \in Nat /\ IsFiniteSet(UnitsOf(f))
  OBVIOUS
<1>7. /\ t \in DOMAIN f <=> stage[t] \in P
      /\ t \in DOMAIN g <=> stage'[t] \in P
      /\ t \in DOMAIN f => f[t] = m
      /\ t \in DOMAIN g => g[t] = n
      /\ DOMAIN f \subseteq ProcThreads /\ DOMAIN g \subseteq ProcThreads
  BY <1>1
<1>8. HeldAt(t, P) = (IF stage[t] \in P THEN m ELSE 0) /\ HeldAt(t, P)' = (IF stage'[t] \in P THEN n ELSE 0)
  BY DEF HeldAt
<1> HIDE DEF f, g, m, n
<1>9. CASE t \in DOMAIN f /\ t \in DOMAIN g
  <2>1. DOMAIN g = DOMAIN f
    BY <1>3, <1>7, <1>9
  <2>2. IsFiniteSet(UnitsOf(g)) /\ Total(f) \in Nat /\ Total(g) \in Nat /\ Total(g) = Total(f) - f[t] + g[t]
    BY <1>4, <1>6, <1>7, <1>9, <2>1, TotalUpdate
  <2> QED
    BY <1>2, <1>7, <1>8, <1>9, <2>2 DEF g
<1>10. CASE t \in DOMAIN f /\ t \notin DOMAIN g
  <2>1. DOMAIN f = DOMAIN g \cup {t} /\ \A u \in DOMAIN g : f[u] = g[u]
    BY <1>3, <1>4, <1>7, <1>10
  <2>2. IsFiniteSet(UnitsOf(g)) /\ Total(g) \in Nat /\ Total(f) = Total(g) + m
    <3>1. f[t] = m /\ f[t] \in Nat /\ t \notin DOMAIN g
      BY <1>6, <1>7, <1>10
    <3>2. /\ IsFiniteSet(UnitsOf(f)) <=> IsFiniteSet(UnitsOf(g))
          /\ IsFiniteSet(UnitsOf(g)) => Total(g) \in Nat /\ Total(f) = Total(g) + f[t]
      BY <2>1, <3>1, TotalSplit
    <3> QED
      BY <1>6, <3>1, <3>2
  <2>3. Total(f) \in Nat /\ Total(g) = Total(f) - m + 0
    BY <1>6, <2>2
  <2> QED
    BY <1>2, <1>7, <1>8, <1>10, <2>2, <2>3 DEF g
<1>11. CASE t \notin DOMAIN f /\ t \in DOMAIN g
  <2>1. DOMAIN g = DOMAIN f \cup {t} /\ \A u \in DOMAIN f : g[u] = f[u]
    BY <1>3, <1>4, <1>7, <1>11
  <2>2. IsFiniteSet(UnitsOf(g)) /\ Total(f) \in Nat /\ Total(g) = Total(f) + n
    BY <1>6, <1>7, <1>11, <2>1, TotalSplit
  <2>3. Total(g) \in Nat /\ Total(g) = Total(f) - 0 + n
    BY <1>6, <2>2
  <2> QED
    BY <1>2, <1>7, <1>8, <1>11, <2>2, <2>3 DEF g
<1>12. CASE t \notin DOMAIN f /\ t \notin DOMAIN g
  <2>1. DOMAIN g = DOMAIN f
    BY <1>3, <1>7, <1>12
  <2>2. UnitsOf(g) = UnitsOf(f)
    BY <1>4, <1>12, <2>1 DEF UnitsOf
  <2>3. Total(g) = Total(f) /\ Total(f) \in Nat /\ IsFiniteSet(UnitsOf(g))
    BY <1>5, <1>6, <2>2 DEF Total
  <2>4. Total(g) = Total(f) - 0 + 0
    BY <2>3
  <2> QED
    BY <1>2, <1>7, <1>8, <1>12, <2>3, <2>4 DEF g
<1> QED
  BY <1>9, <1>10, <1>11, <1>12

(* Stages after the filter; stages whose spans calls_total has counted;    *)
(* those of them that no adjustment can have seen; stages before the tap.  *)
Filtered == {"attributes", "metrics", "track", "add", "sample"}
Tapped == {"track", "add", "sample"}
Untracked == {"track", "add"}
Untapped == {"soft", "filter", "attributes", "metrics"}

ChainSpans == UNION {ToSet(td) : td \in ProcPayloads}
Done == passed \cup sampledOut
BusyThreads == {t \in ProcThreads : stage[t] # "out"}
Entered == [td \in fed |-> Len(td)]

ProcType ==
    /\ stage \in [ProcThreads -> {"out", "soft", "filter", "attributes", "metrics",
                                  "track", "add", "sample"}]
    /\ work \in [ProcThreads -> [td : ProcPayloads \cup {<< >>}, kept : Seq(ChainSpans)]]
    /\ counter \in Nat /\ dropCount \in Nat /\ hardDrops \in Nat
    /\ callsTotal \in Nat /\ droppedCount \in Nat /\ swapped \in Nat

(* The rates and what they are adjusted from.                              *)
RatesType ==
    /\ DOMAIN rates \subseteq DOMAIN throughput /\ DOMAIN throughput \subseteq Services
    /\ throughput = [s \in DOMAIN throughput |-> throughput[s]]
    /\ \A s \in DOMAIN throughput : throughput[s] \in Nat
    /\ \A s \in DOMAIN rates : rates[s] \in 1 .. Scale

(* The flags agree with the levels the monitor has stored them for.        *)
FlagsInv ==
    /\ hardExceed \in BOOLEAN /\ softExceed \in BOOLEAN
    /\ monitor \in Levels \cup {"idle"} /\ level \in Levels
    /\ softExceed <=> level # "normal"
    /\ hardExceed <=> (IF monitor = "idle" THEN level = "hard" ELSE monitor = "hard")

(* Threads work on payloads of their own; what came through is of others.  *)
PayloadInv ==
    /\ fed \subseteq ProcPayloads
    /\ \A t \in ProcThreads : stage[t] # "out" =>
          /\ work[t].td \in fed /\ IsInjective(work[t].kept)
          /\ ToSet(work[t].kept) \subseteq ToSet(work[t].td)
          /\ ToSet(work[t].td) \cap Done = {}
    /\ \A t, u \in ProcThreads :
          t # u /\ stage[t] # "out" /\ stage[u] # "out" => work[t].td # work[u].td
    /\ Done \subseteq UNION {ToSet(td) : td \in fed}
    /\ passed \cap sampledOut = {}
    /\ \A s \in Done : Matches(s) = Include
    /\ \A t \in ProcThreads : stage[t] \in Filtered =>
          \A s \in ToSet(work[t].kept) : Matches(s) = Include
    /\ \A t \in ProcThreads : stage[t] = "add" => Service(work[t].td) \in DOMAIN throughput

TablesFinite ==
    /\ IsFiniteSet(UnitsOf(KeptIn(Tapped))) /\ IsFiniteSet(UnitsOf(KeptIn(Untracked)))
    /\ IsFiniteSet(UnitsOf(KeptIn(Untapped)))

(* Payloads: each is dropped, or a thread has or had it.                   *)
DropsInv ==
    /\ IsFiniteSet(fed) /\ IsFiniteSet(BusyThreads)
    /\ dropCount = hardDrops + (counter \div DropEvery)
    /\ Cardinality(fed) >= dropCount + Cardinality(BusyThreads)

(* Spans: where those that were tapped are, and who has counted them.      *)
SpansInv ==
    /\ TablesFinite /\ IsFiniteSet(Done)
    /\ IsFiniteSet(UnitsOf(throughput)) /\ IsFiniteSet(UnitsOf(Entered))
    /\ callsTotal = SpansOf(Tapped) + Cardinality(Done)
    /\ callsTotal = swapped + SpansOf(Untracked) + Total(throughput)
    /\ callsTotal + droppedCount + SpansOf(Untapped) <= Total(Entered)

ProcInv == ProcType /\ RatesType /\ FlagsInv /\ PayloadInv /\ DropsInv /\ SpansInv

(* The two properties of the chain follow.                                 *)
LEMMA ProcInvSuffices ==
    ASSUME ProcInv PROVE NoUnguardedWindow /\ ChainAccounts
<1> USE DEF ProcInv
<1>1. ProcessorsTypeOK
  BY DEF ProcessorsTypeOK, ProcType, RatesType, FlagsInv
<1>2. level # "normal" /\ monitor # "normal" => hardExceed \/ softExceed
  BY DEF FlagsInv
<1>3. NoUnguardedWindow
  BY <1>1, <1>2 DEF NoUnguardedWindow
<1>4. Cardinality(fed) >= dropCount
  <2>1. Cardinality(fed) \in Nat /\ Cardinality(BusyThreads) \in Nat /\ dropCount \in Nat
    BY FS_CardinalityType DEF DropsInv, ProcType
  <2> QED
    BY <2>1 DEF DropsInv
<1>5. ChainAccounts
  BY <1>4 DEF DropsInv, SpansInv, PayloadInv, ChainAccounts, Tapped, Untracked, Untapped, Entered, Done
<1> QED
  BY <1>3, <1>5

LEMMA ProcInitially ==
    ASSUME ProcInit PROVE ProcInv
<1> USE DEF ProcInit
<1>1. << >> \in Seq(ChainSpans)
  BY EmptySeq
<1>2. ProcType
  BY <1>1 DEF ProcType
<1>3. RatesType
  BY DEF RatesType
<1>4. FlagsInv
  BY DEF FlagsInv, Levels
<1>5. Done = {} /\ BusyThreads = {} /\ \A t \in ProcThreads : stage[t] = "out"
  BY DEF Done, BusyThreads
<1>6. PayloadInv
  BY <1>5 DEF PayloadInv, Done, Filtered
<1>7. IsFiniteSet({}) /\ Cardinality({}) = 0
  BY FS_EmptySet
<1>8. 0 \div DropEvery = 0
  BY ProcessorsAssumption
<1>9. DropsInv
  BY <1>5, <1>7, <1>8 DEF DropsInv
<1>10. ASSUME NEW P, "out" \notin P PROVE IsFiniteSet(UnitsOf(KeptIn(P))) /\ SpansOf(P) = 0
  <2>1. \A x \in DOMAIN KeptIn(P) : KeptIn(P)[x] = 0
    BY <1>5, <1>10 DEF KeptIn, InStage
  <2> QED
    BY <2>1, TotalZero DEF SpansOf, KeptIn
<1>11. /\ IsFiniteSet(UnitsOf(throughput)) /\ Total(throughput) = 0
       /\ IsFiniteSet(UnitsOf(Entered)) /\ Total(Entered) = 0
  <2>1. \A x \in DOMAIN throughput : throughput[x] = 0
    OBVIOUS
  <2>2. \A x \in DOMAIN Entered : Entered[x] = 0
    BY DEF Entered
  <2> QED
    BY <2>1, <2>2, TotalZero
<1>12. TablesFinite /\ SpansOf(Tapped) = 0 /\ SpansOf(Untracked) = 0 /\ SpansOf(Untapped) = 0
  BY <1>10 DEF TablesFinite, Tapped, Untracked, Untapped
<1>13. SpansInv
  BY <1>5, <1>7, <1>11, <1>12 DEF SpansInv
<1> QED
  BY <1>2, <1>3, <1>4, <1>6, <1>9, <1>13 DEF ProcInv

(* What a thread works on.                                                 *)
LEMMA ThreadHas ==
    ASSUME ProcInv, NEW t \in ProcThreads
    PROVE  /\ work[t].kept \in Seq(ChainSpans) /\ Len(work[t].kept) \in Nat
           /\ stage[t] # "out" => work[t].td \in ProcPayloads
           /\ work[t] = [td |-> work[t].td, kept |-> work[t].kept]
<1>1. work[t] \in [td : ProcPayloads \cup {<< >>}, kept : Seq(ChainSpans)]
  BY DEF ProcInv, ProcType
<1>2. work[t].kept \in Seq(ChainSpans) /\ work[t] = [td |-> work[t].td, kept |-> work[t].kept]
  BY <1>1
<1>3. Len(work[t].kept) \in Nat
  BY <1>2, LenProperties
<1>4. stage[t] # "out" => work[t].td \in ProcPayloads
  BY DEF ProcInv, PayloadInv
<1> QED
  BY <1>2, <1>3, <1>4

(* The three totals after a step of thread t.                              *)
LEMMA TotalsStep ==
    ASSUME ProcInv, NEW t \in ProcThreads, Len(work'[t].kept) \in Nat,
           \A u \in ProcThreads : u # t => stage'[u] = stage[u] /\ work'[u] = work[u]
    PROVE  /\ TablesFinite'
           /\ SpansOf(Tapped) \in Nat /\ SpansOf(Untracked) \in Nat /\ SpansOf(Untapped) \in Nat
           /\ SpansOf(Tapped)' \in Nat /\ SpansOf(Untracked)' \in Nat /\ SpansOf(Untapped)' \in Nat
           /\ SpansOf(Tapped)' = SpansOf(Tapped) - HeldAt(t, Tapped) + HeldAt(t, Tapped)'
           /\ SpansOf(Untracked)' = SpansOf(Untracked) - HeldAt(t, Untracked) + HeldAt(t, Untracked)'
           /\ SpansOf(Untapped)' = SpansOf(Untapped) - HeldAt(t, Untapped) + HeldAt(t, Untapped)'
<1>1. Len(work[t].kept) \in Nat /\ TablesFinite
  BY ThreadHas DEF ProcInv, SpansInv
<1>2. ASSUME NEW P, IsFiniteSet(UnitsOf(KeptIn(P)))
      PROVE  /\ IsFiniteSet(UnitsOf(KeptIn(P)')) /\ SpansOf(P) \in Nat /\ SpansOf(P)' \in Nat
             /\ SpansOf(P)' = SpansOf(P) - HeldAt(t, P) + HeldAt(t, P)'
  BY <1>1, <1>2, SpansOfStep
<1>3. Tapped' = Tapped /\ Untracked' = Untracked /\ Untapped' = Untapped
  BY DEF Tapped, Untracked, Untapped
<1> QED
  BY <1>1, <1>2, <1>3 DEF TablesFinite

(* A thread goes on with its payload, or gives up what is left of it.      *)
LEMMA PayloadKept ==
    ASSUME ProcInv, NEW t \in ProcThreads, stage[t] # "out",
           \A u \in ProcThreads : u # t => stage'[u] = stage[u] /\ work'[u] = work[u],
           work'[t].td = work[t].td, ToSet(work'[t].kept) \subseteq ToSet(work[t].kept),
           IsInjective(work'[t].kept), fed' = fed, passed' = passed, sampledOut' = sampledOut,
           DOMAIN throughput \subseteq DOMAIN throughput',
           stage'[t] \in Filtered => \A s \in ToSet(work'[t].kept) : Matches(s) = Include,
           stage'[t] = "add" => Service(work[t].td) \in DOMAIN throughput'
    PROVE  PayloadInv'
<1>1. Done' = Done
  BY DEF Done
<1>2. PayloadInv
  BY DEF ProcInv
<1>3. /\ \A u \in ProcThreads : work'[u].td = work[u].td
      /\ \A u \in ProcThreads : stage'[u] # "out" => stage[u] # "out"
  OBVIOUS
<1>4. \A u \in ProcThreads : stage'[u] # "out" =>
          /\ work'[u].td \in fed /\ IsInjective(work'[u].kept)
          /\ ToSet(work'[u].kept) \subseteq ToSet(work'[u].td)
          /\ ToSet(work'[u].td) \cap Done = {}
  <2> SUFFICES ASSUME NEW u \in ProcThreads, stage'[u] # "out"
               PROVE  /\ work'[u].td \in fed /\ IsInjective(work'[u].kept)
                      /\ ToSet(work'[u].kept) \subseteq ToSet(work'[u].td)
                      /\ ToSet(work'[u].td) \cap Done = {}
    OBVIOUS
  <2>1. CASE u = t
    BY <1>2, <1>3, <2>1 DEF PayloadInv
  <2>2. CASE u # t
    BY <1>2, <1>3, <2>2 DEF PayloadInv
  <2> QED
    BY <2>1, <2>2
<1>5. \A u, v \in ProcThreads :
          u # v /\ stage'[u] # "out" /\ stage'[v] # "out" => work'[u].td # work'[v].td
  BY <1>2, <1>3 DEF PayloadInv
<1>6. \A u \in ProcThreads : stage'[u] \in Filtered =>
          \A s \in ToSet(work'[u].kept) : Matches(s) = Include
  BY <1>2 DEF PayloadInv
<1>7. \A u \in ProcThreads : stage'[u] = "add" => Service(work'[u].td) \in DOMAIN throughput'
  BY <1>2, <1>3 DEF PayloadInv
<1> QED
  BY <1>1, <1>2, <1>4, <1>5, <1>6, <1>7 DEF PayloadInv, Filtered

(* The busy threads after thread t has gone on or finished.                *)
LEMMA BusyStep ==
    ASSUME ProcInv, NEW t \in ProcThreads, stage[t] # "out",
           \A u \in ProcThreads : u # t => stage'[u] = stage[u]
    PROVE  /\ IsFiniteSet(BusyThreads') /\ Cardinality(BusyThreads) \in Nat
           /\ Cardinality(BusyThreads') \in Nat
           /\ Cardinality(BusyThreads') = Cardinality(BusyThreads) - (IF stage'[t] = "out" THEN 1 ELSE 0)
<1>1. IsFiniteSet(BusyThreads) /\ t \in BusyThreads
  BY DEF ProcInv, DropsInv, BusyThreads
<1>2. BusyThreads' = IF stage'[t] = "out" THEN BusyThreads \ {t} ELSE BusyThreads
  BY DEF BusyThreads
<1>3. Cardinality(BusyThreads) \in Nat
  BY <1>1, FS_CardinalityType
<1>4. CASE stage'[t] = "out"
  <2>1. /\ IsFiniteSet(BusyThreads \ {t})
        /\ Cardinality(BusyThreads \ {t}) = Cardinality(BusyThreads) - 1
    BY <1>1, FS_RemoveElement
  <2>2. Cardinality(BusyThreads \ {t}) \in Nat
    BY <2>1, FS_CardinalityType
  <2> QED
    BY <1>2, <1>3, <1>4, <2>1, <2>2
<1>5. CASE stage'[t] # "out"
  BY <1>1, <1>2, <1>3, <1>5
<1> QED
  BY <1>4, <1>5

(* Nothing is given up or dropped but by the limiter.                      *)
LEMMA DropsKept ==
    ASSUME ProcInv, NEW t \in ProcThreads, stage[t] # "out",
           \A u \in ProcThreads : u # t => stage'[u] = stage[u],
           fed' = fed, dropCount' = dropCount, hardDrops' = hardDrops, counter' = counter
    PROVE  DropsInv'
<1>1. /\ IsFiniteSet(BusyThreads') /\ Cardinality(BusyThreads) \in Nat
      /\ Cardinality(BusyThreads') \in Nat
      /\ Cardinality(BusyThreads') = Cardinality(BusyThreads) - (IF stage'[t] = "out" THEN 1 ELSE 0)
  BY BusyStep
<1>2. Cardinality(fed) \in Nat /\ dropCount \in Nat /\ DropsInv
  BY FS_CardinalityType DEF ProcInv, DropsInv, ProcType
<1>3. Cardinality(fed) >= dropCount + Cardinality(BusyThreads')
  BY <1>1, <1>2 DEF DropsInv
<1> QED
  BY <1>1, <1>2, <1>3 DEF DropsInv

(* The types of stage and work after a step of thread t.                   *)
LEMMA StageStep ==
    ASSUME ProcInv, NEW t \in ProcThreads, NEW place, To(t, place),
           place \in {"out", "soft", "filter", "attributes", "metrics", "track", "add", "sample"}
    PROVE  /\ stage' \in [ProcThreads -> {"out", "soft", "filter", "attributes", "metrics",
                                          "track", "add", "sample"}]
           /\ stage'[t] = place /\ \A u \in ProcThreads : u # t => stage'[u] = stage[u]
BY DEF ProcInv, ProcType, To

(* LimitHard.                                                              *)
LEMMA ProcLimitHard ==
    ASSUME ProcInv, NEW t \in ProcThreads, NEW td \in ProcPayloads, LimitHard(t, td)
    PROVE  ProcInv'
<1>1. /\ stage[t] = "out" /\ td \notin fed /\ fed' = fed \cup {td}
      /\ counter' = counter /\ rates' = rates /\ throughput' = throughput /\ swapped' = swapped
      /\ sampledOut' = sampledOut /\ callsTotal' = callsTotal /\ droppedCount' = droppedCount
      /\ passed' = passed /\ UNCHANGED <<hardExceed, softExceed, monitor, level>>
      /\ IF hardExceed
         THEN /\ dropCount' = dropCount + 1 /\ hardDrops' = hardDrops + 1
              /\ stage' = stage /\ work' = work
         ELSE /\ To(t, "soft") /\ work' = [work EXCEPT ![t] = [td |-> td, kept |-> td]]
              /\ dropCount' = dropCount /\ hardDrops' = hardDrops
  BY DEF LimitHard, At, sampler
<1>2. /\ td \in Seq(ToSet(td)) /\ IsInjective(td) /\ ToSet(td) \subseteq ChainSpans
      /\ \A other \in ProcPayloads : td # other => ToSet(td) \cap ToSet(other) = {}
  BY ProcessorsAssumption DEF ChainSpans
<1>3. td \in Seq(ChainSpans) /\ Len(td) \in Nat
  BY <1>2, SeqMonotonic, LenProperties
<1>4. RatesType' /\ FlagsInv' /\ Done' = Done
  BY <1>1 DEF ProcInv, RatesType, FlagsInv, Done
<1>5. /\ IsFiniteSet(fed') /\ Cardinality(fed') = Cardinality(fed) + 1 /\ Cardinality(fed) \in Nat
      /\ IsFiniteSet(BusyThreads) /\ Cardinality(BusyThreads) \in Nat
  <2>1. IsFiniteSet(fed) /\ IsFiniteSet(BusyThreads)
    BY DEF ProcInv, DropsInv
  <2>2. IsFiniteSet(fed \cup {td}) /\ Cardinality(fed \cup {td}) = Cardinality(fed) + 1
    BY <1>1, <2>1, FS_AddElement
  <2> QED
    BY <1>1, <2>1, <2>2, FS_CardinalityType
<1>6. IsFiniteSet(UnitsOf(Entered')) /\ Total(Entered) \in Nat /\ Total(Entered') = Total(Entered) + Len(td)
  <2>1. /\ td \notin DOMAIN Entered /\ DOMAIN Entered' = DOMAIN Entered \cup {td}
        /\ \A x \in DOMAIN Entered : Entered'[x] = Entered[x]
        /\ Entered'[td] = Len(td)
    BY <1>1 DEF Entered
  <2>2. IsFiniteSet(UnitsOf(Entered))
    BY DEF ProcInv, SpansInv
  <2> DEFINE f == Entered'
             g == Entered
  <2> HIDE DEF f, g
  <2>3. /\ IsFiniteSet(UnitsOf(f)) <=> IsFiniteSet(UnitsOf(g))
        /\ IsFiniteSet(UnitsOf(g)) => Total(g) \in Nat /\ Total(f) = Total(g) + f[td]
    BY <1>3, <2>1, TotalSplit DEF f, g
  <2> QED
    BY <2>1, <2>2, <2>3 DEF f, g
<1>7. Done \subseteq UNION {ToSet(x) : x \in fed'} /\ fed' \subseteq ProcPayloads
  BY <1>1 DEF ProcInv, PayloadInv
<1>8. CASE hardExceed
  <2>1. stage' = stage /\ work' = work /\ dropCount' = dropCount + 1 /\ hardDrops' = hardDrops + 1
    BY <1>1, <1>8
  <2>2. ProcType'
    BY <1>1, <2>1 DEF ProcInv, ProcType
  <2>3. PayloadInv'
    BY <1>1, <1>4, <1>7, <2>1 DEF ProcInv, PayloadInv, Filtered
  <2>4. DropsInv'
    <3>1. BusyThreads' = BusyThreads
      BY <2>1 DEF BusyThreads
    <3>2. /\ dropCount = hardDrops + (counter \div DropEvery) /\ hardDrops \in Nat
          /\ Cardinality(fed) >= dropCount + Cardinality(BusyThreads) /\ dropCount \in Nat
          /\ counter \div DropEvery \in Nat
      BY NextQuotient, ProcessorsAssumption DEF ProcInv, DropsInv, ProcType
    <3>3. dropCount' = hardDrops' + (counter' \div DropEvery)
      BY <1>1, <2>1, <3>2
    <3>4. Cardinality(fed') >= dropCount' + Cardinality(BusyThreads')
      BY <1>5, <2>1, <3>1, <3>2
    <3> QED
      BY <1>5, <3>1, <3>3, <3>4 DEF DropsInv
  <2>5. SpansInv'
    <3>1. /\ SpansOf(Tapped)' = SpansOf(Tapped) /\ SpansOf(Untracked)' = SpansOf(Untracked)
          /\ SpansOf(Untapped)' = SpansOf(Untapped) /\ TablesFinite'
      BY <2>1 DEF ProcInv, SpansInv, TablesFinite, SpansOf, KeptIn, InStage, Tapped, Untracked, Untapped
    <3>2. SpansOf(Untapped) \in Nat /\ callsTotal \in Nat /\ droppedCount \in Nat
      BY FS_CardinalityType DEF ProcInv, ProcType, SpansInv, TablesFinite, SpansOf, Total, KeptIn
    <3>3. callsTotal + droppedCount + SpansOf(Untapped) <= Total(Entered')
      BY <1>3, <1>6, <3>2 DEF ProcInv, SpansInv
    <3> QED
      BY <1>1, <1>4, <1>6, <3>1, <3>3 DEF ProcInv, SpansInv
  <2> QED
    BY <1>4, <2>2, <2>3, <2>4, <2>5 DEF ProcInv
<1>9. CASE ~hardExceed
  <2>1. /\ To(t, "soft") /\ work' = [work EXCEPT ![t] = [td |-> td, kept |-> td]]
        /\ dropCount' = dropCount /\ hardDrops' = hardDrops
    BY <1>1, <1>9
  <2>2. /\ stage' \in [ProcThreads -> {"out", "soft", "filter", "attributes", "metrics",
                                       "track", "add", "sample"}]
        /\ stage'[t] = "soft" /\ \A u \in ProcThreads : u # t => stage'[u] = stage[u]
    BY <2>1, StageStep
  <2>3. /\ work'[t].td = td /\ work'[t].kept = td
        /\ \A u \in ProcThreads : u # t => work'[u] = work[u]
        /\ work' \in [ProcThreads -> [td : ProcPayloads \cup {<< >>}, kept : Seq(ChainSpans)]]
    BY <1>3, <2>1 DEF ProcInv, ProcType
  <2>4. ProcType'
    BY <1>1, <2>1, <2>2, <2>3 DEF ProcInv, ProcType
  <2>5. PayloadInv'
    <3>1. PayloadInv
      BY DEF ProcInv
    <3>2. ToSet(td) \cap Done = {}
      <4> SUFFICES ASSUME NEW x \in ToSet(td), x \in Done PROVE FALSE
        OBVIOUS
      <4>1. PICK other \in fed : x \in ToSet(other)
        BY <3>1 DEF PayloadInv
      <4>2. other \in ProcPayloads /\ other # td
        BY <1>1, <3>1 DEF PayloadInv
      <4> QED
        BY <1>2, <4>1, <4>2
    <3>3. \A u \in ProcThreads : stage'[u] # "out" =>
             /\ work'[u].td \in fed' /\ IsInjective(work'[u].kept)
             /\ ToSet(work'[u].kept) \subseteq ToSet(work'[u].td)
             /\ ToSet(work'[u].td) \cap Done = {}
      <4> SUFFICES ASSUME NEW u \in ProcThreads, stage'[u] # "out"
                   PROVE  /\ work'[u].td \in fed' /\ IsInjective(work'[u].kept)
                          /\ ToSet(work'[u].kept) \subseteq ToSet(work'[u].td)
                          /\ ToSet(work'[u].td) \cap Done = {}
        OBVIOUS
      <4>1. CASE u = t
        BY <1>1, <1>2, <2>3, <3>2, <4>1
      <4>2. CASE u # t
        BY <1>1, <2>2, <2>3, <3>1, <4>2 DEF PayloadInv
      <4> QED
        BY <4>1, <4>2
    <3>4. \A u \in ProcThreads : u # t /\ stage'[u] # "out" => work'[u].td # td
      BY <1>1, <2>2, <2>3, <3>1 DEF PayloadInv
    <3>5. \A u, v \in ProcThreads :
             u # v /\ stage'[u] # "out" /\ stage'[v] # "out" => work'[u].td # work'[v].td
      <4> SUFFICES ASSUME NEW u \in ProcThreads, NEW v \in ProcThreads, u # v, stage'[u] # "out",
                          stage'[v] # "out"
                   PROVE  work'[u].td # work'[v].td
        OBVIOUS
      <4>1. CASE u # t /\ v # t
        BY <2>2, <2>3, <3>1, <4>1 DEF PayloadInv
      <4>2. CASE u = t \/ v = t
        BY <2>3, <3>4, <4>2
      <4> QED
        BY <4>1, <4>2
    <3>6. \A u \in ProcThreads : stage'[u] \in Filtered =>
             u # t /\ \A s \in ToSet(work'[u].kept) : Matches(s) = Include
      BY <2>2, <2>3, <3>1 DEF PayloadInv, Filtered
    <3>7. \A u \in ProcThreads : stage'[u] = "add" => Service(work'[u].td) \in DOMAIN throughput'
      BY <1>1, <2>2, <2>3, <3>1 DEF PayloadInv
    <3> QED
      BY <1>1, <1>4, <1>7, <3>1, <3>3, <3>5, <3>6, <3>7 DEF PayloadInv, Filtered
  <2>6. DropsInv'
    <3>1. BusyThreads' = BusyThreads \cup {t} /\ t \notin BusyThreads
      BY <1>1, <2>2 DEF BusyThreads
    <3>2. IsFiniteSet(BusyThreads') /\ Cardinality(BusyThreads') = Cardinality(BusyThreads) + 1
      BY <1>5, <3>1, FS_AddElement
    <3>3. /\ dropCount = hardDrops + (counter \div DropEvery) /\ dropCount \in Nat
          /\ Cardinality(fed) >= dropCount + Cardinality(BusyThreads)
      BY DEF ProcInv, DropsInv, ProcType
    <3>4. Cardinality(fed') >= dropCount' + Cardinality(BusyThreads')
      BY <1>5, <2>1, <3>2, <3>3
    <3> QED
      BY <1>1, <1>5, <2>1, <3>2, <3>3, <3>4 DEF DropsInv
  <2>7. SpansInv'
    <3>1. /\ TablesFinite'
          /\ SpansOf(Tapped) \in Nat /\ SpansOf(Untracked) \in Nat /\ SpansOf(Untapped) \in Nat
          /\ SpansOf(Tapped)' = SpansOf(Tapped) - HeldAt(t, Tapped) + HeldAt(t, Tapped)'
          /\ SpansOf(Untracked)' = SpansOf(Untracked) - HeldAt(t, Untracked) + HeldAt(t, Untracked)'
          /\ SpansOf(Untapped)' = SpansOf(Untapped) - HeldAt(t, Untapped) + HeldAt(t, Untapped)'
      BY <1>3, <2>2, <2>3, TotalsStep
    <3>2. /\ HeldAt(t, Tapped) = 0 /\ HeldAt(t, Tapped)' = 0 /\ HeldAt(t, Untracked) = 0
          /\ HeldAt(t, Untracked)' = 0 /\ HeldAt(t, Untapped) = 0 /\ HeldAt(t, Untapped)' = Len(td)
      BY <1>1, <2>2, <2>3 DEF HeldAt, Tapped, Untracked, Untapped
    <3>3. /\ SpansOf(Tapped)' = SpansOf(Tapped) /\ SpansOf(Untracked)' = SpansOf(Untracked)
          /\ SpansOf(Untapped)' = SpansOf(Untapped) + Len(td)
      BY <1>3, <3>1, <3>2
    <3>4. callsTotal \in Nat /\ droppedCount \in Nat
      BY DEF ProcInv, ProcType
    <3>5. callsTotal + droppedCount + SpansOf(Untapped)' <= Total(Entered')
      BY <1>3, <1>6, <3>1, <3>3, <3>4 DEF ProcInv, SpansInv
    <3> QED
      BY <1>1, <1>4, <1>6, <3>1, <3>3, <3>5 DEF ProcInv, SpansInv
  <2> QED
    BY <1>4, <2>4, <2>5, <2>6, <2>7 DEF ProcInv
<1> QED
  BY <1>8, <1>9

(* LimitSoft: the payload goes on, or is every DropEvery-th.               *)
LEMMA ProcLimitSoft ==
    ASSUME ProcInv, NEW t \in ProcThreads, LimitSoft(t)
    PROVE  ProcInv'
<1> DEFINE drop == softExceed /\ (counter + 1) % DropEvery = 0
           n == Len(work[t].kept)
<1>1. /\ stage[t] = "soft" /\ counter' = (IF softExceed THEN counter + 1 ELSE counter)
      /\ (drop => dropCount' = dropCount + 1 /\ To(t, "out"))
      /\ (~drop => dropCount' = dropCount /\ To(t, "filter"))
      /\ hardDrops' = hardDrops /\ work' = work /\ fed' = fed /\ passed' = passed
      /\ rates' = rates /\ throughput' = throughput /\ swapped' = swapped
      /\ sampledOut' = sampledOut /\ callsTotal' = callsTotal /\ droppedCount' = droppedCount
      /\ UNCHANGED <<hardExceed, softExceed, monitor, level>>
  BY DEF LimitSoft, At, sampler
<1>2. /\ stage' \in [ProcThreads -> {"out", "soft", "filter", "attributes", "metrics",
                                     "track", "add", "sample"}]
      /\ \A u \in ProcThreads : u # t => stage'[u] = stage[u]
      /\ drop => stage'[t] = "out"
      /\ ~drop => stage'[t] = "filter"
  BY <1>1, StageStep
<1>3. n \in Nat /\ counter \in Nat /\ dropCount \in Nat /\ hardDrops \in Nat
  BY ThreadHas DEF ProcInv, ProcType
<1>4. ProcType'
  BY <1>1, <1>2, <1>3 DEF ProcInv, ProcType
<1>5. RatesType' /\ FlagsInv' /\ Done' = Done /\ Entered' = Entered
  BY <1>1 DEF ProcInv, RatesType, FlagsInv, Done, Entered
<1>6. PayloadInv'
  <2>1. IsInjective(work[t].kept)
    BY <1>1 DEF ProcInv, PayloadInv
  <2>2. stage'[t] \notin Filtered /\ stage'[t] # "add"
    BY <1>2 DEF Filtered
  <2> QED
    BY <1>1, <1>2, <2>1, <2>2, PayloadKept
<1>7. DropsInv'
  <2>1. /\ IsFiniteSet(BusyThreads') /\ Cardinality(BusyThreads) \in Nat
        /\ Cardinality(BusyThreads') \in Nat
        /\ Cardinality(BusyThreads') = Cardinality(BusyThreads) - (IF stage'[t] = "out" THEN 1 ELSE 0)
    BY <1>1, <1>2, BusyStep
  <2>2. /\ dropCount = hardDrops + (counter \div DropEvery) /\ IsFiniteSet(fed)
        /\ Cardinality(fed) >= dropCount + Cardinality(BusyThreads)
    BY DEF ProcInv, DropsInv
  <2>3. /\ counter \div DropEvery \in Nat
        /\ (counter + 1) \div DropEvery
              = (counter \div DropEvery) + (IF (counter + 1) % DropEvery = 0 THEN 1 ELSE 0)
    BY <1>3, NextQuotient, ProcessorsAssumption
  <2>4. dropCount' = hardDrops' + (counter' \div DropEvery)
    <3>1. CASE drop
      BY <1>1, <1>3, <2>2, <2>3, <3>1
    <3>2. CASE ~drop /\ softExceed
      BY <1>1, <1>3, <2>2, <2>3, <3>2
    <3>3. CASE ~softExceed
      BY <1>1, <2>2, <3>3
    <3> QED
      BY <3>1, <3>2, <3>3
  <2>5. Cardinality(fed') >= dropCount' + Cardinality(BusyThreads')
    <3>1. Cardinality(fed) \in Nat
      BY <2>2, FS_CardinalityType
    <3>2. CASE drop
      BY <1>1, <1>2, <1>3, <2>1, <2>2, <3>1, <3>2
    <3>3. CASE ~drop
      BY <1>1, <1>2, <1>3, <2>1, <2>2, <3>1, <3>3
    <3> QED
      BY <3>2, <3>3
  <2> QED
    BY <1>1, <2>1, <2>2, <2>4, <2>5 DEF DropsInv
<1>8. SpansInv'
  <2>1. /\ TablesFinite'
        /\ SpansOf(Tapped) \in Nat /\ SpansOf(Untracked) \in Nat /\ SpansOf(Untapped) \in Nat
        /\ SpansOf(Tapped)' = SpansOf(Tapped) - HeldAt(t, Tapped) + HeldAt(t, Tapped)'
        /\ SpansOf(Untracked)' = SpansOf(Untracked) - HeldAt(t, Untracked) + HeldAt(t, Untracked)'
        /\ SpansOf(Untapped)' = SpansOf(Untapped) - HeldAt(t, Untapped) + HeldAt(t, Untapped)'
        /\ SpansOf(Untapped)' \in Nat
    BY <1>1, <1>2, <1>3, TotalsStep
  <2>2. /\ HeldAt(t, Tapped) = 0 /\ HeldAt(t, Tapped)' = 0 /\ HeldAt(t, Untracked) = 0
        /\ HeldAt(t, Untracked)' = 0 /\ HeldAt(t, Untapped) = n /\ HeldAt(t, Untapped)' \in {0, n}
    BY <1>1, <1>2 DEF HeldAt, Tapped, Untracked, Untapped
  <2>3. /\ SpansOf(Tapped)' = SpansOf(Tapped) /\ SpansOf(Untracked)' = SpansOf(Untracked)
        /\ SpansOf(Untapped)' <= SpansOf(Untapped)
    BY <1>3, <2>1, <2>2
  <2>4. callsTotal \in Nat /\ droppedCount \in Nat /\ Total(Entered) \in Nat
    BY FS_CardinalityType DEF ProcInv, ProcType, SpansInv, Total
  <2>5. callsTotal + droppedCount + SpansOf(Untapped)' <= Total(Entered)
    BY <2>1, <2>3, <2>4 DEF ProcInv, SpansInv
  <2> QED
    BY <1>1, <1>5, <2>1, <2>3, <2>5 DEF ProcInv, SpansInv
<1> QED
  BY <1>4, <1>5, <1>6, <1>7, <1>8 DEF ProcInv

(* What the filter keeps is counted as what it drops is not.               *)
LEMMA KeepOfInjective ==
    ASSUME NEW T, NEW s \in Seq(T), IsInjective(s), NEW S
    PROVE  /\ Keep(s, S) \in Seq(T) /\ IsInjective(Keep(s, S))
           /\ ToSet(Keep(s, S)) = ToSet(s) \cap S
           /\ Len(Keep(s, S)) \in Nat /\ Len(s) \in Nat /\ Len(Keep(s, S)) <= Len(s)
<1> DEFINE k == Keep(s, S)
<1>1. k \in Seq(T) /\ ToSet(k) = ToSet(s) \cap S /\ InOrderOf(k, s)
  BY KeepProperties
<1> HIDE DEF k
<1>2. IsInjective(k)
  BY <1>1, InOrderOfInjective
<1>3. /\ IsFiniteSet(ToSet(s)) /\ Cardinality(ToSet(s)) = Len(s)
      /\ IsFiniteSet(ToSet(k)) /\ Cardinality(ToSet(k)) = Len(k)
  BY <1>1, <1>2, CardinalityOfInjective
<1>4. ToSet(k) \subseteq ToSet(s)
  BY <1>1
<1>5. Cardinality(ToSet(k)) <= Cardinality(ToSet(s))
  BY <1>3, <1>4, FS_Subset
<1>6. Len(k) \in Nat /\ Len(s) \in Nat
  BY <1>1, LenProperties
<1> QED
  BY <1>1, <1>2, <1>3, <1>5, <1>6 DEF k

LEMMA ProcFilters ==
    ASSUME ProcInv, NEW t \in ProcThreads, FilterSpans(t)
    PROVE  ProcInv'
<1> DEFINE s == work[t].kept
           S == {x \in ToSet(s) : Matches(x) = Include}
           k == Keep(s, S)
           n == Len(s)
           m == Len(k)
<1>1. /\ stage[t] = "filter" /\ To(t, "attributes")
      /\ work' = [work EXCEPT ![t].kept = k] /\ droppedCount' = droppedCount + n - m
      /\ counter' = counter /\ dropCount' = dropCount /\ hardDrops' = hardDrops
      /\ fed' = fed /\ passed' = passed
      /\ rates' = rates /\ throughput' = throughput /\ swapped' = swapped
      /\ sampledOut' = sampledOut /\ callsTotal' = callsTotal
      /\ UNCHANGED <<hardExceed, softExceed, monitor, level>>
  BY DEF FilterSpans, At, sampler, limiter
<1>2. /\ stage' \in [ProcThreads -> {"out", "soft", "filter", "attributes", "metrics",
                                     "track", "add", "sample"}]
      /\ \A u \in ProcThreads : u # t => stage'[u] = stage[u]
      /\ stage'[t] = "attributes"
  BY <1>1, StageStep
<1>3. s \in Seq(ChainSpans) /\ IsInjective(s)
  BY <1>1, ThreadHas DEF ProcInv, PayloadInv
<1>4. k \in Seq(ChainSpans) /\ IsInjective(k) /\ ToSet(k) = ToSet(s) \cap S
      /\ m \in Nat /\ n \in Nat /\ m <= n
  BY <1>3, KeepOfInjective
<1>5. /\ work'[t].kept = k /\ work'[t].td = work[t].td
      /\ \A u \in ProcThreads : u # t => work'[u] = work[u]
      /\ work' \in [ProcThreads -> [td : ProcPayloads \cup {<< >>}, kept : Seq(ChainSpans)]]
  <2> HIDE DEF k
  <2>1. work[t] \in [td : ProcPayloads \cup {<< >>}, kept : Seq(ChainSpans)]
        /\ work \in [ProcThreads -> [td : ProcPayloads \cup {<< >>}, kept : Seq(ChainSpans)]]
    BY DEF ProcInv, ProcType
  <2> QED
    BY <1>1, <1>4, <2>1
<1> HIDE DEF k, m
<1>6. droppedCount' \in Nat /\ ProcType'
  <2>1. droppedCount \in Nat
    BY DEF ProcInv, ProcType
  <2>2. droppedCount' \in Nat
    BY <1>1, <1>4, <2>1
  <2> QED
    BY <1>1, <1>2, <1>5, <2>2 DEF ProcInv, ProcType
<1>7. RatesType' /\ FlagsInv' /\ Done' = Done /\ Entered' = Entered
  BY <1>1 DEF ProcInv, RatesType, FlagsInv, Done, Entered
<1>8. PayloadInv'
  <2>1. ToSet(k) \subseteq ToSet(s) /\ \A x \in ToSet(k) : Matches(x) = Include
    BY <1>4
  <2> QED
    BY <1>1, <1>2, <1>4, <1>5, <2>1, PayloadKept
<1>9. DropsInv'
  BY <1>1, <1>2, DropsKept
<1>10. SpansInv'
  <2>1. /\ TablesFinite'
        /\ SpansOf(Tapped) \in Nat /\ SpansOf(Untracked) \in Nat /\ SpansOf(Untapped) \in Nat
        /\ SpansOf(Tapped)' = SpansOf(Tapped) - HeldAt(t, Tapped) + HeldAt(t, Tapped)'
        /\ SpansOf(Untracked)' = SpansOf(Untracked) - HeldAt(t, Untracked) + HeldAt(t, Untracked)'
        /\ SpansOf(Untapped)' = SpansOf(Untapped) - HeldAt(t, Untapped) + HeldAt(t, Untapped)'
    <3>1. Len(work'[t].kept) \in Nat
      BY <1>4, <1>5 DEF m
    <3> QED
      BY <1>2, <1>5, <3>1, TotalsStep
  <2>2. /\ HeldAt(t, Tapped) = 0 /\ HeldAt(t, Tapped)' = 0 /\ HeldAt(t, Untracked) = 0
        /\ HeldAt(t, Untracked)' = 0 /\ HeldAt(t, Untapped) = n /\ HeldAt(t, Untapped)' = m
    BY <1>1, <1>2, <1>5 DEF HeldAt, Tapped, Untracked, Untapped, m
  <2>3. /\ SpansOf(Tapped)' = SpansOf(Tapped) /\ SpansOf(Untracked)' = SpansOf(Untracked)
        /\ SpansOf(Untapped)' = SpansOf(Untapped) - n + m
    BY <1>4, <2>1, <2>2
  <2>4. callsTotal \in Nat /\ droppedCount \in Nat
    BY DEF ProcInv, ProcType
  <2>5. callsTotal + droppedCount' + SpansOf(Untapped)' = callsTotal + droppedCount + SpansOf(Untapped)
    BY SMTT(30), <1>1, <1>4, <2>1, <2>3, <2>4
  <2> QED
    BY <1>1, <1>7, <2>1, <2>3, <2>5 DEF ProcInv, SpansInv
<1> QED
  BY <1>6, <1>7, <1>8, <1>9, <1>10 DEF ProcInv

(* SetAttributes changes no count.                                         *)
LEMMA ProcSetsAttributes ==
    ASSUME ProcInv, NEW t \in ProcThreads, SetAttributes(t)
    PROVE  ProcInv'
<1> DEFINE n == Len(work[t].kept)
<1>1. /\ stage[t] = "attributes" /\ To(t, "metrics")
      /\ counter' = counter /\ dropCount' = dropCount /\ hardDrops' = hardDrops
      /\ work' = work /\ fed' = fed /\ passed' = passed /\ droppedCount' = droppedCount
      /\ rates' = rates /\ throughput' = throughput /\ swapped' = swapped
      /\ sampledOut' = sampledOut /\ callsTotal' = callsTotal
      /\ UNCHANGED <<hardExceed, softExceed, monitor, level>>
  BY DEF SetAttributes, At, sampler, limiter
<1>2. /\ stage' \in [ProcThreads -> {"out", "soft", "filter", "attributes", "metrics",
                                     "track", "add", "sample"}]
      /\ \A u \in ProcThreads : u # t => stage'[u] = stage[u]
      /\ stage'[t] = "metrics"
  BY <1>1, StageStep
<1>3. n \in Nat /\ IsInjective(work[t].kept)
      /\ \A s \in ToSet(work[t].kept) : Matches(s) = Include
  BY <1>1, ThreadHas DEF ProcInv, PayloadInv, Filtered
<1>4. ProcType'
  BY <1>1, <1>2 DEF ProcInv, ProcType
<1>5. RatesType' /\ FlagsInv' /\ Done' = Done /\ Entered' = Entered
  BY <1>1 DEF ProcInv, RatesType, FlagsInv, Done, Entered
<1>6. PayloadInv'
  BY <1>1, <1>2, <1>3, PayloadKept
<1>7. DropsInv'
  BY <1>1, <1>2, DropsKept
<1>8. SpansInv'
  <2>1. /\ TablesFinite'
        /\ SpansOf(Tapped) \in Nat /\ SpansOf(Untracked) \in Nat /\ SpansOf(Untapped) \in Nat
        /\ SpansOf(Tapped)' = SpansOf(Tapped) - HeldAt(t, Tapped) + HeldAt(t, Tapped)'
        /\ SpansOf(Untracked)' = SpansOf(Untracked) - HeldAt(t, Untracked) + HeldAt(t, Untracked)'
        /\ SpansOf(Untapped)' = SpansOf(Untapped) - HeldAt(t, Untapped) + HeldAt(t, Untapped)'
    BY <1>1, <1>2, <1>3, TotalsStep
  <2>2. /\ HeldAt(t, Tapped) = 0 /\ HeldAt(t, Tapped)' = 0 /\ HeldAt(t, Untracked) = 0
        /\ HeldAt(t, Untracked)' = 0 /\ HeldAt(t, Untapped) = n /\ HeldAt(t, Untapped)' = n
    BY <1>1, <1>2 DEF HeldAt, Tapped, Untracked, Untapped
  <2>3. /\ SpansOf(Tapped)' = SpansOf(Tapped) /\ SpansOf(Untracked)' = SpansOf(Untracked)
        /\ SpansOf(Untapped)' = SpansOf(Untapped)
    BY <1>3, <2>1, <2>2
  <2> QED
    BY <1>1, <1>5, <2>1, <2>3 DEF ProcInv, SpansInv
<1> QED
  BY <1>4, <1>5, <1>6, <1>7, <1>8 DEF ProcInv

(* ObserveSpans: the tap.                                                  *)
LEMMA ProcObserves ==
    ASSUME ProcInv, NEW t \in ProcThreads, ObserveSpans(t)
    PROVE  ProcInv'
<1> DEFINE n == Len(work[t].kept)
<1>1. /\ stage[t] = "metrics" /\ To(t, IF work[t].kept = << >> THEN "out" ELSE "track")
      /\ counter' = counter /\ dropCount' = dropCount /\ hardDrops' = hardDrops
      /\ work' = work /\ fed' = fed /\ passed' = passed /\ droppedCount' = droppedCount
      /\ rates' = rates /\ throughput' = throughput /\ swapped' = swapped
      /\ sampledOut' = sampledOut /\ callsTotal' = callsTotal + n
      /\ UNCHANGED <<hardExceed, softExceed, monitor, level>>
  BY DEF ObserveSpans, At, sampler, limiter
<1>2. /\ stage' \in [ProcThreads -> {"out", "soft", "filter", "attributes", "metrics",
                                     "track", "add", "sample"}]
      /\ \A u \in ProcThreads : u # t => stage'[u] = stage[u]
      /\ stage'[t] = IF work[t].kept = << >> THEN "out" ELSE "track"
  <2> DEFINE place == IF work[t].kept = << >> THEN "out" ELSE "track"
  <2>1. To(t, place) /\ place \in {"out", "soft", "filter", "attributes", "metrics", "track", "add", "sample"}
    BY <1>1
  <2> HIDE DEF place
  <2>2. /\ stage' \in [ProcThreads -> {"out", "soft", "filter", "attributes", "metrics",
                                       "track", "add", "sample"}]
        /\ stage'[t] = place /\ \A u \in ProcThreads : u # t => stage'[u] = stage[u]
    BY <2>1, StageStep
  <2> QED
    BY <2>2 DEF place
<1>3. n \in Nat /\ IsInjective(work[t].kept)
      /\ \A s \in ToSet(work[t].kept) : Matches(s) = Include
  BY <1>1, ThreadHas DEF ProcInv, PayloadInv, Filtered
<1>4. ProcType'
  BY <1>1, <1>2, <1>3 DEF ProcInv, ProcType
<1>5. RatesType' /\ FlagsInv' /\ Done' = Done /\ Entered' = Entered
  BY <1>1 DEF ProcInv, RatesType, FlagsInv, Done, Entered
<1>6. PayloadInv'
  <2>1. stage'[t] # "add"
    BY <1>2
  <2> QED
    BY <1>1, <1>2, <1>3, <2>1, PayloadKept
<1>7. DropsInv'
  BY <1>1, <1>2, DropsKept
<1>8. SpansInv'
  <2>1. /\ TablesFinite'
        /\ SpansOf(Tapped) \in Nat /\ SpansOf(Untracked) \in Nat /\ SpansOf(Untapped) \in Nat
        /\ SpansOf(Tapped)' = SpansOf(Tapped) - HeldAt(t, Tapped) + HeldAt(t, Tapped)'
        /\ SpansOf(Untracked)' = SpansOf(Untracked) - HeldAt(t, Untracked) + HeldAt(t, Untracked)'
        /\ SpansOf(Untapped)' = SpansOf(Untapped) - HeldAt(t, Untapped) + HeldAt(t, Untapped)'
    BY <1>1, <1>2, <1>3, TotalsStep
  <2>2. work[t].kept = << >> => n = 0
    BY EmptySeq
  <2>3. /\ HeldAt(t, Tapped) = 0 /\ HeldAt(t, Tapped)' = n /\ HeldAt(t, Untracked) = 0
        /\ HeldAt(t, Untracked)' = n /\ HeldAt(t, Untapped) = n /\ HeldAt(t, Untapped)' = 0
    <3>1. CASE work[t].kept = << >>
      BY <1>1, <1>2, <2>2, <3>1 DEF HeldAt, Tapped, Untracked, Untapped
    <3>2. CASE work[t].kept # << >>
      BY <1>1, <1>2, <3>2 DEF HeldAt, Tapped, Untracked, Untapped
    <3> QED
      BY <3>1, <3>2
  <2>4. /\ SpansOf(Tapped)' = SpansOf(Tapped) + n /\ SpansOf(Untracked)' = SpansOf(Untracked) + n
        /\ SpansOf(Untapped)' = SpansOf(Untapped) - n
    BY <1>3, <2>1, <2>3
  <2>5. /\ callsTotal \in Nat /\ droppedCount \in Nat /\ swapped \in Nat
        /\ Total(throughput) \in Nat /\ Cardinality(Done) \in Nat
    BY FS_CardinalityType DEF ProcInv, ProcType, SpansInv, Total
  <2>6. /\ callsTotal' = SpansOf(Tapped)' + Cardinality(Done)
        /\ callsTotal' = swapped + SpansOf(Untracked)' + Total(throughput)
        /\ callsTotal' + droppedCount + SpansOf(Untapped)' = callsTotal + droppedCount + SpansOf(Untapped)
    <3>1. /\ callsTotal = SpansOf(Tapped) + Cardinality(Done)
          /\ callsTotal = swapped + SpansOf(Untracked) + Total(throughput)
      BY DEF ProcInv, SpansInv
    <3>2. callsTotal' = SpansOf(Tapped)' + Cardinality(Done)
      BY SMTT(30), <1>1, <1>3, <2>1, <2>4, <2>5, <3>1
    <3>3. callsTotal' = swapped + SpansOf(Untracked)' + Total(throughput)
      <4> DEFINE a == SpansOf(Untracked)
                 b == SpansOf(Untracked)'
                 c == Total(throughput)
      <4>1. /\ a \in Nat /\ c \in Nat /\ swapped \in Nat /\ n \in Nat
            /\ b = a + n /\ callsTotal' = callsTotal + n /\ callsTotal = swapped + a + c
        BY <1>1, <1>3, <2>1, <2>4, <2>5, <3>1
      <4> HIDE DEF a, b, c, n
      <4>2. callsTotal' = swapped + b + c
        BY <4>1
      <4> QED
        BY <4>2 DEF a, b, c
    <3>4. callsTotal' + droppedCount + SpansOf(Untapped)' = callsTotal + droppedCount + SpansOf(Untapped)
      <4> DEFINE a == SpansOf(Untapped)
                 b == SpansOf(Untapped)'
      <4>1. /\ a \in Nat /\ n \in Nat /\ callsTotal \in Nat /\ droppedCount \in Nat
            /\ b = a - n /\ callsTotal' = callsTotal + n
        BY <1>1, <1>3, <2>1, <2>4, <2>5
      <4> HIDE DEF a, b, n
      <4>2. callsTotal' + droppedCount + b = callsTotal + droppedCount + a
        BY <4>1
      <4> QED
        BY <4>2 DEF a, b
    <3> QED
      BY <3>2, <3>3, <3>4
  <2> QED
    BY <1>1, <1>5, <2>1, <2>6 DEF ProcInv, SpansInv
<1> QED
  BY <1>4, <1>5, <1>6, <1>7, <1>8 DEF ProcInv

(* TrackThroughput: the counter exists, with what it had or nothing.       *)
LEMMA ProcTracks ==
    ASSUME ProcInv, NEW t \in ProcThreads, TrackThroughput(t)
    PROVE  ProcInv'
<1> DEFINE n == Len(work[t].kept)
           srv == Service(work[t].td)
<1>1. /\ stage[t] = "track" /\ To(t, "add")
      /\ counter' = counter /\ dropCount' = dropCount /\ hardDrops' = hardDrops
      /\ work' = work /\ fed' = fed /\ passed' = passed /\ droppedCount' = droppedCount
      /\ rates' = rates /\ swapped' = swapped
      /\ throughput' = (IF srv \in DOMAIN throughput THEN throughput ELSE WithEntry(throughput, srv, 0))
      /\ sampledOut' = sampledOut /\ callsTotal' = callsTotal
      /\ UNCHANGED <<hardExceed, softExceed, monitor, level>>
  BY DEF TrackThroughput, At, limiter
<1>2. /\ stage' \in [ProcThreads -> {"out", "soft", "filter", "attributes", "metrics",
                                     "track", "add", "sample"}]
      /\ \A u \in ProcThreads : u # t => stage'[u] = stage[u]
      /\ stage'[t] = "add"
  BY <1>1, StageStep
<1>3. n \in Nat /\ IsInjective(work[t].kept)
      /\ \A s \in ToSet(work[t].kept) : Matches(s) = Include
  BY <1>1, ThreadHas DEF ProcInv, PayloadInv, Filtered
<1>4. ProcType'
  BY <1>1, <1>2 DEF ProcInv, ProcType
<1>5. FlagsInv' /\ Done' = Done /\ Entered' = Entered
  BY <1>1 DEF ProcInv, FlagsInv, Done, Entered
<1>6. /\ RatesType' /\ DOMAIN throughput \subseteq DOMAIN throughput' /\ srv \in DOMAIN throughput'
      /\ IsFiniteSet(UnitsOf(throughput')) /\ Total(throughput') = Total(throughput)
  <2>1. RatesType /\ IsFiniteSet(UnitsOf(throughput))
    BY DEF ProcInv, SpansInv
  <2>2. srv \in Services
    BY <1>1, ThreadHas, ProcessorsAssumption
  <2>3. CASE srv \in DOMAIN throughput
    <3>1. throughput' = throughput /\ rates' = rates
      BY <1>1, <2>3
    <3> QED
      BY <2>1, <2>3, <3>1 DEF RatesType
  <2>4. CASE srv \notin DOMAIN throughput
    <3>1. /\ DOMAIN throughput' = DOMAIN throughput \cup {srv}
          /\ throughput' = [x \in DOMAIN throughput' |-> throughput'[x]]
          /\ \A x \in DOMAIN throughput : throughput'[x] = throughput[x]
          /\ throughput'[srv] = 0
      BY <1>1, <2>4 DEF WithEntry
    <3>2. \A x \in DOMAIN throughput' : throughput'[x] \in Nat
      BY <2>1, <3>1 DEF RatesType
    <3>3. RatesType'
      BY <1>1, <2>1, <2>2, <3>1, <3>2 DEF RatesType
    <3> DEFINE f == throughput'
               g == throughput
    <3>4. /\ srv \notin DOMAIN g /\ DOMAIN f = DOMAIN g \cup {srv} /\ f[srv] \in Nat
          /\ \A x \in DOMAIN g : f[x] = g[x]
      BY <2>4, <3>1
    <3> HIDE DEF f, g
    <3>5. /\ IsFiniteSet(UnitsOf(f)) <=> IsFiniteSet(UnitsOf(g))
          /\ IsFiniteSet(UnitsOf(g)) => Total(g) \in Nat /\ Total(f) = Total(g) + f[srv]
      BY <3>4, TotalSplit
    <3>6. IsFiniteSet(UnitsOf(throughput')) /\ Total(throughput') = Total(throughput)
      BY <2>1, <3>1, <3>5 DEF f, g
    <3> QED
      BY <3>1, <3>3, <3>6
  <2> QED
    BY <2>3, <2>4
<1>7. PayloadInv'
  BY <1>1, <1>2, <1>3, <1>6, PayloadKept
<1>8. DropsInv'
  BY <1>1, <1>2, DropsKept
<1>9. SpansInv'
  <2>1. /\ TablesFinite'
        /\ SpansOf(Tapped) \in Nat /\ SpansOf(Untracked) \in Nat /\ SpansOf(Untapped) \in Nat
        /\ SpansOf(Tapped)' = SpansOf(Tapped) - HeldAt(t, Tapped) + HeldAt(t, Tapped)'
        /\ SpansOf(Untracked)' = SpansOf(Untracked) - HeldAt(t, Untracked) + HeldAt(t, Untracked)'
        /\ SpansOf(Untapped)' = SpansOf(Untapped) - HeldAt(t, Untapped) + HeldAt(t, Untapped)'
    BY <1>1, <1>2, <1>3, TotalsStep
  <2>2. /\ HeldAt(t, Tapped) = n /\ HeldAt(t, Tapped)' = n /\ HeldAt(t, Untracked) = n
        /\ HeldAt(t, Untracked)' = n /\ HeldAt(t, Untapped) = 0 /\ HeldAt(t, Untapped)' = 0
    BY <1>1, <1>2 DEF HeldAt, Tapped, Untracked, Untapped
  <2>3. /\ SpansOf(Tapped)' = SpansOf(Tapped) /\ SpansOf(Untracked)' = SpansOf(Untracked)
        /\ SpansOf(Untapped)' = SpansOf(Untapped)
    BY SMTT(30), <1>3, <2>1, <2>2
  <2> QED
    BY <1>1, <1>5, <1>6, <2>1, <2>3 DEF ProcInv, SpansInv
<1> QED
  BY <1>4, <1>5, <1>6, <1>7, <1>8, <1>9 DEF ProcInv

(* AddThroughput.                                                          *)
LEMMA ProcAdds ==
    ASSUME ProcInv, NEW t \in ProcThreads, AddThroughput(t)
    PROVE  ProcInv'
<1> DEFINE n == Len(work[t].kept)
           srv == Service(work[t].td)
<1>1. /\ stage[t] = "add" /\ To(t, "sample")
      /\ counter' = counter /\ dropCount' = dropCount /\ hardDrops' = hardDrops
      /\ work' = work /\ fed' = fed /\ passed' = passed /\ droppedCount' = droppedCount
      /\ rates' = rates /\ swapped' = swapped
      /\ throughput' = [throughput EXCEPT ![srv] = @ + n]
      /\ sampledOut' = sampledOut /\ callsTotal' = callsTotal
      /\ UNCHANGED <<hardExceed, softExceed, monitor, level>>
  BY DEF AddThroughput, At, limiter
<1>2. /\ stage' \in [ProcThreads -> {"out", "soft", "filter", "attributes", "metrics",
                                     "track", "add", "sample"}]
      /\ \A u \in ProcThreads : u # t => stage'[u] = stage[u]
      /\ stage'[t] = "sample"
  BY <1>1, StageStep
<1>3. n \in Nat /\ IsInjective(work[t].kept) /\ srv \in DOMAIN throughput
      /\ \A s \in ToSet(work[t].kept) : Matches(s) = Include
  BY <1>1, ThreadHas DEF ProcInv, PayloadInv, Filtered
<1>4. ProcType'
  BY <1>1, <1>2 DEF ProcInv, ProcType
<1>5. FlagsInv' /\ Done' = Done /\ Entered' = Entered
  BY <1>1 DEF ProcInv, FlagsInv, Done, Entered
<1>6. /\ RatesType' /\ DOMAIN throughput' = DOMAIN throughput
      /\ IsFiniteSet(UnitsOf(throughput')) /\ Total(throughput) \in Nat
      /\ Total(throughput') = Total(throughput) + n
  <2>1. RatesType /\ IsFiniteSet(UnitsOf(throughput)) /\ throughput[srv] \in Nat
    BY <1>3 DEF ProcInv, SpansInv, RatesType
  <2>2. /\ DOMAIN throughput' = DOMAIN throughput
        /\ throughput' = [x \in DOMAIN throughput' |-> throughput'[x]]
        /\ \A x \in DOMAIN throughput : x # srv => throughput'[x] = throughput[x]
        /\ throughput'[srv] = throughput[srv] + n
    BY <1>1, <1>3, <2>1 DEF RatesType
  <2>3. \A x \in DOMAIN throughput' : throughput'[x] \in Nat
    BY <1>3, <2>1, <2>2 DEF RatesType
  <2>4. RatesType'
    BY <1>1, <2>1, <2>2, <2>3 DEF RatesType
  <2> DEFINE f == throughput
             g == throughput'
  <2>5. /\ srv \in DOMAIN f /\ DOMAIN g = DOMAIN f /\ \A x \in DOMAIN f : x # srv => g[x] = f[x]
        /\ f[srv] \in Nat /\ g[srv] \in Nat /\ IsFiniteSet(UnitsOf(f)) /\ g[srv] = f[srv] + n
    BY <1>3, <2>1, <2>2, <2>3
  <2> HIDE DEF f, g
  <2>6. /\ IsFiniteSet(UnitsOf(g)) /\ Total(f) \in Nat /\ Total(g) = Total(f) - f[srv] + g[srv]
    BY <2>5, TotalUpdate
  <2>7. Total(g) = Total(f) + n
    BY <1>3, <2>5, <2>6
  <2> QED
    BY <2>2, <2>4, <2>6, <2>7 DEF f, g
<1>7. PayloadInv'
  BY <1>1, <1>2, <1>3, <1>6, PayloadKept
<1>8. DropsInv'
  BY <1>1, <1>2, DropsKept
<1>9. SpansInv'
  <2>1. /\ TablesFinite'
        /\ SpansOf(Tapped) \in Nat /\ SpansOf(Untracked) \in Nat /\ SpansOf(Untapped) \in Nat
        /\ SpansOf(Tapped)' = SpansOf(Tapped) - HeldAt(t, Tapped) + HeldAt(t, Tapped)'
        /\ SpansOf(Untracked)' = SpansOf(Untracked) - HeldAt(t, Untracked) + HeldAt(t, Untracked)'
        /\ SpansOf(Untapped)' = SpansOf(Untapped) - HeldAt(t, Untapped) + HeldAt(t, Untapped)'
    BY <1>1, <1>2, <1>3, TotalsStep
  <2>2. /\ HeldAt(t, Tapped) = n /\ HeldAt(t, Tapped)' = n /\ HeldAt(t, Untracked) = n
        /\ HeldAt(t, Untracked)' = 0 /\ HeldAt(t, Untapped) = 0 /\ HeldAt(t, Untapped)' = 0
    BY <1>1, <1>2 DEF HeldAt, Tapped, Untracked, Untapped
  <2>3. /\ SpansOf(Tapped)' = SpansOf(Tapped) /\ SpansOf(Untracked)' = SpansOf(Untracked) - n
        /\ SpansOf(Untapped)' = SpansOf(Untapped)
    BY <1>3, <2>1, <2>2
  <2>4. swapped \in Nat
    BY DEF ProcInv, ProcType
  <2>5. callsTotal = swapped + SpansOf(Untracked)' + Total(throughput')
    BY <1>3, <1>6, <2>1, <2>3, <2>4 DEF ProcInv, SpansInv
  <2> QED
    BY <1>1, <1>5, <1>6, <2>1, <2>3, <2>5 DEF ProcInv, SpansInv
<1> QED
  BY <1>4, <1>5, <1>6, <1>7, <1>8, <1>9 DEF ProcInv

(* SampleSpans: each span comes through or is dropped.                     *)
LEMMA ProcSamples ==
    ASSUME ProcInv, NEW t \in ProcThreads, SampleSpans(t)
    PROVE  ProcInv'
<1> DEFINE n == Len(work[t].kept)
           all == ToSet(work[t].kept)
           in == {s \in all : ShouldSample(s, Current(work[t].td))}
<1>1. /\ stage[t] = "sample" /\ To(t, "out")
      /\ counter' = counter /\ dropCount' = dropCount /\ hardDrops' = hardDrops
      /\ work' = work /\ fed' = fed /\ droppedCount' = droppedCount
      /\ rates' = rates /\ swapped' = swapped /\ throughput' = throughput
      /\ passed' = passed \cup in /\ sampledOut' = sampledOut \cup (all \ in)
      /\ callsTotal' = callsTotal /\ UNCHANGED <<hardExceed, softExceed, monitor, level>>
  BY DEF SampleSpans, At, limiter
<1>2. /\ stage' \in [ProcThreads -> {"out", "soft", "filter", "attributes", "metrics",
                                     "track", "add", "sample"}]
      /\ \A u \in ProcThreads : u # t => stage'[u] = stage[u]
      /\ stage'[t] = "out"
  BY <1>1, StageStep
<1>3. /\ n \in Nat /\ IsInjective(work[t].kept) /\ work[t].kept \in Seq(ChainSpans)
      /\ \A s \in all : Matches(s) = Include
      /\ work[t].td \in fed /\ all \subseteq ToSet(work[t].td) /\ ToSet(work[t].td) \cap Done = {}
  BY <1>1, ThreadHas DEF ProcInv, PayloadInv, Filtered
<1>4. ProcType' /\ RatesType' /\ FlagsInv' /\ Entered' = Entered
  BY <1>1, <1>2 DEF ProcInv, ProcType, RatesType, FlagsInv, Entered
<1>5. Done' = Done \cup all /\ Done \cap all = {}
  BY <1>1, <1>3 DEF Done
<1>6. PayloadInv'
  <2>1. PayloadInv
    BY DEF ProcInv
  <2>2. \A u \in ProcThreads : stage'[u] # "out" => u # t /\ stage[u] # "out"
    BY <1>2
  <2>3. \A u \in ProcThreads : stage'[u] # "out" => ToSet(work[u].td) \cap Done' = {}
    <3> SUFFICES ASSUME NEW u \in ProcThreads, stage'[u] # "out"
                 PROVE  ToSet(work[u].td) \cap Done' = {}
      OBVIOUS
    <3>1. /\ work[u].td \in ProcPayloads /\ work[t].td \in ProcPayloads
          /\ work[u].td # work[t].td /\ ToSet(work[u].td) \cap Done = {}
      BY <1>1, <1>3, <2>1, <2>2 DEF PayloadInv
    <3>2. ToSet(work[u].td) \cap ToSet(work[t].td) = {}
      BY <3>1, ProcessorsAssumption
    <3> QED
      BY <1>3, <1>5, <3>1, <3>2
  <2>4. passed' \cap sampledOut' = {}
    BY <1>1, <1>5, <2>1 DEF PayloadInv, Done
  <2>5. Done' \subseteq UNION {ToSet(td) : td \in fed'} /\ \A s \in Done' : Matches(s) = Include
    BY <1>1, <1>3, <1>5, <2>1 DEF PayloadInv
  <2>6. \A u \in ProcThreads : stage'[u] # "out" =>
           /\ work'[u].td \in fed' /\ IsInjective(work'[u].kept)
           /\ ToSet(work'[u].kept) \subseteq ToSet(work'[u].td)
           /\ ToSet(work'[u].td) \cap Done' = {}
    BY <1>1, <2>1, <2>2, <2>3 DEF PayloadInv
  <2>7. \A u, v \in ProcThreads :
           u # v /\ stage'[u] # "out" /\ stage'[v] # "out" => work'[u].td # work'[v].td
    BY <1>1, <2>1, <2>2 DEF PayloadInv
  <2>8. \A u \in ProcThreads : stage'[u] \in Filtered =>
           \A s \in ToSet(work'[u].kept) : Matches(s) = Include
    BY <1>1, <1>2, <2>1 DEF PayloadInv, Filtered
  <2>9. \A u \in ProcThreads : stage'[u] = "add" => Service(work'[u].td) \in DOMAIN throughput'
    BY <1>1, <1>2, <2>1 DEF PayloadInv
  <2>10. fed' \subseteq ProcPayloads
    BY <1>1, <2>1 DEF PayloadInv
  <2> QED
    BY <2>4, <2>5, <2>6, <2>7, <2>8, <2>9, <2>10 DEF PayloadInv, Filtered
<1>7. DropsInv'
  BY <1>1, <1>2, DropsKept
<1>8. SpansInv'
  <2>1. /\ TablesFinite'
        /\ SpansOf(Tapped) \in Nat /\ SpansOf(Untracked) \in Nat /\ SpansOf(Untapped) \in Nat
        /\ SpansOf(Tapped)' = SpansOf(Tapped) - HeldAt(t, Tapped) + HeldAt(t, Tapped)'
        /\ SpansOf(Untracked)' = SpansOf(Untracked) - HeldAt(t, Untracked) + HeldAt(t, Untracked)'
        /\ SpansOf(Untapped)' = SpansOf(Untapped) - HeldAt(t, Untapped) + HeldAt(t, Untapped)'
    BY <1>1, <1>2, <1>3, TotalsStep
  <2>2. /\ HeldAt(t, Tapped) = n /\ HeldAt(t, Tapped)' = 0 /\ HeldAt(t, Untracked) = 0
        /\ HeldAt(t, Untracked)' = 0 /\ HeldAt(t, Untapped) = 0 /\ HeldAt(t, Untapped)' = 0
    BY <1>1, <1>2 DEF HeldAt, Tapped, Untracked, Untapped
  <2>3. /\ SpansOf(Tapped)' = SpansOf(Tapped) - n /\ SpansOf(Untracked)' = SpansOf(Untracked)
        /\ SpansOf(Untapped)' = SpansOf(Untapped)
    BY <1>3, <2>1, <2>2
  <2>4. IsFiniteSet(all) /\ Cardinality(all) = n /\ IsFiniteSet(Done)
    BY <1>3, CardinalityOfInjective DEF ProcInv, SpansInv
  <2>5. /\ IsFiniteSet(Done') /\ Cardinality(Done) \in Nat
        /\ Cardinality(Done') = Cardinality(Done) + n
    <3> HIDE DEF all, n
    <3>1. /\ IsFiniteSet(Done \cup all)
          /\ Cardinality(Done \cup all) = Cardinality(Done) + Cardinality(all) - Cardinality(Done \cap all)
      BY <2>4, FS_Union
    <3>2. Cardinality(Done \cap all) = 0 /\ Cardinality(Done) \in Nat /\ Cardinality(all) \in Nat
      BY <1>5, <2>4, FS_EmptySet, FS_CardinalityType
    <3> QED
      BY <1>5, <2>4, <3>1, <3>2
  <2>6. callsTotal = SpansOf(Tapped)' + Cardinality(Done')
    BY <1>3, <2>1, <2>3, <2>5 DEF ProcInv, SpansInv
  <2> QED
    BY <1>1, <1>4, <2>1, <2>3, <2>5, <2>6 DEF ProcInv, SpansInv
<1> QED
  BY <1>4, <1>6, <1>7, <1>8 DEF ProcInv

(* The monitor stores one flag, then the other.                            *)
LEMMA ProcMonitors ==
    ASSUME ProcInv, MonitorStoresSoft \/ \E heap \in Heaps : MonitorChecks(heap)
    PROVE  ProcInv'
<1>1. /\ stage' = stage /\ work' = work /\ fed' = fed /\ passed' = passed
      /\ counter' = counter /\ dropCount' = dropCount /\ hardDrops' = hardDrops
      /\ droppedCount' = droppedCount /\ callsTotal' = callsTotal
      /\ rates' = rates /\ swapped' = swapped /\ throughput' = throughput /\ sampledOut' = sampledOut
  BY DEF MonitorStoresSoft, MonitorChecks, sampler
<1>2. FlagsInv'
  <2>1. CASE MonitorStoresSoft
    BY <2>1 DEF MonitorStoresSoft, ProcInv, FlagsInv, Levels
  <2>2. ASSUME NEW heap \in Heaps, MonitorChecks(heap) PROVE FlagsInv'
    <3>1. LevelOf(heap) \in Levels
      BY DEF LevelOf, Levels
    <3> QED
      BY <2>2, <3>1 DEF MonitorChecks, ProcInv, FlagsInv, Levels
  <2> QED
    BY <2>1, <2>2
<1>3. ProcType' /\ RatesType'
  BY <1>1 DEF ProcInv, ProcType, RatesType
<1>4. PayloadInv'
  BY <1>1 DEF ProcInv, PayloadInv, Done, Filtered
<1>5. DropsInv'
  BY <1>1 DEF ProcInv, DropsInv, BusyThreads
<1>6. SpansInv'
  BY <1>1 DEF ProcInv, SpansInv, TablesFinite, SpansOf, KeptIn, InStage, Done, Entered,
              Tapped, Untracked, Untapped
<1> QED
  BY <1>2, <1>3, <1>4, <1>5, <1>6 DEF ProcInv

(* A new rate is within the bounds.                                        *)
LEMMA RateWithinBounds ==
    ASSUME NEW current \in 1 .. Scale, NEW observed \in Nat \ {0}
    PROVE  AdjustedRate(current, observed) \in 1 .. Scale
<1> DEFINE wanted == (3 * Target * Scale) \div observed
           blend == (7 * current + wanted) \div 10
<1>1. Scale \in Nat \ {0} /\ Target \in Nat
  BY ProcessorsAssumption
<1>2. 3 * Target * Scale \in Int
  BY <1>1
<1>3. wanted \in Int
  BY <1>2
<1>4. 7 * current + wanted \in Int
  BY <1>1, <1>3
<1>5. blend \in Int
  BY <1>4
<1>6. AdjustedRate(current, observed) = IF blend < 1 THEN 1 ELSE IF blend > Scale THEN Scale ELSE blend
  BY DEF AdjustedRate
<1> HIDE DEF blend
<1> QED
  BY <1>1, <1>5, <1>6

(* AdjustRates takes what was counted since the last time.                 *)
LEMMA ProcAdjusts ==
    ASSUME ProcInv, AdjustRates
    PROVE  ProcInv'
<1> DEFINE busy == {s \in DOMAIN throughput : throughput[s] > 0}
           current(s) == IF s \in DOMAIN rates THEN rates[s] ELSE InitialRate
<1>1. /\ stage' = stage /\ work' = work /\ fed' = fed /\ passed' = passed
      /\ counter' = counter /\ dropCount' = dropCount /\ hardDrops' = hardDrops
      /\ droppedCount' = droppedCount /\ callsTotal' = callsTotal /\ sampledOut' = sampledOut
      /\ swapped' = swapped + Total(throughput)
      /\ throughput' = [s \in DOMAIN throughput |-> 0]
      /\ UNCHANGED <<hardExceed, softExceed, monitor, level>>
  BY DEF AdjustRates, limiter
<1>2. rates' = [s \in DOMAIN rates \cup busy |->
                   IF s \in busy THEN AdjustedRate(current(s), throughput[s]) ELSE current(s)]
  BY DEF AdjustRates
<1>3. RatesType /\ InitialRate \in 1 .. Scale
  BY ProcessorsAssumption DEF ProcInv
<1>4. \A s \in DOMAIN rates' : rates'[s] \in 1 .. Scale
  <2> SUFFICES ASSUME NEW s \in DOMAIN rates' PROVE rates'[s] \in 1 .. Scale
    OBVIOUS
  <2>1. current(s) \in 1 .. Scale
    BY <1>3 DEF RatesType
  <2>2. CASE s \in busy
    <3>1. throughput[s] \in Nat \ {0}
      BY <1>3, <2>2 DEF RatesType
    <3>2. AdjustedRate(current(s), throughput[s]) \in 1 .. Scale
      BY <2>1, <3>1, RateWithinBounds
    <3> QED
      BY <1>2, <2>2, <3>2
  <2>3. CASE s \notin busy
    BY <1>2, <2>1, <2>3
  <2> QED
    BY <2>2, <2>3
<1>5. RatesType'
  <2>1. DOMAIN rates' = DOMAIN rates \cup busy
    BY <1>2
  <2>2. DOMAIN rates' \subseteq DOMAIN throughput
    BY <1>3, <2>1 DEF RatesType
  <2>3. /\ DOMAIN throughput' = DOMAIN throughput /\ \A s \in DOMAIN throughput : throughput'[s] = 0
        /\ throughput' = [s \in DOMAIN throughput' |-> throughput'[s]]
    BY <1>1
  <2> QED
    BY <1>3, <1>4, <2>2, <2>3 DEF RatesType
<1>6. /\ IsFiniteSet(UnitsOf(throughput')) /\ Total(throughput') = 0 /\ Total(throughput) \in Nat
      /\ DOMAIN throughput' = DOMAIN throughput
  <2>1. DOMAIN throughput' = DOMAIN throughput /\ \A s \in DOMAIN throughput' : throughput'[s] = 0
    BY <1>1
  <2>2. IsFiniteSet(UnitsOf(throughput')) /\ Total(throughput') = 0
    BY <2>1, TotalZero
  <2>3. Total(throughput) \in Nat
    BY FS_CardinalityType DEF ProcInv, SpansInv, Total
  <2> QED
    BY <2>1, <2>2, <2>3
<1>7. ProcType' /\ FlagsInv'
  BY <1>1, <1>6 DEF ProcInv, ProcType, FlagsInv
<1>8. PayloadInv'
  BY <1>1, <1>6 DEF ProcInv, PayloadInv, Done, Filtered
<1>9. DropsInv'
  BY <1>1 DEF ProcInv, DropsInv, BusyThreads
<1>10. SpansInv'
  <2>1. /\ SpansOf(Tapped)' = SpansOf(Tapped) /\ SpansOf(Untracked)' = SpansOf(Untracked)
        /\ SpansOf(Untapped)' = SpansOf(Untapped) /\ TablesFinite' /\ Done' = Done
        /\ Entered' = Entered
    BY <1>1 DEF ProcInv, SpansInv, TablesFinite, SpansOf, KeptIn, InStage, Done, Entered,
                Tapped, Untracked, Untapped
  <2>2. SpansOf(Untracked) \in Nat /\ swapped \in Nat
    BY FS_CardinalityType DEF ProcInv, ProcType, SpansInv, TablesFinite, SpansOf, Total, KeptIn
  <2>3. callsTotal = swapped' + SpansOf(Untracked) + Total(throughput')
    BY <1>1, <1>6, <2>2 DEF ProcInv, SpansInv
  <2> QED
    BY <1>1, <1>6, <2>1, <2>3 DEF ProcInv, SpansInv
<1> QED
  BY <1>5, <1>7, <1>8, <1>9, <1>10 DEF ProcInv

(* With payloads, the monitor and the adjustments in any order, the chain  *)
(* of processors keeps its invariant.                                      *)
LEMMA ProcInvariance == ProcSpec => []ProcInv
<1>1. ProcInit => ProcInv
  BY ProcInitially
<1>2. ProcInv /\ [ProcNext]_procVars => ProcInv'
  <2> SUFFICES ASSUME ProcInv, [ProcNext]_procVars PROVE ProcInv'
    OBVIOUS
  <2>1. CASE \E t \in ProcThreads : \E td \in ProcPayloads : LimitHard(t, td)
    BY <2>1, ProcLimitHard
  <2>2. CASE \E t \in ProcThreads : \/ LimitSoft(t) \/ FilterSpans(t) \/ SetAttributes(t)
                                    \/ ObserveSpans(t) \/ TrackThroughput(t)
                                    \/ AddThroughput(t) \/ SampleSpans(t)
    BY <2>2, ProcLimitSoft, ProcFilters, ProcSetsAttributes, ProcObserves, ProcTracks,
       ProcAdds, ProcSamples
  <2>3. CASE MonitorStoresSoft \/ \E heap \in Heaps : MonitorChecks(heap)
    BY <2>3, ProcMonitors
  <2>4. CASE AdjustRates
    BY <2>4, ProcAdjusts
  <2>5. CASE UNCHANGED procVars
    <3> USE <2>5 DEF procVars, limiter, sampler, ProcInv
    <3>1. ProcType' /\ RatesType' /\ FlagsInv'
      BY DEF ProcType, RatesType, FlagsInv
    <3>2. PayloadInv' /\ DropsInv'
      BY DEF PayloadInv, DropsInv, Done, Filtered, BusyThreads
    <3>3. SpansInv'
      BY DEF SpansInv, TablesFinite, SpansOf, KeptIn, InStage, Done, Entered,
             Tapped, Untracked, Untapped
    <3> QED
      BY <3>1, <3>2, <3>3
  <2> QED
    BY <2>1, <2>2, <2>3, <2>4, <2>5 DEF ProcNext
<1> QED
  BY <1>1, <1>2, PTL DEF ProcSpec

(* The limiter's flags leave no window while the heap stays over a limit.  *)
THEOREM LimiterIsGuarded == ProcSpec => []NoUnguardedWindow
<1>1. ProcInv => NoUnguardedWindow
  BY ProcInvSuffices
<1> QED
  BY <1>1, ProcInvariance, PTL

(* The counters of limiter, filter, span metrics and sampler agree with    *)
(* each other and with the spans that came through.                        *)
THEOREM ChainCountersAgree == ProcSpec => []ChainAccounts
<1>1. ProcInv => ChainAccounts
  BY ProcInvSuffices
<1> QED
  BY <1>1, ProcInvariance, PTL

-----------------------------------------------------------------------------
(* Metrics *)

(* A table of integers whose entries can be added up.                      *)
Countable(f) == IsFiniteSet(UnitsOf(Rises(f))) /\ IsFiniteSet(UnitsOf(Falls(f)))

(* An entry more is its value more.                                        *)
LEMMA BalanceSplit ==
    ASSUME NEW f, NEW g, NEW c, c \notin DOMAIN g, DOMAIN f = DOMAIN g \cup {c},
           \A x \in DOMAIN g : f[x] = g[x], f[c] \in Int, Countable(g)
    PROVE  Countable(f) /\ Balance(g) \in Int /\ Balance(f) = Balance(g) + f[c]
<1> DEFINE up == IF f[c] > 0 THEN f[c] ELSE 0
           down == IF f[c] < 0 THEN -f[c] ELSE 0
<1>1. up \in Nat /\ down \in Nat /\ up - down = f[c]
  OBVIOUS
<1>2. /\ c \notin DOMAIN Rises(g) /\ DOMAIN Rises(f) = DOMAIN Rises(g) \cup {c}
      /\ \A x \in DOMAIN Rises(g) : Rises(f)[x] = Rises(g)[x]
      /\ Rises(f)[c] = up
  BY DEF Rises
<1>3. /\ c \notin DOMAIN Falls(g) /\ DOMAIN Falls(f) = DOMAIN Falls(g) \cup {c}
      /\ \A x \in DOMAIN Falls(g) : Falls(f)[x] = Falls(g)[x]
      /\ Falls(f)[c] = down
  BY DEF Falls
<1> HIDE DEF up, down
<1>4. /\ IsFiniteSet(UnitsOf(Rises(f))) /\ Total(Rises(g)) \in Nat
      /\ Total(Rises(f)) = Total(Rises(g)) + up
  BY <1>1, <1>2, TotalSplit DEF Countable
<1>5. /\ IsFiniteSet(UnitsOf(Falls(f))) /\ Total(Falls(g)) \in Nat
      /\ Total(Falls(f)) = Total(Falls(g)) + down
  BY <1>1, <1>3, TotalSplit DEF Countable
<1>6. Countable(f)
  BY <1>4, <1>5 DEF Countable
<1> QED
  BY <1>1, <1>4, <1>5, <1>6 DEF Balance

(* The empty table.                                                        *)
LEMMA BalanceEmpty ==
    ASSUME NEW f, DOMAIN f = {}
    PROVE  Countable(f) /\ Balance(f) = 0
<1>1. DOMAIN Rises(f) = {} /\ DOMAIN Falls(f) = {}
  BY DEF Rises, Falls
<1>2. /\ IsFiniteSet(UnitsOf(Rises(f))) /\ Total(Rises(f)) = 0
      /\ IsFiniteSet(UnitsOf(Falls(f))) /\ Total(Falls(f)) = 0
  BY <1>1, TotalZero
<1> QED
  BY <1>2 DEF Countable, Balance

(* A part of a table without negative entries has no more than the table.  *)
LEMMA BalanceOfPart ==
    ASSUME NEW f, NEW g, DOMAIN g \subseteq DOMAIN f, \A x \in DOMAIN g : g[x] = f[x],
           \A x \in DOMAIN f : f[x] \in Nat, Countable(f)
    PROVE  Balance(g) \in Int /\ Balance(f) \in Int /\ Balance(g) <= Balance(f)
<1>1. UnitsOf(Rises(g)) \subseteq UnitsOf(Rises(f))
  <2>1. ASSUME NEW u \in UnitsOf(Rises(g)) PROVE u \in UnitsOf(Rises(f))
    <3>1. PICK x \in DOMAIN Rises(g) : u \in {x} \X (1 .. Rises(g)[x])
      BY DEF UnitsOf
    <3>2. x \in DOMAIN Rises(f) /\ Rises(f)[x] = Rises(g)[x]
      BY DEF Rises
    <3> QED
      BY <3>1, <3>2 DEF UnitsOf
  <2> QED
    BY <2>1
<1>2. /\ \A x \in DOMAIN Falls(f) : Falls(f)[x] = 0
      /\ \A x \in DOMAIN Falls(g) : Falls(g)[x] = 0
  BY DEF Falls
<1>3. Total(Falls(f)) = 0 /\ Total(Falls(g)) = 0
  BY <1>2, TotalZero
<1>4. IsFiniteSet(UnitsOf(Rises(f)))
  BY DEF Countable
<1>5. /\ IsFiniteSet(UnitsOf(Rises(g)))
      /\ Cardinality(UnitsOf(Rises(g))) <= Cardinality(UnitsOf(Rises(f)))
  BY <1>1, <1>4, FS_Subset
<1>6. Total(Rises(f)) \in Nat /\ Total(Rises(g)) \in Nat
  BY <1>4, <1>5, FS_CardinalityType DEF Total
<1> QED
  BY <1>3, <1>5, <1>6 DEF Balance, Total

(* Updates that reach a cell; a negative Add of a counter does not.        *)
Effective(u) == ~(u.of.kind = "counter" /\ u.v < 0)

CellType ==
    [val : Int, count : Nat, counts : [1 .. Len(Bounds) + 1 -> Nat],
     labels : {makeLabels(u.of, u.values) : u \in Updates}]

MetricsType ==
    /\ unregistered \in Seq(Collectors) /\ registered \in Seq(Collectors)
    /\ values = [c \in Collectors |-> values[c]]
    /\ cells \in Seq(CellType)
    /\ metricAt = [t \in MetricThreads |-> metricAt[t]]
    /\ done \subseteq begun /\ begun \subseteq Updates /\ IsFiniteSet(begun)
    /\ scrape = [at |-> scrape.at, before |-> scrape.before, todo |-> scrape.todo,
                 keys |-> scrape.keys, page |-> scrape.page]
    /\ scrape.at \in {"out", "next", "collect"}
    /\ scrape.before \subseteq done /\ scrape.todo \in Seq(Collectors)

(* An update that was called and has not returned is with one thread, and  *)
(* past getOrCreate the thread has the cell that the table has.            *)
ThreadAt(t) ==
    LET m == metricAt[t]  u == m.update
    IN  /\ m.at \in {"out", "create", "cell", "swap"}
        /\ m.at # "out" => u \in begun /\ u \notin done /\ Effective(u)
        /\ m.at \in {"cell", "swap"} =>
              KeyOf(u) \in DOMAIN values[u.of] /\ m.cell = values[u.of][KeyOf(u)]
        /\ m.at = "swap" => u.of.kind = "gauge" /\ u.op = "add"

ThreadsInv ==
    /\ \A t \in MetricThreads : ThreadAt(t)
    /\ \A t, v \in MetricThreads :
          t # v /\ metricAt[t].at # "out" /\ metricAt[v].at # "out" =>
             metricAt[t].update # metricAt[v].update

(* Every label set of every collector has a cell of its own.               *)
OwnCells ==
    /\ \A c \in Collectors : \A k \in DOMAIN values[c] : values[c][k] \in DOMAIN cells
    /\ \A c, d \in Collectors : \A k \in DOMAIN values[c], l \in DOMAIN values[d] :
          values[c][k] = values[d][l] => c = d /\ k = l

(* What a cell holds, when the updates us of those called have returned.   *)
Holding(cell, c, us, called) ==
    /\ c.kind # "gauge" \/ (\A u \in called : u.op = "add") => cell.val = Amounts(us, c)
    /\ Countable([u \in us |-> Amount(c, u)])
    /\ c.kind = "histogram" =>
          /\ cell.count = Cardinality(us) /\ cell.counts[Len(Bounds) + 1] = Cardinality(us)
          /\ \A i \in DOMAIN Bounds : cell.counts[i] = Cardinality({u \in us : u.v <= Bounds[i]})

CellsInv ==
    \A c \in Collectors : \A k \in DOMAIN values[c] :
        Holding(cells[values[c][k]], c, Reaching(done, c, k), Reaching(begun, c, k))

KeysInv == \A u \in done : Effective(u) => KeyOf(u) \in DOMAIN values[u.of]

Shown(c, k) == \E line \in scrape.page : line.of = c /\ line.key = k

(* A collector that is done with shows its label sets; the one at hand has *)
(* shown those that are not still to come.                                 *)
ScrapeInv ==
    /\ scrape.at = "out" => scrape.page = {}
    /\ scrape.at = "collect" =>
          /\ scrape.todo # << >> /\ scrape.keys \subseteq DOMAIN values[Head(scrape.todo)]
          /\ \A k \in DOMAIN values[Head(scrape.todo)] :
                k \in scrape.keys \/ Shown(Head(scrape.todo), k)
    /\ scrape.at # "out" => \A c \in Range(registered) \ Range(scrape.todo) :
          \A u \in scrape.before : u.of = c /\ Effective(u) => Shown(c, KeyOf(u))

LineTrue(line, before) ==
    /\ line.of.kind = "counter" =>
          line.cell.val >= Amounts(Reaching(before, line.of, line.key), line.of)
    /\ line.of.kind = "histogram" =>
          /\ line.cell.count >= Cardinality(Reaching(before, line.of, line.key))
          /\ line.cell.counts[Len(Bounds) + 1] = line.cell.count
          /\ \A i \in DOMAIN Bounds :
                /\ line.cell.counts[i] <= line.cell.count
                /\ \A j \in DOMAIN Bounds : Bounds[i] <= Bounds[j] =>
                      line.cell.counts[i] <= line.cell.counts[j]

LinesInv == \A line \in scrape.page : LineTrue(line, scrape.before)

MetricsInv ==
    MetricsType /\ ThreadsInv /\ OwnCells /\ CellsInv /\ KeysInv /\ ScrapeInv /\ LinesInv

(* The invariant gives the property.                                       *)
LEMMA MetricsInvSuffices == MetricsInv => MetricsLoseNothing
<1> SUFFICES ASSUME MetricsInv PROVE MetricsLoseNothing
  OBVIOUS
<1>1. \A c \in Collectors : \A key \in DOMAIN values[c] :
          LET cell == cells[values[c][key]]
              us == Reaching(done, c, key)
          IN  /\ (\A u \in Reaching(begun, c, key) : u.op = "add") => cell.val = Amounts(us, c)
              /\ c.kind = "histogram" =>
                    /\ cell.count = Cardinality(us)
                    /\ \A i \in DOMAIN Bounds :
                          cell.counts[i] = Cardinality({u \in us : u.v <= Bounds[i]})
  BY DEF MetricsInv, CellsInv, Holding
<1>2. \A u, c : Reaching({u}, c, KeyOf(u)) # {} <=> u.of = c /\ Effective(u)
  BY DEF Reaching, Effective
<1>3. \A u \in done : Reaching({u}, u.of, KeyOf(u)) # {} => KeyOf(u) \in DOMAIN values[u.of]
  BY <1>2 DEF MetricsInv, KeysInv
<1>4. \A c \in Range(registered) \ Range(scrape.todo) :
          scrape.at # "out" => \A u \in scrape.before : u.of = c /\ Reaching({u}, c, KeyOf(u)) # {} =>
             \E line \in scrape.page : line.of = c /\ line.key = KeyOf(u)
  BY <1>2 DEF MetricsInv, ScrapeInv, Shown
<1>5. \A line \in scrape.page : LineTrue(line, scrape.before)
  BY DEF MetricsInv, LinesInv
<1> QED
  BY <1>1, <1>3, <1>4, <1>5 DEF MetricsLoseNothing, LineTrue

(* A new registry satisfies the invariant.                                 *)
LEMMA MetricsInitially == MetricsInit => MetricsInv
<1> SUFFICES ASSUME MetricsInit PROVE MetricsInv
  OBVIOUS
<1>1. \A c \in Collectors : DOMAIN values[c] = {}
  BY DEF MetricsInit
<1>2. MetricsType
  <2>1. unregistered \in Seq(Collectors) /\ registered \in Seq(Collectors) /\ cells \in Seq(CellType)
    BY MetricsAssumption, EmptySeq DEF MetricsInit
  <2>2. IsFiniteSet(begun)
    BY FS_EmptySet DEF MetricsInit
  <2>3. scrape.todo \in Seq(Collectors)
    BY EmptySeq DEF MetricsInit, NoScrape
  <2> QED
    BY <2>1, <2>2, <2>3 DEF MetricsInit, MetricsType, NoScrape
<1>3. ThreadsInv
  BY DEF MetricsInit, ThreadsInv, ThreadAt, Idle
<1>4. OwnCells /\ CellsInv
  BY <1>1 DEF OwnCells, CellsInv
<1>5. KeysInv /\ ScrapeInv /\ LinesInv
  BY DEF MetricsInit, KeysInv, ScrapeInv, LinesInv, NoScrape
<1> QED
  BY <1>2, <1>3, <1>4, <1>5 DEF MetricsInv

(* Steps that leave the cells and the threads alone.                       *)
LEMMA MetricsAside ==
    ASSUME MetricsInv, UNCHANGED <<values, cells, metricAt, begun, done>>
    PROVE  ThreadsInv' /\ OwnCells' /\ CellsInv' /\ KeysInv'
<1> USE DEF MetricsInv
<1>1. ThreadsInv' /\ OwnCells'
  BY DEF ThreadsInv, ThreadAt, OwnCells
<1>2. CellsInv' /\ KeysInv'
  BY DEF CellsInv, KeysInv
<1> QED
  BY <1>1, <1>2

LEMMA MetricsRegisters == ASSUME MetricsInv, Register PROVE MetricsInv'
<1> USE DEF MetricsInv
<1>1. ThreadsInv' /\ OwnCells' /\ CellsInv' /\ KeysInv'
  BY MetricsAside DEF Register
<1>2. Head(unregistered) \in Collectors /\ Tail(unregistered) \in Seq(Collectors)
  BY HeadTailProperties DEF Register, MetricsType
<1>3. registered' \in Seq(Collectors)
  <2>1. registered' = registered \/ registered' = Append(registered, Head(unregistered))
    BY DEF Register
  <2>2. Append(registered, Head(unregistered)) \in Seq(Collectors)
    BY <1>2, AppendProperties DEF MetricsType
  <2> QED
    BY <2>1, <2>2 DEF MetricsType
<1>4. MetricsType'
  BY <1>2, <1>3 DEF Register, MetricsType
<1>5. ScrapeInv' /\ LinesInv'
  BY DEF Register, ScrapeInv, LinesInv
<1> QED
  BY <1>1, <1>4, <1>5

(* The steps of a scrape.                                                  *)
LEMMA MetricsScrapeEnds == ASSUME MetricsInv, ScrapeBegin \/ ScrapeEnd PROVE MetricsInv'
<1> USE DEF MetricsInv
<1>1. ThreadsInv' /\ OwnCells' /\ CellsInv' /\ KeysInv'
  BY MetricsAside DEF ScrapeBegin, ScrapeEnd
<1>2. /\ scrape'.page = {} /\ scrape'.at \in {"out", "next"}
      /\ scrape'.before \in {{}, done} /\ scrape'.todo \in {<< >>, registered}
      /\ scrape'.at = "next" => scrape'.todo = registered
      /\ scrape' = [at |-> scrape'.at, before |-> scrape'.before, todo |-> scrape'.todo,
                    keys |-> scrape'.keys, page |-> scrape'.page]
      /\ UNCHANGED <<unregistered, registered, values, cells, metricAt, begun, done>>
  <2>1. CASE ScrapeBegin
    BY <2>1 DEF ScrapeBegin, NoScrape
  <2>2. CASE ScrapeEnd
    BY <2>2 DEF ScrapeEnd, NoScrape
  <2> QED
    BY <2>1, <2>2
<1>3. scrape'.todo \in Seq(Collectors)
  BY <1>2, EmptySeq DEF MetricsType
<1>4. MetricsType'
  BY <1>2, <1>3 DEF MetricsType
<1>5. ScrapeInv' /\ LinesInv'
  BY <1>2 DEF ScrapeInv, LinesInv
<1> QED
  BY <1>1, <1>4, <1>5

LEMMA MetricsCollectEnds == ASSUME MetricsInv, CollectBegin \/ CollectEnd PROVE MetricsInv'
<1> USE DEF MetricsInv
<1>1. ThreadsInv' /\ OwnCells' /\ CellsInv' /\ KeysInv'
  BY MetricsAside DEF CollectBegin, CollectEnd
<1>2. scrape.todo # << >> /\ scrape.at # "out"
  BY DEF CollectBegin, CollectEnd, ScrapeInv
<1>3. Head(scrape.todo) \in Collectors /\ Tail(scrape.todo) \in Seq(Collectors)
  BY <1>2, HeadTailProperties DEF MetricsType
<1>4. Range(scrape.todo) = {Head(scrape.todo)} \cup Range(Tail(scrape.todo))
  <2>1. ToSet(scrape.todo) = {Head(scrape.todo)} \cup ToSet(Tail(scrape.todo))
    BY <1>2, ToSetHeadTail DEF MetricsType
  <2> QED
    BY <2>1 DEF ToSet, Range
<1>5. /\ scrape'.page = scrape.page /\ scrape'.before = scrape.before
      /\ UNCHANGED <<unregistered, registered, values, cells, metricAt, begun, done>>
      /\ scrape' = [at |-> scrape'.at, before |-> scrape'.before, todo |-> scrape'.todo,
                    keys |-> scrape'.keys, page |-> scrape'.page]
      /\ \/ /\ scrape'.at = "collect" /\ scrape'.todo = scrape.todo
            /\ scrape'.keys = DOMAIN values[Head(scrape.todo)]
         \/ /\ scrape.at = "collect" /\ scrape.keys = {}
            /\ scrape'.at = "next" /\ scrape'.todo = Tail(scrape.todo)
  BY DEF CollectBegin, CollectEnd, MetricsType
<1>6. MetricsType' /\ LinesInv'
  BY <1>3, <1>5 DEF MetricsType, LinesInv
<1>7. \A c, k : Shown(c, k)' <=> Shown(c, k)
  BY <1>5 DEF Shown
<1>8. ASSUME NEW c \in Range(registered) \ Range(scrape'.todo),
             NEW u \in scrape.before, u.of = c, Effective(u)
      PROVE  Shown(c, KeyOf(u))
  <2>1. CASE c \in Range(scrape.todo)
    <3>1. c = Head(scrape.todo) /\ scrape.at = "collect" /\ scrape.keys = {}
      BY <1>4, <1>5, <1>8, <2>1
    <3>2. KeyOf(u) \in DOMAIN values[c]
      BY <1>8 DEF KeysInv, MetricsType
    <3> QED
      BY <3>1, <3>2 DEF ScrapeInv
  <2>2. CASE c \notin Range(scrape.todo)
    BY <1>2, <1>8, <2>2 DEF ScrapeInv
  <2> QED
    BY <2>1, <2>2
<1>9. ScrapeInv'
  BY <1>2, <1>5, <1>7, <1>8 DEF ScrapeInv
<1> QED
  BY <1>1, <1>6, <1>9

(* What a cell shows of the updates that had returned before the scrape.   *)
LEMMA LineOfCell ==
    ASSUME MetricsInv, NEW c \in Collectors, NEW k \in DOMAIN values[c]
    PROVE  LineTrue([of |-> c, key |-> k, cell |-> cells[values[c][k]]], scrape.before)
<1> DEFINE cell == cells[values[c][k]]
           us == Reaching(done, c, k)
           part == Reaching(scrape.before, c, k)
           line == [of |-> c, key |-> k, cell |-> cell]
<1>1. Holding(cell, c, us, Reaching(begun, c, k))
  BY DEF MetricsInv, CellsInv
<1>2. part \subseteq us /\ us \subseteq Updates /\ us \subseteq begun /\ \A u \in us : u.of = c
  BY DEF MetricsInv, MetricsType, Reaching
<1>3. IsFiniteSet(us)
  BY <1>2, FS_Subset DEF MetricsInv, MetricsType
<1>4. ASSUME c.kind = "counter" PROVE cell.val >= Amounts(part, c)
  <2> DEFINE f == [u \in us |-> Amount(c, u)]
             g == [u \in part |-> Amount(c, u)]
  <2>1. \A u \in us : Amount(c, u) \in Nat
    <3>1. \A u \in us : u.v \in Nat /\ Amount(c, u) = u.v \div PerMilli
      BY <1>2, <1>4, MetricsAssumption DEF Reaching, Amount
    <3>2. PerMilli \in Nat /\ PerMilli > 0
      BY MetricsAssumption
    <3>3. \A v \in Nat : v \div PerMilli \in Nat
      BY <3>2
    <3> QED
      BY <3>1, <3>3
  <2>2. DOMAIN g \subseteq DOMAIN f /\ \A u \in DOMAIN g : g[u] = f[u]
    BY <1>2
  <2>3. Countable(f) /\ \A u \in DOMAIN f : f[u] \in Nat
    BY <1>1, <2>1 DEF Holding
  <2>4. cell.val = Balance(f)
    BY <1>1, <1>4 DEF Holding, Amounts
  <2> HIDE DEF f, g, us, part, cell
  <2>5. Balance(g) \in Int /\ Balance(f) \in Int /\ Balance(g) <= Balance(f)
    BY <2>2, <2>3, BalanceOfPart
  <2> QED
    BY <2>4, <2>5 DEF Amounts, g
<1>5. ASSUME c.kind = "histogram"
      PROVE  /\ cell.count >= Cardinality(part)
             /\ cell.counts[Len(Bounds) + 1] = cell.count
             /\ \A i \in DOMAIN Bounds :
                   /\ cell.counts[i] <= cell.count
                   /\ \A j \in DOMAIN Bounds : Bounds[i] <= Bounds[j] =>
                         cell.counts[i] <= cell.counts[j]
  <2> DEFINE low(i) == {u \in us : u.v <= Bounds[i]}
  <2>1. /\ cell.count = Cardinality(us) /\ cell.counts[Len(Bounds) + 1] = Cardinality(us)
        /\ \A i \in DOMAIN Bounds : cell.counts[i] = Cardinality(low(i))
    BY <1>1, <1>5 DEF Holding
  <2>2. \A i, j \in DOMAIN Bounds : Bounds[i] <= Bounds[j] => low(i) \subseteq low(j)
    <3>1. \A i \in DOMAIN Bounds : Bounds[i] \in Int
      BY MetricsAssumption, ElementOfSeq
    <3>2. \A u \in us : u.v \in Int
      BY <1>2, MetricsAssumption
    <3> QED
      BY <3>1, <3>2
  <2>3. \A i \in DOMAIN Bounds : low(i) \subseteq us
    OBVIOUS
  <2> HIDE DEF us, part, cell, low
  <2>4. \A S \in SUBSET us : IsFiniteSet(S) /\ Cardinality(S) <= Cardinality(us) /\ Cardinality(S) \in Nat
    BY <1>3, FS_Subset, FS_CardinalityType
  <2>5. \A i, j \in DOMAIN Bounds : low(i) \subseteq low(j) => Cardinality(low(i)) <= Cardinality(low(j))
    BY <2>3, <2>4, FS_Subset
  <2>6. Cardinality(us) \in Nat /\ Cardinality(part) \in Nat /\ Cardinality(part) <= Cardinality(us)
    BY <1>2, <1>3, <2>4, FS_CardinalityType
  <2> QED
    BY <2>1, <2>2, <2>3, <2>4, <2>5, <2>6
<1>6. line.of = c /\ line.key = k /\ line.cell = cell
  OBVIOUS
<1> HIDE DEF cell, part, us, line
<1>7. LineTrue(line, scrape.before)
  BY <1>4, <1>5, <1>6 DEF LineTrue, part
<1> QED
  BY <1>7 DEF line, cell

LEMMA MetricsCollects ==
    ASSUME MetricsInv, NEW key \in scrape.keys, CollectOne(key) PROVE MetricsInv'
<1> USE DEF MetricsInv
<1> DEFINE c == Head(scrape.todo)
           line == [of |-> c, key |-> key, cell |-> cells[values[c][key]]]
<1>1. ThreadsInv' /\ OwnCells' /\ CellsInv' /\ KeysInv'
  BY MetricsAside DEF CollectOne
<1>2. /\ scrape.at = "collect" /\ scrape'.at = "collect"
      /\ scrape'.before = scrape.before /\ scrape'.todo = scrape.todo
      /\ scrape'.keys = scrape.keys \ {key} /\ scrape'.page = scrape.page \cup {line}
      /\ scrape' = [at |-> scrape'.at, before |-> scrape'.before, todo |-> scrape'.todo,
                    keys |-> scrape'.keys, page |-> scrape'.page]
      /\ UNCHANGED <<unregistered, registered, values, cells, metricAt, begun, done>>
  BY DEF CollectOne, MetricsType
<1>3. c \in Collectors /\ key \in DOMAIN values[c] /\ scrape.todo # << >>
  BY <1>2, HeadTailProperties DEF ScrapeInv, MetricsType
<1>4. LineTrue(line, scrape.before)
  BY <1>3, LineOfCell
<1>5. line.of = c /\ line.key = key
  OBVIOUS
<1> HIDE DEF line
<1>6. LinesInv'
  BY <1>2, <1>4 DEF LinesInv
<1>7. MetricsType'
  BY <1>2 DEF MetricsType
<1>8. Shown(c, key)' /\ \A d, k : Shown(d, k) => Shown(d, k)'
  BY <1>2, <1>5 DEF Shown
<1>9. ScrapeInv'
  BY <1>2, <1>3, <1>8 DEF ScrapeInv
<1> QED
  BY <1>1, <1>6, <1>7, <1>9

(* Steps that leave the scrape, and what there is to scrape, alone.        *)
LEMMA ScrapeAside ==
    ASSUME MetricsInv, UNCHANGED <<registered, scrape, values>>
    PROVE  ScrapeInv' /\ LinesInv'
  BY DEF MetricsInv, ScrapeInv, LinesInv, Shown

(* Updates that do not reach a cell do not change what it should hold.     *)
LEMMA MetricsLooksUp ==
    ASSUME MetricsInv, NEW t \in MetricThreads, NEW u \in Updates, Lookup(t, u)
    PROVE  MetricsInv'
<1> USE DEF MetricsInv
<1>1. /\ metricAt[t].at = "out" /\ u \notin begun /\ begun' = begun \cup {u}
      /\ UNCHANGED <<unregistered, registered, values, cells, scrape>>
  BY DEF Lookup, Idle
<1>2. ScrapeInv' /\ LinesInv' /\ OwnCells'
  BY <1>1, ScrapeAside DEF OwnCells
<1>3. u.of \in Collectors
  BY MetricsAssumption
<1>4. u \notin done /\ u \notin Reaching(done, u.of, KeyOf(u))
  BY <1>1 DEF MetricsType, Reaching
<1>5. /\ Effective(u) => done' = done /\ metricAt' = [metricAt EXCEPT ![t] =
              IF KeyOf(u) \in DOMAIN values[u.of]
              THEN [at |-> "cell", update |-> u, cell |-> values[u.of][KeyOf(u)]]
              ELSE [at |-> "create", update |-> u]]
      /\ ~Effective(u) => done' = done \cup {u} /\ metricAt' = metricAt
  BY DEF Lookup, Effective
<1>6. done' = done \/ (~Effective(u) /\ done' = done \cup {u})
  BY <1>5
<1>7. \A c, k : Reaching(done', c, k) = Reaching(done, c, k)
  BY <1>6 DEF Reaching, Effective
<1>8. \A c, k : Reaching(begun, c, k) \subseteq Reaching(begun', c, k)
  BY <1>1 DEF Reaching
<1>9. CellsInv'
  <2>1. \A cell, c, us, called, more : called \subseteq more /\ Holding(cell, c, us, called)
           => Holding(cell, c, us, more)
    BY DEF Holding
  <2> QED
    BY <1>1, <1>7, <1>8, <2>1 DEF CellsInv
<1>10. KeysInv'
  BY <1>1, <1>6 DEF KeysInv
<1>11. MetricsType'
  <2>1. IsFiniteSet(begun')
    BY <1>1, FS_AddElement DEF MetricsType
  <2>2. metricAt' = [v \in MetricThreads |-> metricAt'[v]]
    BY <1>5 DEF MetricsType
  <2>3. /\ done' \subseteq begun' /\ begun' \subseteq Updates /\ scrape.before \subseteq done'
    BY <1>1, <1>6 DEF MetricsType
  <2> QED
    BY <1>1, <2>1, <2>2, <2>3 DEF MetricsType
<1>12. ThreadsInv'
  <2>1. \A v \in MetricThreads : v # t => metricAt'[v] = metricAt[v]
    BY <1>5 DEF MetricsType
  <2>2. \/ metricAt'[t] = metricAt[t] /\ metricAt[t].at = "out"
        \/ /\ Effective(u) /\ done' = done /\ metricAt'[t].update = u
           /\ \/ metricAt'[t].at = "create"
              \/ /\ metricAt'[t].at = "cell" /\ KeyOf(u) \in DOMAIN values[u.of]
                 /\ metricAt'[t].cell = values[u.of][KeyOf(u)]
    <3>1. CASE Effective(u)
      <4>1. metricAt'[t] = IF KeyOf(u) \in DOMAIN values[u.of]
                           THEN [at |-> "cell", update |-> u, cell |-> values[u.of][KeyOf(u)]]
                           ELSE [at |-> "create", update |-> u]
        BY <1>5, <3>1 DEF MetricsType
      <4> QED
        BY <1>5, <3>1, <4>1
    <3>2. CASE ~Effective(u)
      BY <1>1, <1>5, <3>2
    <3> QED
      BY <3>1, <3>2
  <2>3. ASSUME NEW v \in MetricThreads, v # t PROVE ThreadAt(v)' /\ (metricAt[v].at # "out" => metricAt[v].update # u)
    <3>1. ThreadAt(v)
      BY DEF ThreadsInv
    <3> QED
      BY <1>1, <1>6, <2>1, <2>3, <3>1 DEF ThreadAt
  <2>4. ThreadAt(t)'
    <3>1. CASE metricAt'[t] = metricAt[t] /\ metricAt[t].at = "out"
      BY <3>1 DEF ThreadAt
    <3>2. CASE /\ Effective(u) /\ done' = done /\ metricAt'[t].update = u
               /\ \/ metricAt'[t].at = "create"
                  \/ /\ metricAt'[t].at = "cell" /\ KeyOf(u) \in DOMAIN values[u.of]
                     /\ metricAt'[t].cell = values[u.of][KeyOf(u)]
      BY <1>1, <1>4, <3>2 DEF ThreadAt
    <3> QED
      BY <2>2, <3>1, <3>2
  <2>5. ASSUME NEW v \in MetricThreads, NEW w \in MetricThreads, v # w,
               metricAt'[v].at # "out", metricAt'[w].at # "out"
        PROVE  metricAt'[v].update # metricAt'[w].update
    <3>1. metricAt[v].at # "out" /\ metricAt[w].at # "out" => metricAt[v].update # metricAt[w].update
      BY <2>5 DEF ThreadsInv
    <3> QED
      BY <2>1, <2>2, <2>3, <2>5, <3>1
  <2> QED
    BY <2>3, <2>4, <2>5 DEF ThreadsInv
<1> QED
  BY <1>2, <1>9, <1>10, <1>11, <1>12

(* A thread that moves on with its update.                                 *)
LEMMA ThreadMoves ==
    ASSUME MetricsInv, NEW t \in MetricThreads, NEW m, metricAt[t].at # "out",
           metricAt' = [metricAt EXCEPT ![t] = m], m.update = metricAt[t].update,
           UNCHANGED <<begun, done>>,
           \A c \in Collectors : \A k \in DOMAIN values[c] :
              k \in DOMAIN values'[c] /\ values'[c][k] = values[c][k],
           ThreadAt(t)'
    PROVE  ThreadsInv' /\ metricAt' = [v \in MetricThreads |-> metricAt'[v]]
<1> USE DEF MetricsInv
<1>1. metricAt'[t] = m /\ \A v \in MetricThreads : v # t => metricAt'[v] = metricAt[v]
  BY DEF MetricsType
<1>2. ASSUME NEW v \in MetricThreads, v # t PROVE ThreadAt(v)'
  <2>1. ThreadAt(v)
    BY DEF ThreadsInv
  <2>2. metricAt[v].at # "out" => metricAt[v].update.of \in Collectors
    BY <2>1, MetricsAssumption DEF ThreadAt, MetricsType
  <2> QED
    BY <1>1, <1>2, <2>1, <2>2 DEF ThreadAt
<1>3. \A v \in MetricThreads : metricAt'[v].at # "out" =>
          metricAt[v].at # "out" /\ metricAt'[v].update = metricAt[v].update
  BY <1>1
<1>4. ThreadsInv'
  BY <1>2, <1>3 DEF ThreadsInv
<1>5. metricAt' = [v \in MetricThreads |-> metricAt'[v]]
  BY DEF MetricsType
<1> QED
  BY <1>4, <1>5

LEMMA MetricsReloads ==
    ASSUME MetricsInv, NEW t \in MetricThreads, GaugeLoad(t) \/ GaugeSwap(t), UNCHANGED <<cells, done>>
    PROVE  MetricsInv'
<1> USE DEF MetricsInv
<1> DEFINE u == metricAt[t].update
<1>1. ThreadAt(t)
  BY DEF ThreadsInv
<1>2. metricAt[t].at \in {"cell", "swap"}
  BY DEF GaugeLoad, GaugeSwap
<1>3. /\ u \in begun /\ u \notin done /\ Effective(u)
      /\ KeyOf(u) \in DOMAIN values[u.of] /\ metricAt[t].cell = values[u.of][KeyOf(u)]
  BY <1>1, <1>2 DEF ThreadAt
<1>4. UNCHANGED <<unregistered, registered, values, cells, begun, done, scrape>>
  BY DEF GaugeLoad, GaugeSwap
<1>5. PICK m : /\ metricAt' = [metricAt EXCEPT ![t] = m] /\ m.update = u /\ m.cell = metricAt[t].cell
               /\ \/ m.at = "cell"
                  \/ m.at = "swap" /\ u.of.kind = "gauge" /\ u.op = "add"
  <2>1. CASE GaugeLoad(t)
    <3> DEFINE m == [at |-> "swap", update |-> u, cell |-> metricAt[t].cell,
                     old |-> cells[metricAt[t].cell].val]
    <3>1. metricAt' = [metricAt EXCEPT ![t] = m]
      BY <2>1 DEF GaugeLoad, MetricsType
    <3>2. u.of.kind = "gauge" /\ u.op = "add"
      BY <2>1 DEF GaugeLoad
    <3>3. m.update = u /\ m.cell = metricAt[t].cell /\ m.at = "swap"
      OBVIOUS
    <3> HIDE DEF m, u
    <3> QED
      BY <3>1, <3>2, <3>3
  <2>2. CASE GaugeSwap(t)
    <3> DEFINE m == [at |-> "cell", update |-> u, cell |-> metricAt[t].cell]
    <3>1. done' # done \cup {u}
      BY <1>3
    <3>2. metricAt' = [metricAt EXCEPT ![t] = m]
      BY <2>2, <3>1 DEF GaugeSwap, Returned
    <3>3. m.update = u /\ m.cell = metricAt[t].cell /\ m.at = "cell"
      OBVIOUS
    <3> HIDE DEF m, u
    <3> QED
      BY <3>2, <3>3
  <2> QED
    BY <2>1, <2>2
<1>6. metricAt'[t] = m
  BY <1>5 DEF MetricsType
<1>7. ThreadAt(t)'
  BY <1>3, <1>4, <1>5, <1>6 DEF ThreadAt
<1>8. ThreadsInv' /\ metricAt' = [v \in MetricThreads |-> metricAt'[v]]
  BY <1>2, <1>4, <1>5, <1>7, ThreadMoves
<1>9. ScrapeInv' /\ LinesInv'
  BY <1>4, ScrapeAside
<1>10. OwnCells' /\ CellsInv' /\ KeysInv'
  BY <1>4 DEF OwnCells, CellsInv, KeysInv
<1>11. MetricsType'
  BY <1>4, <1>8 DEF MetricsType
<1> QED
  BY <1>8, <1>9, <1>10, <1>11

(* A cell of its own for a label set that had none.                        *)
LEMMA MetricsCreates ==
    ASSUME MetricsInv, NEW t \in MetricThreads, Create(t)
    PROVE  MetricsInv'
<1> USE DEF MetricsInv
<1> DEFINE u == metricAt[t].update
           c == u.of
           key == KeyOf(u)
           n == Len(cells) + 1
           cell == IF key \in DOMAIN values[c] THEN values[c][key] ELSE n
           m == [at |-> "cell", update |-> u, cell |-> cell]
<1>1. /\ metricAt[t].at = "create" /\ ~Locked(c)
      /\ cells' = IF key \in DOMAIN values[c] THEN cells ELSE Append(cells, NewCell(u))
      /\ values' = [values EXCEPT ![c] = WithEntry(@, key, cell)]
      /\ metricAt' = [metricAt EXCEPT ![t] = m]
      /\ UNCHANGED <<unregistered, registered, begun, done, scrape>>
  BY DEF Create
<1>2. u \in begun /\ u \notin done /\ Effective(u) /\ u \in Updates /\ c \in Collectors
  <2>1. ThreadAt(t)
    BY DEF ThreadsInv
  <2>2. u \in begun /\ u \notin done /\ Effective(u)
    BY <1>1, <2>1 DEF ThreadAt
  <2> QED
    BY <2>2, MetricsAssumption DEF MetricsType
<1>3. m.at = "cell" /\ m.update = u /\ m.cell = cell
  OBVIOUS
<1>4. NewCell(u) \in CellType /\ NewCell(u).val = 0 /\ NewCell(u).count = 0
      /\ \A i \in 1 .. Len(Bounds) + 1 : NewCell(u).counts[i] = 0
  BY <1>2, MetricsAssumption DEF NewCell, CellType
<1>5. /\ Len(cells) \in Nat /\ n \in Nat /\ DOMAIN cells = 1 .. Len(cells)
      /\ Append(cells, NewCell(u)) \in Seq(CellType) /\ Len(Append(cells, NewCell(u))) = n
      /\ \A i \in 1 .. Len(cells) : Append(cells, NewCell(u))[i] = cells[i]
      /\ Append(cells, NewCell(u))[n] = NewCell(u)
  BY <1>4, AppendProperties, LenProperties DEF MetricsType
<1>6. /\ cells' \in Seq(CellType) /\ \A i \in DOMAIN cells : i \in DOMAIN cells' /\ cells'[i] = cells[i]
      /\ key \notin DOMAIN values[c] => n \in DOMAIN cells' /\ cells'[n] = NewCell(u) /\ n \notin DOMAIN cells
  <2>1. CASE key \in DOMAIN values[c]
    BY <1>1, <2>1 DEF MetricsType
  <2>2. CASE key \notin DOMAIN values[c]
    <3>1. cells' = Append(cells, NewCell(u))
      BY <1>1, <2>2
    <3>2. DOMAIN cells' = 1 .. n
      BY <1>5, <3>1, LenProperties
    <3> QED
      BY <1>5, <3>1, <3>2
  <2> QED
    BY <2>1, <2>2
<1> HIDE DEF n, cell, m, u, c, key
<1>7. /\ DOMAIN values'[c] = DOMAIN values[c] \cup {key}
      /\ values'[c][key] = cell
      /\ \A k \in DOMAIN values[c] : values'[c][k] = values[c][k]
      /\ \A d \in Collectors : d # c => values'[d] = values[d]
      /\ values' = [d \in Collectors |-> values'[d]]
  <2>1. values'[c] = WithEntry(values[c], key, cell) /\ \A d \in Collectors : d # c => values'[d] = values[d]
    BY <1>1, <1>2 DEF MetricsType
  <2>2. values' = [d \in Collectors |-> values'[d]]
    BY <1>1, <1>2 DEF MetricsType
  <2>3. key \in DOMAIN values[c] => cell = values[c][key]
    BY DEF cell
  <2> QED
    BY <2>1, <2>2, <2>3 DEF WithEntry
<1>8. \A d \in Collectors : \A k \in DOMAIN values[d] : k \in DOMAIN values'[d] /\ values'[d][k] = values[d][k]
  BY <1>7
<1>9. ThreadAt(t)'
  <2>1. metricAt'[t] = m
    BY <1>1 DEF MetricsType
  <2> QED
    BY <1>1, <1>2, <1>3, <1>7, <2>1 DEF ThreadAt, c, key
<1>10. ThreadsInv' /\ metricAt' = [v \in MetricThreads |-> metricAt'[v]]
  BY <1>1, <1>3, <1>8, <1>9, ThreadMoves DEF u
<1>11. MetricsType'
  BY <1>1, <1>6, <1>7, <1>10 DEF MetricsType
(* A pair of collector and label set is an old one, or the new one.        *)
<1>12. ASSUME NEW d \in Collectors, NEW k \in DOMAIN values'[d]
       PROVE  \/ k \in DOMAIN values[d] /\ values'[d][k] = values[d][k] /\ values[d][k] \in DOMAIN cells
              \/ d = c /\ k = key /\ key \notin DOMAIN values[c] /\ values'[d][k] = n
  <2>1. d # c => k \in DOMAIN values[d] /\ values'[d][k] = values[d][k]
    BY <1>7, <1>12
  <2>2. d = c /\ k # key => k \in DOMAIN values[d] /\ values'[d][k] = values[d][k]
    BY <1>7, <1>12
  <2>3. key \notin DOMAIN values[c] => cell = n
    BY DEF cell
  <2>4. k \in DOMAIN values[d] => values[d][k] \in DOMAIN cells
    BY DEF OwnCells
  <2> QED
    BY <1>7, <1>8, <2>1, <2>2, <2>3, <2>4
<1>13. OwnCells'
  <2>1. ASSUME NEW d \in Collectors, NEW k \in DOMAIN values'[d] PROVE values'[d][k] \in DOMAIN cells'
    BY <1>6, <1>12
  <2>2. ASSUME NEW d \in Collectors, NEW e \in Collectors, NEW k \in DOMAIN values'[d],
               NEW l \in DOMAIN values'[e], values'[d][k] = values'[e][l]
        PROVE  d = e /\ k = l
    <3>1. /\ \/ k \in DOMAIN values[d] /\ values'[d][k] = values[d][k] /\ values[d][k] \in DOMAIN cells
             \/ d = c /\ k = key /\ key \notin DOMAIN values[c] /\ values'[d][k] = n
          /\ \/ l \in DOMAIN values[e] /\ values'[e][l] = values[e][l] /\ values[e][l] \in DOMAIN cells
             \/ e = c /\ l = key /\ key \notin DOMAIN values[c] /\ values'[e][l] = n
      BY <1>12
    <3> QED
      BY <1>6, <2>2, <3>1 DEF OwnCells
  <2> QED
    BY <2>1, <2>2 DEF OwnCells
<1>14. CellsInv'
  <2>1. ASSUME NEW d \in Collectors, NEW k \in DOMAIN values'[d]
        PROVE  Holding(cells'[values'[d][k]], d, Reaching(done, d, k), Reaching(begun, d, k))
    <3>1. CASE k \in DOMAIN values[d] /\ values'[d][k] = values[d][k] /\ values[d][k] \in DOMAIN cells
      BY <1>6, <3>1 DEF CellsInv
    <3>2. CASE d = c /\ k = key /\ key \notin DOMAIN values[c] /\ values'[d][k] = n
      <4>1. Reaching(done, d, k) = {}
        BY <3>2 DEF KeysInv, Reaching, Effective, c, key
      <4>2. cells'[values'[d][k]] = NewCell(u)
        BY <1>6, <3>2
      <4> DEFINE f == [x \in {} |-> Amount(d, x)]
      <4>3. DOMAIN f = {}
        OBVIOUS
      <4> HIDE DEF f
      <4>4. Countable(f) /\ Balance(f) = 0
        BY <4>3, BalanceEmpty
      <4>5. Cardinality({}) = 0 /\ \A i : {x \in {} : x.v <= Bounds[i]} = {}
        BY FS_EmptySet
      <4>6. Len(Bounds) \in Nat /\ DOMAIN Bounds = 1 .. Len(Bounds)
        BY MetricsAssumption, LenProperties
      <4>7. NewCell(u).counts[Len(Bounds) + 1] = 0 /\ \A i \in DOMAIN Bounds : NewCell(u).counts[i] = 0
        BY <1>4, <4>6
      <4>8. Holding(NewCell(u), d, {}, Reaching(begun, d, k))
        BY <1>4, <4>4, <4>5, <4>7 DEF Holding, Amounts, f
      <4> QED
        BY <4>1, <4>2, <4>8
    <3> QED
      BY <1>12, <3>1, <3>2
  <2> QED
    BY <1>1, <2>1 DEF CellsInv
<1>15. KeysInv'
  <2>1. \A w \in done : w.of \in Collectors
    BY MetricsAssumption DEF MetricsType
  <2> QED
    BY <1>1, <1>8, <2>1 DEF KeysInv
<1>16. ScrapeInv' /\ LinesInv'
  <2>1. scrape.at = "collect" => Head(scrape.todo) # c /\ Head(scrape.todo) \in Collectors
    BY <1>1, HeadTailProperties DEF Locked, ScrapeInv, MetricsType
  <2>2. scrape.at = "collect" => values'[Head(scrape.todo)] = values[Head(scrape.todo)]
    BY <1>7, <2>1
  <2> QED
    BY <1>1, <2>2 DEF ScrapeInv, LinesInv, Shown
<1> QED
  BY <1>10, <1>11, <1>13, <1>14, <1>15, <1>16

(* A cell after one more update.                                           *)
LEMMA HoldingMore ==
    ASSUME NEW cell, NEW after, NEW c, NEW us, NEW called, NEW u, u \notin us, IsFiniteSet(us),
           u.v \in Int, Holding(cell, c, us, called),
           c.kind # "gauge" \/ (\A x \in called : x.op = "add") => after.val = cell.val + Amount(c, u),
           c.kind = "histogram" =>
              /\ after.count = cell.count + 1
              /\ after.counts[Len(Bounds) + 1] = cell.counts[Len(Bounds) + 1] + 1
              /\ \A i \in DOMAIN Bounds :
                    after.counts[i] = IF u.v <= Bounds[i] THEN cell.counts[i] + 1 ELSE cell.counts[i]
    PROVE  Holding(after, c, us \cup {u}, called)
<1> DEFINE f == [x \in us \cup {u} |-> Amount(c, x)]
           g == [x \in us |-> Amount(c, x)]
<1>1. Amount(c, u) \in Int
  BY MetricsAssumption DEF Amount
<1>2. /\ u \notin DOMAIN g /\ DOMAIN f = DOMAIN g \cup {u}
      /\ \A x \in DOMAIN g : f[x] = g[x]
      /\ f[u] = Amount(c, u) /\ Countable(g)
  BY DEF Holding
<1> HIDE DEF f, g
<1>3. Countable(f) /\ Balance(f) = Balance(g) + Amount(c, u)
  BY <1>1, <1>2, BalanceSplit
<1>4. Countable([x \in us \cup {u} |-> Amount(c, x)])
      /\ Amounts(us \cup {u}, c) = Amounts(us, c) + Amount(c, u)
  BY <1>3 DEF f, g, Amounts
<1>5. c.kind # "gauge" \/ (\A x \in called : x.op = "add") => after.val = Amounts(us \cup {u}, c)
  BY <1>4 DEF Holding
<1>6. Cardinality(us \cup {u}) = Cardinality(us) + 1
  BY FS_AddElement
<1>7. ASSUME NEW i \in DOMAIN Bounds
      PROVE  Cardinality({x \in us \cup {u} : x.v <= Bounds[i]}) =
                IF u.v <= Bounds[i] THEN Cardinality({x \in us : x.v <= Bounds[i]}) + 1
                                    ELSE Cardinality({x \in us : x.v <= Bounds[i]})
  <2> DEFINE low == {x \in us : x.v <= Bounds[i]}
  <2>1. low \subseteq us /\ u \notin low
    OBVIOUS
  <2>2. {x \in us \cup {u} : x.v <= Bounds[i]} = IF u.v <= Bounds[i] THEN low \cup {u} ELSE low
    OBVIOUS
  <2> HIDE DEF low
  <2>3. IsFiniteSet(low)
    BY <2>1, FS_Subset
  <2>4. Cardinality(low \cup {u}) = Cardinality(low) + 1
    BY <2>1, <2>3, FS_AddElement
  <2>5. Cardinality({x \in us \cup {u} : x.v <= Bounds[i]}) =
            IF u.v <= Bounds[i] THEN Cardinality(low) + 1 ELSE Cardinality(low)
    BY <2>2, <2>4
  <2> QED
    BY <2>5 DEF low
<1>8. c.kind = "histogram" =>
          /\ after.count = Cardinality(us \cup {u})
          /\ after.counts[Len(Bounds) + 1] = Cardinality(us \cup {u})
          /\ \A i \in DOMAIN Bounds : after.counts[i] = Cardinality({x \in us \cup {u} : x.v <= Bounds[i]})
  BY <1>6, <1>7 DEF Holding
<1> QED
  BY <1>4, <1>5, <1>8 DEF Holding

(* An update that returns with its cell changed leaves the other cells.    *)
LEMMA UpdateApplied ==
    ASSUME MetricsInv, NEW t \in MetricThreads, metricAt[t].at \in {"cell", "swap"}, Returned(t),
           NEW cell \in CellType, cells' = [cells EXCEPT ![metricAt[t].cell] = cell],
           NEW u, u = metricAt[t].update,
           Holding(cell, u.of, Reaching(done, u.of, KeyOf(u)) \cup {u}, Reaching(begun, u.of, KeyOf(u))),
           UNCHANGED <<unregistered, registered, values, begun, scrape>>
    PROVE  MetricsInv'
<1> USE DEF MetricsInv
<1>1. /\ u \in begun /\ u \notin done /\ Effective(u)
      /\ KeyOf(u) \in DOMAIN values[u.of] /\ metricAt[t].cell = values[u.of][KeyOf(u)]
  <2>1. ThreadAt(t)
    BY DEF ThreadsInv
  <2> QED
    BY <2>1 DEF ThreadAt
<1>2. u.of \in Collectors /\ u \in Updates
  BY <1>1, MetricsAssumption DEF MetricsType
<1>3. /\ done' = done \cup {u} /\ metricAt'[t] = Idle
      /\ \A v \in MetricThreads : v # t => metricAt'[v] = metricAt[v]
      /\ metricAt' = [v \in MetricThreads |-> metricAt'[v]]
  BY DEF Returned, MetricsType
<1>4. metricAt[t].cell \in DOMAIN cells
  BY <1>1, <1>2 DEF OwnCells
<1>5. /\ cells' \in Seq(CellType) /\ DOMAIN cells' = DOMAIN cells
      /\ cells'[metricAt[t].cell] = cell
      /\ \A i \in DOMAIN cells : i # metricAt[t].cell => cells'[i] = cells[i]
  BY <1>4, ExceptSeq DEF MetricsType
<1>6. MetricsType'
  <2>1. done' \subseteq begun' /\ scrape.before \subseteq done'
    BY <1>1, <1>3 DEF MetricsType
  <2> QED
    BY <1>3, <1>5, <2>1 DEF MetricsType
<1>7. ThreadsInv'
  <2>1. metricAt'[t].at = "out"
    BY <1>3 DEF Idle
  <2>2. ASSUME NEW v \in MetricThreads PROVE ThreadAt(v)'
    <3>1. CASE v = t
      BY <2>1, <3>1 DEF ThreadAt
    <3>2. CASE v # t
      <4>1. ThreadAt(v) /\ (metricAt[v].at # "out" => metricAt[v].update # u)
        BY <3>2 DEF ThreadsInv
      <4> QED
        BY <1>3, <3>2, <4>1 DEF ThreadAt
    <3> QED
      BY <3>1, <3>2
  <2>3. \A v \in MetricThreads : metricAt'[v].at # "out" => metricAt'[v] = metricAt[v]
    BY <1>3, <2>1
  <2> QED
    BY <2>2, <2>3 DEF ThreadsInv
<1>8. OwnCells'
  BY <1>5 DEF OwnCells
<1>9. CellsInv'
  <2>1. ASSUME NEW d \in Collectors, NEW k \in DOMAIN values[d]
        PROVE  Holding(cells'[values[d][k]], d, Reaching(done \cup {u}, d, k), Reaching(begun, d, k))
    <3>1. CASE d = u.of /\ k = KeyOf(u)
      <4>1. Reaching(done \cup {u}, d, k) = Reaching(done, d, k) \cup {u}
        BY <1>1, <3>1 DEF Reaching, Effective
      <4> QED
        BY <1>1, <1>5, <3>1, <4>1
    <3>2. CASE ~(d = u.of /\ k = KeyOf(u))
      <4>1. Reaching(done \cup {u}, d, k) = Reaching(done, d, k)
        BY <3>2 DEF Reaching
      <4>2. values[d][k] # metricAt[t].cell /\ values[d][k] \in DOMAIN cells
        BY <1>1, <1>2, <3>2 DEF OwnCells
      <4>3. cells'[values[d][k]] = cells[values[d][k]]
        BY <1>5, <4>2
      <4> QED
        BY <4>1, <4>3 DEF CellsInv
    <3> QED
      BY <3>1, <3>2
  <2> QED
    BY <1>3, <2>1 DEF CellsInv
<1>10. KeysInv'
  BY <1>1, <1>3 DEF KeysInv
<1>11. ScrapeInv' /\ LinesInv'
  BY ScrapeAside
<1> QED
  BY <1>6, <1>7, <1>8, <1>9, <1>10, <1>11

(* What a thread past getOrCreate has in hand.                             *)
LEMMA CellAtHand ==
    ASSUME MetricsInv, NEW t \in MetricThreads, metricAt[t].at \in {"cell", "swap"},
           NEW u, u = metricAt[t].update, NEW us, us = Reaching(done, u.of, KeyOf(u))
    PROVE  /\ u \in Updates /\ u.of \in Collectors /\ u.v \in Int /\ u.op \in {"add", "set"}
           /\ u \in Reaching(begun, u.of, KeyOf(u))
           /\ u \notin us /\ IsFiniteSet(us)
           /\ metricAt[t].cell \in DOMAIN cells /\ cells[metricAt[t].cell] \in CellType
           /\ Holding(cells[metricAt[t].cell], u.of, us, Reaching(begun, u.of, KeyOf(u)))
<1> USE DEF MetricsInv
<1>1. /\ u \in begun /\ u \notin done /\ Effective(u)
      /\ KeyOf(u) \in DOMAIN values[u.of] /\ metricAt[t].cell = values[u.of][KeyOf(u)]
  <2>1. ThreadAt(t)
    BY DEF ThreadsInv
  <2> QED
    BY <2>1 DEF ThreadAt
<1>2. u \in Updates /\ u.of \in Collectors /\ u.v \in Int /\ u.op \in {"add", "set"}
  BY <1>1, MetricsAssumption DEF MetricsType
<1>3. u \in Reaching(begun, u.of, KeyOf(u)) /\ u \notin us /\ us \subseteq begun
  BY <1>1 DEF Reaching, Effective, MetricsType
<1>4. IsFiniteSet(us)
  BY <1>3, FS_Subset DEF MetricsType
<1>5. metricAt[t].cell \in DOMAIN cells
  BY <1>1, <1>2 DEF OwnCells
<1>6. cells[metricAt[t].cell] \in CellType
  BY <1>5, ElementOfSeq DEF MetricsType
<1>7. Holding(cells[metricAt[t].cell], u.of, us, Reaching(begun, u.of, KeyOf(u)))
  BY <1>1, <1>2 DEF CellsInv
<1> QED
  BY <1>2, <1>3, <1>4, <1>5, <1>6, <1>7

LEMMA MetricsApplies ==
    ASSUME MetricsInv, NEW t \in MetricThreads, Apply(t)
    PROVE  MetricsInv'
<1> DEFINE u == metricAt[t].update
           us == Reaching(done, u.of, KeyOf(u))
           called == Reaching(begun, u.of, KeyOf(u))
           cell == cells[metricAt[t].cell]
           after == CASE u.of.kind = "counter" -> [cell EXCEPT !.val = @ + u.v \div PerMilli]
                      [] u.of.kind = "histogram" -> Observed(cell, u.v)
                      [] u.of.kind = "gauge" -> [cell EXCEPT !.val = u.v]
<1>1. /\ metricAt[t].at = "cell" /\ Returned(t)
      /\ u.of.kind # "gauge" \/ u.op = "set"
      /\ UNCHANGED <<unregistered, registered, values, begun, scrape>>
  BY DEF Apply
<1>2. /\ u \in Updates /\ u.of \in Collectors /\ u.v \in Int
      /\ u \in called /\ u \notin us /\ IsFiniteSet(us)
      /\ metricAt[t].cell \in DOMAIN cells /\ cell \in CellType
      /\ Holding(cell, u.of, us, called)
  BY <1>1, CellAtHand
<1>3. cells' = [cells EXCEPT ![metricAt[t].cell] = after]
  BY DEF Apply
<1>4. u.of.kind \in {"counter", "gauge", "histogram"}
  BY <1>2, MetricsAssumption
<1>5. Len(Bounds) \in Nat /\ DOMAIN Bounds = 1 .. Len(Bounds)
  BY MetricsAssumption, LenProperties
<1>6. PerMilli \in Nat \ {0}
  BY MetricsAssumption
<1> HIDE DEF u, us, called, cell
<1>7. CASE u.of.kind = "counter"
  <2>1. after = [cell EXCEPT !.val = @ + u.v \div PerMilli]
    BY <1>7
  <2>2. u.v \div PerMilli \in Int
    BY <1>2, <1>6
  <2>3. after \in CellType /\ after.val = cell.val + Amount(u.of, u)
    BY SMTT(30), <1>2, <1>7, <2>1, <2>2 DEF CellType, Amount
  <2> HIDE DEF after
  <2>4. Holding(after, u.of, us \cup {u}, called)
    BY <1>2, <1>7, <2>3, HoldingMore
  <2> QED
    BY <1>1, <1>3, <2>3, <2>4, UpdateApplied DEF u, us, called
<1>8. CASE u.of.kind = "histogram"
  <2>1. after = Observed(cell, u.v)
    BY <1>8
  <2>2. /\ after \in CellType /\ after.val = cell.val + u.v
        /\ after.count = cell.count + 1
        /\ \A i \in 1 .. Len(Bounds) + 1 : after.counts[i] =
              IF i > Len(Bounds) \/ u.v <= Bounds[i] THEN cell.counts[i] + 1 ELSE cell.counts[i]
    <3> DEFINE counts == [i \in 1 .. Len(Bounds) + 1 |->
                   IF i > Len(Bounds) \/ u.v <= Bounds[i] THEN cell.counts[i] + 1 ELSE cell.counts[i]]
    <3>1. counts \in [1 .. Len(Bounds) + 1 -> Nat]
      BY <1>2 DEF CellType
    <3>2. DOMAIN cell.counts = 1 .. Len(Bounds) + 1 /\ cell.val \in Int /\ cell.count \in Nat
      BY <1>2 DEF CellType
    <3>3. after = [cell EXCEPT !.val = cell.val + u.v, !.count = cell.count + 1, !.counts = counts]
      BY <1>2, <2>1, <3>2 DEF Observed, CellType
    <3>4. \A i \in 1 .. Len(Bounds) + 1 : counts[i] =
              IF i > Len(Bounds) \/ u.v <= Bounds[i] THEN cell.counts[i] + 1 ELSE cell.counts[i]
      OBVIOUS
    <3> HIDE DEF counts, after
    <3>5. after = [val |-> cell.val + u.v, count |-> cell.count + 1, counts |-> counts,
                   labels |-> cell.labels]
      BY <1>2, <3>3 DEF CellType
    <3>6. /\ after \in CellType /\ after.val = cell.val + u.v
          /\ after.count = cell.count + 1 /\ after.counts = counts
      BY <1>2, <3>1, <3>2, <3>5 DEF CellType
    <3> QED
      BY <3>4, <3>6
  <2> HIDE DEF after
  <2>3. /\ after.counts[Len(Bounds) + 1] = cell.counts[Len(Bounds) + 1] + 1
        /\ \A i \in DOMAIN Bounds :
              after.counts[i] = IF u.v <= Bounds[i] THEN cell.counts[i] + 1 ELSE cell.counts[i]
    BY <1>5, <2>2
  <2>4. after.val = cell.val + Amount(u.of, u)
    BY <1>8, <2>2 DEF Amount
  <2>5. Holding(after, u.of, us \cup {u}, called)
    BY <1>2, <1>8, <2>2, <2>3, <2>4, HoldingMore
  <2> QED
    BY <1>1, <1>3, <2>2, <2>5, UpdateApplied DEF u, us, called
<1>9. CASE u.of.kind = "gauge"
  <2>1. after = [cell EXCEPT !.val = u.v]
    BY <1>9
  <2>2. after \in CellType /\ u.op = "set"
    BY <1>1, <1>2, <1>9, <2>1 DEF CellType, u
  <2>3. ~(\A x \in called : x.op = "add")
    BY <1>2, <2>2
  <2> HIDE DEF after
  <2>4. Holding(after, u.of, us \cup {u}, called)
    BY <1>2, <1>9, <2>3, HoldingMore
  <2> QED
    BY <1>1, <1>3, <2>2, <2>4, UpdateApplied DEF u, us, called
<1> QED
  BY <1>4, <1>7, <1>8, <1>9

(* A compare-and-swap that succeeds adds to what the gauge has.            *)
LEMMA MetricsSwaps ==
    ASSUME MetricsInv, NEW t \in MetricThreads, GaugeSwap(t)
    PROVE  MetricsInv'
<1> DEFINE m == metricAt[t]
           u == m.update
           us == Reaching(done, u.of, KeyOf(u))
           called == Reaching(begun, u.of, KeyOf(u))
           cell == cells[m.cell]
           after == [cell EXCEPT !.val = m.old + u.v]
<1>1. CASE cell.val # m.old
  <2>1. UNCHANGED <<cells, done>>
    BY <1>1 DEF GaugeSwap
  <2> QED
    BY <2>1, MetricsReloads
<1>2. CASE cell.val = m.old
  <2>1. /\ m.at = "swap" /\ Returned(t)
        /\ cells' = [cells EXCEPT ![m.cell].val = m.old + u.v]
        /\ UNCHANGED <<unregistered, registered, values, begun, scrape>>
    BY <1>2 DEF GaugeSwap
  <2>2. u.of.kind = "gauge"
    <3>1. ThreadAt(t)
      BY DEF MetricsInv, ThreadsInv
    <3> QED
      BY <2>1, <3>1 DEF ThreadAt
  <2>3. /\ u \in Updates /\ u.of \in Collectors /\ u.v \in Int
        /\ u \in called /\ u \notin us /\ IsFiniteSet(us)
        /\ m.cell \in DOMAIN cells /\ cell \in CellType
        /\ Holding(cell, u.of, us, called)
    BY <2>1, CellAtHand
  <2>4. cells' = [cells EXCEPT ![m.cell] = after]
    BY <2>1, <2>3 DEF MetricsInv, MetricsType
  <2>5. after \in CellType /\ after.val = cell.val + u.v
    BY SMTT(30), <1>2, <2>3 DEF CellType
  <2>6. after.val = cell.val + Amount(u.of, u)
    BY <2>2, <2>5 DEF Amount
  <2> HIDE DEF u, us, called, cell, after
  <2>7. Holding(after, u.of, us \cup {u}, called)
    BY <2>2, <2>3, <2>6, HoldingMore
  <2> QED
    BY <2>1, <2>4, <2>5, <2>7, UpdateApplied DEF u, us, called
<1> QED
  BY <1>1, <1>2

LEMMA MetricsStep == MetricsInv /\ [MetricsNext]_metricVars => MetricsInv'
<1> SUFFICES ASSUME MetricsInv, [MetricsNext]_metricVars PROVE MetricsInv'
  OBVIOUS
<1>1. CASE Register
  BY <1>1, MetricsRegisters
<1>2. ASSUME NEW t \in MetricThreads,
             (\E u \in Updates : Lookup(t, u)) \/ Create(t) \/ Apply(t) \/ GaugeLoad(t) \/ GaugeSwap(t)
      PROVE  MetricsInv'
  <2>1. CASE \E u \in Updates : Lookup(t, u)
    BY <2>1, MetricsLooksUp
  <2>2. CASE Create(t)
    BY <2>2, MetricsCreates
  <2>3. CASE Apply(t)
    BY <2>3, MetricsApplies
  <2>4. CASE GaugeLoad(t)
    <3>1. UNCHANGED <<cells, done>>
      BY <2>4 DEF GaugeLoad
    <3> QED
      BY <2>4, <3>1, MetricsReloads
  <2>5. CASE GaugeSwap(t)
    BY <2>5, MetricsSwaps
  <2> QED
    BY <1>2, <2>1, <2>2, <2>3, <2>4, <2>5
<1>3. CASE ScrapeBegin \/ ScrapeEnd
  BY <1>3, MetricsScrapeEnds
<1>4. CASE CollectBegin \/ CollectEnd
  BY <1>4, MetricsCollectEnds
<1>5. CASE \E key \in scrape.keys : CollectOne(key)
  BY <1>5, MetricsCollects
<1>6. CASE UNCHANGED metricVars
  <2>1. UNCHANGED <<unregistered, registered, values, cells, metricAt, begun, done, scrape>>
    BY <1>6 DEF metricVars
  <2>2. ThreadsInv' /\ OwnCells' /\ CellsInv' /\ KeysInv'
    BY <2>1, MetricsAside
  <2>3. ScrapeInv' /\ LinesInv'
    BY <2>1, ScrapeAside
  <2>4. MetricsType'
    BY <2>1 DEF MetricsInv, MetricsType
  <2> QED
    BY <2>2, <2>3, <2>4 DEF MetricsInv
<1> QED
  BY <1>1, <1>2, <1>3, <1>4, <1>5, <1>6 DEF MetricsNext

(* However the threads and a scrape meet on a new label set, on a gauge or *)
(* on a cell, no update is lost or applied twice, each label set has one   *)
(* cell, and a scrape shows every update that had returned when it began,  *)
(* in histograms that agree with themselves (getOrCreate, Add, Observe and *)
(* WriteMetrics of internal/metrics).                                      *)
THEOREM MetricsLoseNoUpdate == MetricsSpec => []MetricsLoseNothing
<1>1. MetricsInit => MetricsInv
  BY MetricsInitially
<1>2. MetricsInv /\ [MetricsNext]_metricVars => MetricsInv'
  BY MetricsStep
<1>3. MetricsInv => MetricsLoseNothing
  BY MetricsInvSuffices
<1> QED
  BY <1>1, <1>2, <1>3, PTL DEF MetricsSpec
=============================================================================
