-------------------------------- MODULE Rpc --------------------------------
(***************************************************************************)
(* Unary calls over internal/net/grpc: ClientConn.Invoke with its retries, *)
(* Server.handleGRPC, and the OTLP and Jaeger collector services behind it *)
(* (handleExport, handlePostSpans).  The network is external: a request or *)
(* an answer may be lost or come after the client gave the attempt up, and *)
(* the client then sends the request again.  Without TLS the client speaks *)
(* HTTP/1.1.                                                               *)
(***************************************************************************)
EXTENDS Integers, Sequences, FiniteSets, Tables

CONSTANTS RpcCalls,     \* [tls, method, frame, spans]: one Invoke each
          maxRetries,
          MaxAccepts,   \* payloads the consumer behind the services takes
          MaxCalls      \* bound of the calls that are made

ASSUME RpcAssumption ==
    /\ \A c \in RpcCalls : /\ c.tls \in BOOLEAN /\ c.method \in {"unary", "stream", "unknown"}
                           /\ c.frame \in {"good", "oversized", "malformed"}
                           /\ c.spans \in Nat
    /\ {maxRetries, MaxAccepts, MaxCalls} \subseteq Nat

VARIABLES callAt,     \* of each call: "idle", "send", "wait", "backoff", "over"
          tries,      \* attempts begun
          result,     \* "none", "ok", "ctx", "error" or a gRPC status code
          requests,   \* attempts on their way or being handled: [call, try]
          replies,    \* answers on their way: [call, try, status, body]
          accepted,   \* payloads the consumer took, by call
          rpcReceived, rpcRejected   \* counters of the services

rpcVars == <<callAt, tries, result, requests, replies, accepted, rpcReceived, rpcRejected>>
serviceVars == <<accepted, rpcReceived, rpcRejected>>

RpcInit ==
    /\ callAt = [c \in RpcCalls |-> "idle"] /\ tries = [c \in RpcCalls |-> 0]
    /\ result = [c \in RpcCalls |-> "none"]
    /\ requests = {} /\ replies = {}
    /\ accepted = [c \in RpcCalls |-> 0] /\ rpcReceived = 0 /\ rpcRejected = 0

CallTo(c, place) == callAt' = [callAt EXCEPT ![c] = place]
InvokeReturns(c, r) == CallTo(c, "over") /\ result' = [result EXCEPT ![c] = r]

\* mutant: one attempt too many
AttemptFailsOnceMore(c) ==
    IF tries[c] <= maxRetries + 1 THEN CallTo(c, "backoff") /\ UNCHANGED result
    ELSE InvokeReturns(c, "error")

\* An attempt failed below gRPC: the next one after a pause, or the last error.
AttemptFails(c) ==
    IF tries[c] <= maxRetries THEN CallTo(c, "backoff") /\ UNCHANGED result
    ELSE InvokeReturns(c, "error")

-----------------------------------------------------------------------------
(* ClientConn.Invoke *)

Invoke(c) ==
    /\ callAt[c] = "idle" /\ Cardinality({d \in RpcCalls : callAt[d] # "idle"}) < MaxCalls
    /\ CallTo(c, "send")
    /\ UNCHANGED <<tries, result, requests, replies, serviceVars>>

Pause(c) ==
    /\ callAt[c] = "backoff"
    /\ \/ CallTo(c, "send") /\ UNCHANGED result
       \/ InvokeReturns(c, "ctx")
    /\ UNCHANGED <<tries, requests, replies, serviceVars>>

SendRequest(c) ==
    /\ callAt[c] = "send"
    /\ tries' = [tries EXCEPT ![c] = @ + 1]
    /\ requests' = requests \cup {[call |-> c, try |-> tries[c] + 1]}
    /\ CallTo(c, "wait")
    /\ UNCHANGED <<result, replies, serviceVars>>

\* The connection fails or the 30 s of the client pass, whatever became of the
\* request.
GiveUp(c) ==
    /\ callAt[c] = "wait"
    /\ AttemptFails(c)
    /\ UNCHANGED <<tries, requests, replies, serviceVars>>

\* doInvoke: a status other than 0 ends the call; without one, or with 0, the
\* body decides: five bytes of frame header are enough.
Receive(c) ==
    /\ callAt[c] = "wait"
    /\ \E p \in replies :
          /\ p.call = c /\ p.try = tries[c]
          /\ replies' = replies \ {p}
          /\ \/ p.status \notin {"none", "0"} /\ InvokeReturns(c, p.status)
             \/ p.status \in {"none", "0"} /\ p.body < 5 /\ AttemptFails(c)
             \/ p.status \in {"none", "0"} /\ p.body >= 5 /\ InvokeReturns(c, "ok")
    /\ UNCHANGED <<tries, requests, serviceVars>>

-----------------------------------------------------------------------------
(* Server.handleGRPC and the services. *)

Reply(q, status, body) ==
    /\ requests' = requests \ {q}
    /\ replies' = replies \cup {[call |-> q.call, try |-> q.try, status |-> status, body |-> body]}

\* Early returns: HTTP/1.1 (an HTTP error with a text, no gRPC status), an
\* unknown method, a frame that is too long.
Turn(q) ==
    \/ ~q.call.tls /\ Reply(q, "none", 20)
    \/ q.call.tls /\ q.call.method = "unknown" /\ Reply(q, "12", 0)
    \/ /\ q.call.tls /\ q.call.method # "unknown" /\ q.call.frame = "oversized"
       /\ Reply(q, "3", 0)

TurnAway(q) ==
    /\ q \in requests
    /\ Turn(q)
    /\ UNCHANGED <<callAt, tries, result, serviceVars>>

Reaches(q) ==
    q \in requests /\ q.call.tls /\ q.call.method # "unknown" /\ q.call.frame # "oversized"

\* handleExport: decoding, ConsumeTraces, the counters.  (handlePostSpans is the
\* same without the counter of rejected spans.)
Serve(q) ==
    /\ Reaches(q) /\ q.call.method = "unary"
    /\ LET total == Total(accepted)
       IN  \/ /\ q.call.frame = "malformed"
              /\ Reply(q, "3", 0) /\ UNCHANGED serviceVars
           \/ /\ q.call.frame = "good" /\ total >= MaxAccepts
              /\ Reply(q, "8", 0)
              /\ rpcRejected' = rpcRejected + q.call.spans
              /\ UNCHANGED <<accepted, rpcReceived>>
           \/ /\ q.call.frame = "good" /\ total < MaxAccepts
              /\ Reply(q, "0", 5)
              /\ accepted' = [accepted EXCEPT ![q.call] = @ + 1]
              /\ rpcReceived' = rpcReceived + q.call.spans
              /\ UNCHANGED rpcRejected
    /\ UNCHANGED <<callAt, tries, result>>

\* A streaming method answers with a frame for every message, or with an error
\* in the trailers: one that has nothing to send looks like a broken answer.
Stream(q) ==
    /\ Reaches(q) /\ q.call.method = "stream"
    /\ \E body \in {0, 10} : \E status \in {"0", "13"} : Reply(q, status, body)
    /\ UNCHANGED <<callAt, tries, result, serviceVars>>

\* external
LoseRequest(q) ==
    /\ q \in requests
    /\ requests' = requests \ {q}
    /\ UNCHANGED <<callAt, tries, result, replies, serviceVars>>

LoseReply(p) ==
    /\ p \in replies
    /\ replies' = replies \ {p}
    /\ UNCHANGED <<callAt, tries, result, requests, serviceVars>>

RpcNext ==
    \/ \E c \in RpcCalls : Invoke(c) \/ Pause(c) \/ SendRequest(c) \/ GiveUp(c) \/ Receive(c)
    \/ \E q \in requests : TurnAway(q) \/ Serve(q) \/ Stream(q) \/ LoseRequest(q)
    \/ \E p \in replies : LoseReply(p)

RpcSpec == RpcInit /\ [][RpcNext]_rpcVars

-----------------------------------------------------------------------------
Over(c) == callAt[c] = "over"

\* What Invoke returns over TLS is true of the services, through lost requests,
\* late answers and retries: success of a unary call means the payload was taken;
\* an invalid or unknown request was never taken, and only such a request is
\* called invalid; RESOURCE_EXHAUSTED means that this last attempt was refused
\* (an earlier one, whose answer was lost, may have been taken).  A payload is
\* taken at most once for each attempt, of which there are maxRetries + 1, and
\* the services' counters agree with what was taken.
CallsAreAccountedFor ==
    /\ \A c \in RpcCalls :
          /\ accepted[c] <= tries[c] /\ tries[c] <= maxRetries + 1
          /\ Over(c) /\ c.tls /\ c.method = "unary" =>
                /\ result[c] = "ok" => accepted[c] >= 1
                /\ result[c] \in {"3", "12"} => accepted[c] = 0
                /\ result[c] = "3" <=> c.frame # "good" /\ result[c] \notin {"ctx", "error"}
                /\ result[c] = "8" => accepted[c] < tries[c] /\ rpcRejected >= c.spans
    /\ rpcReceived = Total([c \in RpcCalls |-> accepted[c] * c.spans])

\* A unary call that returns without an error was handled by the server, over
\* TLS or in the clear.
InvokeSuccessIsHandled ==
    \A c \in RpcCalls : c.method = "unary" /\ result[c] = "ok" => accepted[c] >= 1

=============================================================================
