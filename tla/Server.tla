------------------------------- MODULE Server -------------------------------
(***************************************************************************)
(* The server of cmd/ginger/main.go: HTTP receivers for OTLP, Zipkin and   *)
(* Jaeger feed the pipeline's queue; its consumer hands payloads to the    *)
(* batch processor, which writes to the memory store when a batch is full  *)
(* or its timer fires; main starts it all and shuts it down.  The queue,   *)
(* the batch processor and the store appear as what BoundedQueue,          *)
(* BatchProcessor and MemoryStore show them to be: a bounded FIFO that     *)
(* refuses once closed, a buffer with a timer, and a set of spans.         *)
(***************************************************************************)
EXTENDS Integers, Sequences, FiniteSets, SequencesExt, Tables

CONSTANTS Requests,       \* [receiver, problem, spans]; each is sent once
          QueueSize, ServerBatchSize

ASSUME ServerAssumption ==
    /\ \A rq \in Requests :
          /\ rq.receiver \in {"otlp", "zipkin", "jaeger"}
          /\ rq.problem \in {"none", "method", "gzip", "body", "type", "decode"}
          /\ rq.spans \in Seq(ToSet(rq.spans)) /\ IsInjective(rq.spans)
    /\ \A rq, sq \in Requests : rq # sq => ToSet(rq.spans) \cap ToSet(sq.spans) = {}
    /\ {QueueSize, ServerBatchSize} \subseteq Nat \ {0}

VARIABLES mainAt,      \* where runWithContext is
          expired,     \* has the 15 s context of the shutdown expired?
          ready,       \* of the health handler
          launch,      \* of each HTTP server: "no", "listening", "closed", "error"
          handlerAt,   \* of each request
          answers,     \* status of each answered request
          srvQueue, srvClosed,      \* the pipeline's queue
          cancelled,   \* the consumer's context
          consumer, consumerUp,     \* spans of the payload it works on; is it running?
          srvBatch, srvTimer,       \* buffer of the batch processor; is its timer set?
          srvStored,   \* spans written to the store, in order
          received, rejected  \* counters by receiver

serverVars == <<mainAt, expired, ready, launch, handlerAt, answers, srvQueue, srvClosed,
                cancelled, consumer, consumerUp, srvBatch, srvTimer, srvStored, received, rejected>>
mainVars == <<mainAt, expired, ready, launch>>
pipeVars == <<srvQueue, srvClosed, cancelled, consumer, consumerUp, srvBatch, srvTimer, srvStored>>
requestVars == <<handlerAt, answers, received, rejected>>

Servers == {"receiver", "query", "admin"}
Receivers == {"otlp", "zipkin", "jaeger"}
Alive == mainAt \notin {"failed", "exited"}
Running == {rq \in Requests : handlerAt[rq] \notin {"unsent", "over"}}

ServerInit ==
    /\ mainAt = "starting" /\ expired = FALSE /\ ready = FALSE
    /\ launch = [s \in Servers |-> "no"]
    /\ handlerAt = [rq \in Requests |-> "unsent"] /\ answers = [rq \in Requests |-> 0]
    /\ srvQueue = <<>> /\ srvClosed = FALSE /\ cancelled = FALSE
    /\ consumer = <<>> /\ consumerUp = FALSE
    /\ srvBatch = <<>> /\ srvTimer = FALSE /\ srvStored = <<>>
    /\ received = [r \in Receivers |-> 0] /\ rejected = [r \in Receivers |-> 0]

-----------------------------------------------------------------------------
(* ServeHTTP of the receivers. *)

\* Early returns: the method, gzip (Jaeger does not unpack: such a body fails to
\* decode), the body limit, the content type (OTLP only), decoding.
Refusal(rq) ==
    CASE rq.problem = "method" -> 405
      [] rq.problem \in {"gzip", "body", "decode"} -> 400
      [] rq.problem = "type" -> IF rq.receiver = "otlp" THEN 415 ELSE 0
      [] rq.problem = "none" -> 0

Success(rq) == IF rq.receiver = "otlp" THEN 200 ELSE 202

Answer(rq, status) ==
    /\ answers' = [answers EXCEPT ![rq] = status]
    /\ handlerAt' = [handlerAt EXCEPT ![rq] = "over"]

HandlerTo(rq, place) == handlerAt' = [handlerAt EXCEPT ![rq] = place] /\ UNCHANGED answers

\* external: a client sends the request
Arrive(rq) ==
    /\ launch["receiver"] = "listening" /\ Alive
    /\ handlerAt[rq] = "unsent"
    /\ HandlerTo(rq, "read")
    /\ UNCHANGED <<mainVars, pipeVars, received, rejected>>

ReadRequest(rq) ==
    /\ handlerAt[rq] = "read" /\ Alive
    /\ IF Refusal(rq) # 0 THEN Answer(rq, Refusal(rq)) ELSE HandlerTo(rq, "enqueue")
    /\ UNCHANGED <<mainVars, pipeVars, received, rejected>>

\* ConsumeTraces: Enqueue looks at closed under its mutex ...
EnqueueChecks(rq) ==
    /\ handlerAt[rq] = "enqueue" /\ Alive
    /\ HandlerTo(rq, IF srvClosed THEN "reject" ELSE "send")
    /\ UNCHANGED <<mainVars, pipeVars, received, rejected>>

\* ... and sends outside it.  On a queue closed in between the send panics;
\* net/http recovers and drops the connection.
EnqueueSends(rq) ==
    /\ handlerAt[rq] = "send" /\ Alive
    /\ \/ /\ srvClosed /\ HandlerTo(rq, "over") /\ UNCHANGED srvQueue
       \/ /\ ~srvClosed /\ Len(srvQueue) < QueueSize
          /\ srvQueue' = Append(srvQueue, rq) /\ HandlerTo(rq, "count")
       \/ ~srvClosed /\ Len(srvQueue) >= QueueSize /\ HandlerTo(rq, "reject") /\ UNCHANGED srvQueue
    /\ UNCHANGED <<mainVars, srvClosed, cancelled, consumer, consumerUp, srvBatch, srvTimer,
                   srvStored, received, rejected>>

\* Only the OTLP receiver counts what it rejects.
Reject(rq) ==
    /\ handlerAt[rq] = "reject" /\ Alive
    /\ rejected' = [rejected EXCEPT ![rq.receiver] =
                      IF rq.receiver = "otlp" THEN @ + Len(rq.spans) ELSE @]
    /\ Answer(rq, 429)
    /\ UNCHANGED <<mainVars, pipeVars, received>>

Acknowledge(rq) ==
    /\ handlerAt[rq] = "count" /\ Alive
    /\ received' = [received EXCEPT ![rq.receiver] = @ + Len(rq.spans)]
    /\ Answer(rq, Success(rq))
    /\ UNCHANGED <<mainVars, pipeVars, rejected>>

-----------------------------------------------------------------------------
(* The consumer goroutine and the batch processor behind it. *)

Dequeue ==
    /\ consumerUp /\ consumer = <<>> /\ srvQueue # <<>> /\ Alive
    /\ consumer' = Head(srvQueue).spans
    /\ srvQueue' = Tail(srvQueue)
    /\ UNCHANGED <<mainVars, requestVars, srvClosed, cancelled, consumerUp, srvBatch, srvTimer,
                   srvStored>>

\* ProcessTraces: full batches go to the store at once, the rest waits for the
\* timer.  (The exporter of the pipeline then gets an empty payload.)
Process ==
    /\ consumer # <<>> /\ Alive
    /\ LET all == srvBatch \o consumer
           cut == Len(all) - (Len(all) % ServerBatchSize)
       IN  /\ srvStored' = srvStored \o SubSeq(all, 1, cut)
           /\ srvBatch' = SubSeq(all, cut + 1, Len(all))
           /\ srvTimer' = (cut < Len(all))
    /\ consumer' = <<>>
    /\ UNCHANGED <<mainVars, requestVars, srvQueue, srvClosed, cancelled, consumerUp>>

BatchTimer ==
    /\ srvTimer /\ Alive
    /\ srvStored' = srvStored \o srvBatch
    /\ srvBatch' = <<>> /\ srvTimer' = FALSE
    /\ UNCHANGED <<mainVars, requestVars, srvQueue, srvClosed, cancelled, consumer, consumerUp>>

\* mutant: the context is looked at before the queue and nothing is drained
ConsumerStopsUndrained ==
    /\ cancelled /\ consumerUp /\ consumer = <<>> /\ Alive
    /\ consumerUp' = FALSE
    /\ UNCHANGED <<mainVars, requestVars, srvQueue, srvClosed, cancelled, consumer,
                   srvBatch, srvTimer, srvStored>>

\* consumeLoop drains the queue before it returns.
ConsumerStops ==
    /\ cancelled /\ consumerUp /\ consumer = <<>> /\ srvQueue = <<>> /\ Alive
    /\ consumerUp' = FALSE
    /\ UNCHANGED <<mainVars, requestVars, srvQueue, srvClosed, cancelled, consumer,
                   srvBatch, srvTimer, srvStored>>

-----------------------------------------------------------------------------
(* runWithContext. *)

StartPipeline ==
    /\ mainAt = "starting"
    /\ mainAt' = "serving" /\ ready' = TRUE /\ consumerUp' = TRUE
    /\ UNCHANGED <<expired, launch, requestVars, srvQueue, srvClosed, cancelled, consumer,
                   srvBatch, srvTimer, srvStored>>

\* A server's goroutine: ListenAndServe listens, fails, or comes after Shutdown.
Listen(s) ==
    /\ mainAt # "starting" /\ Alive /\ launch[s] = "no"
    /\ \E how \in {"listening", "error"} : launch' = [launch EXCEPT ![s] = how]
    /\ UNCHANGED <<mainAt, expired, ready, pipeVars, requestVars>>

\* An error of a server: main returns, with nothing shut down.
ServerFails ==
    /\ mainAt = "serving" /\ \E s \in Servers : launch[s] = "error"
    /\ mainAt' = "failed"
    /\ UNCHANGED <<expired, ready, launch, pipeVars, requestVars>>

Close(s) == launch' = [launch EXCEPT ![s] = "closed"]

Signal ==
    /\ mainAt = "serving"
    /\ mainAt' = "receiver" /\ ready' = FALSE
    /\ Close("receiver")
    /\ UNCHANGED <<expired, pipeVars, requestVars>>

Expire ==
    /\ mainAt \in {"receiver", "query", "admin"} /\ ~expired
    /\ expired' = TRUE
    /\ UNCHANGED <<mainAt, ready, launch, pipeVars, requestVars>>

\* Shutdown of a server returns when its handlers have, or when the context expires.
ReceiverDown ==
    /\ mainAt = "receiver" /\ (Running = {} \/ expired)
    /\ mainAt' = "query" /\ Close("query")
    /\ UNCHANGED <<expired, ready, pipeVars, requestVars>>

QueryDown ==
    /\ mainAt = "query"
    /\ mainAt' = "admin" /\ Close("admin")
    /\ UNCHANGED <<expired, ready, pipeVars, requestVars>>

\* pipe.Shutdown closes the queue, cancels the consumer and waits for it.
ClosePipeline ==
    /\ mainAt = "admin"
    /\ mainAt' = "draining"
    /\ srvClosed' = TRUE /\ cancelled' = TRUE
    /\ UNCHANGED <<expired, ready, launch, srvQueue, consumer, consumerUp, srvBatch, srvTimer,
                   srvStored, requestVars>>

Exit ==
    /\ mainAt = "draining" /\ ~consumerUp
    /\ mainAt' = "exited"
    /\ UNCHANGED <<expired, ready, launch, pipeVars, requestVars>>

HandlerStep(rq) ==
    \/ Arrive(rq) \/ ReadRequest(rq) \/ EnqueueChecks(rq) \/ EnqueueSends(rq)
    \/ Reject(rq) \/ Acknowledge(rq)

ServerNext ==
    \/ \E rq \in Requests : HandlerStep(rq)
    \/ Dequeue \/ Process \/ BatchTimer \/ ConsumerStops
    \/ StartPipeline \/ ServerFails \/ Signal \/ Expire
    \/ ReceiverDown \/ QueryDown \/ ClosePipeline \/ Exit
    \/ \E s \in Servers : Listen(s)

ServerSpec == ServerInit /\ [][ServerNext]_serverVars

-----------------------------------------------------------------------------
\* The spans that wait in the queue, and all that the process holds.
InQueue == UNION {ToSet(rq.spans) : rq \in ToSet(srvQueue)}
Inside == InQueue \cup ToSet(consumer) \cup ToSet(srvBatch) \cup ToSet(srvStored)

\* The spans of the receiver's requests that were answered with the status.
Counts(r, status) ==
    Total([rq \in Requests |->
              IF rq.receiver = r /\ answers[rq] = status THEN Len(rq.spans) ELSE 0])

\* What a client was told is true until the process ends: spans it was told are
\* accepted are in exactly one of queue, consumer, batch and store; those of a
\* refused or dropped request are in none; the receivers' counters agree with
\* the answers.  After an orderly exit the queue is drained, handlers that
\* outlived the shutdown context included, and an accepted span can only be
\* missing from the store because it was still waiting for the batch timer.
AnswersHoldToTheEnd ==
    /\ IsInjective(srvQueue) /\ IsInjective(consumer)
    /\ IsInjective(srvBatch) /\ IsInjective(srvStored)
    /\ InQueue \cap (ToSet(consumer) \cup ToSet(srvBatch) \cup ToSet(srvStored)) = {}
    /\ ToSet(consumer) \cap (ToSet(srvBatch) \cup ToSet(srvStored)) = {}
    /\ ToSet(srvBatch) \cap ToSet(srvStored) = {}
    /\ \A rq \in Requests :
          /\ answers[rq] = Success(rq) => ToSet(rq.spans) \subseteq Inside
          /\ handlerAt[rq] = "over" /\ answers[rq] # Success(rq) =>
                ToSet(rq.spans) \cap Inside = {}
    /\ \A r \in Receivers :
          /\ received[r] = Counts(r, IF r = "otlp" THEN 200 ELSE 202)
          /\ rejected[r] = IF r = "otlp" THEN Counts(r, 429) ELSE 0
    /\ mainAt = "exited" =>
          /\ srvQueue = <<>>
          /\ \A rq \in Requests : answers[rq] = Success(rq) =>
                ToSet(rq.spans) \subseteq ToSet(srvStored) \cup ToSet(srvBatch)
          /\ ~expired => Running = {}
    /\ ready => mainAt \in {"serving", "failed"}

=============================================================================
