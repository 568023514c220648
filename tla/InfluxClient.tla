---------------------------- MODULE InfluxClient ----------------------------
(***************************************************************************)
(* The InfluxDB client of internal/storage/influxdb/client.go: Write with  *)
(* its three attempts, and the circuit breaker around it.  The breaker     *)
(* lives in two atomics, failures and circuitOpen, and in circuitReset,    *)
(* which circuitMu guards.  Each atomic operation is a step of its own, so *)
(* that writers interleave between them.  The server is external: it may   *)
(* apply a request and not be heard, refuse it, or fail.                   *)
(***************************************************************************)
EXTENDS Naturals

CONSTANTS Writers,     \* goroutines that call Write
          Threshold,   \* failures that open the circuit (5)
          Attempts,    \* attempts of one Write (3)
          Window,      \* time the circuit stays open (30 s), in ticks
          MaxNow,      \* bound of the clock
          MaxWrites    \* bound of the Write calls

ASSUME InfluxAssumption ==
    /\ {Threshold, Attempts} \subseteq Nat \ {0}
    /\ {Window, MaxNow, MaxWrites} \subseteq Nat

VARIABLES failures, circuitOpen, circuitReset,  \* the breaker
          circuitMu,      \* the writers (at most one) inside the mutex
          clock,          \* time.Now() in ticks
          writerAt,             \* where each writer is
          attempt,        \* attempt of the writer's current call
          applied,        \* has the server applied the writer's current points?
          calls,          \* Write calls so far
          outcome,        \* what the writer's last Write returned
          sentOpen        \* attempts of each writer since the circuit opened

breaker == <<failures, circuitOpen, circuitReset, circuitMu>>
influxVars == <<failures, circuitOpen, circuitReset, circuitMu, clock, writerAt,
                attempt, applied, calls, outcome, sentOpen>>

Places == {"idle", "locking", "resetting", "ready", "backoff", "failed",
           "tripping", "succeeded", "closing", "refused", "refusing"}

InfluxTypeOK ==
    /\ failures \in Nat
    /\ circuitOpen \in BOOLEAN
    /\ circuitReset \in Nat
    /\ circuitMu \subseteq Writers
    /\ clock \in 0..MaxNow
    /\ writerAt \in [Writers -> Places]
    /\ attempt \in [Writers -> 0..Attempts]
    /\ applied \in [Writers -> BOOLEAN]
    /\ calls \in 0..MaxWrites
    /\ outcome \in [Writers -> {"none", "ok", "open", "encode", "ctx", "client", "server"}]
    /\ sentOpen \in [Writers -> Nat]

InfluxInit ==
    /\ failures = 0 /\ circuitOpen = FALSE /\ circuitReset = 0 /\ circuitMu = {}
    /\ clock = 0
    /\ writerAt = [w \in Writers |-> "idle"]
    /\ attempt = [w \in Writers |-> 0]
    /\ applied = [w \in Writers |-> FALSE]
    /\ calls = 0
    /\ outcome = [w \in Writers |-> "none"]
    /\ sentOpen = [w \in Writers |-> 0]

WriterTo(w, place) == writerAt' = [writerAt EXCEPT ![w] = place]
WriteReturns(w, result) == WriterTo(w, "idle") /\ outcome' = [outcome EXCEPT ![w] = result]

-----------------------------------------------------------------------------
(* Write begins: isCircuitOpen loads the flag. *)

\* mutant: the flag is not looked at
WriteCallUnchecked(w) ==
    /\ writerAt[w] = "idle" /\ calls < MaxWrites
    /\ calls' = calls + 1
    /\ attempt' = [attempt EXCEPT ![w] = 0]
    /\ applied' = [applied EXCEPT ![w] = FALSE]
    /\ WriterTo(w, "ready")
    /\ UNCHANGED <<breaker, clock, outcome, sentOpen>>

WriteCall(w) ==
    /\ writerAt[w] = "idle" /\ calls < MaxWrites
    /\ calls' = calls + 1
    /\ attempt' = [attempt EXCEPT ![w] = 0]
    /\ applied' = [applied EXCEPT ![w] = FALSE]
    /\ WriterTo(w, IF circuitOpen THEN "locking" ELSE "ready")
    /\ UNCHANGED <<breaker, clock, outcome, sentOpen>>

\* isCircuitOpen under the mutex: the window is over, the circuit closes, or
\* the call is refused.  circuitOpen is stored before failures.
CheckWindow(w) ==
    /\ writerAt[w] = "locking" /\ circuitMu = {}
    /\ \/ /\ clock > circuitReset
          /\ circuitOpen' = FALSE
          /\ circuitMu' = {w}
          /\ WriterTo(w, "resetting")
          /\ sentOpen' = [x \in Writers |-> 0]
          /\ UNCHANGED outcome
       \/ /\ clock <= circuitReset
          /\ WriteReturns(w, "open")
          /\ UNCHANGED <<circuitOpen, circuitMu, sentOpen>>
    /\ UNCHANGED <<failures, circuitReset, clock, attempt, applied, calls>>

ClearFailures(w) ==
    /\ writerAt[w] = "resetting"
    /\ failures' = 0
    /\ circuitMu' = {}
    /\ WriterTo(w, "ready")
    /\ UNCHANGED <<circuitOpen, circuitReset, clock, attempt, applied, calls,
                   outcome, sentOpen>>

\* The encoder refuses the points.
EncodeError(w) ==
    /\ writerAt[w] = "ready" /\ attempt[w] = 0
    /\ WriteReturns(w, "encode")
    /\ UNCHANGED <<breaker, clock, attempt, applied, calls, sentOpen>>

-----------------------------------------------------------------------------
(* The attempts.  A request that is answered with an error or not at all   *)
(* may have been applied; one answered with success was.                   *)

SendWrite(w) ==
    /\ writerAt[w] = "ready"
    /\ attempt' = [attempt EXCEPT ![w] = @ + 1]
    /\ sentOpen' = [sentOpen EXCEPT ![w] = IF circuitOpen THEN @ + 1 ELSE @]
    /\ \/ /\ WriterTo(w, "succeeded")                        \* 2xx
          /\ applied' = [applied EXCEPT ![w] = TRUE]
       \/ WriterTo(w, "refused") /\ UNCHANGED applied        \* 4xx but 429
       \/ WriterTo(w, "failed") /\ UNCHANGED applied         \* 429, 5xx, transport error
       \/ /\ WriterTo(w, "failed")                           \* the answer was lost
          /\ applied' = [applied EXCEPT ![w] = TRUE]
    /\ UNCHANGED <<breaker, clock, calls, outcome>>

\* recordFailure, the Add; then the loop goes round or ends.
AfterFailure(w) ==
    IF attempt[w] < Attempts
    THEN WriterTo(w, "backoff") /\ UNCHANGED outcome
    ELSE WriteReturns(w, "server")

CountFailure(w) ==
    /\ writerAt[w] = "failed"
    /\ failures' = failures + 1
    /\ IF failures + 1 >= Threshold
       THEN WriterTo(w, "tripping") /\ UNCHANGED outcome
       ELSE AfterFailure(w)
    /\ UNCHANGED <<circuitOpen, circuitReset, circuitMu, clock, attempt, applied,
                   calls, sentOpen>>

\* recordFailure, the part under the mutex.
Trip(w) ==
    /\ writerAt[w] = "tripping" /\ circuitMu = {}
    /\ circuitOpen' = TRUE
    /\ circuitReset' = clock + Window
    /\ AfterFailure(w)
    /\ sentOpen' = IF circuitOpen THEN sentOpen ELSE [x \in Writers |-> 0]
    /\ UNCHANGED <<failures, circuitMu, clock, attempt, applied, calls>>

\* The wait before the next attempt ends, or the context does.
Backoff(w) ==
    /\ writerAt[w] = "backoff"
    /\ \/ WriterTo(w, "ready") /\ UNCHANGED outcome
       \/ WriteReturns(w, "ctx")
    /\ UNCHANGED <<breaker, clock, attempt, applied, calls, sentOpen>>

\* recordSuccess: failures, then circuitOpen, without the mutex.
SuccessClears(w) ==
    /\ writerAt[w] \in {"succeeded", "refused"}
    /\ failures' = 0
    /\ WriterTo(w, IF writerAt[w] = "succeeded" THEN "closing" ELSE "refusing")
    /\ UNCHANGED <<circuitOpen, circuitReset, circuitMu, clock, attempt, applied,
                   calls, outcome, sentOpen>>

SuccessCloses(w) ==
    /\ writerAt[w] \in {"closing", "refusing"}
    /\ circuitOpen' = FALSE
    /\ sentOpen' = [x \in Writers |-> 0]
    /\ WriteReturns(w, IF writerAt[w] = "closing" THEN "ok" ELSE "client")
    /\ UNCHANGED <<failures, circuitReset, circuitMu, clock, attempt, applied, calls>>

\* external: time passes.
InfluxTick ==
    /\ clock < MaxNow
    /\ clock' = clock + 1
    /\ UNCHANGED <<breaker, writerAt, attempt, applied, calls, outcome, sentOpen>>

InfluxStep(w) ==
    \/ CheckWindow(w) \/ ClearFailures(w) \/ EncodeError(w) \/ SendWrite(w) \/ CountFailure(w)
    \/ Trip(w) \/ Backoff(w) \/ SuccessClears(w) \/ SuccessCloses(w)

InfluxNext == InfluxTick \/ \E w \in Writers : WriteCall(w) \/ InfluxStep(w)

InfluxSpec == InfluxInit /\ [][InfluxNext]_influxVars

-----------------------------------------------------------------------------
\* While the circuit is open, the server gets at most the attempts that were
\* left to the calls which had passed the check: no writer sends more than one
\* call's attempts until the window is over or a success has closed the
\* circuit, however the writers interleave with the atomics of the breaker.
BreakerShedsLoad == circuitOpen => \A w \in Writers : sentOpen[w] <= Attempts

\* The breaker sheds load, and what Write returns is true of the server: success
\* only when the points were applied; "circuit open" and an encoding error only
\* when they were never sent.  (Any other error leaves open whether they were.)
InfluxWritesAreSound ==
    /\ InfluxTypeOK
    /\ BreakerShedsLoad
    /\ \A w \in Writers :
          writerAt[w] = "idle" =>
              /\ outcome[w] = "ok" => applied[w]
              /\ outcome[w] \in {"open", "encode"} => ~applied[w] /\ attempt[w] = 0

=============================================================================
