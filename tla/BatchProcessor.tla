--------------------------- MODULE BatchProcessor ---------------------------
(***************************************************************************)
(* internal/pipeline/batch.go: spans are appended to a batch that is       *)
(* exported when it is full, when a timer fires, or on Flush and Shutdown. *)
(* Everything happens under one mutex, the export included.  What runs     *)
(* beside it is the timer: time.AfterFunc starts a goroutine that has to   *)
(* wait for the mutex, and Stop cannot recall one that has started.        *)
(***************************************************************************)
EXTENDS Integers, Sequences, SequencesExt

CONSTANTS
    Spans,          \* distinct spans; each is submitted once
    Resources,
    ResourceOf,     \* the resource a span is submitted under
    MaxBatchSize,   \* BatchConfig.MaxBatchSize, after its default
    Timers,         \* bound: timers that are armed or firing at a time
    MaxPayload,     \* bound: entries of one TracesData
    NoTimer         \* bp.timer == nil

ASSUME BatchAssumption ==
    /\ ResourceOf \in [Spans -> Resources]
    /\ MaxBatchSize \in Nat \ {0}
    /\ MaxPayload \in Nat
    /\ NoTimer \notin Timers

(* A TracesData, flattened: a span together with the resource in force, or *)
(* a resource that carries no span (span = NoSpan).                        *)
NoSpan == "none"
Entries == {[res |-> ResourceOf[s], span |-> s] : s \in Spans}
           \cup [res : Resources, span : {NoSpan}]

VARIABLES
    locked,     \* a ProcessTraces call holds bp.mu
    todo,       \* the entries that call has still to go through
    batch,      \* bp.batch
    res,        \* bp.res, the resource last seen, as a set; bp.scope likewise
    timer,      \* bp.timer
    armed,      \* timers the runtime will fire
    firing,     \* timers whose goroutine runs and waits for bp.mu
    accepted,   \* history: spans appended to the batch, in order
    sent,       \* history: spans passed to next.ExportTraces, in order
    lastExport  \* the latest export

batchVars == <<locked, todo, batch, res, timer, armed, firing, accepted, sent, lastExport>>

BatchTypeOK ==
    /\ locked \in BOOLEAN
    /\ todo \in Seq(Entries)
    /\ batch \in Seq(Spans)
    /\ res \in SUBSET Resources
    /\ timer \in Timers \cup {NoTimer}
    /\ armed \in SUBSET Timers
    /\ firing \in SUBSET Timers
    /\ accepted \in Seq(Spans)
    /\ sent \in Seq(Spans)
    /\ lastExport \in [res : SUBSET Resources, spans : Seq(Spans)]

BatchInit ==
    /\ locked = FALSE
    /\ todo = << >>
    /\ batch = << >>
    /\ res = {}
    /\ timer = NoTimer
    /\ armed = {}
    /\ firing = {}
    /\ accepted = << >>
    /\ sent = << >>
    /\ lastExport = [res |-> {}, spans |-> << >>]

-----------------------------------------------------------------------------
(* flushLocked *)

(* timer.Stop(): an armed timer will not fire; one that fired runs on.     *)
KeepTimer == UNCHANGED timer /\ armed' = armed \ {timer}  \* mutant: bp.timer not reset
StopTimer == timer' = NoTimer /\ armed' = armed \ {timer}

(* Exports the batch under the resource last seen and empties it.          *)
ResendsBatch ==                        \* mutant of ExportBatch: batch not emptied
    /\ StopTimer
    /\ UNCHANGED batch
    /\ sent' = sent \o batch
    /\ lastExport' = [res |-> res, spans |-> batch]

ExportBatch ==
    /\ StopTimer
    /\ batch' = << >>
    /\ sent' = sent \o batch
    /\ lastExport' = [res |-> res, spans |-> batch]

FlushLocked ==
    IF batch = << >>
    THEN UNCHANGED <<batch, timer, armed, sent, lastExport>>
    ELSE ExportBatch

-----------------------------------------------------------------------------
(* ProcessTraces *)

(* Lock; td is the argument.  A timer is left to be armed (bound).         *)
BeginProcess(td) ==
    /\ ~locked
    /\ Timers \ (armed \cup firing) # {}
    /\ \A i \in DOMAIN td : td[i].span \notin ToSet(accepted)
    /\ \A i, j \in DOMAIN td : td[i].span = td[j].span /\ td[i].span # NoSpan => i = j
    /\ locked' = TRUE
    /\ todo' = td
    /\ UNCHANGED <<batch, res, timer, armed, firing, accepted, sent, lastExport>>

Overfull == Len(batch) > MaxBatchSize  \* mutant of Full: > for >=
Full == Len(batch) >= MaxBatchSize

(* The loop body up to the append: a resource is noted, a span appended.   *)
ProcessEntry ==
    /\ locked
    /\ ~Full
    /\ todo # << >>
    /\ todo' = Tail(todo)
    /\ res' = {Head(todo).res}
    /\ IF Head(todo).span = NoSpan
       THEN UNCHANGED <<batch, accepted>>
       ELSE /\ batch' = Append(batch, Head(todo).span)
            /\ accepted' = Append(accepted, Head(todo).span)
    /\ UNCHANGED <<locked, timer, armed, firing, sent, lastExport>>

(* The loop body after the append: a full batch is flushed.                *)
FlushFull ==
    /\ locked
    /\ Full
    /\ FlushLocked
    /\ UNCHANGED <<locked, todo, res, firing, accepted>>

(* The end of the call: a batch that waits has a timer.                    *)
NeverArm == FALSE                      \* mutant of NeedsTimer: no AfterFunc
NeedsTimer == batch # << >> /\ timer = NoTimer

EndProcess ==
    /\ locked
    /\ ~Full
    /\ todo = << >>
    /\ locked' = FALSE
    /\ IF NeedsTimer
       THEN \E t \in Timers \ (armed \cup firing) :
                timer' = t /\ armed' = armed \cup {t}
       ELSE UNCHANGED <<timer, armed>>
    /\ UNCHANGED <<todo, batch, res, firing, accepted, sent, lastExport>>

-----------------------------------------------------------------------------
(* The timer, Flush and Shutdown *)

TimerFires(t) ==
    /\ t \in armed
    /\ armed' = armed \ {t}
    /\ firing' = firing \cup {t}
    /\ UNCHANGED <<locked, todo, batch, res, timer, accepted, sent, lastExport>>

(* The callback gets the mutex.                                            *)
TimerFlush(t) ==
    /\ t \in firing
    /\ ~locked
    /\ FlushLocked
    /\ firing' = firing \ {t}
    /\ UNCHANGED <<locked, todo, res, accepted>>

(* Flush, and Shutdown, which only flushes.                                *)
Flush ==
    /\ ~locked
    /\ FlushLocked
    /\ UNCHANGED <<locked, todo, res, firing, accepted>>

Payloads == UNION {[1 .. n -> Entries] : n \in 0 .. MaxPayload}

BatchNext ==
    \/ \E td \in Payloads : BeginProcess(td)
    \/ ProcessEntry
    \/ FlushFull
    \/ EndProcess
    \/ \E t \in Timers : TimerFires(t)
    \/ \E t \in Timers : TimerFlush(t)
    \/ Flush

(* A call that holds the mutex runs on, a timer fires, and its goroutine,  *)
(* which waits for the mutex, gets it: sync.Mutex hands itself to a waiter *)
(* that has starved, so strong fairness is what the runtime provides.      *)
BatchFairness ==
    /\ WF_batchVars(ProcessEntry)
    /\ WF_batchVars(FlushFull)
    /\ WF_batchVars(EndProcess)
    /\ \A t \in Timers : WF_batchVars(TimerFires(t))
    /\ \A t \in Timers : SF_batchVars(TimerFlush(t))

BatchSpec == BatchInit /\ [][BatchNext]_batchVars /\ BatchFairness

-----------------------------------------------------------------------------
(* Correctness *)

(* No span is lost, sent twice or overtaken between ProcessTraces and the  *)
(* exporter, whichever of size, timer and Flush sends it.                  *)
SpansExactlyOnce == accepted = sent \o batch

(* Spans that wait are never forgotten: whenever no call is in progress, a *)
(* timer that is armed or already firing stands behind them.               *)
WaitingSpansHaveTimer ==
    batch # << >> /\ ~locked => timer # NoTimer /\ timer \in armed \cup firing

(* There is at most one live timer, and it belongs to a batch that waits:  *)
(* flushing leaves none behind, so timers do not pile up under load.       *)
NoStrayTimer ==
    /\ armed \subseteq {timer}
    /\ timer # NoTimer => batch # << >>

(* An export never holds more than MaxBatchSize spans, and a full batch    *)
(* never outlives the call that filled it.                                 *)
ExportsAreBounded ==
    /\ Len(lastExport.spans) <= MaxBatchSize
    /\ Len(batch) <= MaxBatchSize
    /\ ~locked => Len(batch) < MaxBatchSize

(* Every span given to ProcessTraces reaches the exporter.                 *)
SpansAreSent == \A s \in Spans : (s \in ToSet(accepted)) ~> (s \in ToSet(sent))

(* The processor implements the abstract buffer, one that never closes.    *)
BatchFifo == INSTANCE FifoDelivery WITH
                 open <- TRUE, done <- sent, finished <- FALSE
BatchImplementsFifo == BatchFifo!FifoSpec

(* otlp/traces.go:59, "ResourceSpans groups spans by resource": a span is  *)
(* exported under the resource it was received with.                       *)
SpansKeepResource ==
    \A s \in ToSet(lastExport.spans) : lastExport.res = {ResourceOf[s]}
=============================================================================
