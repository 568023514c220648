---------------------------- MODULE TailSampling ----------------------------
(***************************************************************************)
(* internal/pipeline/tail_sampling.go: spans are buffered by trace ID; a   *)
(* loop that wakes every second decides on the traces whose first span is  *)
(* at least DecisionWait old, exports the ones a policy wants and forgets  *)
(* the others.  When the buffer is full the oldest trace is evicted.       *)
(*                                                                         *)
(* Time enters the code only through now - firstSeen < DecisionWait, so a  *)
(* buffer carries its age, in ticks, which stops counting at DecisionWait. *)
(***************************************************************************)
EXTENDS Integers, FiniteSets, Sequences, SequencesExt, Functions, Subsequences

CONSTANTS
    Spans,          \* distinct spans; each is submitted once
    TraceIds,
    SpanInfo,       \* span -> [trace, error, start, end]
    Width,          \* bits of the time stamps (64 in the code)
    DecisionWait,   \* in ticks of the clock
    MaxTraces,      \* TailSamplingConfig.MaxTraces, after its default
    Policies,       \* TailSamplingConfig.Policies
    MaxPayload,     \* bound: spans of one TracesData
    MayStop         \* what may stop the loop: subset of {"shutdown", "parent"}

Infos == [trace : TraceIds, error : BOOLEAN,
          start : 0 .. 2^Width - 1, end : 0 .. 2^Width - 1]

ASSUME TailAssumption ==
    /\ Width \in Nat \ {0}
    /\ SpanInfo \in [Spans -> Infos]
    /\ DecisionWait \in Nat \ {0}
    /\ MaxTraces \in Nat \ {0}
    /\ MaxPayload \in Nat
    /\ MayStop \subseteq {"shutdown", "parent"}

TraceOf(s) == SpanInfo[s].trace

-----------------------------------------------------------------------------
(* Policies *)

(* time.Duration(end - start): unsigned subtraction, read as signed.       *)
Duration(s) ==
    LET d == (SpanInfo[s].end - SpanInfo[s].start) % 2^Width
    IN  IF d >= 2^(Width - 1) THEN d - 2^Width ELSE d

(* ShouldSample of the elementary policies, on the spans of a trace.       *)
Basic(policy, spans) ==
    \/ policy.kind = "always"
    \/ policy.kind = "error" /\ \E s \in spans : SpanInfo[s].error
    \/ policy.kind = "latency" /\ \E s \in spans : Duration(s) >= policy.min
    \/ policy.kind = "count" /\ Cardinality(spans) >= policy.min

(* A composite policy combines elementary ones.                            *)
ShouldSample(policy, spans) ==
    \/ Basic(policy, spans)
    \/ policy.kind = "and" /\ \A sub \in policy.subs : Basic(sub, spans)
    \/ policy.kind = "or" /\ \E sub \in policy.subs : Basic(sub, spans)

(* No policy means that everything is sampled.                             *)
Sampled(spans) == Policies = {} \/ \E policy \in Policies : ShouldSample(policy, spans)

-----------------------------------------------------------------------------
VARIABLES
    todo,       \* the spans the ProcessTraces that holds ts.mu has yet to take
    traces,     \* ts.traces: trace ID -> [spans, age]
    order,      \* ts.order
    loop,       \* decisionLoop: "new", "run" or "exit"
    ctxDone,    \* the context of decisionLoop is cancelled
    closer,     \* progress of Shutdown
    taken,      \* history: spans ProcessTraces has gone through
    exported,   \* history: spans of traces that were exported
    rejected,   \* history: spans of traces no policy wanted
    evicted     \* history: spans of traces that were evicted

ctlVars == <<loop, ctxDone, closer>>
fateVars == <<exported, rejected, evicted>>
tailVars == <<todo, traces, order, ctlVars, taken, fateVars>>

Buffers == [spans : SUBSET Spans, age : 0 .. DecisionWait]

TailTypeOK ==
    /\ todo \in Seq(Spans)
    /\ DOMAIN traces \subseteq TraceIds
    /\ \A t \in DOMAIN traces : traces[t] \in Buffers
    /\ order \in Seq(TraceIds)
    /\ loop \in {"new", "run", "exit"}
    /\ ctxDone \in BOOLEAN
    /\ closer \in {"open", "wait", "decide", "done"}
    /\ taken \in SUBSET Spans
    /\ exported \in SUBSET Spans
    /\ rejected \in SUBSET Spans
    /\ evicted \in SUBSET Spans

TailInit ==
    /\ todo = << >>
    /\ traces = << >>
    /\ order = << >>
    /\ loop = "new"
    /\ ctxDone = FALSE
    /\ closer = "open"
    /\ taken = {}
    /\ exported = {}
    /\ rejected = {}
    /\ evicted = {}

Unlocked == todo = << >>

Buffered == UNION {traces[t].spans : t \in DOMAIN traces}

-----------------------------------------------------------------------------
(* ProcessTraces *)

(* Lock; td is the argument.                                               *)
ProcessTraces(td) ==
    /\ Unlocked
    /\ td # << >>
    /\ \A i \in DOMAIN td : td[i] \notin taken
    /\ IsInjective(td)
    /\ todo' = td
    /\ UNCHANGED <<traces, order, ctlVars, taken, fateVars>>

JoinsCopy(s) ==                        \* mutant of JoinTrace: appends to a copy
    /\ TraceOf(s) \in DOMAIN traces
    /\ UNCHANGED <<traces, order, fateVars>>

(* The span joins the buffer of its trace.                                 *)
JoinTrace(s) ==
    /\ TraceOf(s) \in DOMAIN traces
    /\ traces' = [traces EXCEPT ![TraceOf(s)].spans = @ \cup {s}]
    /\ UNCHANGED <<order, fateVars>>

NewBuffer(s) == [spans |-> {s}, age |-> 0]

LateFull == Cardinality(DOMAIN traces) > MaxTraces   \* mutant of BufferFull: > for >=
BufferFull == Cardinality(DOMAIN traces) >= MaxTraces

OrderAfterEviction == Tail(order)

(* The map with a new entry for s beside the entries of the kept traces.   *)
WithBuffer(s, kept) ==
    [t \in kept \cup {TraceOf(s)} |-> IF t = TraceOf(s) THEN NewBuffer(s) ELSE traces[t]]

(* The first span of a trace opens a buffer; evictOldest makes room.       *)
OpenTrace(s) ==
    LET oldest == Head(order) IN
    /\ TraceOf(s) \notin DOMAIN traces
    /\ IF BufferFull /\ order # << >>
       THEN /\ traces' = WithBuffer(s, DOMAIN traces \ {oldest})
            /\ order' = Append(OrderAfterEviction, TraceOf(s))
            /\ evicted' = IF oldest \in DOMAIN traces
                          THEN evicted \cup traces[oldest].spans ELSE evicted
       ELSE /\ traces' = WithBuffer(s, DOMAIN traces)
            /\ order' = Append(order, TraceOf(s))
            /\ UNCHANGED evicted
    /\ UNCHANGED <<exported, rejected>>

ProcessSpan ==
    /\ ~Unlocked
    /\ JoinTrace(Head(todo)) \/ OpenTrace(Head(todo))
    /\ taken' = taken \cup {Head(todo)}
    /\ todo' = Tail(todo)
    /\ UNCHANGED ctlVars

-----------------------------------------------------------------------------
(* makeDecisions *)

NeverDue(t) == FALSE                   \* mutant of Due: DecisionWait in a wrong unit
Due(t) == traces[t].age >= DecisionWait

Listed == ToSet(order) \cap DOMAIN traces

Remaining(due) == Keep(order, Listed \ due)

MakeDecisions ==
    LET due == {t \in Listed : Due(t)}
        yes == {t \in due : Sampled(traces[t].spans)}
    IN  /\ exported' = exported \cup UNION {traces[t].spans : t \in yes}
        /\ rejected' = rejected \cup UNION {traces[t].spans : t \in due \ yes}
        /\ traces' = Restrict(traces, DOMAIN traces \ due)
        /\ order' = Remaining(due)

(* A second passes; the ages move together.                                *)
Tick ==
    /\ \E t \in DOMAIN traces : traces[t].age < DecisionWait
    /\ traces' = [t \in DOMAIN traces |->
                     [traces[t] EXCEPT !.age = IF @ < DecisionWait THEN @ + 1 ELSE @]]
    /\ UNCHANGED <<todo, order, ctlVars, taken, fateVars>>

-----------------------------------------------------------------------------
(* decisionLoop, Start and Shutdown *)

Start ==
    /\ loop = "new"
    /\ closer = "open"
    /\ loop' = "run"
    /\ UNCHANGED <<todo, traces, order, ctxDone, closer, taken, fateVars>>

LoopDecides ==
    /\ loop = "run"
    /\ Unlocked
    /\ MakeDecisions
    /\ UNCHANGED <<todo, ctlVars, taken, evicted>>

SeesCancel == ctxDone

LoopExits ==
    /\ loop = "run"
    /\ SeesCancel
    /\ loop' = "exit"
    /\ UNCHANGED <<todo, traces, order, ctxDone, closer, taken, fateVars>>

ParentCancel ==
    /\ "parent" \in MayStop
    /\ loop # "new"
    /\ ctxDone' = TRUE
    /\ UNCHANGED <<todo, traces, order, loop, closer, taken, fateVars>>

(* Shutdown: cancel what Start started, wait for the loop, decide.         *)
BeginShutdown ==
    /\ "shutdown" \in MayStop
    /\ closer = "open"
    /\ ctxDone' = (ctxDone \/ loop # "new")
    /\ closer' = "wait"
    /\ UNCHANGED <<todo, traces, order, loop, taken, fateVars>>

ShutdownWait ==
    /\ closer = "wait"
    /\ loop # "run"
    /\ closer' = "decide"
    /\ UNCHANGED <<todo, traces, order, loop, ctxDone, taken, fateVars>>

ShutdownDecides ==
    /\ closer = "decide"
    /\ Unlocked
    /\ MakeDecisions
    /\ closer' = "done"
    /\ UNCHANGED <<todo, loop, ctxDone, taken, evicted>>

Payloads == UNION {[1 .. n -> Spans] : n \in 1 .. MaxPayload}

TailNext ==
    \/ \E td \in Payloads : ProcessTraces(td)
    \/ ProcessSpan
    \/ Tick
    \/ Start
    \/ LoopDecides
    \/ LoopExits
    \/ ParentCancel
    \/ BeginShutdown
    \/ ShutdownWait
    \/ ShutdownDecides

(* Time passes, a call that holds the mutex runs on, the ticker and the    *)
(* waiters for the mutex get their turn (sync.Mutex is starvation free).   *)
TailFairness ==
    /\ WF_tailVars(ProcessSpan)
    /\ WF_tailVars(Tick)
    /\ SF_tailVars(LoopDecides)
    /\ WF_tailVars(LoopExits)
    /\ WF_tailVars(ShutdownWait)
    /\ SF_tailVars(ShutdownDecides)

TailSpec == TailInit /\ [][TailNext]_tailVars /\ TailFairness

-----------------------------------------------------------------------------
(* Correctness *)

(* ts.order and ts.traces name the same traces, each once: a trace missing *)
(* from the list would never be decided, a stale entry would be evicted in *)
(* place of a live trace.                                                  *)
OrderMatchesTraces ==
    /\ TailTypeOK
    /\ ToSet(order) = DOMAIN traces
    /\ IsInjective(order)

(* The list names the buffered traces and is sorted by age, so that        *)
(* evictOldest evicts the oldest trace, and the buffer never holds more    *)
(* than MaxTraces traces.                                                  *)
OldestFirstAndBounded ==
    /\ OrderMatchesTraces
    /\ \A i, j \in DOMAIN order : i < j => traces[order[i]].age >= traces[order[j]].age
    /\ Cardinality(DOMAIN traces) <= MaxTraces

(* Each span that was taken is buffered under its own trace, or met one    *)
(* fate: exported, rejected or evicted.                                    *)
SpansHaveOneFate ==
    /\ taken = Buffered \cup exported \cup rejected \cup evicted
    /\ Buffered \cap (exported \cup rejected \cup evicted) = {}
    /\ exported \cap (rejected \cup evicted) = {}
    /\ rejected \cap evicted = {}
    /\ \A t \in DOMAIN traces :
          traces[t].spans # {} /\ \A s \in traces[t].spans : TraceOf(s) = t

(* While the loop runs, every span is decided on or evicted in the end.    *)
SpansAreDecided ==
    \A s \in Spans : (s \in taken /\ loop = "run") ~>
        (s \in exported \cup rejected \cup evicted \/ loop = "exit")

(* Shutdown returns.                                                       *)
TailShutdownReturns == (closer = "wait") ~> (closer = "done")

(* Both: neither a span nor a caller of Shutdown waits for ever.           *)
TailMakesProgress == SpansAreDecided /\ TailShutdownReturns

(* tail_sampling.go:160, "Shutdown flushes and makes final decisions":     *)
(* the final decisions leave no trace undecided.                           *)
ShutdownDecidesAll == [][closer' = "done" /\ closer # "done" => Buffered' = {}]_tailVars
=============================================================================
