----------------------------- MODULE Processors -----------------------------
(***************************************************************************)
(* The processors of internal/pipeline in a chain: memory limiter, filter, *)
(* attributes, span metrics, adaptive sampling.  Threads push payloads     *)
(* through it while the limiter's monitor and the sampler's adjustLoop run *)
(* beside them.  A payload is a sequence of spans of one resource.         *)
(* Rates are integers: Scale stands for 1.0 and 1 for the smallest rate    *)
(* the sampler sets (0.0001); hashes are below Scale.                      *)
(***************************************************************************)
EXTENDS Naturals, Integers, Sequences, FiniteSets, SequencesExt, Subsequences, Tables

CONSTANTS ProcThreads,
          ProcPayloads,       \* sequences of spans, each pushed once
          Services,       \* service names
          Service(_),     \* the service of a payload's resource
          Matches(_),     \* FilterProcessor.matches: service, name, kind, attributes
          IsError(_),     \* Status.Code = Error
          Hash(_),        \* of the trace ID of a span, as shouldSample computes it
          Include,        \* FilterModeInclude?
          Actions,        \* of the attributes processor: [type, key, value]
          Attributes(_),  \* attributes of a span: a function from keys
          SoftLimit, HardLimit,  \* MiB; 0 switches a limit off
          Heaps,          \* heap sizes the monitor may read
          DropEvery,      \* uint64(1.0 / DropRatio)
          Scale, InitialRate, Target,  \* of the sampler; Target per interval
          MaxChecks,      \* bound of the monitor's rounds
          MaxAdjusts      \* bound of the sampler's adjustments

ASSUME ProcessorsAssumption ==
    /\ Scale \in Nat \ {0} /\ InitialRate \in 1..Scale /\ Target \in Nat \ {0}
    /\ DropEvery \in Nat \ {0}
    /\ \A td \in ProcPayloads :
          Service(td) \in Services /\ td \in Seq(ToSet(td)) /\ IsInjective(td)
    /\ \A td, other \in ProcPayloads : td # other => ToSet(td) \cap ToSet(other) = {}

VARIABLES hardExceed, softExceed,  \* the limiter's flags
          counter, dropCount,      \* its payloads under the soft limit, its drops
          monitor,     \* "idle", or the level whose second flag is still to be stored
          level,       \* level of the last round that was completed
          rates,       \* service -> rate, for the services that have one
          throughput,  \* service -> spans since the last adjustment
          swapped,     \* spans the adjustments have seen
          callsTotal, errorsTotal,  \* calls_total, errors_total
          droppedCount,   \* of the filter
          stage, work,    \* of each thread: processor, and the spans it is given
          attrs,          \* attributes of the spans that came through
          fed,            \* payloads taken so far
          hardDrops,      \* of dropCount, those of the hard limit
          sampledOut, passed,  \* spans the sampler dropped, spans that came through
          checks, adjusts

limiter == <<hardExceed, softExceed, counter, dropCount, monitor, level, hardDrops, checks>>
sampler == <<rates, throughput, swapped, sampledOut, adjusts>>
procVars == <<limiter, sampler, callsTotal, errorsTotal, droppedCount, stage, work, attrs, fed, passed>>

Levels == {"normal", "soft", "hard"}
Current(td) == IF Service(td) \in DOMAIN rates THEN rates[Service(td)] ELSE InitialRate

ProcessorsTypeOK ==
    /\ {hardExceed, softExceed} \subseteq BOOLEAN
    /\ monitor \in Levels \cup {"idle"} /\ level \in Levels
    /\ DOMAIN rates \subseteq DOMAIN throughput /\ DOMAIN throughput \subseteq Services
    /\ \A s \in DOMAIN rates : rates[s] \in 1..Scale
    /\ stage \in [ProcThreads -> {"out", "soft", "filter", "attributes", "metrics",
                              "track", "add", "sample"}]

ProcInit ==
    /\ hardExceed = FALSE /\ softExceed = FALSE /\ counter = 0 /\ dropCount = 0
    /\ monitor = "idle" /\ level = "normal" /\ hardDrops = 0 /\ checks = 0
    /\ rates = [s \in {} |-> 0] /\ throughput = [s \in {} |-> 0] /\ swapped = 0
    /\ sampledOut = {} /\ adjusts = 0
    /\ callsTotal = 0 /\ errorsTotal = 0 /\ droppedCount = 0
    /\ stage = [t \in ProcThreads |-> "out"]
    /\ work = [t \in ProcThreads |-> [td |-> <<>>, kept |-> <<>>]]
    /\ attrs = [s \in {} |-> {}]
    /\ fed = {} /\ passed = {}

At(t, place) == stage[t] = place
To(t, place) == stage' = [stage EXCEPT ![t] = place]

-----------------------------------------------------------------------------
(* Memory limiter. *)

\* ProcessTraces: the hard flag,
LimitHard(t, td) ==
    /\ At(t, "out") /\ td \in ProcPayloads \ fed
    /\ fed' = fed \cup {td}
    /\ IF hardExceed
       THEN /\ dropCount' = dropCount + 1 /\ hardDrops' = hardDrops + 1
            /\ UNCHANGED <<stage, work>>
       ELSE /\ To(t, "soft")
            /\ work' = [work EXCEPT ![t] = [td |-> td, kept |-> td]]
            /\ UNCHANGED <<dropCount, hardDrops>>
    /\ UNCHANGED <<hardExceed, softExceed, counter, monitor, level, checks, sampler,
                   callsTotal, errorsTotal, droppedCount, attrs, passed>>

\* then the soft one: every DropEvery-th payload is dropped.
LimitSoft(t) ==
    /\ At(t, "soft")
    /\ counter' = IF softExceed THEN counter + 1 ELSE counter
    /\ IF softExceed /\ (counter + 1) % DropEvery = 0
       THEN dropCount' = dropCount + 1 /\ To(t, "out")
       ELSE UNCHANGED dropCount /\ To(t, "filter")
    /\ UNCHANGED <<hardExceed, softExceed, monitor, level, hardDrops, checks, sampler,
                   callsTotal, errorsTotal, droppedCount, work, attrs, fed, passed>>

LevelOf(heap) ==
    CASE HardLimit > 0 /\ heap >= HardLimit -> "hard"
      [] ~(HardLimit > 0 /\ heap >= HardLimit) /\ SoftLimit > 0 /\ heap >= SoftLimit -> "soft"
      [] OTHER -> "normal"

\* mutant: leaving the hard level clears both flags before the new level is stored
MonitorChecksClearing(heap) ==
    /\ monitor = "idle" /\ checks < MaxChecks
    /\ checks' = checks + 1
    /\ monitor' = LevelOf(heap)
    /\ hardExceed' = (LevelOf(heap) = "hard")
    /\ softExceed' = FALSE
    /\ UNCHANGED <<counter, dropCount, level, hardDrops, sampler, callsTotal, errorsTotal,
                   droppedCount, stage, work, attrs, fed, passed>>

\* monitor: the hard flag is stored first ...
MonitorChecks(heap) ==
    /\ monitor = "idle" /\ checks < MaxChecks
    /\ checks' = checks + 1
    /\ monitor' = LevelOf(heap)
    /\ hardExceed' = (LevelOf(heap) = "hard")
    /\ UNCHANGED <<softExceed, counter, dropCount, level, hardDrops, sampler, callsTotal,
                   errorsTotal, droppedCount, stage, work, attrs, fed, passed>>

\* ... and the soft flag after it.
MonitorStoresSoft ==
    /\ monitor # "idle"
    /\ softExceed' = (monitor # "normal")
    /\ level' = monitor /\ monitor' = "idle"
    /\ UNCHANGED <<hardExceed, counter, dropCount, hardDrops, checks, sampler, callsTotal,
                   errorsTotal, droppedCount, stage, work, attrs, fed, passed>>

-----------------------------------------------------------------------------
(* Filter, attributes, span metrics. *)

FilterSpans(t) ==
    /\ At(t, "filter")
    /\ LET kept == Keep(work[t].kept, {s \in ToSet(work[t].kept) : Matches(s) = Include})
       IN  /\ work' = [work EXCEPT ![t].kept = kept]
           /\ droppedCount' = droppedCount + Len(work[t].kept) - Len(kept)
    /\ To(t, "attributes")
    /\ UNCHANGED <<limiter, sampler, callsTotal, errorsTotal, attrs, fed, passed>>

\* applyAction
Applied(action, a) ==
    CASE action.type = "insert" /\ action.key \notin DOMAIN a -> WithEntry(a, action.key, action.value)
      [] action.type = "update" /\ action.key \in DOMAIN a -> WithEntry(a, action.key, action.value)
      [] action.type = "upsert" -> WithEntry(a, action.key, action.value)
      [] action.type = "delete" -> [k \in DOMAIN a \ {action.key} |-> a[k]]
      [] OTHER -> a

SetAttributes(t) ==
    /\ At(t, "attributes")
    /\ attrs' = [s \in DOMAIN attrs \cup ToSet(work[t].kept) |->
                    IF s \in DOMAIN attrs THEN attrs[s]
                    ELSE FoldLeft(LAMBDA a, action : Applied(action, a), Attributes(s), Actions)]
    /\ To(t, "metrics")
    /\ UNCHANGED <<limiter, sampler, callsTotal, errorsTotal, droppedCount, work, fed, passed>>

\* SpanmetricsConnector.ProcessTraces: a tap; each counter is exact on its own.
ObserveSpans(t) ==
    /\ At(t, "metrics")
    /\ callsTotal' = callsTotal + Len(work[t].kept)
    /\ errorsTotal' = errorsTotal + Len(Keep(work[t].kept, {s \in ToSet(work[t].kept) : IsError(s)}))
    /\ To(t, IF work[t].kept = <<>> THEN "out" ELSE "track")
    /\ UNCHANGED <<limiter, sampler, droppedCount, work, attrs, fed, passed>>

-----------------------------------------------------------------------------
(* Adaptive sampling. *)

\* trackThroughput: the counter is looked up or created under the mutex ...
TrackThroughput(t) ==
    /\ At(t, "track")
    /\ throughput' = IF Service(work[t].td) \in DOMAIN throughput THEN throughput
                     ELSE WithEntry(throughput, Service(work[t].td), 0)
    /\ To(t, "add")
    /\ UNCHANGED <<limiter, rates, swapped, sampledOut, adjusts, callsTotal, errorsTotal,
                   droppedCount, work, attrs, fed, passed>>

\* mutant: the counter is replaced when it is added to
AddThroughputLost(t) ==
    /\ At(t, "add")
    /\ throughput' = [throughput EXCEPT ![Service(work[t].td)] = Len(work[t].kept)]
    /\ To(t, "sample")
    /\ UNCHANGED <<limiter, rates, swapped, sampledOut, adjusts, callsTotal, errorsTotal,
                   droppedCount, work, attrs, fed, passed>>

\* ... and added to outside it.
AddThroughput(t) ==
    /\ At(t, "add")
    /\ throughput' = [throughput EXCEPT ![Service(work[t].td)] = @ + Len(work[t].kept)]
    /\ To(t, "sample")
    /\ UNCHANGED <<limiter, rates, swapped, sampledOut, adjusts, callsTotal, errorsTotal,
                   droppedCount, work, attrs, fed, passed>>

\* shouldSample
ShouldSample(s, rate) == rate >= Scale \/ Hash(s) < rate

SampleSpans(t) ==
    /\ At(t, "sample")
    /\ LET kept == {s \in ToSet(work[t].kept) : ShouldSample(s, Current(work[t].td))}
       IN  /\ passed' = passed \cup kept
           /\ sampledOut' = sampledOut \cup (ToSet(work[t].kept) \ kept)
    /\ To(t, "out")
    /\ UNCHANGED <<limiter, rates, throughput, swapped, adjusts, callsTotal, errorsTotal,
                   droppedCount, work, attrs, fed>>

\* adjust: 0.7 of the current rate and 0.3 of the one that would meet the target,
\* within the bounds; a service without spans keeps its rate.
AdjustedRate(current, observed) ==
    LET blend == (7 * current + (3 * Target * Scale) \div observed) \div 10
    IN  IF blend < 1 THEN 1 ELSE IF blend > Scale THEN Scale ELSE blend

AdjustRates ==
    /\ adjusts < MaxAdjusts
    /\ adjusts' = adjusts + 1
    /\ LET busy == {s \in DOMAIN throughput : throughput[s] > 0}
       IN  rates' = [s \in DOMAIN rates \cup busy |->
                        LET current == IF s \in DOMAIN rates THEN rates[s] ELSE InitialRate
                        IN  IF s \in busy THEN AdjustedRate(current, throughput[s]) ELSE current]
    /\ swapped' = swapped + Total(throughput)
    /\ throughput' = [s \in DOMAIN throughput |-> 0]
    /\ UNCHANGED <<limiter, sampledOut, callsTotal, errorsTotal, droppedCount, stage, work, attrs,
                   fed, passed>>

-----------------------------------------------------------------------------
ProcNext ==
    \/ \E t \in ProcThreads :
         \/ \E td \in ProcPayloads : LimitHard(t, td)
         \/ LimitSoft(t) \/ FilterSpans(t) \/ SetAttributes(t) \/ ObserveSpans(t)
         \/ TrackThroughput(t) \/ AddThroughput(t) \/ SampleSpans(t)
    \/ \E heap \in Heaps : MonitorChecks(heap)
    \/ MonitorStoresSoft \/ AdjustRates

ProcSpec == ProcInit /\ [][ProcNext]_procVars

-----------------------------------------------------------------------------
\* While the heap was over the soft limit at the last completed check and is at the
\* one in progress, ProcessTraces never finds both flags clear: going from one level
\* to the other, flag by flag, opens no window without a limit.
NoUnguardedWindow ==
    /\ ProcessorsTypeOK
    /\ level # "normal" /\ monitor # "normal" => hardExceed \/ softExceed

InStage(places) == {t \in ProcThreads : stage[t] \in places}
SpansOf(places) == Total([t \in InStage(places) |-> Len(work[t].kept)])

\* The counters of the chain agree with each other and with what came through, with
\* payloads, monitor and adjustments in any order: the limiter drops every payload
\* it meets at the hard limit and every DropEvery-th at the soft one; what enters
\* the filter is counted as dropped there or tapped; what is tapped is seen by
\* exactly one adjustment or waits for the next.
ChainAccounts ==
    LET entered == Total([td \in fed |-> Len(td)])
    IN  /\ dropCount = hardDrops + counter \div DropEvery
        /\ Cardinality(fed) >= dropCount
        /\ callsTotal = SpansOf({"track", "add", "sample"}) + Cardinality(passed \cup sampledOut)
        /\ callsTotal = swapped + SpansOf({"track", "add"})
                   + Total(throughput)
        /\ callsTotal + droppedCount + SpansOf({"soft", "filter", "attributes", "metrics"}) <= entered
        /\ \A s \in passed \cup sampledOut : Matches(s) = Include
        /\ passed \cap sampledOut = {}

=============================================================================
