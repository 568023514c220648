------------------------------ MODULE Sampling ------------------------------
(***************************************************************************)
(* Remote sampling and its configuration file: the FileProvider that       *)
(* answers /sampling (internal/sampling/strategy.go), the polling Watcher  *)
(* of internal/config/watcher.go, and the AdaptiveEngine of                *)
(* internal/sampling/adaptive.go.  One file is rewritten from outside      *)
(* while loaders, the watcher and queries read it.                         *)
(***************************************************************************)
EXTENDS Integers, Sequences, FiniteSets, FiniteSetsExt, SequencesExt, Tables

CONSTANTS Contents,     \* what the file may hold; Missing and Bad among them
          Missing, Bad, \* no file; a file json.Unmarshal refuses
          hashContent(_),  \* FNV-1a, which tells the contents apart
          Strategies(_),   \* service_strategies of a content: <<[service, strategy]>>
          Default(_),      \* its default_strategy, or "none"
          FullSampling,    \* the probabilistic strategy with rate 1.0
          Loaders,         \* Reload callers and WatchFile goroutines
          SamplingServices,
          Recorders,       \* goroutines that call RecordSpan
          TargetRate, RateScale,  \* of the engine: RateScale is 1.0, 1 is 0.0001
          MaxEdits, MaxRecords    \* bounds

NoHash == "no hash"   \* nothing read yet

ASSUME SamplingAssumption ==
    /\ {Missing, Bad} \subseteq Contents
    /\ \A c, d \in Contents : hashContent(c) = hashContent(d) => c = d
    /\ \A c \in Contents : /\ Len(Strategies(c)) \in Nat
                            /\ DOMAIN Strategies(c) = 1..Len(Strategies(c))
    /\ NoHash \notin Contents /\ "out" \notin SamplingServices
    /\ TargetRate \in Nat \ {0} /\ RateScale \in Nat \ {0}

VARIABLES file, fileEdits,     \* content of the file, changes so far
          strategies,          \* fp.strategies
          loading,             \* content a loader has read and not stored yet
          lastHash, polling,   \* of the watcher; polling is what check has read
          delivered,           \* contents onChange was called with
          firstRead,           \* content of Watch's first read
          window, probabilities,  \* of the engine
          recorderAt,          \* service a recorder found no window for
          recorded, computed   \* spans recorded, spans the computations have seen

providerVars == <<strategies, loading>>
watcherVars == <<lastHash, polling, delivered, firstRead>>
engineVars == <<window, probabilities, recorderAt, recorded, computed>>
samplingVars == <<file, fileEdits, providerVars, watcherVars, engineVars>>

Good == Contents \ {Missing, Bad}
\* NewFileProvider has loaded a good file; the watcher has not begun.
SamplingInit ==
    /\ file \in Good /\ fileEdits = 0
    /\ strategies = file /\ loading = [l \in Loaders |-> Missing]
    /\ lastHash = NoHash /\ polling = Missing /\ delivered = <<>> /\ firstRead = NoHash
    /\ window = [s \in {} |-> 0] /\ probabilities = [s \in {} |-> 0]
    /\ recorderAt = [r \in Recorders |-> "out"] /\ recorded = 0 /\ computed = 0

\* external: the file is rewritten or removed
EditFile(c) ==
    /\ fileEdits < MaxEdits
    /\ file' = c /\ fileEdits' = fileEdits + 1
    /\ UNCHANGED <<providerVars, watcherVars, engineVars>>

-----------------------------------------------------------------------------
(* FileProvider.load reads, then stores under the lock; an unreadable or   *)
(* malformed file leaves the old strategies.                               *)

LoadRead(l) ==
    /\ loading[l] = Missing /\ file \in Good
    /\ loading' = [loading EXCEPT ![l] = file]
    /\ UNCHANGED <<file, fileEdits, strategies, watcherVars, engineVars>>

LoadStore(l) ==
    /\ loading[l] # Missing
    /\ strategies' = loading[l]
    /\ loading' = [loading EXCEPT ![l] = Missing]
    /\ UNCHANGED <<file, fileEdits, watcherVars, engineVars>>

\* The first entry for the service, else the default, else everything.
GetSamplingStrategy(service) ==
    LET of == {i \in DOMAIN Strategies(strategies) : Strategies(strategies)[i].service = service}
    IN  IF of # {} THEN Strategies(strategies)[Min(of)].strategy
        ELSE IF Default(strategies) # "none" THEN Default(strategies) ELSE FullSampling

-----------------------------------------------------------------------------
(* Watch: a first read, then check on every tick. *)

WatchBegin ==
    /\ firstRead = NoHash
    /\ firstRead' = file
    /\ lastHash' = IF file = Missing THEN NoHash ELSE hashContent(file)
    /\ UNCHANGED <<file, fileEdits, providerVars, polling, delivered, engineVars>>

CheckRead ==
    /\ firstRead # NoHash /\ polling = Missing /\ file # Missing
    /\ polling' = file
    /\ UNCHANGED <<file, fileEdits, providerVars, lastHash, delivered, firstRead, engineVars>>

\* mutant: the hash is not kept
CheckCompareForgets ==
    /\ polling # Missing
    /\ delivered' = IF hashContent(polling) # lastHash THEN Append(delivered, polling) ELSE delivered
    /\ polling' = Missing
    /\ UNCHANGED <<file, fileEdits, providerVars, lastHash, firstRead, engineVars>>

CheckCompare ==
    /\ polling # Missing
    /\ lastHash' = hashContent(polling)
    /\ delivered' = IF hashContent(polling) # lastHash THEN Append(delivered, polling) ELSE delivered
    /\ polling' = Missing
    /\ UNCHANGED <<file, fileEdits, providerVars, firstRead, engineVars>>

-----------------------------------------------------------------------------
(* AdaptiveEngine. *)

WindowOr(s, n) == IF s \in DOMAIN window THEN window[s] ELSE n
Counted(s) == [x \in DOMAIN window \cup {s} |-> WindowOr(x, 0) + (IF x = s THEN 1 ELSE 0)]

\* RecordSpan: the lookup under the read lock finds a window and adds to it, or
\* looks again under the write lock.
RecordSpan(r, s) ==
    /\ recorderAt[r] = "out" /\ recorded < MaxRecords
    /\ IF s \in DOMAIN window
       THEN window' = Counted(s) /\ UNCHANGED recorderAt
       ELSE recorderAt' = [recorderAt EXCEPT ![r] = s] /\ UNCHANGED window
    /\ recorded' = recorded + 1
    /\ UNCHANGED <<file, fileEdits, providerVars, watcherVars, probabilities, computed>>

RecordCreates(r) ==
    /\ recorderAt[r] # "out"
    /\ window' = Counted(recorderAt[r])
    /\ recorderAt' = [recorderAt EXCEPT ![r] = "out"]
    /\ UNCHANGED <<file, fileEdits, providerVars, watcherVars, probabilities, recorded, computed>>

\* Compute, for an interval of one second.
Clamp(n) == Min({RateScale, Max({1, n})})
NewRate(s) ==
    LET current == IF s \in DOMAIN probabilities THEN probabilities[s] ELSE RateScale
        desired == (RateScale * TargetRate) \div window[s]
    IN  Clamp((7 * current + 3 * desired) \div 10)

Compute ==
    /\ \E s \in DOMAIN window : window[s] > 0
    /\ LET seen == {s \in DOMAIN window : window[s] > 0}
       IN  /\ probabilities' = [s \in DOMAIN probabilities \cup seen |->
                                  IF s \in seen THEN NewRate(s) ELSE probabilities[s]]
           /\ computed' = computed + Total(window)
    /\ window' = [s \in DOMAIN window |-> 0]
    /\ UNCHANGED <<file, fileEdits, providerVars, watcherVars, recorderAt, recorded>>

SamplingNext ==
    \/ \E c \in Contents : EditFile(c)
    \/ \E l \in Loaders : LoadRead(l) \/ LoadStore(l)
    \/ WatchBegin \/ CheckRead \/ CheckCompare
    \/ \E r \in Recorders : RecordCreates(r) \/ \E s \in SamplingServices : RecordSpan(r, s)
    \/ Compute

SamplingSpec == SamplingInit /\ [][SamplingNext]_samplingVars

-----------------------------------------------------------------------------
\* The watcher calls onChange once for every change it polls: never twice with
\* the same content in a row, never with what the first read had unless another
\* content came between, and between two polls its hash is that of the content
\* it has handed on last.
WatcherInStep ==
    LET seen == (IF firstRead \in {NoHash, Missing} THEN <<>> ELSE <<firstRead>>) \o delivered
    IN  /\ \A i \in 1..Len(seen) - 1 : seen[i] # seen[i + 1]
        /\ lastHash = IF seen = <<>> THEN NoHash ELSE hashContent(Last(seen))

\* A query is always answered from one whole good file, with an entry of the
\* service's own if there is one, and the engine's windows
\* lose no span to a window created twice or to a computation in between.
SamplingKeepsUp ==
    /\ WatcherInStep
    /\ strategies \in Good
    /\ \A s \in SamplingServices : \A ss \in Range(Strategies(strategies)) :
          ss.service = s => \E sr \in Range(Strategies(strategies)) :
                                sr.service = s /\ sr.strategy = GetSamplingStrategy(s)
    /\ recorded = computed + Total(window) + Cardinality({r \in Recorders : recorderAt[r] # "out"})
    /\ \A s \in DOMAIN probabilities : probabilities[s] \in 1..RateScale

=============================================================================
