-------------------------------- MODULE Sdk --------------------------------
(***************************************************************************)
(* The Go SDK of sdk/go/tracer: a Tracer keeps every span it has started   *)
(* until Shutdown hands them to the OTLP/HTTP exporter, which collects     *)
(* them under its own mutex and posts them outside it.  Spans go on being     *)
(* changed by the application; their content is a version number, raised   *)
(* by SetAttribute, RecordError, AddEvent and SetStatus.  The HTTP server  *)
(* at the other end is external.                                           *)
(***************************************************************************)
EXTENDS Naturals, Sequences, FiniteSets, SequencesExt, Tables

CONSTANTS SdkSpans,         \* spans the application starts, each once
          Stoppers,      \* goroutines that call Shutdown, Export or Flush
          SdkBatchSize,  \* batchSize of the exporter
          MaxVersion     \* bound of the changes of one span

ASSUME SdkAssumption == SdkBatchSize \in Nat \ {0} /\ MaxVersion \in Nat

VARIABLES tracerSpans,   \* t.spans
          pendingSpans,  \* e.pending
          where,         \* where each caller is
          hand,          \* spans a caller has taken and not yet passed on
          built,         \* the payload a caller has built so far: span -> version
          version,       \* content of each span
          ended,         \* spans whose End was called
          dueVersion,    \* content a span had when it was taken for export
          posted,        \* span -> version, of the requests the server took
          failed         \* spans of requests that failed

sdkVars == <<tracerSpans, pendingSpans, where, hand, built, version, ended,
             dueVersion, posted, failed>>

NoSpans == [x \in {} |-> 0]   \* nothing built, nothing posted
Started == DOMAIN version

SdkTypeOK ==
    /\ tracerSpans \in Seq(SdkSpans) /\ pendingSpans \in Seq(SdkSpans)
    /\ where \in [Stoppers -> {"out", "export", "flush", "build", "post", "last",
                               "lastbuild", "lastpost"}]
    /\ hand \in [Stoppers -> Seq(SdkSpans)]
    /\ Started \subseteq SdkSpans /\ \A s \in Started : version[s] \in 0..MaxVersion
    /\ ended \subseteq Started /\ DOMAIN posted \subseteq Started /\ failed \subseteq Started

SdkInit ==
    /\ tracerSpans = <<>> /\ pendingSpans = <<>>
    /\ where = [c \in Stoppers |-> "out"]
    /\ hand = [c \in Stoppers |-> <<>>]
    /\ built = [c \in Stoppers |-> NoSpans]
    /\ version = NoSpans /\ ended = {} /\ dueVersion = NoSpans
    /\ posted = NoSpans /\ failed = {}

-----------------------------------------------------------------------------
\* Tracer.Start
StartSpan(s) ==
    /\ s \notin Started
    /\ version' = WithEntry(version, s, 0)
    /\ tracerSpans' = Append(tracerSpans, s)
    /\ UNCHANGED <<pendingSpans, where, hand, built, ended, dueVersion, posted, failed>>

\* SetAttribute, RecordError, AddEvent, SetStatus: also after End.
ChangeSpan(s) ==
    /\ s \in Started /\ version[s] < MaxVersion
    /\ version' = [version EXCEPT ![s] = @ + 1]
    /\ UNCHANGED <<tracerSpans, pendingSpans, where, hand, built, ended, dueVersion,
                   posted, failed>>

\* Span.End sets the end time once.
EndSpan(s) ==
    /\ s \in Started \ ended
    /\ ended' = ended \cup {s}
    /\ UNCHANGED <<tracerSpans, pendingSpans, where, hand, built, version, dueVersion,
                   posted, failed>>

\* Tracer.Shutdown takes the spans under t.mu; without any it goes on to the
\* exporter's Shutdown.
TakeTracerSpans(c) ==
    /\ where[c] = "out"
    /\ hand' = [hand EXCEPT ![c] = tracerSpans]
    /\ tracerSpans' = <<>>
    /\ dueVersion' = Joined(dueVersion, [s \in ToSet(tracerSpans) |-> version[s]])
    /\ where' = [where EXCEPT ![c] = IF tracerSpans = <<>> THEN "last" ELSE "export"]
    /\ UNCHANGED <<pendingSpans, built, version, ended, posted, failed>>

\* Export appends and decides whether to flush.
SdkExport(c) ==
    /\ where[c] = "export"
    /\ pendingSpans' = pendingSpans \o hand[c]
    /\ hand' = [hand EXCEPT ![c] = <<>>]
    /\ where' = [where EXCEPT ![c] =
                   IF Len(pendingSpans) + Len(hand[c]) >= SdkBatchSize THEN "flush" ELSE "last"]
    /\ UNCHANGED <<tracerSpans, built, version, ended, dueVersion, posted, failed>>

\* mutant: pending is read without being emptied
FlushTakeCopy(c) ==
    /\ where[c] \in {"flush", "last"}
    /\ hand' = [hand EXCEPT ![c] = pendingSpans]
    /\ built' = [built EXCEPT ![c] = NoSpans]
    /\ where' = [where EXCEPT ![c] =
                   CASE pendingSpans # <<>> -> IF @ = "flush" THEN "build" ELSE "lastbuild"
                     [] pendingSpans = <<>> -> IF @ = "flush" THEN "last" ELSE "out"]
    /\ UNCHANGED <<tracerSpans, pendingSpans, version, ended, dueVersion, posted, failed>>

\* Flush takes what is pending.  "last" is the flush of the exporter's Shutdown.
FlushTake(c) ==
    /\ where[c] \in {"flush", "last"}
    /\ hand' = [hand EXCEPT ![c] = pendingSpans]
    /\ pendingSpans' = <<>>
    /\ built' = [built EXCEPT ![c] = NoSpans]
    /\ where' = [where EXCEPT ![c] =
                   CASE pendingSpans # <<>> -> IF @ = "flush" THEN "build" ELSE "lastbuild"
                     [] pendingSpans = <<>> -> IF @ = "flush" THEN "last" ELSE "out"]
    /\ UNCHANGED <<tracerSpans, version, ended, dueVersion, posted, failed>>

\* buildPayload locks one span at a time.
BuildOne(c) ==
    /\ where[c] \in {"build", "lastbuild"}
    /\ LET s == Head(hand[c]) IN built' = [built EXCEPT ![c] = WithEntry(@, s, version[s])]
    /\ hand' = [hand EXCEPT ![c] = Tail(@)]
    /\ where' = [where EXCEPT ![c] =
                   IF Len(hand[c]) > 1 THEN @ ELSE IF @ = "build" THEN "post" ELSE "lastpost"]
    /\ UNCHANGED <<tracerSpans, pendingSpans, version, ended, dueVersion, posted, failed>>

\* The request: taken, or lost with all its spans.  Tracer.Shutdown ignores the error.
Post(c) ==
    /\ where[c] \in {"post", "lastpost"}
    /\ \/ posted' = Joined(posted, built[c]) /\ UNCHANGED failed
       \/ failed' = failed \cup DOMAIN built[c] /\ UNCHANGED posted
    /\ built' = [built EXCEPT ![c] = NoSpans]
    /\ where' = [where EXCEPT ![c] = IF @ = "post" THEN "last" ELSE "out"]
    /\ UNCHANGED <<tracerSpans, pendingSpans, hand, version, ended, dueVersion>>

SdkStep(c) == SdkExport(c) \/ FlushTake(c) \/ BuildOne(c) \/ Post(c)

SdkNext ==
    \/ \E s \in SdkSpans : StartSpan(s) \/ ChangeSpan(s) \/ EndSpan(s)
    \/ \E c \in Stoppers : TakeTracerSpans(c) \/ SdkStep(c)

SdkSpec == SdkInit /\ [][SdkNext]_sdkVars

-----------------------------------------------------------------------------
\* The spans that caller c holds, and those that all callers hold.
Holds(c) == ToSet(hand[c]) \cup DOMAIN built[c]
Held == UNION {Holds(c) : c \in Stoppers}

\* Every span is in one place: with the tracer, pending, in one flush, posted or
\* lost to a failed request.  Overlapping Shutdowns post no span twice and leave
\* none between the two mutexes.  When no call is under way, nothing waits in the
\* exporter; a posted span has all changes made before Shutdown took it.
SdkLeavesNothingBehind ==
    /\ SdkTypeOK
    /\ Started = ToSet(tracerSpans) \cup ToSet(pendingSpans) \cup Held \cup DOMAIN posted \cup failed
    /\ ToSet(tracerSpans) \cap (ToSet(pendingSpans) \cup Held \cup DOMAIN posted \cup failed) = {}
    /\ ToSet(pendingSpans) \cap (Held \cup DOMAIN posted \cup failed) = {}
    /\ Held \cap (DOMAIN posted \cup failed) = {}
    /\ DOMAIN posted \cap failed = {}
    /\ IsInjective(tracerSpans) /\ IsInjective(pendingSpans)
    /\ \A c, d \in Stoppers : /\ IsInjective(hand[c])
                              /\ ToSet(hand[c]) \cap DOMAIN built[c] = {}
                              /\ c # d => Holds(c) \cap Holds(d) = {}
    /\ (\A c \in Stoppers : where[c] = "out") => pendingSpans = <<>>
    /\ \A s \in DOMAIN posted : posted[s] >= dueVersion[s]

=============================================================================
