------------------------------- MODULE Query -------------------------------
(***************************************************************************)
(* The read side: query.Service and its adjusters, the HTTP and gRPC query *)
(* handlers, ArchiveStorage, and the dependency tables of the memory       *)
(* backend.  The backend returns the stored trace itself (MemoryStore), so *)
(* an adjuster works on the stored spans, and the next query adjusts what  *)
(* the last one left.  A query, a write and the two halves of an archiving *)
(* are steps of their own; a pass of the adjusters is one step.            *)
(***************************************************************************)
EXTENDS Integers, Sequences, FiniteSets, FiniteSetsExt, SequencesExt, Tables

CONSTANTS QuerySpans,   \* [id, parent, start, end, events, attrs, ip]; parent 0: none
          QWidth,       \* bits of the time stamps (64)
          Chains,       \* the adjuster chains a server may be given: sequences of
                        \* "sort", "dedup", "skew", "ip"
          MaxAdjust,    \* of the clock skew adjuster; 0: no limit
          Links,        \* [ts, parent, child, count], each written once
          MaxQueries, MaxArchives   \* bounds

ASSUME QueryAssumption ==
    /\ QWidth \in Nat \ {0} /\ 2^QWidth \in Nat \ {0}
    /\ \A s \in QuerySpans : {s.start, s.end} \subseteq 0..2^QWidth - 1
    /\ QuerySpans \subseteq [id : Nat, parent : Nat, start : Nat, end : Nat, events : Nat,
                             attrs : Nat, ip : {"none", "bytes4", "bytes16", "string"}]
    /\ Chains \subseteq Seq({"sort", "dedup", "skew", "ip"})
    /\ \A l \in Links : l.ts \in Nat /\ l.count \in Nat
    /\ {MaxAdjust, MaxQueries, MaxArchives} \subseteq Nat

VARIABLES chain,        \* the adjusters of this server
          spansWritten, \* the spans written, in order
          stored,       \* the trace as it is stored now
          archiving,    \* what ArchiveTrace has read and not written yet
          archived,     \* the trace in the archive
          deps,         \* dependency links in the order of writing
          qAnswer,      \* [status, spans] of the last GetTrace
          queries, archives

queryVars == <<chain, spansWritten, stored, archiving, archived, deps, qAnswer, queries, archives>>

QueryInit ==
    /\ chain \in Chains
    /\ spansWritten = <<>> /\ stored = <<>> /\ archiving = <<>> /\ archived = <<>> /\ deps = <<>>
    /\ qAnswer = [status |-> "none", spans |-> <<>>]
    /\ queries = 0 /\ archives = 0

-----------------------------------------------------------------------------
(* The adjusters. *)

\* sort.Slice is not stable: any order in which the start times do not fall.
Sorted(spans) ==
    {p \in {[i \in DOMAIN spans |-> spans[f[i]]] :
              f \in {g \in [DOMAIN spans -> DOMAIN spans] : IsInjective(g)}} :
       \A i \in 1..Len(p) - 1 : p[i].start <= p[i + 1].start}

\* The first span of an ID keeps its place; a later one with more events or more
\* attributes takes it over.
Placed(unique, s) ==
    LET same == {i \in DOMAIN unique : unique[i].id = s.id}
    IN  IF same = {} THEN Append(unique, s)
        ELSE [i \in DOMAIN unique |->
                IF i \in same /\ (s.events > unique[i].events \/ s.attrs > unique[i].attrs)
                THEN s ELSE unique[i]]

Dedup(spans) ==
    LET unique[n \in 0..Len(spans)] ==
          IF n = 0 THEN <<>> ELSE Placed(unique[n - 1], spans[n])
    IN  unique[Len(spans)]

\* mutant: the end is left where it was
MovedStartOnly(ss, i) ==
    LET parents == {j \in DOMAIN ss : ss[j].id = ss[i].parent}
        start == ss[Max(parents)].start
    IN  IF ss[i].parent = 0 \/ parents = {} \/ start <= ss[i].start
        THEN ss ELSE [ss EXCEPT ![i] = [ss[i] EXCEPT !.start = start]]

\* A child that starts before its parent is moved there; the last span of an ID
\* is the parent.  The limit is compared as a signed number; additions wrap.
Moved(ss, i) ==
    LET parents == {j \in DOMAIN ss : ss[j].id = ss[i].parent}
        start == ss[Max(parents)].start
        diff == start - ss[i].start
        duration == IF diff < 2^(QWidth - 1) THEN diff ELSE diff - 2^QWidth
    IN  IF \/ ss[i].parent = 0 \/ parents = {}
           \/ diff <= 0 \/ (MaxAdjust > 0 /\ duration > MaxAdjust)
        THEN ss
        ELSE [ss EXCEPT ![i] = [ss[i] EXCEPT !.start = start, !.end = (@ + diff) % 2^QWidth]]

\* In the order of the slice, each with what the earlier ones were moved to.
Skew(spans) ==
    LET moved[n \in 0..Len(spans)] == IF n = 0 THEN spans ELSE Moved(moved[n - 1], n)
    IN  moved[Len(spans)]

\* Four bytes become a dotted string.
NormalizeIP(spans) ==
    [i \in DOMAIN spans |->
        [spans[i] EXCEPT !.ip = IF @ = "bytes4" THEN "string" ELSE @]]

Adjust(a, spans) ==
    CASE a = "sort" -> Sorted(spans)
      [] a = "dedup" -> {Dedup(spans)}
      [] a = "skew" -> {Skew(spans)}
      [] a = "ip" -> {NormalizeIP(spans)}

\* AdjusterChain.Adjust: all that the chain may make of the spans.
AdjustAll(spans) ==
    LET outs[n \in 0..Len(chain)] ==
          IF n = 0 THEN {spans} ELSE UNION {Adjust(chain[n], ss) : ss \in outs[n - 1]}
    IN  outs[Len(chain)]

-----------------------------------------------------------------------------
(* Writes and queries. *)

\* mergeSpan
WriteSpan(s) ==
    /\ s \notin Range(spansWritten)
    /\ stored' = Append(stored, s)
    /\ spansWritten' = Append(spansWritten, s)
    /\ UNCHANGED <<chain, archiving, archived, deps, qAnswer, queries, archives>>

AnswerTrace(status, spans) ==
    /\ qAnswer' = [status |-> status, spans |-> spans]
    /\ queries' = queries + 1

\* handleGetTrace of the v3, v2 and gRPC APIs: an ID that does not parse, a trace
\* that is not there, the adjusted trace.
BadTraceID(status) ==
    /\ queries < MaxQueries
    /\ AnswerTrace(status, <<>>)
    /\ UNCHANGED <<chain, spansWritten, stored, archiving, archived, deps, archives>>

GetStoredTrace ==
    /\ queries < MaxQueries
    /\ IF stored = <<>>
       THEN AnswerTrace("not found", <<>>) /\ UNCHANGED stored
       ELSE \E out \in AdjustAll(stored) : stored' = out /\ AnswerTrace("ok", out)
    /\ UNCHANGED <<chain, spansWritten, archiving, archived, deps, archives>>

\* ArchiveTrace reads the primary store, without adjusters, and appends what it
\* got to the archive's trace.
ArchiveRead ==
    /\ stored # <<>> /\ archiving = <<>> /\ archives < MaxArchives
    /\ archiving' = stored /\ archives' = archives + 1
    /\ UNCHANGED <<chain, spansWritten, stored, archived, deps, qAnswer, queries>>

ArchiveWrite ==
    /\ archiving # <<>>
    /\ archived' = archived \o archiving
    /\ archiving' = <<>>
    /\ UNCHANGED <<chain, spansWritten, stored, deps, qAnswer, queries, archives>>

\* WriteLinks
WriteLink(l) ==
    /\ l \notin Range(deps)
    /\ deps' = Append(deps, l)
    /\ UNCHANGED <<chain, spansWritten, stored, archiving, archived, qAnswer, queries, archives>>

\* GetDependencies: the links of the window, added up by parent and child.
Pair(l) == <<l.parent, l.child>>

Merged(m, l, startTime, endTime) ==
    IF l.ts < startTime \/ l.ts > endTime THEN m
    ELSE WithEntry(m, Pair(l), (IF Pair(l) \in DOMAIN m THEN m[Pair(l)] ELSE 0) + l.count)

GetDependencies(endTime, lookback) ==
    LET merged[n \in 0..Len(deps)] ==
          IF n = 0 THEN [k \in {} |-> 0]
          ELSE Merged(merged[n - 1], deps[n], endTime - lookback, endTime)
    IN  merged[Len(deps)]

QueryNext ==
    \/ \E s \in QuerySpans : WriteSpan(s)
    \/ GetStoredTrace \/ BadTraceID("invalid") \/ ArchiveRead \/ ArchiveWrite
    \/ \E l \in Links : WriteLink(l)

QuerySpec == QueryInit /\ [][QueryNext]_queryVars

-----------------------------------------------------------------------------
Written == Range(spansWritten)
Ids(spans) == {spans[i].id : i \in DOMAIN spans}
Length(s) == (s.end - s.start) % 2^QWidth

\* s is one of the spans ws that the adjusters have at most moved forward in
\* time, with its duration, to where another of them started.
ComesFrom(s, ws) ==
    \E w \in ws :
       /\ s.id = w.id /\ s.parent = w.parent /\ s.events = w.events /\ s.attrs = w.attrs
       /\ Length(s) = Length(w)
       /\ s.start >= w.start /\ (s.start > w.start => \E v \in ws : v.start = s.start)

\* The spans are all of those written up to some moment.
Complete(spans) ==
    \E n \in 1..Len(spansWritten) : Ids(spans) = {spansWritten[i].id : i \in 1..n}

\* The links of a pair that were written in a window.
LinksOf(k, startTime, endTime) ==
    {i \in DOMAIN deps : Pair(deps[i]) = k /\ startTime <= deps[i].ts /\ deps[i].ts <= endTime}

\* However often a trace is queried, archived and written to in between, the
\* adjusters that work on the stored spans lose no span and invent none, and
\* change nothing but times (forward, keeping the duration, to a start time that
\* was written) and addresses.  An answer has all the spans written up to some
\* moment; that of a chain that removes duplicates has every ID once, one of a
\* chain that ends with the sorter is in order.  The archive has every span of
\* every trace that was archived.  The dependencies of a window are the calls
\* that were written for it, pair by pair.
QueriesKeepTheTrace ==
    /\ Ids(stored) = Ids(spansWritten)
    /\ \A ss \in {stored, archived, archiving, qAnswer.spans} : \A i \in DOMAIN ss :
          ComesFrom(ss[i], Written)
    /\ qAnswer.status = "ok" =>
          /\ Complete(qAnswer.spans)
          /\ "dedup" \in Range(chain) => \A i, j \in DOMAIN qAnswer.spans :
                qAnswer.spans[i].id = qAnswer.spans[j].id => i = j
          /\ chain # <<>> /\ Last(chain) = "sort" =>
                \A i \in 1..Len(qAnswer.spans) - 1 : qAnswer.spans[i].start <= qAnswer.spans[i + 1].start
    /\ archived # <<>> => Complete(archived)
    /\ \A endTime, lookback \in {l.ts : l \in Links} :
          LET found == GetDependencies(endTime, lookback)
              Of(k) == LinksOf(k, endTime - lookback, endTime)
          IN  \A k \in {Pair(l) : l \in Links} :
                 /\ k \in DOMAIN found <=> Of(k) # {}
                 /\ k \in DOMAIN found => found[k] = Total([i \in Of(k) |-> deps[i].count])

=============================================================================
