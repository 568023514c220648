---------------------------- MODULE Propagation ----------------------------
(***************************************************************************)
(* Context propagation of internal/propagation: a request goes from service*)
(* to service; each injects its context into the headers with a composite  *)
(* propagator and the next one extracts it with a composite of its own     *)
(* (W3C tracecontext, B3, Jaeger and W3C baggage, in any order).  Between  *)
(* hops a service starts a child span and edits tracestate and baggage.    *)
(* A request may also come from outside with headers of another library.   *)
(*                                                                         *)
(* Headers are modelled parsed: a header is absent (<<>>) or one record; a *)
(* malformed one has the zero id its parser answers.  A trace id is        *)
(* [hi, lo, short]; a short one has 16 hex digits.  The length of a key or *)
(* value in bytes is Bytes[x].                                             *)
(***************************************************************************)
EXTENDS Integers, Sequences, SequencesExt, FiniteSetsExt, Subsequences, Tables

CONSTANTS Composites,      \* the propagator lists services use
          Roots,           \* contexts a service may start a request with
          Foreign,         \* headers of requests from outside
          EntryKeys, EntryValues,
          Bytes,           \* length of every key and value
          Lower,           \* ToLower of every key; names of headers are ASCII
          MaxEntries,      \* traceStateMaxEntries, scaled
          MaxBytes,        \* baggageMaxBytes and traceStateMaxBytes, scaled
          MaxHops, MaxContextEdits

VARIABLES ctx,      \* the context a service holds: [sc, bag]
          carrier,  \* the headers of the request on its way
          onWire,   \* TRUE between Inject and Extract
          origin,   \* what was injected and how (history)
          hops, edits

propVars == <<ctx, carrier, onWire, origin, hops, edits>>

NoId      == [hi |-> 0, lo |-> 0, short |-> FALSE]
NoContext == [trace |-> NoId, span |-> 0, flags |-> 0, state |-> <<>>, remote |-> FALSE]
Empty     == [sc |-> NoContext, bag |-> <<>>]
NoHeaders == [traceparent |-> <<>>, tracestate |-> <<>>, b3 |-> <<>>, multi |-> <<>>,
              uber |-> <<>>, uberctx |-> {}, baggage |-> <<>>]

IsValid(sc)   == (sc.trace.hi # 0 \/ sc.trace.lo # 0) /\ sc.span # 0
IsSampled(sc) == sc.flags % 2 = 1
IsDebug(sc)   == (sc.flags \div 2) % 2 = 1
Digit(sampled) == IF sampled THEN 1 ELSE 0

WireIds      == [hi : Nat, lo : Nat, short : BOOLEAN]
KeyValues    == [key : DOMAIN Bytes, val : DOMAIN Bytes]
SpanContexts == [trace : WireIds, span : Nat, flags : Nat, state : Seq(KeyValues), remote : BOOLEAN]
Contexts     == [sc : SpanContexts, bag : Seq(KeyValues)]
Flagged      == [trace : WireIds, span : Nat, flags : Nat]
B3Headers    == [trace : WireIds, span : Nat, sampled : Nat]
Headers      ==
  [traceparent : Seq(Flagged), tracestate : Seq(KeyValues), b3 : Seq(B3Headers), multi : Seq(B3Headers),
   uber : Seq(Flagged), uberctx : SUBSET KeyValues, baggage : Seq(KeyValues)]

-----------------------------------------------------------------------------
(* Baggage and TraceState: [key, val] entries.  Set answers [ok, entries],   *)
(* empty on error as the code does.                                          *)

Size(entries, sep) ==
  Total([i \in DOMAIN entries |-> Bytes[entries[i].key] + Bytes[entries[i].val] + sep])

Entry(key, val) == [key |-> key, val |-> val]
Without(entries, key) == Keep(entries, {e \in Range(entries) : e.key # key})

BaggageSet(bag, key, val) ==
  LET found == {i \in DOMAIN bag : bag[i].key = key}
      new   == IF found = {} THEN Append(bag, Entry(key, val))
               ELSE [i \in DOMAIN bag |-> IF i \in found THEN Entry(key, val) ELSE bag[i]]
  IN  IF Size(new, 0) > MaxBytes THEN [ok |-> FALSE, entries |-> <<>>]
      ELSE [ok |-> TRUE, entries |-> new]

(* Key, "=", value and a delimiter between entries. *)
StateBytes(entries) == IF entries = <<>> THEN 0 ELSE Size(entries, 2) - 1

TraceStateSet(state, key, val) ==
  LET new == <<Entry(key, val)>> \o Without(state, key)
  IN  IF Len(new) > MaxEntries \/ StateBytes(new) > MaxBytes
      THEN [ok |-> FALSE, entries |-> <<>>] ELSE [ok |-> TRUE, entries |-> new]

(* A part of the header is an entry, blank (key "") or malformed (key "="). *)
ParseTraceState(parts) ==
  LET entries == Without(parts, "")
  IN  IF Len(parts) > MaxEntries \/ (\E i \in DOMAIN entries : entries[i].key = "=")
         \/ StateBytes(entries) > MaxBytes
      THEN [ok |-> FALSE, entries |-> <<>>] ELSE [ok |-> TRUE, entries |-> entries]

(* What the two types can hold.  Baggage is made by Set only; a trace state  *)
(* keeps to its limits and is edited with keys that can be read back.        *)
IsBaggage(bag) ==
  /\ Size(bag, 0) <= MaxBytes
  /\ \A i, j \in DOMAIN bag : bag[i].key = bag[j].key => i = j

IsTraceState(state) ==
  /\ Len(state) <= MaxEntries /\ StateBytes(state) <= MaxBytes
  /\ \A i \in DOMAIN state : state[i].key \notin {"", "="}

IsContext(c) == IsBaggage(c.bag) /\ IsTraceState(c.sc.state) /\ ~c.sc.trace.short

ASSUME PropagationAssumption ==
  /\ {MaxEntries, MaxBytes, MaxHops, MaxContextEdits} \subseteq Nat
  /\ Bytes \in [DOMAIN Bytes -> Nat] /\ Lower \in [DOMAIN Bytes -> DOMAIN Bytes]
  /\ \A k \in DOMAIN Bytes : Bytes[Lower[k]] <= Bytes[k]
  /\ EntryKeys \subseteq DOMAIN Bytes \ {"", "="} /\ EntryValues \subseteq DOMAIN Bytes
  /\ Composites \subseteq Seq({"tracecontext", "b3", "jaeger", "baggage"})
  /\ Roots \subseteq Contexts /\ \A c \in Roots : IsContext(c)
  /\ Foreign \subseteq Headers /\ \A h \in Foreign : IsFiniteSet(h.uberctx)

-----------------------------------------------------------------------------
(* Inject *)

TracecontextInject(c, h) ==
  IF ~IsValid(c.sc) THEN h
  ELSE [h EXCEPT !.traceparent = <<[trace |-> c.sc.trace, span |-> c.sc.span, flags |-> c.sc.flags]>>,
                 !.tracestate = IF c.sc.state # <<>> THEN c.sc.state ELSE @]

B3Inject(c, h) ==
  IF ~IsValid(c.sc) THEN h
  ELSE [h EXCEPT !.b3 = <<[trace |-> c.sc.trace, span |-> c.sc.span,
                           sampled |-> Digit(IsSampled(c.sc))]>>]

JaegerInject(c, h) ==
  IF ~IsValid(c.sc) THEN h
  ELSE [h EXCEPT !.uber = <<[trace |-> c.sc.trace, span |-> c.sc.span,
                             flags |-> IF IsDebug(c.sc) THEN 3 ELSE Digit(IsSampled(c.sc))]>>,
                 !.uberctx = {e \in @ : \A i \in DOMAIN c.bag : c.bag[i].key # e.key}
                             \cup Range(c.bag)]

BaggageInject(c, h) == IF c.bag = <<>> THEN h ELSE [h EXCEPT !.baggage = c.bag]

InjectOne(p, c, h) ==
  CASE p = "tracecontext" -> TracecontextInject(c, h)
    [] p = "b3"           -> B3Inject(c, h)
    [] p = "jaeger"       -> JaegerInject(c, h)
    [] p = "baggage"      -> BaggageInject(c, h)

Inject(ps, c, h) ==
  LET headers[n \in 0..Len(ps)] == IF n = 0 THEN h ELSE InjectOne(ps[n], c, headers[n - 1])
  IN  headers[Len(ps)]

-----------------------------------------------------------------------------
(* Extract *)

Remote(trace, span, flags) ==
  [trace |-> trace, span |-> span, flags |-> flags, state |-> <<>>, remote |-> TRUE]

Padded(id) == [id EXCEPT !.short = FALSE]  \* 16 digits padded to 32

(* 55 characters: a short trace id is malformed here. *)
parseTraceparent(h) == IF h.trace.short THEN NoContext ELSE Remote(h.trace, h.span, h.flags)

TracecontextExtract(c, h) ==
  LET sc == parseTraceparent(h.traceparent[1])
      ts == ParseTraceState(h.tracestate)
  IN  IF h.traceparent = <<>> \/ ~IsValid(sc) THEN c
      ELSE [c EXCEPT !.sc = IF ts.ok THEN [sc EXCEPT !.state = ts.entries] ELSE sc]

parseB3(h) == Remote(Padded(h.trace), h.span, Digit(h.sampled = 1))

(* The single header first; when it is absent or malformed, the others. *)
B3Extract(c, h) ==
  IF h.b3 # <<>> /\ IsValid(parseB3(h.b3[1])) THEN [c EXCEPT !.sc = parseB3(h.b3[1])]
  ELSE IF h.multi # <<>> /\ IsValid(parseB3(h.multi[1])) THEN [c EXCEPT !.sc = parseB3(h.multi[1])]
  ELSE c

parseJaegerHeader(h) == Remote(Padded(h.trace), h.span, Digit(h.flags \in {1, 3}))

(* Errors of Baggage.Set are ignored: the baggage is empty from there on.
   order is the order in which the map of headers is ranged over. *)
CollectBaggage(pairs) ==
  LET bags[n \in 0..Len(pairs)] ==
        IF n = 0 THEN <<>> ELSE BaggageSet(bags[n - 1], pairs[n].key, pairs[n].val).entries
  IN  bags[Len(pairs)]

JaegerExtract(c, h, order) ==
  LET sc  == parseJaegerHeader(h.uber[1])
      bag == CollectBaggage([i \in DOMAIN order |-> Entry(Lower[order[i].key], order[i].val)])
  IN  IF h.uber = <<>> \/ ~IsValid(sc) THEN c
      ELSE [sc |-> sc, bag |-> IF bag # <<>> THEN bag ELSE c.bag]

(* A pair without a key is skipped. *)
BaggageExtract(c, h) ==
  LET bag == CollectBaggage(Without(h.baggage, "")) IN IF bag = <<>> THEN c ELSE [c EXCEPT !.bag = bag]

ExtractOne(p, c, h, order) ==
  CASE p = "tracecontext" -> TracecontextExtract(c, h)
    [] p = "b3"           -> B3Extract(c, h)
    [] p = "jaeger"       -> JaegerExtract(c, h, order)
    [] p = "baggage"      -> BaggageExtract(c, h)

(* mutant of Extract: every propagator starts from the caller's context. *)
ExtractUnthreaded(ps, c, h, order) ==
  IF ps = <<>> THEN c ELSE ExtractOne(Last(ps), c, h, order)

Extract(ps, c, h, order) ==
  LET ctxs[n \in 0..Len(ps)] == IF n = 0 THEN c ELSE ExtractOne(ps[n], ctxs[n - 1], h, order)
  IN  ctxs[Len(ps)]

-----------------------------------------------------------------------------
NoOrigin == [from |-> Empty, sent |-> <<>>, read |-> <<>>]

PropInit ==
  /\ ctx \in Roots
  /\ carrier = NoHeaders
  /\ onWire = FALSE
  /\ origin = NoOrigin
  /\ hops = 0 /\ edits = 0

(* A service edits its context and goes on as the child span. *)
EditState(key, val) ==
  LET r == TraceStateSet(ctx.sc.state, key, val)
  IN  r.ok /\ ctx' = [ctx EXCEPT !.sc.state = r.entries]

EditBaggage(key, val) ==
  LET r == BaggageSet(ctx.bag, key, val) IN r.ok /\ ctx' = [ctx EXCEPT !.bag = r.entries]

DeleteEntries(key) ==
  ctx' = [ctx EXCEPT !.sc.state = Without(@, key), !.bag = Without(@, key)]

Edit ==
  /\ ~onWire /\ edits < MaxContextEdits
  /\ \/ \E k \in EntryKeys, v \in EntryValues : EditState(k, v) \/ EditBaggage(k, v)
     \/ \E k \in EntryKeys : DeleteEntries(k)
  /\ edits' = edits + 1
  /\ origin' = NoOrigin
  /\ UNCHANGED <<carrier, onWire, hops>>

Call ==
  /\ ~onWire /\ hops < MaxHops
  /\ \E ps \in Composites :
       /\ carrier' = Inject(ps, ctx, NoHeaders)
       /\ origin' = [from |-> ctx, sent |-> ps, read |-> <<>>]
  /\ onWire' = TRUE
  /\ hops' = hops + 1
  /\ UNCHANGED <<ctx, edits>>

(* The first request is one of another library. *)
ForeignCall ==
  /\ ~onWire /\ hops = 0 /\ edits = 0
  /\ carrier' \in Foreign
  /\ origin' = NoOrigin
  /\ onWire' = TRUE
  /\ hops' = hops + 1
  /\ UNCHANGED <<ctx, edits>>

ServeRequest ==
  /\ onWire
  /\ \E ps \in Composites, order \in SetToSeqs(carrier.uberctx) :
       /\ ctx' = Extract(ps, Empty, carrier, order)
       /\ origin' = [origin EXCEPT !.read = ps]
  /\ onWire' = FALSE
  /\ UNCHANGED <<carrier, hops, edits>>

PropNext == Edit \/ Call \/ ForeignCall \/ ServeRequest

PropSpec == PropInit /\ [][PropNext]_propVars

-----------------------------------------------------------------------------
Formats == {"tracecontext", "b3", "jaeger"}

(* Where the reader has one of the formats S that the sender wrote too, and  *)
(* the last of these formats.                                                *)
Shared(S) == {i \in DOMAIN origin.read : origin.read[i] \in S /\ origin.read[i] \in Range(origin.sent)}
Deciding(S) == origin.read[Max(Shared(S))]

(* A hop between two services whose propagators share a format keeps the     *)
(* trace, the calling span and the sampling decision, however the two lists  *)
(* are ordered; an unsampled debug context is sampled after a Jaeger hop.    *)
(* The last shared format decides: tracestate survives only if that is       *)
(* tracecontext, as it was.  Baggage arrives complete, with lower-case keys  *)
(* over Jaeger headers, where keys that fall together keep one of the values *)
(* (internal/propagation and its three formats); only the W3C baggage header *)
(* loses an entry whose key is empty.                                        *)
ContextSurvivesHops ==
  (~onWire /\ origin.sent # <<>> /\ origin.read # <<>>) =>
    LET from   == origin.from
        valid  == IsValid(from.sc)
        bags   == IF valid THEN {"baggage", "jaeger"} ELSE {"baggage"}
        want   == {<<Lower[e.key], e.val>> : e \in Range(from.bag)}
        have   == {<<e.key, e.val>> : e \in Range(ctx.bag)}
        Keys(entries) == {e[1] : e \in entries}
        named  == Without(from.bag, "")
    IN  /\ IF Shared(Formats) = {} \/ ~valid THEN ctx.sc = NoContext
           ELSE /\ ctx.sc.trace = from.sc.trace /\ ctx.sc.span = from.sc.span /\ ctx.sc.remote
                /\ IsSampled(ctx.sc) = (IsSampled(from.sc)
                                        \/ (IsDebug(from.sc) /\ Deciding(Formats) = "jaeger"))
                /\ ctx.sc.state = IF Deciding(Formats) = "tracecontext" THEN from.sc.state ELSE <<>>
        /\ IF Shared(bags) = {} THEN ctx.bag = <<>>
           ELSE IF Deciding(bags) = "baggage"
           THEN from.bag = <<>> \/ named # <<>> => ctx.bag = named
           ELSE /\ have \subseteq want /\ Keys(have) = Keys(want)
                /\ Cardinality(Keys(have)) = Len(ctx.bag)

(* The propagator finds a well-formed context in the headers.                *)
Readable(p, h) ==
  CASE p = "tracecontext" -> h.traceparent # <<>> /\ IsValid(parseTraceparent(h.traceparent[1]))
    [] p = "b3" -> \/ h.b3 # <<>> /\ IsValid(parseB3(h.b3[1]))
                   \/ h.multi # <<>> /\ IsValid(parseB3(h.multi[1]))
    [] p = "jaeger" -> h.uber # <<>> /\ IsValid(parseJaegerHeader(h.uber[1]))
    [] OTHER -> FALSE

(* A malformed or oversized header of a foreign request never hides a        *)
(* context another header of it carries: the reader ends with a valid context*)
(* exactly when one of the headers it looks at is well formed, and whoever   *)
(* the request came from, what it holds can be sent on: tracestate and       *)
(* baggage within their limits and with keys that can be read back.          *)
BadHeadersAreSkipped ==
  /\ (~onWire /\ carrier \in Foreign /\ origin.sent = <<>> /\ origin.read # <<>>) =>
        (IsValid(ctx.sc) <=> \E p \in Range(origin.read) : Readable(p, carrier))
  /\ IsContext(ctx)

(* Both: what internal/propagation promises of requests of its own services  *)
(* and of requests from outside.                                             *)
PropagationKeepsContext == ContextSurvivesHops /\ BadHeadersAreSkipped

=============================================================================
