-------------------------------- MODULE Otlp --------------------------------
(***************************************************************************)
(* The OTLP wire format: Marshal and Unmarshal of internal/protocol/otlp   *)
(* on top of the protobuf codec of internal/codec/protobuf.  A sender (the *)
(* SDK, tracegen, another collector) marshals a TracesData; what arrives   *)
(* may carry fields of a newer schema, varints another encoder padded, or  *)
(* may have been cut; the receiver unmarshals it.                          *)
(*                                                                         *)
(* A message on the wire is a sequence of fields [num, wire, val, torn].   *)
(* The value of a length-delimited field is the nested message or an opaque*)
(* string; a varint is the sequence of its groups; a fixed64 is its value. *)
(* Integers have a scaled width: WordBits for 64, HalfBits for 32 and      *)
(* GroupBits for the 7 bits of a varint byte.                              *)
(***************************************************************************)
EXTENDS TraceModel, SequencesExt, TLC

CONSTANTS OtlpBatches,  \* the TracesData values a sender marshals
          WordBits,     \* width of uint64, scaled
          HalfBits,     \* width of uint32 and int32, scaled
          GroupBits,    \* payload bits of one varint byte, scaled
          MaxGroups     \* most bytes ReadVarint takes (10 in the code)

ASSUME OtlpAssumption ==
  /\ {WordBits, HalfBits, GroupBits, MaxGroups} \subseteq Nat \ {0}
  /\ HalfBits < WordBits
  /\ GroupBits * MaxGroups >= WordBits  \* every uint64 fits in MaxGroups bytes

VARIABLES sent,      \* what the sender marshalled, Nothing before
          edit,      \* what happened to it on the way
          received   \* what the receiver's Unmarshal answered

otlpVars == <<sent, edit, received>>

-----------------------------------------------------------------------------
(* The protobuf codec. *)

Unsigned(v) == v % 2^WordBits

Signed(v, bits) ==
  LET low == v % 2^bits IN IF low >= 2^(bits - 1) THEN low - 2^bits ELSE low

RECURSIVE WriteVarint(_)
WriteVarint(v) ==
  IF v >= 2^GroupBits
  THEN <<[low |-> v % 2^GroupBits, more |-> TRUE]>> \o WriteVarint(v \div 2^GroupBits)
  ELSE <<[low |-> v, more |-> FALSE]>>

ReadVarint(groups) ==
  LET n == SelectInSeq(groups, LAMBDA g : ~g.more)
      weight[i \in 0..Len(groups)] ==
        IF i = 0 THEN 0 ELSE weight[i - 1] + groups[i].low * 2^(GroupBits * (i - 1))
  IN  IF n = 0 \/ n > MaxGroups THEN Failed ELSE Ok(Unsigned(weight[n]))

Field(num, wire, val) == [num |-> num, wire |-> wire, val |-> val, torn |-> FALSE]

WriteTagVarint(num, v)  == <<Field(num, 0, WriteVarint(Unsigned(v)))>>
WriteTagFixed64(num, v) == <<Field(num, 1, v)>>
WriteTagBytes(num, v)   == <<Field(num, 2, v)>>

(* mutant of SkipField: 32-bit fields are forgotten, no field of this schema
   has that type. *)
SkipFieldNo32(wire) == wire \in {0, 1, 2}

(* Wire types 0, 1, 2 and 5 are skipped, anything else is an error. *)
SkipField(wire) == wire \in {0, 1, 2, 5}

-----------------------------------------------------------------------------
(* marshal.go: the fields of each message in the order they are written. *)

Each(items, M(_)) == FlattenSeq([i \in 1..Len(items) |-> M(items[i])])

RECURSIVE marshalAnyValue(_)
marshalKeyValue(kv) == WriteTagBytes(1, kv.key) \o WriteTagBytes(2, marshalAnyValue(kv.value))

marshalAnyValue(v) ==
  CASE v.type = "string" -> WriteTagBytes(1, v.val)
    [] v.type = "bool"   -> WriteTagVarint(2, IF v.val THEN 1 ELSE 0)
    [] v.type = "int"    -> WriteTagVarint(3, v.val)
    [] v.type = "double" -> WriteTagFixed64(4, v.val)
    [] v.type = "bytes"  -> WriteTagBytes(7, v.val)
    [] v.type = "array"  ->
         LET one(x) == WriteTagBytes(1, marshalAnyValue(x))
         IN  WriteTagBytes(5, Each(v.val.values, one))
    [] v.type = "kvlist" ->
         LET one(kv) == WriteTagBytes(1, marshalKeyValue(kv))
         IN  WriteTagBytes(6, Each(v.val.values, one))

marshalAttributes(num, attrs) ==
  LET one(kv) == WriteTagBytes(num, marshalKeyValue(kv)) IN Each(attrs, one)

marshalSpanEvent(e) ==
  WriteTagFixed64(1, e.time) \o WriteTagBytes(2, e.name) \o marshalAttributes(3, e.attributes)
  \o When(e.droppedAttributes > 0, WriteTagVarint(4, e.droppedAttributes))

marshalSpanLink(l) ==
  WriteTagBytes(1, l.traceID) \o WriteTagBytes(2, l.spanID)
  \o When(l.traceState # "", WriteTagBytes(3, l.traceState))
  \o marshalAttributes(4, l.attributes)
  \o When(l.droppedAttributes > 0, WriteTagVarint(5, l.droppedAttributes))

marshalStatus(st) ==
  When(st.message # "", WriteTagBytes(2, st.message))
  \o When(st.code # 0, WriteTagVarint(3, st.code))

marshalSpan(s) ==
  LET event(e) == WriteTagBytes(11, marshalSpanEvent(e))
      link(l)  == WriteTagBytes(12, marshalSpanLink(l))
  IN  WriteTagBytes(1, s.traceID) \o WriteTagBytes(2, s.spanID)
      \o When(s.traceState # "", WriteTagBytes(3, s.traceState))
      \o When(s.parentSpanID # 0, WriteTagBytes(4, s.parentSpanID))
      \o WriteTagBytes(5, s.name)
      \o When(s.kind # 0, WriteTagVarint(6, s.kind))
      \o WriteTagFixed64(7, s.start) \o WriteTagFixed64(8, s.end)
      \o marshalAttributes(9, s.attributes)
      \o Each(s.events, event) \o Each(s.links, link)
      \o When(s.status.code # 0 \/ s.status.message # "",
              WriteTagBytes(13, marshalStatus(s.status)))
      \o When(s.droppedAttributes > 0, WriteTagVarint(14, s.droppedAttributes))
      \o When(s.droppedEvents > 0, WriteTagVarint(15, s.droppedEvents))
      \o When(s.droppedLinks > 0, WriteTagVarint(16, s.droppedLinks))

(* The scope's attributes travel only with a name or a version. *)
marshalScopeSpans(ss) ==
  LET span(s) == WriteTagBytes(2, marshalSpan(s))
      scope   == When(ss.scope.name # "", WriteTagBytes(1, ss.scope.name))
                 \o When(ss.scope.version # "", WriteTagBytes(2, ss.scope.version))
                 \o marshalAttributes(3, ss.scope.attributes)
  IN  When(ss.scope.name # "" \/ ss.scope.version # "", WriteTagBytes(1, scope))
      \o Each(ss.spans, span)

marshalResourceSpans(rs) ==
  LET scopeSpans(ss) == WriteTagBytes(2, marshalScopeSpans(ss))
  IN  When(rs.resource.attributes # <<>>,
           WriteTagBytes(1, marshalAttributes(1, rs.resource.attributes)))
      \o Each(rs.scopeSpans, scopeSpans)

Marshal(td) ==
  LET resourceSpans(rs) == WriteTagBytes(1, marshalResourceSpans(rs))
  IN  Each(td.resourceSpans, resourceSpans)

-----------------------------------------------------------------------------
(* unmarshal.go: for each message, what a field number is read as (how) and *)
(* where it goes: a field replaced ("set"), a slice appended to ("append"), *)
(* attributes updated by Set ("attr"), or the one alternative of AnyValue   *)
(* ("oneof").                                                               *)

As(name, how, store) == [name |-> name, how |-> how, store |-> store]
Attr == As("attributes", "KeyValue", "attr")

unmarshalTracesData    == 1 :> As("resourceSpans", "ResourceSpans", "append")
unmarshalResourceSpans == 1 :> As("resource", "Resource", "set")
                       @@ 2 :> As("scopeSpans", "ScopeSpans", "append")
unmarshalResource      == 1 :> Attr
unmarshalScopeSpans    == 1 :> As("scope", "Scope", "set") @@ 2 :> As("spans", "Span", "append")
unmarshalScope         == 1 :> As("name", "opaque", "set") @@ 2 :> As("version", "opaque", "set")
                       @@ 3 :> Attr
unmarshalSpan ==
     1 :> As("traceID", "opaque", "set")      @@ 2 :> As("spanID", "opaque", "set")
  @@ 3 :> As("traceState", "opaque", "set")   @@ 4 :> As("parentSpanID", "opaque", "set")
  @@ 5 :> As("name", "opaque", "set")         @@ 6 :> As("kind", "int32", "set")
  @@ 7 :> As("start", "opaque", "set")        @@ 8 :> As("end", "opaque", "set")
  @@ 9 :> Attr
  @@ 11 :> As("events", "Event", "append")    @@ 12 :> As("links", "Link", "append")
  @@ 13 :> As("status", "Status", "set")      @@ 14 :> As("droppedAttributes", "uint32", "set")
  @@ 15 :> As("droppedEvents", "uint32", "set") @@ 16 :> As("droppedLinks", "uint32", "set")
unmarshalSpanEvent ==
     1 :> As("time", "opaque", "set") @@ 2 :> As("name", "opaque", "set") @@ 3 :> Attr
  @@ 4 :> As("droppedAttributes", "uint32", "set")
unmarshalSpanLink ==
     1 :> As("traceID", "opaque", "set") @@ 2 :> As("spanID", "opaque", "set")
  @@ 3 :> As("traceState", "opaque", "set") @@ 4 :> Attr
  @@ 5 :> As("droppedAttributes", "uint32", "set")
unmarshalStatus     == 2 :> As("message", "opaque", "set") @@ 3 :> As("code", "int32", "set")
unmarshalKeyValue   == 1 :> As("key", "opaque", "set") @@ 2 :> As("value", "AnyValue", "set")
unmarshalAnyValue ==
     1 :> As("string", "opaque", "oneof") @@ 2 :> As("bool", "bool", "oneof")
  @@ 3 :> As("int", "int64", "oneof")     @@ 4 :> As("double", "opaque", "oneof")
  @@ 5 :> As("array", "Array", "oneof")   @@ 6 :> As("kvlist", "KvList", "oneof")
  @@ 7 :> As("bytes", "opaque", "oneof")
unmarshalArrayValue  == 1 :> As("values", "AnyValue", "append")
unmarshalKvListValue == 1 :> As("values", "KeyValue", "append")

Messages == [TracesData |-> unmarshalTracesData, ResourceSpans |-> unmarshalResourceSpans,
             Resource |-> unmarshalResource, ScopeSpans |-> unmarshalScopeSpans,
             Scope |-> unmarshalScope, Span |-> unmarshalSpan, Event |-> unmarshalSpanEvent,
             Link |-> unmarshalSpanLink, Status |-> unmarshalStatus,
             KeyValue |-> unmarshalKeyValue, AnyValue |-> unmarshalAnyValue,
             Array |-> unmarshalArrayValue, KvList |-> unmarshalKvListValue]

Store(m, as, v) ==
  CASE as.store = "set"    -> [m EXCEPT ![as.name] = v]
    [] as.store = "append" -> [m EXCEPT ![as.name] = Append(@, v)]
    [] as.store = "attr"   -> [m EXCEPT !.attributes = SetAttribute(@, v)]
    [] as.store = "oneof"  -> [type |-> as.name, val |-> v]

Convert(how, v) ==
  CASE how = "int32"  -> Signed(v, HalfBits)
    [] how = "uint32" -> v % 2^HalfBits
    [] how = "int64"  -> Signed(v, WordBits)
    [] how = "bool"   -> v # 0

RECURSIVE unmarshal(_, _, _)
unmarshal(type, dec, m) ==
  IF dec = <<>> THEN Ok(m)
  ELSE LET f  == Head(dec)
           as == Messages[type][f.num]
           v  == IF as.how = "opaque" THEN Ok(f.val)
                 ELSE IF as.how \in DOMAIN Messages
                      THEN unmarshal(as.how, f.val, Zero[as.how])
                      ELSE LET n == ReadVarint(f.val)
                           IN  IF n.ok THEN Ok(Convert(as.how, n.val)) ELSE Failed
       IN  IF f.torn THEN Failed
           ELSE IF f.num \notin DOMAIN Messages[type]
                THEN IF SkipField(f.wire) THEN unmarshal(type, Tail(dec), m) ELSE Failed
                ELSE IF v.ok THEN unmarshal(type, Tail(dec), Store(m, as, v.val)) ELSE Failed

Unmarshal(data) == unmarshal("TracesData", data, Zero.TracesData)

-----------------------------------------------------------------------------
(* What may happen to a message between the two: nothing, a cut inside or   *)
(* right after its k-th top-level field, a field of a newer schema at the   *)
(* front of every message, varints padded to n groups by another encoder.   *)

Edits == {[kind |-> "none"]} \cup
         [kind : {"torn", "cut"}, k : 0..1] \cup
         [kind : {"newer"}, wire : {0, 1, 2, 3, 5}] \cup
         [kind : {"padded"}, n : {MaxGroups, MaxGroups + 1}]

Pad(groups, n) ==
  [i \in 1..n |-> [low  |-> IF i <= Len(groups) THEN groups[i].low ELSE 0,
                   more |-> i < n]]

Unknown == 100  \* a field number no table has

RECURSIVE Touch(_, _, _)
Touch(type, dec, e) ==
  When(e.kind = "newer", <<Field(Unknown, IF e.kind = "newer" THEN e.wire ELSE 0, <<>>)>>)
  \o [i \in 1..Len(dec) |->
        [dec[i] EXCEPT !.val =
           IF Messages[type][dec[i].num].how \in DOMAIN Messages
           THEN Touch(Messages[type][dec[i].num].how, @, e)
           ELSE IF e.kind = "padded" /\ dec[i].wire = 0 THEN Pad(@, e.n) ELSE @]]

Delivered(data, e) ==
  CASE e.kind = "none" -> data
    [] e.kind = "cut"  -> SubSeq(data, 1, e.k)
    [] e.kind = "torn" -> SubSeq(data, 1, e.k) \o <<[data[e.k + 1] EXCEPT !.torn = TRUE]>>
    [] e.kind \in {"newer", "padded"} -> Touch("TracesData", data, e)

(* A cut needs something to cut. *)
Applies(e, td) == e.kind \in {"cut", "torn"} => e.k < Len(td.resourceSpans)

OtlpInit == sent = Nothing /\ edit = [kind |-> "none"] /\ received = Nothing

OtlpSend ==
  /\ sent = Nothing
  /\ \E td \in OtlpBatches, e \in Edits :
       Applies(e, td) /\ sent' = Ok(td) /\ edit' = e
  /\ UNCHANGED received

OtlpReceive ==
  /\ sent.ok /\ received = Nothing
  /\ received' = Unmarshal(Delivered(Marshal(sent.val), edit))
  /\ UNCHANGED <<sent, edit>>

OtlpNext == OtlpSend \/ OtlpReceive

OtlpSpec == OtlpInit /\ [][OtlpNext]_otlpVars

-----------------------------------------------------------------------------
(* What the receiver should have: every key of an attribute list once, at   *)
(* its first position and with its last value; a scope without name and     *)
(* version without its attributes; everything else as it was sent.          *)

LastValues(attrs) ==
  LET first == {i \in 1..Len(attrs) : \A j \in 1..(i - 1) : attrs[j].key # attrs[i].key}
      last(i) == CHOOSE j \in i..Len(attrs) :
                   /\ attrs[j].key = attrs[i].key
                   /\ \A k \in (j + 1)..Len(attrs) : attrs[k].key # attrs[i].key
      at == SetToSortSeq(first, <)
  IN  [n \in 1..Len(at) |-> [key |-> attrs[at[n]].key, value |-> attrs[last(at[n])].value]]

MapSeq(s, M(_)) == [i \in 1..Len(s) |-> M(s[i])]

Meant(td) ==
  LET attrs(m) == [m EXCEPT !.attributes = LastValues(@)]
      span(s)  == [s EXCEPT !.attributes = LastValues(@), !.events = MapSeq(@, attrs),
                            !.links = MapSeq(@, attrs)]
      scope(ss) == [scope |-> IF ss.scope.name = "" /\ ss.scope.version = ""
                              THEN Zero.Scope ELSE attrs(ss.scope),
                    spans |-> MapSeq(ss.spans, span)]
      resource(rs) == [resource |-> attrs(rs.resource), scopeSpans |-> MapSeq(rs.scopeSpans, scope)]
  IN  [resourceSpans |-> MapSeq(td.resourceSpans, resource)]

(* Unmarshal answers what Marshal was given, over nested values, repeated    *)
(* keys, negative and truncated integers, fields it does not know and padded *)
(* varints; a message torn inside a field, a field of an unknown wire type   *)
(* and a varint longer than MaxGroups are errors and never a partial batch;  *)
(* a message cut between two top-level fields is taken for a shorter one     *)
(* (internal/protocol/otlp/unmarshal.go, internal/codec/protobuf).           *)
UnmarshalUndoesMarshal ==
  ~received.none =>
    LET meant   == Meant(sent.val)
        tooLong == edit.kind = "padded" /\ edit.n > MaxGroups
        kinds   == \E rs \in Range(meant.resourceSpans) : \E ss \in Range(rs.scopeSpans) :
                     \E s \in Range(ss.spans) : s.kind # 0
        bad     == \/ edit.kind = "torn"
                   \/ edit.kind = "newer" /\ edit.wire \notin {0, 1, 2, 5}
                   \/ tooLong /\ kinds
    IN  IF bad THEN ~received.ok
        ELSE IF edit.kind = "cut"
             THEN received = Ok([resourceSpans |-> SubSeq(meant.resourceSpans, 1, edit.k)])
             ELSE received = Ok(meant) \/ (tooLong /\ ~received.ok)

=============================================================================
