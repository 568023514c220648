----------------------------- MODULE Conversions -----------------------------
(***************************************************************************)
(* The Jaeger front ends: decoding of a Thrift binary batch and of a       *)
(* protobuf PostSpansRequest (internal/protocol/jaeger), which the         *)
(* converters then turn into OTLP.                                         *)
(***************************************************************************)
EXTENDS Thrift, Otlp, Converters

VARIABLES cIn,    \* what the client sent
          cPath,  \* the front end: "thrift" or "protobuf"
          cKept,  \* Thrift tokens, or protobuf top-level fields, that arrived
          cOut    \* what the front end made of it

conversionVars == <<cIn, cPath, cKept, cOut>>

-----------------------------------------------------------------------------
(* decodeThriftBatch.  The loops end at the "stop" of a struct; an error of *)
(* a read is returned, an error while skipping is not looked at and shows   *)
(* at the next read, the buffer being empty then.                           *)

RECURSIVE skipThriftField(_, _), skipThriftItems(_, _, _), skipThriftStruct(_),
          decodeThriftSpan(_, _), decodeThriftSpans(_, _, _),
          decodeThriftProcess(_, _), decodeThriftBatch(_, _)

skipThriftItems(d, types, n) ==
  IF n = 0 \/ ~d.ok THEN d ELSE skipThriftItems(FoldLeft(skipThriftField, d, types), types, n - 1)

skipThriftStruct(d) ==
  LET after(f) == IF f.type = "stop" THEN f.d ELSE skipThriftStruct(skipThriftField(f.d, f.type))
  IN  after(ReadFieldBegin("binary", d))

skipThriftList(b) == skipThriftItems(b.d, <<b.elem>>, b.size)
skipThriftMap(b) == skipThriftItems(b.d, <<b.key, b.elem>>, b.size)

(* mutant of skipThriftField: a set is not skipped *)
skipThriftFieldNoSet(d, type) ==
  CASE type \in Scalars \cup {"bool"} -> Read(d, IF type = "bool" THEN "byte" ELSE type).d
    [] type = "list" -> skipThriftList(ReadListBegin("binary", d))
    [] type = "map" -> skipThriftMap(ReadMapBegin("binary", d))
    [] type = "struct" -> skipThriftStruct(d)
    [] OTHER -> d

skipThriftField(d, type) ==
  CASE type \in Scalars \cup {"bool"} -> Read(d, IF type = "bool" THEN "byte" ELSE type).d
    [] type \in {"list", "set"} -> skipThriftList(ReadListBegin("binary", d))
    [] type = "map" -> skipThriftMap(ReadMapBegin("binary", d))
    [] type = "struct" -> skipThriftStruct(d)
    [] OTHER -> d

ZeroSpan == [high |-> 0, low |-> 0, spanID |-> 0, op |-> "", refs |-> <<>>, start |-> 0,
             dur |-> 0, tags |-> <<>>, logs |-> <<>>]

(* Field ids the span decoder knows: the record field and the type it reads. *)
ThriftSpanFields == [i \in {1, 2, 3, 5, 7, 8} |->
  CASE i = 1 -> <<"low", "i64">> [] i = 2 -> <<"high", "i64">> [] i = 3 -> <<"spanID", "i64">>
    [] i = 5 -> <<"op", "string">> [] i = 7 -> <<"start", "i64">> [] i = 8 -> <<"dur", "i64">>]

(* What follows a read, unless it failed. *)
IfRead(r, Then(_, _)) == IF r.d.ok THEN Then(r.d, r.v) ELSE r

decodeThriftSpan(d, span) ==
  LET field(f) ==
        CASE f.type = "stop" -> Got(f.d, span)
          [] f.type # "stop" /\ f.id \in DOMAIN ThriftSpanFields ->
               IfRead(Read(f.d, ThriftSpanFields[f.id][2]),
                      LAMBDA e, v : decodeThriftSpan(e, [span EXCEPT ![ThriftSpanFields[f.id][1]] = v]))
          [] OTHER -> decodeThriftSpan(skipThriftField(f.d, f.type), span)
  IN  field(ReadFieldBegin("binary", d))

decodeThriftSpans(d, n, spans) ==
  IF n = 0 THEN Got(d, spans)
  ELSE IfRead(decodeThriftSpan(d, ZeroSpan),
              LAMBDA e, s : decodeThriftSpans(e, n - 1, Append(spans, s)))

decodeThriftProcess(d, service) ==
  LET field(f) ==
        CASE f.type = "stop" -> Got(f.d, service)
          [] f.type # "stop" /\ f.id = 1 ->
               IfRead(Read(f.d, "string"), LAMBDA e, v : decodeThriftProcess(e, v))
          [] OTHER -> decodeThriftProcess(skipThriftField(f.d, f.type), service)
  IN  field(ReadFieldBegin("binary", d))

decodeThriftBatch(d, batch) ==
  LET spans(b) == decodeThriftSpans(b.d, b.size, <<>>)
      field(f) ==
        CASE f.type = "stop" -> Got(f.d, batch)
          [] f.type # "stop" /\ f.id = 1 ->
               IfRead(decodeThriftProcess(f.d, ""),
                      LAMBDA e, v : decodeThriftBatch(e, [batch EXCEPT !.service = v]))
          [] f.type # "stop" /\ f.id = 2 ->
               IfRead(spans(ReadListBegin("binary", f.d)),
                      LAMBDA e, v : decodeThriftBatch(e, [batch EXCEPT !.spans = v]))
          [] OTHER -> decodeThriftBatch(skipThriftField(f.d, f.type), batch)
  IN  field(ReadFieldBegin("binary", d))

(* The batch of a Thrift buffer, or an error. *)
ThriftBatch(buf) ==
  LET r == decodeThriftBatch(NewDecoder(buf), ZeroBatch)
  IN  IF r.d.ok THEN Ok(r.v) ELSE Failed

-----------------------------------------------------------------------------
(* unmarshalProtobufBatch.  Only the seconds of a Timestamp or Duration are *)
(* read; an unknown field is skipped and an error of skipping not looked at.*)

SecondsInMicros(dec) ==
  LET one(acc, f) == IF f.num = 1 THEN ReadVarint(f.val).val * MicrosPerSecond ELSE acc
  IN  FoldLeft(one, 0, dec)

unmarshalProtobufSpan(dec) ==
  LET one(s, f) ==
        CASE f.num = 1 -> [s EXCEPT !.high = f.val[1], !.low = f.val[2]]
          [] f.num = 2 -> [s EXCEPT !.spanID = f.val]
          [] f.num = 3 -> [s EXCEPT !.op = f.val]
          [] f.num = 5 -> [s EXCEPT !.start = SecondsInMicros(f.val)]
          [] f.num = 6 -> [s EXCEPT !.dur = SecondsInMicros(f.val)]
          [] OTHER -> s
  IN  FoldLeft(one, ZeroSpan, dec)

unmarshalProtobufBatch(dec) ==
  LET name(n, f) == IF f.num = 1 THEN f.val ELSE n
      inner(b, f) == CASE f.num = 1 -> [b EXCEPT !.service = FoldLeft(name, @, f.val)]
                       [] f.num = 2 -> [b EXCEPT !.spans = Append(@, unmarshalProtobufSpan(f.val))]
                       [] OTHER -> b
      outer(b, f) == IF f.num = 1 THEN FoldLeft(inner, b, f.val) ELSE b
  IN  IF \E i \in 1..Len(dec) : dec[i].torn THEN Failed ELSE Ok(FoldLeft(outer, ZeroBatch, dec))

-----------------------------------------------------------------------------
(* The clients (external): a Thrift batch has fields this decoder does not  *)
(* know of every type, a protobuf one the nanoseconds of its times.         *)

TField(id, type, val) == [id |-> id, type |-> type, val |-> val]

ThriftOf(b) ==
  LET tag(t)  == <<TField(1, "string", t.key), TField(2, "i32", 0), TField(3, "bool", TRUE)>>
      tags(ts) == [elem |-> "struct", items |-> MapSeq(ts, tag)]
      refs(s) == [elem |-> "i64", items |-> MapSeq(s.refs, LAMBDA r : r.spanID)]
      span(s) == <<TField(1, "i64", s.low), TField(4, "set", refs(s)), TField(2, "i64", s.high),
                   TField(3, "i64", s.spanID), TField(5, "string", s.op),
                   TField(6, "map", [key |-> "string", elem |-> "struct",
                                     items |-> MapSeq(s.tags, LAMBDA t : <<t.key, tag(t)>>)]),
                   TField(7, "i64", s.start), TField(8, "i64", s.dur), TField(10, "list", tags(s.tags)),
                   TField(11, "double", 0)>>
      process == <<TField(2, "list", tags(b.tags)), TField(1, "string", b.service)>>
  IN  WriteStruct("binary",
        <<TField(1, "struct", process), TField(4, "byte", 1),
          TField(2, "list", [elem |-> "struct", items |-> MapSeq(b.spans, span)])>>, 0)

Whole(t) == t \div MicrosPerSecond  \* the seconds of a time

ProtobufOf(b) ==
  LET time(t) == WriteTagVarint(1, Whole(t)) \o WriteTagVarint(2, t % 100)
      span(s) == WriteTagBytes(2,
                   WriteTagBytes(1, <<s.high, s.low>>) \o WriteTagBytes(2, s.spanID)
                   \o WriteTagBytes(3, s.op) \o WriteTagBytes(4, <<>>)
                   \o WriteTagBytes(5, time(s.start)) \o WriteTagBytes(6, time(s.dur)))
  IN  WriteTagBytes(1, WriteTagBytes(1, WriteTagBytes(1, b.service)) \o Each(b.spans, span))

ConversionsInit == cIn = <<>> /\ cPath = "none" /\ cKept = 0 /\ cOut = Nothing

JaegerClientSends ==
  /\ cPath = "none"
  /\ \E b \in JaegerBatches :
       /\ cIn' = <<b>>
       /\ \/ cPath' = "thrift" /\ cKept' \in 0..Len(ThriftOf(b))
          \/ cPath' = "protobuf" /\ cKept' \in 0..1
  /\ UNCHANGED cOut

(* A cut inside the one top-level field of the protobuf request tears it. *)
JaegerDecodes ==
  /\ cPath \in {"thrift", "protobuf"} /\ cOut.none
  /\ LET pb == ProtobufOf(cIn[1])
         b  == IF cPath = "thrift" THEN ThriftBatch(SubSeq(ThriftOf(cIn[1]), 1, cKept))
               ELSE unmarshalProtobufBatch([pb EXCEPT ![1].torn = cKept = 0])
     IN  cOut' = IF b.ok THEN Ok(BatchToOTLP(b.val)) ELSE Failed
  /\ UNCHANGED <<cIn, cPath, cKept>>

ConversionsNext == JaegerClientSends \/ JaegerDecodes

ConversionsSpec == ConversionsInit /\ [][ConversionsNext]_conversionVars

-----------------------------------------------------------------------------
(* What a front end is known to keep of a batch: a Thrift or protobuf span   *)
(* arrives without its tags, logs and references, a protobuf time without    *)
(* its fraction of a second.                                                 *)
Carried(b) ==
  LET time(t) == IF cPath = "protobuf" THEN Whole(t) * MicrosPerSecond ELSE t
      span(s) == [s EXCEPT !.refs = <<>>, !.tags = <<>>, !.logs = <<>>,
                           !.start = time(@), !.dur = time(@)]
  IN  [b EXCEPT !.tags = <<>>, !.spans = MapSeq(@, span)]

(* Every span of an accepted request comes out once, in order and under its  *)
(* own trace, whichever unknown fields of whichever type lie between the     *)
(* known ones; a request that was cut is refused whole and never taken for a *)
(* shorter one (jaeger/receiver.go, jaeger/grpc_receiver.go).                *)
ConversionsKeepSpans ==
  ~cOut.none =>
    LET whole == IF cPath = "thrift" THEN cKept = Len(ThriftOf(cIn[1])) ELSE cKept = 1
    IN  IF whole THEN cOut = Ok(BatchToOTLP(Carried(cIn[1]))) ELSE ~cOut.ok

(* A reader of Thrift, at either protocol, and the front ends that are built *)
(* on it and on protobuf return exactly what was written, or an error when   *)
(* part of it did not arrive (codec/thrift, jaeger/receiver.go,              *)
(* jaeger/grpc_receiver.go).                                                 *)
DecodersReadWhatWasSent == ReadUndoesWrite /\ ConversionsKeepSpans

=============================================================================
