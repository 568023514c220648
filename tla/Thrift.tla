------------------------------- MODULE Thrift -------------------------------
(***************************************************************************)
(* The Thrift codecs of internal/codec/thrift: the binary protocol and the *)
(* compact protocol, whose encoder and decoder carry state from one call to*)
(* the next (a stack of last field ids for the delta headers, and the bool *)
(* that travels in a field header until ReadBool takes it).                *)
(*                                                                         *)
(* A buffer is a sequence of tokens [kind, v], one for each unit the code  *)
(* reads in one call; a buffer is cut between two tokens.  A decoder that  *)
(* meets the end of its buffer, or a token of another kind than the one it *)
(* asks for, fails, and so does every later read from it.                  *)
(*                                                                         *)
(* A struct is a sequence of fields [id, type, val]; a list or set is      *)
(* [elem, items], a map [key, elem, items]; the types of an empty map are  *)
(* not written by the compact protocol, here an empty map has none.        *)
(***************************************************************************)
EXTENDS Integers, Sequences

CONSTANTS Structs,      \* the structs written and read back
          IdBits,       \* width of the int16 field ids, scaled
          MaxShortSize  \* largest list size in the header's nibble (14)

MaxDelta == MaxShortSize + 1  \* largest delta in the header's nibble (15)

ASSUME ThriftAssumption == IdBits \in Nat \ {0} /\ MaxShortSize \in Nat

VARIABLES tStruct,  \* the struct written, None before
          tProto,   \* the protocol
          tCut,     \* tokens that arrive
          tRead     \* the result of reading it back

thriftVars == <<tStruct, tProto, tCut, tRead>>

Scalars == {"byte", "i16", "i32", "i64", "double", "string"}

Token(kind, v) == <<[kind |-> kind, v |-> v]>>

Int16(n) == LET low == n % 2^IdBits IN IF low >= 2^(IdBits - 1) THEN low - 2^IdBits ELSE low

(* writeZigzag, readZigzag *)
Zigzag(n)   == IF n >= 0 THEN 2 * n ELSE -2 * n - 1
Unzigzag(n) == IF n % 2 = 0 THEN n \div 2 ELSE -(n \div 2) - 1

-----------------------------------------------------------------------------
(* Encoders.  A scalar is one token; compact integers are zigzag varints.   *)

Bit(b) == IF b THEN 1 ELSE 0

WriteScalar(proto, type, v) ==
  IF proto = "compact" /\ type \in {"i16", "i32", "i64"}
  THEN Token("varint", Zigzag(v)) ELSE Token(type, v)

(* mutant of WriteHeader: the delta may be zero or negative. *)
WriteHeaderAnyDelta(last, ct, id) ==
  IF Int16(id - last) <= MaxDelta THEN Token("header", <<Int16(id - last), ct>>)
  ELSE Token("header", <<0, ct>>) \o WriteScalar("compact", "i16", id)

(* CompactEncoder.WriteFieldBegin and WriteFieldBeginBool after the last id
   of this struct: a delta of 1..15 is in the header, else the id follows. *)
WriteHeader(last, ct, id) ==
  IF Int16(id - last) > 0 /\ Int16(id - last) <= MaxDelta
  THEN Token("header", <<Int16(id - last), ct>>)
  ELSE Token("header", <<0, ct>>) \o WriteScalar("compact", "i16", id)

(* The compact type of a field: a bool's value is its type. *)
CompactType(f) == IF f.type = "bool" THEN IF f.val THEN "true" ELSE "false" ELSE f.type

(* tTypeToCompact: the compact type of an element. *)
ElemType(type) == IF type = "bool" THEN "true" ELSE type

(* compactTypeToTType *)
TypeOf(ct) == IF ct \in {"true", "false"} THEN "bool" ELSE ct

WriteListBegin(proto, type, size) ==
  IF proto = "binary" THEN Token("type", type) \o Token("i32", size)
  ELSE IF size <= MaxShortSize THEN Token("list", <<size, ElemType(type)>>)
       ELSE Token("list", <<MaxDelta, ElemType(type)>>) \o Token("varint", size)

WriteMapBegin(proto, key, type, size) ==
  IF proto = "binary" THEN Token("type", key) \o Token("type", type) \o Token("i32", size)
  ELSE IF size = 0 THEN Token("varint", 0)
       ELSE Token("varint", size) \o Token("types", <<ElemType(key), ElemType(type)>>)

WriteFieldStop(proto) ==
  IF proto = "binary" THEN Token("type", "stop") ELSE Token("header", <<0, "stop">>)

RECURSIVE WriteValue(_, _, _), WriteStruct(_, _, _), WriteItems(_, _, _)

(* The fields from here on; last is the top of lastField, 0 at the beginning
   of a struct (WriteStructBegin) and forgotten at its end. *)
WriteStruct(proto, fields, last) ==
  IF fields = <<>> THEN WriteFieldStop(proto)
  ELSE LET f == Head(fields)
           begin == IF proto = "compact" THEN WriteHeader(last, CompactType(f), f.id)
                    ELSE Token("type", f.type) \o Token("i16", f.id)
       IN  begin \o (IF proto = "compact" /\ f.type = "bool" THEN <<>>
                     ELSE WriteValue(proto, f.type, f.val))
           \o WriteStruct(proto, Tail(fields), f.id)

WriteItems(proto, type, items) ==
  IF items = <<>> THEN <<>>
  ELSE WriteValue(proto, type, Head(items)) \o WriteItems(proto, type, Tail(items))

WriteValue(proto, type, v) ==
  CASE type \in Scalars -> WriteScalar(proto, type, v)
    [] type = "bool"    -> Token("byte", Bit(v))
    [] type \in {"list", "set"} ->
         WriteListBegin(proto, v.elem, Len(v.items)) \o WriteItems(proto, v.elem, v.items)
    [] type = "map" ->
         LET pair(i) == WriteValue(proto, v.key, v.items[i][1])
                        \o WriteValue(proto, v.elem, v.items[i][2])
             upTo[i \in 0..Len(v.items)] == IF i = 0 THEN <<>> ELSE upTo[i - 1] \o pair(i)
         IN  WriteMapBegin(proto, v.key, v.elem, Len(v.items)) \o upTo[Len(v.items)]
    [] type = "struct"  -> WriteStruct(proto, v, 0)

-----------------------------------------------------------------------------
(* Decoders: [buf, last, bool, ok].  last is the stack of last field ids and *)
(* bool the value a field header left for ReadBool, -1 when there is none.  *)

NewDecoder(buf) == [buf |-> buf, last |-> <<0>>, bool |-> -1, ok |-> TRUE]

Fail(d) == [d EXCEPT !.ok = FALSE, !.buf = <<>>]

(* One read: what it answers and the decoder after it. *)
Got(d, v) == [d |-> d, v |-> v]

Read(d, kind) ==
  IF d.ok /\ d.buf # <<>> /\ d.buf[1].kind = kind
  THEN Got([d EXCEPT !.buf = Tail(@)], d.buf[1].v) ELSE Got(Fail(d), 0)

ReadScalar(proto, d, type) ==
  IF proto = "compact" /\ type \in {"i16", "i32", "i64"}
  THEN LET r == Read(d, "varint") IN Got(r.d, Unzigzag(r.v)) ELSE Read(d, type)

ReadBool(d) ==
  IF d.bool >= 0 THEN Got([d EXCEPT !.bool = -1], d.bool = 1)
  ELSE LET r == Read(d, "byte") IN Got(r.d, r.v # 0)

Top(d) == d.last[Len(d.last)]
SetTop(d, id) == [d EXCEPT !.last[Len(d.last)] = id]

(* The error of a read makes the type "stop", as in the code. *)
ReadFieldBegin(proto, d) ==
  IF proto = "binary"
  THEN LET t == Read(d, "type")
           i == Read(t.d, "i16")
       IN  IF ~t.d.ok \/ t.v = "stop" THEN [d |-> t.d, type |-> "stop", id |-> 0]
           ELSE [d |-> i.d, type |-> IF i.d.ok THEN t.v ELSE "stop", id |-> i.v]
  ELSE LET h  == Read(d, "header")
           i  == IF h.v[1] # 0 THEN Got(h.d, Int16(Top(h.d) + h.v[1]))
                 ELSE ReadScalar("compact", h.d, "i16")
           ct == h.v[2]
       IN  IF ~h.d.ok \/ h.v = <<0, "stop">> THEN [d |-> h.d, type |-> "stop", id |-> 0]
           ELSE IF ~i.d.ok THEN [d |-> i.d, type |-> "stop", id |-> 0]
           ELSE [d |-> [SetTop(i.d, i.v) EXCEPT
                          !.bool = IF ct = "true" THEN 1 ELSE IF ct = "false" THEN 0 ELSE @],
                 type |-> TypeOf(ct), id |-> i.v]

ReadListBegin(proto, d) ==
  IF proto = "binary"
  THEN LET t == Read(d, "type")
           n == Read(t.d, "i32")
       IN  [d |-> n.d, elem |-> t.v, size |-> n.v]
  ELSE LET h == Read(d, "list")
           n == IF h.d.ok /\ h.v[1] = MaxDelta THEN Read(h.d, "varint") ELSE Got(h.d, h.v[1])
       IN  IF h.d.ok THEN [d |-> n.d, elem |-> TypeOf(h.v[2]), size |-> n.v]
           ELSE [d |-> h.d, elem |-> "stop", size |-> 0]

ReadMapBegin(proto, d) ==
  IF proto = "binary"
  THEN LET k == Read(d, "type")
           t == Read(k.d, "type")
           n == Read(t.d, "i32")
       IN  [d |-> n.d, key |-> k.v, elem |-> t.v, size |-> n.v]
  ELSE LET n == Read(d, "varint")
           t == Read(n.d, "types")
       IN  IF n.v = 0 \/ ~t.d.ok
           THEN [d |-> IF n.v = 0 THEN n.d ELSE t.d, key |-> "stop", elem |-> "stop", size |-> 0]
           ELSE [d |-> t.d, key |-> TypeOf(t.v[1]), elem |-> TypeOf(t.v[2]), size |-> n.v]

RECURSIVE ReadValue(_, _, _), ReadStruct(_, _, _), ReadItems(_, _, _, _), ReadPairs(_, _, _, _, _)

ReadItems(proto, d, type, n) ==
  IF n = 0 \/ ~d.ok THEN Got(d, <<>>)
  ELSE LET x == ReadValue(proto, d, type)
           r == ReadItems(proto, x.d, type, n - 1)
       IN  Got(r.d, <<x.v>> \o r.v)

ReadPairs(proto, d, key, type, n) ==
  IF n = 0 \/ ~d.ok THEN Got(d, <<>>)
  ELSE LET k == ReadValue(proto, d, key)
           x == ReadValue(proto, k.d, type)
           r == ReadPairs(proto, x.d, key, type, n - 1)
       IN  Got(r.d, <<<<k.v, x.v>>>> \o r.v)

ReadStruct(proto, d, fields) ==
  LET f == ReadFieldBegin(proto, d)
      x == ReadValue(proto, f.d, f.type)
  IN  IF f.type = "stop" THEN Got(f.d, fields)
      ELSE ReadStruct(proto, x.d, Append(fields, [id |-> f.id, type |-> f.type, val |-> x.v]))

(* A reader that takes each value by its type; a struct is read between
   ReadStructBegin and ReadStructEnd, which push and pop lastField. *)
ReadValue(proto, d, type) ==
  CASE type \in Scalars -> ReadScalar(proto, d, type)
    [] type = "bool"    -> ReadBool(d)
    [] type \in {"list", "set"} ->
         LET b == ReadListBegin(proto, d)
             r == ReadItems(proto, b.d, b.elem, b.size)
         IN  Got(r.d, [elem |-> b.elem, items |-> r.v])
    [] type = "map" ->
         LET b == ReadMapBegin(proto, d)
             r == ReadPairs(proto, b.d, b.key, b.elem, b.size)
         IN  Got(r.d, [key |-> b.key, elem |-> b.elem, items |-> r.v])
    [] type = "struct" ->
         LET r == ReadStruct(proto, [d EXCEPT !.last = Append(@, 0)], <<>>)
         IN  Got([r.d EXCEPT !.last = SubSeq(@, 1, Len(@) - 1)], r.v)
    [] OTHER -> Got(Fail(d), 0)

-----------------------------------------------------------------------------
Unread == [ok |-> FALSE, done |-> FALSE, val |-> <<>>]

ThriftInit == tStruct = <<>> /\ tProto = "none" /\ tCut = 0 /\ tRead = Unread

ThriftWrite ==
  /\ tProto = "none"
  /\ \E s \in Structs, p \in {"binary", "compact"} :
       /\ tStruct' = s
       /\ tProto' = p
       /\ tCut' \in 0..Len(WriteStruct(p, s, 0))
  /\ UNCHANGED tRead

ThriftRead ==
  /\ tProto # "none" /\ ~tRead.done
  /\ LET r == ReadStruct(tProto, NewDecoder(SubSeq(WriteStruct(tProto, tStruct, 0), 1, tCut)), <<>>)
     IN  tRead' = [ok |-> r.d.ok /\ r.d.buf = <<>> /\ r.d.bool = -1, done |-> TRUE,
                   val |-> r.v]
  /\ UNCHANGED <<tStruct, tProto, tCut>>

ThriftNext == ThriftWrite \/ ThriftRead

ThriftSpec == ThriftInit /\ [][ThriftNext]_thriftVars

(* Reading back what was written gives the same fields with the same ids,    *)
(* whatever the order of the ids, their distance and the nesting, uses the   *)
(* buffer up and leaves no bool pending; a buffer that was cut is an error   *)
(* and never a shorter struct (internal/codec/thrift/compact.go, binary.go). *)
ReadUndoesWrite ==
  tRead.done =>
    LET whole == tCut = Len(WriteStruct(tProto, tStruct, 0))
    IN  /\ tRead.ok <=> whole
        /\ whole => tRead.val = tStruct

=============================================================================
