----------------------------- MODULE WireFormat -----------------------------
(***************************************************************************)
(* The bytes of a call request, as send_call of comm_channel.c writes them.*)
(*                                                                         *)
(* A pointer that may be NULL is a sequence of at most one element: <<>>   *)
(* is NULL.  A type is its plcDatatype, its name and its subtypes.  A value*)
(* is a NULL or <<x>>, where x is the bytes of a scalar, a text or a bytea,*)
(* the values of the columns of a row, or the dims and items of an array.  *)
(***************************************************************************)
EXTENDS Integers, Sequences, SequencesExt

Bytes == Seq(0..255)
MaxInt16 == 32767
MaxInt32 == 2147483647
Int16s == (-MaxInt16 - 1)..MaxInt16
Int32s == (-MaxInt32 - 1)..MaxInt32

\* plcDatatype, the first one being 0.
DataTypes == <<"int1", "int2", "int4", "int8", "float4", "float8", "text",
               "array", "udt", "bytea">>

Ordinal(data) == (CHOOSE i \in DOMAIN DataTypes : DataTypes[i] = data) - 1

\* plc_get_type_length of the scalar types
Width == [int1 |-> 1, int2 |-> 2, int4 |-> 4, int8 |-> 8, float4 |-> 4,
          float8 |-> 8]

Composite(data) == data \in {"array", "udt"}

\* n as width bytes, the lowest one first, in two's complement.
Weight == <<1, 256, 65536, 16777216>>
LittleEndian(n, width) == [i \in 1..width |-> (n \div Weight[i]) % 256]

Int16(n) == LittleEndian(n, 2)
Int32(n) == LittleEndian(n, 4)

CharN == 78   \* 'N'
CharD == 68   \* 'D'
CharC == 67   \* 'C', MT_CALLREQ
CharR == 82   \* 'R', MT_RESULT
CharE == 69   \* 'E', MT_EXCEPTION
CharL == 76   \* 'L', MT_LOG

\* send_cstring
CString(s) == IF s = <<>> THEN Int32(-1) ELSE Int32(Len(s[1])) \o s[1]

\* A string that may be NULL, of as many bytes as an int32 tells.
StringFits(s) ==
    s # <<>> => s = <<s[1]>> /\ s[1] \in Bytes /\ Len(s[1]) \in Int32s

\* send_type, with the bytes of the subtypes
TypeBytesOver(t, subs) ==
    <<Ordinal(t.data)>> \o CString(t.name)
    \o IF Composite(t.data) THEN Int16(Len(t.sub)) \o FlattenSeq(subs) ELSE <<>>

\* send_type calls itself; here (bound) types nest three deep.
FlatTypeBytes(t) == TypeBytesOver(t, <<>>)
NestedTypeBytes(t) == TypeBytesOver(t, [i \in DOMAIN t.sub |-> FlatTypeBytes(t.sub[i])])
DeepTypeBytes(t) == TypeBytesOver(t, [i \in DOMAIN t.sub |-> NestedTypeBytes(t.sub[i])])
TypeBytes(t) == TypeBytesOver(t, [i \in DOMAIN t.sub |-> DeepTypeBytes(t.sub[i])])

\* What a value has inside: the columns of a row, the items of an array.
Part(t, v) == [type |-> t, value |-> v]
PartsOf(t, v) ==
    CASE v # <<>> /\ t.data = "udt" -> [i \in DOMAIN t.sub |-> Part(t.sub[i], v[1][i])]
      [] v # <<>> /\ t.data = "array" ->
           [i \in DOMAIN v[1].items |-> Part(t.sub[1], v[1].items[i])]
      [] OTHER -> <<>>

\* send_raw_object, with send_udt and send_raw_array_iter, with the bytes of
\* the parts
ValueBytesOver(t, v, parts) ==
    IF v = <<>> THEN <<CharN>> ELSE
    LET x == v[1] IN
    <<CharD>> \o
    CASE t.data \in DOMAIN Width -> x
      [] t.data \in {"text", "bytea"} -> Int32(Len(x)) \o x
      [] t.data = "udt" -> FlattenSeq(parts)
      [] t.data = "array" ->
           Int32(Len(x.dims))
           \o FlattenSeq([i \in DOMAIN x.dims |-> Int32(x.dims[i])])
           \o FlattenSeq(parts)

\* As deep as types nest.
FlatValueBytes(p) == ValueBytesOver(p.type, p.value, <<>>)
NestedValueBytes(p) ==
    LET parts == PartsOf(p.type, p.value) IN
    ValueBytesOver(p.type, p.value, [i \in DOMAIN parts |-> FlatValueBytes(parts[i])])
DeepValueBytes(p) ==
    LET parts == PartsOf(p.type, p.value) IN
    ValueBytesOver(p.type, p.value, [i \in DOMAIN parts |-> NestedValueBytes(parts[i])])
ValueBytes(t, v) ==
    LET parts == PartsOf(t, v) IN
    ValueBytesOver(t, v, [i \in DOMAIN parts |-> DeepValueBytes(parts[i])])

\* send_argument: what comes before the value, and all of it.
HeaderBytes(arg) == CString(arg.name) \o TypeBytes(arg.type)
ArgumentBytes(arg) == HeaderBytes(arg) \o ValueBytes(arg.type, arg.value)

\* send_call, one sequence of bytes for each field.
Fields(call) ==
    << <<CharC>>, CString(call.name), CString(call.src), Int32(call.oid),
       Int32(call.hasChanged), TypeBytes(call.retType), Int32(call.retset),
       Int32(Len(call.args)) >>
    \o [i \in DOMAIN call.args |-> ArgumentBytes(call.args[i])]

CallBytes(call) == FlattenSeq(Fields(call))
=============================================================================
