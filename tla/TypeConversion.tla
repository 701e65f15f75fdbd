--------------------------- MODULE TypeConversion ---------------------------
(***************************************************************************)
(* plc_typeio.c: the description of a type (plcTypeInfo), and the          *)
(* conversion of a Datum to what is sent to the peer and back.             *)
(*                                                                         *)
(* A type of PostgreSQL is a scalar, an array of a type, or a row of       *)
(* columns, some of which may have been dropped.  A Datum is a scalar, an  *)
(* array [dims, elems], or the sequence of the columns of a row; elements  *)
(* and columns come with their null flag.                                  *)
(*                                                                         *)
(* fill_type_info looks three types deep, at rows in arrays and at arrays  *)
(* in rows, so that the functions of the code that call themselves do so   *)
(* three times at most.  Each is an operator ...Of, with what it calls as  *)
(* a parameter, and is closed from the innermost call outwards.            *)
(***************************************************************************)
EXTENDS ArrayIterator, FiniteSets

CONSTANT
    Garbage   \* what is read from memory that nobody wrote

Scalar(k) == [kind |-> k]
ArrayOf(t) == [kind |-> "array", elem |-> t]
RowOf(cols) == [kind |-> "row", cols |-> cols]
Column(t) == [dropped |-> FALSE, type |-> t]
DroppedColumn == [dropped |-> TRUE]

-----------------------------------------------------------------------------
(* The description of a type.                                              *)

\* What memset leaves of the description of a dropped column.
DroppedInfo == [type |-> "DROPPED", ptr |-> FALSE, sub |-> <<>>]

\* A scalar, and every other type, which is passed as text.  ptr: infunc is
\* given the address of a pointer to the value.
ScalarInfo(t, isArrayElement, isUDTElement) ==
    IF t.kind \in {"fixed", "numeric"}
    THEN [type |-> t.kind, ptr |-> FALSE, sub |-> <<>>]
    ELSE [type |-> IF t.kind = "bytea" THEN "BYTEA" ELSE "TEXT",
          ptr |-> isArrayElement, sub |-> <<>>]

\* fill_type_info_inner.  Arrays in arrays do not exist; a row in a row, or in
\* an array in a row, is passed as text.
InfoOf(Nested(_, _, _), t, isArrayElement, isUDTElement) ==
    IF t.kind = "array" /\ ~isArrayElement
    THEN [type |-> "ARRAY", ptr |-> FALSE,
          sub |-> <<Nested(t.elem, TRUE, isUDTElement)>>]
    ELSE IF t.kind = "row" /\ ~isUDTElement
    THEN [type |-> "UDT", ptr |-> isArrayElement,
          sub |-> [i \in DOMAIN t.cols |->
                     IF t.cols[i].dropped THEN DroppedInfo
                     ELSE Nested(t.cols[i].type, FALSE, TRUE)]]
    ELSE ScalarInfo(t, isArrayElement, isUDTElement)

Info1(t, isArrayElement, isUDTElement) == InfoOf(ScalarInfo, t, isArrayElement, isUDTElement)
Info2(t, isArrayElement, isUDTElement) == InfoOf(Info1, t, isArrayElement, isUDTElement)

\* Mutant: what is in a row or an array forgets that it is in a row.
TypeInfoOfRows(t) ==
    InfoOf(LAMBDA s, isArrayElement, isUDTElement : Info2(s, isArrayElement, FALSE),
           t, FALSE, FALSE)

\* fill_type_info
TypeInfo(t) == InfoOf(Info2, t, FALSE, FALSE)

\* The numbers of the columns that are not dropped.
KeptColumns(sub) ==
    Selected([i \in DOMAIN sub |-> i], {i \in DOMAIN sub : sub[i].type # "DROPPED"})

\* copy_type_info: the plcType that is sent.
CopyOf(Nested(_), info) ==
    LET kept == KeptColumns(info.sub) IN
    [type |-> info.type, sub |-> [j \in DOMAIN kept |-> Nested(info.sub[kept[j]])]]

Copy0(info) == [type |-> info.type, sub |-> <<>>]
Copy1(info) == CopyOf(Copy0, info)
Copy2(info) == CopyOf(Copy1, info)
CopyType(info) == CopyOf(Copy2, info)

-----------------------------------------------------------------------------
(* From a Datum (plc_datum_as_...).                                         *)

\* A numeric loses precision as a float8: the odd ones have none.
Float8(n) == n - (n % 2)

\* The output function of a type, and its input function.
Output(v) == [text |-> v]
Input(x) == x.text

\* plc_datum_as_array: an iterator, with the description of the elements.
Iterator(info, a) == [dims |-> a.dims, array |-> Stored(a.elems), subtyp |-> info.sub[1]]

SizeOf(dims) ==
    LET product[n \in 0..Len(dims)] == IF n = 0 THEN 1 ELSE product[n - 1] * dims[n]
    IN IF dims = <<>> THEN 0 ELSE product[Len(dims)]

\* The outfunc of a type that is not a row.
AsField(info, v) ==
    CASE info.type = "numeric" -> Float8(v)
      [] info.type = "TEXT" -> Output(v)
      [] info.type = "ARRAY" -> Iterator(info, v)
      [] OTHER -> v

\* plc_datum_as_udt
AsUdt(info, row) ==
    LET kept == KeptColumns(info.sub) IN
    [j \in DOMAIN kept |->
        UnlessNull(LAMBDA v : AsField(info.sub[kept[j]], v), row[kept[j]])]

\* The outfunc of a type.
AsValue(info, v) == IF info.type = "UDT" THEN AsUdt(info, v) ELSE AsField(info, v)

\* The elements that the iterator gives, each converted by its outfunc.
Elements(iter) ==
    LET items == Items(iter.array, SizeOf(iter.dims))
    IN [i \in DOMAIN items |->
          UnlessNull(LAMBDA v : AsValue(iter.subtyp, v), items[i])]

-----------------------------------------------------------------------------
(* On the wire: send_raw_object and receive_raw_object.                    *)

\* send_raw_object, send_raw_array_iter and send_udt
WireOf(Nested(_, _), type, obj) ==
    UnlessNull(
        LAMBDA x :
            CASE type.type = "ARRAY" ->
                    LET elems == Elements(x) IN
                    [dims |-> x.dims,
                     elems |-> [i \in DOMAIN elems |-> Nested(type.sub[1], elems[i])]]
              [] type.type = "UDT" -> [j \in DOMAIN type.sub |-> Nested(type.sub[j], x[j])]
              [] OTHER -> x,
        obj)

Wire0(type, obj) == obj
Wire1(type, obj) == WireOf(Wire0, type, obj)
Wire2(type, obj) == WireOf(Wire1, type, obj)
OnWire(type, obj) == WireOf(Wire2, type, obj)

\* The entries of a plcArray are as long as plc_get_type_length says: these
\* types have a pointer in them.
Pointed == {"TEXT", "BYTEA", "UDT"}

\* The entry of a plcArray for an element: zeros for one that is null.
Entry(type, w) ==
    IF w.isnull THEN Null
    ELSE IF type.type \in Pointed THEN [pointer |-> w.value]
    ELSE w.value

\* receive_raw_object, receive_array and receive_udt
ReceivedOf(Nested(_, _), type, wire) ==
    UnlessNull(
        LAMBDA w :
            CASE type.type = "ARRAY" ->
                    LET elem == type.sub[1] IN
                    [dims |-> w.dims,
                     nulls |-> [i \in DOMAIN w.elems |-> w.elems[i].isnull],
                     data |-> [i \in DOMAIN w.elems |->
                                 Entry(elem, Nested(elem, w.elems[i]))]]
              [] type.type = "UDT" -> [j \in DOMAIN type.sub |-> Nested(type.sub[j], w[j])]
              [] OTHER -> w,
        wire)

Received0(type, wire) == wire
Received1(type, wire) == ReceivedOf(Received0, type, wire)
Received2(type, wire) == ReceivedOf(Received1, type, wire)
Received(type, wire) == ReceivedOf(Received2, type, wire)

-----------------------------------------------------------------------------
(* To a Datum (plc_datum_from_...).                                         *)

FromScalar(info, slot) ==
    LET x == IF info.ptr THEN slot.pointer ELSE slot IN
    CASE info.type = "TEXT" -> Input(x)
      [] info.type = "DROPPED" -> Garbage
      [] OTHER -> x

\* Mutant: entries that are null take no space.
ElementAtPacked(arr, i) ==
    LET slot == i - Cardinality({k \in 1..i : arr.nulls[k]}) IN
    IF arr.nulls[i] \/ arr.nulls[slot] THEN Null ELSE Some(arr.data[slot])

\* The entry that the pointer of plc_datum_from_array has come to.
ElementAt(arr, i) == IF arr.nulls[i] THEN Null ELSE Some(arr.data[i])

\* plc_datum_from_array
FromArray(Nested(_, _), info, arr) ==
    [dims |-> arr.dims,
     elems |-> [i \in DOMAIN arr.nulls |->
                  UnlessNull(LAMBDA x : Nested(info.sub[1], x), ElementAt(arr, i))]]

\* plc_datum_from_udt: a column is converted with subTypes[j], j being its
\* number without the dropped ones, and nothing is written for a dropped one.
FromUdt(Nested(_, _), info, udt) ==
    LET j(i) == Cardinality({k \in 1..i : info.sub[k].type # "DROPPED"}) IN
    [i \in DOMAIN info.sub |->
        IF info.sub[i].type = "DROPPED" THEN Garbage
        ELSE UnlessNull(LAMBDA x : Nested(info.sub[j(i)], x), udt[j(i)])]

\* The infunc of a type.
FromOf(Nested(_, _), info, slot) ==
    LET x == IF info.ptr THEN slot.pointer ELSE slot IN
    CASE info.type = "ARRAY" -> FromArray(Nested, info, x)
      [] info.type = "UDT" -> FromUdt(Nested, info, x)
      [] OTHER -> FromScalar(info, slot)

From1(info, slot) == FromOf(FromScalar, info, slot)
From2(info, slot) == FromOf(From1, info, slot)
FromValue(info, slot) == FromOf(From2, info, slot)

-----------------------------------------------------------------------------
(* The types and the Datums of PostgreSQL, as deep as conversions look.    *)

IsSequence(s) == Len(s) \in Nat /\ s = [i \in 1..Len(s) |-> s[i]]

\* The elements of an array are never arrays.
NoArrayInArray(t) == t.kind = "array" => t.elem.kind # "array"

IsRowType(t) ==
    /\ IsSequence(t.cols)
    /\ \A i \in DOMAIN t.cols :
          /\ t.cols[i].dropped \in BOOLEAN
          /\ ~t.cols[i].dropped => NoArrayInArray(t.cols[i].type)

IsType(t) ==
    /\ NoArrayInArray(t)
    /\ t.kind = "row" => IsRowType(t)
    /\ t.kind = "array" /\ t.elem.kind = "row" => IsRowType(t.elem)

NoneDropped(t) ==
    /\ t.kind = "row" => \A i \in DOMAIN t.cols : ~t.cols[i].dropped
    /\ t.kind = "array" /\ t.elem.kind = "row" =>
          \A i \in DOMAIN t.elem.cols : ~t.elem.cols[i].dropped

\* x is Null or Some value.
MayBeNull(x) == x = Null \/ x = Some(x.value)

\* An array has as many elements as its dimensions say.
DatumOf(Nested(_, _), t, x) ==
    /\ MayBeNull(x)
    /\ ~x.isnull /\ t.kind = "array" =>
          LET a == x.value IN
          /\ a = [dims |-> a.dims, elems |-> a.elems]
          /\ IsSequence(a.dims) /\ IsSequence(a.elems)
          /\ SizeOf(a.dims) = Len(a.elems)
          /\ \A i \in DOMAIN a.elems : Nested(t.elem, a.elems[i])
    /\ ~x.isnull /\ t.kind = "row" =>
          /\ IsSequence(x.value) /\ Len(x.value) = Len(t.cols)
          /\ \A i \in DOMAIN t.cols :
                ~t.cols[i].dropped => Nested(t.cols[i].type, x.value[i])

Datum0(t, x) == MayBeNull(x)
Datum1(t, x) == DatumOf(Datum0, t, x)
Datum2(t, x) == DatumOf(Datum1, t, x)
IsDatum(t, x) == DatumOf(Datum2, t, x)

-----------------------------------------------------------------------------
(* What the conversions are for.                                           *)

\* What the peer should receive for x of type t: nulls, elements and columns in
\* their places, without the dropped columns; text for what is not supported.
MeantOf(Nested(_, _, _), t, x, inRow) ==
    UnlessNull(
        LAMBDA v :
            CASE t.kind = "array" ->
                    [dims |-> v.dims,
                     elems |-> [i \in DOMAIN v.elems |-> Nested(t.elem, v.elems[i], inRow)]]
              [] t.kind = "row" /\ ~inRow ->
                    LET kept == Selected([i \in DOMAIN t.cols |-> i],
                                         {i \in DOMAIN t.cols : ~t.cols[i].dropped})
                    IN [j \in DOMAIN kept |->
                          Nested(t.cols[kept[j]].type, v[kept[j]], TRUE)]
              [] t.kind = "numeric" -> Float8(v)
              [] t.kind \in {"fixed", "bytea"} -> v
              [] OTHER -> Output(v),
        x)

Meant0(t, x, inRow) == MeantOf(LAMBDA s, y, u : y, t, x, inRow)
Meant1(t, x, inRow) == MeantOf(Meant0, t, x, inRow)
Meant2(t, x, inRow) == MeantOf(Meant1, t, x, inRow)
Meant(t, x) == MeantOf(Meant2, t, x, FALSE)

\* x but for the precision that its numerics lose.
RoundedOf(Nested(_, _, _), t, x, inRow) ==
    UnlessNull(
        LAMBDA v :
            CASE t.kind = "array" ->
                    [v EXCEPT !.elems = [i \in DOMAIN @ |-> Nested(t.elem, @[i], inRow)]]
              [] t.kind = "row" /\ ~inRow ->
                    [i \in DOMAIN v |-> Nested(t.cols[i].type, v[i], TRUE)]
              [] t.kind = "numeric" -> Float8(v)
              [] OTHER -> v,
        x)

Rounded0(t, x, inRow) == RoundedOf(LAMBDA s, y, u : y, t, x, inRow)
Rounded1(t, x, inRow) == RoundedOf(Rounded0, t, x, inRow)
Rounded2(t, x, inRow) == RoundedOf(Rounded1, t, x, inRow)
Rounded(t, x) == RoundedOf(Rounded2, t, x, FALSE)
=============================================================================
