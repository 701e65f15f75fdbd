--------------------------- MODULE MessageReader ---------------------------
(***************************************************************************)
(* How the backend reads the messages of its peer: the receive functions of*)
(* comm_channel.c.  A function that lacks bytes waits for them in recv();  *)
(* here it is lacking, and is read again from its beginning.               *)
(*                                                                         *)
(* A char* is a sequence of at most one element.                           *)
(***************************************************************************)
EXTENDS WireFormat, Readers

ReadByte(b, at) ==
    IF Readable(b, at) < 1 THEN Lacking(at) ELSE Done(at + 1, b[at + 1])

\* receive_int16, receive_int32
ReadInt(b, at, width) ==
    IF Readable(b, at) < width THEN Lacking(at)
    ELSE Done(at + width, Signed(Slice(b, at, width)))

\* receive_raw
ReadRaw(b, at, n) ==
    IF Readable(b, at) < n THEN Lacking(at) ELSE Done(at + n, <<Slice(b, at, n)>>)

\* receive_cstring.  A length below -1 is more than palloc gives.
ReadCString(b, at) ==
    Then(ReadInt(b, at, 4), LAMBDA cnt :
        IF cnt.got = -1 THEN Done(cnt.at, <<>>)
        ELSE IF cnt.got < -1 THEN Throws(cnt.at)
        ELSE ReadRaw(b, cnt.at, cnt.got))

\* receive_bytea, which allocates four bytes more than the length: from -4 on
\* palloc gives a block, and nothing is read into it.
ReadBytea(b, at) ==
    Then(ReadInt(b, at, 4), LAMBDA len :
        IF len.got < -4 THEN Throws(len.at)
        ELSE ReadRaw(b, len.at, IF len.got < 0 THEN 0 ELSE len.got))

DataTypeOf(byte) ==
    IF byte + 1 \in DOMAIN DataTypes THEN DataTypes[byte + 1] ELSE "invalid"

\* The reader of what lies deeper than types nest here.
Unread(b) == [at \in Places(b) |-> Throws(at)]

\* receive_type, by the reader of a subtype
ReadSubTypes(b, at, subType) ==
    Then(ReadInt(b, at, 2), LAMBDA count :
        Each(count.at, Times(Capped(count.got, Readable(b, count.at)), subType)))

ReadTypeBy(b, at, subType) ==
    Then(ReadByte(b, at), LAMBDA typ :
        Then(ReadCString(b, typ.at), LAMBDA name :
            Then(IF Composite(DataTypeOf(typ.got)) THEN ReadSubTypes(b, name.at, subType)
                 ELSE Done(name.at, <<>>), LAMBDA sub :
                Done(sub.at, [data |-> DataTypeOf(typ.got), name |-> name.got,
                              sub |-> sub.got]))))

TypeReader(b, subType) == [at \in Places(b) |-> ReadTypeBy(b, at, subType)]

\* The function calls itself; here (bound) types nest three deep.
FlatTypes(b) == TypeReader(b, Unread(b))
ReadType(b, at) == ReadTypeBy(b, at, TypeReader(b, TypeReader(b, FlatTypes(b))))

-----------------------------------------------------------------------------
(* Values.                                                                 *)

\* receive_udt
ReadUdt(at, columns) ==
    Then(Each(at, columns), LAMBDA read : Done(read.at, <<read.got>>))

\* receive_array takes no array for an item; an item of any other type is read
\* like an object.
ReadItem(b, at, t, object) ==
    IF t.data # "array" THEN object[at] ELSE
    Then(ReadByte(b, at), LAMBDA isnull :
        IF isnull.got = CharN THEN Done(isnull.at, <<>>) ELSE Throws(isnull.at))

SizeOf(b, at, dims) ==
    IF dims = <<>> THEN 0 ELSE ElementCount(dims, Readable(b, at))

ReadItems(b, at, t, dims, object) ==
    LET items == [from \in Places(b) |-> ReadItem(b, from, t, object)]
    IN  Then(Each(at, Times(SizeOf(b, at, dims), items)), LAMBDA read :
            Done(read.at, <<[dims |-> dims, items |-> read.got]>>))

IntReader(b) == [at \in Places(b) |-> ReadInt(b, at, 4)]

\* receive_array
ReadArray(b, at, t, objects) ==
    IF t.sub = <<>> THEN Throws(at) ELSE
    Then(ReadInt(b, at, 4), LAMBDA ndims :
        Then(Each(ndims.at, Times(Capped(ndims.got, Readable(b, ndims.at)), IntReader(b))),
             LAMBDA dims : ReadItems(b, dims.at, t.sub[1], dims.got, objects[1])))

\* objects has a reader for each subtype of t.
ReadNonNull(b, at, t, objects) ==
    CASE t.data \in DOMAIN Width -> ReadRaw(b, at, Width[t.data])
      [] t.data = "text" -> ReadCString(b, at)
      [] t.data = "bytea" -> ReadBytea(b, at)
      [] t.data = "array" -> ReadArray(b, at, t, objects)
      [] t.data = "udt" -> ReadUdt(at, objects)
      [] OTHER -> Throws(at)

\* receive_raw_object
ReadObjectBy(b, at, t, objects) ==
    Then(ReadByte(b, at), LAMBDA isnull :
        IF isnull.got = CharN THEN Done(isnull.at, <<>>)
        ELSE ReadNonNull(b, isnull.at, t, objects))

ObjectReader(b, t, objects) == [at \in Places(b) |-> ReadObjectBy(b, at, t, objects)]

\* As deep as types nest.
FlatObjects(b, t) == ObjectReader(b, t, [i \in DOMAIN t.sub |-> Unread(b)])
NestedObjects(b, t) ==
    ObjectReader(b, t, [i \in DOMAIN t.sub |-> FlatObjects(b, t.sub[i])])
DeepObjects(b, t) ==
    ObjectReader(b, t, [i \in DOMAIN t.sub |-> NestedObjects(b, t.sub[i])])
Objects(b, t) ==
    ObjectReader(b, t, [i \in DOMAIN t.sub |-> DeepObjects(b, t.sub[i])])

-----------------------------------------------------------------------------
(* Messages.                                                               *)

LogMessage(level, text) == [kind |-> "log", level |-> level, text |-> text]

ErrorMessage(text, stacktrace) ==
    [kind |-> "exception", text |-> text, stacktrace |-> stacktrace]

ResultMessage(types, names, rows) ==
    [kind |-> "result", types |-> types, names |-> names, rows |-> rows]

\* receive_exception
ReadException(b, at) ==
    Then(ReadCString(b, at), LAMBDA text :
        Then(ReadCString(b, text.at), LAMBDA trace :
            Done(trace.at, ErrorMessage(text.got, trace.got))))

\* receive_log
ReadLog(b, at) ==
    Then(ReadInt(b, at, 4), LAMBDA level :
        Then(ReadCString(b, level.at), LAMBDA text :
            Done(text.at, LogMessage(level.got, text.got))))

\* The type and the name of a column.
ReadColumn(b, at) ==
    Then(ReadType(b, at), LAMBDA type :
        Then(ReadCString(b, type.at), LAMBDA name :
            Done(name.at, <<type.got, name.got>>)))

ColumnReader(b) == [at \in Places(b) |-> ReadColumn(b, at)]

\* The columns of a row; a row without columns takes no bytes.
RowReader(b, columns) ==
    LET objects == [j \in DOMAIN columns |-> Objects(b, columns[j][1])]
    IN  [at \in Places(b) |-> Each(at, objects)]

ReadRows(b, at, n, columns) ==
    Each(at, Times(IF columns = <<>> THEN n ELSE Capped(n, Readable(b, at)),
                   RowReader(b, columns)))

\* The last byte of a result says whether an exception follows that takes its
\* place.
ReadEnd(b, at, columns, rows) ==
    Then(ReadByte(b, at), LAMBDA exc :
        IF exc.got = CharE THEN ReadException(b, exc.at)
        ELSE Done(exc.at, ResultMessage([j \in DOMAIN columns |-> columns[j][1]],
                                        [j \in DOMAIN columns |-> columns[j][2]],
                                        rows)))

\* receive_result.  palloc gives no memory for less than no columns.
ReadResult(b, at) ==
    Then(ReadInt(b, at, 4), LAMBDA rows :
        Then(ReadInt(b, rows.at, 4), LAMBDA cols :
            IF cols.got < 0 THEN Throws(cols.at) ELSE
            Then(Each(cols.at, Times(Capped(cols.got, Readable(b, cols.at)),
                                     ColumnReader(b))), LAMBDA columns :
                Then(ReadRows(b, columns.at, rows.got, columns.got), LAMBDA data :
                    ReadEnd(b, data.at, columns.got, data.got)))))

\* pljvm_channel_receive.  The messages that this peer never sends are errors.
ReadMessage(b, at) ==
    Then(ReadByte(b, at), LAMBDA type :
        CASE type.got = CharR -> ReadResult(b, type.at)
          [] type.got = CharE -> ReadException(b, type.at)
          [] type.got = CharL -> ReadLog(b, type.at)
          [] OTHER -> Throws(type.at))
=============================================================================
