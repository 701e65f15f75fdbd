--------------------------- MODULE RequestReader ---------------------------
(***************************************************************************)
(* How the Java server reads the parts of a request: Util.readString,      *)
(* Type.getInstance and Argument.readArgument with the getInstance of every*)
(* argument class.                                                         *)
(***************************************************************************)
EXTENDS WireFormat, Readers

\* A reader whose caller does not check for null.
NotNull(r) == IF r.is = "lacking" THEN Throws(r.at) ELSE r

\* The reader of what lies deeper than types nest here.
Unread(b) == [at \in Places(b) |-> Throws(at)]

\* readIntLE, readShortLE: these throw when the bytes are not there.
ReadInt(b, at, width) ==
    IF Readable(b, at) < width THEN Throws(at)
    ELSE Done(at + width, Signed(Slice(b, at, width)))

\* A name that is empty is set to null.
Name(bytes) == IF bytes = <<>> THEN <<>> ELSE <<bytes>>

\* Util.readString.  When the length has arrived and the string has not, the
\* length has been read all the same.
ReadString(b, at) ==
    IF Readable(b, at) < 4 THEN Lacking(at) ELSE
    Then(ReadInt(b, at, 4), LAMBDA len :
        IF len.got < 0 THEN Done(len.at, <<>>)
        ELSE IF Readable(b, len.at) < len.got THEN Lacking(len.at)
        ELSE Done(len.at + len.got, Name(Slice(b, len.at, len.got))))

-----------------------------------------------------------------------------
(* Type.getInstance(ByteBuf).                                              *)

ReadTypeName(b, at) ==
    IF Readable(b, at) < 4 THEN Lacking(at) ELSE
    Then(ReadInt(b, at, 4), LAMBDA len :
        IF len.got <= 0 THEN Done(len.at, <<>>)
        ELSE IF Readable(b, len.at) < len.got THEN Lacking(len.at)
        ELSE Done(len.at + len.got, Name(Slice(b, len.at, len.got))))

\* The subtypes, by the reader of one.
ReadSubTypes(b, at, subType) ==
    IF Readable(b, at) < 2 THEN Lacking(at) ELSE
    Then(ReadInt(b, at, 2), LAMBDA count :
        IF count.got < 0 THEN Throws(count.at)
        ELSE Each(count.at, Times(Capped(count.got, Readable(b, count.at)), subType)))

ReadTypeBy(b, at, subType) ==
    IF Readable(b, at) < 1 THEN Lacking(at)
    ELSE IF b[at + 1] + 1 \notin DOMAIN DataTypes THEN Throws(at + 1)
    ELSE
    LET data == DataTypes[b[at + 1] + 1] IN
    Then(ReadTypeName(b, at + 1), LAMBDA name :
        Then(IF Composite(data) THEN ReadSubTypes(b, name.at, subType)
             ELSE Done(name.at, <<>>), LAMBDA sub :
            Done(sub.at, [data |-> data, name |-> name.got, sub |-> sub.got])))

TypeReader(b, subType) == [at \in Places(b) |-> ReadTypeBy(b, at, subType)]

\* The method calls itself; here (bound) types nest three deep.
FlatTypes(b) == TypeReader(b, Unread(b))
ReadType(b, at) == ReadTypeBy(b, at, TypeReader(b, TypeReader(b, FlatTypes(b))))

-----------------------------------------------------------------------------
(* Argument.readArgument.  The getInstance of a class returns null when    *)
(* bytes are lacking, and readArgument(type, name, byteBuf) uses what it   *)
(* returns at once: whatever is lacking of a value, it throws.             *)

ReadBytes(b, at, n) ==
    IF Readable(b, at) < n THEN Lacking(at) ELSE Done(at + n, <<Slice(b, at, n)>>)

\* StringArgument and ByteArrayArgument: a negative length throws.
ReadSized(b, at) ==
    Then(ReadInt(b, at, 4), LAMBDA len :
        IF len.got < 0 THEN Throws(len.at) ELSE ReadBytes(b, len.at, len.got))

\* ArrayArgument takes up to three dimensions, and Array.set takes no null for
\* an element of a primitive type.  Three dimensions are always of int.
Storable(t, ndims, item) ==
    IF ndims = 3 THEN t.data \in {"int2", "int4"} /\ item # <<>>
    ELSE t.data # "array" /\ (t.data \in DOMAIN Width => item # <<>>)

\* An element, by the reader of one.
ReadItem(t, ndims, item) ==
    Then(item, LAMBDA read :
        IF Storable(t, ndims, read.got) THEN read ELSE Throws(read.at))

ReadItems(b, at, t, dims, item) ==
    LET items == [from \in Places(b) |-> ReadItem(t, Len(dims), item[from])]
    IN  Then(Each(at, Times(ElementCount(dims, Readable(b, at)), items)), LAMBDA read :
            Done(read.at, <<[dims |-> dims, items |-> read.got]>>))

IntReader(b) == [at \in Places(b) |-> ReadInt(b, at, 4)]

ReadArray(b, at, t, items) ==
    IF t.sub = <<>> THEN Throws(at) ELSE
    Then(ReadInt(b, at, 4), LAMBDA ndims :
        IF ndims.got \notin 1..3 THEN Throws(ndims.at) ELSE
        Then(Each(ndims.at, Times(ndims.got, IntReader(b))), LAMBDA dims :
            IF \E i \in DOMAIN dims.got : dims.got[i] < 0 THEN Throws(dims.at)
            ELSE ReadItems(b, dims.at, t.sub[1], dims.got, items[1])))

\* Mutant: every null is an empty value.
ReadNullAsEmpty(at, t) ==
    IF t.data = "array" THEN Throws(at) ELSE Done(at, <<<<>>>>)

\* What a null is for the argument class: ArrayArgument(name, null) throws,
\* and ByteArrayArgument makes an empty array of it.
ReadNull(at, t) ==
    IF t.data = "array" THEN Throws(at)
    ELSE Done(at, IF t.data = "bytea" THEN <<<<>>>> ELSE <<>>)

\* UDTArgument: the columns, each of the type that came with the row type.
ReadRow(at, columns) ==
    Then(Each(at, columns), LAMBDA read : Done(read.at, <<read.got>>))

\* subs has a reader for each subtype of t.
ReadNonNull(b, at, t, subs) ==
    CASE t.data \in DOMAIN Width -> ReadBytes(b, at, Width[t.data])
      [] t.data \in {"text", "bytea"} -> ReadSized(b, at)
      [] t.data = "array" -> ReadArray(b, at, t, subs)
      [] t.data = "udt" -> ReadRow(at, subs)

ReadValueBy(b, at, t, subs) ==
    NotNull(IF Readable(b, at) < 1 THEN Lacking(at)
            ELSE IF b[at + 1] # CharD THEN ReadNull(at + 1, t)
            ELSE ReadNonNull(b, at + 1, t, subs))

ValueReader(b, t, subs) == [at \in Places(b) |-> ReadValueBy(b, at, t, subs)]

\* As deep as types nest.
FlatValues(b, t) == ValueReader(b, t, [i \in DOMAIN t.sub |-> Unread(b)])
NestedValues(b, t) ==
    ValueReader(b, t, [i \in DOMAIN t.sub |-> FlatValues(b, t.sub[i])])
DeepValues(b, t) ==
    ValueReader(b, t, [i \in DOMAIN t.sub |-> NestedValues(b, t.sub[i])])
ReadValue(b, at, t) ==
    ReadValueBy(b, at, t, [i \in DOMAIN t.sub |-> DeepValues(b, t.sub[i])])

\* Argument.readArgument(byteBuf)
ReadArgument(b, at) ==
    Then(ReadString(b, at), LAMBDA name :
        Then(ReadType(b, name.at), LAMBDA type :
            Then(ReadValue(b, type.at, type.got), LAMBDA value :
                Done(value.at, [name |-> name.got, type |-> type.got,
                                value |-> value.got]))))
=============================================================================
