--------------------------- MODULE ResponseWriter ---------------------------
(***************************************************************************)
(* The bytes of the Java server's messages: PLJVMServerEncoder, with the   *)
(* Type.getInstance(Class) that tells the type of a result.                *)
(*                                                                         *)
(* A class is the element at its core and how many times it is an array of *)
(* it; int is Integer where it is no array.  A reference that may be null  *)
(* is a sequence of at most one element.  A value is, for a scalar or a    *)
(* byte[], its bytes; for a String, its characters, each with its bytes in *)
(* the default charset; for an array, its elements: bytes in the innermost *)
(* dimension, references to arrays in the others.                          *)
(***************************************************************************)
EXTENDS WireFormat

Class(elem, ndims) == [elem |-> elem, ndims |-> ndims]

\* Something the code does may throw; then there is nothing.
Failed == <<>>
Ok(x) == <<x>>

\* What a sequence of writes writes.
Joined(parts) ==
    IF \E i \in DOMAIN parts : parts[i] = Failed THEN Failed
    ELSE Ok(FlattenSeq([i \in DOMAIN parts |-> parts[i][1]]))

-----------------------------------------------------------------------------
(* Types.                                                                  *)

Primitive == [boolean |-> "int1", short |-> "int2", int |-> "int4",
              long |-> "int8", float |-> "float4", double |-> "float8"]

\* A Type whose name the constructor sets: each has one of its own.
NewType(data, sub) ==
    [data |-> data, name |-> <<<<65 + Ordinal(data)>>>>, sub |-> sub]

\* getArryTypeFromClass with getInstance: of the arrays of objects it looks for
\* a class Ljava.lang.String; and the like, and finds none.
ElementType(class) ==
    IF class.elem \in DOMAIN Primitive
    THEN Ok(NewType(Primitive[class.elem], <<>>)) ELSE Failed

\* Type.getInstance(Class)
TypeOf(class) ==
    CASE class.ndims = 0 /\ class.elem \in DOMAIN Primitive ->
           Ok(NewType(Primitive[class.elem], <<>>))
      [] class = Class("String", 0) -> Ok(NewType("text", <<>>))
      [] class = Class("byte", 1) -> Ok(NewType("bytea", <<>>))
      [] class.ndims > 0 /\ class # Class("byte", 1) ->
           IF ElementType(class) = Failed THEN Failed
           ELSE Ok(NewType("array", ElementType(class)))
      [] OTHER -> Ok(NewType("udt", <<>>))

-----------------------------------------------------------------------------
(* PLJVMServerEncoder.                                                     *)

\* sendString: the length is that of the String, in characters.
StringBytes(s) ==
    IF s = <<>> THEN Int32(-1) ELSE Int32(Len(s[1])) \o FlattenSeq(s[1])

\* sendType: the subtypes are written flat, and when there are any.
JavaTypeBytes(t) ==
    LET Named(u) == <<Ordinal(u.data)>> \o CString(u.name) IN
    Named(t) \o IF t.sub = <<>> THEN <<>>
               ELSE Int16(Len(t.sub))
                    \o FlattenSeq([i \in DOMAIN t.sub |-> Named(t.sub[i])])

\* The first array in each dimension, the array itself being that of the first
\* one: a reference, that may be null; null too where there is no such array.
Firsts(array, ndims) ==
    LET first[k \in 1..ndims] ==
            IF k = 1 THEN <<array>>
            ELSE IF first[k - 1] = <<>> THEN <<>>
            ELSE IF first[k - 1][1] = <<>> THEN <<>>
            ELSE first[k - 1][1][1]
    IN  first

\* getDimensions looks at the first element in each dimension, also where
\* there is none, or a null.
Measurable(array, ndims) ==
    \A k \in 1..ndims : LET first == Firsts(array, ndims)[k] IN
                        first # <<>> /\ first[1] # <<>>

\* Mutant: the dimensions are written from the innermost one outwards.
DimensionsInsideOut(array, ndims) ==
    IF ~Measurable(array, ndims) THEN Failed
    ELSE Ok([k \in 1..ndims |-> Len(Firsts(array, ndims)[ndims + 1 - k][1])])

Dimensions(array, ndims) ==
    IF ~Measurable(array, ndims) THEN Failed
    ELSE Ok([k \in 1..ndims |-> Len(Firsts(array, ndims)[k][1])])

\* What is in each dimension, in the order of sendArrayFlat: references to
\* arrays, and in the last one elements.
Inside(refs) ==
    FlattenSeq([i \in DOMAIN refs |-> IF refs[i] = <<>> THEN <<>> ELSE refs[i][1]])

Levels(array, ndims) ==
    LET level[k \in 1..ndims] == IF k = 1 THEN array ELSE Inside(level[k - 1])
    IN  level

Elements(array, ndims) == Levels(array, ndims)[ndims]

\* An array in it is null.
HasNull(array, ndims) ==
    \E k \in 1..(ndims - 1) : \E i \in DOMAIN Levels(array, ndims)[k] :
        Levels(array, ndims)[k][i] = <<>>

\* sendArrayFlat: the elements of an array are primitives, never null.
FlatBytes(array, ndims) ==
    IF HasNull(array, ndims) THEN Failed ELSE
    LET elements == Elements(array, ndims) IN
    Ok(FlattenSeq([i \in DOMAIN elements |-> <<CharD>> \o elements[i]]))

\* sendArray
ArrayBytes(array, ndims) ==
    IF Dimensions(array, ndims) = Failed THEN Failed ELSE
    LET dims == Dimensions(array, ndims)[1] IN
    Joined(<<Ok(Int32(Len(dims))),
             Ok(FlattenSeq([i \in DOMAIN dims |-> Int32(dims[i])])),
             FlatBytes(array, ndims)>>)

\* sendObject; of a row type it writes that there is one.
ObjectBytes(class, t, v) ==
    IF v = <<>> THEN Ok(<<CharN>>) ELSE
    Joined(<<Ok(<<CharD>>),
        CASE t.data \in DOMAIN Width -> Ok(v[1])
          [] t.data = "text" -> Ok(StringBytes(v))
          [] t.data = "bytea" -> Ok(Int32(Len(v[1])) \o v[1])
          [] t.data = "array" -> ArrayBytes(v[1], class.ndims)
          [] t.data = "udt" -> Ok(<<>>)>>)

\* sendLogResponse
LogBytes(level, text) == <<CharL>> \o Int32(level) \o StringBytes(text)

\* sendExceptionResponse
ExceptionBytes(text, stacktrace) ==
    <<CharE>> \o StringBytes(text) \o StringBytes(stacktrace)

\* The type of a result: JVMCallHandler.sendCallResponse.
ResultType(class, v) ==
    IF v = <<>> THEN Ok(NewType("text", <<>>)) ELSE TypeOf(class)

\* Mutant: the byte that says that no exception follows is not written.
ResultBytesUnended(name, class, v) ==
    LET t == ResultType(class, v)[1] IN
    Joined(<<Ok(<<CharR>> \o Int32(1) \o Int32(1) \o JavaTypeBytes(t)
                \o StringBytes(<<name>>)),
             ObjectBytes(class, t, v)>>)

\* sendCallResponse of the encoder: one row of one column, named like the
\* function.
ResultBytes(name, class, v) ==
    LET t == ResultType(class, v)[1] IN
    Joined(<<Ok(<<CharR>> \o Int32(1) \o Int32(1) \o JavaTypeBytes(t)
                \o StringBytes(<<name>>)),
             ObjectBytes(class, t, v),
             Ok(<<CharN>>)>>)
=============================================================================
