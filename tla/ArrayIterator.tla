---------------------------- MODULE ArrayIterator ----------------------------
(***************************************************************************)
(* The iterator of plc_typeio.c through the elements of an array of        *)
(* PostgreSQL: plc_datum_as_array sets its position, and each call of      *)
(* plc_backend_array_next gives an element and moves on, in the bitmap of  *)
(* the nulls and in the data of the other elements.                        *)
(***************************************************************************)
EXTENDS Selection

\* A value with its null flag (rawdata); the SQL null.
Some(x) == [isnull |-> FALSE, value |-> x]
Null == [isnull |-> TRUE]

\* F of a value that is not null.
UnlessNull(F(_), x) == IF x.isnull THEN Null ELSE Some(F(x.value))

ByteBits == 8

NotNull(elems) == {elems[i] : i \in DOMAIN elems} \ {Null}

\* An array as it is stored: without nulls, or with a bitmap of those elements
\* that are not null, eight to a byte; only these take space.
Stored(elems) ==
    LET n == Len(elems) IN
    [bitmap |-> IF \A i \in 1..n : elems[i] # Null THEN <<>>
                ELSE [k \in 1..((n + ByteBits - 1) \div ByteBits) |->
                        [b \in 0..(ByteBits - 1) |->
                           LET i == ByteBits * (k - 1) + b + 1
                           IN i <= n /\ elems[i] # Null]],
     data |-> Selected(elems, NotNull(elems))]

\* The bitmap pointer with its mask, and the data pointer.
FirstPosition == [bitmap |-> 1, bit |-> 0, data |-> 1]

IsNullAt(array, pos) == array.bitmap # <<>> /\ ~array.bitmap[pos.bitmap][pos.bit]

\* Past an element that is not null.
NextData(array, pos) == IF IsNullAt(array, pos) THEN pos.data ELSE pos.data + 1

\* Mutant: the mask is not set back to the first bit of the next byte.
NextPositionSameMask(array, pos) ==
    [bitmap |-> IF array.bitmap # <<>> /\ pos.bit + 1 = ByteBits
                THEN pos.bitmap + 1 ELSE pos.bitmap,
     bit |-> IF array.bitmap = <<>> \/ pos.bit + 1 = ByteBits THEN pos.bit
             ELSE pos.bit + 1,
     data |-> NextData(array, pos)]

\* What plc_backend_array_next does to the iterator: the bitmap, if there is
\* one, is advanced by a bit, and so to the next byte after the last of them.
NextPosition(array, pos) ==
    [bitmap |-> IF array.bitmap # <<>> /\ pos.bit + 1 = ByteBits
                THEN pos.bitmap + 1 ELSE pos.bitmap,
     bit |-> IF array.bitmap = <<>> THEN pos.bit
             ELSE IF pos.bit + 1 = ByteBits THEN 0 ELSE pos.bit + 1,
     data |-> NextData(array, pos)]

\* The position after each number of calls.
Position(array) ==
    LET position[n \in Nat] ==
            IF n = 0 THEN FirstPosition ELSE NextPosition(array, position[n - 1])
    IN position

\* What plc_backend_array_next returns.
ItemAt(array, pos) == IF IsNullAt(array, pos) THEN Null ELSE array.data[pos.data]

\* The elements that n calls give, one after the other.
Items(array, n) == [i \in 1..n |-> ItemAt(array, Position(array)[i - 1])]
=============================================================================
