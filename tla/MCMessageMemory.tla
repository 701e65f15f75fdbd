-------------------------- MODULE MCMessageMemory --------------------------
(* Scalars; arrays of up to nine elements, one more than a byte of the      *)
(* bitmap; rows with arrays, rows and dropped columns; arrays of rows.      *)
EXTENDS MessageMemory, TLC

Fixed == Scalar("fixed")
Numeric == Scalar("numeric")
Text == Scalar("text")
Bytea == Scalar("bytea")

PairRow == RowOf(<<Column(Text), Column(Fixed)>>)
ArrayRow == RowOf(<<Column(ArrayOf(Bytea)), Column(ArrayOf(Fixed))>>)
NestedRow == RowOf(<<Column(PairRow), Column(ArrayOf(PairRow))>>)
DroppedRow == RowOf(<<Column(Fixed), DroppedColumn, Column(Text)>>)

Empty == [dims |-> <<>>, elems |-> <<>>]

\* The values of s, and Null.
OrNull(s) == {Some(v) : v \in s} \cup {Null}

\* Arrays of one, two and two by one elements, any of them null.
Small(s) ==
    {Empty} \cup {[dims |-> <<1>>, elems |-> <<x>>] : x \in OrNull(s)}
            \cup {[dims |-> d, elems |-> <<x, y>>] :
                     d \in {<<2>>, <<2, 1>>}, x \in OrNull(s), y \in OrNull(s)}

\* Arrays of nine elements, with nulls around the end of the first byte.
Nine ==
    {[dims |-> <<9>>, elems |-> [i \in 1..9 |-> IF i \in nulls THEN Null ELSE Some(i)]] :
        nulls \in {{}, {1}, {8}, {9}, {8, 9}, {1, 9}, 2..9}}

Rows(s, t) == {<<x, y>> : x \in OrNull(s), y \in OrNull(t)}

\* Rows with a dropped column in the middle.
Gaps(s, t) == {<<x, Null, y>> : x \in OrNull(s), y \in OrNull(t)}

One == {[dims |-> <<1>>, elems |-> <<x>>] : x \in OrNull({1})}

TwoRows == [dims |-> <<2>>, elems |-> <<Some(<<Some(1), Null>>), Null>>]

MCValuesOf ==
    (Fixed :> {1}) @@ (Numeric :> {2, 3}) @@ (Text :> {1}) @@ (Bytea :> {1})
    @@ (ArrayOf(Fixed) :> Small({1, 2}) \cup Nine)
    @@ (ArrayOf(Numeric) :> Small({2, 3}))
    @@ (ArrayOf(Text) :> Small({1, 2}) \cup Nine)
    @@ (ArrayOf(Bytea) :> Small({1}))
    @@ (PairRow :> Rows({1, 2}, {1}))
    @@ (ArrayRow :> Rows(One \cup {Empty}, One))
    @@ (NestedRow :> Rows({<<Some(1), Some(2)>>}, {TwoRows}))
    @@ (DroppedRow :> Gaps({1}, {2}))
    @@ (ArrayOf(PairRow) :> Small({<<Some(1), Some(2)>>, <<Null, Some(1)>>}))
    @@ (ArrayOf(ArrayRow) :> Small(Rows(One, {Empty})))
    @@ (ArrayOf(DroppedRow) :> Small(Gaps({1}, {2})))

MCArgTypes == DOMAIN MCValuesOf
MCResultTypes == MCArgTypes \ {DroppedRow, ArrayOf(DroppedRow)}
MCColumnTypes == {Fixed, Numeric, Text, Bytea, PairRow, DroppedRow}
=============================================================================
