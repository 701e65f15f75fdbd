-------------------------- MODULE MCRequestDecoder --------------------------
(* Short requests with every kind of argument.  The last request of a      *)
(* session may have arguments, and only the last one: the decoder reads    *)
(* nothing after it.  A null or empty array is left out (ArrayArgument     *)
(* throws), and so is a null bytea (it arrives as an empty one).           *)
EXTENDS RequestDecoder

Scalar(data) == [data |-> data, name |-> <<<<116>>>>, sub |-> <<>>]
Unnamed(data) == [data |-> data, name |-> <<>>, sub |-> <<>>]
ArrayOf(t) == [data |-> "array", name |-> <<<<>>>>, sub |-> <<t>>]
RowOf(ts) == [data |-> "udt", name |-> <<<<117>>>>, sub |-> ts]

Arg(name, type, value) == [name |-> name, type |-> type, value |-> value]

\* f(args), with the source g.f; the letters of names are small numbers and
\* big ones, so that bytes read as a length give lengths of all sizes.
Request(ret, changed, args) ==
    [name |-> <<<<2>>>>, src |-> <<<<103, 46>>>>, oid |-> 300,
     hasChanged |-> changed, retType |-> ret, retset |-> 0, args |-> args]

NoArgs == Request(Scalar("int4"), 1, <<>>)

ArgLists == {
    << Arg(<<>>, Unnamed("int4"), <<Int32(-2)>>), Arg(<<<<97>>>>, Scalar("text"), <<<<>>>>) >>,
    << Arg(<<<<97, 98>>>>, Scalar("text"), <<<<1, 104>>>>), Arg(<<>>, Scalar("int1"), <<>>) >>,
    << Arg(<<<<>>>>, Scalar("bytea"), <<<<0, 255>>>>), Arg(<<>>, Unnamed("int2"), <<Int16(7)>>) >>,
    << Arg(<<>>, ArrayOf(Unnamed("int2")), <<[dims |-> <<2, 1>>, items |-> <<<<Int16(1)>>, <<Int16(2)>>>>]>>) >>,
    << Arg(<<>>, ArrayOf(Unnamed("text")), <<[dims |-> <<2>>, items |-> <<<<>>, <<<<100>>>>>>]>>) >>,
    << Arg(<<<<114>>>>, RowOf(<<Unnamed("int1"), Scalar("text")>>), <<<< <<<<1>>>>, <<>> >>>>) >>,
    << Arg(<<>>, RowOf(<<ArrayOf(Unnamed("int1"))>>),
           <<<< <<[dims |-> <<1>>, items |-> <<<<<<0>>>>>>]>> >>>>) >>
}

MCSessions ==
    {<<NoArgs, Request(Unnamed("int1"), 0, args)>> : args \in ArgLists}
    \cup {<<Request(ArrayOf(Scalar("text")), 1, args)>> : args \in ArgLists}
    \cup {<<NoArgs, Request(RowOf(<<Scalar("int4")>>), 0, <<>>), NoArgs>>}

\* They are sessions that the theorems about the decoder are about.
ASSUME MCSessionsAssumption == \A session \in MCSessions : SessionFits(session)
=============================================================================
