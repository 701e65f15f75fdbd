------------------------- MODULE MCResponseChannel -------------------------
(* A function f that returns a value of each class, once.  A character of  *)
(* Ascii has one byte, and e-acute has two.                                *)
EXTENDS ResponseChannel

MCName == <<<<102>>>>
Char(n) == <<n>>
EAcute == <<195, 169>>

MCLogLines == {<<17, <<<<Char(78)>>>>>>, <<20, <<<<>>>>>>}

\* 'N', 'D' and 'E' are among the bytes of the values.
Scalars == {
    Returns(Class("boolean", 0), <<<<1>>>>),
    Returns(Class("short", 0), <<Int16(-2)>>),
    Returns(Class("int", 0), <<Int32(78)>>),
    Returns(Class("long", 0), <<LittleEndian(69, 4) \o Int32(0)>>),
    Returns(Class("double", 0), <<Int32(0) \o Int32(68)>>),
    Returns(Class("String", 0), <<<<>>>>),
    Returns(Class("String", 0), <<<<Char(78), Char(69)>>>>),
    Returns(Class("byte", 1), <<<<0, 69, 255>>>>),
    Returns(Class("Object", 0), <<>>)
}

Arrays == {
    Returns(Class("int", 1), <<<<Int32(3), Int32(5)>>>>),
    Returns(Class("boolean", 2), <<<< <<<<<<0>>>>>>, <<<<<<1>>>>>> >>>>),
    Returns(Class("short", 2), <<<< <<<<Int16(1), Int16(2), Int16(3)>>>> >>>>),
    Returns(Class("float", 3), <<<< <<<< <<<<Int32(1), Int32(2)>>>> >>>>, <<<< <<<<Int32(3), Int32(4)>>>> >>>> >>>>)
}

Failures == {
    Raises(<<>>),
    Raises(<<<<Char(33)>>>>),
    Returns(Class("String", 1), <<<< <<<<Char(65)>>>> >>>>),
    Returns(Class("byte", 2), <<<< <<<<<<1>>>>>> >>>>)
}

Usual == Scalars \cup Arrays \cup Failures

\* What the theorems need of a function is so of this one.
ASSUME MCUsualFits ==
    /\ TextFits(<<MCName>>)
    /\ \A l \in MCLogLines : LineFits(l)
    /\ \A r \in Usual : OutcomeFits(r)

\* A text that is not ASCII, and an array without elements.
Unusual == {
    Returns(Class("String", 0), <<<<EAcute, Char(65)>>>>),
    Returns(Class("int", 1), <<<<>>>>)
}
=============================================================================
