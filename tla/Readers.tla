------------------------------ MODULE Readers ------------------------------
(***************************************************************************)
(* Readers of a stream of bytes.  A reader looks at the bytes b that have  *)
(* arrived, of which the first at are read, and ends in one of three ways: *)
(* it is done and has got something; it has not enough bytes; or it throws *)
(* (Java), or raises an error (C).  It may have moved the reader index in  *)
(* each of them.  A reader that is handed to another one is a function of  *)
(* the places of b.                                                        *)
(***************************************************************************)
EXTENDS Integers, Sequences, SequencesExt

Done(at, got) == [is |-> "done", at |-> at, got |-> got]
Lacking(at) == [is |-> "lacking", at |-> at]
Throws(at) == [is |-> "throws", at |-> at]

\* What follows a reader that is done (through a function, so that TLC
\* evaluates r once).
Then(r, Next(_)) ==
    LET Continue[done \in {r}] == IF done.is = "done" THEN Next(done) ELSE done
    IN  Continue[r]

\* One more reader, and all of them in a row.
OneMore(r, reader) ==
    Then(r, LAMBDA done :
        Then(reader[done.at], LAMBDA item :
            Done(item.at, Append(done.got, item.got))))

EachUpTo(at, readers) ==
    LET upTo[n \in 0..Len(readers)] ==
            IF n = 0 THEN Done(at, <<>>) ELSE OneMore(upTo[n - 1], readers[n])
    IN  upTo

Each(at, readers) == EachUpTo(at, readers)[Len(readers)]

Times(n, reader) == [i \in 1..n |-> reader]

Places(b) == 0..Len(b)

Readable(b, at) == Len(b) - at

\* How many bytes the first n of these have.
LengthOf(parts, n) == Len(FlattenSeq(SubSeq(parts, 1, n)))

Slice(b, at, n) == SubSeq(b, at + 1, at + n)

\* n, or just more than limit: of things of at least one byte that have to be
\* there, limit bytes do not have that many.
Capped(n, limit) == IF n > limit THEN limit + 1 ELSE n

\* The elements of an array of these dimensions.
ElementsUpTo(dims, limit) ==
    LET upTo[n \in 0..Len(dims)] ==
            IF n = 0 THEN 1 ELSE Capped(upTo[n - 1] * dims[n], limit)
    IN  upTo

ElementCount(dims, limit) == ElementsUpTo(dims, limit)[Len(dims)]

\* The number of two or four bytes, in two's complement.
Signed(bytes) ==
    LET Top(byte) == IF byte < 128 THEN byte ELSE byte - 256 IN
    IF Len(bytes) = 2 THEN bytes[1] + 256 * Top(bytes[2])
    ELSE bytes[1] + 256 * bytes[2] + 65536 * bytes[3] + 16777216 * Top(bytes[4])
=============================================================================
