------------------------------ MODULE LruCache ------------------------------
(***************************************************************************)
(* What the function cache promises: it keeps the Size keys used last, most*)
(* recently used first.                                                    *)
(***************************************************************************)
EXTENDS Naturals, Sequences, Selection

CONSTANTS Keys, Size

VARIABLE recent

Others(k) == Selected(recent, Keys \ {k})

Init == recent = <<>>

\* k is used: it comes first, and the key used longest ago has to go when
\* there is no room for it.
UseKey(k) == recent' = SubSeq(<<k>> \o Others(k), 1,
                              IF Len(Others(k)) < Size
                              THEN Len(Others(k)) + 1 ELSE Size)

\* k was asked for and could not be loaded: it is not brought in, but counts
\* as used when it is there.
Touch(k) == /\ \E i \in 1..Len(recent) : recent[i] = k
            /\ recent' = <<k>> \o Others(k)

Next == \E k \in Keys : UseKey(k) \/ Touch(k)

Spec == Init /\ [][Next]_recent
=============================================================================
