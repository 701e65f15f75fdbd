----------------------------- MODULE Selection -----------------------------
(***************************************************************************)
(* The elements of a sequence that belong to a set, in their order.  (What *)
(* SelectSeq does, as a function of the sequence and the set.)             *)
(***************************************************************************)
EXTENDS Naturals, Sequences

\* The selection from each prefix of s.
SelectedUpTo(s, T) ==
    LET upTo[n \in 0..Len(s)] ==
            IF n = 0 THEN <<>>
            ELSE IF s[n] \in T THEN Append(upTo[n - 1], s[n])
            ELSE upTo[n - 1]
    IN upTo

Selected(s, T) == SelectedUpTo(s, T)[Len(s)]
=============================================================================
