----------------------------- MODULE ByteStream -----------------------------
(***************************************************************************)
(* What a plcConn promises its callers: a reliable byte stream in each     *)
(* direction.  A byte is named by its position in the stream of the one    *)
(* who produced it, so "the bytes 0, 1, 2, ... in this order" is all there *)
(* is to say of a stream that loses, repeats and reorders nothing.         *)
(*                                                                         *)
(*   offered   how many bytes the callers asked to send                    *)
(*   sent      the bytes handed to the peer                                *)
(*   taken     the bytes of the peer's stream handed to the callers        *)
(***************************************************************************)
EXTENDS Naturals, Sequences

VARIABLES offered, sent, taken

streamVars == <<offered, sent, taken>>

\* t is s, followed by the bytes that come next in the stream.
Continues(s, t) ==
    /\ Len(t) >= Len(s)
    /\ \A i \in 1..Len(s) : t[i] = s[i]
    /\ \A i \in (Len(s) + 1)..Len(t) : t[i] = i - 1

Init ==
    /\ offered = 0
    /\ sent = <<>>
    /\ taken = <<>>

\* A new connection starts new streams.
Open ==
    /\ offered' = 0
    /\ sent' = <<>>
    /\ taken' = <<>>

Offer ==
    /\ offered' \in Nat
    /\ offered' > offered
    /\ UNCHANGED <<sent, taken>>

\* Only what was offered is sent, and in the order it was offered.
Transmit ==
    /\ Continues(sent, sent')
    /\ Len(sent') <= offered
    /\ UNCHANGED <<offered, taken>>

Take ==
    /\ Continues(taken, taken')
    /\ UNCHANGED <<offered, sent>>

Next == Open \/ Offer \/ Transmit \/ Take

Spec == Init /\ [][Next]_streamVars
=============================================================================
