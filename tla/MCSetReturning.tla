--------------------------- MODULE MCSetReturning ---------------------------
(* Two nodes that call functions of their own, in a cache that holds one:   *)
(* each call evicts the description of the other node.                     *)
EXTENDS SetReturning, TLC

CONSTANTS f1, f2, p1, p2, n1, n2

MCFuncs == {f1, f2}
MCTypesOf == [f \in MCFuncs |-> {}]
MCPtrs == {p1, p2}
MCNodes == {n1, n2}
MCFuncOf == (n1 :> f1) @@ (n2 :> f2)
MCVersions == {1, 2}
=============================================================================
