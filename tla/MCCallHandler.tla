--------------------------- MODULE MCCallHandler ---------------------------
(* Small instances of CallHandler: the SQL of one call can replace all that  *)
(* the cache holds.                                                        *)
EXTENDS CallHandler

CONSTANTS f1, f2, f3, p1, p2, p3

MCFuncs == {f1, f2, f3}
MCPtrs == {p1, p2, p3}
MCTypesOf == [f \in MCFuncs |-> {}]
FewFuncs == {f1, f2}
FewPtrs == {p1, p2}
FewTypesOf == [f \in FewFuncs |-> {}]
MCVersions == {1, 2}
\* At most two for each call and one for the client.
MCContexts == 1..(2 * MaxDepth + 1)
=============================================================================
