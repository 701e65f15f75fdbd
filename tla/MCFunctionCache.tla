-------------------------- MODULE MCFunctionCache --------------------------
(* Four functions for a cache of three, one of them with a row type in its *)
(* signature; one spare address is all that get_proc_info ever needs.      *)
EXTENDS FunctionCache, TLC

CONSTANTS f1, f2, f3, f4, t1, p1, p2, p3, p4

MCFuncs == {f1, f2, f3, f4}
MCRowTypes == {t1}
MCTypesOf == (f1 :> {t1}) @@ (f2 :> {}) @@ (f3 :> {}) @@ (f4 :> {})
MCVersions == {1, 2}
MCPtrs == {p1, p2, p3, p4}
\* Addresses are interchangeable, and so are the functions without row type.
MCSymmetry == Permutations(MCPtrs) \cup Permutations({f2, f3, f4})
=============================================================================
