---------------------------- MODULE SetReturning ----------------------------
(***************************************************************************)
(* The set-returning functions of one backend: pljvm_call_hook of pljvm.c, *)
(* called once for each row.                                               *)
(*                                                                         *)
(* The executor evaluates a node of the plan once for each of its inputs;  *)
(* an evaluation is a series of calls of the handler, which keeps the      *)
(* result of the peer in fn_extra of the node in between.  Several nodes   *)
(* take turns, and every call of them looks its description up again, in   *)
(* the cache of FunctionCache.  Between the request of an evaluation and   *)
(* its result other functions are called, by SQL of the peer; of these     *)
(* calls only the lookups count here, CallHandler has the rest.            *)
(***************************************************************************)
EXTENDS FunctionCache

CONSTANTS
    Nodes,     \* the nodes of the plan that call set-returning functions
    FuncOf,    \* FuncOf[n]: the function node n calls
    Nobody,    \* no node
    MaxRows,   \* bound: rows of a result
    MaxEvals   \* bound: evaluations of a node

ASSUME SetAssumption ==
    /\ FuncOf \in [Nodes -> Funcs]
    /\ Nobody \notin Nodes
    /\ MaxRows \in Nat
    /\ MaxEvals \in Nat

VARIABLES
    fnExtra,   \* the FuncCallContext of each node, or NoFuncContext
    eval,      \* the evaluation each node is at
    fetching,  \* the evaluation has given a row and may give more
    given,     \* the row each node gave last: of which evaluation, which one
    answered,  \* the last request sent for each node, and the rows it brought
    waiting    \* the node whose request has not been answered yet, or Nobody

setVars == <<fnExtra, eval, fetching, given, answered, waiting>>
setAllVars == <<cacheVars, catalogVars, setVars>>

NoFuncContext == <<>>

\* user_fctx is NULL: there is no result yet, or plcConnect has failed.
NoResult == MaxRows + 1
RowCounts == 0..MaxRows

-----------------------------------------------------------------------------

\* The evaluation that a call of the handler for node n belongs to.
EvalOf(n) == IF fetching[n] THEN eval[n] ELSE eval[n] + 1

\* Mutant: resrow is compared with rows as if it were the number of a row.
ReturnRowPast(n, ctx) ==
    IF ctx.rows = NoResult
    THEN /\ fnExtra' = [fnExtra EXCEPT ![n] = ctx]
         /\ fetching' = [fetching EXCEPT ![n] = FALSE]
         /\ UNCHANGED given
    ELSE IF ctx.resrow > ctx.rows
    THEN /\ fnExtra' = [fnExtra EXCEPT ![n] = NoFuncContext]
         /\ fetching' = [fetching EXCEPT ![n] = FALSE]
         /\ UNCHANGED given
    ELSE /\ fnExtra' = [fnExtra EXCEPT ![n] = [ctx EXCEPT !.resrow = @ + 1]]
         /\ fetching' = [fetching EXCEPT ![n] = TRUE]
         /\ given' = [given EXCEPT ![n] = [eval |-> ctx.eval, row |-> ctx.resrow + 1]]

\* Mutant: resrow stays as it is.
ReturnRowForEver(n, ctx) ==
    /\ fnExtra' = [fnExtra EXCEPT ![n] = ctx]
    /\ fetching' = [fetching EXCEPT ![n] = TRUE]
    /\ given' = [given EXCEPT ![n] = [eval |-> ctx.eval, row |-> ctx.resrow + 1]]

\* What a call does with the result: NULL without one, which the executor takes
\* for the only row; SRF_RETURN_DONE after the last row, with the end of the
\* context; or the next row.
ReturnRow(n, ctx) ==
    IF ctx.rows = NoResult
    THEN /\ fnExtra' = [fnExtra EXCEPT ![n] = ctx]
         /\ fetching' = [fetching EXCEPT ![n] = FALSE]
         /\ UNCHANGED given
    ELSE IF ctx.resrow >= ctx.rows
    THEN /\ fnExtra' = [fnExtra EXCEPT ![n] = NoFuncContext]
         /\ fetching' = [fetching EXCEPT ![n] = FALSE]
         /\ UNCHANGED given
    ELSE /\ fnExtra' = [fnExtra EXCEPT ![n] = [ctx EXCEPT !.resrow = @ + 1]]
         /\ fetching' = [fetching EXCEPT ![n] = TRUE]
         /\ given' = [given EXCEPT ![n] = [eval |-> ctx.eval, row |-> ctx.resrow + 1]]

\* SRF_IS_FIRSTCALL: the context is made, and a request is sent, unless the
\* connection is refused.
FirstCall(n, p) ==
    LET ctx == [eval |-> EvalOf(n), rows |-> NoResult, resrow |-> 0] IN
    /\ waiting = Nobody
    /\ fnExtra[n] = NoFuncContext
    /\ EvalOf(n) <= MaxEvals
    /\ GetProcInfo(FuncOf[n], p)
    /\ eval' = [eval EXCEPT ![n] = EvalOf(n)]
    /\ fnExtra' = [fnExtra EXCEPT ![n] = ctx]
    /\ waiting' \in {n, Nobody}
    /\ UNCHANGED <<fetching, given, answered>>

\* MT_RESULT, with k rows: the first call goes on.  (Its row is converted with the
\* description the call began with, which may be gone by now: DescriptionKept of
\* CallHandler.)
GetResult(n, k) ==
    /\ waiting = n
    /\ waiting' = Nobody
    /\ answered' = [answered EXCEPT ![n] = [eval |-> eval[n], rows |-> k]]
    /\ ReturnRow(n, [fnExtra[n] EXCEPT !.rows = k])
    /\ UNCHANGED <<eval, cacheVars, catalogVars>>

\* A later call for the same context: nothing is sent.  The description is
\* looked up again all the same.
LaterCall(n, p) ==
    /\ waiting = Nobody
    /\ fnExtra[n] # NoFuncContext
    /\ EvalOf(n) <= MaxEvals
    /\ GetProcInfo(FuncOf[n], p)
    /\ eval' = [eval EXCEPT ![n] = EvalOf(n)]
    /\ ReturnRow(n, fnExtra[n])
    /\ UNCHANGED <<answered, waiting>>

\* Mutant: the context outlives the evaluation it was made for.
EndEarlyKeepsContext(n) ==
    /\ waiting = Nobody
    /\ fnExtra[n] # NoFuncContext
    /\ fetching' = [fetching EXCEPT ![n] = FALSE]
    /\ UNCHANGED <<fnExtra, eval, given, answered, waiting, cacheVars, catalogVars>>

\* The executor needs no more rows of n (LIMIT, a rescan): the callback that
\* SRF_FIRSTCALL_INIT registered deletes the context and the result in it.
EndEarly(n) ==
    /\ waiting = Nobody
    /\ fnExtra[n] # NoFuncContext
    /\ fnExtra' = [fnExtra EXCEPT ![n] = NoFuncContext]
    /\ fetching' = [fetching EXCEPT ![n] = FALSE]
    /\ UNCHANGED <<eval, given, answered, waiting, cacheVars, catalogVars>>

\* What a call of f for another purpose does with the cache, whether or not it
\* raises.
LookedUp(f) == GetProcInfoFails(f) \/ \E p \in Ptrs : GetProcInfo(f, p)

\* A call of f raises, or the one that waits for its result does: the query ends,
\* with the contexts of all its nodes.
QueryFails ==
    /\ \/ \E f \in Funcs : LookedUp(f)
       \/ waiting # Nobody /\ UNCHANGED <<cacheVars, catalogVars>>
    /\ fnExtra' = [n \in Nodes |-> NoFuncContext]
    /\ fetching' = [n \in Nodes |-> FALSE]
    /\ waiting' = Nobody
    /\ UNCHANGED <<eval, given, answered>>

\* A call of f for no node: of a scalar function in the same query, or, while a
\* node waits, in SQL of its peer (which may trap the error of a call).
OtherCall(f) ==
    /\ LookedUp(f)
    /\ UNCHANGED setVars

-----------------------------------------------------------------------------

SetInit ==
    /\ CacheInit
    /\ fnExtra = [n \in Nodes |-> NoFuncContext]
    /\ eval = [n \in Nodes |-> 0]
    /\ fetching = [n \in Nodes |-> FALSE]
    /\ given = [n \in Nodes |-> [eval |-> 0, row |-> 0]]
    /\ answered = [n \in Nodes |-> [eval |-> 0, rows |-> 0]]
    /\ waiting = Nobody

NextCall(n) == \E p \in Ptrs : FirstCall(n, p) \/ LaterCall(n, p)

NextResult(n) == \E k \in RowCounts : GetResult(n, k)

SetNext ==
    \/ \E n \in Nodes : NextCall(n)
    \/ \E n \in Nodes : NextResult(n)
    \/ \E n \in Nodes : EndEarly(n)
    \/ QueryFails
    \/ \E f \in Funcs : OtherCall(f)
    \/ CatalogChange /\ UNCHANGED setVars

SetSpec == SetInit /\ [][SetNext]_setAllVars

\* The executor goes on with each evaluation that it has begun, and each request
\* is answered.
SetFairSpec ==
    /\ SetSpec
    /\ \A n \in Nodes : SF_setAllVars(fetching[n] /\ NextCall(n))
    /\ \A n \in Nodes : WF_setAllVars(NextResult(n))

-----------------------------------------------------------------------------
(* Properties.                                                             *)

\* Type invariant: in particular an evaluation in progress has its context, a
\* request under way has one without a result, and a row that was given is one of
\* a result.
SetTypeOK ==
    /\ CacheTypeOK
    /\ waiting \in Nodes \cup {Nobody}
    /\ waiting # Nobody => /\ fnExtra[waiting] # NoFuncContext
                           /\ fnExtra[waiting].rows = NoResult
    /\ \A n \in Nodes :
          /\ fnExtra[n] # NoFuncContext =>
                /\ fnExtra[n].rows \in RowCounts \cup {NoResult}
                /\ fnExtra[n].resrow \in 0..MaxRows
          /\ fetching[n] => fnExtra[n] # NoFuncContext
          /\ eval[n] \in 0..MaxEvals
          /\ given[n].row \in 0..MaxRows

RowsGiven(n) == IF given[n].eval = eval[n] THEN given[n].row ELSE 0

\* Each evaluation that is not cut short gives the rows of its own request, each
\* once and in order, and ends after the last of them: whatever the other
\* nodes do, and whatever evaluation was cut short before.  (A call that waits
\* for its result gives nothing yet.  A node whose connection was refused gives
\* NULL, and sends no further request before its context ends.)
EveryRowOnce ==
    [][\A n \in Nodes : NextCall(n) \/ NextResult(n) =>
        \/ fnExtra'[n] # NoFuncContext /\ fnExtra'[n].rows = NoResult
        \/ /\ answered'[n].eval = eval'[n]
           /\ \/ RowsGiven(n)' = (IF eval'[n] = eval[n] THEN RowsGiven(n) ELSE 0) + 1
              \/ RowsGiven(n)' = answered'[n].rows /\ ~fetching'[n]]_setAllVars

\* Every evaluation ends.
EvaluationEnds == \A n \in Nodes : fetching[n] ~> ~fetching[n]
=============================================================================
