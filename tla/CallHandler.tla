---------------------------- MODULE CallHandler ----------------------------
(***************************************************************************)
(* The calls of one backend: pljvm_call_handler, pljvm_call_hook and       *)
(* pljvm_get_result of pljvm.c, and handle_sql_message of sqlhandler.c.    *)
(*                                                                         *)
(* A call looks its function up (FunctionCache), opens a connection, sends *)
(* its request and serves the messages of the peer until the result.  One  *)
(* of them asks to execute SQL, and that SQL may call functions of this    *)
(* language again: calls nest, on one C stack, with one cache and one      *)
(* global pl_container_caller_context.  elog(ERROR) leaves by longjmp.     *)
(*                                                                         *)
(* The peer, and the SQL it sends, are the environment.                    *)
(***************************************************************************)
EXTENDS FunctionCache, Sequences

CONSTANTS
    Contexts,    \* memory contexts (bound)
    NoContext,   \* the null MemoryContext
    Refusals,    \* TRUE: the request of a call may not reach the peer
    Handlers,    \* TRUE: SQL of a peer may trap errors of the calls it makes
    MaxDepth     \* bound: nested calls

ASSUME CallAssumption ==
    /\ NoContext \notin Contexts
    /\ Refusals \in BOOLEAN
    /\ Handlers \in BOOLEAN
    /\ MaxDepth \in Nat

VARIABLES
    stack,          \* the calls in progress, the innermost one last
    callerContext,  \* pl_container_caller_context
    raising,        \* an error is on its way up the stack
    subxacts,       \* open internal subtransactions
    lastSent        \* what a peer was last sent of each function

callVars == <<stack, callerContext, raising, subxacts, lastSent>>
allVars == <<cacheVars, catalogVars, callVars>>

\* What a request says of its function: the source and the columns that the
\* description has, up to date or not.  Never before the first time.
Never == <<>>

Described(info) == <<info.ver, info.cols>>

-----------------------------------------------------------------------------
(* The stack.                                                              *)

Top == stack[Len(stack)]
Below == SubSeq(stack, 1, Len(stack) - 1)
InCall == stack # <<>> /\ ~raising

\* The innermost call waits for its peer, or executes SQL for it.
Waiting == InCall /\ ~Top.inSql
Executing == InCall /\ Top.inSql

\* Contexts that someone still refers to, and the context of a new query, which
\* is none of them.
ContextsInUse ==
    {callerContext} \cup UNION {{stack[i].context, stack[i].saved} : i \in 1..Len(stack)}

NewContext == CHOOSE c \in Contexts : c \notin ContextsInUse

\* Calls come from the top level, or from SQL executed for a peer.  (The memory
\* contexts do not run out: where they do in a small instance, no call is made.)
MayCall ==
    /\ ~raising
    /\ stack # <<>> => Top.inSql
    /\ Len(stack) < MaxDepth
    /\ ~(Contexts \subseteq ContextsInUse)

WithTop(frame) == Append(Below, frame)

\* What the peers know of f after a call that sent nothing: it used up the change
\* flag, so that nothing is claimed before the next request.
SentNothing(f) == [lastSent EXCEPT ![f] = Never]

\* An error that leaves a call made by calls: the client's, when there are none.
ErrorIn(calls) == calls # <<>>

-----------------------------------------------------------------------------
(* Entering a call.                                                        *)

\* pljvm_call_handler up to the receive loop.  The result of pljvm_channel_send
\* is ignored: a call whose request was lost waits like any other.
Call(f, p) ==
    /\ MayCall
    /\ GetProcInfo(f, p)
    /\ callerContext' = NewContext
    /\ stack' = Append(stack, [func |-> f, pinfo |-> p,
                               context |-> NewContext,
                               saved |-> callerContext, inSql |-> FALSE,
                               trapped |-> FALSE])
    /\ \/ lastSent' = [lastSent EXCEPT ![f] = Described(heap'[p])]
       \/ Refusals /\ lastSent' = SentNothing(f)
    /\ UNCHANGED <<raising, subxacts>>

\* plcConnect fails: the call returns NULL, without an error.
CallRefused(f, p) ==
    /\ Refusals
    /\ MayCall
    /\ GetProcInfo(f, p)
    /\ lastSent' = SentNothing(f)
    /\ UNCHANGED <<stack, callerContext, raising, subxacts>>

\* get_proc_info raises: the caller's context has been replaced already.
CallFails(f) ==
    /\ MayCall
    /\ GetProcInfoFails(f)
    /\ callerContext' = NewContext
    /\ raising' = ErrorIn(stack)
    /\ UNCHANGED <<stack, subxacts, lastSent>>

\* pljvm_create_call raises, in the output function of an argument: the
\* connection is open, and nothing was sent.
RequestFails(f, p) ==
    /\ Refusals
    /\ MayCall
    /\ GetProcInfo(f, p)
    /\ callerContext' = NewContext
    /\ raising' = ErrorIn(stack)
    /\ lastSent' = SentNothing(f)
    /\ UNCHANGED <<stack, subxacts>>

-----------------------------------------------------------------------------
(* Serving the peer.                                                       *)

\* Mutant: pl_container_caller_context is not restored.
ReturnWithoutRestore ==
    /\ Waiting
    /\ stack' = Below
    /\ UNCHANGED <<callerContext, raising, subxacts, lastSent,
                   cacheVars, catalogVars>>

\* Mutant: the receive loop goes on after MT_RESULT.
ReturnKeepsReceiving ==
    /\ Waiting
    /\ UNCHANGED allVars

\* MT_RESULT: disconnect, convert the result with the description in pinfo,
\* and return to the caller.
Return ==
    /\ Waiting
    /\ stack' = Below
    /\ callerContext' = Top.saved
    /\ UNCHANGED <<raising, subxacts, lastSent, cacheVars, catalogVars>>

\* The result has several columns, or its conversion raises.
ResultRejected ==
    /\ Waiting
    /\ stack' = Below
    /\ raising' = ErrorIn(Below)
    /\ UNCHANGED <<callerContext, subxacts, lastSent, cacheVars,
                   catalogVars>>

\* MT_EXCEPTION, MT_LOG with level ERROR, an unknown message, a receive that
\* fails or is interrupted (EINTR): elog(ERROR) before plcDisconnect, so that
\* the connection stays open.  (A lower level of MT_LOG changes nothing here.)
PeerFails ==
    /\ Waiting
    /\ raising' = TRUE
    /\ UNCHANGED <<stack, callerContext, subxacts, lastSent, cacheVars,
                   catalogVars>>

\* MT_SQL: a subtransaction of its own, in the context of the caller.
SqlBegins ==
    /\ Waiting
    /\ stack' = WithTop([Top EXCEPT !.inSql = TRUE])
    /\ subxacts' = subxacts + 1
    /\ UNCHANGED <<callerContext, raising, lastSent, cacheVars,
                   catalogVars>>

\* The subtransaction is released, and the rows are sent to the peer.
SqlReturns ==
    /\ Executing
    /\ stack' = WithTop([Top EXCEPT !.inSql = FALSE])
    /\ subxacts' = subxacts - 1
    /\ UNCHANGED <<callerContext, raising, lastSent, cacheVars,
                   catalogVars>>

\* The statement raises, or was not a SELECT.
SqlFails ==
    /\ Executing
    /\ raising' = TRUE
    /\ UNCHANGED <<stack, callerContext, subxacts, lastSent, cacheVars,
                   catalogVars>>

-----------------------------------------------------------------------------
(* An error on its way up.                                                 *)

\* Mutant: handle_sql_message rethrows without a rollback.
UnwindWithoutRollback ==
    /\ raising
    /\ stack' = Below
    /\ raising' = ErrorIn(Below)
    /\ UNCHANGED <<subxacts, callerContext, lastSent, cacheVars, catalogVars>>

\* Mutant: pljvm_call_handler rolls back, whether or not SQL is being executed.
UnwindAlwaysRollsBack ==
    /\ raising
    /\ stack' = Below
    /\ raising' = ErrorIn(Below)
    /\ subxacts' = subxacts - 1
    /\ UNCHANGED <<callerContext, lastSent, cacheVars, catalogVars>>

\* The error leaves the innermost call: handle_sql_message rolls its
\* subtransaction back, and pljvm_call_handler rethrows.  Neither closes the
\* connection nor restores pl_container_caller_context.
Unwind ==
    /\ raising
    /\ stack' = Below
    /\ raising' = ErrorIn(Below)
    /\ subxacts' = IF Top.inSql THEN subxacts - 1 ELSE subxacts
    /\ UNCHANGED <<callerContext, lastSent, cacheVars, catalogVars>>

\* A handler in the SQL that made the failing call traps the error: from then on
\* callerContext is the context of the failed call (trapped keeps that in mind).
Trapped ==
    /\ Handlers
    /\ raising
    /\ Top.inSql
    /\ raising' = FALSE
    /\ stack' = WithTop([Top EXCEPT !.trapped = TRUE])
    /\ UNCHANGED <<callerContext, subxacts, lastSent, cacheVars,
                   catalogVars>>

-----------------------------------------------------------------------------

Init ==
    /\ CacheInit
    /\ stack = <<>>
    /\ callerContext = NoContext
    /\ raising = FALSE
    /\ subxacts = 0
    /\ lastSent = [f \in Funcs |-> Never]

Next ==
    \/ \E f \in Funcs, p \in Ptrs : Call(f, p)
    \/ \E f \in Funcs, p \in Ptrs : CallRefused(f, p)
    \/ \E f \in Funcs, p \in Ptrs : RequestFails(f, p)
    \/ \E f \in Funcs : CallFails(f)
    \/ Return
    \/ ResultRejected
    \/ PeerFails
    \/ SqlBegins
    \/ SqlReturns
    \/ SqlFails
    \/ Unwind
    \/ Trapped
    \/ CatalogChange /\ UNCHANGED callVars

Spec == Init /\ [][Next]_allVars

\* At every depth the function called in the JVM ends, after whatever SQL it
\* wanted to execute, and so does each of these statements; an error goes all
\* the way up.  (A call whose request was lost is ended by PeerFails, which does
\* as well.)  The receive loop itself has no time limit: recv() is repeated
\* for as long as the peer is silent.
Fairness ==
    /\ \A d \in 1..MaxDepth :
          /\ SF_allVars(Return /\ Len(stack) = d)
          /\ SF_allVars(SqlReturns /\ Len(stack) = d)
    /\ WF_allVars(Unwind)

FairSpec == Spec /\ Fairness

-----------------------------------------------------------------------------
(* Properties.                                                             *)

Frames ==
    [func : Funcs, pinfo : Ptrs,
     context : Contexts, saved : Contexts \cup {NoContext}, inSql : BOOLEAN,
     trapped : BOOLEAN]

\* Type invariant: in particular no way out of a call releases more
\* subtransactions than were begun.
CallTypeOK ==
    /\ CacheTypeOK
    /\ stack \in Seq(Frames)
    /\ Len(stack) <= MaxDepth
    /\ callerContext \in Contexts \cup {NoContext}
    /\ raising \in BOOLEAN
    /\ subxacts \in Nat

\* While a call is served, pl_container_caller_context is the context of its
\* own caller, into which its results and those of its SQL are copied: after
\* any nesting of calls, returns and errors, unless its own SQL has trapped one.
ContextOfTop == InCall /\ ~Top.trapped => callerContext = Top.context

\* Every open subtransaction belongs to a call that is executing SQL, and every
\* call but the innermost is: whichever way the calls in between ended, none is
\* left open and none is released twice.
SubxactsBalanced ==
    /\ \A i \in 1..(Len(stack) - 1) : stack[i].inSql
    /\ subxacts = Cardinality({i \in 1..Len(stack) : stack[i].inSql})

\* A request that says of its function anything else than the last one did is
\* flagged as changed, whatever was evicted and rebuilt in between, unless a call
\* in between sent nothing.
ChangeFlagged ==
    [][\A f \in Funcs, p \in Ptrs :
          /\ Call(f, p)
          /\ lastSent[f] # Never
          /\ lastSent[f] # Described(heap'[p])
          => heap'[p].hasChanged]_allVars

\* The description a call was made with is still there when its result is
\* converted.
DescriptionKept ==
    \A i \in 1..Len(stack) :
        LET info == heap[stack[i].pinfo] IN
        /\ info # Free
        /\ info.funcOid = stack[i].func

\* Every call ends, with those nested in it.
CallsEnd == stack # <<>> ~> stack = <<>>
=============================================================================
