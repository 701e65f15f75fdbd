--------------------------- MODULE FunctionCache ---------------------------
(***************************************************************************)
(* The cache of function descriptions of one backend: function_cache.c, and*)
(* get_proc_info and plc_procedure_valid of message_fns.c, which look a    *)
(* description up, check it against the catalog and rebuild it.            *)
(*                                                                         *)
(* A plcProcInfo is an object of the heap, named by its pointer, since it  *)
(* is freed explicitly while others may still point to it.                 *)
(*                                                                         *)
(* A version of a function stands for the (xmin, tid) of its pg_proc tuple *)
(* and for what the tuple holds.  A row type has two: its pg_class tuple,  *)
(* whose (xmin, tid) is compared, and its columns, which are in            *)
(* pg_attribute (for the type record, in the query), and are not compared. *)
(***************************************************************************)
EXTENDS Naturals, FiniteSets

CONSTANTS
    Funcs,      \* the functions (pg_proc oids)
    RowTypes,   \* the composite types of arguments and results, and record
    TypesOf,    \* TypesOf[f]: the row types in the signature of f
    Versions,   \* bound: the versions of a function, a tuple, a list of columns
    CacheSize,  \* PLC_FUNCTION_CACHE_SIZE
    Ptrs,       \* the addresses plc_top_alloc may return
    Null,       \* the null pointer
    Free        \* the content of an address that holds no plcProcInfo

ASSUME CacheAssumption ==
    /\ CacheSize \in Nat \ {0}
    /\ TypesOf \in [Funcs -> SUBSET RowTypes]
    /\ Null \notin Ptrs

VARIABLES
    slots,    \* plcFunctionCache, the slot of C index 0 being slots[1]
    heap,     \* the plcProcInfo at each address, or Free
    procVer,  \* the version of each pg_proc tuple
    typeVer,  \* the version of the pg_class tuple of each row type
    colVer    \* the columns each row type has

catalogVars == <<procVer, typeVer, colVer>>
cacheVars == <<slots, heap>>

Slots == 1..CacheSize

TypeVersions == UNION {[ts -> Versions] : ts \in SUBSET RowTypes}

Info == [funcOid : Funcs, ver : Versions, types : TypeVersions,
         cols : TypeVersions, hasChanged : BOOLEAN]

ASSUME FreeIsNoInfo == Free \notin Info

-----------------------------------------------------------------------------
(* function_cache.c                                                        *)

\* Mutant: the loop of function_cache_up stops one slot early.
MovedUpShort(s, i) ==
    [j \in Slots |-> IF j = 1 THEN s[i] ELSE IF j < i THEN s[j - 1] ELSE s[j]]

\* Mutant: the entry found changes places with the first one.
MovedUpSwapped(s, i) == [s EXCEPT ![1] = s[i], ![i] = s[1]]

\* function_cache_up
MovedUp(s, i) ==
    [j \in Slots |-> IF j = 1 THEN s[i] ELSE IF j <= i THEN s[j - 1] ELSE s[j]]

Caching(f) == {i \in Slots : slots[i] # Null /\ heap[slots[i]].funcOid = f}

Cached(f) == Caching(f) # {}

\* The slot at which the loop of function_cache_get stops.
SlotOf(f) == CHOOSE i \in Caching(f) : \A j \in Caching(f) : i <= j

CachedInfo(f) == slots[SlotOf(f)]

\* The slots after function_cache_get(f): what it finds is moved up at once,
\* before anyone knows whether it is still valid.
AfterGet(f) == IF Cached(f) THEN MovedUp(slots, SlotOf(f)) ELSE slots

\* Mutant: the loop that moves the cache right starts one slot too high.
AfterPutOverrun(f, p) ==
    IF Cached(f)
    THEN [AfterGet(f) EXCEPT ![1] = p]
    ELSE [j \in 1..(CacheSize + 1) |-> IF j = 1 THEN p ELSE slots[j - 1]]

\* The slots after function_cache_put of a description of f at p, and the
\* description it frees: the one replaced, or the one in the last slot.
AfterPut(f, p) ==
    IF Cached(f)
    THEN [AfterGet(f) EXCEPT ![1] = p]
    ELSE [j \in Slots |-> IF j = 1 THEN p ELSE slots[j - 1]]

FreedByPut(f) == IF Cached(f) THEN CachedInfo(f) ELSE slots[CacheSize]

-----------------------------------------------------------------------------
(* message_fns.c                                                           *)

\* plc_procedure_valid and plc_type_valid: the tuples are those the description
\* was built from.  (A record has no pg_class tuple, and is not looked at: a type
\* whose typeVer never changes.)
UpToDate(info) ==
    /\ info.ver = procVer[info.funcOid]
    /\ \A t \in TypesOf[info.funcOid] : info.types[t] = typeVer[t]

Valid(f) == Cached(f) /\ UpToDate(heap[CachedInfo(f)])

\* Mutant: only a function that was not cached counts as changed.
NewInfoIfUncached(f) ==
    [funcOid |-> f, ver |-> procVer[f],
     types |-> [t \in TypesOf[f] |-> typeVer[t]],
     cols |-> [t \in TypesOf[f] |-> colVer[t]], hasChanged |-> ~Cached(f)]

NewInfo(f) ==
    [funcOid |-> f, ver |-> procVer[f],
     types |-> [t \in TypesOf[f] |-> typeVer[t]],
     cols |-> [t \in TypesOf[f] |-> colVer[t]], hasChanged |-> TRUE]

\* get_proc_info(f) returns the description at p, found in the cache ...
UseCached(f, p) ==
    /\ Valid(f)
    /\ p = CachedInfo(f)
    /\ slots' = AfterGet(f)
    /\ heap' = [heap EXCEPT ![p].hasChanged = FALSE]
    /\ UNCHANGED catalogVars

\* ... or built from the catalog and put into the cache.
BuildInfo(f, p) ==
    /\ ~Valid(f)
    /\ p \in Ptrs
    /\ heap[p] = Free
    /\ slots' = AfterPut(f, p)
    /\ heap' = [q \in Ptrs |-> IF q = p THEN NewInfo(f)
                               ELSE IF q = FreedByPut(f) THEN Free
                               ELSE heap[q]]
    /\ UNCHANGED catalogVars

GetProcInfo(f, p) == UseCached(f, p) \/ BuildInfo(f, p)

\* elog(ERROR) before the cache is asked (there is no such function any more), or
\* while the description is checked or built: nothing is put into the cache, and
\* what was built so far is lost.
GetProcInfoFails(f) ==
    /\ \/ UNCHANGED slots
       \/ ~Valid(f) /\ slots' = AfterGet(f)
    /\ UNCHANGED <<heap, catalogVars>>

-----------------------------------------------------------------------------
(* The catalog, which any session changes, also back (ROLLBACK) to a tuple *)
(* it had before.                                                          *)

ReplaceFunction(f) ==
    /\ procVer' \in {[procVer EXCEPT ![f] = v] : v \in Versions \ {procVer[f]}}
    /\ UNCHANGED <<typeVer, colVer, cacheVars>>

\* Columns are added, which pg_class counts; or the type is renamed, or its tuple
\* moved, with the columns it had.
AlterType(t) ==
    /\ typeVer' \in {[typeVer EXCEPT ![t] = v] : v \in Versions \ {typeVer[t]}}
    /\ colVer' \in {[colVer EXCEPT ![t] = v] : v \in Versions}
    /\ UNCHANGED <<procVer, cacheVars>>

\* Columns are renamed or dropped, or those of a free-standing type get other
\* types, in pg_attribute alone; or the next query has another column definition
\* list for a record.
AlterColumns(t) ==
    /\ colVer' \in {[colVer EXCEPT ![t] = v] : v \in Versions \ {colVer[t]}}
    /\ UNCHANGED <<procVer, typeVer, cacheVars>>

CatalogChange ==
    \/ \E f \in Funcs : ReplaceFunction(f)
    \/ \E t \in RowTypes : AlterType(t)
    \/ \E t \in RowTypes : AlterColumns(t)

-----------------------------------------------------------------------------

CacheInit ==
    /\ slots = [i \in Slots |-> Null]
    /\ heap = [p \in Ptrs |-> Free]
    /\ procVer \in [Funcs -> Versions]
    /\ typeVer \in [RowTypes -> Versions]
    /\ colVer \in [RowTypes -> Versions]

CacheNext ==
    \/ \E f \in Funcs : (\E p \in Ptrs : GetProcInfo(f, p)) \/ GetProcInfoFails(f)
    \/ CatalogChange

CacheSpec == CacheInit /\ [][CacheNext]_<<cacheVars, catalogVars>>

-----------------------------------------------------------------------------
(* Properties.                                                             *)

\* Type invariant: every slot is null or an address, and at each address a
\* whole description or none, whatever was moved, replaced and evicted.
CacheTypeOK ==
    /\ slots \in [Slots -> Ptrs \cup {Null}]
    /\ heap \in [Ptrs -> Info \cup {Free}]
    /\ procVer \in [Funcs -> Versions]
    /\ typeVer \in [RowTypes -> Versions]
    /\ colVer \in [RowTypes -> Versions]

\* The cache never keeps a description that was freed, no description in the
\* heap has been dropped from the cache without being freed, and no function is
\* in two slots: one of the two would be stale, or be freed twice.
SlotsOwnHeap ==
    /\ \A i \in Slots : slots[i] # Null => heap[slots[i]] # Free
    /\ \A p \in Ptrs : heap[p] # Free => \E i \in Slots : slots[i] = p
    /\ \A i, j \in Slots :
          /\ slots[i] # Null /\ slots[j] # Null
          /\ heap[slots[i]].funcOid = heap[slots[j]].funcOid
          => i = j

\* The functions in the cache are those used last, in the order of their use.
CachedFuncs ==
    [i \in 1..Cardinality({j \in Slots : slots[j] # Null}) |->
        heap[slots[i]].funcOid]

Lru == INSTANCE LruCache
          WITH Keys <- Funcs, Size <- CacheSize, recent <- CachedFuncs

\* function_cache.c is an LRU cache: a lookup that finds counts as a use, also
\* when the description found turns out to be outdated, and only a function
\* that was not cached evicts another, the one used longest ago.
LruSpec == Lru!Spec
=============================================================================
