------------------------ MODULE FunctionCacheProofs ------------------------
(***************************************************************************)
(* Proofs about FunctionCache, for every number of slots, functions and    *)
(* addresses.                                                              *)
(*                                                                         *)
(* CacheTypeOK and SlotsOwnHeap are inductive together: that no function is*)
(* in two slots makes the addresses in the slots different, so that freeing*)
(* the one that is replaced or evicted leaves none of the others dangling. *)
(* With that, the functions in the slots, in their order, are the list of  *)
(* LruCache: each step of the code is one of its steps (LruRefined).       *)
(***************************************************************************)
EXTENDS FunctionCache, CommonProofs, FiniteSetTheorems, TLAPS

USE CacheAssumption

vars == <<cacheVars, catalogVars>>

\* The inductive invariant.
CacheInv == CacheTypeOK /\ SlotsOwnHeap

\* The slot whose content MovedUp(s, i) has in slot j.
From(i, j) == IF j = 1 THEN i ELSE IF j <= i THEN j - 1 ELSE j

-----------------------------------------------------------------------------
(* Moving up.                                                              *)

\* function_cache_up exchanges the slots and loses none.
LEMMA MoveUp ==
    ASSUME NEW s, NEW i \in Slots
    PROVE  /\ MovedUp(s, i) = [j \in Slots |-> s[From(i, j)]]
           /\ \A j \in Slots : From(i, j) \in Slots
           /\ \A j, k \in Slots : From(i, j) = From(i, k) => j = k
           /\ \A k \in Slots : \E j \in Slots : From(i, j) = k
           /\ From(i, 1) = i /\ 1 \in Slots
  <1>1. Slots = {j \in Nat : 1 <= j /\ j <= CacheSize}
    BY DEF Slots
  <1>2. \A j \in Slots : From(i, j) \in Slots
    BY <1>1 DEF From
  <1>3. \A j, k \in Slots : From(i, j) = From(i, k) => j = k
    BY <1>1 DEF From
  <1>4. ASSUME NEW k \in Slots PROVE \E j \in Slots : From(i, j) = k
    <2>1. CASE k = i
      BY <1>1, <2>1 DEF From
    <2>2. CASE k < i
      <3>1. k + 1 \in Slots /\ From(i, k + 1) = k
        BY <1>1, <2>2 DEF From
      <3> QED BY <3>1
    <2>3. CASE k > i
      <3>1. From(i, k) = k
        BY <1>1, <2>3 DEF From
      <3> QED BY <3>1
    <2> QED BY <1>1, <2>1, <2>2, <2>3
  <1>5. MovedUp(s, i) = [j \in Slots |-> s[From(i, j)]]
    BY <1>1 DEF MovedUp, From
  <1>6. From(i, 1) = i /\ 1 \in Slots
    BY <1>1 DEF From
  <1> QED BY <1>2, <1>3, <1>4, <1>5, <1>6

-----------------------------------------------------------------------------
(* Lookup.                                                                 *)

\* A cached function is in one slot, and its description is found there.
LEMMA Lookup ==
    ASSUME CacheInv, NEW f, Cached(f)
    PROVE  /\ SlotOf(f) \in Slots
           /\ CachedInfo(f) = slots[SlotOf(f)] /\ CachedInfo(f) \in Ptrs
           /\ CachedInfo(f) # Null
           /\ heap[CachedInfo(f)] \in Info
           /\ heap[CachedInfo(f)].funcOid = f
           /\ \A j \in Slots : slots[j] # Null /\ heap[slots[j]].funcOid = f
                                  => j = SlotOf(f)
  <1>1. PICK i \in Caching(f) : TRUE
    BY DEF Cached
  <1>2. i \in Slots /\ slots[i] # Null /\ heap[slots[i]].funcOid = f
    BY <1>1 DEF Caching
  <1>3. \A j \in Slots : slots[j] # Null /\ heap[slots[j]].funcOid = f => j = i
    BY <1>2 DEF CacheInv, SlotsOwnHeap
  <1>4. \A j \in Caching(f) : j = i
    BY <1>3 DEF Caching
  <1>5. i <= i
    BY <1>2 DEF Slots
  <1>6. SlotOf(f) = i
    BY <1>1, <1>4, <1>5 DEF SlotOf
  <1>7. slots[i] \in Ptrs /\ heap[slots[i]] \in Info
    BY <1>2 DEF CacheInv, CacheTypeOK, SlotsOwnHeap
  <1> QED BY <1>2, <1>3, <1>6, <1>7 DEF CachedInfo

\* A function that is not cached has no description in the heap.
LEMMA NotCached ==
    ASSUME CacheInv, NEW f, ~Cached(f)
    PROVE  \A j \in Slots : slots[j] # Null => heap[slots[j]].funcOid # f
  BY DEF Cached, Caching

\* Different slots that are in use hold different addresses.
LEMMA Distinct ==
    ASSUME CacheInv, NEW i \in Slots, NEW j \in Slots,
           slots[i] = slots[j], slots[i] # Null
    PROVE  i = j
  BY DEF CacheInv, SlotsOwnHeap

\* What NewInfo builds is a description.
LEMMA Built ==
    ASSUME CacheInv, NEW f \in Funcs
    PROVE  /\ NewInfo(f) \in Info
           /\ NewInfo(f) # Free
           /\ NewInfo(f).funcOid = f
           /\ NewInfo(f).ver = procVer[f]
           /\ NewInfo(f).cols = [t \in TypesOf[f] |-> colVer[t]]
           /\ NewInfo(f).hasChanged
  <1> DEFINE types == [t \in TypesOf[f] |-> typeVer[t]]
             cols == [t \in TypesOf[f] |-> colVer[t]]
  <1>1. TypesOf[f] \in SUBSET RowTypes
    BY DEF CacheInv
  <1>2. /\ types \in [TypesOf[f] -> Versions]
        /\ cols \in [TypesOf[f] -> Versions]
    BY <1>1 DEF CacheInv, CacheTypeOK
  <1>3. types \in TypeVersions /\ cols \in TypeVersions
    BY <1>1, <1>2 DEF TypeVersions
  <1>4. procVer[f] \in Versions
    BY DEF CacheInv, CacheTypeOK
  <1>5. NewInfo(f) = [funcOid |-> f, ver |-> procVer[f], types |-> types,
                      cols |-> cols, hasChanged |-> TRUE]
    BY DEF NewInfo
  <1> HIDE DEF types, cols
  <1>6. NewInfo(f) \in Info
    BY <1>3, <1>4, <1>5 DEF Info
  <1>7. /\ NewInfo(f).funcOid = f /\ NewInfo(f).ver = procVer[f]
        /\ NewInfo(f).cols = cols /\ NewInfo(f).hasChanged
    BY <1>5
  <1>8. NewInfo(f) # Free
    BY <1>6, FreeIsNoInfo
  <1> QED BY <1>6, <1>7, <1>8 DEF cols

\* Clearing the change flag leaves the rest of a description.
LEMMA Unflagged ==
    ASSUME NEW info \in Info
    PROVE  LET r == [info EXCEPT !.hasChanged = FALSE] IN
           /\ r \in Info
           /\ r.funcOid = info.funcOid /\ r.ver = info.ver /\ r.cols = info.cols
  BY DEF Info

-----------------------------------------------------------------------------
(* The invariant.                                                          *)

\* The cache is empty at first, and owns nothing.
LEMMA CacheStart == CacheInit => CacheInv
  <1> SUFFICES ASSUME CacheInit PROVE CacheInv
    OBVIOUS
  <1>1. CacheTypeOK
    BY DEF CacheInit, CacheTypeOK
  <1>2. SlotsOwnHeap
    BY DEF CacheInit, SlotsOwnHeap
  <1> QED BY <1>1, <1>2 DEF CacheInv

\* A lookup, with or without success, keeps every description and its owner.
LEMMA GetKeeps ==
    ASSUME CacheInv, NEW f, slots' = AfterGet(f), UNCHANGED catalogVars,
           heap' \in [Ptrs -> Info \cup {Free}],
           \A q \in Ptrs : heap[q] = Free <=> heap'[q] = Free,
           \A q \in Ptrs : heap[q] # Free => heap'[q].funcOid = heap[q].funcOid
    PROVE  CacheInv'
  <1>1. PICK back \in [Slots -> Slots] :
           /\ slots' = [j \in Slots |-> slots[back[j]]]
           /\ \A j, k \in Slots : back[j] = back[k] => j = k
           /\ \A k \in Slots : \E j \in Slots : back[j] = k
    <2>1. CASE Cached(f)
      <3> DEFINE i == SlotOf(f)
                 b == [j \in Slots |-> From(i, j)]
      <3>1. i \in Slots /\ slots' = MovedUp(slots, i)
        BY <2>1, Lookup DEF AfterGet
      <3> HIDE DEF i
      <3>2. b \in [Slots -> Slots] /\ slots' = [j \in Slots |-> slots[b[j]]]
        BY <3>1, MoveUp
      <3>3. /\ \A j, k \in Slots : b[j] = b[k] => j = k
            /\ \A k \in Slots : \E j \in Slots : b[j] = k
        BY <3>1, MoveUp
      <3> QED BY <3>2, <3>3
    <2>2. CASE ~Cached(f)
      <3> DEFINE b == [j \in Slots |-> j]
      <3>1. slots' = slots /\ slots = [j \in Slots |-> slots[j]]
        BY <2>2 DEF AfterGet, CacheInv, CacheTypeOK
      <3>2. b \in [Slots -> Slots] /\ slots' = [j \in Slots |-> slots[b[j]]]
        BY <3>1
      <3> QED BY <3>2
    <2> QED BY <2>1, <2>2
  <1>2. CacheTypeOK'
    BY <1>1 DEF CacheInv, CacheTypeOK, catalogVars
  <1>3. \A i \in Slots : slots[i] # Null => slots[i] \in Ptrs /\ heap[slots[i]] # Free
    BY DEF CacheInv, CacheTypeOK, SlotsOwnHeap
  <1>4. \A i \in Slots : slots'[i] = slots[back[i]] /\ back[i] \in Slots
    BY <1>1
  <1>5. \A i \in Slots : slots'[i] # Null => heap'[slots'[i]] # Free
    BY <1>3, <1>4
  <1>6. ASSUME NEW p \in Ptrs, heap'[p] # Free
        PROVE  \E i \in Slots : slots'[i] = p
    <2>1. PICK k \in Slots : slots[k] = p
      BY <1>6 DEF CacheInv, SlotsOwnHeap
    <2>2. PICK j \in Slots : back[j] = k
      BY <1>1
    <2> QED BY <1>4, <2>1, <2>2
  <1>7. ASSUME NEW i \in Slots, NEW j \in Slots,
               slots'[i] # Null, slots'[j] # Null,
               heap'[slots'[i]].funcOid = heap'[slots'[j]].funcOid
        PROVE  i = j
    <2>1. heap[slots[back[i]]].funcOid = heap[slots[back[j]]].funcOid
      BY <1>3, <1>4, <1>7
    <2>2. back[i] = back[j]
      BY <1>4, <1>7, <2>1 DEF CacheInv, SlotsOwnHeap
    <2> QED BY <1>1, <2>2
  <1>8. SlotsOwnHeap'
    BY <1>5, <1>6, <1>7 DEF SlotsOwnHeap
  <1> QED BY <1>2, <1>8 DEF CacheInv

\* Only the address of the description found changes when it is used.
LEMMA UseKeeps ==
    ASSUME CacheInv, NEW f, NEW p, UseCached(f, p)
    PROVE  CacheInv'
  <1>1. p \in Ptrs /\ heap[p] \in Info
    BY Lookup DEF UseCached, Valid
  <1> DEFINE r == [heap[p] EXCEPT !.hasChanged = FALSE]
  <1>2. r \in Info /\ r.funcOid = heap[p].funcOid
    BY <1>1, Unflagged
  <1>3. heap' = [heap EXCEPT ![p] = r]
    BY DEF UseCached
  <1> HIDE DEF r
  <1>4. heap \in [Ptrs -> Info \cup {Free}]
    BY DEF CacheInv, CacheTypeOK
  <1>5. heap' \in [Ptrs -> Info \cup {Free}]
    BY <1>2, <1>3, <1>4
  <1>6. \A q \in Ptrs : heap[q] = Free <=> heap'[q] = Free
    BY <1>1, <1>2, <1>3, <1>4, FreeIsNoInfo
  <1>7. \A q \in Ptrs : heap'[q] # Free => heap'[q].funcOid = heap[q].funcOid
    BY <1>1, <1>2, <1>3, <1>4
  <1>8. slots' = AfterGet(f) /\ UNCHANGED catalogVars
    BY DEF UseCached
  <1> QED BY <1>5, <1>6, <1>7, <1>8, GetKeeps

\* Every slot after an insertion holds the new description at p, or what
\* another slot held; the address that is freed is in no slot any more, and each
\* of the others still is.
Inserted(back, f, p) ==
    /\ slots' \in [Slots -> Ptrs \cup {Null}]
    /\ \E j \in Slots : slots'[j] = p
    /\ \A j \in Slots : slots'[j] = p
          \/ /\ slots'[j] = slots[back[j]] /\ back[j] \in Slots
             /\ slots'[j] # Null
                   => slots'[j] # FreedByPut(f) /\ heap[slots'[j]].funcOid # f
    /\ \A j, k \in Slots : slots'[j] = p /\ slots'[k] = p => j = k
    /\ \A j, k \in Slots :
          slots'[j] # p /\ slots'[k] # p /\ back[j] = back[k] => j = k
    /\ \A q \in Ptrs \ {FreedByPut(f)} :
          heap[q] # Free => \E j \in Slots : slots'[j] = q

\* function_cache_put, whether it replaces a description or evicts one.
LEMMA PutMoves ==
    ASSUME CacheInv, NEW f, NEW p \in Ptrs, heap[p] = Free,
           slots' = AfterPut(f, p)
    PROVE  \E back \in [Slots -> Slots] : Inserted(back, f, p)
  <1>1. slots \in [Slots -> Ptrs \cup {Null}] /\ 1 \in Slots
    BY DEF CacheInv, CacheTypeOK, Slots
  <1>2. \A j \in Slots : slots[j] # Null => slots[j] # p
    BY DEF CacheInv, SlotsOwnHeap
  <1>3. \A q \in Ptrs : heap[q] # Free => \E i \in Slots : slots[i] = q
    BY DEF CacheInv, SlotsOwnHeap
  <1>4. p # Null
    OBVIOUS
  <1>5. CASE Cached(f)
    <2> DEFINE i == SlotOf(f)
               back == [j \in Slots |-> From(i, j)]
    <2>1. /\ i \in Slots /\ slots[i] # Null /\ FreedByPut(f) = slots[i]
          /\ \A j \in Slots : slots[j] # Null /\ heap[slots[j]].funcOid = f => j = i
      BY <1>5, Lookup DEF FreedByPut
    <2>2. slots' = [MovedUp(slots, i) EXCEPT ![1] = p]
      BY <1>5 DEF AfterPut, AfterGet
    <2> HIDE DEF i
    <2>3. /\ back \in [Slots -> Slots]
          /\ \A j, k \in Slots : back[j] = back[k] => j = k
          /\ \A k \in Slots : \E j \in Slots : back[j] = k
          /\ back[1] = i
      <3>1. back \in [Slots -> Slots] /\ \A j \in Slots : back[j] = From(i, j)
        BY <2>1, MoveUp
      <3>2. /\ \A j, k \in Slots : From(i, j) = From(i, k) => j = k
            /\ \A k \in Slots : \E j \in Slots : From(i, j) = k
            /\ From(i, 1) = i
        BY <2>1, MoveUp, Zenon
      <3> HIDE DEF back
      <3>3. back[1] = i
        BY <1>1, <3>1, <3>2
      <3>4. \A j, k \in Slots : back[j] = back[k] => j = k
        BY <3>1, <3>2
      <3>5. \A k \in Slots : \E j \in Slots : back[j] = k
        BY <3>1, <3>2
      <3> QED BY <3>1, <3>3, <3>4, <3>5
    <2>4. MovedUp(slots, i) = [j \in Slots |-> slots[back[j]]]
      BY <2>1, MoveUp
    <2> HIDE DEF back
    <2>5. /\ slots'[1] = p
          /\ \A j \in Slots \ {1} : slots'[j] = slots[back[j]]
          /\ slots' \in [Slots -> Ptrs \cup {Null}]
      BY <1>1, <2>2, <2>3, <2>4
    <2>6. \A j \in Slots \ {1} : back[j] # i /\ slots'[j] # p
      BY <1>1, <1>2, <1>4, <2>1, <2>3, <2>5
    <2>7. ASSUME NEW j \in Slots \ {1}, slots'[j] # Null
          PROVE  slots'[j] # FreedByPut(f) /\ heap[slots'[j]].funcOid # f
      <3>1. slots'[j] = slots[back[j]] /\ back[j] \in Slots /\ back[j] # i
        BY <2>3, <2>5, <2>6
      <3>2. heap[slots[back[j]]].funcOid # f
        BY <2>1, <2>7, <3>1
      <3>3. slots[back[j]] # slots[i]
        BY <2>1, <3>1, Distinct
      <3> QED BY <2>1, <3>1, <3>2, <3>3
    <2>8. ASSUME NEW q \in Ptrs \ {FreedByPut(f)}, heap[q] # Free
          PROVE  \E j \in Slots : slots'[j] = q
      <3>1. PICK k \in Slots : slots[k] = q
        BY <1>3, <2>8
      <3>2. PICK j \in Slots : back[j] = k
        BY <2>3
      <3>3. j # 1
        BY <2>1, <2>3, <2>8, <3>1, <3>2
      <3> QED BY <2>5, <3>1, <3>2, <3>3
    <2>9. Inserted(back, f, p)
      BY <1>1, <2>3, <2>5, <2>6, <2>7, <2>8 DEF Inserted
    <2> QED BY <2>3, <2>9
  <1>6. CASE ~Cached(f)
    <2> DEFINE back == [j \in Slots |-> IF j = 1 THEN 1 ELSE j - 1]
    <2>1. /\ CacheSize \in Slots /\ FreedByPut(f) = slots[CacheSize]
          /\ \A j \in Slots : slots[j] # Null => heap[slots[j]].funcOid # f
      BY <1>6, NotCached DEF FreedByPut, Slots
    <2>2. slots' = [j \in Slots |-> IF j = 1 THEN p ELSE slots[j - 1]]
      BY <1>6 DEF AfterPut
    <2>3. \A j \in Slots : j # 1 => j - 1 \in Slots /\ j - 1 # CacheSize
      BY DEF Slots
    <2>4. /\ back \in [Slots -> Slots]
          /\ \A j \in Slots \ {1} : back[j] = j - 1 /\ back[j] # CacheSize
          /\ \A j, k \in Slots \ {1} : back[j] = back[k] => j = k
          /\ \A k \in Slots \ {CacheSize} : k + 1 \in Slots \ {1} /\ back[k + 1] = k
      BY <1>1, <2>3 DEF Slots
    <2> HIDE DEF back
    <2>5. /\ slots'[1] = p
          /\ \A j \in Slots \ {1} : slots'[j] = slots[back[j]]
          /\ slots' \in [Slots -> Ptrs \cup {Null}]
      BY <1>1, <2>2, <2>3, <2>4
    <2>6. \A j \in Slots \ {1} : slots'[j] # p
      BY <1>2, <1>4, <2>4, <2>5
    <2>7. ASSUME NEW j \in Slots \ {1}, slots'[j] # Null
          PROVE  slots'[j] # FreedByPut(f) /\ heap[slots'[j]].funcOid # f
      <3>1. slots'[j] = slots[back[j]] /\ back[j] \in Slots /\ back[j] # CacheSize
        BY <2>4, <2>5
      <3>2. slots[back[j]] # slots[CacheSize]
        BY <2>1, <2>7, <3>1, Distinct
      <3> QED BY <2>1, <2>7, <3>1, <3>2
    <2>8. ASSUME NEW q \in Ptrs \ {FreedByPut(f)}, heap[q] # Free
          PROVE  \E j \in Slots : slots'[j] = q
      <3>1. PICK k \in Slots : slots[k] = q
        BY <1>3, <2>8
      <3>2. k # CacheSize
        BY <2>1, <2>8, <3>1
      <3>3. k + 1 \in Slots \ {1} /\ back[k + 1] = k
        BY <2>4, <3>2
      <3> QED BY <2>5, <3>1, <3>3
    <2>9. Inserted(back, f, p)
      BY <1>1, <2>4, <2>5, <2>6, <2>7, <2>8 DEF Inserted
    <2> QED BY <2>4, <2>9
  <1> QED BY <1>5, <1>6

\* Building a description and putting it into the cache frees the one that has
\* to go, and no other.
LEMMA BuildKeeps ==
    ASSUME CacheInv, NEW f \in Funcs, NEW p, BuildInfo(f, p)
    PROVE  CacheInv'
  <1>1. p \in Ptrs /\ heap[p] = Free /\ slots' = AfterPut(f, p)
    BY DEF BuildInfo
  <1>2. PICK back \in [Slots -> Slots] : Inserted(back, f, p)
    BY <1>1, PutMoves
  <1> DEFINE new == NewInfo(f)
             freed == FreedByPut(f)
  <1>3. new \in Info /\ new # Free /\ new.funcOid = f
    BY Built
  <1>4. heap' = [q \in Ptrs |-> IF q = p THEN new
                                ELSE IF q = freed THEN Free ELSE heap[q]]
    BY DEF BuildInfo
  <1> HIDE DEF new, freed
  <1>5. heap \in [Ptrs -> Info \cup {Free}] /\ UNCHANGED catalogVars
    BY DEF CacheInv, CacheTypeOK, BuildInfo
  <1>6. CacheTypeOK'
    <2>1. heap' \in [Ptrs -> Info \cup {Free}]
      BY <1>3, <1>4, <1>5
    <2> QED BY <1>2, <1>5, <2>1 DEF CacheInv, CacheTypeOK, catalogVars, Inserted
  <1>7. ASSUME NEW j \in Slots, slots'[j] # Null, slots'[j] # p
        PROVE  /\ slots'[j] \in Ptrs /\ heap'[slots'[j]] = heap[slots'[j]]
               /\ slots'[j] = slots[back[j]] /\ back[j] \in Slots
               /\ heap[slots'[j]].funcOid # f
               /\ heap[slots'[j]] # Free
    <2>1. /\ slots'[j] = slots[back[j]] /\ back[j] \in Slots
          /\ slots'[j] # freed /\ heap[slots'[j]].funcOid # f
      BY <1>2, <1>7 DEF freed, Inserted
    <2>2. slots'[j] \in Ptrs
      BY <1>2, <1>7 DEF Inserted
    <2>3. heap[slots[back[j]]] # Free
      BY <1>7, <2>1 DEF CacheInv, SlotsOwnHeap
    <2> QED BY <1>4, <1>7, <2>1, <2>2, <2>3
  <1>8. heap'[p] = new
    BY <1>1, <1>4
  <1>9. \A j \in Slots : slots'[j] # Null => heap'[slots'[j]] # Free
    BY <1>3, <1>7, <1>8
  <1>10. \A q \in Ptrs : heap'[q] # Free => \E j \in Slots : slots'[j] = q
    <2> SUFFICES ASSUME NEW q \in Ptrs, heap'[q] # Free
                 PROVE  \E j \in Slots : slots'[j] = q
      OBVIOUS
    <2>1. CASE q = p
      BY <1>2, <2>1 DEF Inserted
    <2>2. CASE q # p
      <3>1. q # freed /\ heap[q] # Free
        BY <1>4, <2>2
      <3> QED BY <1>2, <3>1 DEF freed, Inserted
    <2> QED BY <2>1, <2>2
  <1>11. ASSUME NEW i \in Slots, NEW j \in Slots,
                slots'[i] # Null, slots'[j] # Null,
                heap'[slots'[i]].funcOid = heap'[slots'[j]].funcOid
         PROVE  i = j
    <2>1. CASE slots'[i] = p /\ slots'[j] = p
      BY <1>2, <2>1 DEF Inserted
    <2>2. CASE slots'[i] = p /\ slots'[j] # p
      BY <1>3, <1>7, <1>8, <1>11, <2>2
    <2>3. CASE slots'[i] # p /\ slots'[j] = p
      BY <1>3, <1>7, <1>8, <1>11, <2>3
    <2>4. CASE slots'[i] # p /\ slots'[j] # p
      <3>1. /\ back[i] \in Slots /\ back[j] \in Slots
            /\ slots[back[i]] = slots'[i] /\ slots[back[j]] = slots'[j]
            /\ heap[slots'[i]].funcOid = heap[slots'[j]].funcOid
        BY <1>7, <1>11, <2>4
      <3>2. back[i] = back[j]
        BY <1>11, <3>1 DEF CacheInv, SlotsOwnHeap
      <3> QED BY <1>2, <2>4, <3>2 DEF Inserted
    <2> QED BY <2>1, <2>2, <2>3, <2>4
  <1>12. SlotsOwnHeap'
    BY <1>9, <1>10, <1>11 DEF SlotsOwnHeap
  <1> QED BY <1>6, <1>12 DEF CacheInv

\* A failed lookup has moved its entry up, or has not reached the cache.
LEMMA FailKeeps ==
    ASSUME CacheInv, NEW f, GetProcInfoFails(f)
    PROVE  CacheInv'
  <1>1. heap' = heap /\ UNCHANGED catalogVars
    BY DEF GetProcInfoFails
  <1>2. heap \in [Ptrs -> Info \cup {Free}]
    BY DEF CacheInv, CacheTypeOK
  <1>3. CASE slots' = AfterGet(f)
    BY <1>1, <1>2, <1>3, GetKeeps
  <1>4. CASE slots' = slots
    BY <1>1, <1>4 DEF CacheInv, CacheTypeOK, SlotsOwnHeap, catalogVars
  <1> QED BY <1>3, <1>4 DEF GetProcInfoFails

\* The catalog has no part in who owns what.
LEMMA CatalogKeeps ==
    ASSUME CacheInv, CatalogChange
    PROVE  CacheInv'
  <1>1. UNCHANGED cacheVars
    BY DEF CatalogChange, ReplaceFunction, AlterType, AlterColumns
  <1>2. /\ procVer' \in [Funcs -> Versions]
        /\ typeVer' \in [RowTypes -> Versions]
        /\ colVer' \in [RowTypes -> Versions]
    <2>1. CASE \E f \in Funcs : ReplaceFunction(f)
      BY <2>1 DEF ReplaceFunction, CacheInv, CacheTypeOK
    <2>2. CASE \E t \in RowTypes : AlterType(t)
      BY <2>2 DEF AlterType, CacheInv, CacheTypeOK
    <2>3. CASE \E t \in RowTypes : AlterColumns(t)
      BY <2>3 DEF AlterColumns, CacheInv, CacheTypeOK
    <2> QED BY <2>1, <2>2, <2>3 DEF CatalogChange
  <1>3. CacheTypeOK'
    BY <1>1, <1>2 DEF CacheInv, CacheTypeOK, cacheVars
  <1>4. SlotsOwnHeap'
    BY <1>1 DEF CacheInv, SlotsOwnHeap, cacheVars
  <1> QED BY <1>3, <1>4 DEF CacheInv

\* The invariant is inductive.
LEMMA CacheStep == CacheInv /\ [CacheNext]_vars => CacheInv'
  <1> SUFFICES ASSUME CacheInv, [CacheNext]_vars PROVE CacheInv'
    OBVIOUS
  <1>1. ASSUME NEW f \in Funcs, NEW p \in Ptrs, GetProcInfo(f, p) PROVE CacheInv'
    BY <1>1, UseKeeps, BuildKeeps DEF GetProcInfo
  <1>2. ASSUME NEW f \in Funcs, GetProcInfoFails(f) PROVE CacheInv'
    BY <1>2, FailKeeps
  <1>3. CASE CatalogChange
    BY <1>3, CatalogKeeps
  <1>4. CASE UNCHANGED vars
    BY <1>4 DEF vars, cacheVars, catalogVars, CacheInv, CacheTypeOK, SlotsOwnHeap
  <1> QED BY <1>1, <1>2, <1>3, <1>4 DEF CacheNext

LEMMA CacheInvariance == CacheSpec => []CacheInv
  BY CacheStart, CacheStep, PTL DEF CacheSpec, vars

-----------------------------------------------------------------------------
(* Theorems.                                                               *)

\* Slots and heap keep their types, for any number of slots.
THEOREM CacheTypeCorrect == CacheSpec => []CacheTypeOK
  <1>1. CacheInv => CacheTypeOK
    BY DEF CacheInv
  <1> QED BY <1>1, CacheInvariance, PTL

\* No pointer in the cache dangles, no description leaks, and no function has
\* two, in a cache of any size.
THEOREM SlotsOwn == CacheSpec => []SlotsOwnHeap
  <1>1. CacheInv => SlotsOwnHeap
    BY DEF CacheInv
  <1> QED BY <1>1, CacheInvariance, PTL

-----------------------------------------------------------------------------
(* The cache implements LruCache.  The slots in use are the first ones, in  *)
(* the order of their last use; a use moves the slots before the one found, *)
(* or all of them, down by one.                                             *)

\* The first n of the slots s are in use.
Full(s, n) == n \in 0..CacheSize /\ \A j \in Slots : s[j] # Null <=> j <= n

\* Their functions, with the descriptions in h.
Recent(n, s, h) == [i \in 1..n |-> h[s[i]].funcOid]

FuncsIn(s, h) == [i \in 1..Cardinality({j \in Slots : s[j] # Null}) |-> h[s[i]].funcOid]

\* The functions r, up to m of them, after a use of f: the one at position k, or
\* none of them when there is no such position.
AfterUse(r, f, k, m) ==
    [i \in 1..m |-> IF i = 1 THEN f ELSE IF i <= k THEN r[i - 1] ELSE r[i]]

\* How many there are after a use, when there were n.
CountAfter(n, k) ==
    IF k <= n THEN n ELSE IF n < CacheSize THEN n + 1 ELSE CacheSize

\* f is in r at position k, or nowhere when there is no such position.
Stands(f, k, r) == k \in 1..(Len(r) + 1) /\ \A i \in 1..Len(r) : r[i] = f <=> i = k

\* p is what LruCache makes of r by a use of f at position k, when others are
\* what r has but f.
UsedLru(p, r, f, k, others) ==
    /\ p = SubSeq(<<f>> \o others, 1,
                  IF Len(others) < CacheSize THEN Len(others) + 1 ELSE CacheSize)
    /\ k <= Len(r) => p = <<f>> \o others

\* The slots t, with the descriptions in g, are what function_cache.c makes of s
\* and h by a use of f at slot k.
UsedSlots(t, g, s, h, f, k) ==
    /\ t[1] # Null /\ g[t[1]].funcOid = f
    /\ \A j \in Slots \ {1} :
          /\ t[j] = IF j <= k THEN s[j - 1] ELSE s[j]
          /\ t[j] # Null => g[t[j]].funcOid = h[t[j]].funcOid

LEMMA FuncsAre ==
    /\ CachedFuncs = FuncsIn(slots, heap)
    /\ CachedFuncs' = FuncsIn(slots', heap')
  BY DEF CachedFuncs, FuncsIn

LEMMA FullFuncs ==
    ASSUME NEW s, NEW h, NEW n, Full(s, n)
    PROVE  FuncsIn(s, h) = Recent(n, s, h)
  <1>1. n \in Nat /\ n <= CacheSize
    BY DEF Full
  <1>2. {j \in Slots : s[j] # Null} = 1..n
    BY <1>1 DEF Full, Slots
  <1>3. Cardinality(1..n) = n
    BY <1>1, FS_Interval
  <1> QED BY <1>2, <1>3 DEF FuncsIn, Recent

\* A function that is cached is there once, at the slot where it is found.
LEMMA RecentIs ==
    ASSUME CacheInv, NEW n, Full(slots, n)
    PROVE  /\ Recent(n, slots, heap) \in Seq(Funcs)
           /\ Len(Recent(n, slots, heap)) = n
           /\ \A f \in Funcs : Cached(f) =>
                 /\ SlotOf(f) \in 1..n
                 /\ \A i \in 1..n : Recent(n, slots, heap)[i] = f <=> i = SlotOf(f)
           /\ \A f \in Funcs : ~Cached(f) =>
                 \A i \in 1..n : Recent(n, slots, heap)[i] # f
  <1> DEFINE r == Recent(n, slots, heap)
  <1>1. n \in Nat /\ 1..n \subseteq Slots /\ \A i \in 1..n : slots[i] # Null
    BY DEF Full, Slots
  <1>2. \A i \in 1..n : r[i] = heap[slots[i]].funcOid
    BY DEF Recent
  <1>3. \A i \in 1..n : heap[slots[i]] \in Info
    BY <1>1 DEF CacheInv, CacheTypeOK, SlotsOwnHeap
  <1>4. \A info \in Info : info.funcOid \in Funcs
    BY DEF Info
  <1>5. r \in Seq(Funcs) /\ Len(r) = n
    <2>1. \A i \in 1..n : heap[slots[i]].funcOid \in Funcs
      BY <1>3, <1>4
    <2> QED BY <1>1, <2>1 DEF Recent
  <1> HIDE DEF r
  <1>6. ASSUME NEW f \in Funcs, Cached(f)
        PROVE  SlotOf(f) \in 1..n /\ \A i \in 1..n : r[i] = f <=> i = SlotOf(f)
    <2> DEFINE k == SlotOf(f)
    <2>1. /\ k \in Slots /\ slots[k] # Null /\ heap[slots[k]].funcOid = f
          /\ \A j \in Slots : slots[j] # Null /\ heap[slots[j]].funcOid = f => j = k
      BY <1>6, Lookup
    <2> HIDE DEF k
    <2>2. k \in 1..n
      BY <1>1, <2>1 DEF Full, Slots
    <2> QED BY <1>1, <1>2, <2>1, <2>2 DEF k
  <1>7. ASSUME NEW f \in Funcs, ~Cached(f), NEW i \in 1..n PROVE r[i] # f
    BY <1>1, <1>2, <1>7, NotCached
  <1> QED BY <1>5, <1>6, <1>7 DEF r

\* What LruCache makes of a use.
LEMMA LruUse ==
    ASSUME NEW r \in Seq(Funcs), Len(r) <= CacheSize, NEW f \in Funcs, NEW k,
           Stands(f, k, r)
    PROVE  UsedLru(AfterUse(r, f, k, CountAfter(Len(r), k)), r, f, k,
                   Selected(r, Funcs \ {f}))
  <1> DEFINE T == Funcs \ {f}
             o == Selected(r, T)
             q == <<f>> \o o
             n == Len(r)
             m == CountAfter(n, k)
  <1>0. k \in 1..(n + 1) /\ \A i \in 1..n : r[i] = f <=> i = k
    BY DEF Stands
  <1>1. \A i \in 1..n : r[i] \in T <=> i # k
    BY <1>0
  <1>2. o \in Seq(Funcs)
    <2>1. o \in Seq(Funcs \cap T)
      <3> HIDE DEF T
      <3> QED BY SelectedType
    <2> HIDE DEF o
    <2> QED BY <2>1
  <1>3. /\ Len(o) = IF k <= n THEN n - 1 ELSE n
        /\ \A j \in 1..Len(o) : o[j] = IF j < k THEN r[j] ELSE r[j + 1]
    <2> HIDE DEF T
    <2> QED BY <1>0, <1>1, SelectedBut
  <1> HIDE DEF o, T
  <1>4. n \in Nat /\ Len(o) \in Nat /\ q \in Seq(Funcs) /\ Len(q) = Len(o) + 1
    BY <1>2
  <1>5. \A i \in 1..Len(q) : q[i] = IF i = 1 THEN f ELSE o[i - 1]
    BY <1>2
  <1> HIDE DEF q
  <1>6. m \in Nat /\ m <= Len(q)
    BY <1>0, <1>3, <1>4 DEF CountAfter
  <1>7. ASSUME NEW i \in 1..m
        PROVE  q[i] = IF i = 1 THEN f ELSE IF i <= k THEN r[i - 1] ELSE r[i]
    <2>1. i \in 1..Len(q)
      BY <1>4, <1>6
    <2>2. CASE i = 1
      BY <1>5, <2>1, <2>2
    <2>3. CASE i # 1
      <3>1. i - 1 \in 1..Len(o) /\ (i - 1) + 1 = i /\ q[i] = o[i - 1]
        BY <1>4, <1>5, <2>1, <2>3
      <3>2. o[i - 1] = IF i - 1 < k THEN r[i - 1] ELSE r[i]
        BY <1>3, <3>1
      <3>3. i - 1 < k <=> i <= k
        BY <1>0
      <3> QED BY <2>3, <3>1, <3>2, <3>3
    <2> QED BY <2>2, <2>3
  <1>8. SubSeq(q, 1, m) = [i \in 1..m |-> q[i]]
    BY <1>4, <1>6
  <1>9. SubSeq(q, 1, m) = AfterUse(r, f, k, m)
    BY <1>7, <1>8 DEF AfterUse
  <1>10. m = IF Len(o) < CacheSize THEN Len(o) + 1 ELSE CacheSize
    BY <1>0, <1>3, <1>4 DEF CountAfter
  <1>11. ASSUME k <= n PROVE q = SubSeq(q, 1, m)
    <2>1. m = Len(q)
      BY <1>3, <1>4, <1>11 DEF CountAfter
    <2> QED BY <1>4, <2>1
  <1> QED BY <1>9, <1>10, <1>11 DEF o, q, T, UsedLru

\* What function_cache.c makes of a use.
LEMMA SlotsUse ==
    ASSUME NEW s, NEW h, NEW n, Full(s, n), NEW f, NEW k \in 1..(n + 1),
           NEW t, NEW g, UsedSlots(t, g, s, h, f, k)
    PROVE  /\ Full(t, CountAfter(n, k))
           /\ Recent(CountAfter(n, k), t, g)
                 = AfterUse(Recent(n, s, h), f, k, CountAfter(n, k))
  <1> DEFINE m == CountAfter(n, k)
  <1>0. m = IF k <= n THEN n ELSE IF n < CacheSize THEN n + 1 ELSE CacheSize
    BY DEF CountAfter
  <1> HIDE DEF m
  <1> USE DEF UsedSlots
  <1>1. n \in Nat /\ n <= CacheSize /\ k \in Nat /\ k >= 1 /\ k <= n + 1
    BY DEF Full
  <1>2. m \in Nat /\ m <= CacheSize /\ m >= 1 /\ m <= n + 1
    BY <1>0, <1>1
  <1>3. Slots = {j \in Nat : 1 <= j /\ j <= CacheSize}
    BY DEF Slots
  <1>4. ASSUME NEW j \in Slots PROVE t[j] # Null <=> j <= m
    <2>1. CASE j = 1
      BY <1>2, <2>1
    <2>2. CASE j # 1 /\ j <= k
      <3>1. j - 1 \in Slots /\ t[j] = s[j - 1]
        BY <1>3, <2>2
      <3>2. t[j] # Null <=> j - 1 <= n
        BY <3>1 DEF Full
      <3>3. j - 1 <= n <=> j <= m
        BY <1>0, <1>1, <1>2, <1>3, <2>2
      <3> QED BY <3>2, <3>3
    <2>3. CASE j # 1 /\ ~ (j <= k)
      <3>1. t[j] = s[j] /\ (t[j] # Null <=> j <= n)
        BY <2>3 DEF Full
      <3>2. j <= n <=> j <= m
        BY <1>0, <1>1, <1>2, <1>3, <2>3
      <3> QED BY <3>1, <3>2
    <2> QED BY <2>1, <2>2, <2>3
  <1>5. Full(t, m)
    BY <1>2, <1>4 DEF Full
  <1> DEFINE r == Recent(n, s, h)
  <1>6. \A i \in 1..n : r[i] = h[s[i]].funcOid
    BY DEF Recent
  <1> HIDE DEF r
  <1>7. ASSUME NEW i \in 1..m
        PROVE  g[t[i]].funcOid = IF i = 1 THEN f ELSE IF i <= k THEN r[i - 1] ELSE r[i]
    <2>1. CASE i = 1
      BY <2>1
    <2>2. CASE i # 1
      <3>1. i \in Slots \ {1} /\ i <= m
        BY <1>2, <1>3, <2>2
      <3>2. t[i] # Null /\ g[t[i]].funcOid = h[t[i]].funcOid
        BY <1>4, <3>1
      <3>3. CASE i <= k
        <4>1. i - 1 \in 1..n /\ t[i] = s[i - 1]
          BY <1>0, <1>1, <1>2, <3>1, <3>3
        <4> QED BY <1>6, <2>2, <3>2, <3>3, <4>1
      <3>4. CASE ~ (i <= k)
        <4>1. i \in 1..n /\ t[i] = s[i]
          BY <1>0, <1>1, <1>2, <3>1, <3>4
        <4> QED BY <1>6, <2>2, <3>2, <3>4, <4>1
      <3> QED BY <3>3, <3>4
    <2> QED BY <2>1, <2>2
  <1>8. Recent(m, t, g) = AfterUse(r, f, k, m)
    BY <1>7 DEF Recent, AfterUse
  <1> QED BY <1>5, <1>8 DEF r, m

\* LruCache and its proofs mean the same selection.
LEMMA LruSelected == \A s, T : Lru!Selected(s, T) = Selected(s, T)
  BY DEF Lru!Selected, Lru!SelectedUpTo, Selected, SelectedUpTo

\* A step that uses f is one of LruCache.
LEMMA UseIsUse ==
    ASSUME CacheInv, NEW n, Full(slots, n), NEW f \in Funcs,
           NEW k, k = IF Cached(f) THEN SlotOf(f) ELSE n + 1,
           UsedSlots(slots', heap', slots, heap, f, k)
    PROVE  /\ Full(slots', CountAfter(n, k))
           /\ Lru!UseKey(f)
           /\ Cached(f) => Lru!Touch(f)
  <1> DEFINE r == Recent(n, slots, heap)
             m == CountAfter(n, k)
             o == Selected(r, Funcs \ {f})
             p == AfterUse(r, f, k, m)
  <1>1. n \in Nat /\ n <= CacheSize
    BY DEF Full
  <1>2. /\ r \in Seq(Funcs) /\ Len(r) = n
        /\ k \in 1..(n + 1)
        /\ \A i \in 1..n : r[i] = f <=> i = k
        /\ Cached(f) => k \in 1..n
    BY <1>1, RecentIs
  <1>3. Stands(f, k, r)
    BY <1>2 DEF Stands
  <1>4. CachedFuncs = r
    BY FuncsAre, FullFuncs
  <1>5. Full(slots', m) /\ Recent(m, slots', heap') = p
    BY <1>2, SlotsUse
  <1>6. CachedFuncs' = p
    <2> HIDE DEF m
    <2> QED BY <1>5, FuncsAre, FullFuncs
  <1> HIDE DEF r
  <1>7. UsedLru(p, r, f, k, o)
    BY <1>1, <1>2, <1>3, LruUse
  <1>8. Lru!Others(f) = o
    BY <1>4, LruSelected DEF Lru!Others
  <1> HIDE DEF o, p
  <1>9. Lru!UseKey(f)
    BY <1>6, <1>7, <1>8 DEF Lru!UseKey, UsedLru
  <1>10. ASSUME Cached(f) PROVE Lru!Touch(f)
    <2>1. k \in 1..Len(CachedFuncs) /\ CachedFuncs[k] = f
      BY <1>2, <1>4, <1>10
    <2>2. CachedFuncs' = <<f>> \o o
      BY <1>2, <1>6, <1>7, <1>10 DEF UsedLru
    <2> QED BY <1>8, <2>1, <2>2 DEF Lru!Touch
  <1> QED BY <1>5, <1>9, <1>10

\* What MovedUp leaves in the slots after the first.
LEMMA MovedSlots ==
    ASSUME NEW s, NEW k \in Slots
    PROVE  /\ MovedUp(s, k)[1] = s[k]
           /\ \A j \in Slots \ {1} : MovedUp(s, k)[j] = IF j <= k THEN s[j - 1] ELSE s[j]
  BY DEF MovedUp, Slots

\* A lookup that finds a description uses it, whether or not it is good.
LEMMA GetUses ==
    ASSUME CacheInv, NEW n, Full(slots, n), NEW f \in Funcs, Cached(f),
           slots' = AfterGet(f),
           \A q \in Ptrs : heap[q] # Free => heap'[q].funcOid = heap[q].funcOid
    PROVE  (\E m : Full(slots', m)) /\ Lru!UseKey(f) /\ Lru!Touch(f)
  <1> DEFINE k == SlotOf(f)
  <1>1. k \in Slots /\ slots[k] # Null /\ heap[slots[k]].funcOid = f
    BY Lookup
  <1>2. slots' = MovedUp(slots, k)
    BY DEF AfterGet
  <1>3. k = IF Cached(f) THEN SlotOf(f) ELSE n + 1
    OBVIOUS
  <1> HIDE DEF k
  <1>4. /\ slots'[1] = slots[k]
        /\ \A j \in Slots \ {1} : slots'[j] = IF j <= k THEN slots[j - 1] ELSE slots[j]
    BY <1>1, <1>2, MovedSlots
  <1>5. \A i \in Slots : slots[i] # Null => heap'[slots[i]].funcOid = heap[slots[i]].funcOid
    BY DEF CacheInv, CacheTypeOK, SlotsOwnHeap
  <1>6. \A j \in Slots \ {1} : j <= k => j - 1 \in Slots
    BY DEF Slots
  <1>7. UsedSlots(slots', heap', slots, heap, f, k)
    BY <1>1, <1>4, <1>5, <1>6 DEF UsedSlots
  <1> QED BY <1>3, <1>7, UseIsUse

\* get_proc_info uses the function it is asked for.
LEMMA UseCachedUses ==
    ASSUME CacheInv, NEW n, Full(slots, n), NEW f \in Funcs, NEW p, UseCached(f, p)
    PROVE  (\E m : Full(slots', m)) /\ Lru!UseKey(f)
  <1>1. Cached(f) /\ p \in Ptrs /\ heap[p] \in Info
    BY Lookup DEF UseCached, Valid
  <1> DEFINE r == [heap[p] EXCEPT !.hasChanged = FALSE]
  <1>2. r.funcOid = heap[p].funcOid
    BY <1>1, Unflagged
  <1>3. heap' = [heap EXCEPT ![p] = r] /\ slots' = AfterGet(f)
    BY DEF UseCached
  <1> HIDE DEF r
  <1>4. heap \in [Ptrs -> Info \cup {Free}]
    BY DEF CacheInv, CacheTypeOK
  <1>5. \A q \in Ptrs : heap[q] # Free => heap'[q].funcOid = heap[q].funcOid
    BY <1>2, <1>3, <1>4
  <1> QED BY <1>1, <1>3, <1>5, GetUses

LEMMA BuildUses ==
    ASSUME CacheInv, NEW n, Full(slots, n), NEW f \in Funcs, NEW p, BuildInfo(f, p)
    PROVE  (\E m : Full(slots', m)) /\ Lru!UseKey(f)
  <1> DEFINE k == IF Cached(f) THEN SlotOf(f) ELSE n + 1
  <1>1. /\ p \in Ptrs /\ heap[p] = Free /\ slots' = AfterPut(f, p)
        /\ heap' = [q \in Ptrs |-> IF q = p THEN NewInfo(f)
                                   ELSE IF q = FreedByPut(f) THEN Free
                                   ELSE heap[q]]
    BY DEF BuildInfo
  <1>2. heap'[p].funcOid = f
    BY <1>1, Built
  <1>3. n \in 0..CacheSize /\ \A j \in Slots : slots[j] # Null <=> j <= n
    BY DEF Full
  <1>4. \A i \in Slots : slots[i] # Null => slots[i] \in Ptrs /\ slots[i] # p
    BY <1>1 DEF CacheInv, CacheTypeOK, SlotsOwnHeap
  <1>5. p # Null /\ 1 \in Slots /\ \A j \in Slots \ {1} : j - 1 \in Slots
    BY <1>1 DEF Slots
  <1>6. /\ slots'[1] = p
        /\ \A j \in Slots \ {1} :
              /\ slots'[j] = IF j <= k THEN slots[j - 1] ELSE slots[j]
              /\ slots'[j] # Null => slots'[j] # FreedByPut(f)
              /\ \E i \in Slots : slots'[j] = slots[i]
    <2>1. CASE Cached(f)
      <3> DEFINE i == SlotOf(f)
      <3>1. i \in Slots /\ FreedByPut(f) = slots[i] /\ k = i
        BY <2>1, Lookup DEF FreedByPut
      <3>2. slots' = [MovedUp(slots, i) EXCEPT ![1] = p]
        BY <1>1, <2>1 DEF AfterPut, AfterGet
      <3> HIDE DEF i, k
      <3>3. slots'[1] = p /\ \A j \in Slots \ {1} : slots'[j] = MovedUp(slots, i)[j]
        BY <1>5, <3>2 DEF MovedUp
      <3>4. \A j \in Slots \ {1} : slots'[j] = IF j <= k THEN slots[j - 1] ELSE slots[j]
        BY <3>1, <3>3, MovedSlots
      <3>5. ASSUME NEW j \in Slots \ {1}
            PROVE  \E h \in Slots : slots'[j] = slots[h] /\ h # i
        <4>1. CASE j <= i
          <5>1. j - 1 \in Slots /\ j - 1 # i
            BY <1>5, <3>1, <4>1 DEF Slots
          <5> QED BY <3>1, <3>4, <4>1, <5>1
        <4>2. CASE ~ (j <= i)
          <5>1. j # i
            BY <3>1, <4>2 DEF Slots
          <5> QED BY <3>1, <3>4, <4>2, <5>1
        <4> QED BY <4>1, <4>2
      <3>6. ASSUME NEW j \in Slots \ {1}, slots'[j] # Null PROVE slots'[j] # slots[i]
        BY <3>1, <3>5, <3>6, Distinct
      <3> QED BY <3>1, <3>3, <3>4, <3>5, <3>6
    <2>2. CASE ~Cached(f)
      <3>1. k = n + 1 /\ FreedByPut(f) = slots[CacheSize]
        BY <2>2 DEF FreedByPut
      <3>2. slots'[1] = p /\ \A j \in Slots \ {1} : slots'[j] = slots[j - 1]
        BY <1>1, <1>5, <2>2 DEF AfterPut
      <3> HIDE DEF k
      <3>3. ASSUME NEW j \in Slots \ {1}
            PROVE  slots'[j] = IF j <= k THEN slots[j - 1] ELSE slots[j]
        <4>1. CASE j <= n + 1
          BY <3>1, <3>2, <4>1
        <4>2. CASE ~ (j <= n + 1)
          <5>1. j - 1 \in Slots /\ ~ (j - 1 <= n) /\ ~ (j <= n)
            BY <1>3, <1>5, <4>2 DEF Slots
          <5>2. slots[j - 1] = Null /\ slots[j] = Null
            BY <1>3, <5>1
          <5> QED BY <3>2, <5>2
        <4> QED BY <4>1, <4>2
      <3>4. ASSUME NEW j \in Slots \ {1}, slots'[j] # Null
            PROVE  slots'[j] # slots[CacheSize]
        <4>1. j - 1 \in Slots /\ CacheSize \in Slots /\ j - 1 # CacheSize
          BY <1>5 DEF Slots
        <4> QED BY <3>2, <3>4, <4>1, Distinct
      <3>5. \A j \in Slots \ {1} : \E i \in Slots : slots'[j] = slots[i]
        BY <1>5, <3>2
      <3> QED BY <3>1, <3>2, <3>3, <3>4, <3>5
    <2> QED BY <2>1, <2>2
  <1>7. k = IF Cached(f) THEN SlotOf(f) ELSE n + 1
    OBVIOUS
  <1> HIDE DEF k
  <1>8. ASSUME NEW j \in Slots \ {1}, slots'[j] # Null
        PROVE  heap'[slots'[j]].funcOid = heap[slots'[j]].funcOid
    <2>1. slots'[j] \in Ptrs /\ slots'[j] # p /\ slots'[j] # FreedByPut(f)
      BY <1>4, <1>6, <1>8
    <2> QED BY <1>1, <2>1
  <1>9. UsedSlots(slots', heap', slots, heap, f, k)
    BY <1>2, <1>5, <1>6, <1>8 DEF UsedSlots
  <1> QED BY <1>7, <1>9, UseIsUse

\* A lookup that ends in an error leaves the cache as it is, or touches what it
\* found.
LEMMA FailTouches ==
    ASSUME CacheInv, NEW n, Full(slots, n), NEW f \in Funcs, GetProcInfoFails(f)
    PROVE  (\E m : Full(slots', m)) /\ (Lru!Touch(f) \/ CachedFuncs' = CachedFuncs)
  <1>1. heap' = heap
    BY DEF GetProcInfoFails
  <1>2. CASE slots' = AfterGet(f) /\ Cached(f)
    BY <1>1, <1>2, GetUses
  <1>3. CASE slots' = slots
    <2>1. CachedFuncs' = CachedFuncs
      BY <1>1, <1>3 DEF CachedFuncs
    <2> QED BY <1>3, <2>1
  <1>4. AfterGet(f) = slots \/ Cached(f)
    BY DEF AfterGet
  <1> QED BY <1>2, <1>3, <1>4 DEF GetProcInfoFails

LruInv == CacheInv /\ \E n : Full(slots, n)

LEMMA LruStart == CacheInit => LruInv /\ Lru!Init
  <1> SUFFICES ASSUME CacheInit PROVE LruInv /\ Lru!Init
    OBVIOUS
  <1>1. Full(slots, 0)
    BY DEF CacheInit, Full, Slots
  <1>2. CachedFuncs = Recent(0, slots, heap)
    BY <1>1, FuncsAre, FullFuncs
  <1>3. CachedFuncs = <<>>
    BY <1>2 DEF Recent
  <1> QED BY <1>1, <1>3, CacheStart DEF LruInv, Lru!Init

LEMMA LruStep == LruInv /\ [CacheNext]_vars => LruInv' /\ [Lru!Next]_CachedFuncs
  <1> SUFFICES ASSUME LruInv, [CacheNext]_vars
               PROVE  LruInv' /\ [Lru!Next]_CachedFuncs
    OBVIOUS
  <1>1. CacheInv'
    BY CacheStep DEF LruInv
  <1>2. PICK n : Full(slots, n)
    BY DEF LruInv
  <1>3. CacheInv
    BY DEF LruInv
  <1> DEFINE Keeps == (\E m : Full(slots', m)) /\ [Lru!Next]_CachedFuncs
  <1>4. ASSUME NEW f \in Funcs, NEW p \in Ptrs, GetProcInfo(f, p) PROVE Keeps
    <2>1. (\E m : Full(slots', m)) /\ Lru!UseKey(f)
      BY <1>2, <1>3, <1>4, UseCachedUses, BuildUses DEF GetProcInfo
    <2> QED BY <2>1 DEF Lru!Next
  <1>5. ASSUME NEW f \in Funcs, GetProcInfoFails(f) PROVE Keeps
    <2>1. (\E m : Full(slots', m)) /\ (Lru!Touch(f) \/ CachedFuncs' = CachedFuncs)
      BY <1>2, <1>3, <1>5, FailTouches
    <2> QED BY <2>1 DEF Lru!Next
  <1>6. ASSUME UNCHANGED cacheVars PROVE Keeps
    <2>1. slots' = slots /\ heap' = heap
      BY <1>6 DEF cacheVars
    <2>2. CachedFuncs' = CachedFuncs
      BY <2>1 DEF CachedFuncs
    <2> QED BY <1>2, <2>1, <2>2
  <1> HIDE DEF Keeps
  <1>7. ASSUME CatalogChange PROVE Keeps
    <2>1. UNCHANGED cacheVars
      BY <1>7 DEF CatalogChange, ReplaceFunction, AlterType, AlterColumns
    <2> QED BY <1>6, <2>1
  <1>8. ASSUME UNCHANGED vars PROVE Keeps
    <2>1. UNCHANGED cacheVars
      BY <1>8 DEF vars
    <2> QED BY <1>6, <2>1
  <1>9. Keeps
    BY <1>4, <1>5, <1>7, <1>8 DEF CacheNext
  <1> QED BY <1>1, <1>9 DEF LruInv, Keeps

\* The cache keeps the functions used last in the order of their use: each step
\* of function_cache.c is one of LruCache or changes nothing of it, for any
\* number of slots.
THEOREM LruRefined == CacheSpec => LruSpec
  <1>1. LruInv /\ [CacheNext]_vars => LruInv'
    BY LruStep
  <1>2. LruInv /\ [CacheNext]_vars => [Lru!Next]_CachedFuncs
    BY LruStep
  <1> QED BY <1>1, <1>2, LruStart, PTL DEF CacheSpec, vars, LruSpec, Lru!Spec
=============================================================================
