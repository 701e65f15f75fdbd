--------------------------- MODULE HandlerProofs ---------------------------
(***************************************************************************)
(* Proofs about CallHandler and SetReturning, for every number of          *)
(* functions, slots, contexts, nested calls, nodes, rows and evaluations.  *)
(*                                                                         *)
(* CallHandler: the stack is pushed, popped, or has its top changed; Sound *)
(* says what a stack keeps of contexts and subtransactions, and has one    *)
(* lemma for each of the three.                                            *)
(*                                                                         *)
(* SetReturning: a node is fetching from a context of its own evaluation,  *)
(* has none, or has one without a result, for which it waits or which it   *)
(* was refused: three kinds of nodes, and each action leads from one to    *)
(* another.                                                                *)
(*                                                                         *)
(* In both the cache keeps the invariant of FunctionCacheProofs, since a   *)
(* call does with it what FunctionCache allows.                            *)
(***************************************************************************)
EXTENDS CallHandler, SetReturning, FunctionCacheProofs, SequenceTheorems,
        FiniteSetTheorems

USE CallAssumption

\* The subtransactions open for the last frame of a stack: every call below the
\* last one is executing SQL.
OpenIn(st) == IF st = <<>> THEN 0
              ELSE IF Last(st).inSql THEN Len(st) ELSE Len(st) - 1

\* What a stack keeps, with callerContext c, an error on its way up or not, and
\* n open subtransactions.
Sound(st, c, r, n) ==
    /\ st \in Seq(Frames) /\ Len(st) <= MaxDepth
    /\ c \in Contexts \cup {NoContext}
    /\ r \in BOOLEAN
    /\ r => st # <<>>
    /\ n = OpenIn(st)
    /\ \A i \in 1..(Len(st) - 1) : st[i].inSql
    /\ \A i \in 2..Len(st) : st[i - 1].trapped \/ st[i].saved = st[i - 1].context
    /\ st # <<>> /\ ~r => Last(st).trapped \/ c = Last(st).context

StackInv == Sound(stack, callerContext, raising, subxacts)

\* What is known of a function, when something is: it is what the description
\* in the heap says, whether or not that is still up to date.
AsSent ==
    /\ lastSent = [f \in Funcs |-> lastSent[f]]
    /\ \A p \in Ptrs : heap[p] # Free =>
          lastSent[heap[p].funcOid] \in {Never, Described(heap[p])}

\* The inductive invariant.
CallInv == CacheInv /\ StackInv /\ AsSent

-----------------------------------------------------------------------------
(* Stacks.                                                                 *)

\* A stack that is not empty has a last frame, and one fewer below it.
LEMMA Popped ==
    ASSUME NEW st \in Seq(Frames), st # <<>>
    PROVE  LET b == SubSeq(st, 1, Len(st) - 1) IN
           /\ Len(st) \in Nat \ {0}
           /\ \A i \in 1..Len(st) : st[i] \in Frames
           /\ b \in Seq(Frames) /\ Len(b) = Len(st) - 1
           /\ \A i \in 1..Len(b) : b[i] = st[i]
           /\ b = <<>> <=> Len(st) = 1
  <1>1. Len(st) \in Nat \ {0}
    BY EmptySeq
  <1>2. \A i \in 1..Len(st) : st[i] \in Frames
    BY ElementOfSeq
  <1> DEFINE b == SubSeq(st, 1, Len(st) - 1)
  <1>3. /\ b \in Seq(Frames) /\ Len(b) = Len(st) - 1
        /\ \A i \in 1..Len(b) : b[i] = st[i]
    <2> DEFINE n == Len(st) - 1
    <2>1. n \in Int /\ \A i \in 1..n : st[i] \in Frames
      BY <1>1, <1>2
    <2>2. n \in Nat
      BY <1>1
    <2>3. b = SubSeq(st, 1, n)
      OBVIOUS
    <2> HIDE DEF b, n
    <2>4. /\ SubSeq(st, 1, n) \in Seq(Frames)
          /\ Len(SubSeq(st, 1, n)) = (IF 1 <= n THEN n - 1 + 1 ELSE 0)
          /\ \A i \in 1..(n - 1 + 1) : SubSeq(st, 1, n)[i] = st[1 + i - 1]
      BY <2>1, SubSeqProperties
    <2>5. b \in Seq(Frames) /\ Len(b) = n /\ \A i \in 1..n : b[i] = st[i]
      BY <2>2, <2>3, <2>4
    <2> QED BY <2>5 DEF n
  <1>4. b = <<>> <=> Len(b) = 0
    <2>1. b = <<>> => Len(b) = 0
      BY EmptySeq
    <2>2. b # <<>> => Len(b) # 0
      BY <1>3, EmptySeq
    <2> QED BY <2>1, <2>2
  <1> HIDE DEF b
  <1>5. b = <<>> <=> Len(st) = 1
    BY <1>1, <1>3, <1>4
  <1> QED BY <1>1, <1>2, <1>3, <1>5 DEF b

\* A frame put on top of a stack leaves those below it.
LEMMA Pushed ==
    ASSUME NEW st \in Seq(Frames), NEW fr \in Frames
    PROVE  /\ Append(st, fr) \in Seq(Frames) /\ Append(st, fr) # <<>>
           /\ Len(st) \in Nat /\ Len(Append(st, fr)) = Len(st) + 1
           /\ \A i \in 1..Len(st) : Append(st, fr)[i] = st[i]
           /\ Append(st, fr)[Len(st) + 1] = fr
           /\ Last(Append(st, fr)) = fr
  BY AppendProperties, LenProperties DEF Last

\* A call ends, with the context its caller works in, or with an error on its
\* way to the caller.
LEMMA PopSound ==
    ASSUME NEW st, NEW c, NEW r, NEW n, Sound(st, c, r, n), st # <<>>,
           NEW c2 \in Contexts \cup {NoContext}, NEW r2 \in BOOLEAN,
           r2 => SubSeq(st, 1, Len(st) - 1) # <<>>,
           SubSeq(st, 1, Len(st) - 1) # <<>> /\ ~r2 => c2 = Last(st).saved
    PROVE  Sound(SubSeq(st, 1, Len(st) - 1), c2, r2, Len(st) - 1)
  <1> DEFINE b == SubSeq(st, 1, Len(st) - 1)
  <1>1. /\ st \in Seq(Frames) /\ Len(st) <= MaxDepth
        /\ \A i \in 1..(Len(st) - 1) : st[i].inSql
        /\ \A i \in 2..Len(st) : st[i - 1].trapped \/ st[i].saved = st[i - 1].context
    BY DEF Sound
  <1>2. /\ Len(st) \in Nat \ {0}
        /\ b \in Seq(Frames) /\ Len(b) = Len(st) - 1
        /\ \A i \in 1..Len(b) : b[i] = st[i]
        /\ b = <<>> <=> Len(st) = 1
    BY <1>1, Popped
  <1>3. (r2 => b # <<>>) /\ (b # <<>> /\ ~r2 => c2 = st[Len(st)].saved)
    BY DEF Last
  <1> HIDE DEF b
  <1>4. MaxDepth \in Nat
    OBVIOUS
  <1>5. Len(b) <= MaxDepth
    BY <1>1, <1>2, <1>4
  <1>6. \A i \in 1..(Len(b) - 1) : b[i].inSql
    BY <1>1, <1>2
  <1>7. ASSUME NEW i \in 2..Len(b)
        PROVE  b[i - 1].trapped \/ b[i].saved = b[i - 1].context
    <2>1. i \in 2..Len(st) /\ b[i] = st[i] /\ b[i - 1] = st[i - 1]
      BY <1>2
    <2> QED BY <1>1, <2>1
  <1>8. b # <<>> => b[Len(b)] = st[Len(st) - 1] /\ b[Len(b)].inSql
    BY <1>1, <1>2
  <1>9. Len(st) - 1 = OpenIn(b)
    BY <1>2, <1>8 DEF OpenIn, Last
  <1>10. b # <<>> /\ ~r2 => Last(b).trapped \/ c2 = Last(b).context
    <2> SUFFICES ASSUME b # <<>>, ~r2 PROVE Last(b).trapped \/ c2 = Last(b).context
      OBVIOUS
    <2>1. Len(st) \in 2..Len(st)
      BY <1>2
    <2>2. st[Len(st) - 1].trapped \/ st[Len(st)].saved = st[Len(st) - 1].context
      BY <1>1, <2>1
    <2> QED BY <1>3, <1>8, <2>2 DEF Last
  <1>11. Sound(b, c2, r2, Len(st) - 1)
    BY <1>2, <1>3, <1>5, <1>6, <1>7, <1>9, <1>10 DEF Sound
  <1> QED BY <1>11 DEF b

\* The last call goes on, in the contexts it has.
LEMMA TopSound ==
    ASSUME NEW st, NEW c, NEW r, NEW n, Sound(st, c, r, n), st # <<>>,
           NEW fr \in Frames, NEW r2 \in BOOLEAN,
           fr.context = Last(st).context, fr.saved = Last(st).saved,
           ~r2 => fr.trapped \/ c = fr.context
    PROVE  Sound(Append(SubSeq(st, 1, Len(st) - 1), fr), c, r2,
                 IF fr.inSql THEN Len(st) ELSE Len(st) - 1)
  <1> DEFINE b == SubSeq(st, 1, Len(st) - 1)
             t == Append(b, fr)
  <1>1. /\ st \in Seq(Frames) /\ Len(st) <= MaxDepth
        /\ c \in Contexts \cup {NoContext}
        /\ \A i \in 1..(Len(st) - 1) : st[i].inSql
        /\ \A i \in 2..Len(st) : st[i - 1].trapped \/ st[i].saved = st[i - 1].context
    BY DEF Sound
  <1>2. /\ Len(st) \in Nat \ {0}
        /\ b \in Seq(Frames) /\ Len(b) = Len(st) - 1
        /\ \A i \in 1..Len(b) : b[i] = st[i]
    BY <1>1, Popped
  <1> HIDE DEF b
  <1>3. /\ t \in Seq(Frames) /\ t # <<>>
        /\ Len(t) = Len(b) + 1
        /\ \A i \in 1..Len(b) : t[i] = b[i]
        /\ t[Len(b) + 1] = fr /\ Last(t) = fr
    BY <1>2, Pushed
  <1> HIDE DEF t
  <1>4. Len(t) = Len(st) /\ t[Len(st)] = fr /\ \A i \in 1..(Len(st) - 1) : t[i] = st[i]
    BY <1>2, <1>3
  <1>5. fr.saved = st[Len(st)].saved
    BY DEF Last
  <1>6. \A i \in 1..(Len(t) - 1) : t[i].inSql
    BY <1>1, <1>4
  <1>7. ASSUME NEW i \in 2..Len(t)
        PROVE  t[i - 1].trapped \/ t[i].saved = t[i - 1].context
    <2>1. i - 1 \in 1..(Len(st) - 1) /\ i \in 2..Len(st)
      BY <1>2, <1>4
    <2>2. t[i - 1] = st[i - 1] /\ t[i].saved = st[i].saved
      <3>1. CASE i = Len(st)
        BY <1>4, <1>5, <2>1, <3>1
      <3>2. CASE i # Len(st)
        BY <1>2, <1>4, <2>1, <3>2
      <3> QED BY <3>1, <3>2
    <2> QED BY <1>1, <2>1, <2>2
  <1>8. OpenIn(t) = IF fr.inSql THEN Len(st) ELSE Len(st) - 1
    BY <1>3, <1>4 DEF OpenIn
  <1>9. Sound(t, c, r2, IF fr.inSql THEN Len(st) ELSE Len(st) - 1)
    BY <1>1, <1>3, <1>4, <1>6, <1>7, <1>8 DEF Sound
  <1> QED BY <1>9 DEF t, b

\* A call begins, from the client or from the SQL of the last call.
LEMMA PushSound ==
    ASSUME NEW st, NEW c, NEW n, Sound(st, c, FALSE, n),
           st # <<>> => Last(st).inSql, Len(st) < MaxDepth,
           NEW fr \in Frames, fr.saved = c, ~fr.inSql
    PROVE  Sound(Append(st, fr), fr.context, FALSE, n)
  <1> DEFINE t == Append(st, fr)
  <1>1. /\ st \in Seq(Frames) /\ n = OpenIn(st)
        /\ \A i \in 1..(Len(st) - 1) : st[i].inSql
        /\ \A i \in 2..Len(st) : st[i - 1].trapped \/ st[i].saved = st[i - 1].context
        /\ st # <<>> => st[Len(st)].trapped \/ c = st[Len(st)].context
    BY DEF Sound, Last
  <1>2. /\ t \in Seq(Frames) /\ t # <<>>
        /\ Len(st) \in Nat /\ Len(t) = Len(st) + 1
        /\ \A i \in 1..Len(st) : t[i] = st[i]
        /\ t[Len(st) + 1] = fr /\ Last(t) = fr
    BY <1>1, Pushed
  <1> HIDE DEF t
  <1>3. st = <<>> <=> Len(st) = 0
    <2>1. st = <<>> => Len(st) = 0
      BY EmptySeq
    <2>2. st # <<>> => Len(st) # 0
      BY <1>1, EmptySeq
    <2> QED BY <2>1, <2>2
  <1>4. \A i \in 1..Len(st) : st[i].inSql
    BY <1>1, <1>2, <1>3 DEF Last
  <1>5. n = Len(st)
    BY <1>1, <1>3 DEF OpenIn
  <1>6. n = OpenIn(t)
    BY <1>2, <1>5 DEF OpenIn
  <1>7. \A i \in 1..(Len(t) - 1) : t[i].inSql
    BY <1>2, <1>4
  <1>8. ASSUME NEW i \in 2..Len(t)
        PROVE  t[i - 1].trapped \/ t[i].saved = t[i - 1].context
    <2>1. CASE i = Len(t)
      <3>1. i - 1 = Len(st) /\ Len(st) # 0 /\ t[i] = fr /\ t[i - 1] = st[Len(st)]
        BY <1>2, <2>1
      <3> QED BY <1>1, <1>3, <3>1
    <2>2. CASE i # Len(t)
      <3>1. i \in 2..Len(st) /\ t[i] = st[i] /\ t[i - 1] = st[i - 1]
        BY <1>2, <2>2
      <3> QED BY <1>1, <3>1
    <2> QED BY <2>1, <2>2
  <1>9. Len(t) <= MaxDepth
    BY <1>2
  <1>10. fr.context \in Contexts
    BY DEF Frames
  <1>11. Sound(t, fr.context, FALSE, n)
    BY <1>2, <1>6, <1>7, <1>8, <1>9, <1>10 DEF Sound
  <1> QED BY <1>11 DEF t

\* An error is raised in the last call, or a call that has not yet begun.
LEMMA RaiseSound ==
    ASSUME NEW st, NEW c, NEW r, NEW n, Sound(st, c, r, n),
           NEW c2 \in Contexts \cup {NoContext}, NEW r2 \in BOOLEAN,
           r2 <=> st # <<>>
    PROVE  Sound(st, c2, r2, n)
  BY DEF Sound

-----------------------------------------------------------------------------
(* Descriptions and requests.                                              *)

\* A description in the heap is the one its function is cached with.
LEMMA OneInfo ==
    ASSUME CacheInv, NEW q \in Ptrs, heap[q] # Free
    PROVE  /\ Cached(heap[q].funcOid)
           /\ q = CachedInfo(heap[q].funcOid)
           /\ heap[q].funcOid \in Funcs
  <1> DEFINE f == heap[q].funcOid
  <1>1. PICK i \in Slots : slots[i] = q
    BY DEF CacheInv, SlotsOwnHeap
  <1>2. slots[i] # Null /\ heap[slots[i]].funcOid = f
    BY <1>1, CacheAssumption
  <1>3. Cached(f)
    BY <1>2 DEF Cached, Caching
  <1>4. heap[q] \in Info
    BY DEF CacheInv, CacheTypeOK
  <1>5. f \in Funcs
    BY <1>4 DEF Info
  <1> HIDE DEF f
  <1>6. i = SlotOf(f) /\ CachedInfo(f) = slots[SlotOf(f)]
    BY <1>2, <1>3, Lookup
  <1>7. q = CachedInfo(f)
    BY <1>1, <1>6
  <1> QED BY <1>3, <1>5, <1>7 DEF f

\* get_proc_info returns a description of its function, and leaves those of other
\* functions alone.  One that was found in the cache was sent already.
LEMMA GetDescribes ==
    ASSUME CacheInv, AsSent, NEW f \in Funcs, NEW p \in Ptrs, GetProcInfo(f, p)
    PROVE  /\ heap'[p] # Free /\ heap'[p].funcOid = f
           /\ \A q \in Ptrs \ {p} : heap'[q] # Free =>
                 heap'[q] = heap[q] /\ heap[q].funcOid # f
           /\ lastSent[f] \in {Never, Described(heap'[p])} \/ heap'[p].hasChanged
  <1>0. heap \in [Ptrs -> Info \cup {Free}]
    BY DEF CacheInv, CacheTypeOK
  <1>1. CASE UseCached(f, p)
    <2>1. p = CachedInfo(f) /\ heap[p] \in Info /\ heap[p].funcOid = f
      BY <1>1, Lookup DEF UseCached, Valid
    <2> DEFINE r == [heap[p] EXCEPT !.hasChanged = FALSE]
    <2>2. r \in Info /\ r.funcOid = heap[p].funcOid /\ r.ver = heap[p].ver
          /\ r.cols = heap[p].cols
      BY <2>1, Unflagged
    <2>3. heap' = [heap EXCEPT ![p] = r]
      BY <1>1 DEF UseCached
    <2> HIDE DEF r
    <2>4. heap'[p] = r /\ \A q \in Ptrs \ {p} : heap'[q] = heap[q]
      BY <1>0, <2>3
    <2>5. \A q \in Ptrs \ {p} : heap[q] # Free => heap[q].funcOid # f
      BY <2>1, OneInfo
    <2>6. lastSent[f] \in {Never, Described(heap[p])}
      BY <2>1, FreeIsNoInfo DEF AsSent
    <2>7. Described(heap'[p]) = Described(heap[p])
      BY <2>2, <2>4 DEF Described
    <2>8. heap'[p] # Free /\ heap'[p].funcOid = f
      BY <2>1, <2>2, <2>4, FreeIsNoInfo
    <2> QED BY <2>4, <2>5, <2>6, <2>7, <2>8
  <1>2. CASE BuildInfo(f, p)
    <2> DEFINE r == NewInfo(f)
               freed == FreedByPut(f)
    <2>1. r # Free /\ r.funcOid = f /\ r.hasChanged
      BY Built
    <2>2. heap' = [q \in Ptrs |-> IF q = p THEN r ELSE IF q = freed THEN Free ELSE heap[q]]
      BY <1>2 DEF BuildInfo
    <2> HIDE DEF r
    <2>3. heap'[p] = r
      BY <2>2
    <2>4. ASSUME NEW q \in Ptrs \ {p}, heap'[q] # Free
          PROVE  heap'[q] = heap[q] /\ heap[q].funcOid # f
      <3>1. q # freed /\ heap'[q] = heap[q] /\ heap[q] # Free
        BY <2>2, <2>4
      <3>2. ASSUME heap[q].funcOid = f PROVE FALSE
        <4>1. Cached(f) /\ q = CachedInfo(f)
          BY <3>1, <3>2, OneInfo
        <4>2. freed = CachedInfo(f)
          BY <4>1 DEF FreedByPut
        <4> QED BY <3>1, <4>1, <4>2
      <3> QED BY <3>1, <3>2
    <2> QED BY <2>1, <2>3, <2>4
  <1> QED BY <1>1, <1>2 DEF GetProcInfo

\* What is claimed of the function looked up is what its request has sent, or
\* nothing; of the others, what was claimed before.
LEMMA GetSent ==
    ASSUME CacheInv, AsSent, NEW f \in Funcs, NEW p \in Ptrs, GetProcInfo(f, p),
           \/ lastSent' = [lastSent EXCEPT ![f] = Described(heap'[p])]
           \/ lastSent' = [lastSent EXCEPT ![f] = Never]
    PROVE  AsSent'
  <1>1. /\ heap'[p] # Free /\ heap'[p].funcOid = f
        /\ \A q \in Ptrs \ {p} : heap'[q] # Free =>
              heap'[q] = heap[q] /\ heap[q].funcOid # f
    BY GetDescribes
  <1>2. lastSent = [g \in Funcs |-> lastSent[g]]
    BY DEF AsSent
  <1>3. /\ lastSent' = [g \in Funcs |-> lastSent'[g]]
        /\ lastSent'[f] \in {Never, Described(heap'[p])}
        /\ \A g \in Funcs \ {f} : lastSent'[g] = lastSent[g]
    BY <1>2
  <1>4. ASSUME NEW q \in Ptrs, heap'[q] # Free
        PROVE  lastSent'[heap'[q].funcOid] \in {Never, Described(heap'[q])}
    <2>1. CASE q = p
      BY <1>1, <1>3, <2>1
    <2>2. CASE q # p
      <3>1. heap'[q] = heap[q] /\ heap[q].funcOid # f /\ heap[q] # Free
        BY <1>1, <1>4, <2>2
      <3>2. heap[q].funcOid \in Funcs
        BY <3>1, OneInfo
      <3> QED BY <1>3, <3>1, <3>2 DEF AsSent
    <2> QED BY <2>1, <2>2
  <1> QED BY <1>3, <1>4 DEF AsSent, Never, Described

\* Nothing is sent, and no description is built or freed.
LEMMA NothingSent ==
    ASSUME AsSent, heap' = heap, lastSent' = lastSent
    PROVE  AsSent'
  BY DEF AsSent, Never, Described

-----------------------------------------------------------------------------
(* The actions.                                                            *)

\* What a call does with the cache, and what other sessions do to the catalog.
LEMMA CacheOfCalls ==
    ASSUME CacheInv,
           \/ \E f \in Funcs, p \in Ptrs : GetProcInfo(f, p)
           \/ \E f \in Funcs : GetProcInfoFails(f)
           \/ CatalogChange
           \/ UNCHANGED <<cacheVars, catalogVars>>
    PROVE  CacheInv'
  BY CacheStep DEF CacheNext, vars

\* Where a call may be made there is a context for it, the last call is
\* executing SQL, and nothing is on its way up.
LEMMA Callable ==
    ASSUME StackInv, MayCall
    PROVE  /\ Sound(stack, callerContext, FALSE, subxacts)
           /\ stack # <<>> => Last(stack).inSql
           /\ Len(stack) < MaxDepth
           /\ NewContext \in Contexts
  <1>1. \E c \in Contexts : c \notin ContextsInUse
    BY DEF MayCall
  <1>2. NewContext \in Contexts
    BY <1>1 DEF NewContext
  <1>3. raising = FALSE
    BY DEF MayCall, StackInv, Sound
  <1> QED BY <1>2, <1>3 DEF StackInv, MayCall, Top, Last

\* A call is made.
LEMMA CallKeeps ==
    ASSUME CallInv, NEW f \in Funcs, NEW p \in Ptrs, Call(f, p)
    PROVE  CallInv'
  <1> DEFINE fr == [func |-> f, pinfo |-> p, context |-> NewContext,
                    saved |-> callerContext, inSql |-> FALSE, trapped |-> FALSE]
  <1>1. /\ Sound(stack, callerContext, FALSE, subxacts)
        /\ stack # <<>> => Last(stack).inSql
        /\ Len(stack) < MaxDepth
        /\ NewContext \in Contexts
    BY Callable DEF CallInv, Call
  <1>2. callerContext \in Contexts \cup {NoContext}
    BY <1>1 DEF Sound
  <1>3. fr \in Frames
    BY <1>1, <1>2 DEF Frames
  <1>4. fr.saved = callerContext /\ ~fr.inSql /\ fr.context = NewContext
    OBVIOUS
  <1>5. /\ stack' = Append(stack, fr) /\ callerContext' = NewContext
        /\ raising' = FALSE /\ subxacts' = subxacts
    BY DEF Call, MayCall, CallInv, StackInv, Sound
  <1> HIDE DEF fr
  <1>6. Sound(Append(stack, fr), fr.context, FALSE, subxacts)
    BY <1>1, <1>3, <1>4, PushSound
  <1>7. StackInv'
    BY <1>4, <1>5, <1>6 DEF StackInv
  <1>8. CacheInv' /\ AsSent'
    BY CacheOfCalls, GetSent DEF CallInv, Call, SentNothing
  <1> QED BY <1>7, <1>8 DEF CallInv

\* A call that could not connect, and one that failed before its request.
LEMMA UnsentKeeps ==
    ASSUME CallInv, NEW f \in Funcs, NEW p \in Ptrs,
           CallRefused(f, p) \/ RequestFails(f, p)
    PROVE  CallInv'
  <1>1. /\ GetProcInfo(f, p) /\ lastSent' = [lastSent EXCEPT ![f] = Never]
        /\ stack' = stack /\ subxacts' = subxacts /\ MayCall
    BY DEF CallRefused, RequestFails, SentNothing
  <1>2. CacheInv' /\ AsSent'
    BY <1>1, CacheOfCalls, GetSent DEF CallInv
  <1>3. Sound(stack, callerContext, raising, subxacts)
    BY DEF CallInv, StackInv
  <1>4. CASE CallRefused(f, p)
    BY <1>1, <1>2, <1>3, <1>4 DEF CallInv, StackInv, CallRefused
  <1>5. CASE RequestFails(f, p)
    <2>1. NewContext \in Contexts
      BY <1>1, Callable DEF CallInv
    <2>2. callerContext' = NewContext /\ raising' = (stack # <<>>)
      BY <1>5 DEF RequestFails, ErrorIn
    <2>3. Sound(stack, callerContext', raising', subxacts)
      BY <1>3, <2>1, <2>2, RaiseSound
    <2> QED BY <1>1, <1>2, <2>3 DEF CallInv, StackInv
  <1> QED BY <1>4, <1>5

\* A call whose function could not be looked up.
LEMMA CallFailsKeeps ==
    ASSUME CallInv, NEW f \in Funcs, CallFails(f)
    PROVE  CallInv'
  <1>1. /\ GetProcInfoFails(f) /\ MayCall /\ stack' = stack
        /\ subxacts' = subxacts /\ lastSent' = lastSent
        /\ callerContext' = NewContext /\ raising' = (stack # <<>>)
    BY DEF CallFails, ErrorIn
  <1>2. heap' = heap
    BY <1>1 DEF GetProcInfoFails
  <1>3. CacheInv' /\ AsSent'
    BY <1>1, <1>2, CacheOfCalls, NothingSent DEF CallInv
  <1>4. NewContext \in Contexts
    BY <1>1, Callable DEF CallInv
  <1>5. Sound(stack, callerContext, raising, subxacts)
    BY DEF CallInv, StackInv
  <1>6. Sound(stack, callerContext', raising', subxacts)
    BY <1>1, <1>4, <1>5, RaiseSound
  <1> QED BY <1>1, <1>3, <1>6 DEF CallInv, StackInv

\* The steps of a call that do not touch descriptions and requests.
LEMMA ServingKeeps ==
    ASSUME CallInv, StackInv', UNCHANGED <<lastSent, cacheVars, catalogVars>>
    PROVE  CallInv'
  <1>1. CacheInv'
    BY CacheOfCalls DEF CallInv
  <1>2. AsSent'
    BY NothingSent DEF CallInv, cacheVars
  <1> QED BY <1>1, <1>2 DEF CallInv

\* The fields of the last call, and how many subtransactions are open.
LEMMA TopFields ==
    ASSUME StackInv, stack # <<>>
    PROVE  /\ Last(stack) = Top /\ Top \in Frames
           /\ Len(stack) \in Nat \ {0}
           /\ Top.inSql \in BOOLEAN /\ Top.trapped \in BOOLEAN
           /\ Top.saved \in Contexts \cup {NoContext}
           /\ subxacts = IF Top.inSql THEN Len(stack) ELSE Len(stack) - 1
  <1>1. stack \in Seq(Frames) /\ subxacts = OpenIn(stack)
    BY DEF StackInv, Sound
  <1>2. Len(stack) \in Nat \ {0} /\ \A i \in 1..Len(stack) : stack[i] \in Frames
    BY <1>1, Popped
  <1>3. Last(stack) = Top /\ Top \in Frames
    BY <1>2 DEF Last, Top
  <1>4. /\ Top.inSql \in BOOLEAN /\ Top.trapped \in BOOLEAN
        /\ Top.saved \in Contexts \cup {NoContext}
    BY <1>3 DEF Frames
  <1>5. subxacts = IF Top.inSql THEN Len(stack) ELSE Len(stack) - 1
    BY <1>1, <1>3 DEF OpenIn
  <1> QED BY <1>2, <1>3, <1>4, <1>5

\* A call ends.
LEMMA PopKeeps ==
    ASSUME StackInv, stack # <<>>,
           stack' = Below,
           callerContext' \in Contexts \cup {NoContext},
           raising' \in BOOLEAN,
           raising' => Below # <<>>,
           Below # <<>> /\ ~raising' => callerContext' = Top.saved,
           subxacts' = Len(stack) - 1
    PROVE  StackInv'
  <1>1. Last(stack) = Top
    BY TopFields
  <1>2. Sound(stack, callerContext, raising, subxacts)
    BY DEF StackInv
  <1>3. Sound(Below, callerContext', raising', Len(stack) - 1)
    BY <1>1, <1>2, PopSound DEF Below
  <1> QED BY <1>3 DEF StackInv

\* The last call begins to execute SQL, ends it, or traps the error of a call.
LEMMA TopKeeps ==
    ASSUME StackInv, stack # <<>>, NEW fr \in Frames,
           stack' = WithTop(fr), callerContext' = callerContext,
           fr.context = Top.context, fr.saved = Top.saved,
           raising' = FALSE,
           fr.trapped \/ callerContext = fr.context,
           subxacts' = IF fr.inSql THEN Len(stack) ELSE Len(stack) - 1
    PROVE  StackInv'
  <1>1. Last(stack) = Top
    BY TopFields
  <1>2. Sound(stack, callerContext, raising, subxacts)
    BY DEF StackInv
  <1>3. Sound(WithTop(fr), callerContext, FALSE,
              IF fr.inSql THEN Len(stack) ELSE Len(stack) - 1)
    BY <1>1, <1>2, TopSound DEF WithTop, Below
  <1> QED BY <1>3 DEF StackInv

\* A frame with another value of inSql or trapped.
LEMMA NewTop ==
    ASSUME NEW fr \in Frames, NEW x \in BOOLEAN
    PROVE  LET s == [fr EXCEPT !.inSql = x]
               t == [fr EXCEPT !.trapped = x]
           IN /\ s \in Frames /\ s.context = fr.context /\ s.saved = fr.saved
              /\ s.inSql = x /\ s.trapped = fr.trapped
              /\ t \in Frames /\ t.context = fr.context /\ t.saved = fr.saved
              /\ t.trapped = x /\ t.inSql = fr.inSql
  BY DEF Frames

\* A call that waits for its peer has the context it works in, unless trapped.
LEMMA InContext ==
    ASSUME StackInv, InCall
    PROVE  /\ stack # <<>> /\ raising = FALSE
           /\ Top.trapped \/ callerContext = Top.context
           /\ callerContext \in Contexts \cup {NoContext}
  BY DEF StackInv, Sound, InCall, Last, Top

\* Every message of the peer, and every end of the SQL it wanted, keeps the
\* stack sound.
LEMMA ServeKeeps ==
    ASSUME StackInv,
           \/ Return \/ ResultRejected \/ PeerFails
           \/ SqlBegins \/ SqlReturns \/ SqlFails
    PROVE  StackInv'
  <1>1. InCall
    BY DEF Return, ResultRejected, PeerFails, SqlBegins, SqlReturns, SqlFails,
           Waiting, Executing
  <1>2. /\ stack # <<>> /\ raising = FALSE
        /\ Top.trapped \/ callerContext = Top.context
        /\ callerContext \in Contexts \cup {NoContext}
    BY <1>1, InContext
  <1>3. /\ Top \in Frames /\ Len(stack) \in Nat \ {0}
        /\ Top.saved \in Contexts \cup {NoContext}
        /\ subxacts = IF Top.inSql THEN Len(stack) ELSE Len(stack) - 1
    BY <1>2, TopFields
  <1>4. CASE Return
    <2>1. /\ stack' = Below /\ callerContext' = Top.saved /\ raising' = FALSE
          /\ subxacts' = Len(stack) - 1
      BY <1>2, <1>3, <1>4 DEF Return, Waiting
    <2> QED BY <1>2, <1>3, <2>1, PopKeeps
  <1>5. CASE ResultRejected
    <2>1. /\ stack' = Below /\ callerContext' = callerContext
          /\ raising' = (Below # <<>>) /\ subxacts' = Len(stack) - 1
      BY <1>3, <1>5 DEF ResultRejected, Waiting, ErrorIn
    <2> QED BY <1>2, <2>1, PopKeeps
  <1>6. CASE PeerFails \/ SqlFails
    <2>1. /\ stack' = stack /\ callerContext' = callerContext
          /\ raising' = TRUE /\ subxacts' = subxacts
      BY <1>6 DEF PeerFails, SqlFails
    <2>2. Sound(stack, callerContext, raising, subxacts)
      BY DEF StackInv
    <2>3. Sound(stack, callerContext, TRUE, subxacts)
      BY <1>2, <2>2, RaiseSound
    <2> QED BY <2>1, <2>3 DEF StackInv
  <1>7. CASE SqlBegins
    <2> DEFINE fr == [Top EXCEPT !.inSql = TRUE]
    <2>1. /\ fr \in Frames /\ fr.context = Top.context /\ fr.saved = Top.saved
          /\ fr.inSql = TRUE /\ fr.trapped = Top.trapped
      BY <1>3, NewTop
    <2>2. /\ stack' = WithTop(fr) /\ callerContext' = callerContext
          /\ raising' = FALSE /\ subxacts' = Len(stack)
      BY <1>2, <1>3, <1>7 DEF SqlBegins, Waiting
    <2> HIDE DEF fr
    <2> QED BY <1>2, <2>1, <2>2, TopKeeps
  <1>8. CASE SqlReturns
    <2> DEFINE fr == [Top EXCEPT !.inSql = FALSE]
    <2>1. /\ fr \in Frames /\ fr.context = Top.context /\ fr.saved = Top.saved
          /\ fr.inSql = FALSE /\ fr.trapped = Top.trapped
      BY <1>3, NewTop
    <2>2. /\ stack' = WithTop(fr) /\ callerContext' = callerContext
          /\ raising' = FALSE /\ subxacts' = Len(stack) - 1
      BY <1>2, <1>3, <1>8 DEF SqlReturns, Executing
    <2> HIDE DEF fr
    <2> QED BY <1>2, <2>1, <2>2, TopKeeps
  <1> QED BY <1>4, <1>5, <1>6, <1>7, <1>8

\* An error leaves one more call, or is trapped by the SQL that made it.
LEMMA ErrorKeeps ==
    ASSUME StackInv, Unwind \/ Trapped
    PROVE  StackInv'
  <1>1. raising /\ stack # <<>> /\ callerContext \in Contexts \cup {NoContext}
    BY DEF Unwind, Trapped, StackInv, Sound
  <1>2. /\ Top \in Frames /\ Len(stack) \in Nat \ {0}
        /\ subxacts = IF Top.inSql THEN Len(stack) ELSE Len(stack) - 1
    BY <1>1, TopFields
  <1>3. CASE Unwind
    <2>1. /\ stack' = Below /\ callerContext' = callerContext
          /\ raising' = (Below # <<>>) /\ subxacts' = Len(stack) - 1
      BY <1>2, <1>3 DEF Unwind, ErrorIn
    <2> QED BY <1>1, <2>1, PopKeeps
  <1>4. CASE Trapped
    <2> DEFINE fr == [Top EXCEPT !.trapped = TRUE]
    <2>1. /\ fr \in Frames /\ fr.context = Top.context /\ fr.saved = Top.saved
          /\ fr.inSql = Top.inSql /\ fr.trapped = TRUE
      BY <1>2, NewTop
    <2>2. /\ stack' = WithTop(fr) /\ callerContext' = callerContext
          /\ raising' = FALSE /\ subxacts' = Len(stack) /\ Top.inSql
      BY <1>2, <1>4 DEF Trapped
    <2> HIDE DEF fr
    <2> QED BY <1>1, <2>1, <2>2, TopKeeps
  <1> QED BY <1>3, <1>4

\* No call, no subtransaction, and nothing sent.
LEMMA CallStart == Init => CallInv
  <1> SUFFICES ASSUME Init PROVE CallInv
    OBVIOUS
  <1>1. CacheInv
    BY CacheStart DEF Init
  <1>2. stack \in Seq(Frames) /\ Len(stack) = 0
    BY EmptySeq DEF Init
  <1>3. /\ stack = <<>> /\ callerContext = NoContext /\ raising = FALSE
        /\ subxacts = 0
    BY DEF Init
  <1>4. Len(stack) <= MaxDepth /\ 1..(Len(stack) - 1) = {} /\ 2..Len(stack) = {}
    BY <1>2
  <1>5. subxacts = OpenIn(stack)
    BY <1>3 DEF OpenIn
  <1>6. StackInv
    BY <1>2, <1>3, <1>4, <1>5 DEF StackInv, Sound
  <1>7. AsSent
    BY DEF Init, CacheInit, AsSent
  <1> QED BY <1>1, <1>6, <1>7 DEF CallInv

\* The invariant is inductive.
LEMMA CallStep == CallInv /\ [Next]_allVars => CallInv'
  <1> SUFFICES ASSUME CallInv, [Next]_allVars PROVE CallInv'
    OBVIOUS
  <1>1. ASSUME NEW f \in Funcs, NEW p \in Ptrs, Call(f, p) PROVE CallInv'
    BY <1>1, CallKeeps
  <1>2. ASSUME NEW f \in Funcs, NEW p \in Ptrs, CallRefused(f, p) \/ RequestFails(f, p)
        PROVE  CallInv'
    BY <1>2, UnsentKeeps
  <1>3. ASSUME NEW f \in Funcs, CallFails(f) PROVE CallInv'
    BY <1>3, CallFailsKeeps
  <1>4. CASE \/ Return \/ ResultRejected \/ PeerFails
             \/ SqlBegins \/ SqlReturns \/ SqlFails
    <2>1. UNCHANGED <<lastSent, cacheVars, catalogVars>>
      BY <1>4 DEF Return, ResultRejected, PeerFails, SqlBegins, SqlReturns, SqlFails
    <2>2. StackInv'
      BY <1>4, ServeKeeps DEF CallInv
    <2> QED BY <2>1, <2>2, ServingKeeps
  <1>5. CASE Unwind \/ Trapped
    <2>1. UNCHANGED <<lastSent, cacheVars, catalogVars>>
      BY <1>5 DEF Unwind, Trapped
    <2>2. StackInv'
      BY <1>5, ErrorKeeps DEF CallInv
    <2> QED BY <2>1, <2>2, ServingKeeps
  <1>6. CASE CatalogChange /\ UNCHANGED callVars
    <2>1. CacheInv'
      BY <1>6, CacheOfCalls DEF CallInv
    <2>2. heap' = heap
      BY <1>6 DEF CatalogChange, ReplaceFunction, AlterType, AlterColumns,
                    cacheVars
    <2>3. AsSent' /\ StackInv'
      BY <1>6, <2>2, NothingSent DEF CallInv, callVars, StackInv
    <2> QED BY <2>1, <2>3 DEF CallInv
  <1>7. CASE UNCHANGED allVars
    <2>1. UNCHANGED <<lastSent, cacheVars, catalogVars>> /\ StackInv'
      BY <1>7 DEF allVars, callVars, CallInv, StackInv
    <2> QED BY <2>1, ServingKeeps
  <1> QED BY <1>1, <1>2, <1>3, <1>4, <1>5, <1>6, <1>7 DEF Next

LEMMA CallInvariance == Spec => []CallInv
  BY CallStart, CallStep, PTL DEF Spec

-----------------------------------------------------------------------------
(* Theorems.                                                               *)

\* The open subtransactions are those of the calls that are executing SQL.
LEMMA Balance == CallInv => SubxactsBalanced /\ subxacts \in Nat
  <1> SUFFICES ASSUME CallInv PROVE SubxactsBalanced /\ subxacts \in Nat
    OBVIOUS
  <1>1. /\ stack \in Seq(Frames) /\ subxacts = OpenIn(stack)
        /\ \A i \in 1..(Len(stack) - 1) : stack[i].inSql
    BY DEF CallInv, StackInv, Sound
  <1> DEFINE open == {i \in 1..Len(stack) : stack[i].inSql}
  <1>2. CASE stack = <<>>
    <2>1. Len(stack) = 0 /\ subxacts = 0
      BY <1>1, <1>2, EmptySeq DEF OpenIn
    <2>2. open = {}
      BY <2>1
    <2> QED BY <1>1, <2>1, <2>2, FS_EmptySet DEF SubxactsBalanced
  <1>3. CASE stack # <<>>
    <2>1. Len(stack) \in Nat \ {0}
      BY <1>1, <1>3, EmptySeq
    <2>2. subxacts \in Nat /\ open = 1..subxacts
      BY <1>1, <1>3, <2>1 DEF OpenIn, Last
    <2> HIDE DEF open
    <2>3. Cardinality(1..subxacts) = subxacts
      BY <2>2, FS_Interval
    <2>4. subxacts = Cardinality(open)
      BY <2>2, <2>3
    <2> QED BY <1>1, <2>2, <2>4 DEF SubxactsBalanced, open
  <1> QED BY <1>2, <1>3

\* The stack, the contexts and the count of subtransactions keep their types.
THEOREM CallTypeCorrect == Spec => []CallTypeOK
  <1>1. CallInv => CallTypeOK
    BY Balance DEF CallInv, CacheInv, StackInv, Sound, CallTypeOK
  <1> QED BY <1>1, CallInvariance, PTL

\* However deep calls and SQL nest, and whichever errors end them, each open
\* subtransaction is that of one call that is executing SQL.
THEOREM SubxactsBalance == Spec => []SubxactsBalanced
  <1> QED BY Balance, CallInvariance, PTL

\* A call that serves its peer works in the context of its own caller, unless
\* its SQL trapped an error.
THEOREM OwnContext == Spec => []ContextOfTop
  <1>1. CallInv => ContextOfTop
    BY DEF CallInv, StackInv, Sound, ContextOfTop, InCall, Last, Top
  <1> QED BY <1>1, CallInvariance, PTL

\* A request never says that a function is as the peer knows it when it describes
\* another source or other columns than the request before, whatever was evicted
\* and rebuilt in between.
THEOREM ChangeIsFlagged == Spec => ChangeFlagged
  <1>1. CallInv /\ [Next]_allVars =>
           [\A f \in Funcs, p \in Ptrs :
              /\ Call(f, p)
              /\ lastSent[f] # Never
              /\ lastSent[f] # Described(heap'[p])
              => heap'[p].hasChanged]_allVars
    BY GetDescribes DEF CallInv, Call
  <1> QED BY <1>1, CallInvariance, PTL DEF Spec, ChangeFlagged
-----------------------------------------------------------------------------
(* The calls use the cache as FunctionCache says.                          *)

\* Each step of a call looks a function up, fails to, or leaves the cache and
\* the catalog as they are.
LEMMA CallsUseCache == [Next]_allVars => [CacheNext]_vars
  <1> SUFFICES ASSUME [Next]_allVars PROVE [CacheNext]_vars
    OBVIOUS
  <1>1. ASSUME NEW f \in Funcs, NEW p \in Ptrs,
               Call(f, p) \/ CallRefused(f, p) \/ RequestFails(f, p)
        PROVE  CacheNext
    BY <1>1 DEF Call, CallRefused, RequestFails, CacheNext
  <1>2. ASSUME NEW f \in Funcs, CallFails(f)
        PROVE  CacheNext
    BY <1>2 DEF CallFails, CacheNext
  <1>3. ASSUME Return \/ ResultRejected \/ PeerFails \/ SqlBegins \/ SqlReturns
               \/ SqlFails \/ Unwind \/ Trapped
        PROVE  UNCHANGED vars
    BY <1>3 DEF Return, ResultRejected, PeerFails, SqlBegins, SqlReturns,
                SqlFails, Unwind, Trapped, vars
  <1>4. ASSUME CatalogChange
        PROVE  CacheNext
    BY <1>4 DEF CacheNext
  <1>5. ASSUME UNCHANGED allVars
        PROVE  UNCHANGED vars
    BY <1>5 DEF allVars, vars
  <1> QED BY <1>1, <1>2, <1>3, <1>4, <1>5 DEF Next

\* However calls nest and fail, the cache they share behaves as FunctionCache
\* on its own ...
THEOREM CallsRefineCache == Spec => CacheSpec
  <1>1. Init => CacheInit
    BY DEF Init
  <1> QED BY <1>1, CallsUseCache, PTL DEF Spec, CacheSpec, vars

\* ... and so is an LRU cache of the functions called last.
THEOREM CallsRefineLru == Spec => LruSpec
  BY CallsRefineCache, LruRefined, PTL

-----------------------------------------------------------------------------
(* SetReturning.                                                           *)

USE SetAssumption

SetContexts == [eval : Nat, rows : RowCounts \cup {NoResult}, resrow : Nat]

\* A node that has its context and has given the rows up to resrow.
Fetching(n) ==
    /\ fetching[n] = TRUE
    /\ fnExtra[n] \in SetContexts
    /\ fnExtra[n].eval = eval[n]
    /\ fnExtra[n].rows \in RowCounts
    /\ fnExtra[n].resrow \in 1..fnExtra[n].rows
    /\ given[n] = [eval |-> eval[n], row |-> fnExtra[n].resrow]
    /\ answered[n] = [eval |-> eval[n], rows |-> fnExtra[n].rows]

\* A node between two evaluations, and one without a result: it waits for it, or
\* was refused in this query.
Finished(n) == fetching[n] = FALSE /\ fnExtra[n] = NoFuncContext
Left(n) ==
    /\ fetching[n] = FALSE
    /\ fnExtra[n] \in SetContexts
    /\ fnExtra[n].rows = NoResult /\ fnExtra[n].resrow = 0

\* A node that waits has given no row of this evaluation.
Asked(n) ==
    /\ Left(n)
    /\ fnExtra[n].eval = eval[n]
    /\ given[n].eval # eval[n]

NodeOK(n) ==
    /\ eval[n] \in 0..MaxEvals
    /\ given[n] \in [eval : 0..eval[n], row : 0..MaxRows]
    /\ Fetching(n) \/ Finished(n) \/ Left(n)
    /\ waiting = n => Asked(n)

\* The state variables of the nodes are functions on them.
OnNodes ==
    /\ fnExtra = [n \in Nodes |-> fnExtra[n]]
    /\ eval = [n \in Nodes |-> eval[n]]
    /\ fetching = [n \in Nodes |-> fetching[n]]
    /\ given = [n \in Nodes |-> given[n]]
    /\ answered = [n \in Nodes |-> answered[n]]

\* The inductive invariant.
SetInv ==
    /\ CacheInv
    /\ OnNodes
    /\ waiting \in Nodes \cup {Nobody}
    /\ \A n \in Nodes : NodeOK(n)

-----------------------------------------------------------------------------
(* Contexts.                                                               *)

\* A FuncCallContext is not the lack of one.
LEMMA ContextIsSome == \A ctx \in SetContexts : ctx # NoFuncContext
  <1> SUFFICES ASSUME NEW ctx \in SetContexts, ctx = NoFuncContext PROVE FALSE
    OBVIOUS
  <1>1. DOMAIN ctx = {"eval", "rows", "resrow"}
    BY DEF SetContexts
  <1>2. DOMAIN NoFuncContext = {}
    BY DEF NoFuncContext
  <1> QED BY <1>1, <1>2

\* NoResult is no number of rows.
LEMMA NoResultIsNone == NoResult \notin RowCounts /\ NoResult \in Nat
  BY DEF NoResult, RowCounts

\* One row further in a context.
LEMMA NextRow ==
    ASSUME NEW ctx \in SetContexts
    PROVE  LET c == [ctx EXCEPT !.resrow = @ + 1] IN
           /\ c \in SetContexts /\ c.eval = ctx.eval /\ c.rows = ctx.rows
           /\ c.resrow = ctx.resrow + 1
  BY DEF SetContexts

\* A context of which the evaluation e of n may be given a row: what a refused
\* connection left, or the result of this evaluation.
Ready(n, ctx, e) ==
    /\ \/ ctx.rows = NoResult /\ ctx.resrow = 0
       \/ /\ ctx.rows \in RowCounts /\ ctx.resrow \in 0..ctx.rows /\ ctx.eval = e
          /\ answered'[n] = [eval |-> e, rows |-> ctx.rows]
    /\ given[n] \in [eval : 0..e, row : 0..MaxRows]

\* Nothing changes of the nodes but n.
Others(n) ==
    \A m \in Nodes \ {n} :
        /\ fnExtra'[m] = fnExtra[m] /\ eval'[m] = eval[m]
        /\ fetching'[m] = fetching[m] /\ given'[m] = given[m]

\* What ReturnRow has done with the row of ctx.
Returned(n, ctx, e) ==
    \/ fnExtra'[n] = ctx /\ ctx.rows = NoResult
    \/ given'[n] = [eval |-> e, row |-> ctx.resrow + 1]
    \/ /\ given'[n] = given[n] /\ ctx.rows \in RowCounts
       /\ ctx.resrow = ctx.rows /\ ~fetching'[n]

\* A call of the handler with the context it made or found.
LEMMA RowKeeps ==
    ASSUME OnNodes, NEW n \in Nodes, NEW ctx \in SetContexts, NEW e \in 0..MaxEvals,
           ReturnRow(n, ctx), Ready(n, ctx, e),
           eval' = [eval EXCEPT ![n] = e], answered' = [m \in Nodes |-> answered'[m]],
           waiting' = Nobody
    PROVE  OnNodes' /\ NodeOK(n)' /\ Others(n) /\ Returned(n, ctx, e)
  <1> USE DEF Ready, Others, Returned
  <1>1. /\ fnExtra = [m \in Nodes |-> fnExtra[m]] /\ eval = [m \in Nodes |-> eval[m]]
        /\ fetching = [m \in Nodes |-> fetching[m]] /\ given = [m \in Nodes |-> given[m]]
    BY DEF OnNodes
  <1>2. ctx.resrow \in Nat /\ waiting' # n
    BY DEF SetContexts
  <1>3. eval'[n] = e /\ eval' = [m \in Nodes |-> eval'[m]]
        /\ \A m \in Nodes \ {n} : eval'[m] = eval[m]
    BY <1>1
  <1>4. CASE ctx.rows = NoResult
    <2>1. /\ fnExtra' = [fnExtra EXCEPT ![n] = ctx]
          /\ fetching' = [fetching EXCEPT ![n] = FALSE] /\ given' = given
      BY <1>4 DEF ReturnRow
    <2>2. ctx.resrow = 0
      BY <1>4, NoResultIsNone
    <2>3. /\ fnExtra' = [m \in Nodes |-> fnExtra'[m]] /\ fnExtra'[n] = ctx
          /\ fetching' = [m \in Nodes |-> fetching'[m]] /\ fetching'[n] = FALSE
          /\ given' = [m \in Nodes |-> given'[m]] /\ given'[n] = given[n]
          /\ \A m \in Nodes \ {n} : /\ fnExtra'[m] = fnExtra[m]
                                    /\ fetching'[m] = fetching[m] /\ given'[m] = given[m]
      BY <1>1, <2>1
    <2>4. NodeOK(n)'
      BY <1>2, <1>3, <1>4, <2>2, <2>3 DEF NodeOK, Left
    <2> QED BY <1>3, <1>4, <2>3, <2>4 DEF OnNodes
  <1>5. CASE ctx.rows # NoResult /\ ctx.resrow >= ctx.rows
    <2>1. /\ fnExtra' = [fnExtra EXCEPT ![n] = NoFuncContext]
          /\ fetching' = [fetching EXCEPT ![n] = FALSE] /\ given' = given
      BY <1>5 DEF ReturnRow
    <2>2. ctx.rows \in RowCounts /\ ctx.resrow = ctx.rows
      BY <1>5 DEF RowCounts
    <2>3. /\ fnExtra' = [m \in Nodes |-> fnExtra'[m]] /\ fnExtra'[n] = NoFuncContext
          /\ fetching' = [m \in Nodes |-> fetching'[m]] /\ fetching'[n] = FALSE
          /\ given' = [m \in Nodes |-> given'[m]] /\ given'[n] = given[n]
          /\ \A m \in Nodes \ {n} : /\ fnExtra'[m] = fnExtra[m]
                                    /\ fetching'[m] = fetching[m] /\ given'[m] = given[m]
      BY <1>1, <2>1
    <2>4. NodeOK(n)'
      BY <1>2, <1>3, <2>3 DEF NodeOK, Finished, NoFuncContext
    <2> QED BY <1>3, <2>2, <2>3, <2>4 DEF OnNodes
  <1>6. CASE ctx.rows # NoResult /\ ~(ctx.resrow >= ctx.rows)
    <2> DEFINE c == [ctx EXCEPT !.resrow = @ + 1]
               g == [eval |-> ctx.eval, row |-> ctx.resrow + 1]
    <2>1. /\ fnExtra' = [fnExtra EXCEPT ![n] = c]
          /\ fetching' = [fetching EXCEPT ![n] = TRUE]
          /\ given' = [given EXCEPT ![n] = g]
      BY <1>6 DEF ReturnRow
    <2>2. /\ c \in SetContexts /\ c.eval = ctx.eval /\ c.rows = ctx.rows
          /\ c.resrow = ctx.resrow + 1
      BY NextRow
    <2>3. /\ ctx.rows \in RowCounts /\ ctx.resrow \in 0..ctx.rows /\ ctx.eval = e
          /\ answered'[n] = [eval |-> e, rows |-> ctx.rows]
      BY <1>6
    <2>4. /\ c.resrow \in 1..ctx.rows /\ g = [eval |-> e, row |-> c.resrow]
          /\ g \in [eval : 0..e, row : 0..MaxRows]
      BY <1>2, <1>6, <2>2, <2>3 DEF RowCounts
    <2> HIDE DEF c, g
    <2>5. /\ fnExtra' = [m \in Nodes |-> fnExtra'[m]] /\ fnExtra'[n] = c
          /\ fetching' = [m \in Nodes |-> fetching'[m]] /\ fetching'[n] = TRUE
          /\ given' = [m \in Nodes |-> given'[m]] /\ given'[n] = g
          /\ \A m \in Nodes \ {n} : /\ fnExtra'[m] = fnExtra[m]
                                    /\ fetching'[m] = fetching[m] /\ given'[m] = given[m]
      BY <1>1, <2>1
    <2>6. Fetching(n)'
      BY <1>3, <2>2, <2>3, <2>4, <2>5 DEF Fetching
    <2>7. NodeOK(n)'
      BY <1>2, <1>3, <2>4, <2>5, <2>6 DEF NodeOK
    <2>8. given'[n] = [eval |-> e, row |-> ctx.resrow + 1]
      BY <2>2, <2>4, <2>5
    <2> QED BY <1>3, <2>5, <2>7, <2>8 DEF OnNodes
  <1> QED BY <1>4, <1>5, <1>6

\* What EveryRowOnce says of one node.
RowOnce(n) ==
    \/ fnExtra'[n] # NoFuncContext /\ fnExtra'[n].rows = NoResult
    \/ /\ answered'[n].eval = eval'[n]
       /\ \/ RowsGiven(n)' = (IF eval'[n] = eval[n] THEN RowsGiven(n) ELSE 0) + 1
          \/ RowsGiven(n)' = answered'[n].rows /\ ~fetching'[n]

\* An evaluation begins: it has a context, and no result yet.
LEMMA FirstKeeps ==
    ASSUME SetInv, NEW n \in Nodes, NEW p \in Ptrs, FirstCall(n, p)
    PROVE  /\ OnNodes' /\ NodeOK(n)' /\ RowOnce(n) /\ Others(n)
           /\ \A m \in Nodes \ {n} : answered'[m] = answered[m]
           /\ waiting' \in {n, Nobody}
  <1> DEFINE e == EvalOf(n)
             ctx == [eval |-> e, rows |-> NoResult, resrow |-> 0]
  <1>1. OnNodes /\ NodeOK(n)
    BY DEF SetInv
  <1>2. Finished(n)
    BY <1>1, ContextIsSome DEF NodeOK, FirstCall, Fetching, Left
  <1>3. /\ eval[n] \in 0..MaxEvals /\ given[n] \in [eval : 0..eval[n], row : 0..MaxRows]
        /\ e = eval[n] + 1 /\ e <= MaxEvals /\ fetching[n] = FALSE
    BY <1>1, <1>2 DEF NodeOK, Finished, EvalOf, FirstCall
  <1>4. /\ eval' = [eval EXCEPT ![n] = e] /\ fnExtra' = [fnExtra EXCEPT ![n] = ctx]
        /\ fetching' = fetching /\ given' = given /\ answered' = answered
        /\ waiting' \in {n, Nobody}
    BY DEF FirstCall
  <1> HIDE DEF e
  <1>5. /\ ctx \in SetContexts /\ ctx.eval = e /\ ctx.rows = NoResult /\ ctx.resrow = 0
        /\ e \in 0..MaxEvals /\ given[n] \in [eval : 0..e, row : 0..MaxRows]
        /\ given[n].eval # e
    BY <1>3 DEF SetContexts
  <1> HIDE DEF ctx
  <1>6. /\ OnNodes' /\ Others(n) /\ fnExtra'[n] = ctx /\ eval'[n] = e
        /\ \A m \in Nodes \ {n} : answered'[m] = answered[m]
    BY <1>1, <1>4 DEF OnNodes, Others
  <1>7. Left(n)' /\ Asked(n)'
    BY <1>3, <1>4, <1>5, <1>6 DEF Left, Asked
  <1>8. NodeOK(n)'
    BY <1>4, <1>5, <1>6, <1>7 DEF NodeOK
  <1>9. RowOnce(n)
    BY <1>5, <1>6, ContextIsSome DEF RowOnce
  <1> QED BY <1>4, <1>6, <1>8, <1>9

\* The result of k rows arrives, and the first of them is given.
LEMMA ResultKeeps ==
    ASSUME SetInv, NEW n \in Nodes, NEW k \in RowCounts, GetResult(n, k)
    PROVE  /\ OnNodes' /\ NodeOK(n)' /\ RowOnce(n) /\ Others(n)
           /\ \A m \in Nodes \ {n} : answered'[m] = answered[m]
  <1> DEFINE e == eval[n]
             ctx == [fnExtra[n] EXCEPT !.rows = k]
  <1>1. OnNodes /\ NodeOK(n) /\ waiting = n
    BY DEF SetInv, GetResult
  <1>2. Asked(n) /\ Left(n)
    BY <1>1 DEF NodeOK, Asked
  <1>3. e \in 0..MaxEvals /\ given[n] \in [eval : 0..e, row : 0..MaxRows]
    BY <1>1 DEF NodeOK
  <1>4. /\ fnExtra[n] \in SetContexts /\ fnExtra[n].resrow = 0
        /\ fnExtra[n].eval = e /\ given[n].eval # e
    BY <1>2 DEF Asked, Left
  <1>5. /\ ReturnRow(n, ctx) /\ waiting' = Nobody /\ eval' = eval
        /\ answered' = [answered EXCEPT ![n] = [eval |-> e, rows |-> k]]
    BY DEF GetResult
  <1>6. ctx \in SetContexts /\ ctx.eval = e /\ ctx.rows = k /\ ctx.resrow = 0
    BY <1>4 DEF SetContexts
  <1>7. answered = [m \in Nodes |-> answered[m]] /\ eval = [m \in Nodes |-> eval[m]]
    BY <1>1 DEF OnNodes
  <1>8. eval' = [eval EXCEPT ![n] = e]
    BY <1>5, <1>7
  <1> HIDE DEF e, ctx
  <1>9. /\ answered' = [m \in Nodes |-> answered'[m]]
        /\ answered'[n] = [eval |-> e, rows |-> k]
        /\ \A m \in Nodes \ {n} : answered'[m] = answered[m]
    BY <1>5, <1>7
  <1>10. eval'[n] = e /\ eval[n] = e
    BY <1>5 DEF e
  <1>11. OnNodes' /\ NodeOK(n)' /\ Others(n) /\ Returned(n, ctx, e)
    <2>1. ctx.resrow \in 0..ctx.rows
      BY <1>6 DEF RowCounts
    <2>2. Ready(n, ctx, e)
      BY <1>3, <1>6, <1>9, <2>1 DEF Ready
    <2> QED BY <1>1, <1>3, <1>5, <1>6, <1>8, <1>9, <2>2, RowKeeps
  <1>12. RowOnce(n)
    <2>1. answered'[n].eval = e /\ answered'[n].rows = k
      BY <1>9
    <2>2. RowsGiven(n) = 0
      BY <1>4, <1>10 DEF RowsGiven
    <2>3. CASE given'[n] = [eval |-> e, row |-> ctx.resrow + 1]
      <3>1. RowsGiven(n)' = 1
        BY <1>6, <1>10, <2>3 DEF RowsGiven
      <3> QED BY <1>10, <2>1, <2>2, <3>1 DEF RowOnce
    <2>4. CASE given'[n] = given[n] /\ ctx.resrow = ctx.rows /\ ~fetching'[n]
      <3>1. k = 0 /\ RowsGiven(n)' = 0
        BY <1>4, <1>6, <1>10, <2>4 DEF RowsGiven
      <3> QED BY <1>10, <2>1, <2>4, <3>1 DEF RowOnce
    <2> QED BY <1>6, <1>11, <2>3, <2>4, NoResultIsNone DEF Returned
  <1> QED BY <1>9, <1>11, <1>12

\* An evaluation goes on, or one more finds what a refused connection left.
LEMMA LaterKeeps ==
    ASSUME SetInv, NEW n \in Nodes, NEW p \in Ptrs, LaterCall(n, p)
    PROVE  /\ OnNodes' /\ NodeOK(n)' /\ RowOnce(n) /\ Others(n)
           /\ \A m \in Nodes \ {n} : answered'[m] = answered[m]
  <1> DEFINE e == EvalOf(n)
             ctx == fnExtra[n]
  <1>1. OnNodes /\ NodeOK(n)
    BY DEF SetInv
  <1>2. Fetching(n) \/ Left(n)
    BY <1>1 DEF NodeOK, LaterCall, Finished
  <1>3. /\ eval' = [eval EXCEPT ![n] = e] /\ ReturnRow(n, ctx) /\ answered' = answered
        /\ e <= MaxEvals /\ waiting' = Nobody
    BY DEF LaterCall
  <1>4. /\ eval[n] \in 0..MaxEvals /\ given[n] \in [eval : 0..eval[n], row : 0..MaxRows]
        /\ e = IF fetching[n] THEN eval[n] ELSE eval[n] + 1
    BY <1>1 DEF NodeOK, EvalOf
  <1> HIDE DEF e
  <1>5. e \in 0..MaxEvals /\ given[n] \in [eval : 0..e, row : 0..MaxRows]
    BY <1>3, <1>4
  <1>6. ctx \in SetContexts
    BY <1>2 DEF Fetching, Left
  <1>7. answered = [m \in Nodes |-> answered[m]] /\ eval = [m \in Nodes |-> eval[m]]
    BY <1>1 DEF OnNodes
  <1>8. /\ answered' = [m \in Nodes |-> answered'[m]]
        /\ \A m \in Nodes : answered'[m] = answered[m]
        /\ eval'[n] = e
    BY <1>3, <1>7
  <1>9. CASE Fetching(n)
    <2>1. /\ e = eval[n] /\ ctx.eval = e /\ ctx.rows \in RowCounts
          /\ ctx.resrow \in 1..ctx.rows
          /\ given[n] = [eval |-> e, row |-> ctx.resrow]
          /\ answered[n] = [eval |-> e, rows |-> ctx.rows]
      BY <1>4, <1>9 DEF Fetching
    <2>2. ctx.resrow \in 0..ctx.rows /\ ctx.resrow \in Nat /\ ctx.rows # NoResult
      BY <2>1, NoResultIsNone DEF RowCounts
    <2> HIDE DEF ctx
    <2>3. OnNodes' /\ NodeOK(n)' /\ Others(n) /\ Returned(n, ctx, e)
      <3>1. Ready(n, ctx, e)
        BY <1>5, <1>8, <2>1, <2>2 DEF Ready
      <3> QED BY <1>1, <1>3, <1>5, <1>6, <1>8, <3>1, RowKeeps
    <2>4. RowsGiven(n) = ctx.resrow
      BY <2>1 DEF RowsGiven
    <2>5. answered'[n].eval = eval'[n] /\ answered'[n].rows = ctx.rows /\ eval'[n] = eval[n]
      BY <1>8, <2>1
    <2>6. CASE given'[n] = [eval |-> e, row |-> ctx.resrow + 1]
      <3>1. RowsGiven(n)' = ctx.resrow + 1
        BY <1>8, <2>6 DEF RowsGiven
      <3> QED BY <1>8, <2>3, <2>4, <2>5, <3>1 DEF RowOnce
    <2>7. CASE given'[n] = given[n] /\ ctx.resrow = ctx.rows /\ ~fetching'[n]
      <3>1. RowsGiven(n)' = ctx.rows
        BY <1>8, <2>1, <2>7 DEF RowsGiven
      <3> QED BY <1>8, <2>3, <2>5, <2>7, <3>1 DEF RowOnce
    <2> QED BY <2>2, <2>3, <2>6, <2>7 DEF Returned
  <1>10. CASE Left(n)
    <2>1. ctx.rows = NoResult /\ ctx.resrow = 0
      BY <1>10 DEF Left
    <2> HIDE DEF ctx
    <2>2. OnNodes' /\ NodeOK(n)' /\ Others(n)
      <3>1. Ready(n, ctx, e)
        BY <1>5, <2>1 DEF Ready
      <3> QED BY <1>1, <1>3, <1>5, <1>6, <1>8, <3>1, RowKeeps
    <2>3. fnExtra'[n] = ctx
      <3>1. fnExtra' = [fnExtra EXCEPT ![n] = ctx]
        BY <1>3, <2>1 DEF ReturnRow
      <3>2. fnExtra = [m \in Nodes |-> fnExtra[m]]
        BY <1>1 DEF OnNodes
      <3> QED BY <3>1, <3>2
    <2>4. RowOnce(n)
      BY <1>6, <2>1, <2>3, ContextIsSome DEF RowOnce
    <2> QED BY <1>8, <2>2, <2>4
  <1> QED BY <1>2, <1>9, <1>10

\* A node of which nothing changes keeps its kind.
LEMMA OtherKeeps ==
    ASSUME NEW m \in Nodes, NodeOK(m),
           fnExtra'[m] = fnExtra[m], eval'[m] = eval[m], fetching'[m] = fetching[m],
           given'[m] = given[m], answered'[m] = answered[m], waiting' # m
    PROVE  NodeOK(m)'
  BY DEF NodeOK, Fetching, Finished, Left, NoFuncContext

\* Every lookup of a call is one the cache allows.
LEMMA CacheOfSets ==
    ASSUME CacheInv,
           \/ \E f \in Funcs, p \in Ptrs : GetProcInfo(f, p)
           \/ \E f \in Funcs : GetProcInfoFails(f)
           \/ CatalogChange
           \/ UNCHANGED <<cacheVars, catalogVars>>
    PROVE  CacheInv'
  BY CacheStep DEF CacheNext, vars

\* The steps of a node that leave the others alone.
LEMMA NodeKeeps ==
    ASSUME SetInv, NEW n \in Nodes, OnNodes', NodeOK(n)', Others(n), CacheInv',
           \A m \in Nodes \ {n} : answered'[m] = answered[m],
           waiting' \in {n, Nobody}
    PROVE  SetInv'
  <1>1. \A m \in Nodes \ {n} : waiting' # m
    OBVIOUS
  <1>2. \A m \in Nodes \ {n} : NodeOK(m)'
    BY <1>1, OtherKeeps DEF SetInv, Others
  <1> QED BY <1>2 DEF SetInv

\* A call of the handler for one node.
LEMMA CallForRowKeeps ==
    ASSUME SetInv, NEW n \in Nodes, NextCall(n)
    PROVE  SetInv' /\ RowOnce(n)
  <1>1. PICK p \in Ptrs : FirstCall(n, p) \/ LaterCall(n, p)
    BY DEF NextCall
  <1>2. /\ OnNodes' /\ NodeOK(n)' /\ RowOnce(n) /\ Others(n)
        /\ \A m \in Nodes \ {n} : answered'[m] = answered[m]
        /\ waiting' \in {n, Nobody}
    BY <1>1, FirstKeeps, LaterKeeps DEF LaterCall
  <1>3. GetProcInfo(FuncOf[n], p) /\ FuncOf[n] \in Funcs
    BY <1>1 DEF FirstCall, LaterCall
  <1>4. CacheInv'
    BY <1>3, CacheOfSets DEF SetInv
  <1> QED BY <1>2, <1>4, NodeKeeps

\* The end of the request of one node.
LEMMA ResultForRowKeeps ==
    ASSUME SetInv, NEW n \in Nodes, NextResult(n)
    PROVE  SetInv' /\ RowOnce(n)
  <1>1. PICK k \in RowCounts : GetResult(n, k)
    BY DEF NextResult
  <1>2. /\ OnNodes' /\ NodeOK(n)' /\ RowOnce(n) /\ Others(n)
        /\ \A m \in Nodes \ {n} : answered'[m] = answered[m]
    BY <1>1, ResultKeeps
  <1>3. waiting' = Nobody /\ UNCHANGED <<cacheVars, catalogVars>>
    BY <1>1 DEF GetResult
  <1>4. CacheInv'
    BY <1>3, CacheOfSets DEF SetInv
  <1> QED BY <1>2, <1>3, <1>4, NodeKeeps

\* A lookup, with or without success.
LEMMA LookedUpKeeps ==
    ASSUME CacheInv, NEW f \in Funcs, LookedUp(f)
    PROVE  CacheInv'
  BY CacheOfSets DEF LookedUp

\* An evaluation that is cut short, and a query that fails, leave no context.
LEMMA EndKeeps ==
    ASSUME SetInv, (\E n \in Nodes : EndEarly(n)) \/ QueryFails
    PROVE  SetInv'
  <1>1. OnNodes /\ \A m \in Nodes : NodeOK(m)
    BY DEF SetInv
  <1>2. CacheInv'
    <2>1. CASE \E n \in Nodes : EndEarly(n)
      BY <2>1, CacheOfSets DEF SetInv, EndEarly
    <2>2. CASE QueryFails
      <3>1. (\E f \in Funcs : LookedUp(f)) \/ UNCHANGED <<cacheVars, catalogVars>>
        BY <2>2 DEF QueryFails
      <3> QED BY <3>1, LookedUpKeeps, CacheOfSets DEF SetInv
    <2> QED BY <2>1, <2>2
  <1>3. /\ OnNodes' /\ waiting' = Nobody
        /\ \A m \in Nodes : /\ \/ Finished(m)'
                               \/ fnExtra'[m] = fnExtra[m] /\ fetching'[m] = fetching[m]
                            /\ eval'[m] = eval[m] /\ given'[m] = given[m]
                            /\ answered'[m] = answered[m]
    BY <1>1 DEF OnNodes, EndEarly, QueryFails, Finished, NoFuncContext
  <1>4. ASSUME NEW m \in Nodes PROVE NodeOK(m)'
    <2>1. waiting' # m
      BY <1>3
    <2>2. CASE Finished(m)'
      BY <1>1, <1>3, <2>1, <2>2 DEF NodeOK
    <2>3. CASE fnExtra'[m] = fnExtra[m] /\ fetching'[m] = fetching[m]
      BY <1>1, <1>3, <2>1, <2>3, OtherKeeps
    <2> QED BY <1>3, <2>2, <2>3
  <1> QED BY <1>2, <1>3, <1>4 DEF SetInv

\* Steps that leave the nodes alone.
LEMMA NodesKept ==
    ASSUME SetInv, UNCHANGED setVars, CacheInv'
    PROVE  SetInv'
  BY DEF SetInv, setVars, OnNodes, NodeOK, Asked, Fetching, Finished, Left,
         NoFuncContext

LEMMA SetStart == SetInit => SetInv
  <1> SUFFICES ASSUME SetInit PROVE SetInv
    OBVIOUS
  <1>1. CacheInv /\ OnNodes
    BY CacheStart DEF SetInit, OnNodes
  <1>2. ASSUME NEW n \in Nodes PROVE NodeOK(n)
    BY DEF SetInit, NodeOK, Finished
  <1>3. waiting = Nobody
    BY DEF SetInit
  <1> QED BY <1>1, <1>2, <1>3 DEF SetInv

\* The invariant is inductive.
LEMMA SetStep == SetInv /\ [SetNext]_setAllVars => SetInv'
  <1> SUFFICES ASSUME SetInv, [SetNext]_setAllVars PROVE SetInv'
    OBVIOUS
  <1>1. ASSUME NEW n \in Nodes, NextCall(n) \/ NextResult(n) PROVE SetInv'
    BY <1>1, CallForRowKeeps, ResultForRowKeeps
  <1>2. CASE (\E n \in Nodes : EndEarly(n)) \/ QueryFails
    BY <1>2, EndKeeps
  <1>3. ASSUME NEW f \in Funcs, OtherCall(f) PROVE SetInv'
    <2>1. CacheInv'
      BY <1>3, LookedUpKeeps DEF SetInv, OtherCall
    <2> QED BY <1>3, <2>1, NodesKept DEF OtherCall
  <1>4. CASE CatalogChange /\ UNCHANGED setVars
    <2>1. CacheInv'
      BY <1>4, CacheOfSets DEF SetInv
    <2> QED BY <1>4, <2>1, NodesKept
  <1>5. CASE UNCHANGED setAllVars
    <2>1. CacheInv'
      BY <1>5, CacheOfSets DEF SetInv, setAllVars
    <2> QED BY <1>5, <2>1, NodesKept DEF setAllVars
  <1> QED BY <1>1, <1>2, <1>3, <1>4, <1>5 DEF SetNext

LEMMA SetInvariance == SetSpec => []SetInv
  BY SetStart, SetStep, PTL DEF SetSpec

-----------------------------------------------------------------------------
(* Theorems.                                                               *)

\* Each evaluation gives the rows of its own request, each once, and ends after
\* the last, for any number of nodes, rows and evaluations.
THEOREM RowsOnce == SetSpec => EveryRowOnce
  <1>1. SetInv /\ [SetNext]_setAllVars =>
           [\A n \in Nodes : NextCall(n) \/ NextResult(n) =>
              \/ fnExtra'[n] # NoFuncContext /\ fnExtra'[n].rows = NoResult
              \/ /\ answered'[n].eval = eval'[n]
                 /\ \/ RowsGiven(n)' = (IF eval'[n] = eval[n] THEN RowsGiven(n) ELSE 0) + 1
                    \/ RowsGiven(n)' = answered'[n].rows /\ ~fetching'[n]]_setAllVars
    BY CallForRowKeeps, ResultForRowKeeps DEF RowOnce
  <1> QED BY <1>1, SetInvariance, PTL DEF SetSpec, EveryRowOnce

\* Nodes, contexts and rows keep their types.
THEOREM SetTypeCorrect == SetSpec => []SetTypeOK
  <1>1. ASSUME SetInv, NEW n \in Nodes
        PROVE  /\ fnExtra[n] # NoFuncContext =>
                    /\ fnExtra[n].rows \in RowCounts \cup {NoResult}
                    /\ fnExtra[n].resrow \in 0..MaxRows
               /\ fetching[n] => fnExtra[n] # NoFuncContext
               /\ eval[n] \in 0..MaxEvals
               /\ given[n].row \in 0..MaxRows
    <2>1. NodeOK(n)
      BY <1>1 DEF SetInv
    <2>2. eval[n] \in 0..MaxEvals /\ given[n].row \in 0..MaxRows
      BY <2>1 DEF NodeOK
    <2>3. CASE Fetching(n)
      <3>1. /\ fnExtra[n] \in SetContexts /\ fnExtra[n].rows \in RowCounts
            /\ fnExtra[n].resrow \in 1..fnExtra[n].rows
        BY <2>3 DEF Fetching
      <3>2. fnExtra[n].resrow \in 0..MaxRows
        BY <3>1 DEF RowCounts
      <3> QED BY <2>2, <3>1, <3>2, ContextIsSome
    <2>4. CASE Finished(n)
      BY <2>2, <2>4 DEF Finished
    <2>5. CASE Left(n)
      BY <2>2, <2>5 DEF Left
    <2> QED BY <2>1, <2>3, <2>4, <2>5 DEF NodeOK
  <1>2. ASSUME SetInv, waiting # Nobody
        PROVE  fnExtra[waiting] # NoFuncContext /\ fnExtra[waiting].rows = NoResult
    <2>1. waiting \in Nodes
      BY <1>2 DEF SetInv
    <2>2. Left(waiting)
      BY <1>2, <2>1 DEF SetInv, NodeOK, Asked
    <2> QED BY <2>2, ContextIsSome DEF Left
  <1>3. SetInv => SetTypeOK
    BY <1>1, <1>2 DEF SetTypeOK, SetInv, CacheInv
  <1> QED BY <1>3, SetInvariance, PTL
-----------------------------------------------------------------------------
(* The calls for the rows use the cache as FunctionCache says.             *)

\* Each call for a row looks its function up, and nothing else touches the cache.
LEMMA SetsUseCache == [SetNext]_setAllVars => [CacheNext]_vars
  <1> SUFFICES ASSUME [SetNext]_setAllVars PROVE [CacheNext]_vars
    OBVIOUS
  <1>1. ASSUME NEW n \in Nodes, NextCall(n)
        PROVE  CacheNext
    <2>1. PICK p \in Ptrs : GetProcInfo(FuncOf[n], p)
      BY <1>1 DEF NextCall, LaterCall, FirstCall
    <2> QED BY <2>1 DEF CacheNext
  <1>2. ASSUME NEW n \in Nodes, EndEarly(n) \/ NextResult(n)
        PROVE  UNCHANGED vars
    BY <1>2 DEF EndEarly, NextResult, GetResult, vars
  <1>3. ASSUME QueryFails
        PROVE  CacheNext \/ UNCHANGED vars
    BY <1>3 DEF QueryFails, LookedUp, CacheNext, vars
  <1>4. ASSUME NEW f \in Funcs, OtherCall(f)
        PROVE  CacheNext
    BY <1>4 DEF OtherCall, LookedUp, CacheNext
  <1>5. ASSUME CatalogChange
        PROVE  CacheNext
    BY <1>5 DEF CacheNext
  <1>6. ASSUME UNCHANGED setAllVars
        PROVE  UNCHANGED vars
    BY <1>6 DEF setAllVars, vars
  <1> QED BY <1>1, <1>2, <1>3, <1>4, <1>5, <1>6 DEF SetNext

\* The rows of any number of nodes, taken in any order and given up early, are
\* fetched through one cache that behaves as FunctionCache on its own ...
THEOREM SetsRefineCache == SetSpec => CacheSpec
  <1>1. SetInit => CacheInit
    BY DEF SetInit
  <1> QED BY <1>1, SetsUseCache, PTL DEF SetSpec, CacheSpec, vars

\* ... and so is an LRU cache of the functions called last.
THEOREM SetsRefineLru == SetSpec => LruSpec
  BY SetsRefineCache, LruRefined, PTL
=============================================================================
